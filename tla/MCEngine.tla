------------------------------ MODULE MCEngine ------------------------------
(***************************************************************************)
(* Small venues for TLC: which requests a client may send under each ID.   *)
(* Prices are ticks 1..4.                                                  *)
(***************************************************************************)
EXTENDS Engine

Req(side, type, tif, price, stopPrice, qty, stamp) ==
  [side |-> side, type |-> type, tif |-> tif, price |-> price,
   stopPrice |-> stopPrice, qty |-> qty, stamp |-> stamp]

\* A cancel at any moment among five orders: resting asks, stops of either side
\* that set each other off, an aggressor of every kind, bids that rest when the
\* asks are gone, an invalid order.
VenueOffers ==
  <<{Req("SELL", "LIMIT", "GTC", 2, 0, 2, 1)},
    {Req("SELL", "LIMIT", "GTC", 3, 0, 1, 2), Req("SELL", "LIMIT", "GTC", 2, 0, 1, 2)},
    {Req("BUY", "STOP", "GTC", 3, 2, 1, 3), Req("BUY", "STOP", "FOK", 0, 2, 2, 3)},
    {Req("BUY", "STOP", "GTC", 3, 3, 1, 4), Req("SELL", "STOP", "GTC", 0, 2, 1, 4)},
    {Req("BUY", "LIMIT", "GTC", 3, 0, 3, 5), Req("BUY", "LIMIT", "IOC", 2, 0, 3, 5),
     Req("BUY", "MARKET", "FOK", 0, 0, 2, 5), Req("SELL", "", "", 3, 0, 1, 5),
     Req("NONE", "LIMIT", "GTC", 1, 0, 1, 5)}>>

\* A cancel racing one aggressor through two asks and a stop, which finds an
\* ask left or none, with shutdown.
AnswerOffers ==
  <<{Req("SELL", "LIMIT", "GTC", 2, 0, 2, 1), Req("BUY", "STOP", "GTC", 2, 1, 1, 1)},
    {Req("SELL", "LIMIT", "GTC", 1, 0, 1, 2), Req("SELL", "LIMIT", "GTC", 1, 0, 3, 2),
     Req("BUY", "STOP", "GTC", 2, 1, 1, 2)},
    {Req("BUY", "LIMIT", "GTC", 2, 0, 2, 3), Req("BUY", "", "FOK", 2, 0, 2, 3)}>>

=============================================================================
