------------------------------- MODULE Orders -------------------------------
(***************************************************************************)
(* The order vocabulary of internal/models and the pure predicates the     *)
(* matching engine and the order book apply to a single order: defaulting, *)
(* validation, crossing, resting, stop triggering and the heap order.      *)
(*                                                                         *)
(* Prices and quantities are naturals: the code compares prices and takes  *)
(* minima of quantities, and 0 stands for "unset" or "not positive".       *)
(*                                                                         *)
(* Here and in the other modules, an operator named Op_Fault is Op with a  *)
(* plausible bug.  No specification uses it: substituted for Op, it must   *)
(* make the property it is listed with in PROJECT.json fail.               *)
(***************************************************************************)
EXTENDS Naturals

Sides == {"BUY", "SELL"}

Types == {"LIMIT", "MARKET", "STOP"}

TIFs == {"GTC", "IOC", "FOK"}

\* Two are not constants of the code: no order exists under an "UNSENT" ID, and
\* "TORN" is what two unsynchronised writes may leave of a two-word Go string.
Statuses == {"UNSENT", "NEW", "PENDING", "PARTIALLY_FILLED", "FILLED",
             "CANCELLED", "REJECTED", "TORN"}

\* What a caller may hand to the engine: type and time in force may be unset,
\* and only isValid stands between an unknown side and the matching loop.
Request == [side: Sides \cup {"NONE"}, type: Types \cup {""},
            tif: TIFs \cup {""}, price: Nat, stopPrice: Nat, qty: Nat,
            stamp: Nat]

Opposite(side) == IF side = "BUY" THEN "SELL" ELSE "BUY"

normalize(r) ==
  [r EXCEPT !.type  = IF @ = "" THEN "LIMIT" ELSE @,
            !.tif   = IF @ = "" THEN "GTC" ELSE @,
            !.price = IF r.type = "MARKET" THEN 0 ELSE @]

isValid(r) ==
  /\ r.qty > 0
  /\ r.type = "LIMIT" => r.price > 0
  /\ r.type = "STOP" => r.stopPrice > 0
  /\ r.side \in Sides

\* Mutant: the comparison is strict.
crosses_Strict(r, price) ==
  \/ r.type = "MARKET"
  \/ r.side = "BUY" /\ r.price > price
  \/ r.side = "SELL" /\ r.price < price

\* Is `price' inside the limit of r?  A market order has no limit.
crosses(r, price) ==
  \/ r.type = "MARKET"
  \/ r.side = "BUY" /\ r.price >= price
  \/ r.side = "SELL" /\ r.price <= price

\* Mutant: the time in force is forgotten.
canRest_AnyTif(r) == r.type = "LIMIT"

canRest(r) == r.type = "LIMIT" /\ r.tif = "GTC"

\* Mutant: a price at the trigger does not fire it.
stopTriggered_Strict(r, lastPrice) ==
  IF r.side = "BUY" THEN lastPrice > r.stopPrice
                    ELSE lastPrice < r.stopPrice

stopTriggered(r, lastPrice) ==
  IF r.side = "BUY" THEN lastPrice >= r.stopPrice
                    ELSE lastPrice <= r.stopPrice

\* The executable form of a triggered stop.
activated(r) == [r EXCEPT !.type = IF r.price > 0 THEN "LIMIT" ELSE "MARKET"]

\* The heap order of one side: better price first, then the earlier stamp.
Better(r, s) ==
  \/ r.side = "BUY" /\ r.price > s.price
  \/ r.side = "SELL" /\ r.price < s.price
  \/ r.price = s.price /\ r.stamp < s.stamp

\* What an order offers the other side, however it is written down: a side and
\* a limit price, 0 for none.  Defaulting and triggering leave it alone.
TermsOf(r) == [side |-> r.side, limit |-> IF r.type = "MARKET" THEN 0 ELSE r.price]

=============================================================================
