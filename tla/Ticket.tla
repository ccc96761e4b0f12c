------------------------------- MODULE Ticket -------------------------------
(***************************************************************************)
(* The order ticket as its user works it: its inputs, its effects and its  *)
(* submissions (web/components/OrderTicketPanel.tsx), the identity it      *)
(* trades under and the orders it tracks (web/lib/trader.ts), as the page  *)
(* wires them (web/app/page.tsx), with PlaceOrder at the other end.        *)
(*                                                                         *)
(* React runs the effects a step sets off before the next event, so a step *)
(* ends with them.  Prices have no decimals: toFixed(2) loses nothing.     *)
(***************************************************************************)
EXTENDS Integers, SequencesExt, FiniteSetsExt

CONSTANTS
  Typed,       \* numbers an input may hold; those below 1 are below its min
  Exp,         \* "1e1", which a number input reads as ten and parseInt as one
  Blank,       \* an empty input
  Quotes,      \* [best_bid, best_ask, mid], None where a side is empty
  Cash,        \* the account's cash
  Holdings,    \* positions an account may show
  Percents,    \* SIZE_PRESETS
  Kept,        \* orders of an earlier visit, as the browser's storage has them
  MaxTracked,  \* MAX_TRACKED_ORDERS
  MaxTraders,  \* bound: identities
  MaxSubmits,  \* bound: requests sent
  None

\* The prices of a book are positive.
ASSUME TicketAssumption ==
  /\ Typed \subseteq Nat /\ Holdings \subseteq Nat /\ Cash \in Nat /\ Percents \subseteq 1..100
  /\ {MaxTracked, MaxTraders, MaxSubmits} \subseteq Nat \ {0}
  /\ Kept \in Seq(Int \ 1..MaxSubmits) /\ IsInjective(Kept) /\ Len(Kept) <= MaxTracked
  /\ \A q \in Quotes : q = None \/ {q.best_bid, q.best_ask, q.mid} \subseteq (Nat \ {0}) \cup {None}

VARIABLES
  \* the page
  trader,    \* traderId, None until it is hydrated
  tracked,   \* myOrderIds, newest first
  symbol,    \* whether it has an instrument
  quote,     \* depth, as far as the ticket reads it
  account,   \* the position of the account last polled, None before
  \* the ticket
  ticket,    \* side, type, tif and the texts of price, stop and size
  state,     \* SubmitState
  posts,     \* submissions in flight, and whether the server's checks let them pass
  timers,    \* reset timers not fired, by submission
  \* the exchange
  placed,    \* submissions that became orders
  \* bookkeeping
  submits,
  early      \* history: a reset timer fired during a later submission

page == <<trader, tracked, symbol, quote, account>>
form == <<ticket, state, posts, timers, submits, early>>
vars == <<page, form, placed>>

Numbers == 1..MaxSubmits

-----------------------------------------------------------------------------
(* The ticket *)

EMPTY_TICKET == [side |-> "BUY", type |-> "LIMIT", tif |-> "GTC",
                 price |-> Blank, stop |-> Blank, size |-> Blank]

midOf(q) == IF q = None THEN None ELSE q.mid

\* A blank price is seeded once there is a mid, and a market order is not GTC.
Effects(t, q) ==
  [t EXCEPT !.price = IF @ = Blank /\ midOf(q) # None THEN midOf(q) ELSE @,
            !.tif   = IF t.type = "MARKET" /\ @ = "GTC" THEN "IOC" ELSE @]

\* The browser's own check of the inputs, which a disabled one is exempt from.
nativelyValid(t) ==
  LET passes(text) == text \notin {Blank, Exp} => text >= 1
  IN  /\ t.type # "MARKET" => passes(t.price)
      /\ t.type = "STOP" => passes(t.stop)
      /\ passes(t.size)

parse(text) == CASE text = Blank -> None [] text = Exp -> 1 [] OTHER -> text

positive(number) == number # None /\ number > 0

\* Mutant: the trigger of a stop is not looked at.
validate_NoStop(type, price, stop, quantity) ==
  /\ type = "LIMIT" => positive(price)
  /\ positive(quantity)

validate(type, price, stop, quantity) ==
  /\ type = "LIMIT" => positive(price)
  /\ type = "STOP" => positive(stop)
  /\ positive(quantity)

orZero(number) == IF number = None THEN 0 ELSE number

Request(t) ==
  [trader_id |-> trader, side |-> t.side, type |-> t.type, time_in_force |-> t.tif,
   price      |-> IF t.type = "MARKET" THEN 0 ELSE orZero(parse(t.price)),
   stop_price |-> IF t.type = "STOP" THEN orZero(parse(t.stop)) ELSE 0,
   quantity   |-> orZero(parse(t.size))]

referencePrice(t, q) ==
  LET touch == IF q = None THEN None ELSE IF t.side = "BUY" THEN q.best_ask ELSE q.best_bid
  IN  IF t.type # "MARKET" /\ positive(parse(t.price)) THEN parse(t.price)
      ELSE IF touch # None THEN touch ELSE midOf(q)

\* The size a percentage button fills in, None when it does nothing.
applyPercent(t, q, held, percent) ==
  LET price == referencePrice(t, q)
  IN  IF t.side = "SELL" /\ held > 0 THEN (held * percent) \div 100
      ELSE IF price = None THEN None
      ELSE (Cash * percent) \div (100 * price)

\* What PlaceOrder checks of a request.
serverAccepts(r) ==
  /\ r.trader_id # None
  /\ r.side \in {"BUY", "SELL"} /\ r.type \in {"LIMIT", "MARKET", "STOP"}
  /\ r.time_in_force \in {"GTC", "IOC", "FOK"}
  /\ r.type = "LIMIT" => r.price > 0
  /\ r.type = "STOP" => r.stop_price > 0
  /\ r.quantity > 0

-----------------------------------------------------------------------------
(* The page *)

\* The identity and the orders tracked are read back from the browser's storage; a
\* storage that cannot be read gives none.
Hydrate ==
  /\ trader = None
  /\ trader' = 1
  /\ tracked' \in {Kept, <<>>}
  /\ UNCHANGED <<symbol, quote, account, form, placed>>

\* regenerate: a new identity.
Regenerate ==
  /\ trader # None /\ trader < MaxTraders
  /\ trader' = trader + 1
  /\ UNCHANGED <<tracked, symbol, quote, account, form, placed>>

\* The list of instruments arrives, and the default one is adopted.
Symbols ==
  /\ ~symbol
  /\ symbol' = TRUE
  /\ UNCHANGED <<trader, tracked, quote, account, form, placed>>

\* The depth of the instrument.
Quote(q) ==
  /\ symbol
  /\ quote' = q
  /\ ticket' = Effects(ticket, q)
  /\ UNCHANGED <<trader, tracked, symbol, account, state, posts, timers, submits, early, placed>>

AccountArrives ==
  /\ trader # None
  /\ account' \in Holdings
  /\ UNCHANGED <<trader, tracked, symbol, quote, form, placed>>

-----------------------------------------------------------------------------
(* The ticket's events *)

Change(t) ==
  /\ ticket' = Effects(t, quote)
  /\ UNCHANGED <<page, state, posts, timers, submits, early, placed>>

setSide == \E s \in {"BUY", "SELL"} : Change([ticket EXCEPT !.side = s])
setOrderType == \E k \in {"LIMIT", "MARKET", "STOP"} : Change([ticket EXCEPT !.type = k])

\* GTC is not to be had for a market order.
setTif ==
  \E f \in {"GTC", "IOC", "FOK"} :
    /\ ~(ticket.type = "MARKET" /\ f = "GTC")
    /\ Change([ticket EXCEPT !.tif = f])

\* The price input is disabled for a market order, the stop shown for a stop.
setPrice ==
  /\ ticket.type # "MARKET"
  /\ \E text \in Typed \cup {Blank} : Change([ticket EXCEPT !.price = text])

setStopPrice ==
  /\ ticket.type = "STOP"
  /\ \E text \in Typed \cup {Blank} : Change([ticket EXCEPT !.stop = text])

setSize == \E text \in Typed \cup {Blank, Exp} : Change([ticket EXCEPT !.size = text])

preset ==
  /\ account # None
  /\ \E percent \in Percents :
       LET size == applyPercent(ticket, quote, account, percent)
       IN  size # None /\ Change([ticket EXCEPT !.size = size])

\* A click on a level of the ladder.
handleSelectPrice(price, side) ==
  Change([ticket EXCEPT !.price = price, !.type = "LIMIT",
                        !.side = IF side = "SELL" THEN "BUY" ELSE "SELL"])

ladder ==
  /\ quote # None
  /\ \/ quote.best_bid # None /\ handleSelectPrice(quote.best_bid, "BUY")
     \/ quote.best_ask # None /\ handleSelectPrice(quote.best_ask, "SELL")

Edit == setSide \/ setOrderType \/ setTif \/ setPrice \/ setStopPrice \/ setSize
        \/ preset \/ ladder

-----------------------------------------------------------------------------
(* Submitting *)

\* Mutant: the button stays enabled and a submission does not look at the state.
submittable_Always == trader # None /\ symbol

submittable == trader # None /\ symbol /\ state # "submitting"

fails(t) ==
  ~validate(t.type, IF t.type = "MARKET" THEN 0 ELSE parse(t.price),
            IF t.type = "STOP" THEN parse(t.stop) ELSE 0, parse(t.size))

handleSubmit ==
  /\ submittable
  /\ submits < MaxSubmits
  /\ nativelyValid(ticket)
  /\ IF fails(ticket)
     THEN /\ state' = "error"
          /\ UNCHANGED <<posts, submits>>
     ELSE /\ state' = "submitting"
          /\ submits' = submits + 1
          /\ posts' = posts \cup {[n |-> submits + 1,
                                   passes |-> serverAccepts(Request(ticket)), phase |-> "sent"]}
  /\ UNCHANGED <<page, ticket, timers, early, placed>>

InPhase(p, phase) == (posts \ {p}) \cup {[p EXCEPT !.phase = phase]}

\* The server takes the order, or refuses it: saturated, or not recorded.
PlaceOrder(p) ==
  /\ p.phase = "sent"
  /\ \/ /\ p.passes
        /\ posts' = InPhase(p, "accepted")
        /\ placed' = placed \cup {p.n}
     \/ /\ posts' = InPhase(p, "refused")
        /\ UNCHANGED placed
  /\ UNCHANGED <<page, ticket, state, timers, submits, early>>

\* Mutant: the cap is not kept.
trackOrder_Uncapped(n) == IF n \in ToSet(tracked) THEN tracked ELSE <<n>> \o tracked

trackOrder(n) ==
  IF n \in ToSet(tracked) THEN tracked
  ELSE SubSeq(<<n>> \o tracked, 1, Min({Len(tracked) + 1, MaxTracked}))

\* The answer is good: the order is tracked and a timer resets the ticket later.
onSubmitted(p) ==
  /\ p.phase = "accepted"
  /\ posts' = posts \ {p}
  /\ tracked' = trackOrder(p.n)
  /\ state' = "success"
  /\ timers' = timers \cup {p.n}
  /\ UNCHANGED <<trader, symbol, quote, account, ticket, submits, early, placed>>

\* Mutant: an answer that never comes leaves the ticket as it is.
fail_Silent(p) ==
  /\ posts' = posts \ {p}
  /\ state' = IF p.phase = "refused" THEN "error" ELSE state
  /\ UNCHANGED <<page, ticket, timers, submits, early, placed>>

\* The answer is an error, or there is none: the order may have been taken.
fail(p) ==
  /\ posts' = posts \ {p}
  /\ state' = "error"
  /\ UNCHANGED <<page, ticket, timers, submits, early, placed>>

\* A timer is cleared by nothing, a later submission included.
resetTimer(n) ==
  /\ n \in timers
  /\ timers' = timers \ {n}
  /\ state' = "idle"
  /\ early' = (early \/ posts # {})
  /\ UNCHANGED <<page, ticket, posts, submits, placed>>

-----------------------------------------------------------------------------

Init ==
  /\ trader = None /\ tracked = <<>> /\ symbol = FALSE /\ quote = None /\ account = None
  /\ ticket = EMPTY_TICKET /\ state = "idle" /\ posts = {} /\ timers = {}
  /\ placed = ToSet(Kept)
  /\ submits = 0 /\ early = FALSE

Submission(p) == PlaceOrder(p) \/ onSubmitted(p) \/ fail(p)

Next ==
  \/ Hydrate \/ Regenerate \/ Symbols \/ AccountArrives \/ Edit \/ handleSubmit
  \/ \E q \in Quotes : Quote(q)
  \/ \E p \in posts : Submission(p)
  \/ \E n \in Numbers : resetTimer(n)

Spec == Init /\ [][Next]_vars

-----------------------------------------------------------------------------
(* Properties *)

Texts == Nat \cup {Blank, Exp}

\* Type invariant; what is tracked was placed, once each, within the cap.
TypeOK ==
  /\ trader \in 1..MaxTraders \cup {None}
  /\ Len(tracked) <= MaxTracked /\ IsInjective(tracked)
  /\ ToSet(tracked) \subseteq placed /\ placed \subseteq Numbers \cup ToSet(Kept)
  /\ symbol \in BOOLEAN
  /\ quote \in Quotes \cup {None} /\ account \in Holdings \cup {None}
  /\ {ticket.price, ticket.stop, ticket.size} \subseteq Texts
  /\ state \in {"idle", "submitting", "success", "error"}
  /\ \A p \in posts : p.n \in Numbers /\ p.phase \in {"sent", "accepted", "refused"}
  /\ timers \subseteq Numbers /\ submits \in 0..MaxSubmits

\* Whatever has been typed, clicked, preset, seeded and switched, a request sent
\* passes every check of the server's (OrderTicketPanel.tsx:38 "Mirrors the
\* engine's server-side checks"), and no market order can be sent as GTC (:114).
SentPassesServer ==
  /\ \A p \in posts : p.passes
  /\ ticket.type = "MARKET" => ticket.tif # "GTC"

\* No order is sent while one is on its way, except after a reset timer of an
\* earlier submission has fired during a later one: it re-enables the ticket.
OneAtATime == Cardinality(posts) > 1 => early

\* A ticket that says it is working has a request in flight: no order of answers
\* and timers wedges it.
WorkingIsInFlight == state = "submitting" => posts # {}
=============================================================================
