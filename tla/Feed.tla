-------------------------------- MODULE Feed --------------------------------
(***************************************************************************)
(* How the terminal follows the prints and the orders of one instrument:   *)
(* the engines' events through the broker (internal/stream), the event     *)
(* stream that serves one browser (internal/api/stream.go), and the store  *)
(* the browser builds from the stream and from a seed it reads over REST   *)
(* (web/lib/stream.ts).  The book has a feed of its own: BookFeed.         *)
(*                                                                         *)
(* A venue is reduced to what the feed can tell apart: one order that      *)
(* rests and is filled a unit at a time, and the prints, numbered as they  *)
(* are made.  What makes an engine trade is Engine's business.             *)
(***************************************************************************)
EXTENDS Integers, SequencesExt

CONSTANTS
  Symbols,
  Size,        \* Size[s]: quantity of the order that rests at s
  Buffer,      \* subscriberBuffer
  MaxTrades,   \* MAX_TRADES
  MaxConnects, \* bound: symbol changes and reloads of the page
  MaxCuts,     \* bound: connections the network breaks
  None

ASSUME FeedAssumption ==
  /\ Size \in [Symbols -> Nat \ {0}]
  /\ {Buffer, MaxTrades, MaxConnects} \subseteq Nat \ {0}
  /\ MaxCuts \in Nat
  /\ None \notin Symbols

VARIABLES
  \* the venues
  stage,   \* stage[s]: "new", "resting", "filled" or "cancelled"
  left,    \* what is left of the resting order
  \* one client's subscription and the goroutine that serves it
  link,    \* "closed", "dialling", "subscribed" or "open"
  ch,      \* subscriber.ch, and what of it is on its way to the browser
  \* the browser
  symbol,  \* the instrument on display
  effect,  \* runs of the connect effect so far: the live one has this number
  seeds,   \* seed requests in flight, of the live effect and of earlier ones
  status,
  pending, \* pendingTrades, pendingOrders
  store,   \* StreamState
  \* bookkeeping
  cuts,
  gaps     \* history: what may have cost the live effect a print, "fault" or "race"

venues  == <<stage, left>>
browser == <<symbol, effect, seeds, status, pending, store>>
vars    == <<venues, link, ch, browser, cuts, gaps>>

-----------------------------------------------------------------------------
(* What a venue shows *)

Trade(s, n) == [symbol |-> s, n |-> n]
Order(s, q) == [symbol |-> s, left |-> q]

printed(s) == Size[s] - left[s]

GetTrades(s) ==
  LET n == printed(s)
      first == IF n > MaxTrades THEN n - MaxTrades + 1 ELSE 1
  IN  [i \in 1..(n - first + 1) |-> Trade(s, first + i - 1)]

\* The orders a snapshot of the book lists: those still working.
Snapshot(s) == IF stage[s] = "resting" THEN {Order(s, left[s])} ELSE {}

TradeEvent(s, n) == [type |-> "trade", data |-> Trade(s, n)]
OrderEvent(s, q) == [type |-> "order", data |-> Order(s, q)]

-----------------------------------------------------------------------------
(* The broker *)

\* Mutant: events count only once the stream has been opened.
wants_WhenOpen(s) == link = "open" /\ symbol = s

wants(s) == link \in {"subscribed", "open"} /\ symbol = s

\* A send never waits: what does not fit is dropped.
Publish(s, events) ==
  LET room == Buffer - Len(ch)
  IN  IF wants(s)
      THEN /\ ch' = ch \o SubSeq(events, 1, IF room < Len(events) THEN room ELSE Len(events))
           /\ gaps' = IF room < Len(events) THEN gaps \cup {"fault"} ELSE gaps
      ELSE UNCHANGED <<ch, gaps>>

-----------------------------------------------------------------------------
(* The venues *)

\* An order joins the book: the end of handle.
Rest(s) ==
  /\ stage[s] = "new"
  /\ stage' = [stage EXCEPT ![s] = "resting"]
  /\ Publish(s, <<OrderEvent(s, left[s])>>)
  /\ UNCHANGED <<left, link, browser, cuts>>

\* A unit of it trades: the print, then the order.  The order that takes is for
\* one unit: its event is terminal, of an order never on display, and left out.
Fill(s) ==
  /\ stage[s] = "resting"
  /\ left' = [left EXCEPT ![s] = @ - 1]
  /\ stage' = [stage EXCEPT ![s] = IF left[s] = 1 THEN "filled" ELSE @]
  /\ Publish(s, <<TradeEvent(s, printed(s) + 1), OrderEvent(s, left[s] - 1)>>)
  /\ UNCHANGED <<link, browser, cuts>>

\* A cancel marks the order and publishes nothing.
Cancel(s) ==
  /\ stage[s] = "resting"
  /\ stage' = [stage EXCEPT ![s] = "cancelled"]
  /\ UNCHANGED <<left, link, ch, browser, cuts, gaps>>

-----------------------------------------------------------------------------
(* The goroutine that serves the stream *)

\* How far the tape goes that the live effect's seed has read, if it has.
seedReaches ==
  LET newest(tape) == IF tape = <<>> THEN 0 ELSE Last(tape).n
      live == {q \in seeds : q.effect = effect}
  IN  CASE live = {}                         -> newest(store.trades)
        [] \E q \in live : q.trades = None   -> printed(symbol)
        [] OTHER                             -> newest((CHOOSE q \in live : TRUE).trades)

Subscribe ==
  /\ link = "dialling"
  /\ link' = "subscribed"
  /\ gaps' = IF printed(symbol) > seedReaches THEN gaps \cup {"race"} ELSE gaps
  /\ UNCHANGED <<venues, ch, browser, cuts>>

\* The headers leave with the snapshot of the book, in one flush.
Open ==
  /\ link = "subscribed"
  /\ link' = "open"
  /\ status' = "live"
  /\ UNCHANGED <<venues, ch, symbol, effect, seeds, pending, store, cuts, gaps>>

\* One event goes down the socket to its listener, which only buffers it.
Forward ==
  /\ link = "open"
  /\ ch # <<>>
  /\ LET e == Head(ch)
     IN  pending' = IF e.type = "trade" THEN [pending EXCEPT !.trades = Append(@, e.data)]
                                        ELSE [pending EXCEPT !.orders = Append(@, e.data)]
  /\ ch' = Tail(ch)
  /\ UNCHANGED <<venues, link, symbol, effect, seeds, status, store, cuts, gaps>>

-----------------------------------------------------------------------------
(* The browser's connection *)

NoEvents    == [trades |-> <<>>, orders |-> <<>>]
EMPTY_STATE == [trades |-> <<>>, ordersById |-> {}]

Reset(p) == NoEvents

\* The connect effect runs: a new instrument, or a reload of the same one.
Connect(s) ==
  /\ effect < MaxConnects
  /\ symbol' = s
  /\ effect' = effect + 1
  /\ pending' = Reset(pending)
  /\ store' = EMPTY_STATE
  /\ status' = "connecting"
  /\ seeds' = seeds \cup {[effect |-> effect + 1, symbol |-> s, trades |-> None, book |-> None]}
  /\ link' = "dialling"
  /\ ch' = <<>>
  /\ gaps' = {}
  /\ UNCHANGED <<venues, cuts>>

\* The network breaks the connection, with what was on its way; EventSource
\* dials again on its own, and nothing seeds the store again.
Cut ==
  /\ cuts < MaxCuts
  /\ link \in {"subscribed", "open"}
  /\ link' = "dialling"
  /\ cuts' = cuts + 1
  /\ status' = "reconnecting"
  /\ ch' = <<>>
  /\ gaps' = gaps \cup {"fault"}
  /\ UNCHANGED <<venues, symbol, effect, seeds, pending, store>>

\* An answer that is not a stream closes the EventSource for good.
GiveUp ==
  /\ cuts < MaxCuts
  /\ link = "dialling"
  /\ link' = "closed"
  /\ cuts' = cuts + 1
  /\ status' = "offline"
  /\ gaps' = gaps \cup {"fault"}
  /\ UNCHANGED <<venues, ch, symbol, effect, seeds, pending, store>>

-----------------------------------------------------------------------------
(* The store *)

Unseen(tape, new) ==
  FoldLeft(LAMBDA fresh, t : IF t \in ToSet(tape) THEN fresh ELSE Append(fresh, t), <<>>, new)

\* Mutant: the cap keeps the oldest prints.
Capped_KeepsOldest(tape) ==
  IF Len(tape) > MaxTrades THEN SubSeq(tape, 1, MaxTrades) ELSE tape

\* Mutant: the cap is one too many.
Capped_OneMore(tape) ==
  IF Len(tape) > MaxTrades + 1 THEN SubSeq(tape, Len(tape) - MaxTrades, Len(tape)) ELSE tape

Capped(tape) ==
  IF Len(tape) > MaxTrades THEN SubSeq(tape, Len(tape) - MaxTrades + 1, Len(tape)) ELSE tape

\* Mutant: prints the store has are appended again.
Extended_Again(tape, new) == Capped(tape \o new)

Extended(tape, new) == Capped(tape \o Unseen(tape, new))

isTerminal(o) == o.left = 0

\* The orders on display, after the events in turn: those no event is about, and
\* what the last event about each other one says, unless that is its end.
Applied(orders, events) ==
  LET last(i) == \A j \in DOMAIN events : j > i => events[j].symbol # events[i].symbol
  IN  {o \in orders : \A i \in DOMAIN events : events[i].symbol # o.symbol}
      \cup {e \in {events[i] : i \in {k \in DOMAIN events : last(k)}} : ~ isTerminal(e)}

\* A whole tape was made between a print on its way here and the seed's answer.
Overtaken ==
  \E t \in ToSet(Unseen(store.trades, pending.trades)), u \in ToSet(store.trades) : t.n < u.n

Flush ==
  /\ pending # NoEvents
  /\ pending' = NoEvents
  /\ store' = [trades     |-> Extended(store.trades, pending.trades),
               ordersById |-> Applied(store.ordersById, pending.orders)]
  /\ gaps' = IF Overtaken THEN gaps \cup {"race"} ELSE gaps
  /\ UNCHANGED <<venues, link, ch, symbol, effect, seeds, status, cuts>>

\* The server reads the tape and the book.  The two requests are one here: the
\* store keeps what they answer apart.
SeedRead(q) ==
  /\ q.trades = None
  /\ seeds' = (seeds \ {q}) \cup {[q EXCEPT !.trades = GetTrades(q.symbol),
                                            !.book = Snapshot(q.symbol)]}
  /\ UNCHANGED <<venues, link, ch, symbol, effect, status, pending, store, cuts, gaps>>

\* Mutant: the answers of an earlier effect are taken too.
current_Any(q) == TRUE

current(q) == q.effect = effect

\* Both answers are in: the tape becomes the seed's, whatever it was; an order
\* the stream has delivered stays as it is.
SeedArrives(q) ==
  /\ q.trades # None
  /\ seeds' = seeds \ {q}
  /\ IF current(q)
     THEN /\ store' = [trades     |-> q.trades,
                       ordersById |-> IF store.ordersById = {} THEN q.book ELSE store.ordersById]
          /\ gaps' = IF ToSet(store.trades) \subseteq ToSet(q.trades)
                     THEN gaps ELSE gaps \cup {"race"}
     ELSE UNCHANGED <<store, gaps>>
  /\ UNCHANGED <<venues, link, ch, symbol, effect, status, pending, cuts>>

SeedFails(q) ==
  /\ seeds' = seeds \ {q}
  /\ gaps' = IF current(q) THEN gaps \cup {"fault"} ELSE gaps
  /\ UNCHANGED <<venues, link, ch, symbol, effect, status, pending, store, cuts>>

-----------------------------------------------------------------------------

Init ==
  /\ stage = [s \in Symbols |-> "new"] /\ left = Size
  /\ link = "closed" /\ ch = <<>>
  /\ symbol = None /\ effect = 0 /\ seeds = {} /\ status = "connecting"
  /\ pending = NoEvents /\ store = EMPTY_STATE
  /\ cuts = 0 /\ gaps = {}

Venue(s) == Rest(s) \/ Fill(s) \/ Cancel(s)
Seed(q)  == SeedRead(q) \/ SeedArrives(q) \/ SeedFails(q)

Next ==
  \/ \E s \in Symbols : Venue(s) \/ Connect(s)
  \/ \E q \in seeds : Seed(q)
  \/ Subscribe \/ Open \/ Forward \/ Flush
  \/ Cut \/ GiveUp

\* The server accepts, its goroutine and the flush timer do not stop.  Nothing
\* says that a venue trades or that a seed is answered.
Fairness == WF_vars(Subscribe) /\ WF_vars(Open) /\ WF_vars(Forward) /\ WF_vars(Flush)

Spec     == Init /\ [][Next]_vars
FairSpec == Spec /\ Fairness

-----------------------------------------------------------------------------
(* Properties *)

Orders == [symbol : Symbols, left : Nat]
Trades == [symbol : Symbols, n : Nat \ {0}]

\* Type invariant; a subscriber's buffer and the tape keep within their caps.
TypeOK ==
  /\ stage \in [Symbols -> {"new", "resting", "filled", "cancelled"}]
  /\ \A s \in Symbols : left[s] \in 0..Size[s]
  /\ link \in {"closed", "dialling", "subscribed", "open"}
  /\ Len(ch) <= Buffer
  /\ symbol \in Symbols \cup {None}
  /\ effect \in 0..MaxConnects /\ cuts \in 0..MaxCuts
  /\ status \in {"connecting", "live", "reconnecting", "offline"}
  /\ pending.trades \in Seq(Trades) /\ store.trades \in Seq(Trades)
  /\ pending.orders \in Seq(Orders) /\ store.ordersById \in SUBSET Orders
  /\ Len(store.trades) <= MaxTrades

\* Nothing of another instrument is ever on display: neither what the stream of
\* the one before left in the buffers, nor a seed answered after the change.
\* stream.ts:133 "state from the previous symbol is meaningless here".
OneSymbol ==
  \A x \in ToSet(pending.trades) \cup ToSet(store.trades)
           \cup ToSet(pending.orders) \cup store.ordersById : x.symbol = symbol

\* A print the seed and the stream both carry is on the tape once (stream.ts:94).
PrintsOnce == IsInjective(store.trades)

\* Everything sent has arrived and is on display.
Quiet ==
  /\ status = "live"
  /\ ch = <<>> /\ pending = NoEvents
  /\ \A q \in seeds : ~current(q)

TapeComplete == symbol # None /\ store.trades = GetTrades(symbol)

\* The tape misses or misplaces a print only for the causes gaps records: a full
\* buffer, a broken connection or a seed that failed ("fault"); a seed read
\* before the subscription, one that overwrites what was shown, one that is a
\* whole tape ahead of what the buffers hold ("race").
GapsAreKnown == Quiet /\ gaps = {} => TapeComplete

\* stream.ts:94 and README.md:602: the seed and the stream together are the
\* history.  Without a fault, no print is missing.
NoPrintLost == Quiet /\ "fault" \notin gaps => TapeComplete

\* Once an instrument stays on display, its seed is answered and nothing has
\* cost it a print, the tape on display becomes the venue's and stays so.
TapeCatchesUp ==
  <>[](symbol # None /\ gaps = {} /\ \A q \in seeds : ~current(q)) => <>[]TapeComplete
=============================================================================
