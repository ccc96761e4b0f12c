------------------------------- MODULE Engine -------------------------------
(***************************************************************************)
(* One trading venue: the matching goroutine of internal/engine, the order *)
(* book it owns, the store of pending stops, and the HTTP handlers that    *)
(* submit and cancel orders concurrently with it.                          *)
(*                                                                         *)
(* Orders are shared memory.  The code passes *models.Order pointers       *)
(* between the intake channel, the heaps, the ID index and the stops map,  *)
(* so `order', `rem' and `status' are indexed by order ID and every thread *)
(* reads and writes them in place.  The book's mutex protects the heaps    *)
(* and the index, the stops mutex the stops map; neither is held across    *)
(* two steps of the matching loop, which is where a cancel gets in.        *)
(*                                                                         *)
(* Grain: a step of the matching goroutine is what it does between two     *)
(* points where another thread may change something it depends on.         *)
(***************************************************************************)
EXTENDS Orders, Sequences, FiniteSetsExt, Functions

CONSTANTS
  Ids,         \* order IDs (UUIDs: never reused)
  Cancellers,  \* concurrent DELETE /orders/{id} requests, one cancel each
  Offers,      \* Offers[o]: the requests a client may send under ID o
  QueueCap,    \* capacity of orderChan, 1000 in the code
  MaxTrades,   \* maxTradeHistory, 10000 in the code
  MayStop,     \* whether Engine.Stop may be called
  None         \* no order

ASSUME EngineAssumption ==
  /\ Offers \in [Ids -> SUBSET Request]
  /\ QueueCap \in Nat \ {0}
  /\ MaxTrades \in Nat \ {0}
  /\ MayStop \in BOOLEAN
  /\ None \notin Ids

VARIABLES
  order,     \* order[o]: the attributes of o, rewritten by normalize and by triggering
  rem,       \* rem[o]: Remaining
  status,    \* status[o]: Status, written by the matching goroutine and by cancels
  queue,     \* orderChan
  book,      \* the IDs in the heaps, which are those in the index
  stops,     \* the IDs in the stops map
  batch,     \* stops taken from the map and not handled yet
  lastPrice, \* most recent print, 0 before the first
  trades,    \* the retained tape, oldest first
  counted,   \* history: the orders the check of a fill-or-kill order counted
  pc,        \* where the matching goroutine is
  cur,       \* the order it is handling
  hit,       \* the resting order it has decided to fill
  stopping,  \* stopCh is closed
  told,      \* told[o]: what publishOrder last reported of o
  cpc,       \* cpc[c]: where cancel request c is
  cid        \* cid[c]: the order it names

shared == <<order, rem, status>>
loop   == <<pc, cur, hit, batch>>
past   == <<lastPrice, trades, counted>>
client == <<cpc, cid>>
vars   == <<order, rem, status, queue, book, stops, batch, lastPrice, trades,
            counted, pc, cur, hit, stopping, told, cpc, cid>>

-----------------------------------------------------------------------------

Blank == [side |-> "NONE", type |-> "", tif |-> "", price |-> 0,
          stopPrice |-> 0, qty |-> 0, stamp |-> 0]

\* The copy of an order that publishOrder reports.
Report == [status: Statuses, rem: Nat]

\* Mutant: a cancelled order is not skipped.
Live_IgnoresCancel(o) == rem[o] > 0

Live(o) == status[o] \notin {"CANCELLED", "FILLED"} /\ rem[o] > 0

Resting(side) == {o \in book : order[o].side = side}

\* Mutant: the heap orders by price only.
Tops_PriceOnly(side) ==
  {o \in Resting(side) :
     \A p \in Resting(side) :
       order[p].price = order[o].price \/ ~ Better(order[p], order[o])}

\* The top of a heap.  Equal prices and equal stamps leave it open which.
Tops(side) ==
  {o \in Resting(side) :
     \A p \in Resting(side) : ~ Better(order[p], order[o])}

\* The orders an incoming one can trade with.
Facers(r) == {o \in Resting(Opposite(r.side)) : Live(o) /\ crosses(r, order[o].price)}

LiquidityAgainst(r) == SumFunctionOnSet(rem, Facers(r))

Ready == {o \in stops : stopTriggered(order[o], lastPrice)}

\* Mutant: a triggered stop is not deleted from the map.
Waiting_KeepsTriggered == stops

Waiting == stops \ Ready

\* A fixed-size window over the tape: the newest MaxTrades prints survive.
recordTrade(t) ==
  LET longer == Append(trades, t)
      excess == Len(longer) - MaxTrades
  IN  trades' = IF excess > 0 THEN SubSeq(longer, excess + 1, Len(longer))
                              ELSE longer

\* Mutants: nothing is reported; the quantity is reported, not the remainder.
publishOrder_Dropped(o, s) == UNCHANGED told

publishOrder_Quantity(o, s) ==
  told' = [told EXCEPT ![o] = [status |-> s, rem |-> order[o].qty]]

publishOrder(o, s) == told' = [told EXCEPT ![o] = [status |-> s, rem |-> rem[o]]]

-----------------------------------------------------------------------------

Init ==
  /\ order = [o \in Ids |-> Blank]
  /\ rem = [o \in Ids |-> 0]
  /\ status = [o \in Ids |-> "UNSENT"]
  /\ queue = <<>>
  /\ book = {}
  /\ stops = {}
  /\ batch = {}
  /\ lastPrice = 0
  /\ trades = <<>>
  /\ counted = [o \in Ids |-> {}]
  /\ pc = "idle"
  /\ cur = None
  /\ hit = None
  /\ stopping = FALSE
  /\ told = [o \in Ids |-> [status |-> "UNSENT", rem |-> 0]]
  /\ cpc = [c \in Cancellers |-> "ready"]
  /\ cid = [c \in Cancellers |-> None]

-----------------------------------------------------------------------------
(* Clients *)

\* The handler builds the order and its send on orderChan succeeds.  A full
\* channel refuses the order (Submit) or makes the caller wait (SubmitBlocking).
Submit(o) ==
  /\ status[o] = "UNSENT"
  /\ Len(queue) < QueueCap
  /\ \E r \in Offers[o] :
       /\ order' = [order EXCEPT ![o] = r]
       /\ rem' = [rem EXCEPT ![o] = r.qty]
  /\ status' = [status EXCEPT ![o] = "NEW"]
  /\ queue' = Append(queue, o)
  /\ UNCHANGED <<book, stops, loop, past, stopping, told, client>>

Stop ==
  /\ MayStop /\ ~ stopping
  /\ stopping' = TRUE
  /\ UNCHANGED <<shared, queue, book, stops, loop, past, told, client>>

\* What a cancel leaves in the status of o.  Nothing orders its write with the
\* matching goroutine's, so one made as that goroutine was writing may tear.
Cancelled(o) ==
  {"CANCELLED"} \cup
  IF (pc = "tellFill" /\ o = hit) \/ (pc = "tellParked" /\ o = cur)
  THEN {"TORN"} ELSE {}

\* Exchange.CancelOrder looks in the book first ...
CancelInBook(c, o) ==
  /\ cpc[c] = "ready"
  /\ o \in book
  /\ \E s \in Cancelled(o) : status' = [status EXCEPT ![o] = s]
  /\ cpc' = [cpc EXCEPT ![c] = "acked"]
  /\ cid' = [cid EXCEPT ![c] = o]
  /\ UNCHANGED <<order, rem, queue, book, stops, loop, past, stopping, told>>

CancelNotInBook(c, o) ==
  /\ cpc[c] = "ready"
  /\ status[o] # "UNSENT" /\ o \notin book
  /\ cpc' = [cpc EXCEPT ![c] = "stops"]
  /\ cid' = [cid EXCEPT ![c] = o]
  /\ UNCHANGED <<shared, queue, book, stops, loop, past, stopping, told>>

\* ... and only then among the pending stops.
CancelPendingStop(c) ==
  /\ cpc[c] = "stops"
  /\ cid[c] \in stops
  /\ stops' = stops \ {cid[c]}
  /\ cpc' = [cpc EXCEPT ![c] = "mark"]
  /\ UNCHANGED <<shared, queue, book, loop, past, stopping, told, cid>>

CancelNotFound(c) ==
  /\ cpc[c] = "stops"
  /\ cid[c] \notin stops
  /\ cpc' = [cpc EXCEPT ![c] = "missing"]
  /\ UNCHANGED <<shared, queue, book, stops, loop, past, stopping, told, cid>>

\* Outside the lock: the status write ...
CancelMark(c) ==
  /\ cpc[c] = "mark"
  /\ \E s \in Cancelled(cid[c]) : status' = [status EXCEPT ![cid[c]] = s]
  /\ cpc' = [cpc EXCEPT ![c] = "tell"]
  /\ UNCHANGED <<order, rem, queue, book, stops, loop, past, stopping, told, cid>>

\* ... and the report of a copy, taken before or after another write.
CancelTell(c) ==
  /\ cpc[c] = "tell"
  /\ \E s \in {"CANCELLED", status[cid[c]]} : publishOrder(cid[c], s)
  /\ cpc' = [cpc EXCEPT ![c] = "acked"]
  /\ UNCHANGED <<shared, queue, book, stops, loop, past, stopping, cid>>

CancelStep(c) ==
  CancelPendingStop(c) \/ CancelNotFound(c) \/ CancelMark(c) \/ CancelTell(c)

-----------------------------------------------------------------------------
(* The matching goroutine: intake *)

Dequeue ==
  /\ pc = "idle" /\ queue # <<>>
  /\ cur' = Head(queue)
  /\ queue' = Tail(queue)
  /\ pc' = "handle"
  /\ UNCHANGED <<shared, book, stops, batch, past, hit, stopping, told, client>>

\* select picks either ready channel, so queued orders may be left behind.
Exit ==
  /\ pc = "idle" /\ stopping
  /\ pc' = "stopped"
  /\ UNCHANGED <<shared, queue, book, stops, batch, past, cur, hit, stopping,
                 told, client>>

Incoming == normalize(order[cur])

Reject ==
  /\ pc = "handle" /\ ~ isValid(Incoming)
  /\ order' = [order EXCEPT ![cur] = Incoming]
  /\ status' = [status EXCEPT ![cur] = "REJECTED"]
  /\ publishOrder(cur, "REJECTED")
  /\ pc' = "drain" /\ cur' = None
  /\ UNCHANGED <<rem, queue, book, stops, batch, past, hit, stopping, client>>

\* A stop joins the map first, and is marked PENDING and reported after the
\* stops mutex has been released.
Park ==
  /\ pc = "handle" /\ isValid(Incoming) /\ Incoming.type = "STOP"
  /\ order' = [order EXCEPT ![cur] = Incoming]
  /\ stops' = stops \cup {cur}
  /\ pc' = "parked"
  /\ UNCHANGED <<rem, status, queue, book, batch, past, cur, hit, stopping,
                 told, client>>

MarkParked ==
  /\ pc = "parked"
  /\ status' = [status EXCEPT ![cur] = "PENDING"]
  /\ pc' = "tellParked"
  /\ UNCHANGED <<order, rem, queue, book, stops, batch, past, cur, hit,
                 stopping, told, client>>

TellParked ==
  /\ pc = "tellParked"
  /\ \E s \in {"PENDING", status[cur]} : publishOrder(cur, s)
  /\ pc' = "drain" /\ cur' = None
  /\ UNCHANGED <<shared, queue, book, stops, batch, past, hit, stopping, client>>

Tradable == isValid(Incoming) /\ Incoming.type # "STOP"

\* Mutant: some liquidity is taken for enough.
Unfillable_IfNone == Incoming.tif = "FOK" /\ LiquidityAgainst(Incoming) = 0

Unfillable == Incoming.tif = "FOK" /\ LiquidityAgainst(Incoming) < rem[cur]

Kill ==
  /\ pc = "handle" /\ Tradable /\ Unfillable
  /\ order' = [order EXCEPT ![cur] = Incoming]
  /\ status' = [status EXCEPT ![cur] = "CANCELLED"]
  /\ publishOrder(cur, "CANCELLED")
  /\ pc' = "drain" /\ cur' = None
  /\ UNCHANGED <<rem, queue, book, stops, batch, past, hit, stopping, client>>

Enter ==
  /\ pc = "handle" /\ Tradable /\ ~ Unfillable
  /\ order' = [order EXCEPT ![cur] = Incoming]
  /\ counted' = IF Incoming.tif # "FOK" THEN counted
                ELSE [counted EXCEPT ![cur] = Facers(Incoming)]
  /\ pc' = "match"
  /\ UNCHANGED <<rem, status, queue, book, stops, batch, lastPrice, trades, cur, hit,
                 stopping, told, client>>

-----------------------------------------------------------------------------
(* The matching goroutine: matchBuy and matchSell *)

Facing == Tops(Opposite(order[cur].side))

\* Lazy deletion: a cancelled or exhausted order is popped when it surfaces.
Sweep ==
  /\ pc = "match" /\ rem[cur] > 0
  /\ \E best \in Facing : ~ Live(best) /\ book' = book \ {best}
  /\ UNCHANGED <<shared, queue, stops, loop, past, stopping, told, client>>

\* The best order is seen alive and crossing; it is filled in the next step,
\* and nothing keeps it from being cancelled in between.
Hit ==
  /\ pc = "match" /\ rem[cur] > 0
  /\ \E best \in Facing :
       /\ Live(best) /\ crosses(order[cur], order[best].price)
       /\ hit' = best
  /\ pc' = "fill"
  /\ UNCHANGED <<shared, queue, book, stops, batch, past, cur, stopping, told,
                 client>>

\* Mutant: the larger of the two.
FillQty_Larger == IF rem[hit] < rem[cur] THEN rem[cur] ELSE rem[hit]

FillQty == IF rem[hit] < rem[cur] THEN rem[hit] ELSE rem[cur]

\* Mutants: the aggressor sets the price; the maker's whole quantity is printed.
NewTrade_TakerPrice ==
  [buy  |-> IF order[cur].side = "BUY" THEN cur ELSE hit,
   sell |-> IF order[cur].side = "BUY" THEN hit ELSE cur,
   price |-> order[cur].price, qty |-> FillQty]

NewTrade_WholeMaker ==
  [buy  |-> IF order[cur].side = "BUY" THEN cur ELSE hit,
   sell |-> IF order[cur].side = "BUY" THEN hit ELSE cur,
   price |-> order[hit].price, qty |-> rem[hit]]

NewTrade ==
  [buy  |-> IF order[cur].side = "BUY" THEN cur ELSE hit,
   sell |-> IF order[cur].side = "BUY" THEN hit ELSE cur,
   price |-> order[hit].price, qty |-> FillQty]

\* applyFill of both orders, the tape and the last price.  The status each
\* order had is overwritten, whatever it was.
Fill ==
  /\ pc = "fill"
  /\ LET left == [o \in {hit, cur} |-> rem[o] - FillQty]
     IN  /\ rem' = [rem EXCEPT ![hit] = left[hit], ![cur] = left[cur]]
         /\ status' = [o \in Ids |-> IF o \notin {hit, cur} THEN status[o]
                                     ELSE IF left[o] = 0 THEN "FILLED"
                                     ELSE "PARTIALLY_FILLED"]
  /\ recordTrade(NewTrade)
  /\ lastPrice' = order[hit].price
  /\ pc' = "tellFill"
  /\ UNCHANGED <<order, queue, book, stops, batch, counted, cur, hit, stopping, told,
                 client>>

TellFill ==
  /\ pc = "tellFill"
  /\ told' = [o \in Ids |-> IF o \in {hit, cur}
                            THEN [status |-> status[o], rem |-> rem[o]]
                            ELSE told[o]]
  /\ pc' = "pop"
  /\ UNCHANGED <<shared, queue, book, stops, batch, past, cur, hit, stopping,
                 client>>

Pop ==
  /\ pc = "pop"
  /\ book' = IF rem[hit] = 0 THEN book \ {hit} ELSE book
  /\ hit' = None
  /\ pc' = "match"
  /\ UNCHANGED <<shared, queue, stops, batch, past, cur, stopping, told, client>>

\* The loop ends unfilled: nothing left to face, or the best does not cross.
Exhausted ==
  \/ Resting(Opposite(order[cur].side)) = {}
  \/ \E best \in Facing :
       Live(best) /\ ~ crosses(order[cur], order[best].price)

\* Nothing is left to do, or the order must not rest: handle returns.
Finished ==
  /\ pc = "match"
  /\ \/ rem[cur] = 0
     \/ Exhausted /\ canRest(order[cur]) /\ status[cur] = "CANCELLED"
  /\ pc' = "drain" /\ cur' = None
  /\ UNCHANGED <<shared, queue, book, stops, batch, past, hit, stopping, told,
                 client>>

\* IOC, FOK and market orders never rest: the remainder is cancelled.
CancelRemainder ==
  /\ pc = "match" /\ rem[cur] > 0 /\ Exhausted /\ ~ canRest(order[cur])
  /\ status' = [status EXCEPT ![cur] = "CANCELLED"]
  /\ publishOrder(cur, "CANCELLED")
  /\ pc' = "drain" /\ cur' = None
  /\ UNCHANGED <<order, rem, queue, book, stops, batch, past, hit, stopping,
                 client>>

\* AddOrder, under the book's mutex; from here on the order can be cancelled.
Rest ==
  /\ pc = "match" /\ rem[cur] > 0 /\ Exhausted /\ canRest(order[cur])
  /\ status[cur] # "CANCELLED"
  /\ book' = book \cup {cur}
  /\ pc' = "tellRest"
  /\ UNCHANGED <<shared, queue, stops, batch, past, cur, hit, stopping, told,
                 client>>

TellRest ==
  /\ pc = "tellRest"
  /\ publishOrder(cur, status[cur])
  /\ pc' = "drain" /\ cur' = None
  /\ UNCHANGED <<shared, queue, book, stops, batch, past, hit, stopping, client>>

-----------------------------------------------------------------------------
(* The matching goroutine: stops.  processOrder drains triggered stops       *)
(* until none is left, batch by batch.                                       *)

TakeTriggered ==
  /\ pc = "drain" /\ batch = {}
  /\ lastPrice > 0 /\ Ready # {}
  /\ stops' = Waiting
  /\ batch' = Ready
  /\ order' = [o \in Ids |-> IF o \in Ready THEN activated(order[o]) ELSE order[o]]
  /\ status' = [o \in Ids |-> IF o \in Ready THEN "NEW" ELSE status[o]]
  /\ UNCHANGED <<rem, queue, book, past, pc, cur, hit, stopping, told, client>>

\* Earliest stamp first.
HandleTriggered ==
  /\ pc = "drain"
  /\ \E o \in batch :
       /\ \A p \in batch : order[o].stamp <= order[p].stamp
       /\ cur' = o
       /\ batch' = batch \ {o}
  /\ pc' = "handle"
  /\ UNCHANGED <<shared, queue, book, stops, past, hit, stopping, told, client>>

Drained ==
  /\ pc = "drain" /\ batch = {}
  /\ lastPrice = 0 \/ Ready = {}
  /\ pc' = "idle"
  /\ UNCHANGED <<shared, queue, book, stops, batch, past, cur, hit, stopping,
                 told, client>>

-----------------------------------------------------------------------------

Match ==
  \/ Dequeue \/ Exit
  \/ Reject \/ Park \/ MarkParked \/ TellParked \/ Kill \/ Enter
  \/ Sweep \/ Hit \/ Fill \/ TellFill \/ Pop
  \/ Finished \/ CancelRemainder \/ Rest \/ TellRest
  \/ TakeTriggered \/ HandleTriggered \/ Drained

Next ==
  \/ \E o \in Ids : Submit(o)
  \/ Stop
  \/ \E c \in Cancellers, o \in Ids : CancelInBook(c, o) \/ CancelNotInBook(c, o)
  \/ \E c \in Cancellers : CancelStep(c)
  \/ Match

Spec == Init /\ [][Next]_vars

\* The goroutines the Go scheduler keeps running: the matching loop, and a
\* cancel request once it has started.  Nothing obliges a client to call.
FairSpec ==
  /\ Spec
  /\ WF_vars(Match)
  /\ \A c \in Cancellers : WF_vars(CancelStep(c))

-----------------------------------------------------------------------------
(* Properties *)

Pcs == {"idle", "handle", "parked", "tellParked", "match", "fill", "tellFill",
        "pop", "tellRest", "drain", "stopped"}

Trade == [buy: Ids, sell: Ids, price: Nat, qty: Nat]

\* Every variable keeps the shape the code's types give it.
TypeOK ==
  /\ order \in [Ids -> Request]
  /\ rem \in [Ids -> Nat]
  /\ status \in [Ids -> Statuses]
  /\ queue \in Seq(Ids)
  /\ book \subseteq Ids /\ stops \subseteq Ids /\ batch \subseteq Ids
  /\ lastPrice \in Nat
  /\ trades \in Seq(Trade)
  /\ counted \in [Ids -> SUBSET Ids]
  /\ pc \in Pcs
  /\ cur \in Ids \cup {None} /\ hit \in Ids \cup {None}
  /\ stopping \in BOOLEAN
  /\ told \in [Ids -> Report]
  /\ cpc \in [Cancellers -> {"ready", "stops", "mark", "tell", "acked", "missing"}]
  /\ cid \in [Cancellers -> Ids \cup {None}]

Queued == Range(queue)

\* An order is in at most one of the places the code keeps orders in, and at
\* most once: channel, triggered batch, stops map, book, matching goroutine.
\* The last overlaps a store only between the insertion and the report of it.
\* (A comment in orderbook.go fears the same pointer pushed twice.)
OnePlace ==
  /\ \A i, j \in DOMAIN queue : queue[i] = queue[j] => i = j
  /\ Queued \cap (batch \cup stops \cup book) = {}
  /\ batch \cap (stops \cup book) = {}
  /\ stops \cap book = {}
  /\ cur \notin Queued \cup batch
  /\ cur \in stops => pc \in {"parked", "tellParked"}
  /\ cur \in book => pc = "tellRest"

\* Whatever rests in the book is a good-till-cancelled limit order with
\* something left to trade, even if cancelled; only the order being popped is
\* exhausted.
BookHoldsRestable ==
  \A o \in book :
    /\ order[o].type = "LIMIT" /\ order[o].tif = "GTC" /\ order[o].price > 0
    /\ rem[o] > 0 \/ (o = hit /\ pc \in {"tellFill", "pop"})

\* The book is never crossed: no live bid is at or above a live ask, at any
\* step of the matching loop and whatever is cancelled meanwhile.
BookNeverCrossed ==
  \A b \in Resting("BUY"), a \in Resting("SELL") :
    Live(b) /\ Live(a) => order[b].price < order[a].price

TradedOf(o) ==
  SumFunctionOnSet([i \in DOMAIN trades |-> trades[i].qty],
                   {i \in DOMAIN trades : o \in {trades[i].buy, trades[i].sell}})

\* What an order has lost from its quantity is exactly what the tape printed
\* for it, as long as the tape has not dropped a print.
TapeReconciles ==
  Len(trades) < MaxTrades =>
    \A o \in Ids : rem[o] + TradedOf(o) = order[o].qty

\* The engine never waits for the next order with a pending stop the last
\* print has reached.
NoStopLeftTriggered ==
  pc = "idle" /\ lastPrice > 0 =>
    \A o \in stops :
      IF order[o].side = "BUY" THEN lastPrice < order[o].stopPrice
                               ELSE lastPrice > order[o].stopPrice

\* Price-time priority: when an order trades as the maker, no live order on
\* its side of the book is ahead of it.
PriceTimePriority ==
  [][trades' # trades =>
       \A p \in Resting(order[hit].side) :
         Live(p) => ~ Better(order[p], order[hit])]_vars

\* The quantities an order may have left to trade.
Amounts == 1..Max({r.qty : r \in UNION {Offers[o] : o \in Ids}})

\* A cancel is final: of an order cancelled while the matching loop is not already
\* filling that very order not one share trades afterwards, nor of a stop a cancel
\* has taken out of the map, though the market reaches its trigger before the
\* status is written, reported or acknowledged.
CancelIsFinal ==
  \A o \in Ids : \A n \in Amounts :
    /\ []((status[o] = "CANCELLED" /\ hit # o /\ rem[o] = n) => [](rem[o] = n))
    /\ \A c \in Cancellers :
         []((cpc[c] = "mark" /\ cid[c] = o /\ rem[o] = n) => [](rem[o] = n))

Withdrawn(o) ==
  status[o] = "CANCELLED" /\ \E c \in Cancellers : cid[c] = o /\ cpc[c] = "acked"

\* Fill or kill: once handled, none of it has traded, or it misses at most what
\* cancels have withdrawn, acknowledged, from the orders its own check counted.
\* So a cancel that comes too late takes nothing from it, nor does anything but
\* a cancel: with none, all of it trades or none of it.
FokAllOrNothing ==
  \A o \in Ids : order[o].tif = "FOK" /\ o # cur =>
    \/ rem[o] = order[o].qty
    \/ rem[o] <= SumFunctionOnSet(rem, {p \in counted[o] : Withdrawn(p)})

\* Nobody has asked for a cancel yet.
Uncancelled == \A c \in Cancellers : cpc[c] = "ready"

\* Until somebody cancels, whenever the engine waits, every order it has handled
\* is where its status says, and the last report of it is its present state.
Settled ==
  Uncancelled /\ pc = "idle" =>
    \A o \in Ids \ Queued : status[o] # "UNSENT" =>
      /\ o \in book <=> status[o] \in {"NEW", "PARTIALLY_FILLED"}
      /\ o \in stops <=> status[o] = "PENDING"
      /\ rem[o] = 0 <=> status[o] = "FILLED" \/ order[o].qty = 0
      /\ told[o] = [status |-> status[o], rem |-> rem[o]]

\* An accepted order is eventually handled and reported, unless the engine is
\* stopped with the order still in the channel.
AcceptedIsReported ==
  \A o \in Ids :
    (status[o] = "NEW") ~> (told[o].status # "UNSENT" \/ pc = "stopped")

\* A cascade of stops ends: the engine comes back for the next order.
CascadeEnds == (pc = "drain") ~> (pc = "idle")

-----------------------------------------------------------------------------
(* The abstract specification it implements *)

Settling ==
  INSTANCE Settlement WITH
    NoPrint  <- None,
    accepted <- {o \in Ids : status[o] # "UNSENT"},
    terms    <- [o \in Ids |-> TermsOf(order[o])],
    open     <- rem,
    last     <- IF trades = <<>> THEN None ELSE trades[Len(trades)]

\* However orders are defaulted, parked, triggered, rested, filled and
\* cancelled, all a trader can tell from quantities and prints is Settlement:
\* the step that prints is the only one that moves an open quantity.
Settles == Settling!Spec

-----------------------------------------------------------------------------
(* The inductive invariant of EngineProofs *)

\* What the program counter says of the order being handled and of the
\* resting order being filled.
Control ==
  /\ cur = None <=> pc \in {"idle", "drain", "stopped"}
  /\ hit = None <=> pc \notin {"fill", "tellFill", "pop"}
  /\ pc \in {"match", "fill", "tellFill", "pop", "tellRest"} =>
       isValid(order[cur])
  /\ hit # None =>
       /\ hit \in Resting(Opposite(order[cur].side))
       /\ \A p \in Resting(order[hit].side) : ~ Better(order[p], order[hit])
       /\ crosses(order[cur], order[hit].price)
  /\ pc = "fill" => rem[hit] > 0 /\ rem[cur] > 0
  /\ pc = "tellRest" => cur \in book

\* Only orders that exist are kept anywhere or named by a cancel at work.
Known ==
  /\ \A o \in Queued \cup batch \cup stops \cup book : status[o] # "UNSENT"
  /\ cur # None => status[cur] # "UNSENT"
  /\ \A c \in Cancellers :
       cpc[c] # "ready" => cid[c] \in Ids /\ status[cid[c]] # "UNSENT"

\* BookNeverCrossed counts live orders, but Fill, and a write torn by it, bring
\* a cancelled one back: the one being filled counts whatever its status.
Alive(o) == rem[o] > 0 /\ (Live(o) \/ (o = hit /\ pc \in {"fill", "tellFill"}))

NeverCrossed ==
  \A b \in Resting("BUY"), a \in Resting("SELL") :
    Alive(b) /\ Alive(a) => order[b].price < order[a].price

\* Only parked stops wait in the stops map, so triggering rewrites nothing else.
StopsAreStops == \A o \in stops : order[o].type = "STOP"

Inv == /\ TypeOK /\ Control /\ Known /\ OnePlace
       /\ BookHoldsRestable /\ NeverCrossed /\ StopsAreStops

-----------------------------------------------------------------------------
(* What comments and documents say, and the code does not do *)

\* orderbook.CancelOrder: a cancelled order stays in the heap, marked, and is
\* skipped during matching; so it does not trade.
CancelledIsSkipped ==
  [][\A o \in book : status[o] = "CANCELLED" => rem'[o] = rem[o]]_vars

\* models.go: FOK is filled in its entire quantity immediately or does nothing.
FokNeverPartial ==
  \A o \in Ids : order[o].tif = "FOK" /\ o # cur => rem[o] \in {0, order[o].qty}

\* models.go: PENDING is a stop that sits off-book until its trigger price is
\* crossed; so it is in the stops map, or a cancel has just taken it out.
PendingAwaitsTrigger ==
  \A o \in Ids : status[o] = "PENDING" =>
    o \in stops \/ \E c \in Cancellers : cid[c] = o /\ cpc[c] = "mark"

=============================================================================
