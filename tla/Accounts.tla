------------------------------ MODULE Accounts ------------------------------
(***************************************************************************)
(* The account registry: internal/accounts, fed by the observer calls of   *)
(* several engines and of the requests that cancel pending stops.          *)
(*                                                                         *)
(* An engine makes its calls one by one from its own goroutine, and other  *)
(* goroutines call in between; the registry's mutex makes each call one    *)
(* step.  What an engine matches is Engine's business: here any two orders *)
(* that face each other may trade, at any price.                           *)
(*                                                                         *)
(* Average entries are exact ratios where the code has float64.            *)
(***************************************************************************)
EXTENDS Integers, Sequences, FiniteSetsExt, Functions

CONSTANTS
  Ids,           \* order IDs
  Terms,         \* Terms[o]: trader, symbol, side, quantity; is it a stop, is it valid
  Traders,
  Nobody,        \* the empty trader ID
  Symbols,
  Prices,
  StartingCash,
  MaxHistory,
  MaxAccounts

\* A process takes finitely many orders.
ASSUME AccountsAssumption ==
  /\ IsFiniteSet(Ids)
  /\ Nobody \notin Traders
  /\ Terms \in [Ids -> [trader: Traders \cup {Nobody}, symbol: Symbols,
                        side: {"BUY", "SELL"}, qty: Nat \ {0}, stop: BOOLEAN,
                        valid: BOOLEAN]]
  /\ Prices \subseteq Nat \ {0}
  /\ {StartingCash, MaxHistory, MaxAccounts} \subseteq Nat \ {0}

VARIABLES
  accounts,   \* the registry: an account for each trader it tracks
  at,         \* at[o]: where the venue has the order
  rem,        \* Remaining
  status,
  calls,      \* calls[s]: the observer calls the engine of s has yet to make
  telling,    \* stops taken out by a cancel that has not reported yet
  marking     \* stops parked, and not marked PENDING yet

venue == <<at, rem, status, calls, telling, marking>>
vars  == <<accounts, at, rem, status, calls, telling, marking>>

-----------------------------------------------------------------------------
(* Money: ratios in lowest terms *)

Ratio(n, d) ==
  LET g == IF d = 1 THEN 1 ELSE Max({k \in 1..d : n % k = 0 /\ d % k = 0})
  IN  <<n \div g, d \div g>>
Whole(n)    == <<n, 1>>
Plus(a, b)  == Ratio(a[1] * b[2] + b[1] * a[2], a[2] * b[2])
Times(a, k) == Ratio(a[1] * k, a[2])
Over(a, k)  == Ratio(a[1], a[2] * k)
Minus(a, b) == Plus(a, Times(b, -1))

Total(f, S) == FoldFunctionOnSet(Plus, Whole(0), f, S)

Abs(n) == IF n < 0 THEN -n ELSE n
Least(a, b) == IF a < b THEN a ELSE b

-----------------------------------------------------------------------------
(* The registry *)

Flat  == [qty |-> 0, avgEntry |-> Whole(0), realized |-> Whole(0)]
Fresh == [cash |-> StartingCash, positions |-> [s \in Symbols |-> Flat],
          open |-> {}, history |-> <<>>]

Opened(a, t) == [u \in DOMAIN a \cup {t} |-> IF u = t THEN Fresh ELSE a[u]]

\* Mutant: one account too many.
ensure_OneMore(a, t) ==
  IF t = Nobody \/ t \in DOMAIN a \/ Cardinality(DOMAIN a) > MaxAccounts
  THEN a ELSE Opened(a, t)

\* Past the cap, a new trader is not tracked.
ensure(a, t) ==
  IF t = Nobody \/ t \in DOMAIN a \/ Cardinality(DOMAIN a) >= MaxAccounts
  THEN a ELSE Opened(a, t)

isTerminal(st) == st \in {"FILLED", "CANCELLED", "REJECTED"}

Entry(o, st) == [id |-> o, status |-> st]

Listed(h, o) == \E i \in DOMAIN h : h[i].id = o
Updated(h, o, st) == [i \in DOMAIN h |-> IF h[i].id = o THEN Entry(o, st) ELSE h[i]]

\* Mutant: the trim keeps the oldest.
Finished_KeepsOldest(h, o, st) ==
  IF Listed(h, o) THEN Updated(h, o, st)
  ELSE SubSeq(Append(h, Entry(o, st)), 1, Least(Len(h) + 1, MaxHistory))

\* The history with one order more: in place if it is there already, and
\* otherwise at the end, the oldest dropped if there are too many.
Finished(h, o, st) ==
  IF Listed(h, o) THEN Updated(h, o, st)
  ELSE LET longer == Append(h, Entry(o, st))
       IN  SubSeq(longer, Len(longer) - Least(Len(longer), MaxHistory) + 1, Len(longer))

\* Mutant: a finished order stays in the working set.
OnOrderState_KeepsOpen(a, o, st) ==
  LET t == Terms[o].trader
      b == ensure(a, t)
  IN  IF t \notin DOMAIN b THEN b
      ELSE IF ~ isTerminal(st) THEN [b EXCEPT ![t].open = @ \cup {o}]
      ELSE [b EXCEPT ![t].history = Finished(@, o, st)]

OnOrderState(a, o, st) ==
  LET t == Terms[o].trader
      b == ensure(a, t)
  IN  IF t \notin DOMAIN b THEN b
      ELSE IF ~ isTerminal(st) THEN [b EXCEPT ![t].open = @ \cup {o}]
      ELSE [b EXCEPT ![t].open = @ \ {o}, ![t].history = Finished(@, o, st)]

Adds(p, signed) == p.qty = 0 \/ (p.qty > 0 <=> signed > 0)

Blended(p, signed, price) ==
  Over(Plus(Times(p.avgEntry, Abs(p.qty)), Whole(Abs(signed) * price)), Abs(p.qty + signed))

Gain(p, signed, price) ==
  Times(Minus(Whole(price), p.avgEntry),
        Least(Abs(p.qty), Abs(signed)) * (IF p.qty > 0 THEN 1 ELSE -1))

\* Mutant: a position that flips keeps its old entry.
applyToPosition_KeepsEntry(p, signed, price) ==
  IF Adds(p, signed)
  THEN [p EXCEPT !.qty = @ + signed, !.avgEntry = Blended(p, signed, price)]
  ELSE [p EXCEPT !.qty = @ + signed, !.realized = Plus(@, Gain(p, signed, price)),
                 !.avgEntry = IF p.qty + signed = 0 THEN Whole(0) ELSE @]

\* Average cost: a fill on the same side blends the entry, one against it
\* realises the difference on what it closes, and what is left over, if any,
\* is a new position at its price.
applyToPosition(p, signed, price) ==
  IF Adds(p, signed)
  THEN [p EXCEPT !.qty = @ + signed, !.avgEntry = Blended(p, signed, price)]
  ELSE [p EXCEPT !.qty = @ + signed, !.realized = Plus(@, Gain(p, signed, price)),
                 !.avgEntry = IF p.qty + signed = 0 THEN Whole(0)
                              ELSE IF Abs(signed) > Abs(p.qty) THEN Whole(price)
                              ELSE @]

applyFill(a, t, s, signed, price) ==
  LET b == ensure(a, t)
  IN  IF t \notin DOMAIN b THEN b
      ELSE [b EXCEPT ![t].cash = @ - price * signed,
                     ![t].positions[s] = applyToPosition(@, signed, price)]

\* Mutant: nothing is booked for a seller whose buyer is not tracked.
OnFill_NeedsBuyer(a, c) ==
  LET s == Terms[c.buy].symbol
      b == applyFill(a, Terms[c.buy].trader, s, c.qty, c.price)
  IN  IF Terms[c.buy].trader \notin DOMAIN b THEN b
      ELSE applyFill(b, Terms[c.sell].trader, s, - c.qty, c.price)

\* Mutant: a trader on both sides is booked once.
OnFill_SelfTradeOnce(a, c) ==
  LET s == Terms[c.buy].symbol
      b == applyFill(a, Terms[c.buy].trader, s, c.qty, c.price)
  IN  IF Terms[c.buy].trader = Terms[c.sell].trader THEN b
      ELSE applyFill(b, Terms[c.sell].trader, s, - c.qty, c.price)

OnFill(a, c) ==
  LET s == Terms[c.buy].symbol
      b == applyFill(a, Terms[c.buy].trader, s, c.qty, c.price)
  IN  applyFill(b, Terms[c.sell].trader, s, - c.qty, c.price)

\* What GET /account answers, given marks, 0 where a symbol has none.
Snapshot(t, marks) ==
  LET acct   == accounts[t]
      pos    == acct.positions
      mark   == [s \in Symbols |-> IF marks[s] > 0 THEN Whole(marks[s]) ELSE pos[s].avgEntry]
      realized   == [s \in Symbols |-> pos[s].realized]
      unrealized == [s \in Symbols |-> Times(Minus(mark[s], pos[s].avgEntry), pos[s].qty)]
      value      == [s \in Symbols |-> Times(mark[s], pos[s].qty)]
      held   == {s \in Symbols : pos[s] # Flat}
      equity == Plus(Whole(acct.cash), Total(value, held))
  IN  [realizedPnL   |-> Total(realized, held),
       unrealizedPnL |-> Total(unrealized, held),
       equity        |-> equity,
       totalPnL      |-> Minus(equity, Whole(StartingCash))]

-----------------------------------------------------------------------------
(* What the venue does, and reports *)

State(o, st) == [kind |-> "state", id |-> o, status |-> st]
Fill(b, s, q, p) == [kind |-> "fill", buy |-> b, sell |-> s, qty |-> q, price |-> p]

Symbol(o) == Terms[o].symbol
Idle(s)   == calls[s] = <<>>
Free(s)   == Idle(s) /\ \A o \in Ids : Symbol(o) = s => at[o] # "hand"

Init ==
  /\ accounts = [t \in {} |-> Fresh]
  /\ at = [o \in Ids |-> "queued"]
  /\ rem = [o \in Ids |-> Terms[o].qty]
  /\ status = [o \in Ids |-> "NEW"]
  /\ calls = [s \in Symbols |-> <<>>]
  /\ telling = {} /\ marking = {}

\* An engine takes an order ...
Dequeue(o) ==
  /\ at[o] = "queued" /\ Terms[o].valid /\ ~ Terms[o].stop /\ Free(Symbol(o))
  /\ at' = [at EXCEPT ![o] = "hand"]
  /\ UNCHANGED <<accounts, rem, status, calls, telling, marking>>

\* ... or turns it away ...
Reject(o) ==
  /\ at[o] = "queued" /\ ~ Terms[o].valid /\ Free(Symbol(o))
  /\ at' = [at EXCEPT ![o] = "done"]
  /\ status' = [status EXCEPT ![o] = "REJECTED"]
  /\ calls' = [calls EXCEPT ![Symbol(o)] = <<State(o, "REJECTED")>>]
  /\ UNCHANGED <<accounts, rem, telling, marking>>

\* ... or parks it: cancellable from now on ...
Park(o) ==
  /\ at[o] = "queued" /\ Terms[o].valid /\ Terms[o].stop /\ Free(Symbol(o))
  /\ at' = [at EXCEPT ![o] = "stops"]
  /\ marking' = marking \cup {o}
  /\ calls' = [calls EXCEPT ![Symbol(o)] = <<State(o, "PENDING")>>]
  /\ UNCHANGED <<accounts, rem, status, telling>>

\* ... and marked in a moment, over what a cancel has written since; then reported.
MarkParked(o) ==
  /\ o \in marking
  /\ status' = [status EXCEPT ![o] = "PENDING"]
  /\ marking' = marking \ {o}
  /\ UNCHANGED <<accounts, at, rem, calls, telling>>

Trigger(o) ==
  /\ at[o] = "stops" /\ Free(Symbol(o))
  /\ at' = [at EXCEPT ![o] = "hand"]
  /\ status' = [status EXCEPT ![o] = "NEW"]
  /\ UNCHANGED <<accounts, rem, calls, telling, marking>>

\* A print: both orders are reported, then the fill.
Trade(maker, taker) ==
  /\ at[maker] = "book" /\ at[taker] = "hand"
  /\ Symbol(maker) = Symbol(taker) /\ Terms[maker].side # Terms[taker].side
  /\ Idle(Symbol(taker))
  /\ status[maker] # "CANCELLED" /\ rem[maker] > 0 /\ rem[taker] > 0
  /\ LET q     == Least(rem[maker], rem[taker])
         left  == [rem EXCEPT ![maker] = @ - q, ![taker] = @ - q]
         st(o) == IF left[o] = 0 THEN "FILLED" ELSE "PARTIALLY_FILLED"
         buy   == IF Terms[taker].side = "BUY" THEN taker ELSE maker
         sell  == IF Terms[taker].side = "BUY" THEN maker ELSE taker
     IN  /\ rem' = left
         /\ status' = [status EXCEPT ![maker] = st(maker), ![taker] = st(taker)]
         /\ \E p \in Prices :
              calls' = [calls EXCEPT ![Symbol(taker)] =
                <<State(maker, st(maker)), State(taker, st(taker)), Fill(buy, sell, q, p)>>]
  /\ UNCHANGED <<accounts, at, telling, marking>>

\* The loop drops an order at the top that is filled or cancelled.
Pop(o) ==
  /\ at[o] = "book" /\ (rem[o] = 0 \/ status[o] = "CANCELLED")
  /\ Idle(Symbol(o)) /\ ~ Free(Symbol(o))
  /\ at' = [at EXCEPT ![o] = IF rem[o] = 0 THEN "done" ELSE "withdrawn"]
  /\ UNCHANGED <<accounts, rem, status, calls, telling, marking>>

\* The end of a taker: filled, resting, or with a remainder that cannot rest.
Done(o) ==
  /\ at[o] = "hand" /\ rem[o] = 0 /\ Idle(Symbol(o))
  /\ at' = [at EXCEPT ![o] = "done"]
  /\ UNCHANGED <<accounts, rem, status, calls, telling, marking>>

Rest(o) ==
  /\ at[o] = "hand" /\ rem[o] > 0 /\ Idle(Symbol(o))
  /\ at' = [at EXCEPT ![o] = "book"]
  /\ calls' = [calls EXCEPT ![Symbol(o)] = <<State(o, status[o])>>]
  /\ UNCHANGED <<accounts, rem, status, telling, marking>>

CancelRemainder(o) ==
  /\ at[o] = "hand" /\ rem[o] > 0 /\ Idle(Symbol(o))
  /\ at' = [at EXCEPT ![o] = "done"]
  /\ status' = [status EXCEPT ![o] = "CANCELLED"]
  /\ calls' = [calls EXCEPT ![Symbol(o)] = <<State(o, "CANCELLED")>>]
  /\ UNCHANGED <<accounts, rem, telling, marking>>

\* The next call of an engine.  A report copies the order first: the status it
\* carries is the one at the time of its step, or one a cancel has written since.
Observe(s) ==
  /\ ~ Idle(s) /\ \A o \in marking : Symbol(o) # s
  /\ LET c == Head(calls[s])
     IN  \/ /\ c.kind = "state"
            /\ \E st \in {c.status, status[c.id]} :
                 accounts' = OnOrderState(accounts, c.id, st)
         \/ /\ c.kind = "fill"
            /\ accounts' = OnFill(accounts, c)
  /\ calls' = [calls EXCEPT ![s] = Tail(@)]
  /\ UNCHANGED <<at, rem, status, telling, marking>>

\* A cancel in the book marks the order, and reports nothing ...
CancelInBook(o) ==
  /\ at[o] = "book" /\ status[o] # "CANCELLED"
  /\ status' = [status EXCEPT ![o] = "CANCELLED"]
  /\ UNCHANGED <<accounts, at, rem, calls, telling, marking>>

\* ... one among the stops removes it, and reports afterwards.
CancelPendingStop(o) ==
  /\ at[o] = "stops"
  /\ at' = [at EXCEPT ![o] = "withdrawn"]
  /\ status' = [status EXCEPT ![o] = "CANCELLED"]
  /\ telling' = telling \cup {o}
  /\ UNCHANGED <<accounts, rem, calls, marking>>

\* The report carries the status the order has by then.
CancelTell(o) ==
  /\ o \in telling
  /\ accounts' = OnOrderState(accounts, o, status[o])
  /\ telling' = telling \ {o}
  /\ UNCHANGED <<at, rem, status, calls, marking>>

Next ==
  \/ \E o \in Ids :
       \/ Dequeue(o) \/ Reject(o) \/ Park(o) \/ MarkParked(o) \/ Trigger(o) \/ Pop(o) \/ Done(o)
       \/ Rest(o) \/ CancelRemainder(o)
       \/ CancelInBook(o) \/ CancelPendingStop(o) \/ CancelTell(o)
  \/ \E maker, taker \in Ids : Trade(maker, taker)
  \/ \E s \in Symbols : Observe(s)

Spec == Init /\ [][Next]_vars

-----------------------------------------------------------------------------
(* Properties *)

Money == Int \X (Nat \ {0})

Statuses == {"NEW", "PENDING", "PARTIALLY_FILLED", "FILLED", "CANCELLED", "REJECTED"}

Account ==
  [cash: Int, positions: [Symbols -> [qty: Int, avgEntry: Money, realized: Money]],
   open: SUBSET Ids, history: Seq([id: Ids, status: Statuses])]

\* Every variable keeps the shape the code's types give it, within the caps on
\* accounts and on history.
TypeOK ==
  /\ accounts \in [DOMAIN accounts -> Account]
  /\ DOMAIN accounts \subseteq Traders /\ Cardinality(DOMAIN accounts) <= MaxAccounts
  /\ \A t \in DOMAIN accounts : Len(accounts[t].history) <= MaxHistory
  /\ at \in [Ids -> {"queued", "hand", "book", "stops", "done", "withdrawn"}]
  /\ rem \in [Ids -> Nat] /\ status \in [Ids -> Statuses]
  /\ telling \subseteq Ids /\ marking \subseteq Ids

\* Whatever it is valued at, and without a mark, what an account has gained
\* is what it has realised and what it would realise: cash, entries and profits
\* stay consistent through adding, reducing, closing and flipping.
PnLAddsUp ==
  \A t \in DOMAIN accounts, mark \in {0} \cup Prices :
    LET snap == Snapshot(t, [s \in Symbols |-> mark])
    IN  snap.totalPnL = Plus(snap.realizedPnL, snap.unrealizedPnL)

Owners(S) == {Terms[o].trader : o \in S}
Traded    == {o \in Ids : rem[o] < Terms[o].qty}

Gains(a)     == [t \in DOMAIN a |-> a[t].cash - StartingCash]
Shares(a, s) == [t \in DOMAIN a |-> a[t].positions[s].qty]

\* When everyone who traded is tracked, no money and no shares are made or
\* lost, at any moment and with several engines booking.
ZeroSum ==
  Owners(Traded) \subseteq DOMAIN accounts =>
    /\ SumFunctionOnSet(Gains(accounts), DOMAIN accounts) = 0
    /\ \A s \in Symbols : SumFunctionOnSet(Shares(accounts, s), DOMAIN accounts) = 0

Signed(o, q) == IF Terms[o].side = "BUY" THEN q ELSE - q

\* The calls of a queue that will book o ...
Booking(k, o) == {i \in DOMAIN k : k[i].kind = "fill" /\ o \in {k[i].buy, k[i].sell}}

\* ... what they will book of it ...
Unbooked(k, o) == SumFunctionOnSet([i \in Booking(k, o) |-> k[i].qty], Booking(k, o))

\* ... and what is booked of it: filled, and no longer on its way.
Booked == [o \in Ids |-> Signed(o, Terms[o].qty - rem[o] - Unbooked(calls[Symbol(o)], o))]

OrdersOf(t, s) == {o \in Ids : Terms[o].trader = t /\ Symbol(o) = s}

\* A position is what its trader's orders have filled: a trader is tracked from
\* the first event or never, whoever is on the other side.
PositionsMatchOrders ==
  \A t \in DOMAIN accounts, s \in Symbols :
    accounts[t].positions[s].qty = SumFunctionOnSet(Booked, OrdersOf(t, s))

\* Nothing about o is on its way to the registry.
Quiet(o) == Idle(Symbol(o)) /\ o \notin telling

\* Between reports, an order nobody tried to cancel is shown open exactly while
\* the venue works it.
OpenMatchesVenue ==
  \A o \in Ids : Terms[o].trader \in DOMAIN accounts /\ Quiet(o) =>
    /\ at[o] \in {"book", "stops"} /\ rem[o] > 0 /\ status[o] # "CANCELLED" =>
         o \in accounts[Terms[o].trader].open
    /\ at[o] \in {"queued", "done"} =>
         o \notin accounts[Terms[o].trader].open

\* An order that leaves the working set is in the history at once, and stays
\* until it is the oldest of a full history.
NoOrderForgotten ==
  [][\A t \in DOMAIN accounts :
       LET h == accounts[t].history
           k == accounts'[t].history
           kept(o) == \E j \in DOMAIN k : k[j].id = o
       IN  /\ \A o \in accounts[t].open \ accounts'[t].open : kept(o)
           /\ \A i \in DOMAIN h : kept(h[i].id) \/ (i = 1 /\ Len(h) = MaxHistory)]_vars

-----------------------------------------------------------------------------
(* What comments and documents say, and the code does not do *)

\* accounts: a snapshot of orders separates working orders from finished ones;
\* so an order shown open is not one that a client was told is cancelled.
OpenIsWorking ==
  \A t \in DOMAIN accounts : \A o \in accounts[t].open :
    Quiet(o) => status[o] # "CANCELLED"

=============================================================================
