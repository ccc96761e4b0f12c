--------------------------- MODULE AccountsProofs ---------------------------
(***************************************************************************)
(* Proofs about the account registry, for any orders, traders and symbols, *)
(* any caps, and any interleaving of the engines' reports with cancels.    *)
(*                                                                         *)
(* In turn: the working set and the history, which do not depend on what   *)
(* cash and positions hold; the ledger, where a fill is two half fills and *)
(* only quantities and cash matter; money, where averages are ratios in    *)
(* lowest terms and an account's gains are what its positions earned.      *)
(***************************************************************************)
EXTENDS Accounts, Sums, TLAPS, SequenceTheorems

-----------------------------------------------------------------------------
(* The inductive invariant *)

Places   == {"queued", "hand", "book", "stops", "done", "withdrawn"}
Entries  == [id : Ids, status : Statuses]
Call     == [kind : {"state"}, id : Ids, status : Statuses]
            \cup [kind : {"fill"}, buy : Ids, sell : Ids, qty : Int, price : Prices]

\* An account is a record of its four fields, its history within the cap.
AccountOK(acct) ==
  /\ acct = [cash |-> acct.cash, positions |-> acct.positions,
             open |-> acct.open, history |-> acct.history]
  /\ acct.history \in Seq(Entries)
  /\ Len(acct.history) <= MaxHistory

RegistryOK(a) ==
  /\ a = [t \in DOMAIN a |-> a[t]]
  /\ DOMAIN a \subseteq Traders
  /\ \A t \in DOMAIN a : AccountOK(a[t])

VenueOK ==
  /\ at \in [Ids -> Places] /\ rem \in [Ids -> Nat] /\ status \in [Ids -> Statuses]
  /\ calls \in [Symbols -> Seq(Call)]

Working(o) == at[o] \in {"hand", "book", "stops"} /\ rem[o] > 0
Ended(o)   == rem[o] = 0 \/ at[o] = "done"

\* A report on its way agrees with where its order is.
Truth(s, c) ==
  c.kind = "state" =>
    /\ Symbol(c.id) = s
    /\ at[c.id] # "queued"
    /\ Working(c.id) => ~ isTerminal(c.status)
    /\ Ended(c.id) => isTerminal(c.status)

CallsTrue == \A s \in Symbols : \A i \in DOMAIN calls[s] : Truth(s, calls[s][i])

\* And so does an order's own status, a cancel in the book aside.
StatusTrue(o) ==
  /\ at[o] = "queued" => status[o] = "NEW"
  /\ Working(o) => ~ isTerminal(status[o]) \/ (at[o] = "book" /\ status[o] = "CANCELLED")
  /\ Ended(o) => isTerminal(status[o])
  /\ at[o] \in {"queued", "stops", "withdrawn"} => rem[o] > 0
  /\ o \in telling => o \in Ids /\ at[o] = "withdrawn"

Reporting(o) ==
  \E i \in DOMAIN calls[Symbol(o)] :
    calls[Symbol(o)][i].kind = "state" /\ calls[Symbol(o)][i].id = o

Full(a) == Cardinality(DOMAIN a) >= MaxAccounts

Open(a, t) == IF t \in DOMAIN a THEN a[t].open ELSE {}

\* A trader who has no account and will get none.
Untracked(a, t) == t \notin DOMAIN a /\ (t = Nobody \/ Full(a))

\* What the registry shows of o is right, or a report that will make it right is
\* on its way.
Shown(o) ==
  LET t == Terms[o].trader
  IN  /\ at[o] = "queued" => o \notin Open(accounts, t) /\ ~ Reporting(o)
      /\ at[o] \in {"book", "stops"} /\ rem[o] > 0 /\ status[o] # "CANCELLED" =>
           o \in Open(accounts, t) \/ Reporting(o) \/ Untracked(accounts, t)
      /\ Ended(o) => o \notin Open(accounts, t) \/ Reporting(o)

Inv ==
  /\ RegistryOK(accounts)
  /\ VenueOK
  /\ CallsTrue
  /\ telling \subseteq Ids
  /\ \A o \in Ids : StatusTrue(o) /\ Shown(o)

\* A stop its engine has still to mark is where it parked it, or taken out by a cancel,
\* and the engine is not idle.
Parked ==
  /\ marking \subseteq Ids
  /\ \A o \in marking : at[o] \in {"stops", "withdrawn"} /\ ~ Idle(Symbol(o))

-----------------------------------------------------------------------------
(* The registry *)

\* What a call does to the registry, beyond the accounts it means: accounts stay,
\* none is opened past the cap, and a new one shows nothing.
Grown(a, b) ==
  /\ RegistryOK(b)
  /\ DOMAIN a \subseteq DOMAIN b
  /\ Full(a) => DOMAIN b = DOMAIN a

\* It changes neither what is open nor what is remembered.
SameOrders(a, b) ==
  /\ \A t \in DOMAIN b : b[t].open = Open(a, t)
  /\ \A t \in DOMAIN a : b[t].history = a[t].history

\* Every order that leaves the working set is in the history, and of what was there
\* only the first of a full one has gone.
Kept(acct, new) ==
  LET kept(o) == \E j \in DOMAIN new.history : new.history[j].id = o
  IN  /\ \A o \in acct.open \ new.open : kept(o)
      /\ \A i \in DOMAIN acct.history :
           kept(acct.history[i].id) \/ (i = 1 /\ Len(acct.history) = MaxHistory)

LEMMA FreshOK == AccountsAssumption => AccountOK(Fresh) /\ Fresh.open = {}
  BY DEF AccountOK, Fresh, AccountsAssumption

LEMMA EnsureGrows ==
  ASSUME AccountsAssumption, NEW a, RegistryOK(a), NEW t \in Traders \cup {Nobody}
  PROVE  /\ Grown(a, ensure(a, t)) /\ SameOrders(a, ensure(a, t))
         /\ t \in DOMAIN ensure(a, t) \/ Untracked(ensure(a, t), t)
<1>1. CASE t = Nobody \/ t \in DOMAIN a \/ Full(a)
  <2>1. ensure(a, t) = a
    BY <1>1 DEF ensure, Full
  <2>2. t = Nobody => t \notin DOMAIN a
    BY DEF AccountsAssumption, RegistryOK
  <2>3. QED
    BY <1>1, <2>1, <2>2 DEF Grown, SameOrders, Open, Untracked
<1>2. CASE ~ (t = Nobody \/ t \in DOMAIN a \/ Full(a))
  <2>1. ensure(a, t) = Opened(a, t)
    BY <1>2 DEF ensure, Full
  <2> DEFINE b == Opened(a, t)
  <2>2. /\ b = [u \in DOMAIN b |-> b[u]]
        /\ DOMAIN b = DOMAIN a \cup {t}
        /\ \A u \in DOMAIN b : b[u] = IF u = t THEN Fresh ELSE a[u]
    BY DEF Opened
  <2> HIDE DEF b
  <2>3. RegistryOK(b)
    BY <1>2, <2>2, FreshOK DEF RegistryOK
  <2>4. SameOrders(a, b)
    BY <1>2, <2>2, FreshOK DEF SameOrders, Open
  <2>5. QED
    BY <1>2, <2>1, <2>2, <2>3, <2>4 DEF Grown, b
<1>3. QED
  BY <1>1, <1>2

\* An account may be rewritten as long as it stays one.
LEMMA Rewritten ==
  ASSUME NEW a, RegistryOK(a), NEW t \in DOMAIN a, NEW acct, AccountOK(acct)
  PROVE  /\ RegistryOK([a EXCEPT ![t] = acct])
         /\ DOMAIN [a EXCEPT ![t] = acct] = DOMAIN a
         /\ \A u \in DOMAIN a : [a EXCEPT ![t] = acct][u] = IF u = t THEN acct ELSE a[u]
  BY DEF RegistryOK

LEMMA ApplyFillGrows ==
  ASSUME AccountsAssumption, NEW a, RegistryOK(a), NEW t \in Traders \cup {Nobody},
         NEW s, NEW signed, NEW price
  PROVE  /\ Grown(a, applyFill(a, t, s, signed, price))
         /\ SameOrders(a, applyFill(a, t, s, signed, price))
<1> DEFINE b == ensure(a, t)
<1>1. Grown(a, b) /\ SameOrders(a, b)
  BY EnsureGrows
<1>2. CASE t \notin DOMAIN b
  <2>1. applyFill(a, t, s, signed, price) = b
    BY <1>2 DEF applyFill
  <2>2. QED
    BY <1>1, <2>1
<1>3. CASE t \in DOMAIN b
  <2> DEFINE cash  == b[t].cash - price * signed
             held  == [b[t].positions EXCEPT ![s] = applyToPosition(@, signed, price)]
             acct  == [cash |-> cash, positions |-> held,
                       open |-> b[t].open, history |-> b[t].history]
             c     == [b EXCEPT ![t].cash = @ - price * signed,
                                ![t].positions[s] = applyToPosition(@, signed, price)]
  <2>1. applyFill(a, t, s, signed, price) = c
    BY <1>3 DEF applyFill
  <2>2. RegistryOK(b) /\ AccountOK(b[t])
    BY <1>1, <1>3 DEF Grown, RegistryOK
  <2>3. c = [b EXCEPT ![t] = acct]
    <3> HIDE DEF b
    <3> DEFINE x == b[t]
    <3>1. x = [cash |-> x.cash, positions |-> x.positions, open |-> x.open, history |-> x.history]
      BY <2>2 DEF AccountOK
    <3>2. [[x EXCEPT !.cash = cash] EXCEPT !.positions = held] = acct
      <4> HIDE DEF cash, held, x
      <4>1. [x EXCEPT !.cash = cash]
              = [cash |-> cash, positions |-> x.positions, open |-> x.open, history |-> x.history]
        BY <3>1
      <4>2. acct = [cash |-> cash, positions |-> held, open |-> x.open, history |-> x.history]
        BY DEF x
      <4> HIDE DEF acct
      <4>3. [[cash |-> cash, positions |-> x.positions, open |-> x.open, history |-> x.history]
               EXCEPT !.positions = held] = acct
        BY <4>2
      <4>4. QED
        BY <4>1, <4>3
    <3>3. QED
      BY <1>3, <2>2, <3>1, <3>2 DEF RegistryOK
  <2>4. AccountOK(acct)
    <3> HIDE DEF cash, held
    <3>1. QED
      BY <2>2 DEF AccountOK
  <2>5. /\ RegistryOK(c) /\ DOMAIN c = DOMAIN b
        /\ \A u \in DOMAIN b : c[u] = IF u = t THEN acct ELSE b[u]
    <3> HIDE DEF b, c, acct
    <3>1. QED
      BY <1>3, <2>2, <2>3, <2>4, Rewritten
  <2>6. acct.open = b[t].open /\ acct.history = b[t].history
    OBVIOUS
  <2> HIDE DEF b, c, acct
  <2>7. Grown(a, c)
    BY <1>1, <2>5 DEF Grown
  <2>8. SameOrders(a, c)
    BY <1>1, <2>5, <2>6 DEF SameOrders, Grown
  <2>9. QED
    BY <2>1, <2>7, <2>8
<1>4. QED
  BY <1>2, <1>3

LEMMA OnFillGrows ==
  ASSUME AccountsAssumption, NEW a, RegistryOK(a), NEW c, c.buy \in Ids, c.sell \in Ids
  PROVE  Grown(a, OnFill(a, c)) /\ SameOrders(a, OnFill(a, c))
<1> DEFINE s    == Terms[c.buy].symbol
           t(o) == Terms[o].trader
           b    == applyFill(a, t(c.buy), s, c.qty, c.price)
           d    == applyFill(b, t(c.sell), s, - c.qty, c.price)
<1>1. t(c.buy) \in Traders \cup {Nobody} /\ t(c.sell) \in Traders \cup {Nobody}
  BY DEF AccountsAssumption
<1>2. OnFill(a, c) = d
  BY DEF OnFill
<1> HIDE DEF t, s
<1>3. Grown(a, b) /\ SameOrders(a, b)
  BY <1>1, ApplyFillGrows
<1> HIDE DEF b
<1>4. RegistryOK(b)
  BY <1>3 DEF Grown
<1>5. Grown(b, d) /\ SameOrders(b, d)
  BY <1>1, <1>4, ApplyFillGrows
<1> HIDE DEF d
<1>6. Grown(a, d)
  BY <1>3, <1>5 DEF Grown, Full
<1>7. SameOrders(a, d)
  BY <1>3, <1>5 DEF SameOrders, Grown, Open
<1>8. QED
  BY <1>2, <1>6, <1>7

\* The history with one order more: that order is in it, and of the others only the
\* first of a full history has gone.
LEMMA FinishedKeeps ==
  ASSUME AccountsAssumption, NEW h \in Seq(Entries), Len(h) <= MaxHistory,
         NEW o \in Ids, NEW st \in Statuses
  PROVE  LET k == Finished(h, o, st)
         IN  /\ k \in Seq(Entries) /\ Len(k) <= MaxHistory
             /\ Listed(k, o)
             /\ \A i \in DOMAIN h : Listed(k, h[i].id) \/ (i = 1 /\ Len(h) = MaxHistory)
<1> DEFINE e == Entry(o, st)
<1>0. e \in Entries /\ e.id = o
  BY DEF Entry, Entries
<1>1. /\ MaxHistory \in Nat /\ MaxHistory > 0
      /\ Len(h) \in Nat /\ Len(h) <= MaxHistory /\ DOMAIN h = 1..Len(h)
  BY DEF AccountsAssumption
<1>2. CASE Listed(h, o)
  <2> DEFINE k == [i \in DOMAIN h |-> IF h[i].id = o THEN e ELSE h[i]]
  <2>1. Finished(h, o, st) = k
    BY <1>2 DEF Finished, Updated
  <2>2. k \in Seq(Entries) /\ Len(k) = Len(h) /\ DOMAIN k = DOMAIN h
    <3>1. \A i \in 1..Len(h) : h[i] \in Entries
      OBVIOUS
    <3> HIDE DEF e
    <3>2. QED
      BY <1>0, <1>1, <3>1, IsASeq
  <2>3. \A i \in DOMAIN h : k[i].id = h[i].id
    BY <1>0
  <2> HIDE DEF k
  <2>4. QED
    BY <1>2, <2>1, <2>2, <2>3 DEF Listed
<1>3. CASE ~ Listed(h, o)
  <2> DEFINE longer == Append(h, e)
             n      == Len(h) + 1
             kept   == Least(n, MaxHistory)
             k      == SubSeq(longer, n - kept + 1, n)
  <2> HIDE DEF e
  <2>1. /\ longer \in Seq(Entries) /\ Len(longer) = n /\ longer[n] = e
        /\ \A i \in 1..Len(h) : longer[i] = h[i]
    BY <1>0, AppendProperties
  <2>2. Finished(h, o, st) = k
    BY <1>3, <2>1 DEF Finished, e
  <2>3. n \in Nat /\ kept \in 1..n /\ kept <= MaxHistory /\ (kept = n \/ kept = MaxHistory)
    BY <1>1 DEF Least
  <2> HIDE DEF longer, kept
  <2>4. /\ k \in Seq(Entries) /\ Len(k) = kept
        /\ \A i \in 1..kept : k[i] = longer[n - kept + i]
    <3>1. n - kept + 1 \in 1..(n + 1) /\ n - (n - kept + 1) + 1 = kept
      BY <2>3
    <3>2. \A i \in (n - kept + 1)..n : longer[i] \in Entries
      BY <2>1, <2>3
    <3>3. QED
      BY <2>1, <2>3, <3>1, <3>2, SubSeqProperties
  <2> HIDE DEF k
  <2>5. DOMAIN k = 1..kept
    BY <2>3, <2>4
  <2>6. Listed(k, o)
    <3>1. kept \in DOMAIN k /\ k[kept] = e
      BY <2>1, <2>3, <2>4, <2>5
    <3>2. QED
      BY <1>0, <3>1 DEF Listed
  <2>7. ASSUME NEW i \in DOMAIN h, ~ (i = 1 /\ Len(h) = MaxHistory)
        PROVE  Listed(k, h[i].id)
    <3> DEFINE j == i - (n - kept)
    <3>1. i \in 1..Len(h)
      BY <1>1
    <3>2. j \in 1..kept
      <4>1. CASE kept = n
        BY <1>1, <2>3, <3>1, <4>1
      <4>2. CASE kept # n
        <5>0. kept \in Nat /\ kept <= Len(h) /\ kept = MaxHistory
          BY <1>1, <2>3, <4>2
        <5>1. kept = Len(h)
          <6>1. \A m, q \in Nat : m <= q /\ q <= m => m = q
            OBVIOUS
          <6>2. Len(h) <= kept
            BY <1>1, <5>0, Zenon
          <6>3. QED
            BY <1>1, <5>0, <6>1, <6>2, Zenon
        <5>2. i \in Nat /\ i # 1 /\ i >= 1 /\ i <= kept
          BY <1>1, <2>7, <3>1, <5>0, <5>1
        <5>3. n - kept = 1
          BY <1>1, <5>0, <5>1
        <5>4. j = i - 1
          BY <5>2, <5>3
        <5>5. QED
          BY <5>0, <5>2, <5>4
      <4>3. QED
        BY <4>1, <4>2
    <3>3. k[j] = longer[n - kept + j] /\ n - kept + j = i
      <4>1. k[j] = longer[n - kept + j]
        BY <2>4, <3>2
      <4>2. i \in Int /\ n \in Int /\ kept \in Int
        BY <1>1, <2>3, <3>1
      <4>3. n - kept + j = i
        BY <4>2
      <4>4. QED
        BY <4>1, <4>3
    <3>4. k[j] = h[i]
      BY <2>1, <3>1, <3>3
    <3> HIDE DEF j
    <3>5. QED
      BY <2>5, <3>2, <3>4 DEF Listed
  <2>8. QED
    BY <1>1, <2>2, <2>3, <2>4, <2>6, <2>7
<1>4. QED
  BY <1>2, <1>3

\* A report: the order joins or leaves its trader's working set, if the trader is
\* tracked, and no other order moves.
Reported(a, b, o, st) ==
  LET t == Terms[o].trader
  IN  /\ Grown(a, b)
      /\ t \in DOMAIN b \/ Untracked(b, t)
      /\ \A u \in DOMAIN b :
           b[u].open = IF u # t THEN Open(a, u)
                       ELSE IF isTerminal(st) THEN Open(a, u) \ {o}
                       ELSE Open(a, u) \cup {o}
      /\ \A u \in DOMAIN a : Kept(a[u], b[u])

LEMMA ReportReports ==
  ASSUME AccountsAssumption, NEW a, RegistryOK(a), NEW o \in Ids, NEW st \in Statuses
  PROVE  Reported(a, OnOrderState(a, o, st), o, st)
<1> DEFINE t == Terms[o].trader
           b == ensure(a, t)
           c == OnOrderState(a, o, st)
<1>0. t \in Traders \cup {Nobody}
  BY DEF AccountsAssumption
<1> HIDE DEF t
<1>1. Grown(a, b) /\ SameOrders(a, b) /\ (t \in DOMAIN b \/ Untracked(b, t))
  BY <1>0, EnsureGrows
<1>2. \A u \in DOMAIN a : Kept(a[u], b[u])
  BY <1>1 DEF SameOrders, Grown, Kept, Open
<1>3. CASE t \notin DOMAIN b
  <2>1. c = b
    BY <1>3 DEF OnOrderState, t
  <2> HIDE DEF b, c
  <2>2. QED
    BY <1>1, <1>2, <1>3, <2>1 DEF Reported, SameOrders, t, c
<1>4. CASE t \in DOMAIN b
  <2> DEFINE x    == b[t]
             open == IF isTerminal(st) THEN x.open \ {o} ELSE x.open \cup {o}
             hist == IF isTerminal(st) THEN Finished(x.history, o, st) ELSE x.history
             acct == [cash |-> x.cash, positions |-> x.positions, open |-> open, history |-> hist]
  <2>0. RegistryOK(b) /\ AccountOK(x)
    BY <1>1, <1>4 DEF Grown, RegistryOK
  <2>1. c = [b EXCEPT ![t] = acct]
    <3> HIDE DEF b
    <3>1. x = [cash |-> x.cash, positions |-> x.positions, open |-> x.open, history |-> x.history]
      BY <2>0 DEF AccountOK
    <3>2. CASE isTerminal(st)
      <4>1. [x EXCEPT !.open = open, !.history = hist] = acct
        <5> HIDE DEF x, open, hist
        <5>1. [x EXCEPT !.open = open]
                = [cash |-> x.cash, positions |-> x.positions, open |-> open, history |-> x.history]
          BY <3>1
        <5>2. [[cash |-> x.cash, positions |-> x.positions, open |-> open, history |-> x.history]
                 EXCEPT !.history = hist] = acct
          OBVIOUS
        <5>3. QED
          BY <5>1, <5>2
      <4>2. c = [b EXCEPT ![t] = [x EXCEPT !.open = open, !.history = hist]]
        BY <1>4, <2>0, <3>2 DEF OnOrderState, t, RegistryOK, b
      <4>3. QED
        BY <4>1, <4>2
    <3>3. CASE ~ isTerminal(st)
      <4>1. [x EXCEPT !.open = open] = acct
        <5>1. hist = x.history
          BY <3>3
        <5> HIDE DEF x, open, hist
        <5>2. QED
          BY <3>1, <5>1
      <4>2. c = [b EXCEPT ![t] = [x EXCEPT !.open = open]]
        BY <1>4, <2>0, <3>3 DEF OnOrderState, t, RegistryOK, b
      <4>3. QED
        BY <4>1, <4>2
    <3>4. QED
      BY <3>2, <3>3
  <2>2. AccountOK(acct) /\ Kept(x, acct)
    <3> HIDE DEF x
    <3>1. x.history \in Seq(Entries) /\ Len(x.history) <= MaxHistory
      BY <2>0 DEF AccountOK
    <3>2. hist \in Seq(Entries) /\ Len(hist) <= MaxHistory
      BY <3>1, FinishedKeeps
    <3>3. isTerminal(st) => Listed(hist, o)
      BY <3>1, FinishedKeeps
    <3>4. \A i \in DOMAIN x.history :
            Listed(hist, x.history[i].id) \/ (i = 1 /\ Len(x.history) = MaxHistory)
      <4>1. CASE isTerminal(st)
        BY <3>1, <4>1, FinishedKeeps
      <4>2. CASE ~ isTerminal(st)
        BY <4>2 DEF Listed
      <4>3. QED
        BY <4>1, <4>2
    <3>5. \A p \in x.open \ open : p = o /\ isTerminal(st)
      OBVIOUS
    <3> HIDE DEF open, hist
    <3>6. QED
      BY <3>2, <3>3, <3>4, <3>5 DEF AccountOK, Kept, Listed
  <2>3. acct.open = open
    OBVIOUS
  <2> HIDE DEF b, c, acct
  <2>4. /\ RegistryOK(c) /\ DOMAIN c = DOMAIN b
        /\ \A u \in DOMAIN b : c[u] = IF u = t THEN acct ELSE b[u]
    BY <1>4, <2>0, <2>1, <2>2, Rewritten
  <2>5. Grown(a, c)
    BY <1>1, <2>4 DEF Grown
  <2>6. \A u \in DOMAIN c : c[u].open = IF u # t THEN Open(a, u)
                                        ELSE IF isTerminal(st) THEN Open(a, u) \ {o}
                                        ELSE Open(a, u) \cup {o}
    BY <1>1, <2>3, <2>4 DEF SameOrders
  <2>7. \A u \in DOMAIN a : Kept(a[u], c[u])
    <3>1. t \in DOMAIN a => a[t].open = x.open /\ a[t].history = x.history
      BY <1>1 DEF SameOrders, Grown, Open
    <3> HIDE DEF x
    <3>2. t \in DOMAIN a => Kept(a[t], acct)
      BY <2>2, <3>1 DEF Kept
    <3>3. QED
      BY <1>1, <1>2, <2>4, <3>2 DEF Grown
  <2>8. QED
    BY <1>4, <2>4, <2>5, <2>6, <2>7 DEF Reported, t, c
<1>5. QED
  BY <1>3, <1>4

-----------------------------------------------------------------------------
(* The venue's steps *)

LEMMA TermsOK ==
  ASSUME AccountsAssumption, NEW o \in Ids
  PROVE  /\ Terms[o].trader \in Traders \cup {Nobody} /\ Symbol(o) \in Symbols
         /\ Terms[o].qty \in Nat /\ Terms[o].qty > 0
  BY DEF AccountsAssumption, Symbol

LEMMA InitInv == AccountsAssumption /\ Init => Inv
<1> SUFFICES ASSUME AccountsAssumption, Init
             PROVE  Inv
  OBVIOUS
<1>1. RegistryOK(accounts)
  BY DEF Init, RegistryOK
<1>2. VenueOK
  BY TermsOK DEF Init, VenueOK, Statuses, Places
<1>3. CallsTrue
  BY DEF Init, CallsTrue
<1>4. ASSUME NEW o \in Ids
      PROVE  StatusTrue(o) /\ Shown(o)
  <2>1. at[o] = "queued" /\ status[o] = "NEW" /\ rem[o] > 0 /\ o \notin telling
    BY TermsOK DEF Init
  <2>2. ~ Reporting(o) /\ Open(accounts, Terms[o].trader) = {}
    BY TermsOK DEF Init, Reporting, Open
  <2>3. QED
    BY <2>1, <2>2, TermsOK DEF StatusTrue, Shown, Working, Ended, Init
<1>5. QED
  BY <1>1, <1>2, <1>3, <1>4 DEF Inv, Init

\* Of the venue, only what concerns o moves.
OnlyMoves(o) ==
  \A p \in Ids \ {o} :
    /\ at'[p] = at[p] /\ rem'[p] = rem[p] /\ status'[p] = status[p]
    /\ p \in telling' <=> p \in telling

\* What is said of the other orders stays true, when their reports do.
LEMMA OthersStay ==
  ASSUME Inv, NEW o, OnlyMoves(o), UNCHANGED accounts, NEW p \in Ids \ {o},
         Reporting(p)' <=> Reporting(p)
  PROVE  StatusTrue(p)' /\ Shown(p)'
<1>1. StatusTrue(p) /\ Shown(p)
  BY DEF Inv
<1>2. at'[p] = at[p] /\ rem'[p] = rem[p] /\ status'[p] = status[p] /\ (p \in telling' <=> p \in telling)
  BY DEF OnlyMoves
<1>3. StatusTrue(p)'
  BY <1>1, <1>2 DEF StatusTrue, Working, Ended
<1>4. Shown(p)'
  BY <1>1, <1>2 DEF Shown, Ended
<1>5. QED
  BY <1>3, <1>4

\* A step of one order that reports nothing: reports on its way must stay true.
LEMMA SilentStep ==
  ASSUME AccountsAssumption, Inv, NEW o \in Ids, UNCHANGED <<accounts, calls>>,
         VenueOK', telling' \subseteq Ids, OnlyMoves(o),
         \/ Idle(Symbol(o))
         \/ at[o] = "queued"
         \/ (Working(o)' => Working(o)) /\ (Ended(o)' => Ended(o)) /\ at'[o] # "queued",
         StatusTrue(o)', Shown(o)'
  PROVE  Inv'
<1>1. RegistryOK(accounts')
  BY DEF Inv
<1>2. ASSUME NEW s \in Symbols, NEW i \in DOMAIN calls[s]
      PROVE  Truth(s, calls[s][i])'
  <2> DEFINE c == calls[s][i]
  <2>1. Truth(s, c)
    BY DEF Inv, CallsTrue
  <2>2. calls[s] \in Seq(Call)
    BY DEF Inv, VenueOK
  <2>3. c.kind = "state" => c.id \in Ids
    BY <2>2 DEF Call
  <2>4. CASE c.kind = "state" /\ c.id = o
    <3>1. ~ Idle(Symbol(o)) /\ at[o] # "queued"
      BY <2>1, <2>2, <2>4 DEF Truth, Idle
    <3>2. (Working(o)' => Working(o)) /\ (Ended(o)' => Ended(o)) /\ at'[o] # "queued"
      BY <3>1
    <3>3. QED
      BY <2>1, <2>4, <3>2 DEF Truth, Working, Ended
  <2>5. CASE c.kind = "state" /\ c.id # o
    BY <2>1, <2>3, <2>5 DEF Truth, Working, Ended, OnlyMoves
  <2>6. QED
    BY <2>4, <2>5 DEF Truth
<1>3. CallsTrue'
  BY <1>2 DEF CallsTrue
<1>4. \A p \in Ids : StatusTrue(p)' /\ Shown(p)'
  BY OthersStay DEF Reporting
<1>5. QED
  BY <1>1, <1>3, <1>4 DEF Inv

\* The one report of an idle engine.
LEMMA OneReport ==
  ASSUME AccountsAssumption, VenueOK, NEW o \in Ids, NEW st \in Statuses,
         calls' = [calls EXCEPT ![Symbol(o)] = <<State(o, st)>>]
  PROVE  /\ calls' \in [Symbols -> Seq(Call)]
         /\ DOMAIN calls'[Symbol(o)] = {1} /\ calls'[Symbol(o)][1] = State(o, st)
         /\ \A s \in Symbols \ {Symbol(o)} : calls'[s] = calls[s]
<1>1. State(o, st) \in Call
  BY DEF State, Call
<1>2. calls'[Symbol(o)] = <<State(o, st)>>
  BY TermsOK DEF VenueOK
<1>3. \A s \in Symbols \ {Symbol(o)} : calls'[s] = calls[s]
  BY DEF VenueOK
<1> HIDE DEF State
<1>4. <<State(o, st)>> \in Seq(Call) /\ DOMAIN <<State(o, st)>> = {1}
  BY <1>1
<1>5. calls' \in [Symbols -> Seq(Call)]
  BY <1>4 DEF VenueOK
<1>6. QED
  BY <1>2, <1>3, <1>4, <1>5

\* A step of one order that reports it.
LEMMA ReportStep ==
  ASSUME AccountsAssumption, Inv, NEW o \in Ids, NEW st \in Statuses, UNCHANGED accounts,
         Idle(Symbol(o)), calls' = [calls EXCEPT ![Symbol(o)] = <<State(o, st)>>],
         VenueOK', telling' \subseteq Ids, OnlyMoves(o),
         at'[o] # "queued", Working(o)' => ~ isTerminal(st), Ended(o)' => isTerminal(st),
         StatusTrue(o)'
  PROVE  Inv'
<1>0. VenueOK
  BY DEF Inv
<1>1. /\ DOMAIN calls'[Symbol(o)] = {1} /\ calls'[Symbol(o)][1] = State(o, st)
      /\ \A s \in Symbols \ {Symbol(o)} : calls'[s] = calls[s]
  BY <1>0, OneReport
<1>2. State(o, st).kind = "state" /\ State(o, st).id = o /\ State(o, st).status = st
  BY DEF State
<1>3. RegistryOK(accounts')
  BY DEF Inv
<1>4. CallsTrue'
  <2>1. ASSUME NEW s \in Symbols, NEW i \in DOMAIN calls'[s]
        PROVE  Truth(s, calls[s][i])'
    <3>1. CASE s = Symbol(o)
      BY <1>1, <1>2, <3>1 DEF Truth
    <3>2. CASE s # Symbol(o)
      <4> DEFINE c == calls[s][i]
      <4>1. i \in DOMAIN calls[s] /\ calls'[s][i] = c
        BY <1>1, <3>2
      <4>2. Truth(s, c)
        BY <4>1 DEF Inv, CallsTrue
      <4>3. c.kind = "state" => c.id \in Ids
        <5>1. calls[s] \in Seq(Call)
          BY <1>0 DEF VenueOK
        <5>2. c \in Call
          BY <4>1, <5>1
        <5> HIDE DEF c
        <5>3. QED
          BY <5>2 DEF Call
      <4>4. c.kind = "state" => c.id # o
        BY <3>2, <4>2 DEF Truth
      <4>5. QED
        BY <4>1, <4>2, <4>3, <4>4 DEF Truth, Working, Ended, OnlyMoves
    <3>3. QED
      BY <3>1, <3>2
  <2>2. QED
    BY <2>1 DEF CallsTrue
<1>5. ASSUME NEW p \in Ids \ {o}
      PROVE  StatusTrue(p)' /\ Shown(p)'
  <2>1. CASE Symbol(p) = Symbol(o)
    <3>1. ~ Reporting(p) /\ ~ Reporting(p)'
      BY <1>1, <1>2, <2>1 DEF Reporting, Idle
    <3>2. QED
      BY <3>1, OthersStay
  <2>2. CASE Symbol(p) # Symbol(o)
    <3>1. Reporting(p)' <=> Reporting(p)
      BY <1>1, <2>2, TermsOK DEF Reporting
    <3>2. QED
      BY <3>1, OthersStay
  <2>3. QED
    BY <2>1, <2>2
<1>6. Shown(o)'
  <2>1. Reporting(o)'
    BY <1>1, <1>2 DEF Reporting
  <2>2. QED
    BY <2>1 DEF Shown
<1>7. QED
  BY <1>3, <1>4, <1>5, <1>6 DEF Inv

\* What the invariant says of one order.
LEMMA OrderFacts ==
  ASSUME Inv, NEW o \in Ids
  PROVE  /\ at \in [Ids -> Places] /\ rem \in [Ids -> Nat] /\ status \in [Ids -> Statuses]
         /\ at[o] \in Places /\ rem[o] \in Nat /\ status[o] \in Statuses
         /\ StatusTrue(o) /\ Shown(o) /\ telling \subseteq Ids /\ VenueOK
  BY DEF Inv, VenueOK

LEMMA IdleIsSilent == ASSUME NEW o, Idle(Symbol(o)) PROVE ~ Reporting(o)
  BY DEF Idle, Reporting

LEMMA DequeueStep ==
  ASSUME AccountsAssumption, Inv, NEW o \in Ids, Dequeue(o)
  PROVE  Inv'
<1>1. VenueOK' /\ OnlyMoves(o) /\ telling' \subseteq Ids
  BY OrderFacts DEF Dequeue, VenueOK, OnlyMoves, Places
<1>2. /\ at[o] = "queued" /\ at'[o] = "hand" /\ rem'[o] = rem[o] /\ status'[o] = status[o]
      /\ UNCHANGED <<accounts, calls, telling>>
  BY OrderFacts DEF Dequeue
<1>3. StatusTrue(o)'
  BY <1>2, OrderFacts DEF StatusTrue, Working, Ended, isTerminal
<1>4. Shown(o)'
  BY <1>2, OrderFacts DEF Shown, Ended, Reporting
<1>5. QED
  BY <1>1, <1>2, <1>3, <1>4, SilentStep

LEMMA RejectStep ==
  ASSUME AccountsAssumption, Inv, NEW o \in Ids, Reject(o)
  PROVE  Inv'
<1> DEFINE st == "REJECTED"
<1>1. /\ calls' = [calls EXCEPT ![Symbol(o)] = <<State(o, st)>>] /\ st \in Statuses
      /\ Idle(Symbol(o)) /\ UNCHANGED accounts
  BY DEF Reject, Free, Statuses
<1>2. VenueOK' /\ OnlyMoves(o) /\ telling' \subseteq Ids
  BY <1>1, OneReport, OrderFacts DEF Reject, VenueOK, OnlyMoves, Places
<1>3. at'[o] = "done" /\ status'[o] = st /\ UNCHANGED telling /\ at[o] = "queued"
  BY OrderFacts DEF Reject
<1>4. StatusTrue(o)' /\ ~ Working(o)' /\ isTerminal(st)
  BY <1>3, OrderFacts DEF StatusTrue, Working, Ended, isTerminal
<1>5. QED
  BY <1>1, <1>2, <1>3, <1>4, ReportStep

LEMMA ParkStep ==
  ASSUME AccountsAssumption, Inv, NEW o \in Ids, Park(o)
  PROVE  Inv'
<1> DEFINE st == "PENDING"
<1>1. /\ calls' = [calls EXCEPT ![Symbol(o)] = <<State(o, st)>>] /\ st \in Statuses
      /\ Idle(Symbol(o)) /\ UNCHANGED accounts
  BY DEF Park, Free, Statuses
<1>2. VenueOK' /\ OnlyMoves(o) /\ telling' \subseteq Ids
  <2>1. calls' \in [Symbols -> Seq(Call)]
    BY <1>1, OneReport, OrderFacts
  <2>2. QED
    BY <2>1, OrderFacts DEF Park, VenueOK, OnlyMoves, Places, Statuses
<1>3. /\ at'[o] = "stops" /\ status'[o] = "NEW" /\ rem'[o] = rem[o]
      /\ UNCHANGED telling /\ at[o] = "queued"
  BY OrderFacts DEF Park, StatusTrue
<1>4. StatusTrue(o)' /\ ~ Ended(o)' /\ ~ isTerminal(st)
  BY <1>3, OrderFacts DEF StatusTrue, Working, Ended, isTerminal
<1>5. QED
  BY <1>1, <1>2, <1>3, <1>4, ReportStep

\* The mark of a parked stop, over whatever a cancel has written.
LEMMA MarkParkedStep ==
  ASSUME AccountsAssumption, Inv, Parked, NEW o \in Ids, MarkParked(o)
  PROVE  Inv'
<1>1. VenueOK' /\ OnlyMoves(o) /\ telling' \subseteq Ids
  BY OrderFacts DEF MarkParked, VenueOK, OnlyMoves, Statuses
<1>2. /\ at[o] \in {"stops", "withdrawn"} /\ at'[o] = at[o] /\ rem'[o] = rem[o]
      /\ status'[o] = "PENDING" /\ UNCHANGED <<accounts, calls, telling>>
  BY OrderFacts DEF MarkParked, Parked
<1>3. StatusTrue(o)' /\ (Working(o)' => Working(o)) /\ (Ended(o)' => Ended(o)) /\ ~ Ended(o)'
  BY <1>2, OrderFacts DEF StatusTrue, Working, Ended, isTerminal
<1>4. Shown(o)'
  <2>1. at[o] = "stops" => status[o] # "CANCELLED" /\ rem[o] > 0
    BY OrderFacts DEF StatusTrue, Working, isTerminal
  <2>2. QED
    BY <1>2, <1>3, <2>1, OrderFacts DEF Shown, Reporting
<1>5. QED
  BY <1>1, <1>2, <1>3, <1>4, SilentStep

LEMMA TriggerStep ==
  ASSUME AccountsAssumption, Inv, NEW o \in Ids, Trigger(o)
  PROVE  Inv'
<1>1. VenueOK' /\ OnlyMoves(o) /\ telling' \subseteq Ids
  BY OrderFacts DEF Trigger, VenueOK, OnlyMoves, Places, Statuses
<1>2. /\ at[o] = "stops" /\ at'[o] = "hand" /\ rem'[o] = rem[o] /\ status'[o] = "NEW"
      /\ Idle(Symbol(o)) /\ UNCHANGED <<accounts, calls, telling>>
  BY OrderFacts DEF Trigger, Free
<1>3. StatusTrue(o)'
  BY <1>2, OrderFacts DEF StatusTrue, Working, Ended, isTerminal
<1>4. Shown(o)'
  BY <1>2, OrderFacts DEF Shown, StatusTrue, Ended
<1>5. QED
  BY <1>1, <1>2, <1>3, <1>4, SilentStep

LEMMA PopStep ==
  ASSUME AccountsAssumption, Inv, NEW o \in Ids, Pop(o)
  PROVE  Inv'
<1>1. VenueOK' /\ OnlyMoves(o) /\ telling' \subseteq Ids
  BY OrderFacts DEF Pop, VenueOK, OnlyMoves, Places
<1>2. /\ at[o] = "book" /\ at'[o] = (IF rem[o] = 0 THEN "done" ELSE "withdrawn")
      /\ rem'[o] = rem[o] /\ status'[o] = status[o]
      /\ Idle(Symbol(o)) /\ UNCHANGED <<accounts, calls, telling>>
  BY OrderFacts DEF Pop
<1>3. StatusTrue(o)'
  BY <1>2, OrderFacts DEF StatusTrue, Working, Ended
<1>4. Shown(o)'
  BY <1>2, OrderFacts, IdleIsSilent DEF Shown, Ended, Reporting
<1>5. QED
  BY <1>1, <1>2, <1>3, <1>4, SilentStep

LEMMA DoneStep ==
  ASSUME AccountsAssumption, Inv, NEW o \in Ids, Done(o)
  PROVE  Inv'
<1>1. VenueOK' /\ OnlyMoves(o) /\ telling' \subseteq Ids
  BY OrderFacts DEF Done, VenueOK, OnlyMoves, Places
<1>2. /\ at[o] = "hand" /\ at'[o] = "done" /\ rem[o] = 0
      /\ rem'[o] = rem[o] /\ status'[o] = status[o]
      /\ Idle(Symbol(o)) /\ UNCHANGED <<accounts, calls, telling>>
  BY OrderFacts DEF Done
<1>3. StatusTrue(o)'
  BY <1>2, OrderFacts DEF StatusTrue, Working, Ended
<1>4. Shown(o)'
  BY <1>2, OrderFacts, IdleIsSilent DEF Shown, Ended, Reporting
<1>5. QED
  BY <1>1, <1>2, <1>3, <1>4, SilentStep

LEMMA RestStep ==
  ASSUME AccountsAssumption, Inv, NEW o \in Ids, Rest(o)
  PROVE  Inv'
<1> DEFINE st == status[o]
<1>1. /\ calls' = [calls EXCEPT ![Symbol(o)] = <<State(o, st)>>] /\ st \in Statuses
      /\ Idle(Symbol(o)) /\ UNCHANGED accounts
  BY OrderFacts DEF Rest
<1>2. VenueOK' /\ OnlyMoves(o) /\ telling' \subseteq Ids
  BY <1>1, OneReport, OrderFacts DEF Rest, VenueOK, OnlyMoves, Places
<1>3. /\ at[o] = "hand" /\ at'[o] = "book" /\ rem[o] > 0 /\ rem'[o] = rem[o] /\ status'[o] = st
      /\ UNCHANGED telling
  BY OrderFacts DEF Rest
<1>4. StatusTrue(o)' /\ ~ Ended(o)' /\ ~ isTerminal(st)
  BY <1>3, OrderFacts DEF StatusTrue, Working, Ended
<1>5. QED
  BY <1>1, <1>2, <1>3, <1>4, ReportStep

LEMMA CancelRemainderStep ==
  ASSUME AccountsAssumption, Inv, NEW o \in Ids, CancelRemainder(o)
  PROVE  Inv'
<1> DEFINE st == "CANCELLED"
<1>1. /\ calls' = [calls EXCEPT ![Symbol(o)] = <<State(o, st)>>] /\ st \in Statuses
      /\ Idle(Symbol(o)) /\ UNCHANGED accounts
  BY DEF CancelRemainder, Statuses
<1>2. VenueOK' /\ OnlyMoves(o) /\ telling' \subseteq Ids
  BY <1>1, OneReport, OrderFacts DEF CancelRemainder, VenueOK, OnlyMoves, Places
<1>3. at[o] = "hand" /\ at'[o] = "done" /\ status'[o] = st /\ UNCHANGED telling
  BY OrderFacts DEF CancelRemainder
<1>4. StatusTrue(o)' /\ ~ Working(o)' /\ isTerminal(st)
  BY <1>3, OrderFacts DEF StatusTrue, Working, Ended, isTerminal
<1>5. QED
  BY <1>1, <1>2, <1>3, <1>4, ReportStep

\* A cancel in the book touches the status alone, and what it leaves is terminal.
LEMMA CancelInBookStep ==
  ASSUME AccountsAssumption, Inv, NEW o \in Ids, CancelInBook(o)
  PROVE  Inv'
<1>1. VenueOK' /\ OnlyMoves(o) /\ telling' \subseteq Ids
  BY OrderFacts DEF CancelInBook, VenueOK, OnlyMoves, Statuses
<1>2. /\ at[o] = "book" /\ at'[o] = at[o] /\ rem'[o] = rem[o] /\ status'[o] = "CANCELLED"
      /\ UNCHANGED <<accounts, calls, telling>>
  BY OrderFacts DEF CancelInBook
<1>3. StatusTrue(o)'
  BY <1>2, OrderFacts DEF StatusTrue, Working, Ended, isTerminal
<1>4. Shown(o)'
  BY <1>2, OrderFacts DEF Shown, Ended, Reporting
<1>5. Working(o)' = Working(o) /\ Ended(o)' = Ended(o)
  BY <1>2 DEF Working, Ended
<1>6. QED
  BY <1>1, <1>2, <1>3, <1>4, <1>5, SilentStep

LEMMA CancelPendingStopStep ==
  ASSUME AccountsAssumption, Inv, NEW o \in Ids, CancelPendingStop(o)
  PROVE  Inv'
<1>1. VenueOK' /\ OnlyMoves(o) /\ telling' \subseteq Ids
  BY OrderFacts DEF CancelPendingStop, VenueOK, OnlyMoves, Statuses, Places
<1>2. /\ at[o] = "stops" /\ at'[o] = "withdrawn" /\ rem'[o] = rem[o]
      /\ UNCHANGED <<accounts, calls>>
  BY OrderFacts DEF CancelPendingStop
<1>3. StatusTrue(o)' /\ ~ Working(o)' /\ ~ Ended(o)'
  BY <1>2, OrderFacts DEF StatusTrue, Working, Ended
<1>4. Shown(o)'
  BY <1>2, <1>3, OrderFacts DEF Shown
<1>5. QED
  BY <1>1, <1>2, <1>3, <1>4, SilentStep

\* The calls of a print.
LEMMA PrintReports ==
  ASSUME VenueOK, NEW s \in Symbols, NEW maker \in Ids, NEW taker \in Ids,
         NEW buy \in Ids, NEW sell \in Ids, NEW q \in Int, NEW p \in Prices,
         NEW x \in Statuses, NEW y \in Statuses,
         calls' = [calls EXCEPT ![s] = <<State(maker, x), State(taker, y), Fill(buy, sell, q, p)>>]
  PROVE  /\ calls' \in [Symbols -> Seq(Call)]
         /\ DOMAIN calls'[s] = {1, 2, 3}
         /\ calls'[s][1] = State(maker, x) /\ calls'[s][2] = State(taker, y)
         /\ calls'[s][3].kind = "fill"
         /\ \A u \in Symbols \ {s} : calls'[u] = calls[u]
<1> DEFINE a == State(maker, x)
           b == State(taker, y)
           c == Fill(buy, sell, q, p)
<1>1. a \in Call /\ b \in Call /\ c \in Call /\ c.kind = "fill"
  BY DEF State, Fill, Call
<1> HIDE DEF a, b, c
<1>2. calls'[s] = <<a, b, c>>
  BY DEF VenueOK, a, b, c
<1>3. \A u \in Symbols \ {s} : calls'[u] = calls[u]
  BY DEF VenueOK
<1>4. <<a, b, c>> \in Seq(Call) /\ DOMAIN <<a, b, c>> = {1, 2, 3}
  BY <1>1
<1>5. calls' \in [Symbols -> Seq(Call)]
  BY <1>2, <1>4 DEF VenueOK, a, b, c
<1>6. QED
  BY <1>1, <1>2, <1>3, <1>4, <1>5 DEF a, b

\* A print between two orders of an idle engine: both are reported as they are.
LEMMA PrintStep ==
  ASSUME AccountsAssumption, Inv, NEW maker \in Ids, NEW taker \in Ids, maker # taker,
         NEW s \in Symbols, Symbol(maker) = s, Symbol(taker) = s, Idle(s),
         NEW x \in Statuses, NEW y \in Statuses, UNCHANGED <<accounts, at, telling>>,
         at[maker] = "book", at[taker] = "hand", VenueOK',
         status'[maker] = x, isTerminal(x) <=> rem'[maker] = 0,
         status'[taker] = y, isTerminal(y) <=> rem'[taker] = 0,
         \A p \in Ids \ {maker, taker} : status'[p] = status[p] /\ rem'[p] = rem[p],
         DOMAIN calls'[s] = {1, 2, 3},
         calls'[s][1] = State(maker, x), calls'[s][2] = State(taker, y),
         calls'[s][3].kind = "fill",
         \A u \in Symbols \ {s} : calls'[u] = calls[u]
  PROVE  Inv'
<1>0. VenueOK
  BY DEF Inv
<1>1. /\ State(maker, x).kind = "state" /\ State(maker, x).id = maker /\ State(maker, x).status = x
      /\ State(taker, y).kind = "state" /\ State(taker, y).id = taker /\ State(taker, y).status = y
  BY DEF State
<1>2. rem'[maker] \in Nat /\ rem'[taker] \in Nat
  BY DEF VenueOK
<1>3. CallsTrue'
  <2>1. ASSUME NEW u \in Symbols, NEW i \in DOMAIN calls'[u]
        PROVE  Truth(u, calls[u][i])'
    <3>1. CASE u = s
      <4>1. CASE i = 1
        BY <1>1, <1>2, <3>1, <4>1 DEF Truth, Working, Ended
      <4>2. CASE i = 2
        BY <1>1, <1>2, <3>1, <4>2 DEF Truth, Working, Ended
      <4>3. CASE i = 3
        BY <3>1, <4>3 DEF Truth
      <4>4. QED
        BY <3>1, <4>1, <4>2, <4>3
    <3>2. CASE u # s
      <4>1. PICK c \in Call : c = calls[u][i] /\ calls'[u][i] = c
        BY <1>0, <3>2 DEF VenueOK
      <4>2. Truth(u, c)
        BY <3>2, <4>1 DEF Inv, CallsTrue
      <4>3. c.kind = "state" => c.id \in Ids
        BY DEF Call
      <4>4. c.kind = "state" => c.id \notin {maker, taker}
        BY <3>2, <4>2 DEF Truth
      <4>5. QED
        BY <4>1, <4>2, <4>3, <4>4 DEF Truth, Working, Ended
    <3>3. QED
      BY <3>1, <3>2
  <2>2. QED
    BY <2>1 DEF CallsTrue
<1>4. ASSUME NEW o \in {maker, taker}
      PROVE  StatusTrue(o)' /\ Shown(o)'
  <2>1. Reporting(o)'
    BY <1>1 DEF Reporting
  <2>2. o \notin telling'
    BY OrderFacts DEF StatusTrue
  <2>3. StatusTrue(o)'
    BY <1>2, <2>2 DEF StatusTrue, Working, Ended
  <2>4. Shown(o)'
    BY <2>1 DEF Shown
  <2>5. QED
    BY <2>3, <2>4
<1>5. ASSUME NEW p \in Ids \ {maker, taker}
      PROVE  StatusTrue(p)' /\ Shown(p)'
  <2>1. Reporting(p)' <=> Reporting(p)
    <3>1. CASE Symbol(p) = s
      <4>1. ~ Reporting(p)
        BY <3>1, IdleIsSilent
      <4>2. ~ Reporting(p)'
        BY <1>1, <3>1 DEF Reporting
      <4>3. QED
        BY <4>1, <4>2
    <3>2. CASE Symbol(p) # s
      BY <3>2, TermsOK DEF Reporting
    <3>3. QED
      BY <3>1, <3>2
  <2>2. StatusTrue(p) /\ Shown(p)
    BY OrderFacts
  <2>3. StatusTrue(p)'
    BY <2>2 DEF StatusTrue, Working, Ended
  <2>4. Shown(p)'
    BY <2>1, <2>2 DEF Shown, Ended
  <2>5. QED
    BY <2>3, <2>4
<1>6. \A o \in Ids : StatusTrue(o)' /\ Shown(o)'
  BY <1>4, <1>5
<1>7. RegistryOK(accounts') /\ telling' \subseteq Ids
  BY DEF Inv
<1>8. QED
  BY <1>3, <1>6, <1>7 DEF Inv

LEMMA TradeStep ==
  ASSUME AccountsAssumption, Inv, NEW maker \in Ids, NEW taker \in Ids, Trade(maker, taker)
  PROVE  Inv'
<1> DEFINE s    == Symbol(taker)
           q    == Least(rem[maker], rem[taker])
           left == [rem EXCEPT ![maker] = @ - q, ![taker] = @ - q]
           x    == IF left[maker] = 0 THEN "FILLED" ELSE "PARTIALLY_FILLED"
           y    == IF left[taker] = 0 THEN "FILLED" ELSE "PARTIALLY_FILLED"
           buy  == IF Terms[taker].side = "BUY" THEN taker ELSE maker
           sell == IF Terms[taker].side = "BUY" THEN maker ELSE taker
<1>1. /\ at[maker] = "book" /\ at[taker] = "hand" /\ maker # taker /\ Symbol(maker) = s
      /\ Idle(s) /\ rem[maker] > 0 /\ rem[taker] > 0
      /\ UNCHANGED <<accounts, at, telling>>
  BY DEF Trade
<1>2. rem' = left /\ status' = [status EXCEPT ![maker] = x, ![taker] = y]
  BY DEF Trade
<1>3. PICK price \in Prices :
        calls' = [calls EXCEPT ![s] = <<State(maker, x), State(taker, y), Fill(buy, sell, q, price)>>]
  BY DEF Trade
<1>4. q \in Nat /\ q <= rem[maker] /\ q <= rem[taker]
  BY OrderFacts DEF Least
<1>5. left \in [Ids -> Nat] /\ \A p \in Ids \ {maker, taker} : left[p] = rem[p]
  <2> HIDE DEF q
  <2>1. rem[maker] - q \in Nat /\ rem[taker] - q \in Nat
    BY <1>4, OrderFacts
  <2>2. QED
    BY <1>1, <2>1, OrderFacts
<1> HIDE DEF left, q
<1>6. x \in Statuses /\ y \in Statuses /\ buy \in Ids /\ sell \in Ids
  BY DEF Statuses
<1>7. (isTerminal(x) <=> rem'[maker] = 0) /\ (isTerminal(y) <=> rem'[taker] = 0)
  BY <1>2 DEF isTerminal
<1> HIDE DEF x, y, buy, sell
<1>8. /\ status' \in [Ids -> Statuses] /\ status'[maker] = x /\ status'[taker] = y
      /\ \A p \in Ids \ {maker, taker} : status'[p] = status[p]
  BY <1>1, <1>2, <1>6, OrderFacts
<1>9. s \in Symbols /\ VenueOK /\ q \in Int
  BY <1>4, TermsOK, OrderFacts
<1> HIDE DEF s
<1>10. /\ calls' \in [Symbols -> Seq(Call)]
       /\ DOMAIN calls'[s] = {1, 2, 3}
       /\ calls'[s][1] = State(maker, x) /\ calls'[s][2] = State(taker, y)
       /\ calls'[s][3].kind = "fill"
       /\ \A u \in Symbols \ {s} : calls'[u] = calls[u]
  BY <1>3, <1>6, <1>9, PrintReports
<1>11. VenueOK'
  BY <1>1, <1>2, <1>5, <1>8, <1>9, <1>10 DEF VenueOK
<1>12. Symbol(taker) = s
  BY DEF s
<1>13. \A p \in Ids \ {maker, taker} : rem'[p] = rem[p]
  BY <1>2, <1>5
<1>14. PICK f \in Statuses, g \in Statuses : f = x /\ g = y
  BY <1>6
<1>15. /\ calls'[s][1] = State(maker, f) /\ calls'[s][2] = State(taker, g)
       /\ status'[maker] = f /\ status'[taker] = g
       /\ (isTerminal(f) <=> rem'[maker] = 0) /\ (isTerminal(g) <=> rem'[taker] = 0)
  BY <1>7, <1>8, <1>10, <1>14
<1>16. \A p \in Ids \ {maker, taker} : status'[p] = status[p] /\ rem'[p] = rem[p]
  BY <1>8, <1>13
<1>17. /\ DOMAIN calls'[s] = {1, 2, 3} /\ calls'[s][3].kind = "fill"
       /\ \A u \in Symbols \ {s} : calls'[u] = calls[u]
  BY <1>10
<1>18. s \in Symbols
  BY <1>9
<1>19. QED
  BY <1>1, <1>11, <1>12, <1>15, <1>16, <1>17, <1>18, PrintStep

-----------------------------------------------------------------------------
(* The reports *)

\* A call for other orders leaves what is shown of p as it was.
LEMMA ShownStays ==
  ASSUME AccountsAssumption, NEW p \in Ids, Shown(p), UNCHANGED <<at, rem, status>>,
         Reporting(p)' <=> Reporting(p), Grown(accounts, accounts'),
         p \in Open(accounts', Terms[p].trader) <=> p \in Open(accounts, Terms[p].trader)
  PROVE  Shown(p)'
<1> DEFINE t == Terms[p].trader
<1>1. Untracked(accounts, t) => Untracked(accounts', t)
  BY DEF Untracked, Grown, Full, RegistryOK, AccountsAssumption
<1> HIDE DEF t
<1>2. QED
  BY <1>1 DEF Shown, Ended, t

LEMMA FillShows ==
  ASSUME NEW a, NEW b, Grown(a, b), SameOrders(a, b), NEW t
  PROVE  Open(b, t) = Open(a, t)
  BY DEF Grown, SameOrders, Open

\* A report moves its own order only.
LEMMA ReportShows ==
  ASSUME NEW a, NEW b, NEW o, NEW st, Reported(a, b, o, st), NEW p, p # o, NEW t
  PROVE  p \in Open(b, t) <=> p \in Open(a, t)
<1>1. CASE t \in DOMAIN b
  <2>1. b[t].open \in {Open(a, t), Open(a, t) \ {o}, Open(a, t) \cup {o}}
    BY <1>1 DEF Reported
  <2>2. Open(b, t) = b[t].open
    BY <1>1 DEF Open
  <2>3. QED
    BY <2>1, <2>2
<1>2. CASE t \notin DOMAIN b
  BY <1>2 DEF Reported, Grown, Open
<1>3. QED
  BY <1>1, <1>2

\* The next call is made: the others stay, in order.
LEMMA NextCall ==
  ASSUME VenueOK, NEW s \in Symbols, ~ Idle(s), calls' = [calls EXCEPT ![s] = Tail(@)]
  PROVE  /\ calls' \in [Symbols -> Seq(Call)]
         /\ 1 \in DOMAIN calls[s] /\ Head(calls[s]) = calls[s][1] /\ calls[s][1] \in Call
         /\ \A u \in Symbols \ {s} : calls'[u] = calls[u]
         /\ \A i \in DOMAIN calls'[s] : i + 1 \in DOMAIN calls[s] /\ calls'[s][i] = calls[s][i + 1]
         /\ \A i \in DOMAIN calls[s] : i # 1 => i - 1 \in DOMAIN calls'[s] /\ calls'[s][i - 1] = calls[s][i]
<1> DEFINE k == calls[s]
<1>1. k \in Seq(Call) /\ k # <<>>
  BY DEF VenueOK, Idle
<1>2. calls'[s] = Tail(k) /\ \A u \in Symbols \ {s} : calls'[u] = calls[u]
  BY DEF VenueOK
<1> HIDE DEF k
<1>3. /\ Tail(k) \in Seq(Call) /\ Len(k) \in Nat /\ Len(k) > 0 /\ Head(k) = k[1]
      /\ Len(Tail(k)) = Len(k) - 1 /\ \A i \in 1..(Len(k) - 1) : Tail(k)[i] = k[i + 1]
      /\ DOMAIN k = 1..Len(k) /\ DOMAIN Tail(k) = 1..(Len(k) - 1)
  BY <1>1
<1>4. 1 \in DOMAIN k /\ k[1] \in Call
  BY <1>1, <1>3
<1>5. \A i \in DOMAIN Tail(k) : i + 1 \in DOMAIN k /\ Tail(k)[i] = k[i + 1]
  BY <1>3
<1>6. ASSUME NEW i \in DOMAIN k, i # 1
      PROVE  i - 1 \in DOMAIN Tail(k) /\ Tail(k)[i - 1] = k[i]
  <2>1. i - 1 \in 1..(Len(k) - 1) /\ (i - 1) + 1 = i
    BY <1>3, <1>6
  <2>2. QED
    BY <1>3, <2>1
<1>7. calls' \in [Symbols -> Seq(Call)]
  BY <1>3 DEF VenueOK, k
<1>8. QED
  BY <1>2, <1>3, <1>4, <1>5, <1>6, <1>7 DEF k

LEMMA ObserveStep ==
  ASSUME AccountsAssumption, Inv, NEW s \in Symbols, Observe(s)
  PROVE  Inv'
<1>1. VenueOK /\ ~ Idle(s) /\ calls' = [calls EXCEPT ![s] = Tail(@)] /\ RegistryOK(accounts)
  BY DEF Inv, Observe
<1>2. UNCHANGED <<at, rem, status, telling>>
  BY DEF Observe
<1>3. /\ calls' \in [Symbols -> Seq(Call)]
      /\ 1 \in DOMAIN calls[s] /\ Head(calls[s]) = calls[s][1] /\ calls[s][1] \in Call
      /\ \A u \in Symbols \ {s} : calls'[u] = calls[u]
      /\ \A i \in DOMAIN calls'[s] : i + 1 \in DOMAIN calls[s] /\ calls'[s][i] = calls[s][i + 1]
      /\ \A i \in DOMAIN calls[s] : i # 1 => i - 1 \in DOMAIN calls'[s] /\ calls'[s][i - 1] = calls[s][i]
  BY <1>1, NextCall
<1>c. PICK c \in Call : c = calls[s][1] /\ c = Head(calls[s])
  BY <1>3
<1>4. Truth(s, c)
  BY <1>3, <1>c DEF Inv, CallsTrue
<1>5. VenueOK'
  BY <1>1, <1>2, <1>3 DEF VenueOK
<1>6. CallsTrue'
  <2>1. ASSUME NEW u \in Symbols, NEW i \in DOMAIN calls'[u]
        PROVE  Truth(u, calls[u][i])'
    <3>1. PICK j \in DOMAIN calls[u] : calls'[u][i] = calls[u][j]
      BY <1>3
    <3>2. Truth(u, calls[u][j])
      BY DEF Inv, CallsTrue
    <3>3. QED
      BY <1>2, <3>1, <3>2 DEF Truth, Working, Ended
  <2>2. QED
    BY <2>1 DEF CallsTrue
<1>7. \A o \in Ids : StatusTrue(o)'
  BY <1>2 DEF Inv, StatusTrue, Working, Ended
<1>8. ASSUME NEW p \in Ids, ~ (c.kind = "state" /\ c.id = p)
      PROVE  Reporting(p)' <=> Reporting(p)
  <2>1. CASE Symbol(p) = s
    <3>1. ASSUME Reporting(p)
          PROVE  Reporting(p)'
      <4>1. PICK i \in DOMAIN calls[s] : calls[s][i].kind = "state" /\ calls[s][i].id = p
        BY <2>1, <3>1 DEF Reporting
      <4>2. i # 1
        BY <1>8, <1>c, <4>1
      <4>3. i - 1 \in DOMAIN calls'[s] /\ calls'[s][i - 1] = calls[s][i]
        BY <1>3, <4>2
      <4>4. QED
        BY <2>1, <4>1, <4>3 DEF Reporting
    <3>2. ASSUME Reporting(p)'
          PROVE  Reporting(p)
      <4>1. PICK i \in DOMAIN calls'[s] : calls'[s][i].kind = "state" /\ calls'[s][i].id = p
        BY <2>1, <3>2 DEF Reporting
      <4>2. i + 1 \in DOMAIN calls[s] /\ calls'[s][i] = calls[s][i + 1]
        BY <1>3
      <4>3. QED
        BY <2>1, <4>1, <4>2 DEF Reporting
    <3>3. QED
      BY <3>1, <3>2
  <2>2. CASE Symbol(p) # s
    BY <1>3, <2>2, TermsOK DEF Reporting
  <2>3. QED
    BY <2>1, <2>2
<1>9. Grown(accounts, accounts') /\ \A o \in Ids : Shown(o)'
  <2>1. CASE c.kind = "fill"
    <3>1. accounts' = OnFill(accounts, c) /\ c.buy \in Ids /\ c.sell \in Ids
      BY <1>c, <2>1 DEF Observe, Call
    <3>2. Grown(accounts, accounts') /\ SameOrders(accounts, accounts')
      BY <1>1, <3>1, OnFillGrows
    <3>3. \A t : Open(accounts', t) = Open(accounts, t)
      BY <3>2, FillShows
    <3>4. ASSUME NEW p \in Ids
          PROVE  Shown(p)'
      <4>1. Reporting(p)' <=> Reporting(p)
        BY <1>8, <2>1
      <4>2. Shown(p)
        BY DEF Inv
      <4>3. QED
        BY <1>2, <3>2, <3>3, <4>1, <4>2, ShownStays
    <3>5. QED
      BY <3>2, <3>4
  <2>2. CASE c.kind = "state"
    <3>0. PICK o \in Ids : o = c.id
      BY <2>2 DEF Call
    <3>1. c.status \in Statuses
      BY <2>2 DEF Call
    <3>2. PICK st \in {c.status, status[o]} : accounts' = OnOrderState(accounts, o, st)
      BY <1>c, <2>2, <3>0 DEF Observe
    <3>3. st \in Statuses
      BY <3>1, OrderFacts
    <3>4. Reported(accounts, accounts', o, st)
      BY <1>1, <3>1, <3>2, <3>3, ReportReports
    <3>5. Grown(accounts, accounts')
      BY <3>4 DEF Reported
    <3>6. Shown(o)'
      <4> DEFINE t == Terms[o].trader
      <4>1. at[o] # "queued" /\ (Working(o) => ~ isTerminal(c.status)) /\ (Ended(o) => isTerminal(c.status))
        BY <1>4, <2>2, <3>0 DEF Truth
      <4>2. StatusTrue(o)
        BY DEF Inv
      <4>3. /\ Working(o) /\ status[o] # "CANCELLED" => ~ isTerminal(st)
            /\ Ended(o) => isTerminal(st)
        BY <3>2, <4>1, <4>2 DEF StatusTrue
      <4>4. ~ isTerminal(st) => o \in Open(accounts', t) \/ Untracked(accounts', t)
        <5>1. t \in DOMAIN accounts' \/ Untracked(accounts', t)
          BY <3>4 DEF Reported
        <5>2. ~ isTerminal(st) /\ t \in DOMAIN accounts' =>
                accounts'[t].open = Open(accounts, t) \cup {o}
          BY <3>4 DEF Reported
        <5>3. QED
          BY <5>1, <5>2 DEF Open
      <4>5. isTerminal(st) => o \notin Open(accounts', t)
        <5>1. isTerminal(st) /\ t \in DOMAIN accounts' =>
                accounts'[t].open = Open(accounts, t) \ {o}
          BY <3>4 DEF Reported
        <5>2. QED
          BY <5>1 DEF Open
      <4> HIDE DEF t
      <4>6. QED
        BY <1>2, <4>1, <4>3, <4>4, <4>5 DEF Shown, Working, Ended, t
    <3>7. ASSUME NEW p \in Ids, p # o
          PROVE  Shown(p)'
      <4>1. Reporting(p)' <=> Reporting(p)
        BY <1>8, <3>0, <3>7
      <4>2. Shown(p)
        BY DEF Inv
      <4>3. p \in Open(accounts', Terms[p].trader) <=> p \in Open(accounts, Terms[p].trader)
        BY <3>4, <3>7, ReportShows
      <4>4. QED
        BY <1>2, <3>5, <4>1, <4>2, <4>3, ShownStays
    <3>8. QED
      BY <3>5, <3>6, <3>7
  <2>3. QED
    BY <2>1, <2>2 DEF Call
<1>10. QED
  BY <1>2, <1>5, <1>6, <1>7, <1>9 DEF Inv, Grown

LEMMA CancelTellStep ==
  ASSUME AccountsAssumption, Inv, NEW o \in Ids, CancelTell(o)
  PROVE  Inv'
<1>1. /\ o \in telling /\ accounts' = OnOrderState(accounts, o, status[o])
      /\ telling' = telling \ {o} /\ UNCHANGED <<at, rem, status, calls>>
  BY DEF CancelTell
<1>2. Reported(accounts, accounts', o, status[o])
  BY <1>1, OrderFacts, ReportReports DEF Inv
<1>3. Grown(accounts, accounts')
  BY <1>2 DEF Reported
<1>4. VenueOK' /\ CallsTrue'
  BY <1>1 DEF Inv, VenueOK, CallsTrue, Truth, Working, Ended
<1>5. \A p \in Ids : StatusTrue(p)'
  BY <1>1 DEF Inv, StatusTrue, Working, Ended
<1>6. ASSUME NEW p \in Ids
      PROVE  Shown(p)'
  <2>1. Shown(p) /\ (Reporting(p)' <=> Reporting(p))
    BY <1>1 DEF Inv, Reporting
  <2>2. CASE p = o
    <3>1. at[o] = "withdrawn" /\ rem[o] > 0
      BY <1>1, OrderFacts DEF StatusTrue
    <3>2. QED
      BY <1>1, <2>2, <3>1, OrderFacts DEF Shown, Ended
  <2>3. CASE p # o
    <3>1. p \in Open(accounts', Terms[p].trader) <=> p \in Open(accounts, Terms[p].trader)
      BY <1>2, <2>3, ReportShows
    <3>2. QED
      BY <1>1, <1>3, <2>1, <3>1, ShownStays
  <2>4. QED
    BY <2>2, <2>3
<1>7. QED
  BY <1>1, <1>3, <1>4, <1>5, <1>6 DEF Inv, Grown

-----------------------------------------------------------------------------
(* The theorems *)

\* No step of one order takes a stop out of the engine's hand before it is marked.
LEMMA ParkedStays ==
  ASSUME AccountsAssumption, Inv, Parked, [Next]_vars
  PROVE  Parked'
<1>0. at \in [Ids -> Places] /\ calls \in [Symbols -> Seq(Call)]
  BY DEF Inv, VenueOK
<1>1. CASE UNCHANGED vars
  BY <1>1 DEF Parked, Idle, vars
<1>2. ASSUME NEW o \in Ids,
             \/ Dequeue(o) \/ Pop(o) \/ Done(o) \/ Trigger(o)
             \/ CancelInBook(o) \/ CancelPendingStop(o) \/ CancelTell(o) \/ MarkParked(o)
      PROVE  Parked'
  <2>1. /\ marking' \subseteq marking /\ UNCHANGED calls
        /\ \A p \in Ids \ {o} : at'[p] = at[p]
    BY <1>0, <1>2 DEF Dequeue, Pop, Done, Trigger, CancelInBook, CancelPendingStop, CancelTell,
                      MarkParked
  <2>2. o \in marking => at'[o] \in {"stops", "withdrawn"}
    BY <1>0, <1>2 DEF Parked, Dequeue, Pop, Done, Trigger, CancelInBook, CancelPendingStop,
                      CancelTell, MarkParked, Free
  <2>3. QED
    BY <2>1, <2>2 DEF Parked, Idle
<1>3. ASSUME NEW o \in Ids, Reject(o) \/ Rest(o) \/ CancelRemainder(o)
      PROVE  Parked'
  <2>1. /\ marking' = marking /\ Idle(Symbol(o))
        /\ \E place : at' = [at EXCEPT ![o] = place]
        /\ \E st : calls' = [calls EXCEPT ![Symbol(o)] = <<State(o, st)>>]
    BY <1>3 DEF Reject, Rest, CancelRemainder, Free
  <2>2. QED
    BY <1>0, <2>1, TermsOK DEF Parked, Idle
<1>4. ASSUME NEW o \in Ids, Park(o)
      PROVE  Parked'
  <2>1. /\ marking' = marking \cup {o} /\ Idle(Symbol(o)) /\ at' = [at EXCEPT ![o] = "stops"]
        /\ calls' = [calls EXCEPT ![Symbol(o)] = <<State(o, "PENDING")>>]
    BY <1>4 DEF Park, Free
  <2>2. QED
    BY <1>0, <2>1, TermsOK DEF Parked, Idle
<1>5. ASSUME NEW maker \in Ids, NEW taker \in Ids, Trade(maker, taker)
      PROVE  Parked'
  <2>1. UNCHANGED <<at, marking>> /\ Idle(Symbol(taker))
    BY <1>5 DEF Trade
  <2>2. \A s \in Symbols \ {Symbol(taker)} : calls'[s] = calls[s]
    BY <1>0, <1>5 DEF Trade
  <2>3. QED
    BY <2>1, <2>2, TermsOK DEF Parked, Idle
<1>6. ASSUME NEW s \in Symbols, Observe(s)
      PROVE  Parked'
  <2>1. UNCHANGED <<at, marking>> /\ \A o \in marking : Symbol(o) # s
    BY <1>6 DEF Observe
  <2>2. \A u \in Symbols \ {s} : calls'[u] = calls[u]
    BY <1>0, <1>6 DEF Observe
  <2>3. QED
    BY <2>1, <2>2, TermsOK DEF Parked, Idle
<1>7. QED
  BY <1>1, <1>2, <1>3, <1>4, <1>5, <1>6 DEF Next

LEMMA Preserved ==
  ASSUME AccountsAssumption, Inv, Parked, [Next]_vars
  PROVE  Inv' /\ Parked'
<1>0. Parked'
  BY ParkedStays
<1>1. CASE UNCHANGED vars
  <2>1. UNCHANGED <<accounts, at, rem, status, calls, telling>>
    BY <1>1 DEF vars
  <2>2. \A o \in Ids : StatusTrue(o)' /\ Shown(o)'
    BY <2>1 DEF Inv, StatusTrue, Shown, Working, Ended, Reporting
  <2>3. VenueOK' /\ CallsTrue'
    BY <2>1 DEF Inv, VenueOK, CallsTrue, Truth, Working, Ended
  <2>4. QED
    BY <1>0, <2>1, <2>2, <2>3 DEF Inv
<1>2. ASSUME NEW o \in Ids,
             \/ Dequeue(o) \/ Reject(o) \/ Park(o) \/ MarkParked(o) \/ Trigger(o) \/ Pop(o) \/ Done(o)
             \/ Rest(o) \/ CancelRemainder(o)
             \/ CancelInBook(o) \/ CancelPendingStop(o) \/ CancelTell(o)
      PROVE  Inv'
  BY <1>2, DequeueStep, RejectStep, ParkStep, MarkParkedStep, TriggerStep, PopStep, DoneStep, RestStep,
     CancelRemainderStep, CancelInBookStep, CancelPendingStopStep, CancelTellStep
<1>3. ASSUME NEW maker \in Ids, NEW taker \in Ids, Trade(maker, taker)
      PROVE  Inv'
  BY <1>3, TradeStep
<1>4. ASSUME NEW s \in Symbols, Observe(s)
      PROVE  Inv'
  BY <1>4, ObserveStep
<1>5. QED
  BY <1>0, <1>1, <1>2, <1>3, <1>4 DEF Next

\* Every state the registry, the engines and the cancels can reach together
\* satisfies Inv: what is shown of an order is right, or a report that will make
\* it right is on its way.
THEOREM Invariance == Spec => [](Inv /\ Parked)
<1>1. AccountsAssumption /\ Init => Inv /\ Parked
  BY InitInv DEF Init, Parked
<1>2. QED
  BY <1>1, Preserved, AccountsAssumption, PTL DEF Spec

\* Between reports, an order nobody tried to cancel is shown open by a tracked
\* account exactly while the venue works it, however the reports of engines and
\* the cancels interleave.
THEOREM OpenFollowsVenue == Spec => []OpenMatchesVenue
<1>1. Inv => OpenMatchesVenue
  <2> SUFFICES ASSUME Inv, NEW o \in Ids, Terms[o].trader \in DOMAIN accounts, Quiet(o)
               PROVE  /\ at[o] \in {"book", "stops"} /\ rem[o] > 0 /\ status[o] # "CANCELLED" =>
                           o \in accounts[Terms[o].trader].open
                      /\ at[o] \in {"queued", "done"} =>
                           o \notin accounts[Terms[o].trader].open
    BY DEF OpenMatchesVenue
  <2> DEFINE t == Terms[o].trader
  <2>1. ~ Reporting(o)
    BY IdleIsSilent DEF Quiet
  <2>2. Shown(o)
    BY DEF Inv
  <2>3. Open(accounts, t) = accounts[t].open /\ ~ Untracked(accounts, t)
    BY AccountsAssumption DEF Open, Untracked
  <2>4. QED
    BY <2>1, <2>2, <2>3 DEF Shown, Ended
<1>2. QED
  BY <1>1, Invariance, PTL

\* A call of the registry drops the oldest of a full history and nothing else.
LEMMA StepKeeps ==
  ASSUME AccountsAssumption, Inv, [Next]_vars, NEW t \in DOMAIN accounts
  PROVE  Kept(accounts[t], accounts'[t])
<1>1. CASE UNCHANGED accounts
  <2>1. accounts[t].history \in Seq(Entries)
    BY DEF Inv, RegistryOK, AccountOK
  <2>2. QED
    BY <1>1, <2>1 DEF Kept
<1>2. ASSUME NEW o \in Ids, CancelTell(o)
      PROVE  Kept(accounts[t], accounts'[t])
  <2>1. status[o] \in Statuses /\ RegistryOK(accounts)
    BY OrderFacts DEF Inv
  <2>2. Reported(accounts, accounts', o, status[o])
    BY <1>2, <2>1, ReportReports DEF CancelTell
  <2>3. QED
    BY <2>2 DEF Reported
<1>3. ASSUME NEW s \in Symbols, Observe(s)
      PROVE  Kept(accounts[t], accounts'[t])
  <2>1. VenueOK /\ RegistryOK(accounts) /\ ~ Idle(s)
    BY <1>3 DEF Inv, Observe
  <2>2. PICK c \in Call : c = Head(calls[s])
    <3>1. calls[s] \in Seq(Call) /\ calls[s] # <<>>
      BY <2>1 DEF VenueOK, Idle
    <3>2. Head(calls[s]) \in Call
      BY <3>1
    <3>3. QED
      BY <3>2
  <2>3. CASE c.kind = "fill"
    <3>1. accounts' = OnFill(accounts, c) /\ c.buy \in Ids /\ c.sell \in Ids
      BY <1>3, <2>2, <2>3 DEF Observe, Call
    <3>2. Grown(accounts, accounts') /\ SameOrders(accounts, accounts')
      BY <2>1, <3>1, OnFillGrows
    <3>3. accounts'[t].open = accounts[t].open /\ accounts'[t].history = accounts[t].history
      BY <3>2 DEF Grown, SameOrders, Open
    <3>4. QED
      BY <3>3 DEF Kept
  <2>4. CASE c.kind = "state"
    <3>1. c.id \in Ids /\ c.status \in Statuses
      BY <2>4 DEF Call
    <3>2. PICK st \in {c.status, status[c.id]} : accounts' = OnOrderState(accounts, c.id, st)
      BY <1>3, <2>2, <2>4 DEF Observe
    <3>3. st \in Statuses
      BY <3>1, OrderFacts
    <3>4. Reported(accounts, accounts', c.id, st)
      BY <2>1, <3>1, <3>2, <3>3, ReportReports
    <3>5. QED
      BY <3>4 DEF Reported
  <2>5. QED
    BY <2>3, <2>4 DEF Call
<1>4. ASSUME NEW o \in Ids,
             \/ Dequeue(o) \/ Reject(o) \/ Park(o) \/ MarkParked(o) \/ Trigger(o) \/ Pop(o) \/ Done(o)
             \/ Rest(o) \/ CancelRemainder(o) \/ CancelInBook(o) \/ CancelPendingStop(o)
      PROVE  UNCHANGED accounts
  BY <1>4 DEF Dequeue, Reject, Park, MarkParked, Trigger, Pop, Done, Rest, CancelRemainder,
              CancelInBook, CancelPendingStop
<1>5. ASSUME NEW maker \in Ids, NEW taker \in Ids, Trade(maker, taker)
      PROVE  UNCHANGED accounts
  BY <1>5 DEF Trade
<1>6. UNCHANGED vars => UNCHANGED accounts
  BY DEF vars
<1>7. QED
  BY <1>1, <1>2, <1>3, <1>4, <1>5, <1>6 DEF Next

\* An order that leaves the working set is in the history at once, and the
\* history loses only the oldest order of a full one, whatever its cap and
\* whoever reports.
THEOREM OnlyOldestForgotten == Spec => NoOrderForgotten
<1>1. Inv /\ [Next]_vars =>
        [\A t \in DOMAIN accounts :
           LET h == accounts[t].history
               k == accounts'[t].history
               kept(o) == \E j \in DOMAIN k : k[j].id = o
           IN  /\ \A o \in accounts[t].open \ accounts'[t].open : kept(o)
               /\ \A i \in DOMAIN h : kept(h[i].id) \/ (i = 1 /\ Len(h) = MaxHistory)]_vars
  BY AccountsAssumption, StepKeeps DEF Kept
<1>2. QED
  BY <1>1, Invariance, PTL DEF Spec, NoOrderForgotten

-----------------------------------------------------------------------------
(* The ledger *)

\* A position is a record of its three fields; of its entry and profit, no matter what.
PositionOK(p) ==
  p = [qty |-> p.qty, avgEntry |-> p.avgEntry, realized |-> p.realized] /\ p.qty \in Int

MoneyOK(acct) ==
  /\ acct.cash \in Int
  /\ acct.positions = [s \in Symbols |-> acct.positions[s]]
  /\ \A s \in Symbols : PositionOK(acct.positions[s])

\* The registry holds what is booked: g[o] of each order, whose trader is tracked
\* from then on, or never.
Ledger(a, g) ==
  /\ RegistryOK(a) /\ IsFiniteSet(DOMAIN a)
  /\ \A t \in DOMAIN a : MoneyOK(a[t])
  /\ \A t \in DOMAIN a, s \in Symbols :
       a[t].positions[s].qty = SumFunctionOnSet(g, OrdersOf(t, s))
  /\ \A o \in Ids : g[o] # 0 => Terms[o].trader \in DOMAIN a \/ Untracked(a, Terms[o].trader)

AllGains(a)     == SumFunctionOnSet(Gains(a), DOMAIN a)
AllShares(a, s) == SumFunctionOnSet(Shares(a, s), DOMAIN a)

Balanced(a) == AllGains(a) = 0 /\ \A s \in Symbols : AllShares(a, s) = 0

\* No money moves: at most, an account is opened for a trader who could be tracked.
Widened(a, b) ==
  /\ Grown(a, b)
  /\ \A t \in DOMAIN a : b[t].cash = a[t].cash /\ b[t].positions = a[t].positions
  /\ \/ DOMAIN b = DOMAIN a
     \/ \E t : /\ t \notin DOMAIN a /\ ~ Untracked(a, t) /\ DOMAIN b = DOMAIN a \cup {t}
               /\ b[t].cash = StartingCash /\ b[t].positions = [s \in Symbols |-> Flat]

\* Who will not be tracked stays so.
LEMMA UntrackedStays ==
  ASSUME AccountsAssumption, NEW a, NEW b, Grown(a, b), NEW t
  PROVE  Untracked(a, t) => Untracked(b, t)
  BY DEF Untracked, Grown, Full, RegistryOK, AccountsAssumption

\* Looking up an account moves no money.
LEMMA EnsureWidens ==
  ASSUME AccountsAssumption, NEW a, RegistryOK(a), NEW t \in Traders \cup {Nobody}
  PROVE  Widened(a, ensure(a, t))
<1>0. Grown(a, ensure(a, t))
  BY EnsureGrows
<1>1. CASE t = Nobody \/ t \in DOMAIN a \/ Full(a)
  <2>1. ensure(a, t) = a
    BY <1>1 DEF ensure, Full
  <2>2. QED
    BY <1>0, <2>1 DEF Widened
<1>2. CASE ~ (t = Nobody \/ t \in DOMAIN a \/ Full(a))
  <2>1. ensure(a, t) = Opened(a, t)
    BY <1>2 DEF ensure, Full
  <2> DEFINE b == Opened(a, t)
  <2>2. /\ DOMAIN b = DOMAIN a \cup {t}
        /\ \A u \in DOMAIN b : b[u] = IF u = t THEN Fresh ELSE a[u]
    BY DEF Opened
  <2> HIDE DEF b
  <2>3. b[t].cash = StartingCash /\ b[t].positions = [s \in Symbols |-> Flat]
    BY <2>2 DEF Fresh
  <2>4. \A u \in DOMAIN a : b[u].cash = a[u].cash /\ b[u].positions = a[u].positions
    BY <1>2, <2>2
  <2>5. ~ Untracked(a, t)
    BY <1>2 DEF Untracked
  <2>6. QED
    BY <1>0, <1>2, <2>1, <2>2, <2>3, <2>4, <2>5 DEF Widened, b
<1>3. QED
  BY <1>1, <1>2

\* A report moves no money.
LEMMA ReportWidens ==
  ASSUME AccountsAssumption, NEW a, RegistryOK(a), NEW o \in Ids, NEW st \in Statuses
  PROVE  Widened(a, OnOrderState(a, o, st))
<1> DEFINE t == Terms[o].trader
           b == ensure(a, t)
           c == OnOrderState(a, o, st)
<1>0. t \in Traders \cup {Nobody}
  BY DEF AccountsAssumption
<1>1. Widened(a, b)
  BY <1>0, EnsureWidens
<1>2. Grown(a, c)
  BY ReportReports DEF Reported
<1>3. DOMAIN c = DOMAIN b /\ \A u \in DOMAIN b : c[u].cash = b[u].cash /\ c[u].positions = b[u].positions
  <2>0. RegistryOK(b)
    BY <1>1 DEF Widened, Grown
  <2>1. CASE t \notin DOMAIN b
    <3>1. c = b
      BY <2>1 DEF OnOrderState, t
    <3>2. QED
      BY <3>1
  <2>2. CASE t \in DOMAIN b
    <3>1. AccountOK(b[t])
      BY <2>0, <2>2 DEF RegistryOK
    <3>2. CASE isTerminal(st)
      <4> DEFINE h == Finished(b[t].history, o, st)
                 x == [b[t] EXCEPT !.open = @ \ {o}, !.history = h]
      <4>1. c = [b EXCEPT ![t] = x]
        BY <2>0, <2>2, <3>2 DEF OnOrderState, t, RegistryOK, b
      <4>2. x.cash = b[t].cash /\ x.positions = b[t].positions
        <5> HIDE DEF b, h, t
        <5>1. QED
          BY <3>1 DEF AccountOK
      <4> HIDE DEF x, c, b
      <4>3. QED
        BY <2>0, <4>1, <4>2 DEF RegistryOK
    <3>3. CASE ~ isTerminal(st)
      <4> DEFINE x == [b[t] EXCEPT !.open = @ \cup {o}]
      <4>1. c = [b EXCEPT ![t] = x]
        BY <2>0, <2>2, <3>3 DEF OnOrderState, t, RegistryOK, b
      <4>2. x.cash = b[t].cash /\ x.positions = b[t].positions
        <5> HIDE DEF b, t
        <5>1. QED
          BY <3>1 DEF AccountOK
      <4> HIDE DEF x, c, b
      <4>3. QED
        BY <2>0, <4>1, <4>2 DEF RegistryOK
    <3>4. QED
      BY <3>2, <3>3
  <2>3. QED
    BY <2>1, <2>2
<1> HIDE DEF b, c
<1>4. \A u \in DOMAIN a : u \in DOMAIN b
  BY <1>1 DEF Widened, Grown
<1>5. QED
  BY <1>1, <1>2, <1>3, <1>4 DEF Widened, c

\* A trader has finitely many orders in a symbol.
LEMMA OrdersFinite ==
  ASSUME AccountsAssumption, NEW t, NEW s
  PROVE  IsFiniteSet(OrdersOf(t, s)) /\ OrdersOf(t, s) \subseteq Ids
<1>1. OrdersOf(t, s) \subseteq Ids /\ IsFiniteSet(Ids)
  BY DEF OrdersOf, AccountsAssumption
<1>2. QED
  BY <1>1, FS_Subset

\* Cash and positions are integers, and so are their sums.
LEMMA SumsAreInts ==
  ASSUME NEW a, NEW g, Ledger(a, g), NEW s \in Symbols
  PROVE  /\ AllGains(a) \in Int /\ AllShares(a, s) \in Int
         /\ \A t \in DOMAIN a : Gains(a)[t] \in Int /\ Shares(a, s)[t] \in Int
<1>0. StartingCash \in Int
  BY AccountsAssumption DEF AccountsAssumption
<1>1. \A t \in DOMAIN a : a[t].cash \in Int /\ a[t].positions[s].qty \in Int
  BY DEF Ledger, MoneyOK, PositionOK
<1>2. \A t \in DOMAIN a : Gains(a)[t] \in Int /\ Shares(a, s)[t] \in Int
  BY <1>0, <1>1 DEF Gains, Shares
<1>3. IsFiniteSet(DOMAIN a)
  BY DEF Ledger
<1>4. QED
  BY <1>2, <1>3, SumType DEF AllGains, AllShares

\* An account that opens holds nothing, and nothing was booked for its trader.
LEMMA WidenedKeeps ==
  ASSUME AccountsAssumption, NEW a, NEW b, NEW g, Ledger(a, g), Widened(a, b)
  PROVE  /\ Ledger(b, g)
         /\ AllGains(b) = AllGains(a) /\ \A s \in Symbols : AllShares(b, s) = AllShares(a, s)
<1>1. RegistryOK(b) /\ DOMAIN a \subseteq DOMAIN b /\ IsFiniteSet(DOMAIN a)
  BY DEF Widened, Grown, Ledger
<1>2. \A t \in DOMAIN a : b[t].cash = a[t].cash /\ b[t].positions = a[t].positions
  BY DEF Widened
<1>3. \A t \in DOMAIN a : /\ MoneyOK(b[t])
                          /\ Gains(b)[t] = Gains(a)[t]
                          /\ \A s \in Symbols : Shares(b, s)[t] = Shares(a, s)[t]
  BY <1>1, <1>2 DEF Ledger, MoneyOK, Gains, Shares
<1>4. \A o \in Ids : g[o] # 0 => Terms[o].trader \in DOMAIN b \/ Untracked(b, Terms[o].trader)
  <2>1. \A t : Untracked(a, t) => Untracked(b, t)
    BY UntrackedStays DEF Widened
  <2>2. QED
    BY <1>1, <2>1 DEF Ledger
<1>5. CASE DOMAIN b = DOMAIN a
  <2>1. Ledger(b, g)
    BY <1>1, <1>2, <1>3, <1>4, <1>5 DEF Ledger
  <2>2. QED
    BY <1>1, <1>3, <1>5, <2>1, SumLooksAt DEF AllGains, AllShares
<1>6. ASSUME NEW t, t \notin DOMAIN a, ~ Untracked(a, t), DOMAIN b = DOMAIN a \cup {t},
             b[t].cash = StartingCash, b[t].positions = [s \in Symbols |-> Flat]
      PROVE  /\ Ledger(b, g)
             /\ AllGains(b) = AllGains(a) /\ \A s \in Symbols : AllShares(b, s) = AllShares(a, s)
  <2>1. MoneyOK(b[t])
    BY <1>6 DEF MoneyOK, PositionOK, Flat, AccountsAssumption
  <2>2. \A s \in Symbols : b[t].positions[s].qty = 0
    BY <1>6 DEF Flat
  <2>3. ASSUME NEW s \in Symbols
        PROVE  SumFunctionOnSet(g, OrdersOf(t, s)) = 0
    <3>1. \A o \in OrdersOf(t, s) : g[o] = 0
      BY <1>6 DEF OrdersOf, Ledger
    <3>2. QED
      BY <3>1, OrdersFinite, SumOfZeros
  <2>4. ASSUME NEW u \in DOMAIN b, NEW s \in Symbols
        PROVE  b[u].positions[s].qty = SumFunctionOnSet(g, OrdersOf(u, s))
    BY <1>2, <1>6, <2>2, <2>3 DEF Ledger
  <2>5. IsFiniteSet(DOMAIN b)
    BY <1>1, <1>6, FS_AddElement
  <2>6. Ledger(b, g)
    BY <1>1, <1>3, <1>4, <1>6, <2>1, <2>4, <2>5 DEF Ledger
  <2>7. Gains(b)[t] = 0 /\ \A s \in Symbols : Shares(b, s)[t] = 0
    BY <1>6, <2>2 DEF Gains, Shares, AccountsAssumption
  <2>8. AllGains(b) = AllGains(a)
    <3>0. StartingCash \in Int
      BY DEF AccountsAssumption
    <3>1. \A u \in DOMAIN a \cup {t} : Gains(b)[u] \in Int
      <4>1. \A u \in DOMAIN b : b[u].cash \in Int
        BY <1>6, <1>3, <2>1 DEF MoneyOK
      <4>2. QED
        BY <1>6, <3>0, <4>1 DEF Gains
    <3>2. SumFunctionOnSet(Gains(b), DOMAIN a \cup {t}) = SumFunctionOnSet(Gains(b), DOMAIN a) + Gains(b)[t]
      BY <1>1, <1>6, <3>1, SumAdds
    <3>3. SumFunctionOnSet(Gains(b), DOMAIN a) = SumFunctionOnSet(Gains(a), DOMAIN a)
      BY <1>1, <1>3, SumLooksAt
    <3>4. SumFunctionOnSet(Gains(b), DOMAIN a) \in Int
      BY <1>1, <3>1, SumType
    <3>5. QED
      BY <1>6, <2>7, <3>2, <3>3, <3>4 DEF AllGains
  <2>9. ASSUME NEW s \in Symbols
        PROVE  AllShares(b, s) = AllShares(a, s)
    <3>1. \A u \in DOMAIN a \cup {t} : Shares(b, s)[u] \in Int
      BY <1>6, <2>1, <1>3 DEF Shares, MoneyOK, PositionOK
    <3>2. SumFunctionOnSet(Shares(b, s), DOMAIN a \cup {t}) = SumFunctionOnSet(Shares(b, s), DOMAIN a) + Shares(b, s)[t]
      BY <1>1, <1>6, <3>1, SumAdds
    <3>3. SumFunctionOnSet(Shares(b, s), DOMAIN a) = SumFunctionOnSet(Shares(a, s), DOMAIN a)
      BY <1>1, <1>3, SumLooksAt
    <3>4. SumFunctionOnSet(Shares(b, s), DOMAIN a) \in Int
      BY <1>1, <3>1, SumType
    <3>5. QED
      BY <1>6, <2>7, <3>2, <3>3, <3>4 DEF AllShares
  <2>10. QED
    BY <2>6, <2>8, <2>9
<1>7. QED
  BY <1>5, <1>6 DEF Widened

\* A fill moves a position by what it says, whether it adds or closes.
LEMMA PositionMoves ==
  ASSUME NEW p, PositionOK(p), NEW q \in Int, NEW price
  PROVE  PositionOK(applyToPosition(p, q, price)) /\ applyToPosition(p, q, price).qty = p.qty + q
<1>1. CASE Adds(p, q)
  <2> DEFINE e == Blended(p, q, price)
             n == [p EXCEPT !.qty = @ + q, !.avgEntry = e]
  <2>1. applyToPosition(p, q, price) = n
    BY <1>1 DEF applyToPosition
  <2>2. n = [qty |-> p.qty + q, avgEntry |-> e, realized |-> p.realized]
    <3> HIDE DEF e
    <3>1. [p EXCEPT !.qty = @ + q] = [qty |-> p.qty + q, avgEntry |-> p.avgEntry, realized |-> p.realized]
      BY DEF PositionOK
    <3>2. [[qty |-> p.qty + q, avgEntry |-> p.avgEntry, realized |-> p.realized] EXCEPT !.avgEntry = e]
            = [qty |-> p.qty + q, avgEntry |-> e, realized |-> p.realized]
      OBVIOUS
    <3>3. QED
      BY <3>1, <3>2
  <2> HIDE DEF n, e
  <2>3. QED
    BY <2>1, <2>2 DEF PositionOK
<1>2. CASE ~ Adds(p, q)
  <2> DEFINE r == Plus(p.realized, Gain(p, q, price))
             e == IF p.qty + q = 0 THEN Whole(0)
                  ELSE IF Abs(q) > Abs(p.qty) THEN Whole(price)
                  ELSE p.avgEntry
             n == [p EXCEPT !.qty = @ + q, !.realized = Plus(@, Gain(p, q, price)),
                            !.avgEntry = IF p.qty + q = 0 THEN Whole(0)
                                         ELSE IF Abs(q) > Abs(p.qty) THEN Whole(price)
                                         ELSE @]
  <2>1. applyToPosition(p, q, price) = n
    BY <1>2 DEF applyToPosition
  <2>2. n = [p EXCEPT !.qty = @ + q, !.realized = r, !.avgEntry = e]
    BY DEF PositionOK
  <2>3. n = [qty |-> p.qty + q, avgEntry |-> e, realized |-> r]
    <3> HIDE DEF e, r, n
    <3>1. [p EXCEPT !.qty = @ + q] = [qty |-> p.qty + q, avgEntry |-> p.avgEntry, realized |-> p.realized]
      BY DEF PositionOK
    <3>2. [[qty |-> p.qty + q, avgEntry |-> p.avgEntry, realized |-> p.realized] EXCEPT !.realized = r]
            = [qty |-> p.qty + q, avgEntry |-> p.avgEntry, realized |-> r]
      OBVIOUS
    <3>3. [[qty |-> p.qty + q, avgEntry |-> p.avgEntry, realized |-> r] EXCEPT !.avgEntry = e]
            = [qty |-> p.qty + q, avgEntry |-> e, realized |-> r]
      OBVIOUS
    <3>4. QED
      BY <2>2, <3>1, <3>2, <3>3
  <2> HIDE DEF n, e, r
  <2>4. QED
    BY <2>1, <2>3 DEF PositionOK
<1>3. QED
  BY <1>1, <1>2

\* What one order more brings to what is booked of its trader in its symbol.
LEMMA BookedMore ==
  ASSUME AccountsAssumption, NEW g \in [Ids -> Int], NEW h \in [Ids -> Int],
         NEW o \in Ids, NEW q \in Int, h[o] = g[o] + q, \A p \in Ids \ {o} : h[p] = g[p]
  PROVE  /\ SumFunctionOnSet(h, OrdersOf(Terms[o].trader, Symbol(o)))
              = SumFunctionOnSet(g, OrdersOf(Terms[o].trader, Symbol(o))) + q
         /\ \A r, u : r # Terms[o].trader \/ u # Symbol(o) =>
              SumFunctionOnSet(h, OrdersOf(r, u)) = SumFunctionOnSet(g, OrdersOf(r, u))
<1>1. ASSUME NEW r, NEW u, r # Terms[o].trader \/ u # Symbol(o)
      PROVE  SumFunctionOnSet(h, OrdersOf(r, u)) = SumFunctionOnSet(g, OrdersOf(r, u))
  <2>1. \A p \in OrdersOf(r, u) : h[p] = g[p]
    BY <1>1 DEF OrdersOf
  <2>2. QED
    BY <2>1, OrdersFinite, SumLooksAt
<1> DEFINE S == OrdersOf(Terms[o].trader, Symbol(o))
<1>2. o \in S
  BY DEF OrdersOf
<1>3. IsFiniteSet(S) /\ S \subseteq Ids
  BY OrdersFinite
<1> HIDE DEF S
<1>4. \A p \in S : g[p] \in Int /\ h[p] \in Int
  BY <1>3
<1>5. \A p \in S \ {o} : g[p] = h[p]
  BY <1>3
<1>6. SumFunctionOnSet(h, S) = SumFunctionOnSet(g, S) + h[o] - g[o]
  BY <1>2, <1>3, <1>4, <1>5, SumChanges
<1>7. SumFunctionOnSet(g, S) \in Int /\ g[o] \in Int
  BY <1>3, <1>4, SumType
<1>8. SumFunctionOnSet(h, S) = SumFunctionOnSet(g, S) + q
  BY <1>6, <1>7
<1>9. QED
  BY <1>1, <1>8 DEF S

\* q more, or less, of o is booked.
Books(g, h, o, q) ==
  /\ g \in [Ids -> Int] /\ h \in [Ids -> Int]
  /\ h[o] = g[o] + q /\ \A p \in Ids \ {o} : h[p] = g[p]

\* The registry pays for q of o, unless it does not track its trader.
Pays(a, b, o, q, price) ==
  LET s == Symbol(o)
  IN  Untracked(b, Terms[o].trader) \/ /\ AllGains(b) = AllGains(a) - price * q
                                       /\ AllShares(b, s) = AllShares(a, s) + q
                                       /\ \A u \in Symbols \ {s} : AllShares(b, u) = AllShares(a, u)

\* Half of a fill: one order's trader pays and receives.
LEMMA HalfFill ==
  ASSUME AccountsAssumption, NEW a, NEW g, NEW h, Ledger(a, g),
         NEW o \in Ids, NEW q \in Int, NEW price \in Int, Books(g, h, o, q)
  PROVE  LET b == applyFill(a, Terms[o].trader, Symbol(o), q, price)
         IN  Ledger(b, h) /\ Grown(a, b) /\ Pays(a, b, o, q, price)
<1> SUFFICES ASSUME NEW t, t = Terms[o].trader, NEW s \in Symbols, s = Symbol(o),
                    NEW b, b = applyFill(a, t, s, q, price)
             PROVE  /\ Ledger(b, h) /\ Grown(a, b)
                    /\ Untracked(b, t) \/ /\ AllGains(b) = AllGains(a) - price * q
                                          /\ AllShares(b, s) = AllShares(a, s) + q
                                          /\ \A u \in Symbols \ {s} : AllShares(b, u) = AllShares(a, u)
  BY TermsOK DEF Pays
<1> DEFINE c == ensure(a, t)
<1>0. t \in Traders \cup {Nobody} /\ RegistryOK(a)
  BY DEF AccountsAssumption, Ledger
<1>1. Widened(a, c) /\ (t \in DOMAIN c \/ Untracked(c, t)) /\ Grown(a, b)
  BY <1>0, EnsureWidens, EnsureGrows, ApplyFillGrows
<1>2. /\ Ledger(c, g)
      /\ AllGains(c) = AllGains(a) /\ \A u \in Symbols : AllShares(c, u) = AllShares(a, u)
  BY <1>1, WidenedKeeps
<1>3. /\ g \in [Ids -> Int] /\ h \in [Ids -> Int]
      /\ h[o] = g[o] + q /\ \A p \in Ids \ {o} : h[p] = g[p]
  BY DEF Books
<1>4. \A r, u : r # t \/ u # s =>
        SumFunctionOnSet(h, OrdersOf(r, u)) = SumFunctionOnSet(g, OrdersOf(r, u))
  BY <1>3, BookedMore
<1>5. SumFunctionOnSet(h, OrdersOf(t, s)) = SumFunctionOnSet(g, OrdersOf(t, s)) + q
  BY <1>3, BookedMore
<1>6. CASE t \notin DOMAIN c
  <2>1. b = c
    BY <1>6 DEF applyFill
  <2> HIDE DEF c
  <2>2. \A r \in DOMAIN c, u \in Symbols : c[r].positions[u].qty = SumFunctionOnSet(h, OrdersOf(r, u))
    BY <1>2, <1>4, <1>6 DEF Ledger
  <2>3. \A p \in Ids : h[p] # 0 => Terms[p].trader \in DOMAIN c \/ Untracked(c, Terms[p].trader)
    BY <1>1, <1>2, <1>3, <1>6 DEF Ledger
  <2>4. Ledger(c, h)
    BY <1>2, <2>2, <2>3 DEF Ledger
  <2>5. QED
    BY <1>1, <1>3, <1>6, <2>1, <2>4
<1>7. CASE t \in DOMAIN c
  <2> DEFINE moved == applyToPosition(c[t].positions[s], q, price)
             held  == [c[t].positions EXCEPT ![s] = moved]
             cash  == c[t].cash - price * q
             acct  == [cash |-> cash, positions |-> held,
                       open |-> c[t].open, history |-> c[t].history]
  <2>1. b = [c EXCEPT ![t].cash = @ - price * q,
                      ![t].positions[s] = applyToPosition(@, q, price)]
    BY <1>7 DEF applyFill
  <2>2. RegistryOK(c) /\ AccountOK(c[t]) /\ MoneyOK(c[t])
    BY <1>2, <1>7 DEF Ledger, RegistryOK
  <2>3. b = [c EXCEPT ![t] = acct]
    <3> HIDE DEF c
    <3> DEFINE x == c[t]
    <3>1. x = [cash |-> x.cash, positions |-> x.positions, open |-> x.open, history |-> x.history]
      BY <2>2 DEF AccountOK
    <3>2. [[x EXCEPT !.cash = cash] EXCEPT !.positions = held] = acct
      <4> HIDE DEF cash, held, x
      <4>1. [x EXCEPT !.cash = cash]
              = [cash |-> cash, positions |-> x.positions, open |-> x.open, history |-> x.history]
        BY <3>1
      <4>2. acct = [cash |-> cash, positions |-> held, open |-> x.open, history |-> x.history]
        BY DEF x
      <4> HIDE DEF acct
      <4>3. [[cash |-> cash, positions |-> x.positions, open |-> x.open, history |-> x.history]
               EXCEPT !.positions = held] = acct
        BY <4>2
      <4>4. QED
        BY <4>1, <4>3
    <3>3. b = [c EXCEPT ![t] = [[x EXCEPT !.cash = cash] EXCEPT !.positions = held]]
      BY <1>7, <2>1, <2>2, <3>1 DEF RegistryOK
    <3> HIDE DEF x, cash, held, acct
    <3>4. QED
      BY <3>2, <3>3
  <2>4. PositionOK(moved) /\ moved.qty = c[t].positions[s].qty + q /\ c[t].positions[s].qty \in Int
    <3>1. PositionOK(c[t].positions[s])
      BY <2>2 DEF MoneyOK
    <3> HIDE DEF c
    <3>2. QED
      BY <3>1, PositionMoves DEF PositionOK
  <2>5. /\ held = [u \in Symbols |-> held[u]] /\ held[s] = moved
        /\ \A u \in Symbols \ {s} : held[u] = c[t].positions[u]
    <3> HIDE DEF c, moved
    <3>1. QED
      BY <2>2 DEF MoneyOK
  <2>6. cash \in Int /\ c[t].cash \in Int /\ price * q \in Int
    <3>1. c[t].cash \in Int
      BY <2>2 DEF MoneyOK
    <3>2. price * q \in Int
      OBVIOUS
    <3> HIDE DEF c
    <3>3. QED
      BY <3>1, <3>2
  <2>7. /\ acct.cash = cash /\ acct.positions = held
        /\ acct.open = c[t].open /\ acct.history = c[t].history
        /\ acct = [cash |-> acct.cash, positions |-> acct.positions,
                   open |-> acct.open, history |-> acct.history]
    OBVIOUS
  <2> HIDE DEF c, moved, held, cash, acct
  <2>8. MoneyOK(acct)
    BY <2>2, <2>4, <2>5, <2>6, <2>7 DEF MoneyOK
  <2>9. AccountOK(acct)
    BY <2>2, <2>7 DEF AccountOK
  <2>10. /\ RegistryOK(b) /\ DOMAIN b = DOMAIN c
         /\ \A r \in DOMAIN c : b[r] = IF r = t THEN acct ELSE c[r]
    <3> DEFINE d == [c EXCEPT ![t] = acct]
    <3>1. /\ RegistryOK(d) /\ DOMAIN d = DOMAIN c
          /\ \A r \in DOMAIN c : d[r] = IF r = t THEN acct ELSE c[r]
      BY <1>7, <2>2, <2>9, Rewritten
    <3> HIDE DEF d
    <3>2. b = d
      BY <2>3 DEF d
    <3>3. QED
      BY <3>1, <3>2
  <2>11. Ledger(b, h)
    <3>1. \A r \in DOMAIN b : MoneyOK(b[r])
      BY <1>2, <2>8, <2>10 DEF Ledger
    <3>2. ASSUME NEW r \in DOMAIN b, NEW u \in Symbols
          PROVE  b[r].positions[u].qty = SumFunctionOnSet(h, OrdersOf(r, u))
      <4>1. CASE r = t /\ u = s
        BY <1>2, <1>5, <1>7, <2>4, <2>5, <2>7, <2>10, <4>1 DEF Ledger
      <4>2. CASE r # t \/ u # s
        <5>1. b[r].positions[u].qty = c[r].positions[u].qty
          BY <2>5, <2>7, <2>10, <4>2
        <5>2. c[r].positions[u].qty = SumFunctionOnSet(g, OrdersOf(r, u))
          BY <1>2, <2>10 DEF Ledger
        <5>3. SumFunctionOnSet(h, OrdersOf(r, u)) = SumFunctionOnSet(g, OrdersOf(r, u))
          BY <1>4, <4>2
        <5>4. QED
          BY <5>1, <5>2, <5>3
      <4>3. QED
        BY <4>1, <4>2
    <3>3. \A p \in Ids : h[p] # 0 => Terms[p].trader \in DOMAIN b \/ Untracked(b, Terms[p].trader)
      BY <1>2, <1>3, <1>7, <2>10 DEF Ledger, Untracked, Full
    <3>4. QED
      BY <1>2, <2>10, <3>1, <3>2, <3>3 DEF Ledger
  <2>12. AllGains(b) = AllGains(c) - price * q
    <3>1. \A r \in DOMAIN c : Gains(c)[r] \in Int /\ Gains(b)[r] \in Int
      BY <1>2, <2>10, <2>11, SumsAreInts
    <3>2. Gains(b)[t] = Gains(c)[t] - price * q
      <4>1. Gains(b)[t] = cash - StartingCash /\ Gains(c)[t] = c[t].cash - StartingCash
        BY <1>7, <2>7, <2>10 DEF Gains
      <4>2. StartingCash \in Int
        BY DEF AccountsAssumption
      <4>3. QED
        BY <2>6, <4>1, <4>2 DEF cash
    <3>3. \A r \in DOMAIN c \ {t} : Gains(c)[r] = Gains(b)[r]
      BY <2>10 DEF Gains
    <3>4. IsFiniteSet(DOMAIN c)
      BY <1>2 DEF Ledger
    <3>5. SumFunctionOnSet(Gains(b), DOMAIN c)
            = SumFunctionOnSet(Gains(c), DOMAIN c) + Gains(b)[t] - Gains(c)[t]
      BY <1>7, <3>1, <3>3, <3>4, SumChanges
    <3>6. AllGains(c) \in Int
      BY <1>2, SumsAreInts
    <3>7. QED
      BY <1>7, <2>6, <2>10, <3>1, <3>2, <3>5, <3>6 DEF AllGains
  <2>13. AllShares(b, s) = AllShares(c, s) + q
    <3>1. \A r \in DOMAIN c : Shares(c, s)[r] \in Int /\ Shares(b, s)[r] \in Int
      BY <1>2, <2>10, <2>11, SumsAreInts
    <3>2. Shares(b, s)[t] = Shares(c, s)[t] + q
      BY <1>7, <2>4, <2>5, <2>7, <2>10 DEF Shares
    <3>3. \A r \in DOMAIN c \ {t} : Shares(c, s)[r] = Shares(b, s)[r]
      BY <2>10 DEF Shares
    <3>4. IsFiniteSet(DOMAIN c)
      BY <1>2 DEF Ledger
    <3>5. SumFunctionOnSet(Shares(b, s), DOMAIN c)
            = SumFunctionOnSet(Shares(c, s), DOMAIN c) + Shares(b, s)[t] - Shares(c, s)[t]
      BY <1>7, <3>1, <3>3, <3>4, SumChanges
    <3>6. AllShares(c, s) \in Int
      BY <1>2, SumsAreInts
    <3>7. QED
      BY <1>7, <2>10, <3>1, <3>2, <3>5, <3>6 DEF AllShares
  <2>14. ASSUME NEW u \in Symbols \ {s}
         PROVE  AllShares(b, u) = AllShares(c, u)
    <3>1. \A r \in DOMAIN c : Shares(b, u)[r] = Shares(c, u)[r]
      BY <2>5, <2>7, <2>10 DEF Shares
    <3>2. QED
      BY <1>2, <2>10, <3>1, SumLooksAt DEF AllShares, Ledger
  <2>15. QED
    BY <1>1, <1>2, <1>3, <2>11, <2>12, <2>13, <2>14
<1>8. QED
  BY <1>6, <1>7

\* The call of a fill: a buy and a sell of its symbol, and both have traded.
FillCall(s, c) ==
  /\ {c.buy, c.sell} \subseteq Traded /\ c.qty > 0
  /\ Symbol(c.buy) = s /\ Symbol(c.sell) = s
  /\ Terms[c.buy].side = "BUY" /\ Terms[c.sell].side = "SELL"

\* It is the last of what its engine has yet to report.
Fills ==
  \A s \in Symbols : \A i \in DOMAIN calls[s] :
    calls[s][i].kind = "fill" => i = Len(calls[s]) /\ FillCall(s, calls[s][i])

\* No one who traded is out of the registry for good.
NoneLost == \A o \in Traded : ~ Untracked(accounts, Terms[o].trader)

\* No order has more left than it was placed for.
Within == \A o \in Ids : rem[o] <= Terms[o].qty

LedgerInv ==
  /\ Inv /\ Fills /\ Within
  /\ Ledger(accounts, Booked)
  /\ NoneLost => Balanced(accounts)

\* Both halves: what one pays the other receives, be they one trader or two.
LEMMA WholeFill ==
  ASSUME AccountsAssumption, NEW a, NEW g \in [Ids -> Int], Ledger(a, g),
         NEW s \in Symbols, NEW c, FillCall(s, c), c.qty \in Int, c.price \in Int,
         NEW h \in [Ids -> Int], h[c.buy] = g[c.buy] + c.qty, h[c.sell] = g[c.sell] - c.qty,
         \A p \in Ids \ {c.buy, c.sell} : h[p] = g[p]
  PROVE  LET b == OnFill(a, c)
         IN  /\ Ledger(b, h) /\ Grown(a, b)
             /\ \/ Untracked(b, Terms[c.buy].trader) \/ Untracked(b, Terms[c.sell].trader)
                \/ AllGains(b) = AllGains(a) /\ \A u \in Symbols : AllShares(b, u) = AllShares(a, u)
<1> DEFINE x == Terms[c.buy].trader
           y == Terms[c.sell].trader
           k == [g EXCEPT ![c.buy] = @ + c.qty]
           b == applyFill(a, x, s, c.qty, c.price)
           d == applyFill(b, y, s, - c.qty, c.price)
<1>0. PICK m \in Ids, n \in Ids, q \in Int, price \in Int :
        m = c.buy /\ n = c.sell /\ q = c.qty /\ price = c.price
  BY DEF FillCall, Traded
<1>1. m # n /\ OnFill(a, c) = d
  BY <1>0 DEF FillCall, OnFill, Symbol
<1>2. Books(g, k, m, q) /\ Books(k, h, n, - q)
  <2>1. /\ k \in [Ids -> Int] /\ k[m] = g[m] + q /\ \A p \in Ids \ {m} : k[p] = g[p]
    BY <1>0
  <2> HIDE DEF k
  <2>2. /\ h[n] = k[n] - q /\ \A p \in Ids \ {n} : h[p] = k[p]
    BY <1>0, <1>1, <2>1
  <2>3. - q \in Int /\ h[n] = k[n] + (- q)
    BY <2>1, <2>2
  <2>4. QED
    BY <2>1, <2>2, <2>3 DEF Books
<1>3. /\ x = Terms[m].trader /\ s = Symbol(m) /\ y = Terms[n].trader /\ s = Symbol(n)
      /\ b = applyFill(a, x, s, q, price) /\ d = applyFill(b, y, s, - q, price)
  BY <1>0 DEF FillCall
<1> HIDE DEF x, y, k, b, d
<1>4. Ledger(b, k) /\ Grown(a, b) /\ Pays(a, b, m, q, price)
  BY <1>2, <1>3, HalfFill
<1>5. - q \in Int
  OBVIOUS
<1>6. Ledger(d, h) /\ Grown(b, d) /\ Pays(b, d, n, - q, price)
  BY <1>2, <1>3, <1>4, <1>5, HalfFill
<1>7. Grown(a, d)
  BY <1>4, <1>6 DEF Grown, Full
<1>8. Untracked(b, x) => Untracked(d, x)
  BY <1>6, UntrackedStays
<1>9. ASSUME ~ Untracked(d, x), ~ Untracked(d, y)
      PROVE  AllGains(d) = AllGains(a) /\ \A u \in Symbols : AllShares(d, u) = AllShares(a, u)
  <2>1. AllGains(a) \in Int /\ AllShares(a, s) \in Int
    BY SumsAreInts
  <2>2. AllGains(b) = AllGains(a) - price * q /\ AllGains(d) = AllGains(b) - price * (- q)
    BY <1>3, <1>4, <1>6, <1>8, <1>9 DEF Pays
  <2>3. price * q \in Int /\ price * (- q) = - (price * q)
    OBVIOUS
  <2>4. AllGains(d) = AllGains(a)
    BY <2>1, <2>2, <2>3
  <2>5. AllShares(d, s) = AllShares(a, s)
    <3>1. AllShares(b, s) = AllShares(a, s) + q /\ AllShares(d, s) = AllShares(b, s) + (- q)
      BY <1>3, <1>4, <1>6, <1>8, <1>9 DEF Pays
    <3>2. QED
      BY <2>1, <3>1
  <2>6. \A u \in Symbols \ {s} : AllShares(d, u) = AllShares(a, u)
    BY <1>3, <1>4, <1>6, <1>8, <1>9 DEF Pays
  <2>7. QED
    BY <2>4, <2>5, <2>6
<1>10. QED
  BY <1>1, <1>6, <1>7, <1>9 DEF x, y

-----------------------------------------------------------------------------
(* The queues of calls *)

\* Without a fill in it, a queue books nothing ...
LEMMA NothingToBook ==
  ASSUME NEW k, NEW o, \A i \in DOMAIN k : k[i].kind # "fill"
  PROVE  Unbooked(k, o) = 0
<1>1. Booking(k, o) = {}
  BY DEF Booking
<1>2. IsFiniteSet({})
  BY FS_EmptySet
<1>3. QED
  BY <1>1, <1>2, SumOfZeros DEF Unbooked

\* ... and with one, what that says, of the two orders it names.
LEMMA OneToBook ==
  ASSUME NEW k, NEW n \in DOMAIN k, k[n].kind = "fill", k[n].qty \in Int, NEW o,
         \A i \in DOMAIN k : k[i].kind = "fill" => i = n
  PROVE  Unbooked(k, o) = IF o \in {k[n].buy, k[n].sell} THEN k[n].qty ELSE 0
<1> DEFINE f == [i \in Booking(k, o) |-> k[i].qty]
<1>1. CASE o \in {k[n].buy, k[n].sell}
  <2>1. Booking(k, o) = {n}
    BY <1>1 DEF Booking
  <2>2. f[n] = k[n].qty
    BY <2>1
  <2> HIDE DEF f
  <2>3. IsFiniteSet({}) /\ n \notin {} /\ {} \cup {n} = {n}
    BY FS_EmptySet
  <2>4. SumFunctionOnSet(f, {}) = 0
    BY <2>3, SumOfZeros
  <2>5. SumFunctionOnSet(f, {} \cup {n}) = SumFunctionOnSet(f, {}) + f[n]
    BY <2>2, <2>3, SumAdds
  <2>6. SumFunctionOnSet(f, {n}) = k[n].qty
    BY <2>2, <2>3, <2>4, <2>5
  <2>7. QED
    BY <1>1, <2>1, <2>6 DEF Unbooked, f
<1>2. CASE o \notin {k[n].buy, k[n].sell}
  <2>1. Booking(k, o) = {}
    BY <1>2 DEF Booking
  <2>2. IsFiniteSet({})
    BY FS_EmptySet
  <2>3. Unbooked(k, o) = 0
    BY <2>1, <2>2, SumOfZeros DEF Unbooked
  <2>4. QED
    BY <1>2, <2>3
<1>3. QED
  BY <1>1, <1>2

\* What is booked of an order is an integer.
LEMMA BookedType ==
  ASSUME AccountsAssumption, VenueOK
  PROVE  /\ Booked \in [Ids -> Int]
         /\ \A o \in Ids : Unbooked(calls[Symbol(o)], o) \in Int
<1>1. ASSUME NEW o \in Ids
      PROVE  Unbooked(calls[Symbol(o)], o) \in Int
  <2> DEFINE k == calls[Symbol(o)]
             f == [i \in Booking(k, o) |-> k[i].qty]
  <2>1. k \in Seq(Call)
    BY TermsOK DEF VenueOK
  <2> HIDE DEF k
  <2>2. Booking(k, o) \subseteq 1..Len(k) /\ Len(k) \in Nat
    BY <2>1 DEF Booking
  <2>3. IsFiniteSet(Booking(k, o))
    <3>1. IsFiniteSet(1..Len(k))
      BY <2>2, FS_Interval
    <3>2. QED
      BY <2>2, <3>1, FS_Subset
  <2>4. \A i \in Booking(k, o) : f[i] \in Int
    BY <2>1 DEF Booking, Call
  <2> HIDE DEF f
  <2>5. SumFunctionOnSet(f, Booking(k, o)) \in Int
    BY <2>3, <2>4, SumType
  <2>6. QED
    BY <2>5 DEF Unbooked, k, f
<1>2. ASSUME NEW o \in Ids
      PROVE  Signed(o, Terms[o].qty - rem[o] - Unbooked(calls[Symbol(o)], o)) \in Int
  <2>1. Terms[o].qty \in Int /\ rem[o] \in Int
    BY TermsOK DEF VenueOK
  <2>2. QED
    BY <1>1, <2>1 DEF Signed
<1>3. QED
  BY <1>1, <1>2 DEF Booked

\* When nothing is booked and no money moves, the ledger stays.
LEMMA LedgerStays ==
  ASSUME AccountsAssumption, LedgerInv, Inv', Fills', Within', Booked' = Booked,
         Traded \subseteq Traded',
         Widened(accounts, accounts')
  PROVE  LedgerInv'
<1>1. /\ Ledger(accounts', Booked)
      /\ AllGains(accounts') = AllGains(accounts)
      /\ \A s \in Symbols : AllShares(accounts', s) = AllShares(accounts, s)
  BY WidenedKeeps DEF LedgerInv
<1>2. \A t : Untracked(accounts, t) => Untracked(accounts', t)
  BY UntrackedStays DEF Widened
<1>3. NoneLost' => NoneLost
  BY <1>2 DEF NoneLost
<1>4. NoneLost' => Balanced(accounts')
  BY <1>1, <1>3 DEF LedgerInv, Balanced
<1>5. QED
  BY <1>1, <1>4 DEF LedgerInv

\* A step that leaves the registry alone moves no money.
LEMMA SameRegistry == ASSUME Inv PROVE Widened(accounts, accounts)
  BY DEF Inv, Widened, Grown

-----------------------------------------------------------------------------
(* The steps of the ledger *)

\* An empty registry holds what is booked of orders that have not filled.
LEMMA InitLedger == AccountsAssumption /\ Init => LedgerInv
<1> SUFFICES ASSUME AccountsAssumption, Init
             PROVE  LedgerInv
  OBVIOUS
<1>1. Inv
  BY InitInv
<1>2. Fills
  BY DEF Init, Fills
<1>3. DOMAIN accounts = {}
  BY DEF Init
<1>4. ASSUME NEW o \in Ids
      PROVE  Booked[o] = 0
  <2>1. calls[Symbol(o)] = <<>> /\ rem[o] = Terms[o].qty /\ Terms[o].qty \in Nat
    BY TermsOK DEF Init
  <2>2. Unbooked(calls[Symbol(o)], o) = 0
    BY <2>1, NothingToBook
  <2>3. QED
    BY <2>1, <2>2 DEF Booked, Signed
<1>5. Ledger(accounts, Booked)
  BY <1>1, <1>3, <1>4, FS_EmptySet DEF Ledger, Inv
<1>6. Within
  BY TermsOK DEF Init, Within
<1>7. Balanced(accounts)
  <2>1. IsFiniteSet({})
    BY FS_EmptySet
  <2>2. QED
    BY <1>3, <2>1, SumOfZeros DEF Balanced, AllGains, AllShares
<1>8. QED
  BY <1>1, <1>2, <1>5, <1>6, <1>7 DEF LedgerInv

\* A step that neither reports nor trades.
LEMMA QuietLedger ==
  ASSUME AccountsAssumption, LedgerInv, Inv', UNCHANGED <<rem, calls>>,
         Widened(accounts, accounts')
  PROVE  LedgerInv'
<1>1. Booked' = Booked /\ Traded' = Traded /\ Within'
  BY DEF Booked, Traded, Within, LedgerInv
<1>2. Fills'
  BY <1>1 DEF LedgerInv, Fills, FillCall
<1>3. QED
  BY <1>1, <1>2, LedgerStays

\* A step of an idle engine that reports one order: nothing to book before or after.
LEMMA ReportLedger ==
  ASSUME AccountsAssumption, LedgerInv, Inv', NEW o \in Ids, NEW st \in Statuses,
         Idle(Symbol(o)), UNCHANGED <<accounts, rem>>,
         calls' = [calls EXCEPT ![Symbol(o)] = <<State(o, st)>>]
  PROVE  LedgerInv'
<1>0. Inv /\ VenueOK
  BY DEF LedgerInv, Inv
<1>1. /\ DOMAIN calls'[Symbol(o)] = {1} /\ calls'[Symbol(o)][1].kind = "state"
      /\ \A s \in Symbols \ {Symbol(o)} : calls'[s] = calls[s]
  <2>1. /\ DOMAIN calls'[Symbol(o)] = {1} /\ calls'[Symbol(o)][1] = State(o, st)
        /\ \A s \in Symbols \ {Symbol(o)} : calls'[s] = calls[s]
    BY <1>0, OneReport
  <2>2. QED
    BY <2>1 DEF State
<1>2. ASSUME NEW p \in Ids
      PROVE  Unbooked(calls'[Symbol(p)], p) = Unbooked(calls[Symbol(p)], p)
  <2>1. CASE Symbol(p) = Symbol(o)
    <3>1. \A i \in DOMAIN calls'[Symbol(p)] : calls'[Symbol(p)][i].kind # "fill"
      BY <1>1, <2>1
    <3>2. \A i \in DOMAIN calls[Symbol(p)] : calls[Symbol(p)][i].kind # "fill"
      BY <2>1 DEF Idle
    <3>3. QED
      BY <3>1, <3>2, NothingToBook
  <2>2. CASE Symbol(p) # Symbol(o)
    BY <1>1, <2>2, TermsOK
  <2>3. QED
    BY <2>1, <2>2
<1>3. Booked' = Booked /\ Traded' = Traded /\ Within'
  BY <1>2 DEF Booked, Traded, Within, LedgerInv
<1>4. Fills'
  <2>1. ASSUME NEW s \in Symbols, NEW i \in DOMAIN calls'[s], calls'[s][i].kind = "fill"
        PROVE  i = Len(calls'[s]) /\ FillCall(s, calls[s][i])'
    <3>1. s # Symbol(o)
      BY <1>1, <2>1
    <3>2. calls'[s] = calls[s]
      BY <1>1, <3>1
    <3>3. i = Len(calls[s]) /\ FillCall(s, calls[s][i])
      BY <2>1, <3>2 DEF LedgerInv, Fills
    <3>4. QED
      BY <1>3, <3>2, <3>3 DEF FillCall
  <2>2. QED
    BY <2>1 DEF Fills
<1>5. QED
  BY <1>0, <1>3, <1>4, LedgerStays, SameRegistry

\* A print: what is filled is on its way to be booked.
LEMMA TradeLedger ==
  ASSUME AccountsAssumption, LedgerInv, Inv', NEW maker \in Ids, NEW taker \in Ids,
         Trade(maker, taker)
  PROVE  LedgerInv'
<1> DEFINE s    == Symbol(taker)
           q    == Least(rem[maker], rem[taker])
           left == [rem EXCEPT ![maker] = @ - q, ![taker] = @ - q]
           x    == IF left[maker] = 0 THEN "FILLED" ELSE "PARTIALLY_FILLED"
           y    == IF left[taker] = 0 THEN "FILLED" ELSE "PARTIALLY_FILLED"
           buy  == IF Terms[taker].side = "BUY" THEN taker ELSE maker
           sell == IF Terms[taker].side = "BUY" THEN maker ELSE taker
<1>0. Inv /\ VenueOK
  BY DEF LedgerInv, Inv
<1>1. /\ maker # taker /\ Symbol(maker) = s /\ Terms[maker].side # Terms[taker].side
      /\ Idle(s) /\ rem[maker] > 0 /\ rem[taker] > 0 /\ UNCHANGED accounts
  BY <1>0, OrderFacts DEF Trade
<1>2. rem' = left
  BY DEF Trade
<1>3. PICK price \in Prices :
        calls' = [calls EXCEPT ![s] = <<State(maker, x), State(taker, y), Fill(buy, sell, q, price)>>]
  BY DEF Trade
<1>4. q \in Nat /\ q > 0 /\ q <= rem[maker] /\ q <= rem[taker]
  BY <1>0, <1>1, OrderFacts DEF Least
<1>5. /\ left[maker] = rem[maker] - q /\ left[taker] = rem[taker] - q
      /\ \A p \in Ids \ {maker, taker} : left[p] = rem[p]
  <2> HIDE DEF q
  <2>1. QED
    BY <1>0, <1>1, <1>4, OrderFacts
<1>6. /\ buy \in Ids /\ sell \in Ids /\ {buy, sell} = {maker, taker}
      /\ Terms[buy].side = "BUY" /\ Terms[sell].side = "SELL"
  BY <1>1 DEF AccountsAssumption
<1> HIDE DEF left, q, x, y, buy, sell
<1>7. s \in Symbols /\ s = Symbol(taker)
  BY TermsOK
<1> HIDE DEF s
<1>8. calls'[s] = <<State(maker, x), State(taker, y), Fill(buy, sell, q, price)>>
  BY <1>0, <1>3, <1>7 DEF VenueOK
<1>9. \A u \in Symbols \ {s} : calls'[u] = calls[u]
  BY <1>0, <1>3 DEF VenueOK
<1> DEFINE k == calls'[s]
<1>10. /\ DOMAIN k = {1, 2, 3} /\ Len(k) = 3
       /\ k[1].kind = "state" /\ k[2].kind = "state"
       /\ k[3].kind = "fill" /\ k[3].buy = buy /\ k[3].sell = sell /\ k[3].qty = q
  BY <1>8 DEF State, Fill
<1>11. ASSUME NEW o \in Ids
       PROVE  Terms[o].qty - rem'[o] - Unbooked(calls'[Symbol(o)], o)
                = Terms[o].qty - rem[o] - Unbooked(calls[Symbol(o)], o)
  <2>0. Terms[o].qty \in Nat /\ rem[o] \in Nat
    BY <1>0, TermsOK, OrderFacts
  <2>1. CASE Symbol(o) # s
    <3>1. o \notin {maker, taker}
      BY <1>1, <1>7, <2>1
    <3>2. QED
      BY <1>2, <1>5, <1>9, <2>1, <3>1, TermsOK
  <2>2. CASE Symbol(o) = s
    <3>1. Unbooked(calls[s], o) = 0
      BY <1>1, NothingToBook DEF Idle
    <3>2. Unbooked(k, o) = IF o \in {buy, sell} THEN q ELSE 0
      <4> HIDE DEF k
      <4>1. 3 \in DOMAIN k /\ k[3].qty \in Int
        BY <1>4, <1>10
      <4>2. \A i \in DOMAIN k : k[i].kind = "fill" => i = 3
        BY <1>10
      <4>3. Unbooked(k, o) = IF o \in {k[3].buy, k[3].sell} THEN k[3].qty ELSE 0
        BY <1>10, <4>1, <4>2, OneToBook
      <4>4. QED
        BY <1>10, <4>3
    <3>3. rem'[o] = IF o \in {maker, taker} THEN rem[o] - q ELSE rem[o]
      BY <1>2, <1>5
    <3>4. Unbooked(k, o) = IF o \in {maker, taker} THEN q ELSE 0
      BY <1>6, <3>2
    <3> HIDE DEF k
    <3>5. Terms[o].qty - rem'[o] - Unbooked(k, o) = Terms[o].qty - rem[o] - 0
      BY <1>4, <2>0, <3>3, <3>4
    <3>6. QED
      BY <2>2, <3>1, <3>5 DEF k
  <2>3. QED
    BY <2>1, <2>2
<1>12. Booked' = Booked
  BY <1>11 DEF Booked
<1>13. Traded \subseteq Traded' /\ {buy, sell} \subseteq Traded'
  <2>1. ASSUME NEW o \in Traded
        PROVE  o \in Traded'
    <3>1. o \in Ids /\ rem[o] < Terms[o].qty /\ rem[o] \in Nat /\ Terms[o].qty \in Nat
      BY <1>0, OrderFacts, TermsOK DEF Traded
    <3>2. rem'[o] \in {rem[o], rem[o] - q}
      BY <1>2, <1>5, <3>1
    <3>3. rem'[o] < Terms[o].qty
      BY <1>4, <3>1, <3>2
    <3>4. QED
      BY <3>1, <3>3 DEF Traded
  <2>2. ASSUME NEW o \in {maker, taker}
        PROVE  o \in Traded'
    <3>1. rem[o] <= Terms[o].qty /\ rem[o] \in Nat /\ Terms[o].qty \in Nat
      BY <1>0, OrderFacts, TermsOK DEF LedgerInv, Within
    <3>2. rem'[o] = rem[o] - q
      BY <1>2, <1>5
    <3>3. rem'[o] < Terms[o].qty
      BY <1>4, <3>1, <3>2
    <3>4. QED
      BY <3>3 DEF Traded
  <2>3. QED
    BY <1>6, <2>1, <2>2
<1>14. Fills'
  <2>1. ASSUME NEW u \in Symbols, NEW i \in DOMAIN calls'[u], calls'[u][i].kind = "fill"
        PROVE  i = Len(calls'[u]) /\ FillCall(u, calls[u][i])'
    <3>1. CASE u = s
      <4>1. i = 3 /\ i = Len(calls'[u])
        BY <1>10, <2>1, <3>1
      <4>2. Symbol(buy) = s /\ Symbol(sell) = s
        BY <1>1, <1>6, <1>7
      <4>3. QED
        BY <1>4, <1>6, <1>10, <1>13, <3>1, <4>1, <4>2 DEF FillCall
    <3>2. CASE u # s
      <4>1. calls'[u] = calls[u]
        BY <1>9, <3>2
      <4>2. i = Len(calls[u]) /\ FillCall(u, calls[u][i])
        BY <2>1, <4>1 DEF LedgerInv, Fills
      <4>3. QED
        BY <1>13, <4>1, <4>2 DEF FillCall
    <3>3. QED
      BY <3>1, <3>2
  <2>2. QED
    BY <2>1 DEF Fills
<1>15. Within'
  <2>1. ASSUME NEW o \in Ids
        PROVE  rem'[o] <= Terms[o].qty
    <3>1. rem[o] <= Terms[o].qty /\ rem[o] \in Nat /\ Terms[o].qty \in Nat
      BY <1>0, OrderFacts, TermsOK DEF LedgerInv, Within
    <3>2. rem'[o] \in {rem[o], rem[o] - q}
      BY <1>2, <1>5
    <3>3. QED
      BY <1>4, <3>1, <3>2
  <2>2. QED
    BY <2>1 DEF Within
<1>16. QED
  BY <1>0, <1>1, <1>12, <1>13, <1>14, <1>15, LedgerStays, SameRegistry

\* The next call: a state report books nothing, and a fill is booked in full.
LEMMA ObserveLedger ==
  ASSUME AccountsAssumption, LedgerInv, Inv', NEW s \in Symbols, Observe(s)
  PROVE  LedgerInv'
<1>0. Inv /\ VenueOK /\ RegistryOK(accounts)
  BY DEF LedgerInv, Inv
<1>1. /\ ~ Idle(s) /\ calls' = [calls EXCEPT ![s] = Tail(@)]
      /\ UNCHANGED <<at, rem, status, telling>>
  BY DEF Observe
<1>2. /\ calls' \in [Symbols -> Seq(Call)]
      /\ 1 \in DOMAIN calls[s] /\ Head(calls[s]) = calls[s][1] /\ calls[s][1] \in Call
      /\ \A u \in Symbols \ {s} : calls'[u] = calls[u]
      /\ \A i \in DOMAIN calls'[s] : i + 1 \in DOMAIN calls[s] /\ calls'[s][i] = calls[s][i + 1]
      /\ \A i \in DOMAIN calls[s] : i # 1 => i - 1 \in DOMAIN calls'[s] /\ calls'[s][i - 1] = calls[s][i]
  BY <1>0, <1>1, NextCall
<1>3. /\ calls[s] \in Seq(Call) /\ calls'[s] \in Seq(Call)
      /\ Len(calls[s]) \in Nat /\ Len(calls'[s]) = Len(calls[s]) - 1
      /\ DOMAIN calls[s] = 1..Len(calls[s]) /\ DOMAIN calls'[s] = 1..Len(calls'[s])
  <2>1. calls[s] \in Seq(Call) /\ calls'[s] = Tail(calls[s]) /\ calls[s] # <<>>
    BY <1>0, <1>1 DEF VenueOK, Idle
  <2>2. QED
    BY <2>1
<1>4. Traded' = Traded /\ Within'
  BY <1>1 DEF Traded, Within, LedgerInv
<1>5. Fills'
  <2>1. ASSUME NEW u \in Symbols, NEW i \in DOMAIN calls'[u], calls'[u][i].kind = "fill"
        PROVE  i = Len(calls'[u]) /\ FillCall(u, calls[u][i])'
    <3>1. CASE u = s
      <4>1. i + 1 \in DOMAIN calls[s] /\ calls'[s][i] = calls[s][i + 1] /\ i \in Int
        BY <1>2, <1>3, <3>1
      <4>2. i + 1 = Len(calls[s]) /\ FillCall(s, calls[s][i + 1])
        BY <2>1, <3>1, <4>1 DEF LedgerInv, Fills
      <4>3. i = Len(calls'[s])
        BY <1>3, <4>1, <4>2
      <4>4. QED
        BY <1>4, <3>1, <4>1, <4>2, <4>3 DEF FillCall
    <3>2. CASE u # s
      <4>1. calls'[u] = calls[u]
        BY <1>2, <3>2
      <4>2. i = Len(calls[u]) /\ FillCall(u, calls[u][i])
        BY <2>1, <4>1 DEF LedgerInv, Fills
      <4>3. QED
        BY <1>4, <4>1, <4>2 DEF FillCall
    <3>3. QED
      BY <3>1, <3>2
  <2>2. QED
    BY <2>1 DEF Fills
<1>c. PICK c \in Call : c = calls[s][1] /\ c = Head(calls[s])
  BY <1>2
<1>6. CASE c.kind = "state"
  <2>1. Widened(accounts, accounts')
    <3>1. c.id \in Ids /\ c.status \in Statuses
      BY <1>6 DEF Call
    <3>2. PICK st \in {c.status, status[c.id]} : accounts' = OnOrderState(accounts, c.id, st)
      BY <1>6, <1>c DEF Observe
    <3>3. st \in Statuses
      BY <1>0, <3>1, <3>2, OrderFacts
    <3>4. QED
      BY <1>0, <3>1, <3>2, <3>3, ReportWidens
  <2>2. ASSUME NEW o \in Ids
        PROVE  Unbooked(calls'[Symbol(o)], o) = Unbooked(calls[Symbol(o)], o)
    <3>1. CASE Symbol(o) # s
      BY <1>2, <3>1, TermsOK
    <3>2. CASE Symbol(o) = s /\ \A i \in DOMAIN calls[s] : calls[s][i].kind # "fill"
      <4>1. \A i \in DOMAIN calls'[s] : calls'[s][i].kind # "fill"
        BY <1>2, <3>2
      <4>2. QED
        BY <3>2, <4>1, NothingToBook
    <3>3. CASE Symbol(o) = s /\ \E i \in DOMAIN calls[s] : calls[s][i].kind = "fill"
      <4>1. PICK n \in DOMAIN calls[s] : calls[s][n].kind = "fill"
        BY <3>3
      <4>2. n = Len(calls[s]) /\ \A i \in DOMAIN calls[s] : calls[s][i].kind = "fill" => i = n
        BY <4>1 DEF LedgerInv, Fills
      <4>3. n # 1
        BY <1>6, <1>c, <4>1
      <4>4. PICK m \in DOMAIN calls'[s] : m = n - 1 /\ calls'[s][m] = calls[s][n]
        BY <1>2, <4>3
      <4>5. \A i \in DOMAIN calls'[s] : calls'[s][i].kind = "fill" => i = m
        BY <1>3, <1>5, <4>1, <4>4 DEF Fills
      <4>6. calls[s][n].qty \in Int
        BY <1>3, <4>1 DEF Call
      <4>7. Unbooked(calls[s], o) = IF o \in {calls[s][n].buy, calls[s][n].sell} THEN calls[s][n].qty ELSE 0
        BY <4>1, <4>2, <4>6, OneToBook
      <4>8. Unbooked(calls'[s], o) = IF o \in {calls'[s][m].buy, calls'[s][m].sell} THEN calls'[s][m].qty ELSE 0
        BY <4>1, <4>4, <4>5, <4>6, OneToBook
      <4>9. QED
        BY <3>3, <4>4, <4>7, <4>8
    <3>4. QED
      BY <3>1, <3>2, <3>3
  <2>3. Booked' = Booked
    BY <1>1, <2>2 DEF Booked
  <2>4. QED
    BY <1>4, <1>5, <2>1, <2>3, LedgerStays
<1>7. CASE c.kind = "fill"
  <2>1. accounts' = OnFill(accounts, c)
    BY <1>7, <1>c DEF Observe
  <2>2. c.qty \in Int /\ c.price \in Int
    <3>1. c.qty \in Int /\ c.price \in Prices
      BY <1>7 DEF Call
    <3>2. \A p \in Prices : p \in Int
      BY DEF AccountsAssumption
    <3>3. QED
      BY <3>1, <3>2, Zenon
  <2>3. Len(calls[s]) = 1 /\ FillCall(s, c)
    <3>1. 1 \in DOMAIN calls[s] /\ calls[s][1].kind = "fill"
      BY <1>2, <1>7, <1>c
    <3>2. 1 = Len(calls[s]) /\ FillCall(s, calls[s][1])
      BY <3>1 DEF LedgerInv, Fills
    <3>3. QED
      BY <1>c, <3>2
  <2>4. DOMAIN calls'[s] = {}
    BY <1>3, <2>3
  <2>5. /\ c.buy \in Ids /\ c.sell \in Ids /\ c.buy # c.sell
        /\ Symbol(c.buy) = s /\ Symbol(c.sell) = s
    BY <2>3 DEF FillCall, Traded
  <2>6. ASSUME NEW o
        PROVE  Unbooked(calls[s], o) = IF o \in {c.buy, c.sell} THEN c.qty ELSE 0
    <3>1. \A i \in DOMAIN calls[s] : calls[s][i].kind = "fill" => i = 1
      BY <1>3, <2>3
    <3>2. 1 \in DOMAIN calls[s] /\ calls[s][1].kind = "fill" /\ calls[s][1].qty \in Int
      BY <1>2, <1>7, <1>c, <2>2
    <3>3. Unbooked(calls[s], o)
            = IF o \in {calls[s][1].buy, calls[s][1].sell} THEN calls[s][1].qty ELSE 0
      BY <3>1, <3>2, OneToBook
    <3>4. QED
      BY <1>c, <3>3
  <2>7. ASSUME NEW o \in Ids
        PROVE  Unbooked(calls'[Symbol(o)], o)
                 = IF o \in {c.buy, c.sell} THEN 0 ELSE Unbooked(calls[Symbol(o)], o)
    <3>1. CASE Symbol(o) # s
      BY <1>2, <2>5, <3>1, TermsOK
    <3>2. CASE Symbol(o) = s
      <4>1. Unbooked(calls'[s], o) = 0
        BY <2>4, NothingToBook
      <4>2. QED
        BY <2>6, <3>2, <4>1
    <3>3. QED
      BY <3>1, <3>2
  <2>8. ASSUME NEW o \in {c.buy, c.sell}
        PROVE  Unbooked(calls[Symbol(o)], o) = c.qty
    BY <2>5, <2>6
  <2>9. /\ Booked'[c.buy] = Booked[c.buy] + c.qty
        /\ Booked'[c.sell] = Booked[c.sell] - c.qty
        /\ \A p \in Ids \ {c.buy, c.sell} : Booked'[p] = Booked[p]
    <3>1. \A p \in Ids \ {c.buy, c.sell} : Booked'[p] = Booked[p]
      BY <1>1, <2>7 DEF Booked, Signed
    <3>2. ASSUME NEW o \in {c.buy, c.sell}
          PROVE  /\ Booked'[o] = Signed(o, Terms[o].qty - rem[o] - 0)
                 /\ Booked[o] = Signed(o, Terms[o].qty - rem[o] - c.qty)
                 /\ Terms[o].qty \in Int /\ rem[o] \in Int
      <4>1. o \in Ids /\ Terms[o].qty \in Int /\ rem[o] \in Int
        BY <1>0, <2>5, TermsOK, OrderFacts
      <4>2. Unbooked(calls'[Symbol(o)], o) = 0 /\ Unbooked(calls[Symbol(o)], o) = c.qty
        BY <2>7, <2>8, <4>1
      <4>3. Booked'[o] = Signed(o, Terms[o].qty - rem'[o] - Unbooked(calls'[Symbol(o)], o))
        BY <4>1 DEF Booked, Signed
      <4>4. Booked[o] = Signed(o, Terms[o].qty - rem[o] - Unbooked(calls[Symbol(o)], o))
        BY <4>1 DEF Booked
      <4>5. QED
        BY <1>1, <4>1, <4>2, <4>3, <4>4
    <3>3. Terms[c.buy].side = "BUY" /\ Terms[c.sell].side = "SELL"
      BY <2>3 DEF FillCall
    <3>4. QED
      BY <2>2, <3>1, <3>2, <3>3 DEF Signed
  <2>10. Booked \in [Ids -> Int] /\ Booked' \in [Ids -> Int]
    <3>1. Booked \in [Ids -> Int]
      BY <1>0, BookedType
    <3>2. \A o \in Ids : Booked'[o] \in Int
      BY <2>2, <2>5, <2>9, <3>1
    <3>3. Booked' = [o \in Ids |-> Booked'[o]]
      BY DEF Booked
    <3>4. QED
      BY <3>1, <3>2, <3>3
  <2>11. /\ Ledger(accounts', Booked') /\ Grown(accounts, accounts')
         /\ \/ Untracked(accounts', Terms[c.buy].trader) \/ Untracked(accounts', Terms[c.sell].trader)
            \/ /\ AllGains(accounts') = AllGains(accounts)
               /\ \A u \in Symbols : AllShares(accounts', u) = AllShares(accounts, u)
    <3>1. Ledger(accounts, Booked)
      BY DEF LedgerInv
    <3>2. PICK g, h : g = Booked /\ h = Booked'
      OBVIOUS
    <3>3. /\ g \in [Ids -> Int] /\ Ledger(accounts, g) /\ h \in [Ids -> Int]
          /\ h[c.buy] = g[c.buy] + c.qty /\ h[c.sell] = g[c.sell] - c.qty
          /\ \A p \in Ids \ {c.buy, c.sell} : h[p] = g[p]
      BY <2>10, <2>9, <3>1, <3>2
    <3>4. LET b == OnFill(accounts, c)
          IN  /\ Ledger(b, h) /\ Grown(accounts, b)
              /\ \/ Untracked(b, Terms[c.buy].trader) \/ Untracked(b, Terms[c.sell].trader)
                 \/ /\ AllGains(b) = AllGains(accounts)
                    /\ \A u \in Symbols : AllShares(b, u) = AllShares(accounts, u)
      BY <2>2, <2>3, <3>3, WholeFill
    <3>5. QED
      BY <2>1, <3>2, <3>4
  <2>12. NoneLost' => NoneLost
    BY <1>4, <2>11, UntrackedStays DEF NoneLost
  <2>13. NoneLost' => Balanced(accounts')
    <3>1. {c.buy, c.sell} \subseteq Traded'
      BY <1>4, <2>3 DEF FillCall
    <3>2. NoneLost' => ~ Untracked(accounts', Terms[c.buy].trader) /\ ~ Untracked(accounts', Terms[c.sell].trader)
      BY <3>1 DEF NoneLost
    <3>3. QED
      BY <2>11, <2>12, <3>2 DEF LedgerInv, Balanced
  <2>14. QED
    BY <1>4, <1>5, <2>11, <2>13 DEF LedgerInv
<1>8. QED
  BY <1>6, <1>7 DEF Call

\* The report of a cancelled stop moves no money.
LEMMA TellLedger ==
  ASSUME AccountsAssumption, LedgerInv, Inv', NEW o \in Ids, CancelTell(o)
  PROVE  LedgerInv'
<1>1. accounts' = OnOrderState(accounts, o, status[o]) /\ UNCHANGED <<rem, calls>>
  BY DEF CancelTell
<1>2. status[o] \in Statuses /\ RegistryOK(accounts)
  BY OrderFacts DEF LedgerInv, Inv
<1>3. Widened(accounts, accounts')
  BY <1>1, <1>2, ReportWidens
<1>4. QED
  BY <1>1, <1>3, QuietLedger

\* Every step of the venue, of an engine's reports or of a cancel keeps the ledger.
LEMMA LedgerPreserved ==
  ASSUME AccountsAssumption, LedgerInv, Parked, [Next]_vars
  PROVE  LedgerInv'
<1>0. Inv /\ Inv'
  BY Preserved DEF LedgerInv
<1>1. Widened(accounts, accounts)
  BY <1>0, SameRegistry
<1>2. CASE UNCHANGED vars
  BY <1>0, <1>1, <1>2, QuietLedger DEF vars
<1>3. ASSUME NEW o \in Ids,
             \/ Dequeue(o) \/ Trigger(o) \/ Pop(o) \/ Done(o)
             \/ CancelInBook(o) \/ CancelPendingStop(o) \/ MarkParked(o)
      PROVE  LedgerInv'
  <2>1. UNCHANGED <<accounts, rem, calls>>
    BY <1>3 DEF Dequeue, MarkParked, Trigger, Pop, Done, CancelInBook, CancelPendingStop
  <2>2. QED
    BY <1>0, <1>1, <2>1, QuietLedger
<1>4. ASSUME NEW o \in Ids, Reject(o) \/ Park(o) \/ Rest(o) \/ CancelRemainder(o)
      PROVE  LedgerInv'
  <2>1. /\ Idle(Symbol(o)) /\ UNCHANGED <<accounts, rem>>
        /\ \E st \in {"REJECTED", "PENDING", status[o], "CANCELLED"} :
             calls' = [calls EXCEPT ![Symbol(o)] = <<State(o, st)>>]
    BY <1>4 DEF Reject, Park, Rest, CancelRemainder, Free
  <2>2. {"REJECTED", "PENDING", status[o], "CANCELLED"} \subseteq Statuses
    BY <1>0, OrderFacts DEF Statuses
  <2>3. PICK st \in Statuses : calls' = [calls EXCEPT ![Symbol(o)] = <<State(o, st)>>]
    BY <2>1, <2>2
  <2>4. QED
    BY <1>0, <2>1, <2>3, ReportLedger
<1>5. ASSUME NEW o \in Ids, CancelTell(o)
      PROVE  LedgerInv'
  BY <1>0, <1>5, TellLedger
<1>6. ASSUME NEW maker \in Ids, NEW taker \in Ids, Trade(maker, taker)
      PROVE  LedgerInv'
  BY <1>0, <1>6, TradeLedger
<1>7. ASSUME NEW s \in Symbols, Observe(s)
      PROVE  LedgerInv'
  BY <1>0, <1>7, ObserveLedger
<1>8. QED
  BY <1>2, <1>3, <1>4, <1>5, <1>6, <1>7 DEF Next

\* The registry holds what is booked of every order, and balances as long as no one
\* who traded is out of it for good.
THEOREM LedgerHolds == Spec => []LedgerInv
<1>1. AccountsAssumption /\ LedgerInv /\ Parked /\ [Next]_vars => LedgerInv'
  BY LedgerPreserved
<1>2. QED
  BY <1>1, InitLedger, Invariance, AccountsAssumption, PTL DEF Spec

\* A tracked trader's position in a symbol is what its orders there have filled,
\* less what is on its way, whoever was on the other side and whenever its account
\* was opened.
THEOREM PositionsAreOrders == Spec => []PositionsMatchOrders
<1>1. LedgerInv => PositionsMatchOrders
  BY DEF LedgerInv, Ledger, PositionsMatchOrders
<1>2. QED
  BY <1>1, LedgerHolds, PTL

\* When everyone who traded is tracked, what the accounts have gained adds up to
\* nothing, and so do their positions in each symbol, between any two calls.
THEOREM MoneyIsConserved == Spec => []ZeroSum
<1>1. ASSUME LedgerInv, Owners(Traded) \subseteq DOMAIN accounts
      PROVE  Balanced(accounts)
  <2>1. \A o \in Traded : Terms[o].trader \in DOMAIN accounts
    BY <1>1 DEF Owners
  <2>2. NoneLost
    BY <2>1 DEF NoneLost, Untracked
  <2>3. QED
    BY <1>1, <2>2 DEF LedgerInv
<1>2. LedgerInv => ZeroSum
  BY <1>1 DEF ZeroSum, Balanced, AllGains, AllShares
<1>3. QED
  BY <1>2, LedgerHolds, PTL

-----------------------------------------------------------------------------
(* Money: ratios in lowest terms *)

\* What can be taken out of a product.
LEMMA Cancels ==
  ASSUME NEW a \in Int, NEW b \in Int, NEW k \in Nat \ {0}, a * k = b * k
  PROVE  a = b
<1>1. (a - b) * k = 0
  BY DEF Ratio
<1>2. CASE a > b
  BY <1>1, <1>2
<1>3. CASE a < b
  BY <1>1, <1>3
<1>4. QED
  BY <1>2, <1>3

\* The denominators with which n over d can be written.
Dens(n, d) == {e \in Nat \ {0} : \E m \in Int : m * d = n * e}

\* A set of naturals has a least member.
LEMMA LeastNat ==
  ASSUME NEW S \in SUBSET Nat, S # {}
  PROVE  \E k \in S : \A i \in S : k <= i
<1>1. IsWellFoundedOn(OpToRel(<, Nat), Nat)
  BY NatLessThanWellFounded
<1>2. PICK k \in S : \A i \in S : <<i, k>> \notin OpToRel(<, Nat)
  BY <1>1, WFMin
<1>3. \A i \in S : ~ (i < k)
  BY <1>2 DEF OpToRel
<1>4. QED
  BY <1>3

\* Every way to write n over d multiplies the shortest.
LEMMA Shortest ==
  ASSUME NEW n \in Int, NEW d \in Nat \ {0}
  PROVE  \E e \in Dens(n, d), m \in Int :
           /\ m * d = n * e
           /\ \A k \in Dens(n, d) : e <= k
           /\ \A k \in Nat \ {0}, l \in Int : l * d = n * k => \E q \in Nat \ {0} : k = q * e /\ l = q * m
<1>1. Dens(n, d) \in SUBSET Nat /\ d \in Dens(n, d)
  BY DEF Dens
<1>2. PICK e \in Dens(n, d) : \A k \in Dens(n, d) : e <= k
  BY <1>1, LeastNat
<1>3. e \in Nat \ {0} /\ \E m \in Int : m * d = n * e
  BY DEF Dens
<1>4. PICK m \in Int : m * d = n * e
  BY <1>3
<1>5. ASSUME NEW k \in Nat \ {0}, NEW l \in Int, l * d = n * k
      PROVE  \E q \in Nat \ {0} : k = q * e /\ l = q * m
  <2>1. PICK q \in Int, r \in Int : k = q * e + r /\ 0 <= r /\ r < e
    <3>1. k = e * (k \div e) + (k % e) /\ k % e \in 0..(e - 1) /\ k \div e \in Int
      BY <1>3
    <3>2. e * (k \div e) = (k \div e) * e /\ k % e \in Int /\ 0 <= k % e /\ k % e < e
      BY <1>3, <3>1
    <3>3. k = (k \div e) * e + (k % e)
      BY <3>1, <3>2
    <3>4. QED
      BY <3>1, <3>2, <3>3
  <2>2. (l - q * m) * d = n * r
    <3>1. (l - q * m) * d = l * d - q * (m * d)
      BY <1>5
    <3>2. n * k = n * (q * e) + n * r
      BY <2>1, <1>3
    <3>3. q * (n * e) = n * (q * e)
      BY <1>3
    <3>4. QED
      BY <1>3, <1>4, <1>5, <3>1, <3>2, <3>3
  <2>3. r = 0
    <3>1. SUFFICES ASSUME r # 0
                   PROVE  FALSE
      OBVIOUS
    <3>2. r \in Nat \ {0} /\ l - q * m \in Int
      BY <2>1, <3>1
    <3>3. r \in Dens(n, d)
      BY <2>2, <3>2 DEF Dens
    <3>4. QED
      BY <1>2, <1>3, <2>1, <3>3
  <2>4. k = q * e
    BY <1>3, <2>1, <2>3
  <2>5. q > 0
    <3>1. SUFFICES ASSUME q <= 0
                   PROVE  FALSE
      OBVIOUS
    <3>2. q * e <= 0
      BY <1>3, <3>1
    <3>3. QED
      BY <2>4, <3>2
  <2>6. l * d = (q * m) * d
    <3>1. n * r = 0
      BY <2>3
    <3>2. (l - q * m) * d = l * d - (q * m) * d
      OBVIOUS
    <3>3. QED
      BY <2>2, <3>1, <3>2
  <2>7. l = q * m
    BY <2>6, Cancels
  <2>8. QED
    BY <2>4, <2>5, <2>7
<1>6. QED
  BY <1>2, <1>4, <1>5

\* Lowest terms: Ratio divides by all that can be divided by.
LEMMA RatioShortest ==
  ASSUME NEW n \in Int, NEW d \in Nat \ {0}
  PROVE  \E e \in Dens(n, d), m \in Int, q \in Nat \ {0} :
           /\ Ratio(n, d) = <<m, e>> /\ n = q * m /\ d = q * e
           /\ m * d = n * e
           /\ \A k \in Dens(n, d) : e <= k
<1>1. PICK e \in Dens(n, d), m \in Int :
           /\ m * d = n * e
           /\ \A k \in Dens(n, d) : e <= k
           /\ \A k \in Nat \ {0}, l \in Int : l * d = n * k => \E q \in Nat \ {0} : k = q * e /\ l = q * m
  BY Shortest
<1>2. e \in Nat \ {0}
  BY DEF Dens
<1>3. PICK q \in Nat \ {0} : d = q * e /\ n = q * m
  BY <1>1
<1> DEFINE S == {k \in 1..d : n % k = 0 /\ d % k = 0}
           g == IF d = 1 THEN 1 ELSE Max(S)
<1>4. q \in 1..d /\ n % q = 0 /\ d % q = 0 /\ n \div q = m /\ d \div q = e
  <2>1. q <= q * e
    BY <1>2
  <2>2. (q * m) % q = 0 /\ (q * e) % q = 0 /\ (q * m) \div q = m /\ (q * e) \div q = e
    BY <1>2
  <2>3. QED
    BY <1>3, <2>1, <2>2
<1>5. \A k \in 1..d : n % k = 0 /\ d % k = 0 => k <= q
  <2>1. SUFFICES ASSUME NEW k \in 1..d, n % k = 0, d % k = 0
                 PROVE  k <= q
    OBVIOUS
  <2> DEFINE a == n \div k
             b == d \div k
  <2>2. a \in Int /\ b \in Int /\ n = k * a /\ d = k * b
    BY <2>1
  <2> HIDE DEF a, b
  <2>3. b \in Nat \ {0}
    <3>1. SUFFICES ASSUME b <= 0
                   PROVE  FALSE
      BY <2>2
    <3>2. k * b <= 0
      BY <2>2, <3>1
    <3>3. QED
      BY <2>2, <3>2
  <2>4. a * d = n * b
    <3>1. a * (k * b) = (k * a) * b
      BY <2>2
    <3>2. QED
      BY <2>2, <3>1
  <2>5. PICK p \in Nat \ {0} : b = p * e
    BY <1>1, <2>2, <2>3, <2>4
  <2>6. (k * p) * e = q * e
    <3>1. (k * p) * e = k * (p * e)
      BY <1>2
    <3>2. QED
      BY <1>3, <2>2, <2>5, <3>1
  <2>7. k * p = q
    BY <1>2, <2>6, Cancels
  <2>8. k <= k * p
    BY <2>1
  <2>9. QED
    BY <2>7, <2>8
<1>6. g = q
  <2>1. CASE d = 1
    <3>1. q = 1
      BY <1>4, <2>1
    <3>2. QED
      BY <2>1, <3>1
  <2>2. CASE d # 1
    <3>1. q \in S /\ S \in SUBSET (1..d)
      BY <1>4
    <3>2. \A k \in S : k <= q
      BY <1>5
    <3> HIDE DEF S
    <3>3. Max(S) \in S /\ \A k \in S : k <= Max(S)
      BY <3>1, LastPosition
    <3>4. PICK x \in 1..d : x = Max(S) /\ x \in S
      BY <3>1, <3>3
    <3>5. x = q
      <4>1. x <= q
        BY <3>2, <3>4
      <4>2. q <= x
        BY <3>1, <3>3, <3>4
      <4>3. QED
        BY <4>1, <4>2
    <3>6. QED
      BY <2>2, <3>4, <3>5
  <2>3. QED
    BY <2>1, <2>2
<1>7. Ratio(n, d) = <<n \div g, d \div g>>
  BY DEF Ratio
<1> HIDE DEF g
<1>8. Ratio(n, d) = <<m, e>>
  BY <1>4, <1>6, <1>7
<1>9. QED
  BY <1>1, <1>3, <1>8

\* What numerator and denominator share does not matter.
LEMMA RatioScales ==
  ASSUME NEW n \in Int, NEW d \in Nat \ {0}, NEW k \in Nat \ {0}
  PROVE  k * n \in Int /\ k * d \in Nat \ {0} /\ Ratio(k * n, k * d) = Ratio(n, d)
<1>1. k * n \in Int /\ k * d \in Nat \ {0}
  <2>1. k * d > 0
    OBVIOUS
  <2>2. QED
    BY <2>1
<1>2. Dens(k * n, k * d) = Dens(n, d)
  <2>1. ASSUME NEW e \in Nat \ {0}, NEW m \in Int
        PROVE  m * (k * d) = (k * n) * e <=> m * d = n * e
    <3>1. m * (k * d) = (m * d) * k /\ (k * n) * e = (n * e) * k
      OBVIOUS
    <3>2. m * d \in Int /\ n * e \in Int
      OBVIOUS
    <3>3. QED
      BY <3>1, <3>2, Cancels
  <2>2. QED
    BY <2>1 DEF Dens
<1>3. PICK e \in Dens(n, d), m \in Int :
        /\ Ratio(n, d) = <<m, e>> /\ m * d = n * e /\ \A l \in Dens(n, d) : e <= l
  BY RatioShortest
<1>4. PICK f \in Dens(n, d), l \in Int :
        /\ Ratio(k * n, k * d) = <<l, f>> /\ l * (k * d) = (k * n) * f
        /\ \A i \in Dens(n, d) : f <= i
  <2>1. PICK x \in Int, y \in Nat \ {0} : x = k * n /\ y = k * d
    BY <1>1
  <2>2. \E f \in Dens(x, y), l \in Int :
          Ratio(x, y) = <<l, f>> /\ l * y = x * f /\ \A i \in Dens(x, y) : f <= i
    BY RatioShortest
  <2>3. QED
    BY <1>2, <2>1, <2>2
<1>5. e = f
  BY <1>3, <1>4 DEF Dens
<1>6. l * d = n * f
  <2>1. l * (k * d) = (l * d) * k /\ (k * n) * f = (n * f) * k
    BY DEF Dens
  <2>2. l * d \in Int /\ n * f \in Int
    BY DEF Dens
  <2>3. QED
    BY <1>4, <2>1, <2>2, Cancels
<1>7. l = m
  BY <1>3, <1>5, <1>6, Cancels
<1>8. QED
  BY <1>1, <1>3, <1>4, <1>5, <1>7

Reduced == {x \in Money : Ratio(x[1], x[2]) = x}

\* Numerators are integers, denominators positive.
LEMMA Parts == ASSUME NEW x \in Money PROVE x[1] \in Int /\ x[2] \in Nat \ {0} /\ x = <<x[1], x[2]>>
  BY DEF Money

\* Products stay in range, and may be paired off in any order.
LEMMA Products ==
  /\ \A a, b \in Nat \ {0} : a * b \in Nat \ {0}
  /\ \A a, b \in Int : a * b \in Int
  /\ \A a, b, c, d \in Int : (a * b) * (c * d) = (a * c) * (b * d)
<1>1. ASSUME NEW a \in Nat \ {0}, NEW b \in Nat \ {0}
      PROVE  a * b \in Nat \ {0}
  <2>1. a * b > 0
    BY <1>1
  <2>2. QED
    BY <2>1
<1>2. \A a, b \in Int : a * b \in Int
  OBVIOUS
<1>3. \A a, b, c, d \in Int : (a * b) * (c * d) = (a * c) * (b * d)
  OBVIOUS
<1>4. QED
  BY <1>1, <1>2, <1>3

\* A ratio cannot be reduced further.
LEMMA RatioReduced ==
  ASSUME NEW n \in Int, NEW d \in Nat \ {0}
  PROVE  \E x \in Reduced, q \in Nat \ {0} : x = Ratio(n, d) /\ n = q * x[1] /\ d = q * x[2]
<1>1. PICK e \in Dens(n, d), m \in Int, q \in Nat \ {0} :
           /\ Ratio(n, d) = <<m, e>> /\ n = q * m /\ d = q * e
           /\ m * d = n * e
           /\ \A k \in Dens(n, d) : e <= k
  BY RatioShortest
<1>2. e \in Nat \ {0}
  BY DEF Dens
<1>3. Ratio(n, d) = Ratio(m, e)
  BY <1>1, <1>2, RatioScales
<1>4. <<m, e>> \in Reduced
  BY <1>1, <1>2, <1>3 DEF Reduced, Money
<1>5. QED
  BY <1>1, <1>4

\* Equal fractions have one ratio.
LEMMA RatioSame ==
  ASSUME NEW n \in Int, NEW d \in Nat \ {0}, NEW m \in Int, NEW e \in Nat \ {0}, n * e = m * d
  PROVE  Ratio(n, d) = Ratio(m, e)
<1>1. Ratio(e * n, e * d) = Ratio(n, d) /\ Ratio(d * m, d * e) = Ratio(m, e)
  BY RatioScales
<1>2. e * n = d * m /\ e * d = d * e
  OBVIOUS
<1>3. QED
  BY <1>1, <1>2

\* Ratios add over the product of their denominators.
LEMMA PlusRatios ==
  ASSUME NEW n \in Int, NEW d \in Nat \ {0}, NEW m \in Int, NEW e \in Nat \ {0}
  PROVE  Plus(Ratio(n, d), Ratio(m, e)) = Ratio(n * e + m * d, d * e)
<1>1. PICK x \in Reduced, p \in Nat \ {0} : x = Ratio(n, d) /\ n = p * x[1] /\ d = p * x[2]
  BY RatioReduced
<1>2. PICK y \in Reduced, q \in Nat \ {0} : y = Ratio(m, e) /\ m = q * y[1] /\ e = q * y[2]
  BY RatioReduced
<1>3. PICK a \in Int, b \in Nat \ {0} : a = x[1] /\ b = x[2]
  BY Parts DEF Reduced
<1>4. PICK f \in Int, g \in Nat \ {0} : f = y[1] /\ g = y[2]
  BY Parts DEF Reduced
<1>5. Plus(x, y) = Ratio(a * g + f * b, b * g)
  BY <1>3, <1>4 DEF Plus
<1>6. a * g + f * b \in Int /\ b * g \in Nat \ {0} /\ p * q \in Nat \ {0}
  BY Products
<1>7. Ratio((p * q) * (a * g + f * b), (p * q) * (b * g)) = Ratio(a * g + f * b, b * g)
  BY <1>6, RatioScales
<1>8. n * e + m * d = (p * q) * (a * g + f * b)
  <2>1. n * e = (p * q) * (a * g)
    <3>1. n = p * a /\ e = q * g
      BY <1>1, <1>2, <1>3, <1>4
    <3>2. QED
      BY <3>1, Products
  <2>2. m * d = (p * q) * (f * b)
    <3>1. m = q * f /\ d = p * b
      BY <1>1, <1>2, <1>3, <1>4
    <3>2. (q * f) * (p * b) = (q * p) * (f * b)
      BY Products
    <3>3. q * p = p * q
      OBVIOUS
    <3>4. QED
      BY <3>1, <3>2, <3>3
  <2>3. a * g \in Int /\ f * b \in Int /\ p * q \in Int
    OBVIOUS
  <2>4. QED
    BY <2>1, <2>2, <2>3
<1>9. d * e = (p * q) * (b * g)
  BY <1>1, <1>2, <1>3, <1>4
<1>10. QED
  BY <1>1, <1>2, <1>5, <1>7, <1>8, <1>9

\* A ratio times a whole number.
LEMMA TimesRatio ==
  ASSUME NEW n \in Int, NEW d \in Nat \ {0}, NEW k \in Int
  PROVE  Times(Ratio(n, d), k) = Ratio(n * k, d)
<1>1. PICK x \in Reduced, p \in Nat \ {0} : x = Ratio(n, d) /\ n = p * x[1] /\ d = p * x[2]
  BY RatioReduced
<1>3. PICK a \in Int, b \in Nat \ {0} : a = x[1] /\ b = x[2]
  BY Parts DEF Reduced
<1>4. Times(x, k) = Ratio(a * k, b)
  BY <1>3 DEF Times
<1>5. a * k \in Int
  OBVIOUS
<1>6. Ratio(p * (a * k), p * b) = Ratio(a * k, b)
  BY <1>5, RatioScales
<1>7. p * (a * k) = n * k
  <2>1. n = p * a
    BY <1>1, <1>3
  <2>2. p * (a * k) = (p * a) * k
    OBVIOUS
  <2>3. QED
    BY <2>1, <2>2
<1>8. QED
  BY <1>1, <1>3, <1>4, <1>6, <1>7

\* A ratio over a positive number.
LEMMA OverRatio ==
  ASSUME NEW n \in Int, NEW d \in Nat \ {0}, NEW k \in Nat \ {0}
  PROVE  Over(Ratio(n, d), k) = Ratio(n, d * k)
<1>1. PICK x \in Reduced, p \in Nat \ {0} : x = Ratio(n, d) /\ n = p * x[1] /\ d = p * x[2]
  BY RatioReduced
<1>2. PICK a \in Int, b \in Nat \ {0} : a = x[1] /\ b = x[2]
  BY Parts DEF Reduced
<1>3. PICK c \in Nat \ {0} : c = b * k
  BY Products
<1>4. Over(x, k) = Ratio(a, c)
  BY <1>2, <1>3 DEF Over
<1>5. Ratio(p * a, p * c) = Ratio(a, c)
  BY RatioScales
<1>6. p * c = d * k
  <2>1. d = p * b
    BY <1>1, <1>2
  <2>2. QED
    BY <1>3, <2>1
<1>7. QED
  BY <1>1, <1>2, <1>4, <1>5, <1>6

\* An amount is n over d.
LEMMA IsRatio ==
  ASSUME NEW x \in Reduced
  PROVE  \E n \in Int, d \in Nat \ {0} : x = Ratio(n, d) /\ n = x[1] /\ d = x[2]
  BY Parts DEF Reduced

\* A quotient is in lowest terms.
LEMMA RatioIsReduced ==
  ASSUME NEW n \in Int, NEW d \in Nat \ {0}
  PROVE  Ratio(n, d) \in Reduced
  BY RatioReduced

\* A whole number is a ratio in lowest terms.
LEMMA WholeIs == ASSUME NEW n \in Int PROVE Whole(n) = Ratio(n, 1) /\ Whole(n) \in Reduced
<1>1. Ratio(n, 1) = <<n \div 1, 1 \div 1>>
  BY DEF Ratio
<1>2. n \div 1 = n /\ 1 \div 1 = 1
  OBVIOUS
<1>3. Whole(n) = Ratio(n, 1)
  BY <1>1, <1>2 DEF Whole
<1>4. Ratio(n, 1) \in Reduced
  BY RatioIsReduced
<1>5. QED
  BY <1>3, <1>4

\* Amounts are closed under what is done with them.
LEMMA Closed ==
  /\ \A a, b \in Reduced : Plus(a, b) \in Reduced /\ Minus(a, b) \in Reduced
  /\ \A a \in Reduced, k \in Int : Times(a, k) \in Reduced /\ (k > 0 => Over(a, k) \in Reduced)
  /\ \A n \in Int : Whole(n) \in Reduced
<1>1. ASSUME NEW a \in Reduced, NEW b \in Reduced
      PROVE  Plus(a, b) \in Reduced
  <2>1. PICK n \in Int, d \in Nat \ {0} : n = a[1] /\ d = a[2]
    BY IsRatio
  <2>2. PICK m \in Int, e \in Nat \ {0} : m = b[1] /\ e = b[2]
    BY IsRatio
  <2>3. n * e + m * d \in Int /\ d * e \in Nat \ {0}
    BY Products
  <2>4. Plus(a, b) = Ratio(n * e + m * d, d * e)
    BY <2>1, <2>2 DEF Plus
  <2>5. QED
    BY <2>3, <2>4, RatioIsReduced
<1>2. ASSUME NEW a \in Reduced, NEW k \in Int
      PROVE  Times(a, k) \in Reduced
  <2>1. a[1] * k \in Int /\ a[2] \in Nat \ {0}
    BY Parts, Products DEF Reduced
  <2>2. QED
    BY <2>1, RatioIsReduced DEF Times
<1>3. ASSUME NEW a \in Reduced, NEW k \in Int, k > 0
      PROVE  Over(a, k) \in Reduced
  <2>1. PICK n \in Int, d \in Nat \ {0} : n = a[1] /\ d = a[2]
    BY IsRatio
  <2>2. d * k \in Nat \ {0}
    BY <1>3, Products
  <2>3. Over(a, k) = Ratio(n, d * k)
    BY <2>1 DEF Over
  <2>4. QED
    BY <2>2, <2>3, RatioIsReduced
<1>4. \A a, b \in Reduced : Minus(a, b) \in Reduced
  BY <1>1, <1>2 DEF Minus
<1>5. QED
  BY <1>1, <1>2, <1>3, <1>4, WholeIs

\* They add up in any order ...
LEMMA PlusLaws ==
  /\ \A a, b \in Reduced : Plus(a, b) = Plus(b, a)
  /\ \A a, b, c \in Reduced : Plus(Plus(a, b), c) = Plus(a, Plus(b, c))
  /\ \A a \in Reduced : Plus(a, Whole(0)) = a /\ Plus(a, Times(a, -1)) = Whole(0)
<1>1. ASSUME NEW a \in Reduced, NEW b \in Reduced
      PROVE  Plus(a, b) = Plus(b, a)
  <2>1. PICK n \in Int, d \in Nat \ {0} : n = a[1] /\ d = a[2]
    BY IsRatio
  <2>2. PICK m \in Int, e \in Nat \ {0} : m = b[1] /\ e = b[2]
    BY IsRatio
  <2>3. n * e + m * d = m * d + n * e /\ d * e = e * d
    OBVIOUS
  <2>4. QED
    BY <2>1, <2>2, <2>3 DEF Plus
<1>2. ASSUME NEW a \in Reduced, NEW b \in Reduced, NEW c \in Reduced
      PROVE  Plus(Plus(a, b), c) = Plus(a, Plus(b, c))
  <2>1. PICK n \in Int, d \in Nat \ {0} : a = Ratio(n, d)
    BY IsRatio
  <2>2. PICK m \in Int, e \in Nat \ {0} : b = Ratio(m, e)
    BY IsRatio
  <2>3. PICK l \in Int, f \in Nat \ {0} : c = Ratio(l, f)
    BY IsRatio
  <2>4. PICK u \in Int, v \in Nat \ {0} : u = n * e + m * d /\ v = d * e
    BY Products
  <2>5. PICK w \in Int, z \in Nat \ {0} : w = m * f + l * e /\ z = e * f
    BY Products
  <2>6. Plus(a, b) = Ratio(u, v) /\ Plus(b, c) = Ratio(w, z)
    <3>1. Plus(Ratio(n, d), Ratio(m, e)) = Ratio(n * e + m * d, d * e)
      BY PlusRatios
    <3>2. Plus(Ratio(m, e), Ratio(l, f)) = Ratio(m * f + l * e, e * f)
      BY PlusRatios
    <3>3. QED
      BY <2>1, <2>2, <2>3, <2>4, <2>5, <3>1, <3>2
  <2>7. Plus(Ratio(u, v), c) = Ratio(u * f + l * v, v * f)
    BY <2>3, PlusRatios
  <2>8. Plus(a, Ratio(w, z)) = Ratio(n * z + w * d, d * z)
    BY <2>1, PlusRatios
  <2>9. v * f = d * z
    BY <2>4, <2>5
  <2>10. u * f + l * v = n * z + w * d
    <3>1. u * f = n * (e * f) + (m * d) * f
      BY <2>4
    <3>2. w * d = (m * d) * f + l * (d * e)
      BY <2>5
    <3>3. QED
      BY <2>4, <2>5, <3>1, <3>2
  <2>11. QED
    BY <2>6, <2>7, <2>8, <2>9, <2>10
<1>3. ASSUME NEW a \in Reduced
      PROVE  Plus(a, Whole(0)) = a
  <2>1. PICK n \in Int, d \in Nat \ {0} : a = Ratio(n, d)
    BY IsRatio
  <2>2. Plus(Ratio(n, d), Ratio(0, 1)) = Ratio(n * 1 + 0 * d, d * 1)
    BY PlusRatios
  <2>3. n * 1 + 0 * d = n /\ d * 1 = d
    OBVIOUS
  <2>4. Whole(0) = Ratio(0, 1)
    BY WholeIs
  <2>5. QED
    BY <2>1, <2>2, <2>3, <2>4
<1>4. ASSUME NEW a \in Reduced
      PROVE  Plus(a, Times(a, -1)) = Whole(0)
  <2>1. PICK n \in Int, d \in Nat \ {0} : a = Ratio(n, d)
    BY IsRatio
  <2>2. Times(a, -1) = Ratio(n * (-1), d)
    BY <2>1, TimesRatio
  <2>3. PICK m \in Int : m = n * (-1)
    OBVIOUS
  <2>4. Plus(Ratio(n, d), Ratio(m, d)) = Ratio(n * d + m * d, d * d)
    BY PlusRatios
  <2>5. PICK e \in Nat \ {0} : e = d * d
    BY Products
  <2>6. n * d + m * d = 0
    <3>1. m * d = - (n * d)
      BY <2>3
    <3>2. QED
      BY <3>1
  <2>7. Ratio(0, e) = Ratio(0, 1)
    <3>1. 0 * 1 = 0 * e
      OBVIOUS
    <3>2. QED
      BY <3>1, RatioSame
  <2>8. Whole(0) = Ratio(0, 1)
    BY WholeIs
  <2>9. QED
    BY <2>1, <2>2, <2>3, <2>4, <2>5, <2>6, <2>7, <2>8
<1>5. QED
  BY <1>1, <1>2, <1>3, <1>4

\* With one denominator, amounts are added, subtracted and multiplied like integers.
LEMMA SameDenominator ==
  ASSUME NEW x \in Int, NEW y \in Int, NEW d \in Nat \ {0}
  PROVE  /\ Plus(Ratio(x, d), Ratio(y, d)) = Ratio(x + y, d)
         /\ Minus(Ratio(x, d), Ratio(y, d)) = Ratio(x - y, d)
         /\ \A k \in Int : Times(Ratio(x, d), k) = Ratio(x * k, d)
         /\ Whole(x) = Ratio(x * d, d)
<1>1. ASSUME NEW z \in Int
      PROVE  Plus(Ratio(x, d), Ratio(z, d)) = Ratio(x + z, d)
  <2>1. Plus(Ratio(x, d), Ratio(z, d)) = Ratio(x * d + z * d, d * d)
    BY PlusRatios
  <2>2. PICK n \in Int : n = x + z
    OBVIOUS
  <2>3. x * d + z * d = d * n
    BY <2>2
  <2>4. Ratio(d * n, d * d) = Ratio(n, d)
    BY RatioScales
  <2>5. QED
    BY <2>1, <2>2, <2>3, <2>4
<1>2. \A k \in Int : Times(Ratio(x, d), k) = Ratio(x * k, d)
  BY TimesRatio
<1>3. Minus(Ratio(x, d), Ratio(y, d)) = Ratio(x - y, d)
  <2>1. PICK z \in Int : z = y * (-1)
    OBVIOUS
  <2>2. Times(Ratio(y, d), -1) = Ratio(z, d)
    BY <2>1, TimesRatio
  <2>3. x + z = x - y
    BY <2>1
  <2>4. QED
    BY <1>1, <2>2, <2>3 DEF Minus
<1>4. Whole(x) = Ratio(x * d, d)
  <2>1. Whole(x) = Ratio(x, 1)
    BY WholeIs
  <2>2. Ratio(d * x, d * 1) = Ratio(x, 1)
    BY RatioScales
  <2>3. d * x = x * d /\ d * 1 = d
    OBVIOUS
  <2>4. QED
    BY <2>1, <2>2, <2>3
<1>5. QED
  BY <1>1, <1>2, <1>3, <1>4

\* Amounts with a common denominator.
AllOver(d, a, b, c) ==
  /\ d \in Nat \ {0}
  /\ \E x, y, z \in Int : a = Ratio(x, d) /\ b = Ratio(y, d) /\ c = Ratio(z, d)

\* Any three amounts have one.
LEMMA CommonDenominator ==
  ASSUME NEW a \in Reduced, NEW b \in Reduced, NEW c \in Reduced
  PROVE  \E d : AllOver(d, a, b, c)
<1>1. PICK n \in Int, u \in Nat \ {0} : a = Ratio(n, u)
  BY IsRatio
<1>2. PICK m \in Int, v \in Nat \ {0} : b = Ratio(m, v)
  BY IsRatio
<1>3. PICK l \in Int, w \in Nat \ {0} : c = Ratio(l, w)
  BY IsRatio
<1>4. PICK uv \in Nat \ {0}, uw \in Nat \ {0}, vw \in Nat \ {0} : uv = u * v /\ uw = u * w /\ vw = v * w
  BY Products
<1>5. PICK d \in Nat \ {0} : d = uv * w
  BY Products
<1>6. d = vw * u /\ d = uw * v
  BY <1>4, <1>5
<1>7. PICK x \in Int, y \in Int, z \in Int : x = vw * n /\ y = uw * m /\ z = uv * l
  OBVIOUS
<1>8. Ratio(x, d) = a /\ Ratio(y, d) = b /\ Ratio(z, d) = c
  <2>1. Ratio(vw * n, vw * u) = Ratio(n, u) /\ Ratio(uw * m, uw * v) = Ratio(m, v)
        /\ Ratio(uv * l, uv * w) = Ratio(l, w)
    BY RatioScales
  <2>2. QED
    BY <1>1, <1>2, <1>3, <1>5, <1>6, <1>7, <2>1
<1>9. QED
  BY <1>8 DEF AllOver

\* What a position has brought in, in cash.
Earned(p) == Minus(p.realized, Times(p.avgEntry, p.qty))

\* Every fill brings in its cash, and no more: adding, reducing, closing and flipping.
LEMMA FillEarns ==
  ASSUME NEW p \in [qty: Int, avgEntry: Reduced, realized: Reduced],
         NEW q \in Int \ {0}, NEW price \in Int
  PROVE  LET n == applyToPosition(p, q, price)
         IN  /\ n \in [qty: Int, avgEntry: Reduced, realized: Reduced]
             /\ Earned(n) = Plus(Earned(p), Whole(- (price * q)))
<1>0. p.qty \in Int /\ p.avgEntry \in Reduced /\ p.realized \in Reduced
  OBVIOUS
<1>1. PICK d \in Nat \ {0}, x \in Int, y \in Int : p.avgEntry = Ratio(x, d) /\ p.realized = Ratio(y, d)
  <2>1. PICK d : AllOver(d, p.avgEntry, p.realized, p.realized)
    BY <1>0, CommonDenominator
  <2>2. QED
    BY <2>1 DEF AllOver
<1> DEFINE m == p.qty + q
<1>2. m \in Int
  BY <1>0
<1>3. PICK w \in Int : w = price * q
  OBVIOUS
<1>4. Plus(Earned(p), Whole(- w)) = Ratio(y - x * p.qty - w * d, d)
  <2>1. PICK u \in Int, v \in Int : u = x * p.qty /\ v = (- w) * d
    BY <1>0
  <2>2. Times(p.avgEntry, p.qty) = Ratio(u, d) /\ Whole(- w) = Ratio(v, d)
    <3>1. Times(Ratio(x, d), p.qty) = Ratio(x * p.qty, d)
      BY <1>0, TimesRatio
    <3>2. - w \in Int
      OBVIOUS
    <3>3. Whole(- w) = Ratio((- w) * d, d)
      BY <3>2, SameDenominator
    <3>4. QED
      BY <1>1, <2>1, <3>1, <3>3
  <2>3. Earned(p) = Ratio(y - u, d) /\ y - u \in Int
    BY <1>1, <2>2, SameDenominator DEF Earned
  <2>4. Plus(Earned(p), Whole(- w)) = Ratio(y - u + v, d)
    BY <2>2, <2>3, SameDenominator
  <2>5. v = - (w * d)
    BY <2>1
  <2>6. y - u + v = y - x * p.qty - w * d
    BY <1>0, <2>1, <2>5
  <2>7. QED
    BY <2>4, <2>6
<1>5. ASSUME NEW e \in Reduced, NEW r \in Reduced, NEW f \in Int, NEW g \in Int,
             Times(e, m) = Ratio(f, d), r = Ratio(g, d), g - f = y - x * p.qty - w * d,
             applyToPosition(p, q, price) = [qty |-> m, avgEntry |-> e, realized |-> r]
      PROVE  LET n == applyToPosition(p, q, price)
             IN  /\ n \in [qty: Int, avgEntry: Reduced, realized: Reduced]
                 /\ Earned(n) = Plus(Earned(p), Whole(- (price * q)))
  <2>1. Minus(Ratio(g, d), Ratio(f, d)) = Ratio(g - f, d)
    BY SameDenominator
  <2>2. Earned([qty |-> m, avgEntry |-> e, realized |-> r]) = Minus(r, Times(e, m))
    BY DEF Earned
  <2>3. QED
    BY <1>2, <1>3, <1>4, <1>5, <2>1, <2>2
<1>6. CASE Adds(p, q)
  <2> DEFINE e == Blended(p, q, price)
  <2>1. PICK s \in {1, -1} : Abs(p.qty) = s * p.qty /\ Abs(q) = s * q /\ Abs(m) = s * m /\ s * m > 0
    <3>1. CASE q > 0
      <4>1. p.qty >= 0
        BY <1>0, <1>6, <3>1 DEF Adds
      <4>2. Abs(p.qty) = 1 * p.qty /\ Abs(q) = 1 * q /\ Abs(m) = 1 * m /\ 1 * m > 0
        BY <1>0, <3>1, <4>1 DEF Abs
      <4>3. QED
        BY <4>2
    <3>2. CASE q < 0
      <4>1. p.qty <= 0
        BY <1>0, <1>6, <3>2 DEF Adds
      <4>2. Abs(p.qty) = (-1) * p.qty /\ Abs(q) = (-1) * q /\ Abs(m) = (-1) * m /\ (-1) * m > 0
        BY <1>0, <3>2, <4>1 DEF Abs
      <4>3. QED
        BY <4>2
    <3>3. QED
      BY <3>1, <3>2
  <2>2. applyToPosition(p, q, price) = [p EXCEPT !.qty = @ + q, !.avgEntry = e]
    BY <1>6 DEF applyToPosition
  <2>3. PICK i \in Int, j \in Int, k \in Nat \ {0} : i = s * p.qty /\ j = s * q /\ k = s * m
    <3>1. s * p.qty \in Int /\ s * q \in Int /\ s * m \in Int
      BY <1>0, <1>2
    <3>2. QED
      BY <2>1, <3>1
  <2>4. PICK a \in Int : a = x * i + (j * price) * d
    BY <1>0
  <2>5. PICK b \in Nat \ {0} : b = d * k
    BY Products
  <2>6. e = Ratio(a, b)
    <3>1. PICK jp \in Int, xi \in Int, jpd \in Int : jp = j * price /\ xi = x * i /\ jpd = jp * d
      OBVIOUS
    <3>2. Times(p.avgEntry, i) = Ratio(xi, d) /\ Whole(jp) = Ratio(jpd, d)
      <4>1. Times(Ratio(x, d), i) = Ratio(x * i, d)
        BY TimesRatio
      <4>2. Whole(jp) = Ratio(jp * d, d)
        BY SameDenominator
      <4>3. QED
        BY <1>1, <3>1, <4>1, <4>2
    <3>3. Plus(Times(p.avgEntry, i), Whole(jp)) = Ratio(a, d)
      BY <2>4, <3>1, <3>2, SameDenominator
    <3>4. Over(Ratio(a, d), k) = Ratio(a, d * k)
      BY OverRatio
    <3>5. QED
      BY <2>1, <2>3, <2>5, <3>1, <3>3, <3>4 DEF Blended
  <2> HIDE DEF e
  <2>7. e \in Reduced
    BY <2>6, RatioIsReduced
  <2>8. PICK f \in Int : f = x * p.qty + w * d
    BY <1>0
  <2>9. Times(e, m) = Ratio(f, d)
    <3>1. PICK am \in Int : am = a * m
      BY <1>2
    <3>2. Times(e, m) = Ratio(am, b)
      BY <1>2, <2>6, <3>1, TimesRatio
    <3>3. a = s * f
      <4>1. x * i = s * (x * p.qty)
        BY <1>0, <2>3
      <4>2. (j * price) * d = s * (w * d)
        BY <1>3, <2>3
      <4>3. s * f = s * (x * p.qty) + s * (w * d)
        BY <1>0, <2>8
      <4>4. QED
        BY <2>4, <4>1, <4>2, <4>3
    <3>4. am * d = f * b
      <4>1. am * d = ((s * f) * m) * d
        BY <3>1, <3>3
      <4>2. f * b = f * (d * (s * m))
        BY <2>3, <2>5
      <4>3. CASE s = 1
        BY <1>2, <4>1, <4>2, <4>3
      <4>4. CASE s = -1
        BY <1>2, <4>1, <4>2, <4>4
      <4>5. QED
        BY <2>1, <4>3, <4>4
    <3>5. QED
      BY <3>2, <3>4, RatioSame
  <2>10. y - f = y - x * p.qty - w * d
    BY <1>0, <2>8
  <2>11. applyToPosition(p, q, price) = [qty |-> m, avgEntry |-> e, realized |-> p.realized]
    BY <2>2
  <2>12. QED
    BY <1>0, <1>1, <1>5, <2>7, <2>9, <2>10, <2>11
<1>7. CASE ~ Adds(p, q)
  <2> DEFINE c == Least(Abs(p.qty), Abs(q)) * (IF p.qty > 0 THEN 1 ELSE -1)
             r == Plus(p.realized, Gain(p, q, price))
             e == IF p.qty + q = 0 THEN Whole(0)
                  ELSE IF Abs(q) > Abs(p.qty) THEN Whole(price)
                  ELSE p.avgEntry
  <2>1. applyToPosition(p, q, price) = [qty |-> m, avgEntry |-> e, realized |-> r]
    <3>1. applyToPosition(p, q, price) = [p EXCEPT !.qty = @ + q, !.realized = r, !.avgEntry = e]
      BY <1>0, <1>7 DEF applyToPosition
    <3> HIDE DEF r, e
    <3>2. QED
      BY <3>1
  <2>2. p.qty # 0 /\ (p.qty > 0 <=> q < 0)
    BY <1>0, <1>7 DEF Adds
  <2>3. c \in Int /\ c = IF Abs(q) > Abs(p.qty) \/ m = 0 THEN p.qty ELSE - q
    <3>1. CASE p.qty > 0
      BY <1>0, <2>2, <3>1 DEF Least, Abs
    <3>2. CASE p.qty < 0
      BY <1>0, <2>2, <3>2 DEF Least, Abs
    <3>3. QED
      BY <1>0, <2>2, <3>1, <3>2
  <2>4. PICK k \in Int : k = c
    BY <2>3
  <2>5. PICK pd \in Int : pd = price * d
    OBVIOUS
  <2>6. PICK g \in Int : g = y + (pd - x) * k
    OBVIOUS
  <2>7. r = Ratio(g, d)
    <3>1. PICK h \in Int, l \in Int : h = pd - x /\ l = h * k
      OBVIOUS
    <3>2. Minus(Whole(price), p.avgEntry) = Ratio(h, d)
      <4>1. Whole(price) = Ratio(pd, d)
        BY <2>5, SameDenominator
      <4>2. Minus(Ratio(pd, d), Ratio(x, d)) = Ratio(pd - x, d)
        BY SameDenominator
      <4>3. QED
        BY <1>1, <3>1, <4>1, <4>2
    <3>3. Times(Ratio(h, d), k) = Ratio(l, d)
      BY <3>1, SameDenominator
    <3>4. Gain(p, q, price) = Times(Minus(Whole(price), p.avgEntry), k)
      BY <2>4 DEF Gain
    <3>5. Plus(Ratio(y, d), Ratio(l, d)) = Ratio(y + l, d)
      BY SameDenominator
    <3>6. QED
      BY <1>1, <2>6, <3>1, <3>2, <3>3, <3>4, <3>5
  <2>8. PICK z \in Int : e = Ratio(z, d) /\ z = IF m = 0 THEN 0 ELSE IF Abs(q) > Abs(p.qty) THEN pd ELSE x
    <3>1. Whole(price) = Ratio(pd, d) /\ Whole(0) = Ratio(0 * d, d) /\ 0 * d = 0
      BY <2>5, SameDenominator
    <3>2. QED
      BY <1>1, <3>1
  <2> HIDE DEF c, r, e
  <2>9. PICK f \in Int : f = z * m
    BY <1>2
  <2>10. Times(e, m) = Ratio(f, d)
    <3>1. Times(Ratio(z, d), m) = Ratio(z * m, d)
      BY <1>2, TimesRatio
    <3>2. QED
      BY <2>8, <2>9, <3>1
  <2>11. g - f = y - x * p.qty - w * d
    <3>0. w * d = pd * q
      BY <1>3, <2>5
    <3>1. CASE m = 0
      <4>1. f = 0 /\ k = p.qty /\ p.qty = - q
        <5>1. z * 0 = 0 /\ p.qty = - q
          BY <1>0, <3>1
        <5>2. QED
          BY <2>3, <2>4, <2>9, <3>1, <5>1
      <4>2. (pd - x) * k = pd * k - x * k /\ pd * k = - (pd * q)
        BY <4>1
      <4>3. QED
        BY <1>0, <2>6, <3>0, <4>1, <4>2
    <3>2. CASE m # 0 /\ Abs(q) > Abs(p.qty)
      <4>1. z = pd /\ k = p.qty
        BY <2>3, <2>4, <2>8, <3>2
      <4>2. f = pd * p.qty + pd * q
        BY <1>0, <2>9, <4>1
      <4>3. (pd - x) * k = pd * p.qty - x * p.qty
        BY <1>0, <4>1
      <4>4. PICK u \in Int, v \in Int, o \in Int : u = pd * p.qty /\ v = pd * q /\ o = x * p.qty
        BY <1>0
      <4>5. QED
        BY <2>6, <3>0, <4>2, <4>3, <4>4
    <3>3. CASE m # 0 /\ ~ (Abs(q) > Abs(p.qty))
      <4>1. z = x /\ k = - q
        BY <2>3, <2>4, <2>8, <3>3
      <4>2. f = x * p.qty + x * q
        BY <1>0, <2>9, <4>1
      <4>3. (pd - x) * k = - (pd * q) + x * q
        BY <4>1
      <4>4. QED
        BY <1>0, <2>6, <3>0, <4>2, <4>3
    <3>4. QED
      BY <3>1, <3>2, <3>3
  <2>12. e \in Reduced /\ r \in Reduced
    BY <2>7, <2>8, RatioIsReduced
  <2>13. QED
    BY <1>5, <2>1, <2>7, <2>10, <2>11, <2>12
<1>8. QED
  BY <1>6, <1>7

-----------------------------------------------------------------------------
(* Totals *)

\* What Total's fold makes of a subset s, given its values on smaller ones.
Tallied(g, f, s) == IF s = {} THEN Whole(0) ELSE Plus(f[Chosen(s)], g[s \ {Chosen(s)}])

Tallies(g, f, S) == g = [s \in SUBSET S |-> Tallied(g, f, s)]

\* A total is the value of a tally at the whole set.
LEMMA TotalUnfolds ==
  ASSUME NEW f, NEW S
  PROVE  Total(f, S) = (CHOOSE g : Tallies(g, f, S))[S]
  BY DEF Total, FoldFunctionOnSet, MapThenFoldSet, Tallies, Tallied, Chosen

\* A function of symbols gives amounts on S.
Amounts(f, S) == IsFiniteSet(S) /\ \A x \in S : f[x] \in Reduced

\* Two tallies agree where both are defined.
LEMMA TalliesAgree ==
  ASSUME NEW f, NEW S, IsFiniteSet(S), NEW T, NEW g, NEW h, Tallies(g, f, S), Tallies(h, f, T),
         S \subseteq T
  PROVE  \A U \in SUBSET S : g[U] = h[U]
<1> DEFINE F == {U \in SUBSET S : g[U] = h[U]}
<1>1. ASSUME NEW U \in SUBSET S, \A V \in SUBSET U : V # U => V \in F
      PROVE  U \in F
  <2>1. g[U] = Tallied(g, f, U) /\ h[U] = Tallied(h, f, U)
    BY DEF Tallies
  <2>2. Tallied(g, f, U) = Tallied(h, f, U)
    BY <1>1, ChosenIsMember DEF Tallied
  <2>3. QED
    BY <2>1, <2>2
<1> HIDE DEF F
<1>2. SUBSET S \subseteq F
  BY <1>1, SubsetInduction
<1>3. QED
  BY <1>2 DEF F

\* There is one, and it gives amounts.
LEMMA TallyExists ==
  ASSUME NEW f, NEW S, Amounts(f, S)
  PROVE  \E g \in [SUBSET S -> Reduced] : Tallies(g, f, S)
<1> DEFINE step == [x \in Reduced \X S |-> Plus(f[x[2]], x[1])]
           c    == [s \in SUBSET S |-> Chosen(s)]
<1>1. IsFiniteSet(S) /\ Chooses(c, S) /\ Whole(0) \in Reduced
  BY ChosenIsMember, WholeIs DEF Chooses, Amounts
<1>2. step \in [Reduced \X S -> Reduced]
  <2>1. \A x \in Reduced \X S : Plus(f[x[2]], x[1]) \in Reduced
    BY Closed DEF Amounts
  <2>2. QED
    BY <2>1
<1> HIDE DEF step, c
<1>3. PICK g \in [SUBSET S -> Reduced] : Recurs(g, step, c, Whole(0), S)
  BY <1>1, <1>2, FoldExists
<1>4. ASSUME NEW s \in SUBSET S
      PROVE  g[s] = Tallied(g, f, s)
  <2>1. g[s] = IF s = {} THEN Whole(0) ELSE step[<<g[s \ {c[s]}], c[s]>>]
    BY <1>3 DEF Recurs
  <2>2. c[s] = Chosen(s)
    BY DEF c
  <2>3. CASE s = {}
    BY <2>1, <2>3 DEF Tallied
  <2>4. CASE s # {}
    <3>1. Chosen(s) \in s /\ s \ {Chosen(s)} \in SUBSET S
      BY <2>4, ChosenIsMember
    <3>2. <<g[s \ {Chosen(s)}], Chosen(s)>> \in Reduced \X S
      BY <1>3, <3>1
    <3>3. step[<<g[s \ {Chosen(s)}], Chosen(s)>>] = Plus(f[Chosen(s)], g[s \ {Chosen(s)}])
      BY <3>2 DEF step
    <3>4. QED
      BY <2>1, <2>2, <2>4, <3>3 DEF Tallied
  <2>5. QED
    BY <2>3, <2>4
<1>5. g = [s \in SUBSET S |-> Tallied(g, f, s)]
  BY <1>3, <1>4
<1>6. QED
  BY <1>3, <1>5 DEF Tallies

\* A total of amounts is one; the fold's own equation.
LEMMA TotalSteps ==
  ASSUME NEW f, NEW S, Amounts(f, S)
  PROVE  \A U \in SUBSET S :
           /\ Total(f, U) \in Reduced
           /\ Total(f, U) = IF U = {} THEN Whole(0)
                            ELSE Plus(f[Chosen(U)], Total(f, U \ {Chosen(U)}))
<1>1. PICK g \in [SUBSET S -> Reduced] : Tallies(g, f, S)
  BY TallyExists
<1>2. ASSUME NEW U \in SUBSET S
      PROVE  Total(f, U) = g[U]
  <2> DEFINE h == CHOOSE h : Tallies(h, f, U)
  <2>1. Amounts(f, U) /\ IsFiniteSet(U)
    BY FS_Subset DEF Amounts
  <2>2. Tallies(h, f, U)
    BY <2>1, TallyExists
  <2>3. Total(f, U) = h[U]
    BY TotalUnfolds
  <2> HIDE DEF h
  <2>4. \A V \in SUBSET U : h[V] = g[V]
    BY <1>1, <2>1, <2>2, TalliesAgree
  <2>5. QED
    BY <2>3, <2>4
<1>3. \A U \in SUBSET S : g[U] = Tallied(g, f, U)
  BY <1>1 DEF Tallies
<1>4. QED
  BY <1>1, <1>2, <1>3 DEF Tallied

\* Any term may be taken out.
LEMMA TotalTakesOut ==
  ASSUME NEW f, NEW S, Amounts(f, S), NEW x \in S
  PROVE  Total(f, S) = Plus(f[x], Total(f, S \ {x}))
<1> DEFINE F == {U \in SUBSET S : \A y \in U : Total(f, U) = Plus(f[y], Total(f, U \ {y}))}
<1>0. \A U \in SUBSET S : Total(f, U) \in Reduced
  BY TotalSteps
<1>1. ASSUME NEW U \in SUBSET S, \A V \in SUBSET U : V # U => V \in F
      PROVE  U \in F
  <2>1. ASSUME NEW y \in U
        PROVE  Total(f, U) = Plus(f[y], Total(f, U \ {y}))
    <3>1. PICK c \in U : Total(f, U) = Plus(f[c], Total(f, U \ {c}))
      BY ChosenIsMember, TotalSteps
    <3>2. CASE y = c
      BY <3>1, <3>2
    <3>3. CASE y # c
      <4>1. U \ {c} \in F /\ U \ {y} \in F
        BY <1>1, <3>1
      <4>2. PICK z \in Reduced : z = Total(f, (U \ {y}) \ {c})
        BY <1>0
      <4>3. (U \ {c}) \ {y} = (U \ {y}) \ {c}
        OBVIOUS
      <4>4. Total(f, U \ {c}) = Plus(f[y], z) /\ Total(f, U \ {y}) = Plus(f[c], z)
        BY <3>3, <4>1, <4>2, <4>3
      <4>5. f[c] \in Reduced /\ f[y] \in Reduced
        BY DEF Amounts
      <4>6. Plus(f[c], Plus(f[y], z)) = Plus(Plus(f[c], f[y]), z)
        BY <4>5, PlusLaws
      <4>7. Plus(f[y], Plus(f[c], z)) = Plus(Plus(f[y], f[c]), z)
        BY <4>5, PlusLaws
      <4>8. Plus(f[c], f[y]) = Plus(f[y], f[c])
        BY <4>5, PlusLaws
      <4>9. QED
        BY <3>1, <4>4, <4>6, <4>7, <4>8
    <3>4. QED
      BY <3>2, <3>3
  <2>2. QED
    BY <2>1
<1> HIDE DEF F
<1>2. SUBSET S \subseteq F
  BY <1>1, SubsetInduction DEF Amounts
<1>3. QED
  BY <1>2 DEF F

\* Totals of the same terms are the same.
LEMMA TotalLooksAt ==
  ASSUME NEW f, NEW g, NEW S, Amounts(f, S), \A x \in S : f[x] = g[x]
  PROVE  Total(f, S) = Total(g, S)
<1> DEFINE F == {U \in SUBSET S : Total(f, U) = Total(g, U)}
<1>0. Amounts(g, S)
  BY DEF Amounts
<1>1. ASSUME NEW U \in SUBSET S, \A V \in SUBSET U : V # U => V \in F
      PROVE  U \in F
  <2>1. CASE U = {}
    BY <1>0, <2>1, TotalSteps
  <2>2. CASE U # {}
    <3>1. Chosen(U) \in U /\ U \ {Chosen(U)} \in F /\ f[Chosen(U)] = g[Chosen(U)]
      BY <1>1, <2>2, ChosenIsMember
    <3>2. QED
      BY <1>0, <2>2, <3>1, TotalSteps
  <2>3. QED
    BY <2>1, <2>2
<1> HIDE DEF F
<1>2. SUBSET S \subseteq F
  BY <1>1, SubsetInduction DEF Amounts
<1>3. QED
  BY <1>2 DEF F

\* One term that grows by d.
LEMMA TotalMoves ==
  ASSUME NEW f, NEW g, NEW S, Amounts(f, S), NEW x \in S, NEW d \in Reduced,
         g[x] = Plus(f[x], d), \A y \in S \ {x} : g[y] = f[y]
  PROVE  Total(g, S) = Plus(Total(f, S), d)
<1> DEFINE T == S \ {x}
<1>1. Amounts(g, S) /\ Amounts(f, T)
  BY Closed, FS_RemoveElement DEF Amounts
<1>2. Total(f, S) = Plus(f[x], Total(f, T)) /\ Total(g, S) = Plus(g[x], Total(g, T))
  BY <1>1, TotalTakesOut
<1> HIDE DEF T
<1>3. Total(g, T) = Total(f, T)
  BY <1>1, TotalLooksAt DEF T
<1>4. PICK z \in Reduced, u \in Reduced : z = Total(f, T) /\ u = f[x]
  BY <1>1, TotalSteps DEF Amounts
<1>5. Plus(Plus(u, d), z) = Plus(Plus(u, z), d)
  <2>1. Plus(Plus(u, d), z) = Plus(u, Plus(d, z)) /\ Plus(Plus(u, z), d) = Plus(u, Plus(z, d))
    BY PlusLaws
  <2>2. Plus(d, z) = Plus(z, d)
    BY PlusLaws
  <2>3. QED
    BY <2>1, <2>2
<1>6. QED
  BY <1>2, <1>3, <1>4, <1>5

\* Four amounts in two pairs.
LEMMA FourTerms ==
  ASSUME NEW u \in Reduced, NEW v \in Reduced, NEW y \in Reduced, NEW z \in Reduced
  PROVE  Plus(Plus(u, v), Plus(y, z)) = Plus(Plus(u, y), Plus(v, z))
<1>1. PICK yz \in Reduced, vz \in Reduced : yz = Plus(y, z) /\ vz = Plus(v, z)
  BY Closed
<1>2. Plus(Plus(u, v), yz) = Plus(u, Plus(v, yz)) /\ Plus(Plus(u, y), vz) = Plus(u, Plus(y, vz))
  BY PlusLaws
<1>3. Plus(v, Plus(y, z)) = Plus(Plus(v, y), z) /\ Plus(y, Plus(v, z)) = Plus(Plus(y, v), z)
  BY PlusLaws
<1>4. Plus(v, y) = Plus(y, v)
  BY PlusLaws
<1>5. QED
  BY <1>1, <1>2, <1>3, <1>4

\* Term by term.
LEMMA TotalOfSums ==
  ASSUME NEW f, NEW g, NEW h, NEW S, Amounts(f, S), Amounts(g, S),
         \A x \in S : h[x] = Plus(f[x], g[x])
  PROVE  Total(h, S) = Plus(Total(f, S), Total(g, S))
<1> DEFINE F == {U \in SUBSET S : Total(h, U) = Plus(Total(f, U), Total(g, U))}
<1>0. Amounts(h, S) /\ \A U \in SUBSET S : Total(f, U) \in Reduced /\ Total(g, U) \in Reduced
  BY Closed, TotalSteps DEF Amounts
<1>1. ASSUME NEW U \in SUBSET S, \A V \in SUBSET U : V # U => V \in F
      PROVE  U \in F
  <2>1. CASE U = {}
    <3>1. Total(h, U) = Whole(0) /\ Total(f, U) = Whole(0) /\ Total(g, U) = Whole(0)
      BY <1>0, <2>1, TotalSteps
    <3>2. Plus(Whole(0), Whole(0)) = Whole(0)
      BY WholeIs, PlusLaws
    <3>3. QED
      BY <3>1, <3>2
  <2>2. CASE U # {}
    <3>1. PICK c \in U : c = Chosen(U) /\ U \ {c} \in F
      BY <1>1, <2>2, ChosenIsMember
    <3>2. PICK u \in Reduced, v \in Reduced, y \in Reduced, z \in Reduced :
            u = f[c] /\ v = g[c] /\ y = Total(f, U \ {c}) /\ z = Total(g, U \ {c})
      BY <1>0 DEF Amounts
    <3>3. Total(h, U) = Plus(Plus(u, v), Plus(y, z))
      BY <1>0, <2>2, <3>1, <3>2, TotalSteps
    <3>4. Total(f, U) = Plus(u, y) /\ Total(g, U) = Plus(v, z)
      BY <2>2, <3>1, <3>2, TotalSteps
    <3>5. Plus(Plus(u, v), Plus(y, z)) = Plus(Plus(u, y), Plus(v, z))
      BY FourTerms
    <3>6. QED
      BY <3>3, <3>4, <3>5
  <2>3. QED
    BY <2>1, <2>2
<1> HIDE DEF F
<1>2. SUBSET S \subseteq F
  BY <1>1, SubsetInduction DEF Amounts
<1>3. QED
  BY <1>2 DEF F

\* Terms of nothing may be left out.
LEMMA TotalSkips ==
  ASSUME NEW f, NEW S, Amounts(f, S), NEW T \in SUBSET S, \A x \in S \ T : f[x] = Whole(0)
  PROVE  Total(f, S) = Total(f, T)
<1> DEFINE F == {U \in SUBSET S : Total(f, U) = Total(f, U \cap T)}
<1>0. \A U \in SUBSET S : Total(f, U) \in Reduced
  BY TotalSteps
<1>1. ASSUME NEW U \in SUBSET S, \A V \in SUBSET U : V # U => V \in F
      PROVE  U \in F
  <2>1. CASE U \subseteq T
    <3>1. U \cap T = U
      BY <2>1
    <3>2. QED
      BY <3>1
  <2>2. CASE ~ (U \subseteq T)
    <3>1. PICK c \in U : c \notin T /\ U \ {c} \in F
      BY <1>1, <2>2
    <3>2. Total(f, U) = Plus(Whole(0), Total(f, U \ {c}))
      <4>1. Amounts(f, U) /\ f[c] = Whole(0)
        BY <3>1, FS_Subset DEF Amounts
      <4>2. QED
        BY <4>1, TotalTakesOut
    <3>3. (U \ {c}) \cap T = U \cap T
      BY <3>1
    <3>4. Plus(Whole(0), Total(f, U \ {c})) = Total(f, U \ {c})
      BY <1>0, WholeIs, PlusLaws
    <3>5. QED
      BY <3>1, <3>2, <3>3, <3>4
  <2>3. QED
    BY <2>1, <2>2
<1> HIDE DEF F
<1>2. S \in F
  BY <1>1, SubsetInduction DEF Amounts
<1>3. S \cap T = T
  OBVIOUS
<1>4. QED
  BY <1>2, <1>3 DEF F

-----------------------------------------------------------------------------
(* The books of an account *)

\* What the symbols of orders and nothing else have earned of a set of positions.
Basis(pos)  == [s \in Symbols |-> Earned(pos[s])]
Touched     == {Symbol(o) : o \in Ids}

\* The books of an account: cash is what its positions have brought in.
BooksOK(cash, pos) ==
  /\ cash \in Int /\ pos \in [Symbols -> [qty: Int, avgEntry: Reduced, realized: Reduced]]
  /\ \A s \in Symbols \ Touched : pos[s] = Flat
  /\ Total(Basis(pos), Touched) = Whole(cash - StartingCash)

\* What a position has earned is an amount.
LEMMA EarnedType ==
  ASSUME NEW p \in [qty: Int, avgEntry: Reduced, realized: Reduced]
  PROVE  Earned(p) \in Reduced
  BY Closed DEF Earned

\* No position earns nothing.
LEMMA FlatEarns == Earned(Flat) = Whole(0) /\ Flat \in [qty: Int, avgEntry: Reduced, realized: Reduced]
<1>1. Whole(0) \in Reduced
  BY WholeIs
<1>2. Flat \in [qty: Int, avgEntry: Reduced, realized: Reduced] /\ Flat.qty = 0
      /\ Flat.avgEntry = Whole(0) /\ Flat.realized = Whole(0)
  BY <1>1 DEF Flat
<1>3. Whole(0) = Ratio(0, 1) /\ Times(Ratio(0, 1), 0) = Ratio(0 * 0, 1) /\ 0 * 0 = 0
  BY WholeIs, TimesRatio
<1>4. Minus(Ratio(0, 1), Ratio(0, 1)) = Ratio(0 - 0, 1) /\ 0 - 0 = 0
  BY SameDenominator
<1>5. QED
  BY <1>2, <1>3, <1>4 DEF Earned

\* Orders touch finitely many symbols.
LEMMA TouchedFinite == AccountsAssumption => IsFiniteSet(Touched) /\ Touched \subseteq Symbols
<1> SUFFICES ASSUME AccountsAssumption
             PROVE  IsFiniteSet(Touched) /\ Touched \subseteq Symbols
  OBVIOUS
<1> DEFINE f == [o \in Ids |-> Symbol(o)]
<1>1. f \in [Ids -> Symbols] /\ IsFiniteSet(Ids)
  BY TermsOK DEF AccountsAssumption
<1>2. Touched \subseteq Symbols /\ f \in Surjection(Ids, Touched)
  BY <1>1 DEF Touched, Surjection
<1> HIDE DEF f
<1>3. IsFiniteSet(Touched)
  BY <1>1, <1>2, FS_Surjection
<1>4. QED
  BY <1>1, <1>2, <1>3

\* A new account has earned nothing.
LEMMA FreshBooks == AccountsAssumption => BooksOK(Fresh.cash, Fresh.positions)
<1> SUFFICES ASSUME AccountsAssumption
             PROVE  BooksOK(Fresh.cash, Fresh.positions)
  OBVIOUS
<1>1. Fresh.cash = StartingCash /\ Fresh.positions = [s \in Symbols |-> Flat]
  BY DEF Fresh
<1> DEFINE pos == [s \in Symbols |-> Flat]
           f == Basis(pos)
<1>2. \A s \in Symbols : f[s] = Whole(0)
  BY FlatEarns DEF Basis
<1> HIDE DEF f
<1>3. IsFiniteSet(Touched) /\ Touched \subseteq Symbols /\ Whole(0) \in Reduced
  BY TouchedFinite, WholeIs
<1>4. Amounts(f, Touched)
  BY <1>2, <1>3 DEF Amounts
<1>5. Total(f, Touched) = Total(f, {})
  BY <1>2, <1>3, <1>4, TotalSkips
<1>6. Total(f, {}) = Whole(0)
  BY <1>4, TotalSteps
<1>7. StartingCash \in Int /\ StartingCash - StartingCash = 0
  BY DEF AccountsAssumption
<1>8. QED
  BY <1>1, <1>5, <1>6, <1>7, FlatEarns DEF BooksOK, f

\* Whole numbers add as ratios do.
LEMMA WholesAdd == ASSUME NEW x \in Int, NEW y \in Int PROVE Plus(Whole(x), Whole(y)) = Whole(x + y)
<1>1. Whole(x) = Ratio(x, 1) /\ Whole(y) = Ratio(y, 1) /\ Whole(x + y) = Ratio(x + y, 1)
  BY WholeIs
<1>2. QED
  BY <1>1, SameDenominator

\* A fill keeps the books.
LEMMA FillBooks ==
  ASSUME AccountsAssumption, NEW cash, NEW pos, BooksOK(cash, pos),
         NEW s \in Touched, NEW q \in Int \ {0}, NEW price \in Int
  PROVE  BooksOK(cash - price * q, [pos EXCEPT ![s] = applyToPosition(@, q, price)])
<1> DEFINE P    == [qty: Int, avgEntry: Reduced, realized: Reduced]
           new  == applyToPosition(pos[s], q, price)
           next == [pos EXCEPT ![s] = new]
<1>1. s \in Symbols /\ IsFiniteSet(Touched) /\ Touched \subseteq Symbols
  BY TouchedFinite
<1>2. cash \in Int /\ StartingCash \in Int /\ pos \in [Symbols -> P]
  BY DEF BooksOK, AccountsAssumption
<1>3. PICK w \in Int : w = - (price * q)
  OBVIOUS
<1>4. new \in P /\ Earned(new) = Plus(Earned(pos[s]), Whole(w))
  <2>1. pos[s] \in P
    BY <1>1, <1>2
  <2>2. QED
    BY <1>3, <2>1, FillEarns
<1>5. Whole(w) \in Reduced
  BY WholeIs
<1> HIDE DEF new, P
<1>6. next \in [Symbols -> P] /\ next[s] = new /\ \A u \in Symbols \ {s} : next[u] = pos[u]
  BY <1>1, <1>2, <1>4
<1> HIDE DEF next
<1>7. /\ Basis(next)[s] = Plus(Basis(pos)[s], Whole(w))
      /\ \A u \in Touched \ {s} : Basis(next)[u] = Basis(pos)[u]
  BY <1>1, <1>4, <1>6 DEF Basis
<1>8. Amounts(Basis(pos), Touched)
  BY <1>1, <1>2, EarnedType DEF Amounts, Basis, P
<1>9. Total(Basis(next), Touched) = Plus(Total(Basis(pos), Touched), Whole(w))
  BY <1>5, <1>7, <1>8, TotalMoves
<1>10. Total(Basis(pos), Touched) = Whole(cash - StartingCash)
  BY DEF BooksOK
<1>11. Plus(Whole(cash - StartingCash), Whole(w)) = Whole(cash - price * q - StartingCash)
  <2>1. cash - StartingCash \in Int /\ (cash - StartingCash) + w = cash - price * q - StartingCash
    BY <1>2, <1>3
  <2>2. QED
    BY <2>1, WholesAdd
<1>12. \A u \in Symbols \ Touched : next[u] = Flat
  BY <1>6 DEF BooksOK
<1>13. cash - price * q \in Int
  BY <1>2
<1>14. BooksOK(cash - price * q, next)
  BY <1>6, <1>9, <1>10, <1>11, <1>12, <1>13 DEF BooksOK, P
<1>15. QED
  BY <1>14 DEF next, new

\* An account with its books in order has gained what it realised and would realise.
LEMMA BooksAddUp ==
  ASSUME AccountsAssumption, NEW t, NEW marks \in [Symbols -> Int],
         BooksOK(accounts[t].cash, accounts[t].positions)
  PROVE  LET snap == Snapshot(t, marks)
         IN  snap.totalPnL = Plus(snap.realizedPnL, snap.unrealizedPnL)
<1> DEFINE cash == accounts[t].cash
           pos  == accounts[t].positions
           mark == [s \in Symbols |-> IF marks[s] > 0 THEN Whole(marks[s]) ELSE pos[s].avgEntry]
           realized   == [s \in Symbols |-> pos[s].realized]
           unrealized == [s \in Symbols |-> Times(Minus(mark[s], pos[s].avgEntry), pos[s].qty)]
           value      == [s \in Symbols |-> Times(mark[s], pos[s].qty)]
           held   == {s \in Symbols : pos[s] # Flat}
           equity == Plus(Whole(cash), Total(value, held))
<1>1. /\ Snapshot(t, marks).realizedPnL = Total(realized, held)
      /\ Snapshot(t, marks).unrealizedPnL = Total(unrealized, held)
      /\ Snapshot(t, marks).totalPnL = Minus(equity, Whole(StartingCash))
  BY DEF Snapshot
<1>2. cash \in Int /\ StartingCash \in Int /\ pos \in [Symbols -> [qty: Int, avgEntry: Reduced, realized: Reduced]]
  BY DEF BooksOK, AccountsAssumption
<1>3. held \in SUBSET Touched /\ IsFiniteSet(held) /\ held \subseteq Symbols /\ \A s \in Touched \ held : pos[s] = Flat
  <2>1. held \in SUBSET Touched
    BY DEF BooksOK
  <2>2. IsFiniteSet(held) /\ held \subseteq Symbols
    BY <2>1, TouchedFinite, FS_Subset
  <2>3. QED
    BY <2>1, <2>2, TouchedFinite
<1>4. Total(Basis(pos), held) = Whole(cash - StartingCash)
  <2>1. Amounts(Basis(pos), Touched)
    BY <1>2, TouchedFinite, EarnedType DEF Amounts, Basis
  <2>2. \A s \in Touched \ held : Basis(pos)[s] = Whole(0)
    BY <1>3, FlatEarns, TouchedFinite DEF Basis
  <2>3. Total(Basis(pos), Touched) = Whole(cash - StartingCash)
    BY DEF BooksOK
  <2> HIDE DEF held, pos
  <2>4. QED
    BY <1>3, <2>1, <2>2, <2>3, TotalSkips
<1>5. ASSUME NEW s \in Symbols
      PROVE  /\ Basis(pos)[s] \in Reduced /\ value[s] \in Reduced
             /\ realized[s] \in Reduced /\ unrealized[s] \in Reduced
             /\ Plus(Basis(pos)[s], value[s]) = Plus(realized[s], unrealized[s])
  <2> DEFINE p == pos[s]
  <2>1. p.qty \in Int /\ p.avgEntry \in Reduced /\ p.realized \in Reduced /\ mark[s] \in Reduced
    BY <1>2, WholeIs
  <2>2. /\ Basis(pos)[s] = Minus(p.realized, Times(p.avgEntry, p.qty))
        /\ value[s] = Times(mark[s], p.qty) /\ realized[s] = p.realized
        /\ unrealized[s] = Times(Minus(mark[s], p.avgEntry), p.qty)
    BY DEF Basis, Earned
  <2> HIDE DEF p, pos, mark, value, realized, unrealized
  <2>3. PICK d \in Nat \ {0}, x \in Int, y \in Int, z \in Int :
          p.avgEntry = Ratio(x, d) /\ p.realized = Ratio(y, d) /\ mark[s] = Ratio(z, d)
    <3>1. PICK d : AllOver(d, p.avgEntry, p.realized, mark[s])
      BY <2>1, CommonDenominator
    <3>2. QED
      BY <3>1 DEF AllOver
  <2>4. PICK n \in Int : n = p.qty
    BY <2>1
  <2>5. PICK xn \in Int, zn \in Int, un \in Int : xn = x * n /\ zn = z * n /\ un = (z - x) * n
    OBVIOUS
  <2>6. Times(p.avgEntry, p.qty) = Ratio(xn, d) /\ value[s] = Ratio(zn, d)
    <3>1. Times(Ratio(x, d), n) = Ratio(x * n, d) /\ Times(Ratio(z, d), n) = Ratio(z * n, d)
      BY TimesRatio
    <3>2. QED
      BY <2>2, <2>3, <2>4, <2>5, <3>1
  <2>7. Basis(pos)[s] = Ratio(y - xn, d)
    BY <2>2, <2>3, <2>6, SameDenominator
  <2>8. unrealized[s] = Ratio(un, d)
    <3>1. Minus(mark[s], p.avgEntry) = Ratio(z - x, d) /\ z - x \in Int
      BY <2>3, SameDenominator
    <3>2. Times(Ratio(z - x, d), n) = Ratio(un, d)
      BY <2>5, <3>1, TimesRatio
    <3>3. QED
      BY <2>2, <2>4, <3>1, <3>2
  <2>9. Plus(Ratio(y - xn, d), Ratio(zn, d)) = Ratio(y - xn + zn, d)
        /\ Plus(Ratio(y, d), Ratio(un, d)) = Ratio(y + un, d) /\ y - xn \in Int
    BY SameDenominator
  <2>10. y - xn + zn = y + un
    BY <2>5
  <2>11. QED
    BY <2>2, <2>3, <2>6, <2>7, <2>8, <2>9, <2>10, RatioIsReduced
<1> DEFINE both == [s \in Symbols |-> Plus(Basis(pos)[s], value[s])]
<1>6. /\ Amounts(Basis(pos), held) /\ Amounts(value, held)
      /\ Amounts(realized, held) /\ Amounts(unrealized, held)
      /\ \A s \in held : both[s] = Plus(Basis(pos)[s], value[s]) /\ both[s] = Plus(realized[s], unrealized[s])
  <2>1. \A s \in Symbols : both[s] = Plus(Basis(pos)[s], value[s])
    OBVIOUS
  <2> HIDE DEF pos, held, mark, value, realized, unrealized, both
  <2>2. QED
    BY <1>3, <1>5, <2>1 DEF Amounts
<1> HIDE DEF pos, held, mark, value, realized, unrealized, both, cash
<1>7. Total(both, held) = Plus(Whole(cash - StartingCash), Total(value, held))
  BY <1>4, <1>6, TotalOfSums
<1>8. Total(both, held) = Plus(Total(realized, held), Total(unrealized, held))
  BY <1>6, TotalOfSums
<1>9. Minus(equity, Whole(StartingCash)) = Plus(Whole(cash - StartingCash), Total(value, held))
  <2>1. PICK v \in Reduced, c \in Reduced, m \in Reduced :
          v = Total(value, held) /\ c = Whole(cash) /\ m = Whole(- StartingCash)
    <3>1. Total(value, held) \in Reduced
      BY <1>6, TotalSteps
    <3>2. Whole(cash) \in Reduced
      BY <1>2, WholeIs
    <3>3. - StartingCash \in Int
      BY <1>2
    <3>4. Whole(- StartingCash) \in Reduced
      BY <3>3, WholeIs
    <3>5. QED
      BY <3>1, <3>2, <3>4
  <2>2. Minus(equity, Whole(StartingCash)) = Plus(Plus(c, v), m)
    <3>1. Whole(StartingCash) = Ratio(StartingCash, 1)
      BY <1>2, WholeIs
    <3>2. Times(Ratio(StartingCash, 1), -1) = Ratio(StartingCash * (-1), 1)
      BY <1>2, TimesRatio
    <3>3. StartingCash * (-1) = - StartingCash /\ - StartingCash \in Int
      BY <1>2
    <3>4. Whole(- StartingCash) = Ratio(- StartingCash, 1)
      BY <3>3, WholeIs
    <3>5. QED
      BY <2>1, <3>1, <3>2, <3>3, <3>4 DEF Minus, equity
  <2>3. Plus(Plus(c, v), m) = Plus(Plus(c, m), v)
    <3>1. Plus(Plus(c, v), m) = Plus(c, Plus(v, m)) /\ Plus(Plus(c, m), v) = Plus(c, Plus(m, v))
      BY PlusLaws
    <3>2. Plus(v, m) = Plus(m, v)
      BY PlusLaws
    <3>3. QED
      BY <3>1, <3>2
  <2>4. Plus(c, m) = Whole(cash - StartingCash)
    <3>1. - StartingCash \in Int /\ cash + (- StartingCash) = cash - StartingCash
      BY <1>2
    <3>2. QED
      BY <1>2, <2>1, <3>1, WholesAdd
  <2>5. QED
    BY <2>1, <2>2, <2>3, <2>4
<1>10. QED
  BY <1>1, <1>7, <1>8, <1>9

-----------------------------------------------------------------------------
(* Types, and books in order *)

\* A registry with every field of its type, within the cap on accounts.
Typed(a) ==
  /\ RegistryOK(a) /\ IsFiniteSet(DOMAIN a) /\ Cardinality(DOMAIN a) <= MaxAccounts
  /\ \A t \in DOMAIN a :
       BooksOK(a[t].cash, a[t].positions) /\ a[t].open \in SUBSET Ids

\* Opening an account, or refusing to, keeps the registry typed and within its cap.
LEMMA EnsureTyped ==
  ASSUME AccountsAssumption, NEW a, Typed(a), NEW t \in Traders \cup {Nobody}
  PROVE  Typed(ensure(a, t))
<1>0. RegistryOK(a) /\ RegistryOK(ensure(a, t))
  BY EnsureGrows DEF Typed, Grown
<1>1. CASE t = Nobody \/ t \in DOMAIN a \/ Full(a)
  <2>1. ensure(a, t) = a
    BY <1>1 DEF ensure, Full
  <2>2. QED
    BY <2>1
<1>2. CASE ~ (t = Nobody \/ t \in DOMAIN a \/ Full(a))
  <2> DEFINE b == Opened(a, t)
  <2>1. ensure(a, t) = b
    BY <1>2 DEF ensure, Full
  <2>2. DOMAIN b = DOMAIN a \cup {t} /\ \A u \in DOMAIN b : b[u] = IF u = t THEN Fresh ELSE a[u]
    BY DEF Opened
  <2> HIDE DEF b
  <2>3. IsFiniteSet(DOMAIN b) /\ Cardinality(DOMAIN b) = Cardinality(DOMAIN a) + 1
    BY <1>2, <2>2, FS_AddElement DEF Typed
  <2>4. Cardinality(DOMAIN a) < MaxAccounts /\ Cardinality(DOMAIN a) \in Nat /\ MaxAccounts \in Nat
    BY <1>2, FS_CardinalityType DEF Full, Typed, AccountsAssumption
  <2>5. BooksOK(Fresh.cash, Fresh.positions) /\ Fresh.open \in SUBSET Ids
    BY FreshBooks DEF Fresh
  <2>6. QED
    BY <1>0, <2>1, <2>2, <2>3, <2>4, <2>5 DEF Typed
<1>3. QED
  BY <1>1, <1>2

\* An account of a typed registry may be rewritten.
LEMMA RewrittenTyped ==
  ASSUME NEW a, Typed(a), NEW t \in DOMAIN a, NEW acct, AccountOK(acct),
         BooksOK(acct.cash, acct.positions), acct.open \in SUBSET Ids
  PROVE  Typed([a EXCEPT ![t] = acct])
  BY Rewritten DEF Typed

\* So does booking half of a fill, to an account that is open or to none.
LEMMA ApplyFillTyped ==
  ASSUME AccountsAssumption, NEW a, Typed(a), NEW t \in Traders \cup {Nobody},
         NEW s \in Touched, NEW q \in Int \ {0}, NEW price \in Int
  PROVE  Typed(applyFill(a, t, s, q, price))
<1> DEFINE b == ensure(a, t)
<1>1. Typed(b)
  BY EnsureTyped
<1>2. CASE t \notin DOMAIN b
  <2>1. applyFill(a, t, s, q, price) = b
    BY <1>2 DEF applyFill
  <2>2. QED
    BY <1>1, <2>1
<1>3. CASE t \in DOMAIN b
  <2> DEFINE cash == b[t].cash - price * q
             held == [b[t].positions EXCEPT ![s] = applyToPosition(@, q, price)]
             acct == [cash |-> cash, positions |-> held,
                      open |-> b[t].open, history |-> b[t].history]
  <2>1. applyFill(a, t, s, q, price)
          = [b EXCEPT ![t].cash = @ - price * q,
                      ![t].positions[s] = applyToPosition(@, q, price)]
    BY <1>3 DEF applyFill
  <2>2. /\ RegistryOK(b) /\ AccountOK(b[t])
        /\ BooksOK(b[t].cash, b[t].positions)
        /\ b[t].open \in SUBSET Ids
    BY <1>1, <1>3 DEF Typed, RegistryOK
  <2>3. applyFill(a, t, s, q, price) = [b EXCEPT ![t] = acct]
    <3> HIDE DEF b
    <3> DEFINE x == b[t]
    <3>1. x = [cash |-> x.cash, positions |-> x.positions, open |-> x.open, history |-> x.history]
      BY <2>2 DEF AccountOK
    <3>2. [[x EXCEPT !.cash = cash] EXCEPT !.positions = held] = acct
      <4> HIDE DEF cash, held, x
      <4>1. [x EXCEPT !.cash = cash]
              = [cash |-> cash, positions |-> x.positions, open |-> x.open, history |-> x.history]
        BY <3>1
      <4>2. acct = [cash |-> cash, positions |-> held, open |-> x.open, history |-> x.history]
        BY DEF x
      <4> HIDE DEF acct
      <4>3. [[cash |-> cash, positions |-> x.positions, open |-> x.open, history |-> x.history]
               EXCEPT !.positions = held] = acct
        BY <4>2
      <4>4. QED
        BY <4>1, <4>3
    <3>3. applyFill(a, t, s, q, price) = [b EXCEPT ![t] = [[x EXCEPT !.cash = cash] EXCEPT !.positions = held]]
      BY <1>3, <2>1, <2>2, <3>1 DEF RegistryOK
    <3> HIDE DEF x, cash, held, acct
    <3>4. QED
      BY <3>2, <3>3
  <2>4. BooksOK(cash, held)
    <3> HIDE DEF b
    <3>1. QED
      BY <2>2, FillBooks
  <2>6. /\ acct.cash = cash /\ acct.positions = held /\ acct.open = b[t].open
        /\ acct.history = b[t].history
        /\ acct = [cash |-> acct.cash, positions |-> acct.positions,
                   open |-> acct.open, history |-> acct.history]
    OBVIOUS
  <2> HIDE DEF b, cash, held, acct
  <2>7. AccountOK(acct)
    BY <2>2, <2>6 DEF AccountOK
  <2>8. Typed([b EXCEPT ![t] = acct])
    BY <1>1, <1>3, <2>2, <2>4, <2>6, <2>7, RewrittenTyped
  <2>9. QED
    BY <2>3, <2>8
<1>4. QED
  BY <1>2, <1>3

\* So does a report of an order, whichever list of the account it is moved to.
LEMMA ReportTyped ==
  ASSUME AccountsAssumption, NEW a, Typed(a), NEW o \in Ids, NEW st \in Statuses
  PROVE  Typed(OnOrderState(a, o, st))
<1> DEFINE t == Terms[o].trader
           b == ensure(a, t)
<1>0. t \in Traders \cup {Nobody}
  BY DEF AccountsAssumption
<1>1. Typed(b)
  BY <1>0, EnsureTyped
<1>2. CASE t \notin DOMAIN b
  <2>1. OnOrderState(a, o, st) = b
    BY <1>2 DEF OnOrderState
  <2>2. QED
    BY <1>1, <2>1
<1>3. CASE t \in DOMAIN b
  <2>1. /\ RegistryOK(b) /\ AccountOK(b[t])
        /\ BooksOK(b[t].cash, b[t].positions)
        /\ b[t].open \in SUBSET Ids
    BY <1>1, <1>3 DEF Typed, RegistryOK
  <2>2. CASE ~ isTerminal(st)
    <3> DEFINE x == [b[t] EXCEPT !.open = @ \cup {o}]
    <3>1. OnOrderState(a, o, st) = [b EXCEPT ![t] = x]
      BY <1>3, <2>1, <2>2 DEF OnOrderState, RegistryOK
    <3> HIDE DEF b
    <3>2. x = [cash |-> b[t].cash, positions |-> b[t].positions,
               open |-> b[t].open \cup {o}, history |-> b[t].history]
      <4> DEFINE y == b[t]
      <4>1. y = [cash |-> y.cash, positions |-> y.positions, open |-> y.open, history |-> y.history]
        BY <2>1 DEF AccountOK
      <4>2. x = [y EXCEPT !.open = y.open \cup {o}]
        BY <4>1
      <4> HIDE DEF x, y
      <4>3. QED
        BY <4>1, <4>2 DEF y
    <3>3. /\ AccountOK(x) /\ BooksOK(x.cash, x.positions)
          /\ x.open \in SUBSET Ids
      BY <2>1, <3>2 DEF AccountOK
    <3> HIDE DEF x
    <3>4. Typed([b EXCEPT ![t] = x])
      BY <1>1, <1>3, <3>3, RewrittenTyped
    <3>5. QED
      BY <3>1, <3>4
  <2>3. CASE isTerminal(st)
    <3> DEFINE h == Finished(b[t].history, o, st)
               x == [b[t] EXCEPT !.open = @ \ {o}, !.history = h]
    <3>1. OnOrderState(a, o, st) = [b EXCEPT ![t] = x]
      BY <1>3, <2>1, <2>3 DEF OnOrderState, RegistryOK
    <3>2. h \in Seq(Entries) /\ Len(h) <= MaxHistory
      <4> HIDE DEF b, t
      <4>1. b[t].history \in Seq(Entries) /\ Len(b[t].history) <= MaxHistory
        BY <2>1 DEF AccountOK
      <4>2. QED
        BY <4>1, FinishedKeeps
    <3> HIDE DEF b, h
    <3>3. x = [cash |-> b[t].cash, positions |-> b[t].positions,
               open |-> b[t].open \ {o}, history |-> h]
      <4> DEFINE y == b[t]
      <4>1. y = [cash |-> y.cash, positions |-> y.positions, open |-> y.open, history |-> y.history]
        BY <2>1 DEF AccountOK
      <4>2. x = [y EXCEPT !.open = y.open \ {o}, !.history = h]
        BY <4>1
      <4> HIDE DEF x, y
      <4>3. QED
        BY <4>1, <4>2 DEF y
    <3>4. /\ AccountOK(x) /\ BooksOK(x.cash, x.positions)
          /\ x.open \in SUBSET Ids
      BY <2>1, <3>2, <3>3 DEF AccountOK
    <3> HIDE DEF x
    <3>5. Typed([b EXCEPT ![t] = x])
      BY <1>1, <1>3, <3>4, RewrittenTyped
    <3>6. QED
      BY <3>1, <3>5
  <2>4. QED
    BY <2>2, <2>3
<1>4. QED
  BY <1>2, <1>3

\* So do both halves of a fill.
LEMMA OnFillTyped ==
  ASSUME AccountsAssumption, NEW a, Typed(a), NEW c, c.buy \in Ids, c.sell \in Ids,
         c.qty \in Int \ {0}, c.price \in Int
  PROVE  Typed(OnFill(a, c))
<1> DEFINE s    == Terms[c.buy].symbol
           t(o) == Terms[o].trader
           b    == applyFill(a, t(c.buy), s, c.qty, c.price)
           d    == applyFill(b, t(c.sell), s, - c.qty, c.price)
<1>1. t(c.buy) \in Traders \cup {Nobody} /\ t(c.sell) \in Traders \cup {Nobody} /\ s \in Touched
  BY DEF AccountsAssumption, Touched, Symbol
<1>2. OnFill(a, c) = d
  BY DEF OnFill
<1>3. - c.qty \in Int \ {0}
  OBVIOUS
<1> HIDE DEF t, s
<1>4. Typed(b)
  BY <1>1, ApplyFillTyped
<1> HIDE DEF b
<1>5. Typed(d)
  BY <1>1, <1>3, <1>4, ApplyFillTyped
<1>6. QED
  BY <1>2, <1>5

TypedInv == LedgerInv /\ Typed(accounts)

\* Whoever calls the registry leaves it typed.
LEMMA TypedStep ==
  ASSUME AccountsAssumption, LedgerInv, Typed(accounts), [Next]_vars
  PROVE  Typed(accounts')
<1>0. Inv /\ VenueOK
  BY DEF LedgerInv, Inv
<1>1. CASE UNCHANGED accounts
  BY <1>1
<1>2. ASSUME NEW o \in Ids, CancelTell(o)
      PROVE  Typed(accounts')
  <2>1. accounts' = OnOrderState(accounts, o, status[o]) /\ status[o] \in Statuses
    BY <1>0, <1>2, OrderFacts DEF CancelTell
  <2>2. QED
    BY <2>1, ReportTyped
<1>3. ASSUME NEW s \in Symbols, Observe(s)
      PROVE  Typed(accounts')
  <2>1. ~ Idle(s) /\ calls' = [calls EXCEPT ![s] = Tail(@)]
    BY <1>3 DEF Observe
  <2>2. 1 \in DOMAIN calls[s] /\ Head(calls[s]) = calls[s][1] /\ calls[s][1] \in Call
    BY <1>0, <2>1, NextCall
  <2>3. PICK c \in Call : c = calls[s][1] /\ c = Head(calls[s])
    BY <2>2
  <2>4. CASE c.kind = "state"
    <3>1. c.id \in Ids /\ c.status \in Statuses
      BY <2>4 DEF Call
    <3>2. PICK st \in {c.status, status[c.id]} : accounts' = OnOrderState(accounts, c.id, st)
      BY <1>3, <2>3, <2>4 DEF Observe
    <3>3. st \in Statuses
      BY <1>0, <3>1, <3>2, OrderFacts
    <3>4. QED
      BY <3>1, <3>2, <3>3, ReportTyped
  <2>5. CASE c.kind = "fill"
    <3>1. accounts' = OnFill(accounts, c)
      BY <1>3, <2>3, <2>5 DEF Observe
    <3>2. c.buy \in Ids /\ c.sell \in Ids /\ c.qty \in Int /\ c.price \in Int
      BY <2>5 DEF Call, AccountsAssumption
    <3>3. c.qty > 0
      BY <2>2, <2>3, <2>5 DEF LedgerInv, Fills, FillCall
    <3>4. c.qty \in Int \ {0}
      BY <3>2, <3>3
    <3>5. QED
      BY <3>1, <3>2, <3>4, OnFillTyped
  <2>6. QED
    BY <2>3, <2>4, <2>5 DEF Call
<1>4. ASSUME NEW o \in Ids,
             \/ Dequeue(o) \/ Reject(o) \/ Park(o) \/ MarkParked(o) \/ Trigger(o) \/ Pop(o) \/ Done(o)
             \/ Rest(o) \/ CancelRemainder(o) \/ CancelInBook(o) \/ CancelPendingStop(o)
      PROVE  UNCHANGED accounts
  BY <1>4 DEF Dequeue, Reject, Park, MarkParked, Trigger, Pop, Done, Rest, CancelRemainder, CancelInBook,
     CancelPendingStop
<1>5. ASSUME NEW maker \in Ids, NEW taker \in Ids, Trade(maker, taker)
      PROVE  UNCHANGED accounts
  BY <1>5 DEF Trade
<1>6. QED
  BY <1>1, <1>2, <1>3, <1>4, <1>5 DEF Next, vars

\* Every account is typed, and its books are in order, between any two calls.
THEOREM TypedHolds == Spec => []TypedInv
<1>1. AccountsAssumption /\ Init => TypedInv
  <2>1. SUFFICES ASSUME AccountsAssumption, Init
                 PROVE  TypedInv
    OBVIOUS
  <2>2. LedgerInv /\ DOMAIN accounts = {}
    BY <2>1, InitLedger DEF Init
  <2>3. IsFiniteSet({}) /\ Cardinality({}) = 0 /\ 0 <= MaxAccounts
    BY <2>1, FS_EmptySet DEF AccountsAssumption
  <2>4. QED
    BY <2>2, <2>3 DEF TypedInv, Typed, LedgerInv, Inv
<1>2. AccountsAssumption /\ TypedInv /\ Parked /\ [Next]_vars => TypedInv'
  BY LedgerPreserved, TypedStep DEF TypedInv
<1>3. QED
  BY <1>1, <1>2, Invariance, AccountsAssumption, PTL DEF Spec

\* Every field of every account has the type the code gives it: entries and profits
\* are numbers, never a division by nothing, in positions that add, close and flip;
\* and the caps on accounts and on history hold.
THEOREM TypeCorrect == Spec => []TypeOK
<1>1. ASSUME TypedInv, Parked
      PROVE  TypeOK
  <2>1. /\ RegistryOK(accounts) /\ Cardinality(DOMAIN accounts) <= MaxAccounts
        /\ VenueOK /\ telling \subseteq Ids /\ marking \subseteq Ids
    BY <1>1 DEF TypedInv, Typed, LedgerInv, Inv, Parked
  <2>2. ASSUME NEW t \in DOMAIN accounts
        PROVE  accounts[t] \in Account /\ Len(accounts[t].history) <= MaxHistory
    <3> DEFINE x == accounts[t]
    <3>1. BooksOK(x.cash, x.positions) /\ x.open \in SUBSET Ids /\ AccountOK(x)
      BY <1>1, <2>1 DEF TypedInv, Typed, RegistryOK
    <3> HIDE DEF x
    <3> DEFINE P == [qty: Int, avgEntry: Money, realized: Money]
    <3>2. x.positions \in [Symbols -> P]
      <4>1. [qty: Int, avgEntry: Reduced, realized: Reduced] \subseteq P
        BY DEF Reduced
      <4> HIDE DEF P
      <4>2. QED
        BY <3>1, <4>1 DEF BooksOK
    <3> HIDE DEF P
    <3>3. x \in [cash: Int, positions: [Symbols -> P], open: SUBSET Ids, history: Seq(Entries)]
      BY <3>1, <3>2 DEF AccountOK, BooksOK
    <3>4. QED
      BY <3>1, <3>3 DEF AccountOK, Account, P, Entries, x
  <2>3. accounts \in [DOMAIN accounts -> Account]
    BY <2>1, <2>2 DEF RegistryOK
  <2>4. QED
    BY <2>1, <2>2, <2>3 DEF TypeOK, RegistryOK, VenueOK, Places
<1>2. QED
  BY <1>1, TypedHolds, Invariance, PTL

\* At any moment and at any mark, or none, what an account has gained is what it
\* has realised and what it would realise: its cash is what its positions have
\* brought in, through adding, reducing, closing and flipping.
THEOREM ProfitAddsUp == Spec => []PnLAddsUp
<1>1. ASSUME TypedInv, NEW t \in DOMAIN accounts, NEW mark \in {0} \cup Prices
      PROVE  LET snap == Snapshot(t, [s \in Symbols |-> mark])
             IN  snap.totalPnL = Plus(snap.realizedPnL, snap.unrealizedPnL)
  <2>1. BooksOK(accounts[t].cash, accounts[t].positions)
    BY <1>1 DEF TypedInv, Typed
  <2>2. [s \in Symbols |-> mark] \in [Symbols -> Int]
    BY AccountsAssumption DEF AccountsAssumption
  <2>3. QED
    BY <2>1, <2>2, AccountsAssumption, BooksAddUp
<1>2. TypedInv => PnLAddsUp
  BY <1>1 DEF PnLAddsUp
<1>3. QED
  BY <1>2, TypedHolds, PTL

=============================================================================
