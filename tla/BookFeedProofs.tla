--------------------------- MODULE BookFeedProofs ---------------------------
(***************************************************************************)
(* Proofs about a book and what is drawn of it, for any orders, any number *)
(* of incoming ones and of cuts, and any limits of stream and ladder.      *)
(***************************************************************************)
EXTENDS BookFeed, Sums

-----------------------------------------------------------------------------
(* The types *)

\* The type invariant with what it needs to be inductive.
Inv ==
  /\ TypeOK
  /\ left \in [Orders -> Nat]
  /\ \A o \in Orders : stage[o] \in {"new", "resting"} => left[o] > 0
  /\ busy => matched < MaxIncoming

LEMMA Bounds ==
  /\ MaxIncoming \in Nat /\ MaxIncoming > 0 /\ MaxCuts \in Nat
  /\ MaxLevels \in Nat /\ MaxLevels > 0
  BY BookFeedAssumption

\* What a snapshot collects is an order once, with what is left of it.
LEMMA SnapshotType == Inv => Snapshot \in Contents
<1>1. SUFFICES ASSUME Inv
               PROVE  Snapshot \in Contents
  OBVIOUS
<1>2. ASSUME NEW o \in Orders, stage[o] = "resting"
      PROVE  <<o, left[o], stamp[o]>> \in Orders \X (Nat \ {0}) \X (0..Cardinality(Orders))
  <2>1. left[o] \in Nat \ {0} /\ stamp[o] \in 0..Cardinality(Orders)
    BY <1>1, <1>2 DEF Inv, TypeOK
  <2>2. QED
    BY <2>1
<1>3. QED
  BY <1>2 DEF Snapshot, Contents

LEMMA InitType == Init => Inv
<1>1. SUFFICES ASSUME Init
               PROVE  Inv
  OBVIOUS
<1>2. Size \in [Orders -> Nat \ {0}] /\ Cardinality(Orders) \in Nat
  BY BookFeedAssumption, FS_CardinalityType
<1>3. left \in [Orders -> Nat] /\ \A o \in Orders : left[o] > 0 /\ left[o] \in 0..Size[o]
  BY <1>1, <1>2 DEF Init
<1>4. stamp \in [Orders -> 0..Cardinality(Orders)]
  <2>1. 0 \in 0..Cardinality(Orders)
    BY <1>2
  <2>2. QED
    BY <1>1, <2>1 DEF Init
<1>5. stage \in [Orders -> {"new", "resting", "filled", "cancelled", "popped"}]
  BY <1>1 DEF Init
<1>6. matched \in 0..MaxIncoming /\ cuts \in 0..MaxCuts /\ version \in Nat /\ busy = FALSE
  BY <1>1, Bounds DEF Init
<1>7. /\ watermark \in Seq(Nat) /\ Len(watermark) \in {0, 2}
      /\ tick \in Seq(Nat) /\ Len(tick) \in 0..2
  <2>1. watermark = <<>> /\ tick = <<>>
    BY <1>1 DEF Init
  <2>2. <<>> \in Seq(Nat) /\ Len(<<>>) = 0 /\ 0 \in 0..2
    OBVIOUS
  <2>3. QED
    BY <2>1, <2>2
<1>8. {pending, depth} \subseteq Contents \cup {None} /\ link \in {"dialling", "open"}
  BY <1>1 DEF Init
<1>9. QED
  BY <1>3, <1>4, <1>5, <1>6, <1>7, <1>8 DEF Inv, TypeOK

\* What a step of the book leaves alone.
LEMMA BookStep ==
  ASSUME Inv, NEW o \in Orders, Book(o)
  PROVE  Inv'
<1> DEFINE Stages == {"new", "resting", "filled", "cancelled", "popped"}
<1>1. /\ stage \in [Orders -> Stages] /\ left \in [Orders -> Nat]
      /\ \A p \in Orders : left[p] \in 0..Size[p]
      /\ \A p \in Orders : stage[p] \in {"new", "resting"} => left[p] > 0
      /\ stamp \in [Orders -> 0..Cardinality(Orders)] /\ version \in Nat
  BY DEF Inv, TypeOK
<1>2. /\ UNCHANGED <<matched, busy, server, browser, cuts>>
      /\ version' \in {version, version + 1}
  BY DEF Book, AddOrder, Fill, Pop, CancelOrder
<1>3. /\ stage' \in [Orders -> Stages] /\ left' \in [Orders -> Nat]
      /\ \A p \in Orders : left'[p] \in 0..Size[p]
      /\ \A p \in Orders : stage'[p] \in {"new", "resting"} => left'[p] > 0
      /\ stamp' \in [Orders -> 0..Cardinality(Orders)]
  <2>1. CASE AddOrder(o)
    <3>1. Cardinality({p \in Orders : stage[p] # "new"}) \in 0..Cardinality(Orders)
      <4>1. /\ IsFiniteSet({p \in Orders : stage[p] # "new"})
            /\ Cardinality({p \in Orders : stage[p] # "new"}) <= Cardinality(Orders)
        BY BookFeedAssumption, FS_Subset
      <4>2. /\ Cardinality(Orders) \in Nat
            /\ Cardinality({p \in Orders : stage[p] # "new"}) \in Nat
        BY <4>1, BookFeedAssumption, FS_CardinalityType
      <4>3. QED
        BY <4>1, <4>2
    <3>2. stage' = [stage EXCEPT ![o] = "resting"] /\ left' = left /\ stage[o] = "new"
      BY <2>1 DEF AddOrder
    <3>3. stamp' \in [Orders -> 0..Cardinality(Orders)]
      BY <1>1, <2>1, <3>1 DEF AddOrder
    <3>4. QED
      BY <1>1, <3>2, <3>3
  <2>2. CASE Fill(o)
    <3>1. /\ stage' = [stage EXCEPT ![o] = IF left[o] = 1 THEN "filled" ELSE @]
          /\ left' = [left EXCEPT ![o] = @ - 1] /\ stamp' = stamp /\ stage[o] = "resting"
      BY <2>2 DEF Fill
    <3>2. left[o] \in Nat /\ left[o] > 0 /\ Size[o] \in Nat
      BY <1>1, <3>1, BookFeedAssumption
    <3>3. left'[o] = left[o] - 1 /\ \A p \in Orders \ {o} : left'[p] = left[p] /\ stage'[p] = stage[p]
      BY <1>1, <3>1
    <3>4. stage' \in [Orders -> Stages] /\ left' \in [Orders -> Nat]
      BY <1>1, <3>1, <3>2
    <3>5. stage'[o] \in {"new", "resting"} => left'[o] > 0
      BY <1>1, <3>1, <3>2, <3>3
    <3>6. left'[o] \in 0..Size[o]
      <4>1. left[o] \in 0..Size[o]
        BY <1>1
      <4>2. QED
        BY <3>2, <3>3, <4>1
    <3>7. QED
      BY <1>1, <3>1, <3>3, <3>4, <3>5, <3>6
  <2>3. CASE Pop(o) \/ CancelOrder(o)
    <3>1. /\ \E s \in {"popped", "cancelled"} : stage' = [stage EXCEPT ![o] = s]
          /\ left' = left /\ stamp' = stamp
      BY <2>3 DEF Pop, CancelOrder
    <3>2. QED
      BY <1>1, <3>1
  <2>4. QED
    BY <2>1, <2>2, <2>3 DEF Book
<1>4. QED
  BY <1>1, <1>2, <1>3 DEF Inv, TypeOK, server, browser, Contents

\* No step ends outside the types.
LEMMA TypeStep == Inv /\ [Next]_vars => Inv'
<1>1. SUFFICES ASSUME Inv, [Next]_vars
               PROVE  Inv'
  OBVIOUS
<1>2. /\ {pending, depth} \subseteq Contents \cup {None} /\ Contents' = Contents
      /\ Snapshot \in Contents /\ matched \in 0..MaxIncoming /\ cuts \in 0..MaxCuts
  BY <1>1, SnapshotType DEF Inv, TypeOK, Contents
<1>3. CASE \E o \in Orders : Book(o)
  BY <1>1, <1>3, BookStep
<1>4. CASE Begin
  <2>1. matched < MaxIncoming /\ busy' = TRUE /\ UNCHANGED <<book, matched, server, browser, cuts>>
    BY <1>4 DEF Begin
  <2>2. QED
    BY <1>1, <1>2, <2>1 DEF Inv, TypeOK, book, server, browser
<1>5. CASE End
  <2>1. busy /\ busy' = FALSE /\ matched' = matched + 1 /\ UNCHANGED <<book, server, browser, cuts>>
    BY <1>5 DEF End
  <2>2. matched' \in 0..MaxIncoming
    <3>1. matched < MaxIncoming /\ matched \in Nat
      BY <1>1, <1>2, <2>1 DEF Inv
    <3>2. QED
      BY <2>1, <3>1, Bounds
  <2>3. QED
    BY <1>1, <1>2, <2>1, <2>2 DEF Inv, TypeOK, book, server, browser
<1>6. CASE Serve
  <2>1. UNCHANGED venue /\ depth' = depth
    BY <1>6 DEF Serve, writeSnapshot, ReadMetrics, ReadVersion, writeBook, Cut, browser
  <2>2. pending' \in Contents \cup {None} /\ link' \in {"dialling", "open"} /\ cuts' \in 0..MaxCuts
    <3>1. CASE Cut
      <4>1. cuts < MaxCuts /\ cuts' = cuts + 1 /\ pending' = pending /\ link' = "dialling"
        BY <3>1 DEF Cut, browser
      <4>2. QED
        BY <1>2, <4>1, Bounds
    <3>2. CASE writeSnapshot \/ writeBook
      BY <1>1, <1>2, <3>2 DEF writeSnapshot, writeBook, Inv, TypeOK
    <3>3. CASE ReadMetrics \/ ReadVersion
      BY <1>1, <1>2, <3>3 DEF ReadMetrics, ReadVersion, browser, Inv, TypeOK
    <3>4. QED
      BY <1>6, <3>1, <3>2, <3>3 DEF Serve
  <2>3. /\ watermark' \in Seq(Nat) /\ Len(watermark') \in {0, 2}
        /\ tick' \in Seq(Nat) /\ Len(tick') \in 0..2
    <3>1. /\ watermark \in Seq(Nat) /\ Len(watermark) \in {0, 2} /\ tick \in Seq(Nat)
          /\ version \in Nat /\ matched \in Nat
      BY <1>1, <1>2 DEF Inv, TypeOK
    <3>2. <<>> \in Seq(Nat) /\ Len(<<>>) = 0 /\ 0 \in 0..2 /\ 2 \in 0..2
      OBVIOUS
    <3>3. CASE Cut \/ writeSnapshot
      <4>1. watermark' = <<>> /\ tick' = <<>>
        BY <3>3 DEF Cut, writeSnapshot
      <4>2. QED
        BY <3>2, <4>1
    <3>4. CASE writeBook
      BY <3>1, <3>2, <3>4 DEF writeBook
    <3>5. CASE ReadMetrics
      <4>1. tick' = <<matched>> /\ watermark' = watermark
        BY <3>5 DEF ReadMetrics
      <4>2. QED
        BY <3>1, <4>1
    <3>6. CASE ReadVersion
      <4>1. Len(tick) = 1 /\ tick[1] \in Nat
        BY <3>1, <3>6 DEF ReadVersion
      <4>2. <<tick[1], version>> \in Seq(Nat) /\ Len(<<tick[1], version>>) = 2
        BY <3>1, <4>1
      <4>3. \/ tick' = <<>> /\ watermark' = watermark
            \/ tick' = <<tick[1], version>> /\ watermark' = tick'
        BY <3>6 DEF ReadVersion, Current
      <4>4. QED
        <5>1. CASE tick' = <<>> /\ watermark' = watermark
          BY <3>1, <3>2, <5>1
        <5>2. CASE tick' = <<tick[1], version>> /\ watermark' = tick'
          <6> DEFINE c == <<tick[1], version>>
          <6> HIDE DEF c
          <6>1. c \in Seq(Nat) /\ Len(c) = 2
            BY <4>2 DEF c
          <6>2. tick' = c /\ watermark' = c
            BY <5>2 DEF c
          <6>3. QED
            BY <3>2, <6>1, <6>2
        <5>3. QED
          BY <4>3, <5>1, <5>2
    <3>7. QED
      BY <1>6, <3>3, <3>4, <3>5, <3>6 DEF Serve
  <2>4. QED
    BY <1>1, <1>2, <2>1, <2>2, <2>3 DEF Inv, TypeOK, venue, book
<1>7. CASE Flush
  BY <1>1, <1>2, <1>7 DEF Inv, TypeOK, Flush, venue, book, server
<1>8. CASE UNCHANGED vars
  BY <1>1, <1>2, <1>8 DEF Inv, TypeOK, vars, venue, book, server, browser
<1>9. QED
  BY <1>1, <1>3, <1>4, <1>5, <1>6, <1>7, <1>8 DEF Next, Venue

\* However the book is filled, popped and cancelled, read and sent, by counters that
\* may move between two reads, what is kept for the panels is what was live at one
\* moment, an order once, and the bounds of the model hold.
THEOREM TypeHolds == Spec => []Inv
<1>1. QED
  BY InitType, TypeStep, PTL DEF Spec

THEOREM TypeCorrect == Spec => []TypeOK
<1>1. Inv => TypeOK
  BY DEF Inv
<1>2. QED
  BY <1>1, TypeHolds, PTL

-----------------------------------------------------------------------------
(* The orders of a side, in their order *)

\* No order has priority over one ahead of it.
Queued(s, descending) ==
  \A i \in DOMAIN s, j \in DOMAIN s : i < j => ~ Before(s[j], s[i], descending)

\* What the comparison looks at is numbers.
Comparable(T) == \A o \in T : o.price \in Nat /\ o.stamp \in Nat

\* Some order of a finite set may be the last.
LEMMA LastInQueue ==
  ASSUME NEW T, IsFiniteSet(T), Comparable(T), T # {}, NEW descending \in BOOLEAN
  PROVE  \E m \in T : \A o \in T : ~ Before(m, o, descending)
<1> DEFINE Ended(U) == U = {} \/ \E m \in U : \A o \in U : ~ Before(m, o, descending)
           F == {U \in SUBSET T : Ended(U)}
<1>1. ASSUME NEW U \in SUBSET T, \A V \in SUBSET U : V # U => V \in F
      PROVE  U \in F
  <2>1. CASE U = {}
    BY <2>1
  <2>2. ASSUME NEW c \in U
        PROVE  Ended(U)
    <3>0. U \ {c} \in SUBSET U /\ U \ {c} # U
      OBVIOUS
    <3>1. Ended(U \ {c})
      <4> HIDE DEF Ended
      <4>1. U \ {c} \in F
        BY <1>1, <3>0
      <4>2. QED
        BY <4>1
    <3>2. ~ Before(c, c, descending)
      BY DEF Before, Comparable
    <3>3. CASE U \ {c} = {}
      <4>1. \A o \in U : o = c
        BY <3>3
      <4>2. QED
        BY <3>2, <4>1
    <3>4. CASE \E m \in U \ {c} : \A o \in U \ {c} : ~ Before(m, o, descending)
      <4>1. PICK m \in U \ {c} : \A o \in U \ {c} : ~ Before(m, o, descending)
        BY <3>4
      <4>2. CASE Before(m, c, descending)
        <5>1. ASSUME NEW o \in U
              PROVE  ~ Before(c, o, descending)
          <6>1. CASE o = c
            BY <3>2, <6>1
          <6>2. CASE o # c
            <7>1. ~ Before(m, o, descending)
              BY <4>1, <6>2
            <7>2. /\ m.price \in Nat /\ c.price \in Nat /\ o.price \in Nat
                  /\ m.stamp \in Nat /\ c.stamp \in Nat /\ o.stamp \in Nat
              BY DEF Comparable
            <7>3. QED
              BY <4>2, <7>1, <7>2 DEF Before
          <6>3. QED
            BY <6>1, <6>2
        <5>2. QED
          BY <5>1
      <4>3. CASE ~ Before(m, c, descending)
        <5>1. \A o \in U : ~ Before(m, o, descending)
          BY <4>1, <4>3
        <5>2. QED
          BY <5>1
      <4>4. QED
        BY <4>2, <4>3
    <3>5. QED
      BY <3>1, <3>3, <3>4
  <2>3. QED
    BY <2>1, <2>2
<1> HIDE DEF F
<1>2. SUBSET T \subseteq F
  BY <1>1, SubsetInduction
<1>3. QED
  BY <1>2 DEF F

\* A finite set of orders can be put in order: the last one last.
LEMMA CanBeQueued ==
  ASSUME NEW T, IsFiniteSet(T), Comparable(T), NEW descending \in BOOLEAN
  PROVE  \E s \in SetToSeqs(T) : Queued(s, descending)
<1> DEFINE F == {U \in SUBSET T : \E s \in SetToSeqs(U) : Queued(s, descending)}
<1>1. ASSUME NEW U \in SUBSET T, \A V \in SUBSET U : V # U => V \in F
      PROVE  U \in F
  <2>1. IsFiniteSet(U) /\ Comparable(U)
    BY FS_Subset DEF Comparable
  <2>2. CASE U = {}
    <3>1. Cardinality(U) = 0 /\ 1..0 = {}
      BY <2>2, FS_EmptySet
    <3>2. << >> \in SetToSeqs(U) /\ Queued(<< >>, descending)
      BY <2>2, <3>1 DEF SetToSeqs, Queued
    <3>3. QED
      BY <3>2
  <2>3. CASE U # {}
    <3>1. PICK m \in U : \A o \in U : ~ Before(m, o, descending)
      BY <2>1, <2>3, LastInQueue
    <3> DEFINE V == U \ {m}
               n == Cardinality(V)
    <3>2. V \in F
      BY <1>1
    <3>3. IsFiniteSet(V) /\ n \in Nat /\ Cardinality(U) = n + 1
      <4>1. IsFiniteSet(V) /\ Cardinality(V) = Cardinality(U) - 1
        BY <2>1, FS_RemoveElement
      <4>2. Cardinality(V) \in Nat /\ Cardinality(U) \in Nat
        BY <2>1, <4>1, FS_CardinalityType
      <4>3. QED
        BY <4>1, <4>2
    <3>4. PICK s \in SetToSeqs(V) : Queued(s, descending)
      BY <3>2
    <3>5. s \in [1..n -> V] /\ \A i \in 1..n, j \in 1..n : i # j => s[i] # s[j]
      BY DEF SetToSeqs
    <3> DEFINE r == [i \in 1..(n + 1) |-> IF i = n + 1 THEN m ELSE s[i]]
    <3>6. \A i \in 1..(n + 1) : i # n + 1 => i \in 1..n
      BY <3>3
    <3>7. r \in [1..(n + 1) -> U] /\ \A i \in 1..(n + 1), j \in 1..(n + 1) : i # j => r[i] # r[j]
      <4>1. \A i \in 1..n : s[i] \in U /\ s[i] # m
        BY <3>5
      <4> HIDE DEF V, n
      <4>2. QED
        BY <3>5, <3>6, <4>1
    <3>8. r \in SetToSeqs(U)
      <4> HIDE DEF r
      <4>1. QED
        BY <3>3, <3>7 DEF SetToSeqs
    <3>9. Queued(r, descending)
      <4>1. ASSUME NEW i \in 1..(n + 1), NEW j \in 1..(n + 1), i < j
            PROVE  ~ Before(r[j], r[i], descending)
        <5>1. i \in 1..n /\ r[i] = s[i] /\ s[i] \in U
          <6>1. i # n + 1
            BY <3>3, <4>1
          <6>2. QED
            BY <3>5, <3>6, <6>1
        <5>2. CASE j = n + 1
          <6>1. r[j] = m
            BY <5>2
          <6>2. QED
            BY <3>1, <5>1, <6>1
        <5>3. CASE j # n + 1
          <6>1. j \in 1..n /\ r[j] = s[j]
            BY <3>6, <5>3
          <6>2. DOMAIN s = 1..n
            BY <3>5
          <6> HIDE DEF r, n
          <6>3. QED
            BY <3>4, <4>1, <5>1, <6>1, <6>2 DEF Queued
        <5>4. QED
          BY <5>2, <5>3
      <4>2. DOMAIN r = 1..(n + 1)
        OBVIOUS
      <4> HIDE DEF r
      <4>3. QED
        BY <4>1, <4>2 DEF Queued
    <3>10. QED
      BY <3>8, <3>9
  <2>4. QED
    BY <2>2, <2>3
<1> HIDE DEF F
<1>2. SUBSET T \subseteq F
  BY <1>1, SubsetInduction
<1>3. QED
  BY <1>2 DEF F

\* What collect returns: every live order once, in order.
LEMMA CollectIs ==
  ASSUME NEW orders, NEW descending \in BOOLEAN,
         IsFiniteSet({o \in orders : o.live /\ o.left > 0}),
         Comparable({o \in orders : o.live /\ o.left > 0})
  PROVE  LET live == {o \in orders : o.live /\ o.left > 0}
             s    == collect(orders, descending)
             n    == Cardinality(live)
         IN  /\ n \in Nat /\ s \in [1..n -> live]
             /\ \A i \in 1..n, j \in 1..n : i # j => s[i] # s[j]
             /\ \A o \in live : \E i \in 1..n : s[i] = o
             /\ Queued(s, descending)
<1> DEFINE live == {o \in orders : o.live /\ o.left > 0}
           s    == collect(orders, descending)
           n    == Cardinality(live)
<1>1. s \in SetToSeqs(live) /\ Queued(s, descending)
  <2>1. \E r \in SetToSeqs(live) : Queued(r, descending)
    <3> HIDE DEF live
    <3>1. QED
      BY CanBeQueued DEF live
  <2>2. s = CHOOSE r \in SetToSeqs(live) :
              \A i \in DOMAIN r, j \in DOMAIN r : i < j => ~ Before(r[j], r[i], descending)
    BY DEF collect
  <2> HIDE DEF live, s
  <2>3. QED
    BY <2>1, <2>2 DEF Queued
<1>2. n \in Nat
  BY FS_CardinalityType
<1>3. s \in [1..n -> live] /\ \A i \in 1..n, j \in 1..n : i # j => s[i] # s[j]
  <2> HIDE DEF live, s
  <2>1. QED
    BY <1>1 DEF SetToSeqs
<1>4. \A o \in live : \E i \in 1..n : s[i] = o
  <2> HIDE DEF s
  <2>1. s \in Injection(1..n, live)
    <3> HIDE DEF n, live
    <3>1. QED
      BY <1>3 DEF Injection, IsInjective
  <2>2. Cardinality(1..n) = n
    BY <1>2, FS_Interval
  <2>3. s \in Surjection(1..n, live)
    <3> HIDE DEF live
    <3>1. QED
      BY <2>1, <2>2, FS_Injection DEF live
  <2> HIDE DEF n, live
  <2>4. QED
    BY <2>3 DEF Surjection
<1>5. QED
  BY <1>1, <1>2, <1>3, <1>4

\* The orders of a side that could trade.
Live(side) == {o \in Orders : Side[o] = side /\ stage[o] = "resting" /\ left[o] > 0}

\* Price p is at least as good as r, or better, for whoever takes from the side.
NoWorse(side, p, r)  == IF side = "BUY" THEN p >= r ELSE p <= r
IsBetter(side, p, r) == IF side = "BUY" THEN p > r ELSE p < r

Entry == [id : Orders, price : Nat, left : Nat, stamp : Nat, live : BOOLEAN]

\* q is the live orders of a side, each once, the best first.
Ranked(side, q) ==
  /\ q \in Seq(Entry)
  /\ \A i \in 1..Len(q) : /\ q[i].id \in Live(side)
                          /\ q[i].price = Price[q[i].id] /\ q[i].left = left[q[i].id]
  /\ \A i \in 1..Len(q), j \in 1..Len(q) : i # j => q[i].id # q[j].id
  /\ \A o \in Live(side) : \E i \in 1..Len(q) : q[i].id = o
  /\ \A i \in 1..Len(q), j \in 1..Len(q) : i < j => NoWorse(side, q[i].price, q[j].price)

\* What the panels need of the state.
Numbers == left \in [Orders -> Nat] /\ stamp \in [Orders -> Nat]

LEMMA InvNumbers == Inv => Numbers
<1>1. 0..Cardinality(Orders) \subseteq Nat
  OBVIOUS
<1>2. QED
  BY <1>1 DEF Inv, TypeOK, Numbers

LEMMA RecordIs ==
  ASSUME Numbers, NEW o \in Orders
  PROVE  /\ Record(o) \in Entry
         /\ Record(o).id = o /\ Record(o).price = Price[o] /\ Record(o).left = left[o]
         /\ Record(o).stamp = stamp[o] /\ Record(o).live = (stage[o] = "resting")
<1>1. Price[o] \in Nat /\ left[o] \in Nat /\ stamp[o] \in Nat
  BY BookFeedAssumption DEF Numbers
<1>2. QED
  BY <1>1 DEF Record, Entry

\* A heap's live orders are the side's, dead ones and those of no heap left out.
LEMMA LiveOfHeap ==
  ASSUME Numbers, NEW side
  PROVE  /\ {r \in Heap(side) : r.live /\ r.left > 0} = {Record(o) : o \in Live(side)}
         /\ IsFiniteSet({Record(o) : o \in Live(side)}) /\ Comparable({Record(o) : o \in Live(side)})
<1>1. \A o \in Orders : /\ Record(o).id = o /\ Record(o).left = left[o]
                        /\ Record(o).live = (stage[o] = "resting")
                        /\ Record(o).price \in Nat /\ Record(o).stamp \in Nat
  BY RecordIs, BookFeedAssumption DEF Numbers
<1>2. {r \in Heap(side) : r.live /\ r.left > 0} = {Record(o) : o \in Live(side)}
  <2>1. ASSUME NEW r \in Heap(side), r.live /\ r.left > 0
        PROVE  r \in {Record(o) : o \in Live(side)}
    <3>1. PICK o \in Orders : Side[o] = side /\ InBook(o) /\ r = Record(o)
      BY DEF Heap
    <3>2. o \in Live(side)
      BY <1>1, <2>1, <3>1 DEF Live
    <3>3. QED
      BY <3>1, <3>2
  <2>2. ASSUME NEW o \in Live(side)
        PROVE  Record(o) \in Heap(side) /\ Record(o).live /\ Record(o).left > 0
    <3>1. o \in Orders /\ Side[o] = side /\ stage[o] = "resting" /\ left[o] > 0
      BY DEF Live
    <3>2. InBook(o)
      BY <3>1 DEF InBook
    <3>3. QED
      BY <1>1, <3>1, <3>2 DEF Heap
  <2>3. QED
    BY <2>1, <2>2
<1>3. IsFiniteSet({Record(o) : o \in Live(side)})
  <2> DEFINE f == [o \in Live(side) |-> Record(o)]
  <2>1. IsFiniteSet(Live(side))
    <3>1. Live(side) \subseteq Orders
      BY DEF Live
    <3>2. QED
      BY <3>1, BookFeedAssumption, FS_Subset
  <2>2. f \in Surjection(Live(side), {Record(o) : o \in Live(side)})
    BY DEF Surjection
  <2> HIDE DEF f
  <2>3. QED
    BY <2>1, <2>2, FS_Surjection
<1>4. Comparable({Record(o) : o \in Live(side)})
  BY <1>1 DEF Comparable, Live
<1>5. QED
  BY <1>2, <1>3, <1>4

LEMMA CollectRanks ==
  ASSUME Numbers, NEW side \in {"BUY", "SELL"}
  PROVE  Ranked(side, collect(Heap(side), side = "BUY"))
<1> DEFINE heap == Heap(side)
           q == collect(heap, side = "BUY")
           T == {r \in heap : r.live /\ r.left > 0}
           n == Cardinality(T)
<1>1. T = {Record(o) : o \in Live(side)} /\ IsFiniteSet(T) /\ Comparable(T)
  BY LiveOfHeap
<1>2. /\ n \in Nat /\ q \in [1..n -> T]
      /\ \A i \in 1..n, j \in 1..n : i # j => q[i] # q[j]
      /\ \A o \in T : \E i \in 1..n : q[i] = o
      /\ Queued(q, side = "BUY")
  <2> HIDE DEF heap
  <2>1. (side = "BUY") \in BOOLEAN
    OBVIOUS
  <2>2. QED
    BY <1>1, <2>1, CollectIs
<1>3. \A o \in Live(side) : /\ Record(o) \in Entry /\ Record(o).id = o
                            /\ Record(o).price = Price[o] /\ Record(o).left = left[o]
  BY RecordIs DEF Live
<1> HIDE DEF T, q
<1>4. \A i \in 1..n : q[i].id \in Live(side) /\ q[i] = Record(q[i].id)
  BY <1>1, <1>2, <1>3
<1> HIDE DEF n
<1>5. q \in Seq(Entry) /\ Len(q) = n
  <2>1. \A i \in 1..n : q[i] \in Entry
    BY <1>3, <1>4
  <2>2. q \in [1..n -> Entry]
    BY <1>2, <2>1
  <2>3. QED
    BY <1>2, <2>2
<1>6. \A i \in 1..n : q[i].price = Price[q[i].id] /\ q[i].left = left[q[i].id]
  BY <1>3, <1>4
<1>7. \A i \in 1..n, j \in 1..n : i # j => q[i].id # q[j].id
  BY <1>2, <1>4
<1>8. \A o \in Live(side) : \E i \in 1..n : q[i].id = o
  BY <1>1, <1>2, <1>3
<1>9. ASSUME NEW i \in 1..n, NEW j \in 1..n, i < j
      PROVE  NoWorse(side, q[i].price, q[j].price)
  <2>1. ~ Before(q[j], q[i], side = "BUY")
    <3>1. DOMAIN q = 1..n
      BY <1>2
    <3>2. QED
      BY <1>2, <1>9, <3>1 DEF Queued
  <2>2. q[i].price \in Nat /\ q[j].price \in Nat
    BY <1>1, <1>2 DEF Comparable
  <2>3. QED
    BY <2>1, <2>2 DEF Before, NoWorse
<1>10. Ranked(side, q)
  BY <1>4, <1>5, <1>6, <1>7, <1>8, <1>9 DEF Ranked
<1>11. QED
  BY <1>10 DEF q

-----------------------------------------------------------------------------
(* The levels as they are built *)

Level == [price : Nat, quantity : Nat, order_count : Nat]

\* A level with one more order.
LEMMA LevelGrows ==
  ASSUME NEW l \in Level, NEW x \in Nat
  PROVE  LET r == [l EXCEPT !.quantity = @ + x, !.order_count = @ + 1]
         IN  r \in Level /\ r.price = l.price /\ r.quantity = l.quantity + x
<1>1. l.price \in Nat /\ l.quantity \in Nat /\ l.order_count \in Nat
  BY DEF Level
<1>2. l.quantity + x \in Nat /\ l.order_count + 1 \in Nat
  BY <1>1
<1>3. QED
  BY <1>2 DEF Level

\* What one more order makes of the levels so far: of the last, or a new one.
LEMMA GroupedIs ==
  ASSUME NEW out \in Seq(Level), NEW o \in Entry
  PROVE  /\ Grouped(out, o) \in Seq(Level)
         /\ out # <<>> /\ out[Len(out)].price = o.price =>
              /\ Len(Grouped(out, o)) = Len(out)
              /\ \A m \in 1..Len(out) :
                   /\ Grouped(out, o)[m].price = out[m].price
                   /\ Grouped(out, o)[m].quantity =
                        out[m].quantity + (IF m = Len(out) THEN o.left ELSE 0)
         /\ out = <<>> \/ out[Len(out)].price # o.price =>
              /\ Len(Grouped(out, o)) = Len(out) + 1
              /\ \A m \in 1..Len(out) : Grouped(out, o)[m] = out[m]
              /\ Grouped(out, o)[Len(out) + 1].price = o.price
              /\ Grouped(out, o)[Len(out) + 1].quantity = o.left
<1> DEFINE n == Len(out)
<1>1. n \in Nat /\ \A m \in 1..n : out[m] \in Level
  OBVIOUS
<1>2. o.price \in Nat /\ o.left \in Nat
  BY DEF Entry
<1>3. ASSUME out # <<>>, out[n].price = o.price
      PROVE  /\ Grouped(out, o) \in Seq(Level) /\ Len(Grouped(out, o)) = n
             /\ \A m \in 1..n : /\ Grouped(out, o)[m].price = out[m].price
                                /\ Grouped(out, o)[m].quantity =
                                     out[m].quantity + (IF m = n THEN o.left ELSE 0)
  <2> DEFINE l == [out[n] EXCEPT !.quantity = @ + o.left, !.order_count = @ + 1]
             r == [out EXCEPT ![n] = l]
  <2>1. n \in 1..n
    BY <1>1, <1>3
  <2>2. out[n] \in Level
    BY <1>1, <2>1
  <2>3. l \in Level /\ l.price = out[n].price /\ l.quantity = out[n].quantity + o.left
    BY <1>2, <2>2, LevelGrows
  <2>4. Grouped(out, o) = r
    BY <1>3, <2>2 DEF Grouped, Last, Level
  <2> HIDE DEF l
  <2>5. r \in Seq(Level) /\ Len(r) = n
    BY <1>1, <2>1, <2>3
  <2>6. \A m \in 1..n : r[m] = IF m = n THEN l ELSE out[m]
    BY <1>1
  <2>7. \A m \in 1..n : out[m].quantity \in Nat
    BY <1>1 DEF Level
  <2> HIDE DEF r, n
  <2>8. QED
    BY <2>3, <2>4, <2>5, <2>6, <2>7
<1>4. ASSUME out = <<>> \/ out[n].price # o.price
      PROVE  /\ Grouped(out, o) \in Seq(Level) /\ Len(Grouped(out, o)) = n + 1
             /\ \A m \in 1..n : Grouped(out, o)[m] = out[m]
             /\ Grouped(out, o)[n + 1].price = o.price
             /\ Grouped(out, o)[n + 1].quantity = o.left
  <2> DEFINE l == [price |-> o.price, quantity |-> o.left, order_count |-> 1]
  <2>1. l \in Level /\ l.price = o.price /\ l.quantity = o.left
    BY <1>2 DEF Level
  <2>2. Grouped(out, o) = Append(out, l)
    BY <1>4 DEF Grouped, Last
  <2> HIDE DEF l
  <2>3. QED
    BY <1>1, <2>1, <2>2, AppendIs
<1>5. QED
  BY <1>3, <1>4

\* The fold goes through the orders from the first.
LevelFold(s, h) ==
  h = [S \in SUBSET DOMAIN s |-> IF S = {} THEN <<>> ELSE Grouped(h[S \ {Max(S)}], s[Max(S)])]

LEMMA LevelsUnfold ==
  ASSUME NEW s
  PROVE  FoldLeft(Grouped, <<>>, s) = (CHOOSE h : LevelFold(s, h))[DOMAIN s]
  BY DEF FoldLeft, MapThenFoldSet, LevelFold

\* All levels of s, as they were after each of its orders.
LEMMA LevelsAreBuilt ==
  ASSUME NEW s \in Seq(Entry)
  PROVE  \E t \in [0..Len(s) -> Seq(Level)] :
           /\ t[0] = <<>> /\ t[Len(s)] = FoldLeft(Grouped, <<>>, s)
           /\ \A k \in 1..Len(s) : t[k] = Grouped(t[k - 1], s[k])
<1> DEFINE n == Len(s)
           A == Seq(Level)
           f == [x \in A \X (1..n) |-> Grouped(x[1], s[x[2]])]
           h == CHOOSE h : LevelFold(s, h)
<1>1. n \in Nat /\ DOMAIN s = 1..n /\ \A i \in 1..n : s[i] \in Entry
  OBVIOUS
<1> HIDE DEF n
<1>2. f \in [A \X (1..n) -> A] /\ <<>> \in A
  <2>1. \A x \in A \X (1..n) : Grouped(x[1], s[x[2]]) \in A
    BY <1>1, GroupedIs
  <2>2. QED
    BY <2>1
<1>3. LevelFold(s, h)
  <2>1. PICK g \in [SUBSET (1..n) -> A] :
          \A S \in SUBSET (1..n) : g[S] = IF S = {} THEN <<>> ELSE f[<<g[S \ {Max(S)}], Max(S)>>]
    <3>1. PICK g \in [SUBSET (1..n) -> A] : FoldsOver(g, f, <<>>, n)
      <4> HIDE DEF A, f
      <4>1. QED
        BY <1>1, <1>2, FoldsLeft
    <3> HIDE DEF A, f
    <3>2. QED
      BY <3>1 DEF FoldsOver
  <2>2. ASSUME NEW S \in SUBSET (1..n)
        PROVE  g[S] = IF S = {} THEN <<>> ELSE Grouped(g[S \ {Max(S)}], s[Max(S)])
    <3>1. CASE S = {}
      BY <2>1, <3>1
    <3>2. CASE S # {}
      <4>1. Max(S) \in 1..n /\ g[S \ {Max(S)}] \in A
        BY <1>1, <2>1, <3>2, LastPosition
      <4>2. <<g[S \ {Max(S)}], Max(S)>> \in A \X (1..n)
        BY <4>1
      <4> HIDE DEF A
      <4>3. QED
        BY <2>1, <3>2, <4>2
    <3>3. QED
      BY <3>1, <3>2
  <2>3. g = [S \in SUBSET (1..n) |-> g[S]]
    BY <2>1
  <2>4. g = [S \in SUBSET DOMAIN s |-> IF S = {} THEN <<>> ELSE Grouped(g[S \ {Max(S)}], s[Max(S)])]
    BY <1>1, <2>2, <2>3
  <2>5. LevelFold(s, g)
    BY <2>4 DEF LevelFold
  <2>6. QED
    BY <2>5
<1> DEFINE t == [k \in 0..n |-> h[1..k]]
<1> HIDE DEF h
<1>4. \A S \in SUBSET (1..n) : h[S] = IF S = {} THEN <<>> ELSE Grouped(h[S \ {Max(S)}], s[Max(S)])
  BY <1>1, <1>3 DEF LevelFold
<1>5. t[0] = <<>>
  <2>1. 1..0 = {} /\ 0 \in 0..n /\ {} \in SUBSET (1..n)
    BY <1>1
  <2>2. QED
    BY <1>4, <2>1
<1>6. ASSUME NEW k \in 1..n
      PROVE  t[k] = Grouped(t[k - 1], s[k])
  <2>1. Max(1..k) = k /\ (1..k) \ {Max(1..k)} = 1..(k - 1)
    BY LastOfInterval
  <2>2. 1..k # {} /\ 1..k \in SUBSET (1..n) /\ k \in 0..n /\ k - 1 \in 0..n
    BY <1>1
  <2>3. h[1..k] = Grouped(h[1..(k - 1)], s[k])
    BY <1>4, <2>1, <2>2
  <2>4. QED
    BY <2>2, <2>3
<1>7. t \in [0..n -> A]
  <2> DEFINE F == {k \in 0..n : t[k] \in A}
  <2>1. 0 \in F
    <3>1. 0 \in 0..n /\ <<>> \in A
      BY <1>1
    <3> HIDE DEF t
    <3>2. QED
      BY <1>5, <3>1
  <2>2. ASSUME NEW k \in 1..n, k - 1 \in F
        PROVE  k \in F
    <3> HIDE DEF t
    <3>1. Grouped(t[k - 1], s[k]) \in A
      BY <1>1, <2>2, GroupedIs
    <3>2. QED
      BY <1>1, <1>6, <3>1
  <2> HIDE DEF F
  <2>3. 0..n \subseteq F
    BY <1>1, <2>1, <2>2, UpTo
  <2>4. \A k \in 0..n : t[k] \in A
    BY <2>3 DEF F
  <2>5. t = [k \in 0..n |-> t[k]]
    OBVIOUS
  <2> HIDE DEF t, A
  <2>6. QED
    BY <2>4, <2>5
<1>8. t[n] = FoldLeft(Grouped, <<>>, s)
  <2>1. t[n] = h[DOMAIN s]
    BY <1>1
  <2> HIDE DEF t
  <2>2. QED
    BY <2>1, LevelsUnfold DEF h
<1> HIDE DEF t
<1>9. QED
  BY <1>5, <1>6, <1>7, <1>8 DEF n

-----------------------------------------------------------------------------
(* What the levels hold *)

\* The first k orders of the queue.
FirstOf(q, k) == {q[i].id : i \in 1..k}

\* Those of them at a price or better.
UpToPrice(side, q, k, price) == {o \in FirstOf(q, k) : NoWorse(side, Price[o], price)}

\* Depth from the best level down to the m-th.
DepthTo(out, m) == SumFunctionOnSet(LevelSizes(out), 1..m)

\* The levels of the first k orders: the best first, each price once, and as deep, down
\* to each of them, as what rests there or better.
Stack(side, q, k, out) ==
  /\ out \in Seq(Level)
  /\ \A l \in 1..Len(out), m \in 1..Len(out) : l < m => IsBetter(side, out[l].price, out[m].price)
  /\ \A m \in 1..Len(out) :
       DepthTo(out, m) = SumFunctionOnSet(left, UpToPrice(side, q, k, out[m].price))
  /\ \A m \in 1..Len(out) : \E i \in 1..k : out[m].price = q[i].price
  /\ \A i \in 1..k : \E m \in 1..Len(out) : out[m].price = q[i].price
  /\ IF k = 0 THEN out = <<>> ELSE Len(out) > 0 /\ out[Len(out)].price = q[k].price

\* The first orders of a queue, and the one that comes next.
LEMMA FirstOfGrows ==
  ASSUME Numbers, NEW side, NEW q, Ranked(side, q), NEW k \in 1..Len(q)
  PROVE  /\ FirstOf(q, k) = FirstOf(q, k - 1) \cup {q[k].id}
         /\ q[k].id \notin FirstOf(q, k - 1) /\ q[k].id \in Orders
         /\ IsFiniteSet(FirstOf(q, k - 1)) /\ FirstOf(q, k - 1) \subseteq Orders
         /\ \A o \in FirstOf(q, k) : NoWorse(side, Price[o], q[k].price)
         /\ Price[q[k].id] = q[k].price /\ left[q[k].id] = q[k].left
         /\ q[k] \in Entry
<1>1. k \in Nat /\ Len(q) \in Nat /\ k - 1 \in Nat /\ 1..k = (1..(k - 1)) \cup {k}
  BY DEF Ranked
<1>2. \A i \in 1..k : i \in 1..Len(q) /\ q[i].id \in Orders /\ q[i].price = Price[q[i].id]
  BY <1>1 DEF Ranked, Live
<1>3. FirstOf(q, k) = FirstOf(q, k - 1) \cup {q[k].id}
  BY <1>1 DEF FirstOf
<1>4. q[k].id \notin FirstOf(q, k - 1)
  <2>1. \A i \in 1..(k - 1) : i \in 1..Len(q) /\ i # k
    BY <1>1, <1>2
  <2>2. QED
    BY <2>1 DEF FirstOf, Ranked
<1>5. FirstOf(q, k - 1) \subseteq Orders
  BY <1>1, <1>2 DEF FirstOf
<1>6. IsFiniteSet(FirstOf(q, k - 1))
  BY <1>5, BookFeedAssumption, FS_Subset
<1>7. \A o \in FirstOf(q, k) : NoWorse(side, Price[o], q[k].price)
  <2>1. ASSUME NEW i \in 1..k
        PROVE  NoWorse(side, q[i].price, q[k].price)
    <3>1. CASE i = k
      <4>0. q[k] \in Entry
        BY DEF Ranked
      <4>1. q[k].price \in Nat
        BY <4>0 DEF Entry
      <4>2. QED
        BY <3>1, <4>1 DEF NoWorse
    <3>2. CASE i # k
      <4>1. i < k /\ i \in 1..Len(q)
        BY <1>1, <1>2, <3>2
      <4>2. QED
        BY <4>1 DEF Ranked
    <3>3. QED
      BY <3>1, <3>2
  <2>2. QED
    BY <1>2, <2>1 DEF FirstOf
<1>8. Price[q[k].id] = q[k].price /\ left[q[k].id] = q[k].left /\ q[k] \in Entry
  BY DEF Ranked
<1>9. QED
  BY <1>1, <1>2, <1>3, <1>4, <1>5, <1>6, <1>7, <1>8

\* The sum of what is left of some orders and one more.
LEMMA OneMoreOrder ==
  ASSUME Numbers, NEW S \in SUBSET Orders, IsFiniteSet(S), NEW o \in Orders, o \notin S
  PROVE  /\ SumFunctionOnSet(left, S \cup {o}) = SumFunctionOnSet(left, S) + left[o]
         /\ SumFunctionOnSet(left, S) \in Nat /\ left[o] \in Nat
<1>1. \A p \in S \cup {o} : left[p] \in Nat
  BY DEF Numbers
<1>2. SumFunctionOnSet(left, S \cup {o}) = SumFunctionOnSet(left, S) + left[o]
  BY <1>1, SumAdds
<1>3. SumFunctionOnSet(left, S) \in Nat
  BY <1>1, SumOfNats
<1>4. QED
  BY <1>1, <1>2, <1>3

\* The depth down to a level is a number and looks at no level below it.
LEMMA DepthIs ==
  ASSUME NEW out \in Seq(Level), NEW m \in 0..Len(out)
  PROVE  /\ DepthTo(out, m) \in Nat /\ (m = 0 => DepthTo(out, m) = 0)
         /\ \A r \in Seq(Level) :
              m <= Len(r) /\ (\A i \in 1..m : r[i].quantity = out[i].quantity) =>
                DepthTo(r, m) = DepthTo(out, m)
         /\ m > 0 => DepthTo(out, m) = DepthTo(out, m - 1) + out[m].quantity
<1>1. /\ m \in Nat /\ IsFiniteSet(1..m)
      /\ \A r \in Seq(Level) : m <= Len(r) => \A i \in 1..m : /\ i \in 1..Len(r)
                                                             /\ LevelSizes(r)[i] = r[i].quantity
                                                             /\ LevelSizes(r)[i] \in Nat
  <2>1. m \in Nat /\ IsFiniteSet(1..m)
    BY FS_Interval
  <2>2. ASSUME NEW r \in Seq(Level), m <= Len(r), NEW i \in 1..m
        PROVE  i \in 1..Len(r) /\ LevelSizes(r)[i] = r[i].quantity /\ LevelSizes(r)[i] \in Nat
    <3>1. i \in 1..Len(r) /\ DOMAIN r = 1..Len(r)
      BY <2>1, <2>2
    <3>2. r[i] \in Level
      BY <3>1
    <3>3. QED
      BY <3>1, <3>2 DEF LevelSizes, Level
  <2>3. QED
    BY <2>1, <2>2
<1>2. m <= Len(out)
  OBVIOUS
<1>3. DepthTo(out, m) \in Nat
  BY <1>1, <1>2, SumOfNats DEF DepthTo
<1>4. m = 0 => DepthTo(out, m) = 0
  <2>1. m = 0 => 1..m = {}
    OBVIOUS
  <2>2. QED
    BY <1>1, <2>1, SumSteps DEF DepthTo
<1>5. ASSUME NEW r \in Seq(Level), m <= Len(r), \A i \in 1..m : r[i].quantity = out[i].quantity
      PROVE  DepthTo(r, m) = DepthTo(out, m)
  <2>1. \A i \in 1..m : LevelSizes(r)[i] = LevelSizes(out)[i]
    BY <1>1, <1>2, <1>5
  <2>2. QED
    BY <1>1, <2>1, SumLooksAt DEF DepthTo
<1>6. ASSUME m > 0
      PROVE  DepthTo(out, m) = DepthTo(out, m - 1) + out[m].quantity
  <2>1. IsFiniteSet(1..(m - 1)) /\ m \notin 1..(m - 1) /\ (1..(m - 1)) \cup {m} = 1..m
    <3>1. m \in Nat \ {0} /\ m - 1 \in Nat
      BY <1>6
    <3>2. IsFiniteSet(1..(m - 1))
      BY <3>1, FS_Interval
    <3>3. m \notin 1..(m - 1) /\ (1..(m - 1)) \cup {m} = 1..m
      BY <3>1
    <3>4. QED
      BY <3>2, <3>3
  <2>2. \A i \in (1..(m - 1)) \cup {m} : LevelSizes(out)[i] \in Int
    BY <1>1, <1>2, <2>1
  <2>3. SumFunctionOnSet(LevelSizes(out), (1..(m - 1)) \cup {m}) =
          SumFunctionOnSet(LevelSizes(out), 1..(m - 1)) + LevelSizes(out)[m]
    BY <2>1, <2>2, SumAdds
  <2>4. m \in 1..m
    BY <1>1, <1>6
  <2>5. QED
    BY <1>1, <1>2, <2>1, <2>3, <2>4 DEF DepthTo
<1>7. QED
  BY <1>3, <1>4, <1>5, <1>6

\* One more order joins the last level or opens the next, and the levels hold what they
\* should.
LEMMA StackGrows ==
  ASSUME Numbers, NEW side \in {"BUY", "SELL"}, NEW q, Ranked(side, q), NEW k \in 1..Len(q),
         NEW out, Stack(side, q, k - 1, out)
  PROVE  Stack(side, q, k, Grouped(out, q[k]))
<1> DEFINE o == q[k].id
           n == Len(out)
           r == Grouped(out, q[k])
<1>1. /\ FirstOf(q, k) = FirstOf(q, k - 1) \cup {o}
      /\ o \notin FirstOf(q, k - 1) /\ o \in Orders
      /\ IsFiniteSet(FirstOf(q, k - 1)) /\ FirstOf(q, k - 1) \subseteq Orders
      /\ \A p \in FirstOf(q, k) : NoWorse(side, Price[p], q[k].price)
      /\ Price[o] = q[k].price /\ left[o] = q[k].left /\ q[k] \in Entry
  BY FirstOfGrows
<1>2. /\ k \in Nat /\ k # 0 /\ k - 1 \in Nat /\ n \in Nat /\ out \in Seq(Level) /\ q[k].price \in Nat
      /\ \A m \in 1..n : out[m].price \in Nat /\ out[m].quantity \in Nat
      /\ 1..(k - 1) \subseteq 1..k /\ k \in 1..k /\ 1..k = (1..(k - 1)) \cup {k}
  <2>1. k \in Nat /\ k # 0 /\ k - 1 \in Nat /\ 1..(k - 1) \subseteq 1..k /\ k \in 1..k /\ 1..k = (1..(k - 1)) \cup {k}
    OBVIOUS
  <2>2. out \in Seq(Level) /\ n \in Nat /\ \A m \in 1..n : out[m] \in Level
    <3>1. out \in Seq(Level)
      BY DEF Stack
    <3>2. QED
      BY <3>1
  <2>3. q[k].price \in Nat
    BY <1>1 DEF Entry
  <2>4. QED
    BY <2>1, <2>2, <2>3 DEF Level
<1>3. /\ \A l \in 1..n, m \in 1..n : l < m => IsBetter(side, out[l].price, out[m].price)
      /\ \A m \in 1..n : DepthTo(out, m) = SumFunctionOnSet(left, UpToPrice(side, q, k - 1, out[m].price))
      /\ \A m \in 1..n : \E i \in 1..(k - 1) : out[m].price = q[i].price
      /\ \A i \in 1..(k - 1) : \E m \in 1..n : out[m].price = q[i].price
      /\ IF k - 1 = 0 THEN out = <<>> ELSE n > 0 /\ out[n].price = q[k - 1].price
  BY DEF Stack
\* The levels above are as they were.
<1>4. ASSUME NEW m \in 1..n, IsBetter(side, out[m].price, q[k].price)
      PROVE  UpToPrice(side, q, k, out[m].price) = UpToPrice(side, q, k - 1, out[m].price)
  <2>1. ~ NoWorse(side, Price[o], out[m].price)
    BY <1>1, <1>2, <1>4 DEF NoWorse, IsBetter
  <2>2. QED
    BY <1>1, <2>1 DEF UpToPrice
\* All of the first orders are at the last one's price or better.
<1>5. SumFunctionOnSet(left, UpToPrice(side, q, k, q[k].price)) =
        SumFunctionOnSet(left, FirstOf(q, k - 1)) + left[o]
  <2>1. UpToPrice(side, q, k, q[k].price) = FirstOf(q, k - 1) \cup {o}
    BY <1>1 DEF UpToPrice
  <2>2. QED
    BY <1>1, <2>1, OneMoreOrder
<1>6. DepthTo(out, n) = SumFunctionOnSet(left, FirstOf(q, k - 1))
  <2>1. CASE k - 1 = 0
    <3>1. n = 0 /\ FirstOf(q, k - 1) = {}
      BY <1>3, <2>1 DEF FirstOf
    <3>2. n \in 0..n
      BY <1>2
    <3>3. DepthTo(out, n) = 0
      BY <1>2, <3>1, <3>2, DepthIs
    <3>4. SumFunctionOnSet(left, {}) = 0
      BY FS_EmptySet, SumSteps
    <3>5. QED
      BY <3>1, <3>3, <3>4
  <2>2. CASE k - 1 # 0
    <3>1. n \in 1..n /\ out[n].price = q[k - 1].price /\ k - 1 \in 1..Len(q)
      <4>1. n > 0 /\ out[n].price = q[k - 1].price
        BY <1>3, <2>2
      <4>2. Len(q) \in Nat /\ k <= Len(q)
        BY DEF Ranked
      <4>3. QED
        BY <1>2, <2>2, <4>1, <4>2
    <3>2. \A p \in FirstOf(q, k - 1) : NoWorse(side, Price[p], q[k - 1].price)
      BY <3>1, FirstOfGrows
    <3>3. UpToPrice(side, q, k - 1, out[n].price) = FirstOf(q, k - 1)
      BY <3>1, <3>2 DEF UpToPrice
    <3>4. QED
      BY <1>3, <3>1, <3>3
  <2>3. QED
    BY <2>1, <2>2
<1>7. DepthTo(out, n) \in Nat /\ left[o] \in Nat
  <2>1. SumFunctionOnSet(left, FirstOf(q, k - 1)) \in Nat /\ left[o] \in Nat
    BY <1>1, OneMoreOrder
  <2>2. QED
    BY <1>6, <2>1
<1> HIDE DEF o, n, r
<1>8. CASE out # <<>> /\ out[n].price = q[k].price
  <2>1. n \in 1..n /\ n > 0
    BY <1>2, <1>8 DEF n
  <2>2. /\ r \in Seq(Level) /\ Len(r) = n
        /\ \A m \in 1..n : /\ r[m].price = out[m].price
                           /\ r[m].quantity = out[m].quantity + (IF m = n THEN q[k].left ELSE 0)
    BY <1>1, <1>2, <1>8, GroupedIs DEF n, r
  <2>3. \A l \in 1..n, m \in 1..n : l < m => IsBetter(side, r[l].price, r[m].price)
    BY <1>3, <2>2
  <2>4. ASSUME NEW m \in 1..n
        PROVE  DepthTo(r, m) = SumFunctionOnSet(left, UpToPrice(side, q, k, r[m].price))
    <3>1. m - 1 \in 0..n /\ m \in 0..n /\ m \in Nat
      BY <1>2
    <3>2. CASE m # n
      <4>1. IsBetter(side, out[m].price, q[k].price)
        BY <1>2, <1>3, <1>8, <2>1, <3>2
      <4>2. \A i \in 1..m : r[i].quantity = out[i].quantity
        <5>1. \A i \in 1..m : i \in 1..n /\ i # n
          BY <1>2, <3>1, <3>2
        <5>2. ASSUME NEW i \in 1..n, i # n
              PROVE  r[i].quantity = out[i].quantity
          <6>1. r[i].quantity = out[i].quantity + 0 /\ out[i].quantity \in Nat
            BY <1>2, <2>2, <5>2
          <6>2. QED
            BY <6>1
        <5>3. QED
          BY <5>1, <5>2
      <4>3. DepthTo(r, m) = DepthTo(out, m)
        <5>1. m <= Len(r)
          BY <1>2, <2>2
        <5>2. QED
          BY <1>2, <2>2, <3>1, <4>2, <5>1, DepthIs DEF n
      <4>4. QED
        BY <1>3, <1>4, <2>2, <4>1, <4>3
    <3>3. CASE m = n
      <4>1. DepthTo(r, n - 1) = DepthTo(out, n - 1)
        <5>1. \A i \in 1..(n - 1) : i \in 1..n /\ i # n
          BY <1>2
        <5>2. ASSUME NEW i \in 1..(n - 1)
              PROVE  r[i].quantity = out[i].quantity
          <6>1. r[i].quantity = out[i].quantity + 0 /\ out[i].quantity \in Nat
            BY <1>2, <2>2, <5>1
          <6>2. QED
            BY <6>1
        <5>3. n - 1 <= Len(r) /\ n - 1 \in 0..n
          BY <1>2, <2>1, <2>2
        <5>4. QED
          BY <1>2, <2>2, <5>2, <5>3, DepthIs DEF n
      <4>2. /\ DepthTo(r, n) = DepthTo(r, n - 1) + r[n].quantity
            /\ DepthTo(out, n) = DepthTo(out, n - 1) + out[n].quantity
            /\ DepthTo(out, n - 1) \in Nat
        <5>1. n \in 0..n /\ n - 1 \in 0..n
          BY <1>2, <2>1
        <5>2. DepthTo(r, n) = DepthTo(r, n - 1) + r[n].quantity
          BY <2>1, <2>2, <5>1, DepthIs
        <5>3. DepthTo(out, n) = DepthTo(out, n - 1) + out[n].quantity
          BY <1>2, <2>1, <5>1, DepthIs DEF n
        <5>4. DepthTo(out, n - 1) \in Nat
          BY <1>2, <2>1, <5>1, DepthIs DEF n
        <5>5. QED
          BY <5>2, <5>3, <5>4
      <4>3. DepthTo(r, n) = DepthTo(out, n) + left[o]
        <5>1. r[n].quantity = out[n].quantity + left[o]
          BY <1>1, <2>1, <2>2
        <5>2. out[n].quantity \in Nat
          BY <1>2, <2>1
        <5>3. QED
          BY <1>7, <4>1, <4>2, <5>1, <5>2
      <4>4. QED
        BY <1>5, <1>6, <1>8, <2>1, <2>2, <3>3, <4>3
    <3>4. QED
      BY <3>2, <3>3
  <2>5. \A m \in 1..n : \E i \in 1..k : r[m].price = q[i].price
    BY <1>2, <1>3, <2>2
  <2>6. \A i \in 1..k : \E m \in 1..n : r[m].price = q[i].price
    <3>1. \A i \in 1..(k - 1) : \E m \in 1..n : r[m].price = q[i].price
      BY <1>3, <2>2
    <3>2. r[n].price = q[k].price
      BY <1>8, <2>1, <2>2
    <3>3. QED
      BY <1>2, <2>1, <3>1, <3>2
  <2>7. r[n].price = q[k].price
    BY <1>8, <2>1, <2>2
  <2>8. QED
    BY <1>2, <2>1, <2>2, <2>3, <2>4, <2>5, <2>6, <2>7 DEF Stack, r
<1>9. CASE out = <<>> \/ out[n].price # q[k].price
  <2>1. /\ r \in Seq(Level) /\ Len(r) = n + 1
        /\ \A m \in 1..n : r[m] = out[m]
        /\ r[n + 1].price = q[k].price /\ r[n + 1].quantity = q[k].left
    BY <1>1, <1>2, <1>9, GroupedIs DEF n, r
  <2>2. \A m \in 1..(n + 1) : m \in 1..n \/ m = n + 1
    BY <1>2
  \* The last level's price is the one before's, which is no worse and differs.
  <2>3. \A m \in 1..n : IsBetter(side, out[m].price, q[k].price)
    <3>1. ASSUME NEW m \in 1..n
          PROVE  IsBetter(side, out[m].price, q[k].price)
      <4>1. n \in 1..n /\ n > 0 /\ out # <<>>
        BY <1>2 DEF n
      <4>2. out[n].price = q[k - 1].price /\ k - 1 # 0
        BY <1>3, <4>1
      <4>3. NoWorse(side, q[k - 1].price, q[k].price)
        <5>1. k - 1 \in 1..Len(q) /\ k - 1 < k
          BY <1>2, <4>2 DEF Ranked
        <5>2. QED
          BY <5>1 DEF Ranked
      <4>4. IsBetter(side, out[n].price, q[k].price)
        BY <1>2, <1>9, <4>1, <4>2, <4>3 DEF IsBetter, NoWorse
      <4>5. m = n \/ IsBetter(side, out[m].price, out[n].price)
        BY <1>2, <1>3, <4>1
      <4>6. QED
        BY <1>2, <4>1, <4>4, <4>5 DEF IsBetter
    <3>2. QED
      BY <3>1
  <2>4. ASSUME NEW l \in 1..(n + 1), NEW m \in 1..(n + 1), l < m
        PROVE  IsBetter(side, r[l].price, r[m].price)
    <3>1. l \in 1..n
      BY <1>2, <2>4
    <3>2. CASE m = n + 1
      BY <2>1, <2>3, <3>1, <3>2
    <3>3. CASE m \in 1..n
      BY <1>3, <2>1, <2>4, <3>1, <3>3
    <3>4. QED
      BY <2>2, <3>2, <3>3
  <2>5. ASSUME NEW m \in 1..n
        PROVE  DepthTo(r, m) = DepthTo(out, m)
    <3>1. m \in 0..n /\ m <= Len(r) /\ \A i \in 1..m : i \in 1..n
      BY <1>2, <2>1
    <3>2. QED
      BY <1>2, <2>1, <3>1, DepthIs DEF n
  <2>6. ASSUME NEW m \in 1..(n + 1)
        PROVE  DepthTo(r, m) = SumFunctionOnSet(left, UpToPrice(side, q, k, r[m].price))
    <3>1. CASE m \in 1..n
      BY <1>3, <1>4, <2>1, <2>3, <2>5, <3>1
    <3>2. CASE m = n + 1
      <4>1. DepthTo(r, n) = DepthTo(out, n)
        <5>1. n \in 0..n /\ n <= Len(r)
          BY <1>2, <2>1
        <5>2. QED
          BY <1>2, <2>1, <5>1, DepthIs DEF n
      <4>2. DepthTo(r, n + 1) = DepthTo(r, n) + r[n + 1].quantity
        <5>1. n + 1 \in 0..Len(r) /\ n + 1 > 0 /\ (n + 1) - 1 = n
          BY <1>2, <2>1
        <5>2. DepthTo(r, n + 1) = DepthTo(r, (n + 1) - 1) + r[n + 1].quantity
          BY <2>1, <5>1, DepthIs
        <5>3. QED
          BY <5>1, <5>2
      <4>3. QED
        BY <1>1, <1>5, <1>6, <2>1, <3>2, <4>1, <4>2
    <3>3. QED
      BY <2>2, <3>1, <3>2
  <2>7. \A m \in 1..(n + 1) : \E i \in 1..k : r[m].price = q[i].price
    <3>1. \A m \in 1..n : \E i \in 1..(k - 1) : r[m].price = q[i].price
      BY <1>3, <2>1
    <3>2. QED
      BY <1>2, <2>1, <2>2, <3>1
  <2>8. \A i \in 1..k : \E m \in 1..(n + 1) : r[m].price = q[i].price
    <3>1. n + 1 \in 1..(n + 1) /\ 1..n \subseteq 1..(n + 1)
      BY <1>2
    <3>2. \A i \in 1..(k - 1) : \E m \in 1..n : r[m].price = q[i].price
      BY <1>3, <2>1
    <3>3. QED
      BY <1>2, <2>1, <3>1, <3>2
  <2>9. n + 1 > 0
    BY <1>2
  <2>10. QED
    BY <1>2, <2>1, <2>4, <2>6, <2>7, <2>8, <2>9 DEF Stack, r
<1>10. QED
  BY <1>8, <1>9 DEF n

\* The levels of all orders of the queue.
LEMMA StackHolds ==
  ASSUME Numbers, NEW side \in {"BUY", "SELL"}, NEW q, Ranked(side, q)
  PROVE  Stack(side, q, Len(q), FoldLeft(Grouped, <<>>, q))
<1>1. q \in Seq(Entry) /\ Len(q) \in Nat
  <2>1. q \in Seq(Entry)
    BY DEF Ranked
  <2>2. QED
    BY <2>1
<1>2. PICK t \in [0..Len(q) -> Seq(Level)] :
        /\ t[0] = <<>> /\ t[Len(q)] = FoldLeft(Grouped, <<>>, q)
        /\ \A k \in 1..Len(q) : t[k] = Grouped(t[k - 1], q[k])
  BY <1>1, LevelsAreBuilt
<1> DEFINE F == {k \in 0..Len(q) : Stack(side, q, k, t[k])}
<1>3. 0 \in F
  <2>1. 0 \in 0..Len(q) /\ <<>> \in Seq(Level) /\ Len(<<>>) = 0 /\ 1..0 = {}
    BY <1>1
  <2>2. Stack(side, q, 0, <<>>)
    BY <2>1 DEF Stack
  <2>3. QED
    BY <1>2, <2>1, <2>2
<1>4. ASSUME NEW k \in 1..Len(q), k - 1 \in F
      PROVE  k \in F
  <2>1. Stack(side, q, k - 1, t[k - 1]) /\ t[k] = Grouped(t[k - 1], q[k])
    BY <1>2, <1>4
  <2>2. Stack(side, q, k, t[k]) /\ k \in 0..Len(q)
    BY <1>1, <2>1, StackGrows
  <2>3. QED
    BY <2>2
<1> HIDE DEF F
<1>5. 0..Len(q) \subseteq F
  BY <1>1, <1>3, <1>4, UpTo
<1>6. Len(q) \in F
  BY <1>1, <1>5
<1>7. QED
  BY <1>2, <1>6 DEF F

-----------------------------------------------------------------------------
(* The levels as they are served *)

Opposite(side) == IF side = "BUY" THEN "SELL" ELSE "BUY"

\* a is the best levels of a side: the best first, each with what the engine counts as
\* the liquidity down to it, and no live order strictly between two of them.
Levelled(side, a) ==
  /\ a \in Seq([price : Nat, quantity : Nat, order_count : Nat, cumulative : Nat])
  /\ \A l \in 1..Len(a), m \in 1..Len(a) : l < m => IsBetter(side, a[l].price, a[m].price)
  /\ \A m \in 1..Len(a) : a[m].cumulative = LiquidityAgainst(Opposite(side), a[m].price)
  /\ \A m \in 1..Len(a) : \E o \in Live(side) : a[m].price = Price[o]
  /\ \A o \in Live(side), m \in 2..Len(a) :
       NoWorse(side, Price[o], a[m - 1].price) \/ NoWorse(side, a[m].price, Price[o])
  /\ a = <<>> => Live(side) = {}

\* What could be traded against a side at a price.
LEMMA LiquidityIs ==
  ASSUME NEW side \in {"BUY", "SELL"}, NEW price
  PROVE  LiquidityAgainst(Opposite(side), price) =
           SumFunctionOnSet(left, {o \in Live(side) : NoWorse(side, Price[o], price)})
<1> DEFINE other == Opposite(side)
           S == {o \in Orders : /\ Side[o] # other /\ stage[o] = "resting" /\ left[o] > 0
                                /\ IF other = "BUY" THEN Price[o] <= price ELSE Price[o] >= price}
<1>1. S = {o \in Live(side) : NoWorse(side, Price[o], price)}
  <2>1. \A o \in Orders : Side[o] # other <=> Side[o] = side
    BY BookFeedAssumption DEF Opposite
  <2>2. \A o \in Orders :
          NoWorse(side, Price[o], price) <=> IF other = "BUY" THEN Price[o] <= price ELSE Price[o] >= price
    BY DEF NoWorse, Opposite
  <2> HIDE DEF other
  <2>3. QED
    BY <2>1, <2>2 DEF Live
<1>2. QED
  BY <1>1 DEF LiquidityAgainst

LEMMA AggregateLevels ==
  ASSUME Numbers, NEW side \in {"BUY", "SELL"}
  PROVE  Levelled(side, aggregate(collect(Heap(side), side = "BUY"), MaxLevels))
<1> DEFINE q == collect(Heap(side), side = "BUY")
           levels == FoldLeft(Grouped, <<>>, q)
           n == Len(q)
           shown == IF MaxLevels > 0 /\ Len(levels) > MaxLevels THEN MaxLevels ELSE Len(levels)
           a == aggregate(q, MaxLevels)
<1>1. Ranked(side, q)
  BY CollectRanks
<1> HIDE DEF q
<1>2. Stack(side, q, n, levels)
  BY <1>1, StackHolds
<1>3. a = [i \in 1..shown |-> [price       |-> levels[i].price,
                               quantity    |-> levels[i].quantity,
                               order_count |-> levels[i].order_count,
                               cumulative  |-> DepthTo(levels, i)]]
  BY DEF aggregate, DepthTo
<1> HIDE DEF levels, a
<1>4. levels \in Seq(Level) /\ Len(levels) \in Nat /\ \A i \in 1..Len(levels) : levels[i] \in Level
  <2>1. levels \in Seq(Level)
    BY <1>2 DEF Stack
  <2>2. QED
    BY <2>1
<1>5. /\ shown \in Nat /\ shown <= Len(levels) /\ 1..shown \subseteq 1..Len(levels)
      /\ shown = 0 => Len(levels) = 0
  BY <1>4, Bounds
<1> HIDE DEF shown
<1>6. n \in Nat
  <2>1. q \in Seq(Entry)
    BY <1>1 DEF Ranked
  <2>2. QED
    BY <2>1
<1> HIDE DEF n
<1>7. \A i \in 1..shown : /\ a[i].price = levels[i].price
                          /\ a[i].cumulative = DepthTo(levels, i)
                          /\ a[i] \in [price : Nat, quantity : Nat, order_count : Nat, cumulative : Nat]
  <2>1. ASSUME NEW i \in 1..shown
        PROVE  /\ levels[i].price \in Nat /\ levels[i].quantity \in Nat /\ levels[i].order_count \in Nat
               /\ DepthTo(levels, i) \in Nat
    <3>1. levels[i] \in Level
      BY <1>4, <1>5
    <3>2. i \in 0..Len(levels)
      BY <1>4, <1>5
    <3>3. DepthTo(levels, i) \in Nat
      BY <1>4, <3>2, DepthIs
    <3>4. QED
      BY <3>1, <3>3 DEF Level
  <2>2. QED
    BY <1>3, <2>1
<1>8. a \in Seq([price : Nat, quantity : Nat, order_count : Nat, cumulative : Nat]) /\ Len(a) = shown
  <2> DEFINE R == [price : Nat, quantity : Nat, order_count : Nat, cumulative : Nat]
  <2>1. \A i \in 1..shown : a[i] \in R
    BY <1>7
  <2> HIDE DEF R
  <2>2. a \in [1..shown -> R]
    BY <1>3, <2>1
  <2>3. a \in Seq(R) /\ Len(a) = shown
    BY <1>5, <2>2
  <2>4. QED
    BY <2>3 DEF R
<1>9. \A l \in 1..shown, m \in 1..shown : l < m => IsBetter(side, a[l].price, a[m].price)
  <2>1. \A l \in 1..Len(levels), m \in 1..Len(levels) :
          l < m => IsBetter(side, levels[l].price, levels[m].price)
    BY <1>2 DEF Stack
  <2>2. QED
    BY <1>5, <1>7, <2>1
\* The queue holds all that is live.
<1>10. /\ FirstOf(q, n) = Live(side)
       /\ \A i \in 1..n : q[i].id \in Live(side) /\ q[i].price = Price[q[i].id]
  BY <1>1 DEF Ranked, FirstOf, n
<1>11. ASSUME NEW m \in 1..shown
       PROVE  a[m].cumulative = LiquidityAgainst(Opposite(side), a[m].price)
  <2>1. m \in 1..Len(levels)
    BY <1>5
  <2>2. DepthTo(levels, m) = SumFunctionOnSet(left, UpToPrice(side, q, n, levels[m].price))
    BY <1>2, <2>1 DEF Stack
  <2>3. UpToPrice(side, q, n, levels[m].price) = {o \in Live(side) : NoWorse(side, Price[o], levels[m].price)}
    BY <1>10 DEF UpToPrice
  <2>4. QED
    BY <1>7, <2>2, <2>3, LiquidityIs
<1>12. ASSUME NEW m \in 1..shown
       PROVE  \E o \in Live(side) : a[m].price = Price[o]
  <2>1. m \in 1..Len(levels)
    BY <1>5
  <2>2. PICK i \in 1..n : levels[m].price = q[i].price
    BY <1>2, <2>1 DEF Stack
  <2>3. QED
    BY <1>7, <1>10, <2>2
\* A live order is at some level, served or not.
<1>13. \A o \in Live(side) : \E j \in 1..Len(levels) : levels[j].price = Price[o]
  <2>1. ASSUME NEW o \in Live(side)
        PROVE  \E j \in 1..Len(levels) : levels[j].price = Price[o]
    <3>1. PICK i \in 1..n : q[i].id = o
      BY <1>10 DEF FirstOf
    <3>2. \E j \in 1..Len(levels) : levels[j].price = q[i].price
      BY <1>2 DEF Stack
    <3>3. QED
      BY <1>10, <3>1, <3>2
  <2>2. QED
    BY <2>1
<1>14. ASSUME NEW o \in Live(side), NEW m \in 2..shown
       PROVE  NoWorse(side, Price[o], a[m - 1].price) \/ NoWorse(side, a[m].price, Price[o])
  <2>1. m - 1 \in 1..shown /\ m \in 1..shown /\ m \in Nat
    BY <1>5
  <2>2. m - 1 \in 1..Len(levels) /\ m \in 1..Len(levels)
    BY <1>5, <2>1
  <2>3. PICK j \in 1..Len(levels) : levels[j].price = Price[o]
    BY <1>13
  <2>4. levels[m - 1].price \in Nat /\ levels[m].price \in Nat /\ levels[j].price \in Nat
    <3>1. levels[m - 1] \in Level /\ levels[m] \in Level /\ levels[j] \in Level
      BY <1>4, <2>2
    <3>2. QED
      BY <3>1 DEF Level
  <2>5. /\ j < m - 1 => IsBetter(side, levels[j].price, levels[m - 1].price)
        /\ m < j => IsBetter(side, levels[m].price, levels[j].price)
    BY <1>2, <2>2 DEF Stack
  <2>6. j < m - 1 \/ j = m - 1 \/ j = m \/ m < j
    BY <2>1
  <2>7. a[m - 1].price = levels[m - 1].price /\ a[m].price = levels[m].price
    BY <1>7, <2>1
  <2>8. QED
    BY <2>3, <2>4, <2>5, <2>6, <2>7 DEF NoWorse, IsBetter
<1>15. a = <<>> => Live(side) = {}
  <2>1. a = <<>> => Len(levels) = 0
    BY <1>5, <1>8
  <2>2. QED
    BY <1>13, <2>1
<1>16. Levelled(side, a)
  BY <1>8, <1>9, <1>11, <1>12, <1>14, <1>15 DEF Levelled
<1>17. QED
  BY <1>16 DEF a, q

\* The two sides of the depth that is shown.
LEMMA ShownIs ==
  ASSUME Numbers
  PROVE  /\ Levelled("BUY", Shown.bids) /\ Levelled("SELL", Shown.asks)
         /\ Shown.mid = IF Shown.bids # <<>> /\ Shown.asks # <<>>
                        THEN (Shown.asks[1].price + Shown.bids[1].price) \div 2 ELSE None
<1> DEFINE b == aggregate(collect(Heap("BUY"), TRUE), MaxLevels)
           a == aggregate(collect(Heap("SELL"), FALSE), MaxLevels)
<1>1. Levelled("BUY", b) /\ Levelled("SELL", a)
  <2>1. ("BUY" = "BUY") = TRUE /\ ("SELL" = "BUY") = FALSE
    OBVIOUS
  <2>2. /\ Levelled("BUY", aggregate(collect(Heap("BUY"), "BUY" = "BUY"), MaxLevels))
        /\ Levelled("SELL", aggregate(collect(Heap("SELL"), "SELL" = "BUY"), MaxLevels))
    BY AggregateLevels
  <2>3. QED
    BY <2>1, <2>2
<1>2. /\ Shown.bids = b /\ Shown.asks = a
      /\ Shown.mid = IF b # <<>> /\ a # <<>> THEN (a[1].price + b[1].price) \div 2 ELSE None
  BY DEF Shown, Depth
<1> HIDE DEF a, b
<1>3. QED
  BY <1>1, <1>2

-----------------------------------------------------------------------------
(* The ladder *)

Served == [price : Nat, quantity : Nat, order_count : Nat, cumulative : Nat]

\* The levels a panel shows are among those it is given.
LEMMA FirstIs ==
  ASSUME PanelsAssumption, NEW a \in Seq(Served)
  PROVE  /\ firstOf(a, VISIBLE_LEVELS) \in Seq(Served)
         /\ Len(firstOf(a, VISIBLE_LEVELS)) <= Len(a)
         /\ \A i \in 1..Len(firstOf(a, VISIBLE_LEVELS)) : firstOf(a, VISIBLE_LEVELS)[i] = a[i]
<1> DEFINE n == Min({VISIBLE_LEVELS, Len(a)})
<1>1. Len(a) \in Nat /\ VISIBLE_LEVELS \in Nat
  BY DEF PanelsAssumption
<1>2. n \in 0..Len(a)
  <2>1. n = IF VISIBLE_LEVELS <= Len(a) THEN VISIBLE_LEVELS ELSE Len(a)
    <3>1. VISIBLE_LEVELS \in Int /\ Len(a) \in Int
      BY <1>1
    <3>2. ASSUME NEW x \in Int, NEW y \in Int
          PROVE  Min({x, y}) = IF x <= y THEN x ELSE y
      BY OfTwo
    <3>3. QED
      BY <3>1, <3>2, Zenon
  <2>2. QED
    BY <1>1, <2>1
<1> HIDE DEF n
<1>3. firstOf(a, VISIBLE_LEVELS) = SubSeq(a, 1, n)
  BY DEF firstOf, n
<1>4. SubSeq(a, 1, n) \in Seq(Served) /\ Len(SubSeq(a, 1, n)) = n
  BY <1>1, <1>2
<1>5. \A i \in 1..n : SubSeq(a, 1, n)[i] = a[i]
  BY <1>1, <1>2
<1>6. QED
  BY <1>1, <1>2, <1>3, <1>4, <1>5

\* Every row of the ladder is some level's, under its side.
LEMMA RowsAre ==
  ASSUME PanelsAssumption, NEW levels, levels.bids \in Seq(Served), levels.asks \in Seq(Served)
  PROVE  \A i \in DOMAIN OrderBookPanel(levels) :
           \/ \E max : \E m \in 1..Len(levels.asks) :
                OrderBookPanel(levels)[i] = LadderRow(levels.asks[m], "SELL", max)
           \/ \E max : \E m \in 1..Len(levels.bids) :
                OrderBookPanel(levels)[i] = LadderRow(levels.bids[m], "BUY", max)
<1> DEFINE bids == firstOf(levels.bids, VISIBLE_LEVELS)
           asks == firstOf(levels.asks, VISIBLE_LEVELS)
           max  == Max({lastOr(bids, 0), lastOr(asks, 0), 1})
           A == {LadderRow(levels.asks[m], "SELL", max) : m \in 1..Len(levels.asks)}
           B == {LadderRow(levels.bids[m], "BUY", max) : m \in 1..Len(levels.bids)}
<1>1. /\ bids \in Seq(Served) /\ Len(bids) <= Len(levels.bids)
      /\ \A i \in 1..Len(bids) : bids[i] = levels.bids[i]
      /\ asks \in Seq(Served) /\ Len(asks) <= Len(levels.asks)
      /\ \A i \in 1..Len(asks) : asks[i] = levels.asks[i]
      /\ Len(levels.bids) \in Nat /\ Len(levels.asks) \in Nat
  BY FirstIs
<1>2. OrderBookPanel(levels) = AskRows(asks, max) \o BidRows(bids, max)
  BY DEF OrderBookPanel
<1> HIDE DEF bids, asks, max
<1>3. Len(bids) \in Nat /\ Len(asks) \in Nat /\ DOMAIN bids = 1..Len(bids) /\ DOMAIN asks = 1..Len(asks)
  BY <1>1
<1>4. AskRows(asks, max) \in Seq(A \cup B)
  <2>1. ASSUME NEW i \in 1..Len(asks)
        PROVE  LadderRow(Reverse(asks)[i], "SELL", max) \in A
    <3> DEFINE m == (Len(asks) - i) + 1
    <3>1. m \in 1..Len(asks) /\ m \in 1..Len(levels.asks)
      BY <1>1, <1>3
    <3>2. Reverse(asks)[i] = asks[m]
      BY <1>3 DEF Reverse
    <3> HIDE DEF m
    <3>3. Reverse(asks)[i] = levels.asks[m]
      BY <1>1, <3>1, <3>2
    <3>4. QED
      BY <3>1, <3>3
  <2>2. AskRows(asks, max) = [i \in 1..Len(asks) |-> LadderRow(Reverse(asks)[i], "SELL", max)]
    BY <1>3 DEF AskRows
  <2> HIDE DEF A, B
  <2>3. AskRows(asks, max) \in [1..Len(asks) -> A \cup B]
    BY <2>1, <2>2
  <2>4. QED
    BY <1>3, <2>3
<1>5. BidRows(bids, max) \in Seq(A \cup B)
  <2>1. ASSUME NEW i \in 1..Len(bids)
        PROVE  LadderRow(bids[i], "BUY", max) \in B
    <3>1. i \in 1..Len(levels.bids) /\ bids[i] = levels.bids[i]
      BY <1>1, <1>3
    <3>2. QED
      BY <3>1
  <2>2. BidRows(bids, max) = [i \in 1..Len(bids) |-> LadderRow(bids[i], "BUY", max)]
    BY <1>3 DEF BidRows
  <2> HIDE DEF A, B
  <2>3. BidRows(bids, max) \in [1..Len(bids) -> A \cup B]
    BY <2>1, <2>2
  <2>4. QED
    BY <1>3, <2>3
<1>6. \A i \in DOMAIN OrderBookPanel(levels) : OrderBookPanel(levels)[i] \in A \cup B
  <2> HIDE DEF A, B
  <2>1. OrderBookPanel(levels) \in Seq(A \cup B)
    BY <1>2, <1>4, <1>5
  <2>2. QED
    BY <2>1
<1>7. QED
  BY <1>6

\* A click on any row loads an order that would take exactly what the row shows as its
\* total: the liquidity the engine's fill-or-kill check counts at that price.
LEMMA LadderLoads ==
  ASSUME PanelsAssumption, Numbers
  PROVE  LevelLoadsItsTotal
<1> DEFINE bids == Shown.bids
           asks == Shown.asks
           rows == OrderBookPanel(Shown)
<1>1. Levelled("BUY", bids) /\ Levelled("SELL", asks)
  BY ShownIs
<1>2. bids \in Seq(Served) /\ asks \in Seq(Served)
  BY <1>1 DEF Levelled, Served
<1>3. \A i \in DOMAIN rows :
        \/ \E max : \E m \in 1..Len(asks) : rows[i] = LadderRow(asks[m], "SELL", max)
        \/ \E max : \E m \in 1..Len(bids) : rows[i] = LadderRow(bids[m], "BUY", max)
  BY <1>2, RowsAre
<1> HIDE DEF bids, asks, rows
<1>4. ASSUME NEW i \in DOMAIN rows
      PROVE  LiquidityAgainst(Loaded(rows[i]).side, Loaded(rows[i]).price) = rows[i].total
  <2>1. CASE \E max : \E m \in 1..Len(asks) : rows[i] = LadderRow(asks[m], "SELL", max)
    <3>1. PICK max : \E m \in 1..Len(asks) : rows[i] = LadderRow(asks[m], "SELL", max)
      BY <2>1
    <3>2. PICK m \in 1..Len(asks) : rows[i] = LadderRow(asks[m], "SELL", max)
      BY <3>1
    <3>3. rows[i].total = asks[m].cumulative /\ Loaded(rows[i]) = [price |-> asks[m].price, side |-> "BUY"]
      BY <3>2 DEF LadderRow, Loaded
    <3>4. asks[m].cumulative = LiquidityAgainst("BUY", asks[m].price)
      BY <1>1 DEF Levelled, Opposite
    <3>5. QED
      BY <3>3, <3>4
  <2>2. CASE \E max : \E m \in 1..Len(bids) : rows[i] = LadderRow(bids[m], "BUY", max)
    <3>1. PICK max : \E m \in 1..Len(bids) : rows[i] = LadderRow(bids[m], "BUY", max)
      BY <2>2
    <3>2. PICK m \in 1..Len(bids) : rows[i] = LadderRow(bids[m], "BUY", max)
      BY <3>1
    <3>3. rows[i].total = bids[m].cumulative /\ Loaded(rows[i]) = [price |-> bids[m].price, side |-> "SELL"]
      BY <3>2 DEF LadderRow, Loaded
    <3>4. bids[m].cumulative = LiquidityAgainst("SELL", bids[m].price)
      BY <1>1 DEF Levelled, Opposite
    <3>5. QED
      BY <3>3, <3>4
  <2>3. QED
    BY <1>3, <2>1, <2>2
<1>5. QED
  BY <1>4 DEF LevelLoadsItsTotal, rows

\* For a book of any size, among dead orders and shared levels, and for any limits of
\* the stream and the ladder.
THEOREM LadderHolds == Spec => []LevelLoadsItsTotal
<1>1. Inv /\ PanelsAssumption => LevelLoadsItsTotal
  BY InvNumbers, LadderLoads
<1>2. QED
  BY <1>1, TypeHolds, PanelsAssumption, PTL

-----------------------------------------------------------------------------
(* The curve *)

Path == {p \in Seq(Nat \X Nat) : Len(p) > 0}

\* One more level: across to its price at the height so far, then to its own.
LEMMA SteppedIs ==
  ASSUME NEW p \in Path, NEW l \in Served
  PROVE  /\ Stepped(p, l) \in Path /\ Len(Stepped(p, l)) = Len(p) + 2
         /\ \A i \in 1..Len(p) : Stepped(p, l)[i] = p[i]
         /\ Stepped(p, l)[Len(p) + 1] = <<l.price, p[Len(p)][2]>>
         /\ Stepped(p, l)[Len(p) + 2] = <<l.price, l.cumulative>>
<1> DEFINE n == Len(p)
           x == <<l.price, p[n][2]>>
           y == <<l.price, l.cumulative>>
<1>1. p \in Seq(Nat \X Nat) /\ n \in Nat /\ n > 0
  BY DEF Path
<1>2. x \in Nat \X Nat /\ y \in Nat \X Nat
  <2>1. p[n] \in Nat \X Nat
    BY <1>1
  <2>2. p[n][2] \in Nat /\ l.price \in Nat /\ l.cumulative \in Nat
    BY <2>1 DEF Served
  <2>3. QED
    BY <2>2
<1>3. Stepped(p, l) = p \o <<x, y>>
  BY DEF Stepped, Last
<1> HIDE DEF x, y
<1>4. <<x, y>> \in Seq(Nat \X Nat) /\ Len(<<x, y>>) = 2 /\ <<x, y>>[1] = x /\ <<x, y>>[2] = y
  BY <1>2
<1> DEFINE z == <<x, y>>
<1> HIDE DEF z
<1>5. /\ p \o z \in Seq(Nat \X Nat) /\ Len(p \o z) = n + 2
      /\ \A i \in 1..n : (p \o z)[i] = p[i]
      /\ (p \o z)[n + 1] = z[1] /\ (p \o z)[n + 2] = z[2]
  BY <1>1, <1>4 DEF z
<1>6. QED
  BY <1>1, <1>3, <1>4, <1>5 DEF Path, x, y, z

\* The fold goes through the levels from the first.
PathFold(base, s, h) ==
  h = [S \in SUBSET DOMAIN s |-> IF S = {} THEN base ELSE Stepped(h[S \ {Max(S)}], s[Max(S)])]

LEMMA PathUnfolds ==
  ASSUME NEW base, NEW s
  PROVE  FoldLeft(Stepped, base, s) = (CHOOSE h : PathFold(base, s, h))[DOMAIN s]
  BY DEF FoldLeft, MapThenFoldSet, PathFold

\* The whole curve, as it was after each level.
LEMMA PathIsBuilt ==
  ASSUME NEW base \in Path, NEW s \in Seq(Served)
  PROVE  \E t \in [0..Len(s) -> Path] :
           /\ t[0] = base /\ t[Len(s)] = FoldLeft(Stepped, base, s)
           /\ \A k \in 1..Len(s) : t[k] = Stepped(t[k - 1], s[k])
<1> DEFINE n == Len(s)
           f == [x \in Path \X (1..n) |-> Stepped(x[1], s[x[2]])]
           h == CHOOSE h : PathFold(base, s, h)
<1>1. n \in Nat /\ DOMAIN s = 1..n /\ \A i \in 1..n : s[i] \in Served
  OBVIOUS
<1> HIDE DEF n
<1>2. f \in [Path \X (1..n) -> Path]
  <2>1. \A x \in Path \X (1..n) : Stepped(x[1], s[x[2]]) \in Path
    BY <1>1, SteppedIs
  <2>2. QED
    BY <2>1
<1>3. PathFold(base, s, h)
  <2>1. PICK g \in [SUBSET (1..n) -> Path] :
          \A S \in SUBSET (1..n) : g[S] = IF S = {} THEN base ELSE f[<<g[S \ {Max(S)}], Max(S)>>]
    <3>1. PICK g \in [SUBSET (1..n) -> Path] : FoldsOver(g, f, base, n)
      <4> HIDE DEF f
      <4>1. QED
        BY <1>1, <1>2, FoldsLeft
    <3> HIDE DEF f
    <3>2. QED
      BY <3>1 DEF FoldsOver
  <2>2. ASSUME NEW S \in SUBSET (1..n)
        PROVE  g[S] = IF S = {} THEN base ELSE Stepped(g[S \ {Max(S)}], s[Max(S)])
    <3>1. CASE S = {}
      BY <2>1, <3>1
    <3>2. CASE S # {}
      <4>1. Max(S) \in 1..n /\ g[S \ {Max(S)}] \in Path
        BY <1>1, <2>1, <3>2, LastPosition
      <4>2. <<g[S \ {Max(S)}], Max(S)>> \in Path \X (1..n)
        BY <4>1
      <4>3. QED
        BY <2>1, <3>2, <4>2
    <3>3. QED
      BY <3>1, <3>2
  <2>3. g = [S \in SUBSET (1..n) |-> g[S]]
    BY <2>1
  <2>4. g = [S \in SUBSET DOMAIN s |-> IF S = {} THEN base ELSE Stepped(g[S \ {Max(S)}], s[Max(S)])]
    BY <1>1, <2>2, <2>3
  <2>5. PathFold(base, s, g)
    BY <2>4 DEF PathFold
  <2>6. QED
    BY <2>5
<1> DEFINE t == [k \in 0..n |-> h[1..k]]
<1> HIDE DEF h
<1>4. \A S \in SUBSET (1..n) : h[S] = IF S = {} THEN base ELSE Stepped(h[S \ {Max(S)}], s[Max(S)])
  BY <1>1, <1>3 DEF PathFold
<1>5. t[0] = base
  <2>1. 1..0 = {} /\ 0 \in 0..n /\ {} \in SUBSET (1..n)
    BY <1>1
  <2>2. QED
    BY <1>4, <2>1
<1>6. ASSUME NEW k \in 1..n
      PROVE  t[k] = Stepped(t[k - 1], s[k])
  <2>1. Max(1..k) = k /\ (1..k) \ {Max(1..k)} = 1..(k - 1)
    BY LastOfInterval
  <2>2. 1..k # {} /\ 1..k \in SUBSET (1..n) /\ k \in 0..n /\ k - 1 \in 0..n
    <3>1. k \in Nat /\ k > 0 /\ k <= n
      BY <1>1
    <3>2. k \in 1..k /\ k \in 0..n /\ k - 1 \in 0..n
      BY <1>1, <3>1
    <3>3. \A i \in 1..k : i \in 1..n
      BY <1>1, <3>1
    <3>4. QED
      BY <3>2, <3>3
  <2>3. h[1..k] = Stepped(h[1..(k - 1)], s[k])
    BY <1>4, <2>1, <2>2
  <2>4. QED
    BY <2>2, <2>3
<1>7. t \in [0..n -> Path]
  <2> DEFINE F == {k \in 0..n : t[k] \in Path}
  <2>1. 0 \in F
    <3>1. 0 \in 0..n
      BY <1>1
    <3> HIDE DEF t
    <3>2. QED
      BY <1>5, <3>1
  <2>2. ASSUME NEW k \in 1..n, k - 1 \in F
        PROVE  k \in F
    <3> HIDE DEF t
    <3>1. Stepped(t[k - 1], s[k]) \in Path
      BY <1>1, <2>2, SteppedIs
    <3>2. QED
      BY <1>1, <1>6, <3>1
  <2> HIDE DEF F
  <2>3. 0..n \subseteq F
    BY <1>1, <2>1, <2>2, UpTo
  <2>4. \A k \in 0..n : t[k] \in Path
    BY <2>3 DEF F
  <2>5. t = [k \in 0..n |-> t[k]]
    OBVIOUS
  <2> HIDE DEF t
  <2>6. QED
    BY <2>4, <2>5
<1>8. t[n] = FoldLeft(Stepped, base, s)
  <2>1. t[n] = h[DOMAIN s]
    BY <1>1
  <2> HIDE DEF t
  <2>2. QED
    BY <2>1, PathUnfolds DEF h
<1> HIDE DEF t
<1>9. QED
  BY <1>5, <1>6, <1>7, <1>8 DEF n

\* The curve over the first k + 1 levels: at each its depth, and between two the depth of
\* the first of them.
Drawn(L, k, p) ==
  /\ p \in Path /\ Len(p) = 2 * k + 1
  /\ \A i \in 1..(k + 1) : p[2 * i - 1] = <<L[i].price, L[i].cumulative>>
  /\ \A i \in 1..k : p[2 * i] = <<L[i + 1].price, L[i].cumulative>>

LEMMA CurveIsDrawn ==
  ASSUME NEW L \in Seq(Served), L # <<>>
  PROVE  Drawn(L, Len(L) - 1, stepPath(L))
<1> DEFINE n == Len(L) - 1
           s == Tail(L)
           base == << <<L[1].price, L[1].cumulative>> >>
<1>1. /\ n \in Nat /\ Len(L) = n + 1 /\ \A i \in 1..(n + 1) : L[i] \in Served
  OBVIOUS
<1>2. s \in Seq(Served) /\ Len(s) = n /\ \A i \in 1..n : s[i] = L[i + 1]
  OBVIOUS
<1>3. base \in Path /\ Len(base) = 1 /\ base[1] = <<L[1].price, L[1].cumulative>>
  <2> DEFINE c == <<L[1].price, L[1].cumulative>>
  <2>1. L[1] \in Served
    BY <1>1
  <2>2. c \in Nat \X Nat
    BY <2>1 DEF Served
  <2> HIDE DEF c
  <2>3. <<c>> \in Seq(Nat \X Nat) /\ Len(<<c>>) = 1 /\ <<c>>[1] = c
    BY <2>2
  <2>4. QED
    BY <2>3 DEF Path, c
<1>4. stepPath(L) = FoldLeft(Stepped, base, s)
  BY DEF stepPath
<1> HIDE DEF n, s, base
<1>5. PICK t \in [0..n -> Path] :
        /\ t[0] = base /\ t[n] = stepPath(L)
        /\ \A k \in 1..n : t[k] = Stepped(t[k - 1], s[k])
  <2>1. \E t \in [0..Len(s) -> Path] :
          /\ t[0] = base /\ t[Len(s)] = FoldLeft(Stepped, base, s)
          /\ \A k \in 1..Len(s) : t[k] = Stepped(t[k - 1], s[k])
    BY <1>2, <1>3, PathIsBuilt
  <2>2. Len(s) = n
    BY <1>2
  <2>3. QED
    BY <1>4, <2>1, <2>2, Zenon
<1> DEFINE F == {k \in 0..n : Drawn(L, k, t[k])}
<1>6. 0 \in F
  <2>1. Drawn(L, 0, base)
    <3>1. \A i \in 1..(0 + 1) : i = 1 /\ 2 * i - 1 = 1
      OBVIOUS
    <3>2. Len(base) = 2 * 0 + 1
      BY <1>3
    <3>3. \A i \in 1..(0 + 1) : base[2 * i - 1] = <<L[i].price, L[i].cumulative>>
      BY <1>3, <3>1
    <3>4. 1..0 = {}
      OBVIOUS
    <3>5. QED
      BY <1>3, <3>2, <3>3, <3>4 DEF Drawn
  <2>2. 0 \in 0..n
    BY <1>1
  <2>3. QED
    BY <1>5, <2>1, <2>2
<1>7. ASSUME NEW k \in 1..n, k - 1 \in F
      PROVE  k \in F
  <2> DEFINE p == t[k - 1]
             r == t[k]
  <2>1. k \in Nat /\ k - 1 \in Nat /\ k \in 0..n /\ k - 1 \in 0..n
    BY <1>1
  <2>2. Drawn(L, k - 1, p) /\ r = Stepped(p, s[k])
    BY <1>5, <1>7
  <2>3. s[k] \in Served /\ s[k] = L[k + 1] /\ p \in Path
    BY <1>1, <1>2, <2>2 DEF Drawn
  <2>4. Len(p) = 2 * k - 1
    <3>1. Len(p) = 2 * (k - 1) + 1
      BY <2>2 DEF Drawn
    <3>2. QED
      BY <2>1, <3>1
  <2> HIDE DEF p, r
  <2>5. /\ r \in Path /\ Len(r) = Len(p) + 2
        /\ \A i \in 1..Len(p) : r[i] = p[i]
        /\ r[Len(p) + 1] = <<L[k + 1].price, p[Len(p)][2]>>
        /\ r[Len(p) + 2] = <<L[k + 1].price, L[k + 1].cumulative>>
    <3>1. /\ Stepped(p, s[k]) \in Path /\ Len(Stepped(p, s[k])) = Len(p) + 2
          /\ \A i \in 1..Len(p) : Stepped(p, s[k])[i] = p[i]
          /\ Stepped(p, s[k])[Len(p) + 1] = <<s[k].price, p[Len(p)][2]>>
          /\ Stepped(p, s[k])[Len(p) + 2] = <<s[k].price, s[k].cumulative>>
      BY <2>3, SteppedIs
    <3>2. r = Stepped(p, s[k]) /\ s[k] = L[k + 1]
      BY <2>2, <2>3
    <3>3. QED
      BY <3>1, <3>2
  <2>6. /\ \A i \in 1..k : p[2 * i - 1] = <<L[i].price, L[i].cumulative>>
        /\ \A i \in 1..(k - 1) : p[2 * i] = <<L[i + 1].price, L[i].cumulative>>
    <3>1. (k - 1) + 1 = k
      BY <2>1
    <3>2. QED
      BY <2>2, <3>1 DEF Drawn
  <2>7. p[Len(p)][2] = L[k].cumulative
    <3>1. k \in 1..k
      BY <2>1
    <3>2. p[2 * k - 1] = <<L[k].price, L[k].cumulative>>
      BY <2>6, <3>1
    <3>3. QED
      BY <2>4, <3>2
  <2>8. Len(r) = 2 * k + 1
    BY <2>1, <2>4, <2>5
  <2>9. ASSUME NEW i \in 1..(k + 1)
        PROVE  r[2 * i - 1] = <<L[i].price, L[i].cumulative>>
    <3>1. CASE i = k + 1
      <4>1. 2 * i - 1 = Len(p) + 2
        BY <2>1, <2>4, <3>1
      <4>2. QED
        BY <2>5, <3>1, <4>1
    <3>2. CASE i # k + 1
      <4>1. i \in 1..k /\ 2 * i - 1 \in 1..Len(p)
        BY <2>1, <2>4, <3>2
      <4>2. QED
        BY <2>5, <2>6, <4>1
    <3>3. QED
      BY <3>1, <3>2
  <2>10. ASSUME NEW i \in 1..k
         PROVE  r[2 * i] = <<L[i + 1].price, L[i].cumulative>>
    <3>1. CASE i = k
      <4>1. 2 * i = Len(p) + 1
        BY <2>1, <2>4, <3>1
      <4>2. QED
        BY <2>5, <2>7, <3>1, <4>1
    <3>2. CASE i # k
      <4>1. i \in 1..(k - 1) /\ 2 * i \in 1..Len(p)
        BY <2>1, <2>4, <3>2
      <4>2. QED
        BY <2>5, <2>6, <4>1
    <3>3. QED
      BY <3>1, <3>2
  <2>11. Drawn(L, k, r)
    BY <2>5, <2>8, <2>9, <2>10 DEF Drawn
  <2>12. QED
    BY <2>1, <2>11 DEF r
<1> HIDE DEF F
<1>8. 0..n \subseteq F
  BY <1>1, <1>6, <1>7, UpTo
<1>9. n \in F
  BY <1>1, <1>8
<1>10. Drawn(L, n, t[n])
  BY <1>9 DEF F
<1>11. QED
  BY <1>5, <1>10 DEF n

\* Prices that only grow along the curve.
Rising(L) == \A i \in 1..Len(L), j \in 1..Len(L) : i < j => L[i].price < L[j].price

\* Between two levels the curve is as high as the first of them, whichever of its edges
\* is chosen: only one spans the price.
LEMMA HeightIs ==
  ASSUME NEW L \in Seq(Served), Rising(L), NEW m \in 1..Len(L), m < Len(L), NEW price \in Nat,
         L[m].price < price, price < L[m + 1].price
  PROVE  heightAt(stepPath(L), price) = L[m].cumulative
<1> DEFINE p == stepPath(L)
           n == Len(L)
           spans(i) == p[i][1] < price /\ price < p[i + 1][1]
           e == CHOOSE i \in 1..(Len(p) - 1) : spans(i)
<1>1. n \in Nat /\ n - 1 \in Nat /\ m \in Nat /\ \A i \in 1..n : L[i] \in Served
  OBVIOUS
<1>2. /\ Len(p) = 2 * (n - 1) + 1
      /\ \A i \in 1..n : p[2 * i - 1] = <<L[i].price, L[i].cumulative>>
      /\ \A i \in 1..(n - 1) : p[2 * i] = <<L[i + 1].price, L[i].cumulative>>
  <2>1. Drawn(L, n - 1, p)
    BY <1>1, CurveIsDrawn
  <2>2. (n - 1) + 1 = n
    BY <1>1
  <2> HIDE DEF p, n
  <2>3. QED
    BY <2>1, <2>2 DEF Drawn
<1>3. \A i \in 1..n : L[i].price \in Nat /\ L[i].cumulative \in Nat
  BY <1>1 DEF Served
<1>4. heightAt(stepPath(L), price) = p[e][2]
  BY DEF heightAt
<1> HIDE DEF p
<1>5. 2 * m - 1 \in 1..(Len(p) - 1) /\ spans(2 * m - 1)
  <2>1. m \in 1..(n - 1) /\ m \in 1..n
    BY <1>1
  <2>2. (2 * m - 1) + 1 = 2 * m /\ 2 * m - 1 \in 1..(Len(p) - 1)
    BY <1>1, <1>2, <2>1
  <2>3. p[2 * m - 1][1] = L[m].price /\ p[2 * m][1] = L[m + 1].price
    BY <1>2, <2>1
  <2>4. QED
    BY <2>2, <2>3
<1>6. e \in 1..(Len(p) - 1) /\ spans(e)
  <2> HIDE DEF spans
  <2>1. QED
    BY <1>5
<1> HIDE DEF e
<1>7. PICK j \in 1..(n - 1) : e = 2 * j - 1 \/ e = 2 * j
  <2>1. e \in 1..(2 * (n - 1))
    BY <1>1, <1>2, <1>6
  <2>2. PICK k \in Int : e = 2 * k \/ e = 2 * k - 1
    <3>1. e \in Int
      BY <2>1
    <3>2. e = 2 * ((e + 1) \div 2) \/ e = 2 * ((e + 1) \div 2) - 1
      BY <3>1
    <3>3. (e + 1) \div 2 \in Int
      BY <3>1
    <3>4. QED
      BY <3>2, <3>3
  <2>3. k \in 1..(n - 1)
    BY <1>1, <2>1, <2>2
  <2>4. QED
    BY <2>2, <2>3
<1>8. j \in 1..n /\ j + 1 \in 1..n
  BY <1>1
<1>9. CASE e = 2 * j
  <2>1. e + 1 = 2 * (j + 1) - 1
    BY <1>8, <1>9
  <2>2. p[e + 1] = <<L[j + 1].price, L[j + 1].cumulative>> /\ p[e] = <<L[j + 1].price, L[j].cumulative>>
    BY <1>2, <1>8, <1>9, <2>1
  <2>3. L[j + 1].price < price /\ price < L[j + 1].price
    BY <1>6, <2>2
  <2>4. QED
    BY <1>3, <1>8, <2>3
<1>10. CASE e = 2 * j - 1
  <2>1. e + 1 = 2 * j
    BY <1>8, <1>10
  <2>2. p[e] = <<L[j].price, L[j].cumulative>> /\ p[e + 1] = <<L[j + 1].price, L[j].cumulative>>
    BY <1>2, <1>8, <1>10, <2>1
  <2>3. L[j].price < price /\ price < L[j + 1].price
    BY <1>6, <2>2
  <2>4. j = m
    <3>1. m + 1 \in 1..n
      BY <1>1
    <3>2. ~ (j < m)
      <4>1. SUFFICES ASSUME j < m
                     PROVE  FALSE
        OBVIOUS
      <4>2. j + 1 = m \/ L[j + 1].price < L[m].price
        BY <1>1, <1>8, <4>1 DEF Rising
      <4>3. QED
        BY <1>3, <1>8, <2>3, <4>2
    <3>3. ~ (m < j)
      <4>1. SUFFICES ASSUME m < j
                     PROVE  FALSE
        OBVIOUS
      <4>2. m + 1 = j \/ L[m + 1].price < L[j].price
        BY <1>1, <1>8, <3>1, <4>1 DEF Rising
      <4>3. QED
        BY <1>3, <1>8, <2>3, <3>1, <4>2
    <3>4. QED
      BY <1>1, <1>8, <3>2, <3>3
  <2>5. QED
    BY <1>4, <2>2, <2>4
<1>11. QED
  BY <1>7, <1>9, <1>10

\* A corner is at the price of a level and the depth of one.
LEMMA CornersAre ==
  ASSUME NEW L \in Seq(Served), L # <<>>
  PROVE  \A corner \in ToSet(stepPath(L)) :
           \E i \in 1..Len(L), j \in 1..Len(L) : corner = <<L[i].price, L[j].cumulative>>
<1> DEFINE p == stepPath(L)
           n == Len(L)
<1>1. n \in Nat /\ n - 1 \in Nat /\ (n - 1) + 1 = n
  OBVIOUS
<1>2. Drawn(L, n - 1, p)
  BY CurveIsDrawn
<1> HIDE DEF p, n
<1>3. /\ Len(p) = 2 * (n - 1) + 1 /\ p \in Seq(Nat \X Nat)
      /\ \A i \in 1..n : p[2 * i - 1] = <<L[i].price, L[i].cumulative>>
      /\ \A i \in 1..(n - 1) : p[2 * i] = <<L[i + 1].price, L[i].cumulative>>
  BY <1>1, <1>2 DEF Drawn, Path
<1>4. ASSUME NEW e \in 1..Len(p)
      PROVE  \E i \in 1..n, j \in 1..n : p[e] = <<L[i].price, L[j].cumulative>>
  <2>1. e \in 1..(2 * (n - 1) + 1)
    BY <1>3
  <2>2. PICK k \in Int : e = 2 * k \/ e = 2 * k - 1
    <3>1. e \in Int
      BY <1>1, <2>1
    <3>2. e = 2 * ((e + 1) \div 2) \/ e = 2 * ((e + 1) \div 2) - 1
      BY <3>1
    <3>3. (e + 1) \div 2 \in Int
      BY <3>1
    <3>4. QED
      BY <3>2, <3>3
  <2>3. CASE e = 2 * k
    <3>1. k \in 1..(n - 1) /\ k \in 1..n /\ k + 1 \in 1..n
      BY <1>1, <2>1, <2>3
    <3>2. QED
      BY <1>3, <2>3, <3>1
  <2>4. CASE e = 2 * k - 1
    <3>1. k \in 1..n
      BY <1>1, <2>1, <2>4
    <3>2. QED
      BY <1>3, <2>4, <3>1
  <2>5. QED
    BY <2>2, <2>3, <2>4
<1>5. ToSet(p) = {p[e] : e \in 1..Len(p)}
  <2>1. DOMAIN p = 1..Len(p)
    BY <1>3
  <2>2. QED
    BY <2>1 DEF ToSet
<1>6. ASSUME NEW corner \in ToSet(p)
      PROVE  \E i \in 1..n, j \in 1..n : corner = <<L[i].price, L[j].cumulative>>
  <2>1. PICK e \in 1..Len(p) : corner = p[e]
    BY <1>5
  <2>2. QED
    BY <1>4, <2>1
<1>7. QED
  BY <1>6 DEF p, n

\* Over every level there is a corner, at its depth.
LEMMA EveryLevelIsMarked ==
  ASSUME NEW L \in Seq(Served), L # <<>>, NEW i \in 1..Len(L)
  PROVE  <<L[i].price, L[i].cumulative>> \in ToSet(stepPath(L))
<1> DEFINE p == stepPath(L)
           n == Len(L)
<1>1. n \in Nat /\ n - 1 \in Nat /\ (n - 1) + 1 = n /\ i \in 1..n
  OBVIOUS
<1>2. Drawn(L, n - 1, p)
  BY CurveIsDrawn
<1> HIDE DEF p, n
<1>3. /\ Len(p) = 2 * (n - 1) + 1 /\ p \in Seq(Nat \X Nat)
      /\ \A j \in 1..n : p[2 * j - 1] = <<L[j].price, L[j].cumulative>>
  BY <1>1, <1>2 DEF Drawn, Path
<1>4. 2 * i - 1 \in 1..Len(p)
  BY <1>1, <1>3
<1>5. DOMAIN p = 1..Len(p)
  BY <1>3
<1>6. p[2 * i - 1] \in ToSet(p)
  BY <1>4, <1>5 DEF ToSet
<1>7. QED
  BY <1>1, <1>3, <1>6 DEF p

\* The depth down to a level is no more than down to the last.
LEMMA DepthGrows ==
  ASSUME Numbers, NEW side \in {"BUY", "SELL"}, NEW a, Levelled(side, a), NEW m \in 1..Len(a)
  PROVE  /\ a[m].cumulative \in Nat /\ a[m].price \in Nat
         /\ a[m].cumulative <= lastOr(a, 0) /\ lastOr(a, 0) \in Nat
<1>1. a \in Seq(Served) /\ Len(a) \in Nat /\ m \in Nat
  <2>1. a \in Seq(Served)
    BY DEF Levelled, Served
  <2>2. QED
    BY <2>1
<1> DEFINE n == Len(a)
<1>2. n \in 1..n /\ a # <<>> /\ lastOr(a, 0) = a[n].cumulative
  BY <1>1 DEF lastOr, Last
<1>3. /\ a[m].price \in Nat /\ a[m].cumulative \in Nat
      /\ a[n].price \in Nat /\ a[n].cumulative \in Nat
  <2>1. a[m] \in Served /\ a[n] \in Served
    BY <1>1, <1>2
  <2>2. QED
    BY <2>1 DEF Served
<1>4. m = n \/ IsBetter(side, a[m].price, a[n].price)
  BY <1>1, <1>2 DEF Levelled
<1> DEFINE S == {o \in Live(side) : NoWorse(side, Price[o], a[n].price)}
           T == {o \in Live(side) : NoWorse(side, Price[o], a[m].price)}
<1>5. a[n].cumulative = SumFunctionOnSet(left, S) /\ a[m].cumulative = SumFunctionOnSet(left, T)
  BY <1>2, LiquidityIs DEF Levelled
<1>6. T \in SUBSET S
  <2>1. ASSUME NEW o \in Live(side), NoWorse(side, Price[o], a[m].price)
        PROVE  NoWorse(side, Price[o], a[n].price)
    <3>1. Price[o] \in Nat
      BY BookFeedAssumption DEF Live
    <3>2. QED
      BY <1>3, <1>4, <2>1, <3>1 DEF NoWorse, IsBetter
  <2>2. QED
    BY <2>1
<1>7. IsFiniteSet(S) /\ \A o \in S : left[o] \in Nat
  <2>1. S \subseteq Orders
    BY DEF Live
  <2>2. QED
    BY <2>1, BookFeedAssumption, FS_Subset DEF Numbers
<1> HIDE DEF S, T
<1>8. a[m].cumulative <= a[n].cumulative
  BY <1>5, <1>6, <1>7, SumOfPart
<1>9. QED
  BY <1>2, <1>3, <1>8

\* The asks' prices grow along the curve, and so do the bids' from the last.
LEMMA CurveRises ==
  ASSUME NEW a
  PROVE  /\ Levelled("SELL", a) => a \in Seq(Served) /\ Rising(a)
         /\ Levelled("BUY", a) =>
              /\ a \in Seq(Served) /\ Reverse(a) \in Seq(Served) /\ Rising(Reverse(a))
              /\ Len(Reverse(a)) = Len(a)
              /\ \A i \in 1..Len(a) : Reverse(a)[i] = a[Len(a) - i + 1]
<1>1. ASSUME Levelled("SELL", a)
      PROVE  a \in Seq(Served) /\ Rising(a)
  BY <1>1 DEF Levelled, Served, Rising, IsBetter
<1>2. ASSUME Levelled("BUY", a)
      PROVE  /\ a \in Seq(Served) /\ Reverse(a) \in Seq(Served) /\ Rising(Reverse(a))
             /\ Len(Reverse(a)) = Len(a)
             /\ \A i \in 1..Len(a) : Reverse(a)[i] = a[Len(a) - i + 1]
  <2> DEFINE n == Len(a)
             r == Reverse(a)
  <2>1. a \in Seq(Served)
    BY <1>2 DEF Levelled, Served
  <2>2. n \in Nat /\ \A i \in 1..n : a[i] \in Served
    BY <2>1
  <2>3. r = [i \in 1..n |-> a[(n - i) + 1]]
    BY DEF Reverse
  <2> HIDE DEF n, r
  <2>4. \A i \in 1..n : (n - i) + 1 \in 1..n /\ r[i] = a[(n - i) + 1]
    BY <2>2, <2>3
  <2>5. r \in Seq(Served) /\ Len(r) = n
    <3>1. r \in [1..n -> Served]
      BY <2>2, <2>3, <2>4
    <3>2. QED
      BY <2>2, <3>1
  <2>6. ASSUME NEW i \in 1..n, NEW j \in 1..n, i < j
        PROVE  r[i].price < r[j].price
    <3>1. (n - j) + 1 < (n - i) + 1 /\ (n - j) + 1 \in 1..n /\ (n - i) + 1 \in 1..n
      BY <2>2, <2>4, <2>6
    <3>2. a[(n - j) + 1].price > a[(n - i) + 1].price
      BY <1>2, <3>1 DEF Levelled, IsBetter, n
    <3>3. a[(n - j) + 1].price \in Nat /\ a[(n - i) + 1].price \in Nat
      BY <2>2, <3>1 DEF Served
    <3>4. QED
      BY <2>4, <3>2, <3>3
  <2>7. Rising(r)
    BY <2>5, <2>6 DEF Rising
  <2>8. QED
    BY <2>1, <2>4, <2>5, <2>7 DEF n, r
<1>3. QED
  BY <1>1, <1>2

\* Nothing is offered between two asks.
LEMMA BetweenAsks ==
  ASSUME Numbers, NEW a, Levelled("SELL", a), NEW m \in 2..Len(a), NEW price \in Nat,
         a[m - 1].price < price, price < a[m].price
  PROVE  LiquidityAgainst("BUY", price) = a[m - 1].cumulative
<1>1. Len(a) \in Nat /\ m - 1 \in 1..Len(a) /\ m \in 1..Len(a) /\ a \in Seq(Served)
  <2>1. a \in Seq(Served)
    BY CurveRises
  <2>2. QED
    BY <2>1
<1>2. a[m - 1].price \in Nat /\ a[m].price \in Nat
  <2>1. a[m - 1] \in Served /\ a[m] \in Served
    BY <1>1
  <2>2. QED
    BY <2>1 DEF Served
<1>3. a[m - 1].cumulative = LiquidityAgainst("BUY", a[m - 1].price)
  BY <1>1 DEF Levelled, Opposite
<1>4. /\ LiquidityAgainst("BUY", price) =
           SumFunctionOnSet(left, {o \in Live("SELL") : NoWorse("SELL", Price[o], price)})
      /\ LiquidityAgainst("BUY", a[m - 1].price) =
           SumFunctionOnSet(left, {o \in Live("SELL") : NoWorse("SELL", Price[o], a[m - 1].price)})
  <2>1. Opposite("SELL") = "BUY"
    BY DEF Opposite
  <2>2. \A p : LiquidityAgainst(Opposite("SELL"), p) =
                 SumFunctionOnSet(left, {o \in Live("SELL") : NoWorse("SELL", Price[o], p)})
    BY LiquidityIs
  <2>3. QED
    BY <2>1, <2>2
<1>5. ASSUME NEW o \in Live("SELL")
      PROVE  NoWorse("SELL", Price[o], price) <=> NoWorse("SELL", Price[o], a[m - 1].price)
  <2>1. Price[o] \in Nat
    BY BookFeedAssumption DEF Live
  <2>2. NoWorse("SELL", Price[o], a[m - 1].price) \/ NoWorse("SELL", a[m].price, Price[o])
    BY DEF Levelled
  <2>3. QED
    BY <1>2, <2>1, <2>2 DEF NoWorse
<1>6. {o \in Live("SELL") : NoWorse("SELL", Price[o], price)} =
      {o \in Live("SELL") : NoWorse("SELL", Price[o], a[m - 1].price)}
  BY <1>5
<1>7. QED
  BY <1>3, <1>4, <1>6

\* The mid is above every bid and below every ask.
LEMMA MidDivides ==
  ASSUME NEW b, Levelled("BUY", b), b # <<>>, NEW a, Levelled("SELL", a), a # <<>>
  PROVE  LET mid == (a[1].price + b[1].price) \div 2
         IN  /\ \A m \in 1..Len(b) : b[m].price < mid
             /\ \A m \in 1..Len(a) : a[m].price > mid
<1> DEFINE mid == (a[1].price + b[1].price) \div 2
<1>1. b \in Seq(Served) /\ a \in Seq(Served)
  BY CurveRises
<1>2. /\ Len(b) \in Nat /\ 1 \in 1..Len(b) /\ \A m \in 1..Len(b) : b[m] \in Served
      /\ Len(a) \in Nat /\ 1 \in 1..Len(a) /\ \A m \in 1..Len(a) : a[m] \in Served
  BY <1>1
<1>3. /\ \A m \in 1..Len(b) : b[m].price \in Nat
      /\ \A m \in 1..Len(a) : a[m].price \in Nat
  BY <1>2 DEF Served
<1>4. PICK o \in Live("BUY") : b[1].price = Price[o]
  BY <1>2 DEF Levelled
<1>5. PICK p \in Live("SELL") : a[1].price = Price[p]
  BY <1>2 DEF Levelled
<1>6. b[1].price < a[1].price /\ (b[1].price + a[1].price) % 2 = 0
  <2>1. o \in Orders /\ Side[o] = "BUY" /\ p \in Orders /\ Side[p] = "SELL"
    BY DEF Live
  <2>2. QED
    BY <1>4, <1>5, <2>1, BookFeedAssumption
<1>7. b[1].price < mid /\ mid < a[1].price /\ mid \in Int
  <2>1. PICK x \in Nat, y \in Nat : x = b[1].price /\ y = a[1].price
    BY <1>2, <1>3
  <2>2. x < y /\ (x + y) % 2 = 0 /\ mid = (y + x) \div 2
    BY <1>6, <2>1
  <2>3. x + y = 2 * ((y + x) \div 2)
    BY <2>2
  <2>4. PICK z \in Int : z = (y + x) \div 2
    OBVIOUS
  <2>5. mid = z /\ x + y = 2 * z
    BY <2>2, <2>3, <2>4
  <2> HIDE DEF mid
  <2>6. QED
    BY <2>1, <2>2, <2>5
<1> HIDE DEF mid
<1>8. ASSUME NEW m \in 1..Len(b)
      PROVE  b[m].price < mid
  <2>1. m = 1 \/ b[1].price > b[m].price
    BY <1>2 DEF Levelled, IsBetter
  <2>2. b[m].price \in Nat /\ b[1].price \in Nat
    BY <1>2, <1>3
  <2>3. QED
    BY <1>7, <2>1, <2>2
<1>9. ASSUME NEW m \in 1..Len(a)
      PROVE  a[m].price > mid
  <2>1. m = 1 \/ a[1].price < a[m].price
    BY <1>2 DEF Levelled, IsBetter
  <2>2. a[m].price \in Nat /\ a[1].price \in Nat
    BY <1>2, <1>3
  <2>3. QED
    BY <1>7, <2>1, <2>2
<1>10. QED
  BY <1>8, <1>9 DEF mid

\* The prices of the levels are finitely many.
LEMMA PricesFinite ==
  ASSUME NEW a \in Seq(Served)
  PROVE  /\ IsFiniteSet({l.price : l \in ToSet(a)}) /\ {l.price : l \in ToSet(a)} \in SUBSET Nat
         /\ \A m \in 1..Len(a) : a[m].price \in {l.price : l \in ToSet(a)}
<1> DEFINE f == [m \in 1..Len(a) |-> a[m].price]
<1>1. Len(a) \in Nat /\ DOMAIN a = 1..Len(a) /\ \A m \in 1..Len(a) : a[m] \in Served
  OBVIOUS
<1>2. {l.price : l \in ToSet(a)} = {f[m] : m \in 1..Len(a)}
  BY <1>1 DEF ToSet
<1>3. \A m \in 1..Len(a) : f[m] = a[m].price /\ f[m] \in Nat
  BY <1>1 DEF Served
<1> HIDE DEF f
<1>4. IsFiniteSet({f[m] : m \in 1..Len(a)})
  BY <1>1, ImageFinite
<1>5. QED
  BY <1>2, <1>3, <1>4

\* The plot is as wide as the prices and as high as the deeper side.
LEMMA PlotIs ==
  ASSUME NEW b \in Seq(Served), NEW a \in Seq(Served), b \o a # <<>>,
         lastOr(b, 0) \in Nat, lastOr(a, 0) \in Nat
  PROVE  LET prices == {l.price : l \in ToSet(b) \cup ToSet(a)}
             maxQty == Max({lastOr(b, 0), lastOr(a, 0), 1})
         IN  /\ Min(prices) \in Nat /\ Max(prices) \in Nat
             /\ \A m \in 1..Len(b) : b[m].price \in Min(prices)..Max(prices)
             /\ \A m \in 1..Len(a) : a[m].price \in Min(prices)..Max(prices)
             /\ maxQty \in Nat /\ lastOr(b, 0) <= maxQty /\ lastOr(a, 0) <= maxQty
<1> DEFINE B == {l.price : l \in ToSet(b)}
           A == {l.price : l \in ToSet(a)}
           prices == {l.price : l \in ToSet(b) \cup ToSet(a)}
           Q == {lastOr(b, 0), lastOr(a, 0), 1}
<1>1. /\ IsFiniteSet(B) /\ B \in SUBSET Nat /\ \A m \in 1..Len(b) : b[m].price \in B
      /\ IsFiniteSet(A) /\ A \in SUBSET Nat /\ \A m \in 1..Len(a) : a[m].price \in A
  BY PricesFinite
<1>2. prices = B \cup A
  OBVIOUS
<1>3. B \cup A # {}
  <2>1. b # <<>> \/ a # <<>>
    OBVIOUS
  <2>2. 1 \in 1..Len(b) \/ 1 \in 1..Len(a)
    BY <2>1
  <2> HIDE DEF A, B
  <2>3. QED
    BY <1>1, <2>2
<1> HIDE DEF A, B
<1>4. IsFiniteSet(B \cup A) /\ B \cup A \in SUBSET Int
  <2>1. IsFiniteSet(B) /\ IsFiniteSet(A)
    BY <1>1
  <2>2. IsFiniteSet(B \cup A)
    BY <2>1, FS_Union
  <2>3. QED
    BY <1>1, <2>2
<1>5. /\ Min(B \cup A) \in B \cup A /\ Max(B \cup A) \in B \cup A
      /\ \A x \in B \cup A : Min(B \cup A) <= x /\ x <= Max(B \cup A)
  BY <1>3, <1>4, HasEnds
<1>6. Min(B \cup A) \in Nat /\ Max(B \cup A) \in Nat
  BY <1>1, <1>5
<1>7. ASSUME NEW x \in B \cup A
      PROVE  x \in Min(B \cup A)..Max(B \cup A)
  <2>1. x \in Nat /\ Min(B \cup A) <= x /\ x <= Max(B \cup A)
    BY <1>1, <1>5
  <2>2. QED
    BY <1>6, <2>1
<1>8. IsFiniteSet(Q)
  <2> DEFINE X == {lastOr(b, 0)}
             Y == {lastOr(a, 0)}
             Z == {1}
  <2>1. Q = X \cup (Y \cup Z)
    OBVIOUS
  <2>2. IsFiniteSet(X) /\ IsFiniteSet(Y) /\ IsFiniteSet(Z)
    BY FS_Singleton
  <2> HIDE DEF Q, X, Y, Z
  <2>3. IsFiniteSet(Y \cup Z)
    BY <2>2, FS_Union
  <2>4. IsFiniteSet(X \cup (Y \cup Z))
    BY <2>2, <2>3, FS_Union
  <2>5. QED
    BY <2>1, <2>4
<1>9. Q \in SUBSET Int /\ Q # {} /\ Q \subseteq Nat /\ lastOr(b, 0) \in Q /\ lastOr(a, 0) \in Q
  OBVIOUS
<1> HIDE DEF Q, prices
<1>10. Max(Q) \in Q /\ \A x \in Q : x <= Max(Q)
  BY <1>8, <1>9, HasEnds
<1>11. Max(Q) \in Nat /\ lastOr(b, 0) <= Max(Q) /\ lastOr(a, 0) <= Max(Q)
  BY <1>9, <1>10
<1>12. /\ \A m \in 1..Len(b) : b[m].price \in Min(B \cup A)..Max(B \cup A)
       /\ \A m \in 1..Len(a) : a[m].price \in Min(B \cup A)..Max(B \cup A)
  BY <1>1, <1>7
<1>13. QED
  BY <1>2, <1>6, <1>11, <1>12 DEF prices, Q

\* What the plot marks is the depth.
LEMMA PlotTells ==
  ASSUME Numbers
  PROVE  PlotMarksDepth
<1> DEFINE shown == Shown
           b == shown.bids
           a == shown.asks
           panel == MarketDepthPanel(shown)
           r == Reverse(b)
           prices == {l.price : l \in ToSet(b) \cup ToSet(a)}
<1>1. /\ Levelled("BUY", b) /\ Levelled("SELL", a)
      /\ shown.mid = IF b # <<>> /\ a # <<>> THEN (a[1].price + b[1].price) \div 2 ELSE None
  BY ShownIs
<1>2. /\ panel.bid = (IF r = <<>> THEN <<>> ELSE stepPath(r))
      /\ panel.ask = (IF a = <<>> THEN <<>> ELSE stepPath(a))
      /\ panel.mid = shown.mid /\ panel.lo = Min(prices) /\ panel.hi = Max(prices)
      /\ panel.maxQty = Max({lastOr(b, 0), lastOr(a, 0), 1})
  BY DEF MarketDepthPanel, midX
<1>3. PlotMarksDepth <=>
        (b \o a # <<>> =>
           /\ \A level \in ToSet(a) :
                <<level.price, LiquidityAgainst("BUY", level.price)>> \in ToSet(panel.ask)
           /\ \A level \in ToSet(b) :
                <<level.price, LiquidityAgainst("SELL", level.price)>> \in ToSet(panel.bid)
           /\ \A i \in 2..Len(a) : \A p \in (a[i - 1].price + 1)..(a[i].price - 1) :
                heightAt(panel.ask, p) = LiquidityAgainst("BUY", p)
           /\ \A corner \in ToSet(panel.bid) \cup ToSet(panel.ask) :
                corner[1] \in panel.lo..panel.hi /\ corner[2] \in 0..panel.maxQty
           /\ panel.mid # None =>
                /\ \A corner \in ToSet(panel.bid) : corner[1] < panel.mid
                /\ \A corner \in ToSet(panel.ask) : corner[1] > panel.mid)
  BY DEF PlotMarksDepth
<1> HIDE DEF shown
<1>4. /\ b \in Seq(Served) /\ a \in Seq(Served) /\ Rising(a)
      /\ r \in Seq(Served) /\ Rising(r) /\ Len(r) = Len(b)
      /\ \A i \in 1..Len(b) : r[i] = b[Len(b) - i + 1]
      /\ Len(b) \in Nat /\ Len(a) \in Nat
  <2>1. /\ b \in Seq(Served) /\ a \in Seq(Served) /\ Rising(a)
        /\ r \in Seq(Served) /\ Rising(r) /\ Len(r) = Len(b)
        /\ \A i \in 1..Len(b) : r[i] = b[Len(b) - i + 1]
    BY <1>1, CurveRises
  <2>2. QED
    BY <2>1
<1> HIDE DEF panel, r, a, b
<1>5. /\ \A m \in 1..Len(b) : b[m].price \in Nat /\ b[m].cumulative \in 0..lastOr(b, 0) /\ lastOr(b, 0) \in Nat
      /\ \A m \in 1..Len(a) : a[m].price \in Nat /\ a[m].cumulative \in 0..lastOr(a, 0) /\ lastOr(a, 0) \in Nat
      /\ lastOr(b, 0) \in Nat /\ lastOr(a, 0) \in Nat
  <2>1. ASSUME NEW side \in {"BUY", "SELL"}, NEW x, Levelled(side, x), x \in Seq(Served)
        PROVE  /\ \A m \in 1..Len(x) : x[m].price \in Nat /\ x[m].cumulative \in 0..lastOr(x, 0)
               /\ lastOr(x, 0) \in Nat
    <3>1. CASE x = <<>>
      <4>1. lastOr(x, 0) = 0 /\ 1..Len(x) = {}
        BY <3>1 DEF lastOr
      <4>2. QED
        BY <4>1
    <3>2. CASE x # <<>>
      <4>1. 1 \in 1..Len(x)
        BY <2>1, <3>2
      <4>2. lastOr(x, 0) \in Nat
        BY <2>1, <4>1, DepthGrows
      <4>3. ASSUME NEW m \in 1..Len(x)
            PROVE  x[m].price \in Nat /\ x[m].cumulative \in 0..lastOr(x, 0)
        <5>1. /\ x[m].cumulative \in Nat /\ x[m].price \in Nat
              /\ x[m].cumulative <= lastOr(x, 0)
          BY <2>1, <4>3, DepthGrows
        <5>2. QED
          BY <4>2, <5>1
      <4>4. QED
        BY <4>2, <4>3
    <3>3. QED
      BY <3>1, <3>2
  <2>2. /\ \A m \in 1..Len(b) : b[m].price \in Nat /\ b[m].cumulative \in 0..lastOr(b, 0)
        /\ lastOr(b, 0) \in Nat
    BY <1>1, <1>4, <2>1
  <2>3. /\ \A m \in 1..Len(a) : a[m].price \in Nat /\ a[m].cumulative \in 0..lastOr(a, 0)
        /\ lastOr(a, 0) \in Nat
    BY <1>1, <1>4, <2>1
  <2>4. QED
    BY <2>2, <2>3
<1>6. ASSUME NEW i \in 2..Len(a), NEW p \in (a[i - 1].price + 1)..(a[i].price - 1)
      PROVE  heightAt(panel.ask, p) = LiquidityAgainst("BUY", p)
  <2>1. i \in 1..Len(a) /\ i - 1 \in 1..Len(a) /\ i - 1 < Len(a) /\ (i - 1) + 1 = i /\ a # <<>>
    BY <1>4
  <2>2. a[i - 1].price < p /\ p < a[i].price /\ p \in Nat
    <3>1. a[i - 1].price \in Nat /\ a[i].price \in Nat
      BY <1>5, <2>1
    <3>2. QED
      BY <1>6, <3>1
  <2>3. heightAt(stepPath(a), p) = a[i - 1].cumulative
    BY <1>4, <2>1, <2>2, HeightIs
  <2>4. LiquidityAgainst("BUY", p) = a[i - 1].cumulative
    BY <1>1, <2>2, BetweenAsks
  <2>5. QED
    BY <1>2, <2>1, <2>3, <2>4
\* Each level has its corner, at the liquidity up to it.
<1>7. ASSUME NEW i \in 1..Len(a)
      PROVE  <<a[i].price, LiquidityAgainst("BUY", a[i].price)>> \in ToSet(panel.ask)
  <2>1. a # <<>>
    BY <1>4
  <2>2. <<a[i].price, a[i].cumulative>> \in ToSet(stepPath(a))
    BY <1>4, <2>1, EveryLevelIsMarked
  <2>3. a[i].cumulative = LiquidityAgainst("BUY", a[i].price)
    BY <1>1 DEF Levelled, Opposite
  <2>4. QED
    BY <1>2, <2>1, <2>2, <2>3
<1>8. ASSUME NEW i \in 1..Len(b)
       PROVE  <<b[i].price, LiquidityAgainst("SELL", b[i].price)>> \in ToSet(panel.bid)
  <2> DEFINE m == Len(b) - i + 1
  <2>1. m \in 1..Len(b) /\ Len(b) - m + 1 = i /\ m \in 1..Len(r)
    BY <1>4
  <2> HIDE DEF m
  <2>2. r[m] = b[i] /\ r # <<>>
    BY <1>4, <2>1
  <2>3. <<r[m].price, r[m].cumulative>> \in ToSet(stepPath(r))
    BY <1>4, <2>1, <2>2, EveryLevelIsMarked
  <2>4. b[i].cumulative = LiquidityAgainst("SELL", b[i].price)
    BY <1>1 DEF Levelled, Opposite
  <2>5. QED
    BY <1>2, <2>2, <2>3, <2>4
<1>9. ASSUME NEW level \in ToSet(a)
       PROVE  <<level.price, LiquidityAgainst("BUY", level.price)>> \in ToSet(panel.ask)
  <2>1. DOMAIN a = 1..Len(a)
    BY <1>4
  <2>2. PICK i \in 1..Len(a) : level = a[i]
    BY <2>1 DEF ToSet
  <2>3. QED
    BY <1>7, <2>2
<1>10. ASSUME NEW level \in ToSet(b)
       PROVE  <<level.price, LiquidityAgainst("SELL", level.price)>> \in ToSet(panel.bid)
  <2>1. DOMAIN b = 1..Len(b)
    BY <1>4
  <2>2. PICK i \in 1..Len(b) : level = b[i]
    BY <2>1 DEF ToSet
  <2>3. QED
    BY <1>8, <2>2
\* Where the corners come from.
<1>11. ASSUME NEW corner \in ToSet(panel.bid)
      PROVE  /\ b # <<>>
             /\ \E i \in 1..Len(b), j \in 1..Len(b) : corner = <<b[i].price, b[j].cumulative>>
  <2>1. r # <<>> /\ corner \in ToSet(stepPath(r))
    <3>1. ToSet(<<>>) = {}
      BY DEF ToSet
    <3>2. QED
      BY <1>2, <1>11, <3>1
  <2>2. PICK i \in 1..Len(r), j \in 1..Len(r) : corner = <<r[i].price, r[j].cumulative>>
    BY <1>4, <2>1, CornersAre
  <2>3. /\ Len(b) - i + 1 \in 1..Len(b) /\ Len(b) - j + 1 \in 1..Len(b)
        /\ r[i] = b[Len(b) - i + 1] /\ r[j] = b[Len(b) - j + 1]
    BY <1>4
  <2>4. b # <<>>
    BY <1>4, <2>3
  <2>5. QED
    BY <2>2, <2>3, <2>4
<1>12. ASSUME NEW corner \in ToSet(panel.ask)
      PROVE  /\ a # <<>>
             /\ \E i \in 1..Len(a), j \in 1..Len(a) : corner = <<a[i].price, a[j].cumulative>>
  <2>1. a # <<>> /\ corner \in ToSet(stepPath(a))
    <3>1. ToSet(<<>>) = {}
      BY DEF ToSet
    <3>2. QED
      BY <1>2, <1>12, <3>1
  <2>2. QED
    BY <1>4, <2>1, CornersAre
<1>13. ASSUME b \o a # <<>>, NEW corner \in ToSet(panel.bid) \cup ToSet(panel.ask)
       PROVE  corner[1] \in panel.lo..panel.hi /\ corner[2] \in 0..panel.maxQty
  <2> DEFINE maxQty == Max({lastOr(b, 0), lastOr(a, 0), 1})
  <2>1. /\ \A m \in 1..Len(b) : b[m].price \in Min(prices)..Max(prices)
        /\ \A m \in 1..Len(a) : a[m].price \in Min(prices)..Max(prices)
        /\ maxQty \in Nat /\ lastOr(b, 0) <= maxQty /\ lastOr(a, 0) <= maxQty
    BY <1>4, <1>5, <1>13, PlotIs
  <2>2. panel.lo = Min(prices) /\ panel.hi = Max(prices) /\ panel.maxQty = maxQty
    BY <1>2
  <2> HIDE DEF maxQty, prices
  <2>3. /\ \A m \in 1..Len(b) : b[m].cumulative \in 0..maxQty
        /\ \A m \in 1..Len(a) : a[m].cumulative \in 0..maxQty
    BY <1>5, <2>1
  <2>4. CASE corner \in ToSet(panel.bid)
    <3>1. PICK i \in 1..Len(b), j \in 1..Len(b) : corner = <<b[i].price, b[j].cumulative>>
      BY <1>11, <2>4
    <3>2. QED
      BY <2>1, <2>2, <2>3, <3>1
  <2>5. CASE corner \in ToSet(panel.ask)
    <3>1. PICK i \in 1..Len(a), j \in 1..Len(a) : corner = <<a[i].price, a[j].cumulative>>
      BY <1>12, <2>5
    <3>2. QED
      BY <2>1, <2>2, <2>3, <3>1
  <2>6. QED
    BY <2>4, <2>5
<1>14. ASSUME panel.mid # None
       PROVE  /\ \A corner \in ToSet(panel.bid) : corner[1] < panel.mid
              /\ \A corner \in ToSet(panel.ask) : corner[1] > panel.mid
  <2> DEFINE mid == (a[1].price + b[1].price) \div 2
  <2>1. b # <<>> /\ a # <<>> /\ panel.mid = mid
    BY <1>1, <1>2, <1>14
  <2>2. /\ \A m \in 1..Len(b) : b[m].price < mid
        /\ \A m \in 1..Len(a) : a[m].price > mid
    BY <1>1, <2>1, MidDivides
  <2> HIDE DEF mid
  <2>3. ASSUME NEW corner \in ToSet(panel.bid)
        PROVE  corner[1] < panel.mid
    <3>1. PICK i \in 1..Len(b), j \in 1..Len(b) : corner = <<b[i].price, b[j].cumulative>>
      BY <1>11
    <3>2. QED
      BY <2>1, <2>2, <3>1
  <2>4. ASSUME NEW corner \in ToSet(panel.ask)
        PROVE  corner[1] > panel.mid
    <3>1. PICK i \in 1..Len(a), j \in 1..Len(a) : corner = <<a[i].price, a[j].cumulative>>
      BY <1>12
    <3>2. QED
      BY <2>1, <2>2, <3>1
  <2>5. QED
    BY <2>3, <2>4
<1>15. QED
  BY <1>3, <1>6, <1>9, <1>10, <1>13, <1>14

\* For any book: over every level of either side the plot marks the liquidity the engine
\* counts up to its price, and between two asks it is as high as the liquidity there; it
\* is inside its frame, and the mid is between the sides.  Nothing is said of the height
\* between two bids.
THEOREM PlotHolds == Spec => []PlotMarksDepth
<1>1. Inv => PlotMarksDepth
  BY InvNumbers, PlotTells
<1>2. QED
  BY <1>1, TypeHolds, PTL

=============================================================================
