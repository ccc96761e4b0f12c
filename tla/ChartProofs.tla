---------------------------- MODULE ChartProofs ----------------------------
(***************************************************************************)
(* Proofs about the tape and what is made of it, for any prices and        *)
(* quantities, any candle intervals and any tape capacity.                 *)
(*                                                                         *)
(* The tape's times never go back: that is the invariant.  The rest is     *)
(* about pure functions of such a tape.                                    *)
(***************************************************************************)
EXTENDS Chart, Sums

-----------------------------------------------------------------------------
(* The tape *)

Printed == [price : Prices, quantity : Quantities, time : Nat]

\* Times never go back.
InOrder(prints) ==
  \A i \in DOMAIN prints, j \in DOMAIN prints : i <= j => prints[i].time <= prints[j].time

TapeInv ==
  /\ tape \in Seq(Printed) /\ InOrder(tape) /\ now \in Nat
  /\ \A i \in DOMAIN tape : tape[i].time <= now

\* The clock is ahead of the tape, so a print joins it at the end of its times.
LEMMA TapeStep ==
  ASSUME ChartAssumption, TapeInv, [Next]_vars
  PROVE  TapeInv'
<1>1. CASE Tick
  <2>1. tape' = tape /\ now' = now + 1
    BY <1>1 DEF Tick
  <2>2. \A i \in DOMAIN tape : tape[i].time \in Nat /\ tape[i].time <= now
    <3>1. tape \in Seq(Printed) /\ \A i \in DOMAIN tape : tape[i] \in Printed
      BY DEF TapeInv
    <3>2. QED
      BY <3>1 DEF TapeInv, Printed
  <2>3. QED
    BY <2>1, <2>2 DEF TapeInv, InOrder
<1>2. ASSUME NEW p \in Prices, NEW q \in Quantities, recordTrade(p, q)
      PROVE  TapeInv'
  <2> DEFINE t      == [price |-> p, quantity |-> q, time |-> now]
             longer == Append(tape, t)
  <2>1. t \in Printed /\ t.time = now /\ now \in Nat
    BY <1>2 DEF TapeInv, Printed
  <2>2. now' = now /\ tape' = IF Len(longer) > MaxHistory THEN Tail(longer) ELSE longer
    BY <1>2 DEF recordTrade
  <2> HIDE DEF t
  <2>3. /\ longer \in Seq(Printed) /\ Len(longer) = Len(tape) + 1
        /\ DOMAIN longer = 1..(Len(tape) + 1) /\ Len(tape) \in Nat
        /\ \A i \in 1..Len(tape) : longer[i] = tape[i]
        /\ longer[Len(tape) + 1] = t
    BY <2>1, AppendIs DEF TapeInv
  <2>4. /\ \A i \in 1..Len(tape) : tape[i].time \in Nat /\ tape[i].time <= now
        /\ \A i \in 1..Len(tape), j \in 1..Len(tape) : i <= j => tape[i].time <= tape[j].time
    <3>1. tape \in Seq(Printed) /\ DOMAIN tape = 1..Len(tape)
      BY DEF TapeInv
    <3>2. \A i \in 1..Len(tape) : tape[i] \in Printed
      BY <3>1
    <3>3. QED
      BY <3>1, <3>2 DEF TapeInv, InOrder, Printed
  <2> HIDE DEF longer
  <2>5. /\ \A i \in DOMAIN longer : longer[i].time <= now
        /\ \A i \in DOMAIN longer, j \in DOMAIN longer : i <= j => longer[i].time <= longer[j].time
    <3>1. \A i \in DOMAIN longer : i \in 1..Len(tape) \/ i = Len(tape) + 1
      BY <2>3
    <3>2. \A i \in DOMAIN longer : longer[i].time \in Nat /\ longer[i].time <= now
      BY <2>1, <2>3, <2>4, <3>1
    <3>3. ASSUME NEW i \in DOMAIN longer, NEW j \in DOMAIN longer, i <= j
          PROVE  longer[i].time <= longer[j].time
      <4>1. CASE j = Len(tape) + 1
        BY <2>1, <2>3, <3>2, <4>1
      <4>2. CASE j \in 1..Len(tape)
        <5>1. i \in 1..Len(tape)
          BY <2>3, <3>1, <3>3, <4>2
        <5>2. QED
          BY <2>3, <2>4, <3>3, <4>2, <5>1
      <4>3. QED
        BY <3>1, <4>1, <4>2
    <3>4. QED
      BY <3>2, <3>3
  <2>6. CASE tape' = longer
    BY <2>1, <2>2, <2>3, <2>5, <2>6 DEF TapeInv, InOrder
  <2>7. CASE tape' = Tail(longer)
    <3>1. /\ Tail(longer) \in Seq(Printed) /\ Len(Tail(longer)) = Len(tape)
          /\ DOMAIN Tail(longer) = 1..Len(tape)
          /\ \A i \in 1..Len(tape) : Tail(longer)[i] = longer[i + 1] /\ i + 1 \in DOMAIN longer
      BY <2>3
    <3>2. \A i \in 1..Len(tape), j \in 1..Len(tape) : i <= j => i + 1 <= j + 1
      BY <2>3
    <3>3. QED
      BY <2>1, <2>2, <2>5, <2>7, <3>1, <3>2 DEF TapeInv, InOrder
  <2>8. QED
    BY <2>2, <2>6, <2>7
<1>3. CASE UNCHANGED vars
  BY <1>3 DEF vars, TapeInv, InOrder
<1>4. QED
  BY <1>1, <1>2, <1>3 DEF Next

\* Whatever is printed and trimmed, and whenever the clock moves, the times of the
\* tape never go back and none is ahead of the clock.
THEOREM TapeHolds == Spec => []TapeInv
<1>1. Init => TapeInv
  BY DEF Init, TapeInv, InOrder
<1>2. QED
  BY <1>1, TapeStep, ChartAssumption, PTL DEF Spec

-----------------------------------------------------------------------------
(* The binary search *)

\* k brought into i..j.
Clamp(k, i, j) == IF i >= j \/ k <= i THEN i ELSE IF k >= j THEN j ELSE k

\* Where the search goes from a range.
Halves(n, test, find) ==
  [r \in (0..n) \X (0..n) |->
     LET h == (r[1] + r[2]) \div 2
     IN  IF r[1] >= r[2] THEN r[1]
         ELSE find[IF test[h] THEN <<r[1], h>> ELSE <<h + 1, r[2]>>]]

LEMMA SearchUnfolds ==
  ASSUME NEW n, NEW test
  PROVE  Search(n, test) = (CHOOSE find : find = Halves(n, test, find))[<<0, n>>]
  BY DEF Search, Halves

\* A test that is false below k and true from k on leads any range to k.
LEMMA SearchFinds ==
  ASSUME NEW n \in Nat, NEW test, NEW k \in 0..n,
         \A h \in 0..(n - 1) : test[h] <=> h >= k
  PROVE  Search(n, test) = k
<1> DEFINE R == (0..n) \X (0..n)
           clamped == [r \in R |-> Clamp(k, r[1], r[2])]
           g == CHOOSE find : find = Halves(n, test, find)
<1>0. ASSUME NEW i \in 0..n, NEW j \in 0..n, i < j
      PROVE  LET h == (i + j) \div 2
             IN  /\ h \in 0..(n - 1) /\ i <= h /\ h < j /\ h + 1 \in 0..n /\ h \in 0..n
                 /\ <<i, h>> \in R /\ <<h + 1, j>> \in R
  <2>1. PICK h \in Int : h = (i + j) \div 2
    OBVIOUS
  <2>2. i <= h /\ h < j
    BY <1>0, <2>1
  <2>3. h \in 0..(n - 1) /\ h + 1 \in 0..n /\ h \in 0..n
    BY <2>2
  <2>4. <<i, h>> \in R /\ <<h + 1, j>> \in R
    BY <2>3
  <2>5. QED
    BY <2>1, <2>2, <2>3, <2>4
<1>1. clamped = Halves(n, test, clamped)
  <2>1. ASSUME NEW i \in 0..n, NEW j \in 0..n
        PROVE  LET h == (i + j) \div 2
               IN  Clamp(k, i, j) = IF i >= j THEN i
                                    ELSE clamped[IF test[h] THEN <<i, h>> ELSE <<h + 1, j>>]
    <3>1. CASE i >= j
      BY <3>1 DEF Clamp
    <3>2. CASE i < j
      <4>1. PICK h : h = (i + j) \div 2
        OBVIOUS
      <4>2. /\ h \in 0..(n - 1) /\ i <= h /\ h < j /\ h + 1 \in 0..n /\ h \in 0..n
            /\ <<i, h>> \in R /\ <<h + 1, j>> \in R
        BY <1>0, <3>2, <4>1
      <4>3. clamped[<<i, h>>] = Clamp(k, i, h) /\ clamped[<<h + 1, j>>] = Clamp(k, h + 1, j)
        BY <4>2
      <4> HIDE DEF clamped
      <4>4. CASE test[h]
        BY <3>2, <4>1, <4>2, <4>3, <4>4 DEF Clamp
      <4>5. CASE ~ test[h]
        BY <3>2, <4>1, <4>2, <4>3, <4>5 DEF Clamp
      <4>6. QED
        BY <4>4, <4>5
    <3>3. QED
      BY <3>1, <3>2
  <2>2. ASSUME NEW r \in R
        PROVE  clamped[r] = Halves(n, test, clamped)[r]
    <3>1. PICK i \in 0..n, j \in 0..n : r = <<i, j>>
      OBVIOUS
    <3>2. clamped[r] = Clamp(k, i, j)
      BY <3>1
    <3> HIDE DEF clamped
    <3>3. QED
      BY <2>1, <3>1, <3>2 DEF Halves
  <2>3. QED
    BY <2>2 DEF Halves
<1>2. g = Halves(n, test, g)
  <2> HIDE DEF clamped
  <2>1. QED
    BY <1>1
<1> HIDE DEF g
<1> DEFINE F == {w \in 0..n : \A i \in 0..n, j \in 0..n : j - i <= w => g[<<i, j>>] = Clamp(k, i, j)}
<1>3. ASSUME NEW i \in 0..n, NEW j \in 0..n
      PROVE  LET h == (i + j) \div 2
             IN  g[<<i, j>>] = IF i >= j THEN i
                               ELSE IF test[h] THEN g[<<i, h>>] ELSE g[<<h + 1, j>>]
  <2>1. <<i, j>> \in R
    OBVIOUS
  <2>2. Halves(n, test, g)[<<i, j>>] =
          IF i >= j THEN i
          ELSE g[IF test[(i + j) \div 2] THEN <<i, (i + j) \div 2>> ELSE <<(i + j) \div 2 + 1, j>>]
    BY <2>1 DEF Halves
  <2>3. QED
    BY <1>2, <2>2
<1>4. 0 \in F
  <2>1. ASSUME NEW i \in 0..n, NEW j \in 0..n, j - i <= 0
        PROVE  g[<<i, j>>] = Clamp(k, i, j)
    <3>1. i >= j
      BY <2>1
    <3>2. g[<<i, j>>] = i
      BY <1>3, <3>1
    <3>3. QED
      BY <3>1, <3>2 DEF Clamp
  <2>2. QED
    BY <2>1
<1>5. ASSUME NEW w \in 1..n, w - 1 \in F
      PROVE  w \in F
  <2>1. ASSUME NEW i \in 0..n, NEW j \in 0..n, j - i <= w
        PROVE  g[<<i, j>>] = Clamp(k, i, j)
    <3>1. CASE i >= j
      BY <1>3, <3>1 DEF Clamp
    <3>2. CASE i < j
      <4>1. PICK h : h = (i + j) \div 2
        OBVIOUS
      <4>2. h \in 0..(n - 1) /\ i <= h /\ h < j /\ h + 1 \in 0..n /\ h \in 0..n
        BY <1>0, <3>2, <4>1
      <4>3. h - i <= w - 1 /\ j - (h + 1) <= w - 1
        BY <2>1, <4>2
      <4>4. g[<<i, h>>] = Clamp(k, i, h) /\ g[<<h + 1, j>>] = Clamp(k, h + 1, j)
        BY <1>5, <4>2, <4>3
      <4>5. g[<<i, j>>] = IF test[h] THEN g[<<i, h>>] ELSE g[<<h + 1, j>>]
        BY <1>3, <3>2, <4>1
      <4>6. CASE test[h]
        <5>1. h >= k /\ g[<<i, j>>] = Clamp(k, i, h)
          BY <4>2, <4>4, <4>5, <4>6
        <5>2. QED
          BY <3>2, <4>2, <5>1 DEF Clamp
      <4>7. CASE ~ test[h]
        BY <3>2, <4>2, <4>4, <4>5, <4>7 DEF Clamp
      <4>8. QED
        BY <4>6, <4>7
    <3>3. QED
      BY <3>1, <3>2
  <2>2. QED
    BY <2>1
<1> HIDE DEF F
<1>6. n \in F
  <2>1. 0..n \subseteq F
    BY <1>4, <1>5, UpTo
  <2>2. QED
    BY <2>1
<1>7. g[<<0, n>>] = Clamp(k, 0, n)
  BY <1>6 DEF F
<1>8. Clamp(k, 0, n) = k
  BY DEF Clamp
<1>9. QED
  BY <1>7, <1>8, SearchUnfolds DEF g

-----------------------------------------------------------------------------
(* The statistics *)

\* In order, the prints since a moment are those after some position.
LEMMA Cut ==
  ASSUME NEW s \in Seq(Printed), InOrder(s), NEW since \in Int
  PROVE  \E k \in 0..Len(s) : \A i \in 1..Len(s) : s[i].time >= since <=> i > k
<1> DEFINE n   == Len(s)
           old == {i \in 1..n : s[i].time < since}
<1>1. n \in Nat /\ DOMAIN s = 1..n
  OBVIOUS
<1>2. \A i \in 1..n : s[i].time \in Nat
  <2>1. \A i \in 1..n : s[i] \in Printed
    OBVIOUS
  <2>2. QED
    BY <2>1 DEF Printed
<1> HIDE DEF n
<1>3. CASE old = {}
  <2>1. \A i \in 1..n : s[i].time >= since <=> i > 0
    BY <1>1, <1>2, <1>3
  <2>2. QED
    BY <1>1, <2>1 DEF n
<1>4. CASE old # {}
  <2>1. Max(old) \in old /\ \A i \in old : i <= Max(old)
    BY <1>1, <1>4, LastPosition
  <2>2. PICK k \in old : \A i \in old : i <= k
    BY <2>1
  <2>3. ASSUME NEW i \in 1..n
        PROVE  s[i].time >= since <=> i > k
    <3>1. k \in 1..n /\ s[k].time < since
      BY <2>2
    <3>2. CASE i > k
      <4>1. i \notin old
        BY <1>1, <2>2, <3>1, <3>2
      <4>2. QED
        BY <1>2, <3>2, <4>1
    <3>3. CASE ~ (i > k)
      <4>1. s[i].time <= s[k].time
        BY <1>1, <3>1, <3>3 DEF InOrder
      <4>2. QED
        BY <1>2, <3>1, <3>3, <4>1
    <3>4. QED
      BY <3>2, <3>3
  <2>4. k \in 0..n
    BY <1>1, <2>2
  <2>5. QED
    BY <2>3, <2>4 DEF n
<1>5. QED
  BY <1>3, <1>4

\* What the binary search finds: exactly the prints no older than the window.
LEMMA WindowIs ==
  ASSUME NEW s \in Seq(Printed), InOrder(s), NEW window \in Int, NEW t \in Int
  PROVE  \E k \in 0..Len(s) : /\ InWindow(s, window, t) = SubSeq(s, k + 1, Len(s))
                              /\ \A i \in 1..Len(s) : s[i].time >= t - window <=> i > k
<1> DEFINE n    == Len(s)
           test == [i \in 0..(n - 1) |-> s[i + 1].time >= t - window]
<1>1. n \in Nat /\ t - window \in Int
  OBVIOUS
<1>2. PICK k \in 0..n : \A i \in 1..n : s[i].time >= t - window <=> i > k
  BY <1>1, Cut
<1> HIDE DEF n
<1>3. ASSUME NEW h \in 0..(n - 1)
      PROVE  test[h] <=> h >= k
  <2>1. h + 1 \in 1..n /\ (h + 1 > k <=> h >= k)
    BY <1>1
  <2>2. QED
    BY <1>2, <2>1
<1>4. InWindow(s, window, t) = SubSeq(s, Search(n, test) + 1, n)
  BY DEF InWindow, From, n
<1> HIDE DEF test
<1>5. Search(n, test) = k
  BY <1>1, <1>3, SearchFinds
<1>6. QED
  BY <1>2, <1>4, <1>5 DEF n

\* A sum does not depend on where its terms stand.
LEMMA SumShifts ==
  ASSUME NEW m \in Nat, NEW k \in Nat, NEW f, NEW g,
         \A i \in 1..m : f[i] \in Int /\ g[i + k] = f[i]
  PROVE  SumFunctionOnSet(f, 1..m) = SumFunctionOnSet(g, (k + 1)..(k + m))
<1> DEFINE F == {j \in 0..m : SumFunctionOnSet(f, 1..j) = SumFunctionOnSet(g, (k + 1)..(k + j))}
<1>1. 0 \in F
  <2>1. 1..0 = {} /\ (k + 1)..(k + 0) = {} /\ 0 \in 0..m
    OBVIOUS
  <2>2. SumFunctionOnSet(f, {}) = 0 /\ SumFunctionOnSet(g, {}) = 0
    BY FS_EmptySet, SumSteps
  <2>3. SumFunctionOnSet(f, 1..0) = SumFunctionOnSet(g, (k + 1)..(k + 0))
    BY <2>1, <2>2
  <2>4. QED
    BY <2>1, <2>3
<1>2. ASSUME NEW j \in 1..m, j - 1 \in F
      PROVE  j \in F
  <2> DEFINE A == 1..(j - 1)
             B == (k + 1)..(k + (j - 1))
  <2>1. IsFiniteSet(A) /\ IsFiniteSet(B)
    BY FS_Interval
  <2>2. 1..j = A \cup {j} /\ j \notin A /\ (k + 1)..(k + j) = B \cup {j + k} /\ j + k \notin B
    OBVIOUS
  <2>3. \A i \in A \cup {j} : f[i] \in Int
    OBVIOUS
  <2>4. \A i \in B \cup {j + k} : g[i] \in Int
    <3>1. \A i \in B \cup {j + k} : i - k \in 1..m /\ (i - k) + k = i
      OBVIOUS
    <3>2. QED
      BY <3>1
  <2>5. SumFunctionOnSet(f, A) = SumFunctionOnSet(g, B) /\ f[j] = g[j + k]
    BY <1>2
  <2> HIDE DEF A, B, F
  <2>6. SumFunctionOnSet(f, A \cup {j}) = SumFunctionOnSet(f, A) + f[j]
    BY <2>1, <2>2, <2>3, SumAdds
  <2>7. SumFunctionOnSet(g, B \cup {j + k}) = SumFunctionOnSet(g, B) + g[j + k]
    BY <2>1, <2>2, <2>4, SumAdds
  <2>8. SumFunctionOnSet(f, 1..j) = SumFunctionOnSet(g, (k + 1)..(k + j))
    BY <2>2, <2>5, <2>6, <2>7, Zenon
  <2>9. QED
    BY <2>8 DEF F
<1> HIDE DEF F
<1>3. m \in F
  <2>1. 0..m \subseteq F
    BY <1>1, <1>2, UpTo
  <2>2. QED
    BY <2>1
<1>4. QED
  BY <1>3 DEF F

\* The terms summed up are integers.
LEMMA Terms ==
  ASSUME ChartAssumption, NEW s \in Seq(Printed), NEW i \in 1..Len(s)
  PROVE  /\ s[i] \in Printed /\ Volumes(s)[i] = s[i].quantity
         /\ Turnovers(s)[i] = s[i].price * s[i].quantity
         /\ Volumes(s)[i] \in Int /\ Turnovers(s)[i] \in Int
<1>1. s[i] \in Printed /\ i \in DOMAIN s
  OBVIOUS
<1>2. s[i].price \in Nat /\ s[i].quantity \in Nat
  BY <1>1 DEF Printed, ChartAssumption
<1>3. s[i].price * s[i].quantity \in Int
  BY <1>2
<1>4. QED
  BY <1>1, <1>2, <1>3 DEF Volumes, Turnovers

\* The statistics are those of the prints no older than the window.
LEMMA SummaryIs ==
  ASSUME ChartAssumption, TapeInv, NEW window \in Int
  PROVE  LET stats  == Summarise(tape, window, now)
             recent == {i \in DOMAIN tape : tape[i].time >= now - window}
             prices == {tape[i].price : i \in recent}
         IN  /\ stats.trade_count = Cardinality(recent)
             /\ stats.volume = SumFunctionOnSet(Volumes(tape), recent)
             /\ stats.quote_volume = SumFunctionOnSet(Turnovers(tape), recent)
             /\ tape # <<>> => stats.last = Last(tape).price
             /\ recent # {} => /\ stats.open = tape[Min(recent)].price
                               /\ stats.high = Max(prices) /\ stats.low = Min(prices)
                               /\ stats.change = Last(tape).price - stats.open
             /\ recent = {} => stats.change = 0
<1> DEFINE n      == Len(tape)
           recent == {i \in DOMAIN tape : tape[i].time >= now - window}
           prices == {tape[i].price : i \in recent}
           stats  == Summarise(tape, window, now)
<1>1. tape \in Seq(Printed) /\ InOrder(tape) /\ now \in Int /\ n \in Nat /\ DOMAIN tape = 1..n
  BY DEF TapeInv
<1>2. PICK k \in 0..n : /\ InWindow(tape, window, now) = SubSeq(tape, k + 1, n)
                        /\ \A i \in 1..n : tape[i].time >= now - window <=> i > k
  BY <1>1, WindowIs
<1>3. PICK w : w = SubSeq(tape, k + 1, n)
  OBVIOUS
<1> HIDE DEF n
<1>4. recent = (k + 1)..n
  BY <1>1, <1>2
<1>5. /\ w \in Seq(Printed) /\ Len(w) = n - k /\ DOMAIN w = 1..(n - k) /\ n - k \in Nat
      /\ \A i \in 1..(n - k) : i + k \in 1..n /\ w[i] = tape[i + k]
  <2>1. k + 1 \in 1..(n + 1) /\ n \in 0..n
    BY <1>1
  <2>2. \A i \in 1..(n - k) : (k + 1) + i - 1 = i + k /\ i + k \in 1..n
    BY <1>1
  <2>3. n - (k + 1) + 1 = n - k /\ n - k \in Nat
    BY <1>1
  <2>4. w \in Seq(Printed) /\ Len(w) = n - k
    BY <1>1, <1>3, <2>1, <2>3, SubSeqProperties DEF n
  <2>5. ASSUME NEW i \in 1..(n - k)
        PROVE  w[i] = tape[i + k]
    <3>1. k + 1 \in Int /\ n \in Int /\ \A j \in (k + 1)..n : tape[j] \in Printed
      BY <1>1 DEF n
    <3>2. \A j \in 1..(n - (k + 1) + 1) : SubSeq(tape, k + 1, n)[j] = tape[(k + 1) + j - 1]
      BY <3>1, SubSeqProperties
    <3>3. SubSeq(tape, k + 1, n)[i] = tape[(k + 1) + i - 1]
      BY <2>3, <3>2
    <3>4. QED
      BY <1>3, <2>2, <3>3
  <2>6. QED
    BY <2>2, <2>3, <2>4, <2>5
<1> HIDE DEF recent, prices
<1>6. Summarise(tape, window, now) =
        LET seen == {t.price : t \in ToSet(w)}
            Quiet(p) == [last |-> p, open |-> p, high |-> p, low |-> p, change |-> 0,
                         volume |-> 0, quote_volume |-> 0, trade_count |-> 0]
        IN  IF w = <<>> THEN Quiet(IF tape = <<>> THEN 0 ELSE Last(tape).price)
            ELSE [last |-> Last(w).price, open |-> w[1].price,
                  high |-> Max(seen), low |-> Min(seen),
                  change |-> Last(w).price - w[1].price,
                  volume |-> SumFunction(Volumes(w)), quote_volume |-> SumFunction(Turnovers(w)),
                  trade_count |-> Len(w)]
  BY <1>2, <1>3 DEF Summarise
<1>7. Cardinality(recent) = n - k
  <2>1. Cardinality((k + 1)..n) = IF k + 1 > n THEN 0 ELSE n - (k + 1) + 1
    <3>1. k + 1 \in Int /\ n \in Int
      BY <1>1
    <3>2. QED
      BY <3>1, FS_Interval
  <2>2. (IF k + 1 > n THEN 0 ELSE n - (k + 1) + 1) = n - k
    BY <1>1
  <2>3. QED
    BY <1>4, <2>1, <2>2
<1>8. CASE k = n
  <2>1. w = <<>> /\ recent = {}
    BY <1>1, <1>4, <1>5, <1>8
  <2>2. /\ SumFunctionOnSet(Volumes(tape), recent) = 0
        /\ SumFunctionOnSet(Turnovers(tape), recent) = 0
    BY <2>1, FS_EmptySet, SumSteps
  <2>3. /\ stats.volume = 0 /\ stats.quote_volume = 0 /\ stats.trade_count = 0 /\ stats.change = 0
        /\ tape # <<>> => stats.last = Last(tape).price
    BY <1>6, <2>1
  <2>4. n - k = 0
    BY <1>1, <1>8
  <2> HIDE DEF stats
  <2>5. QED
    BY <1>7, <2>1, <2>2, <2>3, <2>4 DEF stats, recent, prices
<1>9. CASE k < n
  <2>1. w # <<>> /\ k + 1 \in recent /\ 1 \in 1..(n - k) /\ n - k \in 1..(n - k) /\ (n - k) + k = n
        /\ 1 + k = k + 1
    BY <1>1, <1>4, <1>5, <1>9
  <2>2. Last(w) = Last(tape) /\ w[1] = tape[k + 1]
    BY <1>5, <2>1 DEF Last, n
  <2>3. Min(recent) = k + 1
    <3>1. k + 1 \in recent /\ \A i \in recent : k + 1 <= i
      BY <1>1, <1>4, <2>1
    <3>2. \A x \in recent : x \in Int
      BY <1>1, <1>4
    <3>3. QED
      BY <3>1, <3>2 DEF Min
  <2>4. {t.price : t \in ToSet(w)} = prices
    <3>1. ToSet(w) = {tape[i] : i \in recent}
      <4>1. ToSet(w) = {w[i] : i \in 1..(n - k)}
        BY <1>5 DEF ToSet
      <4>2. \A i \in recent : i - k \in 1..(n - k) /\ w[i - k] = tape[i]
        <5>1. \A i \in recent : i - k \in 1..(n - k) /\ (i - k) + k = i
          BY <1>1, <1>4
        <5>2. QED
          BY <1>5, <5>1
      <4>3. \A i \in 1..(n - k) : i + k \in recent
        BY <1>1, <1>4
      <4>4. QED
        BY <1>5, <4>1, <4>2, <4>3
    <3>2. QED
      BY <3>1 DEF prices
  <2>5. /\ SumFunction(Volumes(w)) = SumFunctionOnSet(Volumes(tape), recent)
        /\ SumFunction(Turnovers(w)) = SumFunctionOnSet(Turnovers(tape), recent)
    <3>1. ASSUME NEW i \in 1..(n - k)
          PROVE  /\ Volumes(w)[i] \in Int /\ Volumes(tape)[i + k] = Volumes(w)[i]
                 /\ Turnovers(w)[i] \in Int /\ Turnovers(tape)[i + k] = Turnovers(w)[i]
      <4>1. i \in 1..Len(w) /\ i + k \in 1..Len(tape) /\ w[i] = tape[i + k]
        BY <1>5 DEF n
      <4>2. /\ Volumes(w)[i] = w[i].quantity /\ Volumes(w)[i] \in Int
            /\ Turnovers(w)[i] = w[i].price * w[i].quantity /\ Turnovers(w)[i] \in Int
        BY <1>5, <4>1, Terms
      <4>3. /\ Volumes(tape)[i + k] = tape[i + k].quantity
            /\ Turnovers(tape)[i + k] = tape[i + k].price * tape[i + k].quantity
        BY <1>1, <4>1, Terms
      <4>4. QED
        BY <4>1, <4>2, <4>3
    <3>2. DOMAIN Volumes(w) = 1..(n - k) /\ DOMAIN Turnovers(w) = 1..(n - k)
      BY <1>5 DEF Volumes, Turnovers
    <3>3. k \in Nat /\ n - k \in Nat /\ recent = (k + 1)..(k + (n - k))
      <4>1. k + (n - k) = n
        BY <1>1
      <4>2. QED
        BY <1>1, <1>4, <1>5, <4>1
    <3>4. ASSUME NEW f, NEW g, \A i \in 1..(n - k) : f[i] \in Int /\ g[i + k] = f[i]
          PROVE  SumFunctionOnSet(f, 1..(n - k)) = SumFunctionOnSet(g, recent)
      <4>1. PICK m \in Nat : m = n - k
        BY <3>3
      <4>2. \A i \in 1..m : f[i] \in Int /\ g[i + k] = f[i]
        BY <3>4, <4>1
      <4>3. SumFunctionOnSet(f, 1..m) = SumFunctionOnSet(g, (k + 1)..(k + m))
        BY <3>3, <4>2, SumShifts
      <4>4. QED
        BY <3>3, <4>1, <4>3
    <3>5. /\ SumFunctionOnSet(Volumes(w), 1..(n - k)) = SumFunctionOnSet(Volumes(tape), recent)
          /\ SumFunctionOnSet(Turnovers(w), 1..(n - k)) = SumFunctionOnSet(Turnovers(tape), recent)
      BY <3>1, <3>4
    <3>6. QED
      BY <3>2, <3>5 DEF SumFunction
  <2>6. /\ stats.trade_count = Len(w) /\ stats.volume = SumFunction(Volumes(w))
        /\ stats.quote_volume = SumFunction(Turnovers(w)) /\ stats.last = Last(w).price
        /\ stats.open = w[1].price /\ stats.high = Max(prices) /\ stats.low = Min(prices)
        /\ stats.change = Last(w).price - w[1].price
    <3>1. stats = [last |-> Last(w).price, open |-> w[1].price,
                   high |-> Max(prices), low |-> Min(prices),
                   change |-> Last(w).price - w[1].price,
                   volume |-> SumFunction(Volumes(w)), quote_volume |-> SumFunction(Turnovers(w)),
                   trade_count |-> Len(w)]
      BY <1>6, <2>1, <2>4
    <3> HIDE DEF stats
    <3>2. QED
      BY <3>1
  <2> HIDE DEF stats
  <2>7. /\ stats.trade_count = Cardinality(recent) /\ stats.last = Last(tape).price
        /\ stats.open = tape[Min(recent)].price /\ stats.change = Last(tape).price - stats.open
    BY <1>5, <1>7, <2>2, <2>3, <2>6
  <2>8. recent # {}
    BY <2>1
  <2>9. QED
    BY <2>5, <2>6, <2>7, <2>8 DEF stats, recent, prices
<1>10. QED
  <2>1. k = n \/ k < n
    BY <1>1
  <2>2. QED
    BY <1>8, <1>9, <2>1

\* At any moment, for any window and any tape capacity, what the header sums up is
\* what was printed inside the window.
THEOREM HeaderHolds == Spec => []HeaderIsTheWindow
<1>1. ASSUME ChartAssumption, TapeInv
      PROVE  HeaderIsTheWindow
  <2>1. \A window \in 1..(MaxTime + 1) : window \in Int
    BY <1>1 DEF ChartAssumption
  <2>2. QED
    BY <1>1, <2>1, SummaryIs DEF HeaderIsTheWindow
<1>2. QED
  BY <1>1, TapeHolds, ChartAssumption, PTL

-----------------------------------------------------------------------------
(* The candles as they are built *)

Candle == [open_time : Nat, close_time : Nat, open : Prices, high : Prices, low : Prices,
           close : Prices, volume : Nat, trades : Nat]

\* What one more print makes of the candles so far.
Candled(step, out, t) ==
  IF out # <<>> /\ Last(out).open_time = Opening(t, step).open_time
  THEN [out EXCEPT ![Len(out)] = Extending(@, t)]
  ELSE Append(out, Opening(t, step))

\* When the candle of a moment opens.
Bucket(t, step) == t - (t % step)

\* A bucket is a multiple of the interval and holds its moment; they keep the order of
\* time, and different ones are an interval apart.
LEMMA Buckets ==
  ASSUME NEW step \in Nat \ {0}, NEW t \in Nat
  PROVE  /\ Bucket(t, step) \in Nat /\ Bucket(t, step) % step = 0
         /\ Bucket(t, step) <= t /\ t < Bucket(t, step) + step
         /\ \A b \in Nat : b % step = 0 /\ b <= t /\ t < b + step => b = Bucket(t, step)
         /\ \A u \in Nat : t <= u => \/ Bucket(t, step) = Bucket(u, step)
                                     \/ Bucket(t, step) + step <= Bucket(u, step)
<1>1. ASSUME NEW x \in Nat
      PROVE  /\ x % step \in 0..(step - 1) /\ x \div step \in Nat
             /\ x = step * (x \div step) + (x % step)
             /\ Bucket(x, step) = step * (x \div step)
  <2>1. x % step \in 0..(step - 1) /\ x \div step \in Nat /\ x = step * (x \div step) + (x % step)
    OBVIOUS
  <2>2. PICK q \in Nat, r \in Nat : q = x \div step /\ r = x % step
    BY <2>1
  <2>3. PICK m \in Nat : m = step * q
    OBVIOUS
  <2>4. x - r = m
    BY <2>1, <2>2, <2>3
  <2>5. QED
    BY <2>1, <2>2, <2>3, <2>4 DEF Bucket
<1>2. ASSUME NEW q \in Nat, NEW p \in Nat
      PROVE  /\ q < p => step * q + step <= step * p
             /\ step * q \in Nat /\ step * p \in Nat
             /\ q <= p => step * q <= step * p
  <2>1. CASE q < p
    <3>1. PICK c \in Nat : p = q + 1 + c
      <4>1. p - q - 1 \in Nat /\ p = q + 1 + (p - q - 1)
        BY <2>1
      <4>2. QED
        BY <4>1
    <3>2. step * p = step * q + step + step * c /\ step * c >= 0
      BY <3>1
    <3>3. step * q \in Nat /\ step * c \in Nat
      OBVIOUS
    <3>4. QED
      BY <2>1, <3>2, <3>3
  <2>2. CASE q = p
    BY <2>2
  <2>3. CASE q > p
    BY <2>3
  <2>4. QED
    BY <2>1, <2>2, <2>3
<1>3. ASSUME NEW b \in Nat, b % step = 0, b <= t, t < b + step
      PROVE  b = Bucket(t, step)
  <2>1. PICK q \in Nat, p \in Nat : q = b \div step /\ p = t \div step
    BY <1>1
  <2>2. b = step * q /\ Bucket(t, step) = step * p
    <3>1. b = step * q + (b % step)
      BY <1>1, <2>1
    <3>2. PICK m \in Nat : m = step * q
      BY <1>2
    <3>3. b = m
      BY <1>3, <3>1, <3>2
    <3>4. QED
      BY <1>1, <2>1, <3>2, <3>3
  <2>3. step * p <= t /\ t < step * p + step
    BY <1>1, <2>1
  <2>4. q = p
    <3>1. ~ (q < p)
      BY <1>2, <1>3, <2>2, <2>3
    <3>2. ~ (p < q)
      BY <1>2, <1>3, <2>2, <2>3
    <3>3. QED
      BY <3>1, <3>2
  <2>5. QED
    BY <2>2, <2>4
<1>4. ASSUME NEW u \in Nat, t <= u
      PROVE  Bucket(t, step) = Bucket(u, step) \/ Bucket(t, step) + step <= Bucket(u, step)
  <2>1. PICK q \in Nat, p \in Nat : q = t \div step /\ p = u \div step
    BY <1>1
  <2>2. Bucket(t, step) = step * q /\ Bucket(u, step) = step * p
    BY <1>1, <2>1
  <2>3. step * q <= t /\ u < step * p + step
    BY <1>1, <2>1
  <2>4. ~ (p < q)
    <3>1. p < q => step * p + step <= step * q
      BY <1>2
    <3>2. step * p \in Nat /\ step * q \in Nat
      BY <1>2
    <3>3. QED
      BY <1>4, <2>3, <3>1, <3>2
  <2>5. q = p \/ q < p
    BY <2>4
  <2>6. QED
    BY <1>2, <2>2, <2>5
<1>5. Bucket(t, step) \in Nat /\ Bucket(t, step) % step = 0
  <2>1. PICK q \in Nat : q = t \div step
    BY <1>1
  <2>2. Bucket(t, step) = step * q /\ step * q \in Nat
    BY <1>1, <1>2, <2>1
  <2>3. (step * q) % step = 0
    <3>1. PICK r \in 0..(step - 1), p \in Nat : r = (step * q) % step /\ p = (step * q) \div step /\ step * q = step * p + r
      BY <1>1, <2>2
    <3>2. ~ (q < p) /\ ~ (p < q)
      BY <1>2, <3>1
    <3>3. q = p
      BY <3>2
    <3>4. r = 0
      BY <3>1, <3>3
    <3>5. QED
      BY <3>1, <3>4
  <2>4. QED
    BY <2>2, <2>3
<1>6. Bucket(t, step) <= t /\ t < Bucket(t, step) + step
  BY <1>1, <1>2
<1>7. QED
  BY <1>3, <1>4, <1>5, <1>6

\* A print opens a candle, and extends one.
LEMMA CandleType ==
  ASSUME ChartAssumption, NEW step \in Nat \ {0}, NEW t \in Printed
  PROVE  /\ Opening(t, step) \in Candle
         /\ \A c \in Candle : Extending(c, t) \in Candle
<1>1. t.price \in Prices /\ t.quantity \in Nat /\ t.time \in Nat /\ Prices \subseteq Nat
  BY DEF Printed, ChartAssumption
<1>2. Opening(t, step) \in Candle
  <2>1. Bucket(t.time, step) \in Nat /\ Bucket(t.time, step) + step \in Nat
    <3>1. Bucket(t.time, step) \in Nat
      BY <1>1, Buckets
    <3>2. QED
      BY <3>1
  <2>2. Opening(t, step) = [open_time |-> Bucket(t.time, step), close_time |-> Bucket(t.time, step) + step,
                            open |-> t.price, high |-> t.price, low |-> t.price, close |-> t.price,
                            volume |-> t.quantity, trades |-> 1]
    BY DEF Opening, Bucket
  <2>3. QED
    BY <1>1, <2>1, <2>2 DEF Candle
<1>3. ASSUME NEW c \in Candle
      PROVE  Extending(c, t) \in Candle
  <2>1. /\ c.high \in Prices /\ c.low \in Prices /\ c.volume \in Nat /\ c.trades \in Nat
    BY DEF Candle
  <2>2. Max({c.high, t.price}) \in Prices /\ Min({c.low, t.price}) \in Prices
    <3>1. c.high \in Int /\ c.low \in Int /\ t.price \in Int
      <4>1. \A p \in Prices : p \in Int
        BY <1>1
      <4>2. QED
        BY <1>1, <2>1, <4>1
    <3>2. Max({c.high, t.price}) \in {c.high, t.price} /\ Min({c.low, t.price}) \in {c.low, t.price}
      BY <3>1, OfTwo
    <3>3. QED
      BY <1>1, <2>1, <3>2
  <2>3. c.volume + t.quantity \in Nat /\ c.trades + 1 \in Nat
    BY <1>1, <2>1
  <2>4. QED
    BY <1>1, <2>2, <2>3 DEF Extending, Candle
<1>4. QED
  BY <1>2, <1>3

\* One more print makes candles of candles.
LEMMA CandledType ==
  ASSUME ChartAssumption, NEW step \in Nat \ {0}, NEW t \in Printed, NEW out \in Seq(Candle)
  PROVE  Candled(step, out, t) \in Seq(Candle)
<1>1. CASE out # <<>> /\ Last(out).open_time = Opening(t, step).open_time
  <2>1. Len(out) \in 1..Len(out) /\ out[Len(out)] \in Candle
    BY <1>1
  <2>2. Extending(out[Len(out)], t) \in Candle
    BY <2>1, CandleType
  <2>3. Candled(step, out, t) = [out EXCEPT ![Len(out)] = Extending(out[Len(out)], t)]
    BY <1>1 DEF Candled
  <2>4. QED
    BY <2>1, <2>2, <2>3
<1>2. CASE ~ (out # <<>> /\ Last(out).open_time = Opening(t, step).open_time)
  BY <1>2, CandleType, AppendIs DEF Candled
<1>3. QED
  BY <1>1, <1>2

\* The fold goes through the prints from the first.
CandleFold(step, s, h) ==
  h = [S \in SUBSET DOMAIN s |-> IF S = {} THEN <<>>
                                 ELSE Candled(step, h[S \ {Max(S)}], s[Max(S)])]

LEMMA CandlesUnfold ==
  ASSUME NEW s, NEW step
  PROVE  LET all == (CHOOSE h : CandleFold(step, s, h))[DOMAIN s]
         IN  /\ Candles(s, step, 0) = all
             /\ \A limit \in Nat \ {0} :
                  Candles(s, step, limit) =
                    IF Len(all) > limit THEN SubSeq(all, Len(all) - limit + 1, Len(all)) ELSE all
  BY DEF Candles, FoldLeft, MapThenFoldSet, CandleFold, Candled

\* All candles of s, as they were after each of its prints.
Built(t, step, s) ==
  /\ t \in [0..Len(s) -> Seq(Candle)] /\ t[0] = <<>>
  /\ \A k \in 1..Len(s) : t[k] = Candled(step, t[k - 1], s[k])

LEMMA CandlesAreBuilt ==
  ASSUME ChartAssumption, NEW step \in Nat \ {0}, NEW s \in Seq(Printed)
  PROVE  \E t : /\ Built(t, step, s)
                /\ Candles(s, step, 0) = t[Len(s)]
                /\ \A limit \in Nat \ {0} :
                     Candles(s, step, limit) =
                       IF Len(t[Len(s)]) > limit
                       THEN SubSeq(t[Len(s)], Len(t[Len(s)]) - limit + 1, Len(t[Len(s)]))
                       ELSE t[Len(s)]
<1> DEFINE n == Len(s)
           A == Seq(Candle)
           f == [x \in A \X (1..n) |-> Candled(step, x[1], s[x[2]])]
           h == CHOOSE h : CandleFold(step, s, h)
<1>1. n \in Nat /\ DOMAIN s = 1..n /\ \A i \in 1..n : s[i] \in Printed
  OBVIOUS
<1> HIDE DEF n
<1>2. f \in [A \X (1..n) -> A] /\ <<>> \in A
  <2>1. \A x \in A \X (1..n) : Candled(step, x[1], s[x[2]]) \in A
    BY <1>1, CandledType
  <2>2. QED
    BY <2>1
<1>3. CandleFold(step, s, h)
  <2>1. PICK g \in [SUBSET (1..n) -> A] :
          \A S \in SUBSET (1..n) : g[S] = IF S = {} THEN <<>> ELSE f[<<g[S \ {Max(S)}], Max(S)>>]
    <3>1. PICK g \in [SUBSET (1..n) -> A] : FoldsOver(g, f, <<>>, n)
      <4> HIDE DEF A, f
      <4>1. QED
        BY <1>1, <1>2, FoldsLeft
    <3> HIDE DEF A, f
    <3>2. QED
      BY <3>1 DEF FoldsOver
  <2>2. ASSUME NEW S \in SUBSET (1..n)
        PROVE  g[S] = IF S = {} THEN <<>> ELSE Candled(step, g[S \ {Max(S)}], s[Max(S)])
    <3>1. CASE S = {}
      BY <2>1, <3>1
    <3>2. CASE S # {}
      <4>1. Max(S) \in 1..n /\ g[S \ {Max(S)}] \in A
        BY <1>1, <2>1, <3>2, LastPosition
      <4>2. <<g[S \ {Max(S)}], Max(S)>> \in A \X (1..n)
        BY <4>1
      <4> HIDE DEF A
      <4>3. QED
        BY <2>1, <3>2, <4>2
    <3>3. QED
      BY <3>1, <3>2
  <2>3. g = [S \in SUBSET (1..n) |-> g[S]]
    BY <2>1
  <2>4. g = [S \in SUBSET DOMAIN s |-> IF S = {} THEN <<>> ELSE Candled(step, g[S \ {Max(S)}], s[Max(S)])]
    BY <1>1, <2>2, <2>3
  <2>5. CandleFold(step, s, g)
    BY <2>4 DEF CandleFold
  <2>6. QED
    BY <2>5
<1> DEFINE t == [k \in 0..n |-> h[1..k]]
<1> HIDE DEF h
<1>4. \A S \in SUBSET (1..n) : h[S] = IF S = {} THEN <<>> ELSE Candled(step, h[S \ {Max(S)}], s[Max(S)])
  BY <1>1, <1>3 DEF CandleFold
<1>5. t[0] = <<>>
  <2>1. 1..0 = {} /\ 0 \in 0..n /\ {} \in SUBSET (1..n)
    BY <1>1
  <2>2. QED
    BY <1>4, <2>1
<1>6. ASSUME NEW k \in 1..n
      PROVE  t[k] = Candled(step, t[k - 1], s[k])
  <2>1. Max(1..k) = k /\ (1..k) \ {Max(1..k)} = 1..(k - 1)
    BY LastOfInterval
  <2>2. 1..k # {} /\ 1..k \in SUBSET (1..n) /\ k \in 0..n /\ k - 1 \in 0..n
    BY <1>1
  <2>3. h[1..k] = Candled(step, h[1..(k - 1)], s[k])
    BY <1>4, <2>1, <2>2
  <2>4. QED
    BY <2>2, <2>3
<1>7. t \in [0..n -> Seq(Candle)]
  <2> DEFINE F == {k \in 0..n : t[k] \in Seq(Candle)}
  <2>1. 0 \in F
    <3>1. 0 \in 0..n /\ <<>> \in Seq(Candle)
      BY <1>1
    <3> HIDE DEF t
    <3>2. QED
      BY <1>5, <3>1
  <2>2. ASSUME NEW k \in 1..n, k - 1 \in F
        PROVE  k \in F
    <3> HIDE DEF t
    <3>1. Candled(step, t[k - 1], s[k]) \in Seq(Candle)
      BY <1>1, <2>2, CandledType
    <3>2. QED
      BY <1>1, <1>6, <3>1
  <2> HIDE DEF F
  <2>3. 0..n \subseteq F
    BY <1>1, <2>1, <2>2, UpTo
  <2>4. \A k \in 0..n : t[k] \in Seq(Candle)
    BY <2>3 DEF F
  <2>5. t = [k \in 0..n |-> t[k]]
    OBVIOUS
  <2> HIDE DEF t
  <2>6. QED
    BY <2>4, <2>5
<1>8. t[n] = h[DOMAIN s]
  BY <1>1
<1> HIDE DEF t
<1>9. Built(t, step, s)
  BY <1>5, <1>6, <1>7 DEF Built, n
<1>10. /\ Candles(s, step, 0) = t[n]
       /\ \A limit \in Nat \ {0} :
            Candles(s, step, limit) =
              IF Len(t[n]) > limit THEN SubSeq(t[n], Len(t[n]) - limit + 1, Len(t[n])) ELSE t[n]
  BY <1>8, CandlesUnfold DEF h
<1>11. QED
  BY <1>9, <1>10 DEF n

-----------------------------------------------------------------------------
(* What the candles hold *)

\* The prints among the first k whose bucket is c's.
PrintsOf(step, s, k, c) == {i \in 1..k : Bucket(s[i].time, step) = c.open_time}

\* c says of the prints P what they are.
Tells(s, c, P) ==
  /\ \E i \in P : (\A j \in P : i <= j) /\ c.open = s[i].price
  /\ \E i \in P : (\A j \in P : j <= i) /\ c.close = s[i].price
  /\ \A i \in P : c.low <= s[i].price /\ s[i].price <= c.high
  /\ (\E i \in P : c.low = s[i].price) /\ (\E i \in P : c.high = s[i].price)
  /\ c.trades = Cardinality(P) /\ c.volume = SumFunctionOnSet(Volumes(s), P)

\* c is a candle of the first k prints.
CandleOf(step, s, k, c) ==
  /\ c.open_time % step = 0 /\ c.close_time = c.open_time + step
  /\ Tells(s, c, PrintsOf(step, s, k, c))

\* The candles of the first k prints: in order and apart, and each print in one.
Partition(step, s, k, out) ==
  /\ out \in Seq(Candle)
  /\ \A m \in 1..Len(out) : CandleOf(step, s, k, out[m])
  /\ \A l \in 1..Len(out), m \in 1..Len(out) : l < m => out[l].close_time <= out[m].open_time
  /\ \A i \in 1..k : \E m \in 1..Len(out) : out[m].open_time = Bucket(s[i].time, step)
  /\ IF k = 0 THEN out = <<>>
     ELSE Len(out) > 0 /\ out[Len(out)].open_time = Bucket(s[k].time, step)

\* What a print is made of.
LEMMA PrintIs ==
  ASSUME ChartAssumption, NEW t \in Printed
  PROVE  /\ t.price \in Prices /\ t.price \in Int /\ t.price > 0
         /\ t.quantity \in Nat /\ t.time \in Nat
<1>1. \A x \in Prices \cup Quantities : x \in Int /\ x \in Nat /\ x > 0
  BY DEF ChartAssumption
<1>2. t.price \in Prices /\ t.quantity \in Quantities /\ t.time \in Nat
  BY DEF Printed
<1>3. QED
  BY <1>1, <1>2

\* What a candle is made of.
LEMMA CandleIs ==
  ASSUME ChartAssumption, NEW c \in Candle
  PROVE  /\ c.high \in Int /\ c.low \in Int /\ c.open \in Int /\ c.close \in Int
         /\ c.trades \in Int /\ c.volume \in Int /\ c.open_time \in Nat /\ c.close_time \in Nat
         /\ c.low > 0
<1>1. \A x \in Prices : x \in Int /\ x > 0
  BY DEF ChartAssumption
<1>2. /\ c.high \in Prices /\ c.low \in Prices /\ c.open \in Prices /\ c.close \in Prices
      /\ c.trades \in Nat /\ c.volume \in Nat /\ c.open_time \in Nat /\ c.close_time \in Nat
  BY DEF Candle
<1>3. c.high \in Int /\ c.low \in Int /\ c.open \in Int /\ c.close \in Int /\ c.low > 0
  BY <1>1, <1>2
<1>4. c.trades \in Int /\ c.volume \in Int
  BY <1>2
<1>5. QED
  BY <1>2, <1>3, <1>4

\* A candle of another bucket than the newest print's does not change.
LEMMA CandleStays ==
  ASSUME NEW step, NEW s, NEW k \in Nat \ {0}, NEW c, CandleOf(step, s, k - 1, c),
         c.open_time # Bucket(s[k].time, step)
  PROVE  CandleOf(step, s, k, c)
<1>1. PrintsOf(step, s, k, c) = PrintsOf(step, s, k - 1, c)
  <2>1. 1..k = (1..(k - 1)) \cup {k}
    OBVIOUS
  <2>2. QED
    BY <2>1 DEF PrintsOf
<1>2. QED
  BY <1>1 DEF CandleOf

\* A print in a bucket of its own opens a candle that holds it.
LEMMA CandleOpens ==
  ASSUME ChartAssumption, NEW step \in Nat \ {0}, NEW s \in Seq(Printed), NEW k \in 1..Len(s),
         \A i \in 1..(k - 1) : Bucket(s[i].time, step) # Bucket(s[k].time, step)
  PROVE  /\ CandleOf(step, s, k, Opening(s[k], step))
         /\ Opening(s[k], step).open_time = Bucket(s[k].time, step)
<1> DEFINE c == Opening(s[k], step)
<1>1. s[k] \in Printed /\ k \in Nat \ {0}
  OBVIOUS
<1>2. s[k].time \in Nat /\ s[k].price \in Nat /\ s[k].quantity \in Int
  BY <1>1, PrintIs
<1>3. /\ c.open_time = Bucket(s[k].time, step) /\ c.close_time = c.open_time + step
      /\ c.open = s[k].price /\ c.close = s[k].price /\ c.low = s[k].price /\ c.high = s[k].price
      /\ c.trades = 1 /\ c.volume = s[k].quantity
  BY DEF Opening, Bucket
<1> HIDE DEF c
<1>4. PrintsOf(step, s, k, c) = {k}
  <2>1. 1..k = (1..(k - 1)) \cup {k}
    BY <1>1
  <2>2. QED
    BY <1>3, <2>1 DEF PrintsOf
<1>5. Cardinality({k}) = 1
  BY FS_Singleton
<1>6. SumFunctionOnSet(Volumes(s), {k}) = s[k].quantity
  <2>1. Volumes(s)[k] = s[k].quantity /\ IsFiniteSet({}) /\ {} \cup {k} = {k}
    BY Terms, FS_EmptySet
  <2>2. SumFunctionOnSet(Volumes(s), {} \cup {k}) = SumFunctionOnSet(Volumes(s), {}) + Volumes(s)[k]
    BY <1>2, <2>1, SumAdds
  <2>3. SumFunctionOnSet(Volumes(s), {}) = 0
    BY <2>1, SumSteps
  <2>4. QED
    BY <1>2, <2>1, <2>2, <2>3
<1>7. Tells(s, c, {k})
  BY <1>1, <1>2, <1>3, <1>5, <1>6 DEF Tells
<1>8. c.open_time % step = 0
  <2>1. Bucket(s[k].time, step) % step = 0
    BY <1>2, Buckets
  <2>2. QED
    BY <1>3, <2>1
<1>9. QED
  BY <1>3, <1>4, <1>7, <1>8 DEF CandleOf, c

\* The next print of its bucket extends a candle so that it holds that one too.
LEMMA CandleExtends ==
  ASSUME ChartAssumption, NEW step \in Nat \ {0}, NEW s \in Seq(Printed), NEW k \in 1..Len(s),
         NEW c \in Candle, CandleOf(step, s, k - 1, c), c.open_time = Bucket(s[k].time, step)
  PROVE  /\ CandleOf(step, s, k, Extending(c, s[k]))
         /\ Extending(c, s[k]).open_time = c.open_time
         /\ Extending(c, s[k]).close_time = c.close_time
<1> DEFINE d == Extending(c, s[k])
           P == PrintsOf(step, s, k - 1, c)
<1>1. s[k] \in Printed /\ k \in Nat \ {0} /\ k - 1 \in Nat
  OBVIOUS
<1>2. /\ s[k].price \in Int /\ s[k].quantity \in Int
      /\ c.high \in Int /\ c.low \in Int /\ c.trades \in Int /\ c.volume \in Int
  BY <1>1, PrintIs, CandleIs
<1>3. /\ d.open_time = c.open_time /\ d.close_time = c.close_time /\ d.open = c.open
      /\ d.close = s[k].price /\ d.trades = c.trades + 1 /\ d.volume = c.volume + s[k].quantity
      /\ d.high = Max({c.high, s[k].price}) /\ d.low = Min({c.low, s[k].price})
  BY DEF Extending, Candle
<1>4. /\ d.high = IF c.high >= s[k].price THEN c.high ELSE s[k].price
      /\ d.low = IF c.low <= s[k].price THEN c.low ELSE s[k].price
  BY <1>2, <1>3, OfTwo
<1> HIDE DEF d
<1>5. P \subseteq 1..(k - 1) /\ k \notin P /\ IsFiniteSet(P)
  <2>1. P \subseteq 1..(k - 1)
    BY DEF PrintsOf
  <2>2. k \notin 1..(k - 1)
    BY <1>1
  <2>3. IsFiniteSet(1..(k - 1))
    <3>1. 1 \in Int /\ k - 1 \in Int
      BY <1>1
    <3>2. QED
      BY <3>1, FS_Interval, Zenon
  <2> HIDE DEF P
  <2>4. QED
    BY <2>1, <2>2, <2>3, FS_Subset
<1>6. PrintsOf(step, s, k, d) = P \cup {k}
  <2>1. 1..k = (1..(k - 1)) \cup {k}
    BY <1>1
  <2>2. QED
    BY <1>3, <2>1 DEF PrintsOf
<1>7. Tells(s, c, P) /\ c.open_time % step = 0 /\ c.close_time = c.open_time + step
  BY DEF CandleOf
<1>8. \A i \in P : i \in Nat /\ i <= k /\ s[i].price \in Int
  <2>1. \A i \in P : i \in Nat /\ i <= k /\ i \in 1..Len(s)
    BY <1>1, <1>5
  <2>2. \A i \in P : s[i] \in Printed
    BY <2>1
  <2>3. \A p \in Prices : p \in Int
    BY DEF ChartAssumption
  <2>4. QED
    BY <2>1, <2>2, <2>3 DEF Printed
<1>9. Cardinality(P \cup {k}) = Cardinality(P) + 1
  BY <1>5, FS_AddElement
<1>10. SumFunctionOnSet(Volumes(s), P \cup {k}) = SumFunctionOnSet(Volumes(s), P) + s[k].quantity
  <2>1. \A i \in P \cup {k} : i \in 1..Len(s)
    BY <1>1, <1>5
  <2>2. \A i \in P \cup {k} : Volumes(s)[i] \in Int
    BY <2>1, Terms
  <2>3. Volumes(s)[k] = s[k].quantity
    BY Terms
  <2> HIDE DEF P
  <2>4. SumFunctionOnSet(Volumes(s), P \cup {k}) = SumFunctionOnSet(Volumes(s), P) + Volumes(s)[k]
    BY <1>5, <2>2, SumAdds
  <2>5. QED
    BY <2>3, <2>4
<1> HIDE DEF P
<1>11. Tells(s, d, P \cup {k})
  <2>1. \E i \in P \cup {k} : (\A j \in P \cup {k} : i <= j) /\ d.open = s[i].price
    <3>1. PICK i \in P : (\A j \in P : i <= j) /\ c.open = s[i].price
      BY <1>7 DEF Tells
    <3>2. \A j \in P \cup {k} : i <= j
      BY <1>8, <3>1
    <3>3. QED
      BY <1>3, <3>1, <3>2
  <2>2. \E i \in P \cup {k} : (\A j \in P \cup {k} : j <= i) /\ d.close = s[i].price
    <3>1. \A j \in P \cup {k} : j <= k
      BY <1>1, <1>8
    <3>2. QED
      BY <1>3, <3>1
  <2>3. \A i \in P : c.low <= s[i].price /\ s[i].price <= c.high
    BY <1>7 DEF Tells
  <2>4. ASSUME NEW i \in P \cup {k}
        PROVE  d.low <= s[i].price /\ s[i].price <= d.high
    <3>1. PICK x \in Int, y \in Int : x = s[i].price /\ y = s[k].price
      BY <1>2, <1>8
    <3>2. PICK least \in Int, most \in Int : least = c.low /\ most = c.high
      BY <1>2
    <3>3. x = y \/ (least <= x /\ x <= most)
      BY <2>3, <3>1, <3>2
    <3>4. /\ d.high = IF most >= y THEN most ELSE y
          /\ d.low = IF least <= y THEN least ELSE y
      BY <1>4, <3>1, <3>2
    <3>5. d.low <= x /\ x <= d.high
      BY <3>3, <3>4
    <3>6. QED
      BY <3>1, <3>5
  <2>5. (\E i \in P \cup {k} : d.low = s[i].price) /\ (\E i \in P \cup {k} : d.high = s[i].price)
    <3>1. (\E i \in P : c.low = s[i].price) /\ (\E i \in P : c.high = s[i].price)
      BY <1>7 DEF Tells
    <3>2. QED
      BY <1>4, <3>1
  <2>6. d.trades = Cardinality(P \cup {k}) /\ d.volume = SumFunctionOnSet(Volumes(s), P \cup {k})
    <3>1. c.trades = Cardinality(P) /\ c.volume = SumFunctionOnSet(Volumes(s), P)
      BY <1>7 DEF Tells
    <3>2. QED
      BY <1>3, <1>9, <1>10, <3>1
  <2>7. QED
    BY <2>1, <2>2, <2>4, <2>5, <2>6 DEF Tells
<1>12. QED
  BY <1>3, <1>6, <1>7, <1>11 DEF CandleOf, d

\* One more print: the candles still partition the prints.
LEMMA PartitionGrows ==
  ASSUME ChartAssumption, NEW step \in Nat \ {0}, NEW s \in Seq(Printed), InOrder(s),
         NEW k \in 1..Len(s), NEW out, Partition(step, s, k - 1, out)
  PROVE  Partition(step, s, k, Candled(step, out, s[k]))
<1> DEFINE n == Len(out)
           b == Bucket(s[k].time, step)
<1>1. /\ out \in Seq(Candle) /\ n \in Nat /\ DOMAIN out = 1..n
      /\ \A m \in 1..n : out[m] \in Candle /\ CandleOf(step, s, k - 1, out[m])
  BY DEF Partition
<1>2. \A l \in 1..n, m \in 1..n : l < m => out[l].close_time <= out[m].open_time
  BY DEF Partition
<1>3. \A i \in 1..(k - 1) : \E m \in 1..n : out[m].open_time = Bucket(s[i].time, step)
  BY DEF Partition
<1>4. IF k - 1 = 0 THEN out = <<>>
      ELSE n > 0 /\ out[n].open_time = Bucket(s[k - 1].time, step)
  BY DEF Partition
<1>5. \A m \in 1..n : /\ out[m].open_time \in Nat /\ out[m].close_time \in Nat
                      /\ out[m].close_time = out[m].open_time + step
                      /\ out[m].open_time < out[m].close_time
  <2>1. ASSUME NEW m \in 1..n
        PROVE  /\ out[m].open_time \in Nat /\ out[m].close_time \in Nat
               /\ out[m].close_time = out[m].open_time + step
    <3>1. out[m] \in Candle /\ CandleOf(step, s, k - 1, out[m])
      BY <1>1
    <3>2. QED
      BY <3>1 DEF Candle, CandleOf
  <2>2. QED
    BY <2>1
<1>6. /\ s[k] \in Printed /\ s[k].time \in Nat /\ b \in Nat /\ k \in Nat \ {0}
      /\ Opening(s[k], step).open_time = b
  <2>1. s[k] \in Printed /\ k \in Nat \ {0}
    OBVIOUS
  <2>2. s[k].time \in Nat
    BY <2>1 DEF Printed
  <2>3. QED
    BY <2>1, <2>2, Buckets DEF Opening, Bucket
<1>7. Last(out) = out[n]
  BY DEF Last
<1>8. 1..k = (1..(k - 1)) \cup {k}
  BY <1>6
<1> HIDE DEF n, b
<1>9. CASE out # <<>> /\ Last(out).open_time = Opening(s[k], step).open_time
  <2> DEFINE e   == Extending(out[n], s[k])
             new == [out EXCEPT ![n] = e]
  <2>1. n \in 1..n /\ out[n].open_time = b /\ n > 0
    BY <1>1, <1>6, <1>7, <1>9 DEF n
  <2>2. Candled(step, out, s[k]) = new
    BY <1>9 DEF Candled, n
  <2>3. /\ CandleOf(step, s, k, e) /\ e.open_time = b /\ e.close_time = out[n].close_time
        /\ e \in Candle
    BY <1>1, <1>6, <2>1, CandleExtends, CandleType DEF b
  <2> HIDE DEF e
  <2>4. /\ new \in Seq(Candle) /\ Len(new) = n
        /\ \A m \in 1..n : m # n => new[m] = out[m]
        /\ new[n] = e
    BY <1>1, <2>1, <2>3 DEF n
  <2> HIDE DEF new
  <2>5. \A m \in 1..n : new[m].open_time = out[m].open_time /\ new[m].close_time = out[m].close_time
    BY <2>1, <2>3, <2>4
  <2>6. \A m \in 1..n : CandleOf(step, s, k, new[m])
    <3>1. SUFFICES ASSUME NEW m \in 1..n, m # n
                   PROVE  CandleOf(step, s, k, out[m])
      BY <2>3, <2>4
    <3>2. m < n
      BY <1>1, <3>1
    <3>3. out[m].open_time # b
      BY <1>2, <1>5, <2>1, <3>2
    <3>4. QED
      BY <1>1, <1>6, <3>3, CandleStays DEF b
  <2>7. \A i \in 1..k : \E m \in 1..n : new[m].open_time = Bucket(s[i].time, step)
    BY <1>3, <1>8, <2>1, <2>5 DEF b
  <2>8. new[n].open_time = Bucket(s[k].time, step) /\ k # 0
    BY <1>6, <2>3, <2>4 DEF b
  <2>9. Partition(step, s, k, new)
    BY <1>2, <2>1, <2>4, <2>5, <2>6, <2>7, <2>8 DEF Partition
  <2>10. QED
    BY <2>2, <2>9
<1>10. CASE ~ (out # <<>> /\ Last(out).open_time = Opening(s[k], step).open_time)
  <2> DEFINE e   == Opening(s[k], step)
             new == Append(out, e)
  <2>1. Candled(step, out, s[k]) = new
    BY <1>10 DEF Candled
  <2>2. ASSUME NEW m \in 1..n
        PROVE  out[m].close_time <= b
    <3>1. out # <<>> /\ n > 0 /\ n \in 1..n
      BY <1>1 DEF n
    <3>2. k - 1 # 0 /\ out[n].open_time = Bucket(s[k - 1].time, step) /\ out[n].open_time # b
      BY <1>4, <1>6, <1>7, <1>10, <3>1
    <3>3. k - 1 \in 1..Len(s) /\ k - 1 <= k
      BY <1>6, <3>2
    <3>4. s[k - 1] \in Printed /\ s[k - 1].time <= s[k].time
      BY <3>3 DEF InOrder
    <3>5. s[k - 1].time \in Nat
      BY <3>4 DEF Printed
    <3>6. out[n].open_time + step <= b
      <4>1. \/ Bucket(s[k - 1].time, step) = Bucket(s[k].time, step)
            \/ Bucket(s[k - 1].time, step) + step <= Bucket(s[k].time, step)
        <5>1. PICK t \in Nat, u \in Nat : t = s[k - 1].time /\ u = s[k].time
          BY <1>6, <3>5
        <5>2. t <= u
          BY <3>4, <5>1
        <5>3. Bucket(t, step) = Bucket(u, step) \/ Bucket(t, step) + step <= Bucket(u, step)
          BY <5>2, Buckets, Zenon
        <5>4. QED
          BY <5>1, <5>3
      <4>2. QED
        BY <3>2, <4>1 DEF b
    <3>7. out[n].close_time <= b
      BY <1>5, <3>1, <3>6
    <3>8. CASE m = n
      BY <3>7, <3>8
    <3>9. CASE m < n
      <4>1. out[m].close_time <= out[n].open_time
        BY <1>2, <3>1, <3>9
      <4>2. out[m].close_time \in Nat /\ out[n].open_time \in Nat /\ out[n].close_time \in Nat
            /\ out[n].open_time < out[n].close_time
        BY <1>5, <3>1
      <4>3. b \in Nat
        BY <1>6
      <4>4. QED
        BY <3>7, <4>1, <4>2, <4>3
    <3>10. QED
      BY <1>1, <3>8, <3>9
  <2>3. \A m \in 1..n : out[m].open_time # b
    BY <1>5, <1>6, <2>2
  <2>4. \A i \in 1..(k - 1) : Bucket(s[i].time, step) # b
    BY <1>3, <2>3
  <2>5. CandleOf(step, s, k, e) /\ e.open_time = b /\ e \in Candle
    BY <1>6, <2>4, CandleOpens, CandleType DEF b
  <2> HIDE DEF e
  <2>6. /\ new \in Seq(Candle) /\ Len(new) = n + 1
        /\ \A m \in 1..n : new[m] = out[m]
        /\ new[n + 1] = e
    BY <1>1, <2>5, AppendIs DEF n
  <2> HIDE DEF new
  <2>7. \A m \in 1..(n + 1) : m \in 1..n \/ m = n + 1
    BY <1>1
  <2>8. \A m \in 1..(n + 1) : CandleOf(step, s, k, new[m])
    <3>1. SUFFICES ASSUME NEW m \in 1..n
                   PROVE  CandleOf(step, s, k, out[m])
      BY <2>5, <2>6, <2>7
    <3>2. QED
      BY <1>1, <1>6, <2>3, CandleStays DEF b
  <2>9. ASSUME NEW l \in 1..(n + 1), NEW m \in 1..(n + 1), l < m
        PROVE  new[l].close_time <= new[m].open_time
    <3>1. l \in 1..n /\ new[l] = out[l]
      BY <1>1, <2>6, <2>9
    <3>2. CASE m = n + 1
      BY <2>2, <2>5, <2>6, <3>1, <3>2
    <3>3. CASE m \in 1..n
      BY <1>2, <2>6, <2>9, <3>1, <3>3
    <3>4. QED
      BY <2>7, <3>2, <3>3
  <2>10. \A i \in 1..k : \E m \in 1..(n + 1) : new[m].open_time = Bucket(s[i].time, step)
    <3>1. n + 1 \in 1..(n + 1) /\ \A m \in 1..n : m \in 1..(n + 1)
      BY <1>1
    <3>2. new[n + 1].open_time = Bucket(s[k].time, step)
      BY <2>5, <2>6 DEF b
    <3>3. QED
      BY <1>3, <1>8, <2>6, <3>1, <3>2
  <2>11. new[n + 1].open_time = Bucket(s[k].time, step) /\ k # 0 /\ n + 1 > 0
    BY <1>1, <1>6, <2>5, <2>6 DEF b
  <2>12. Partition(step, s, k, new)
    BY <2>6, <2>8, <2>9, <2>10, <2>11 DEF Partition
  <2>13. QED
    BY <2>1, <2>12
<1>11. QED
  BY <1>9, <1>10

\* The candles of a tape partition it.
LEMMA CandlesPartition ==
  ASSUME ChartAssumption, NEW step \in Nat \ {0}, NEW s \in Seq(Printed), InOrder(s)
  PROVE  /\ Partition(step, s, Len(s), Candles(s, step, 0))
         /\ \A limit \in Nat \ {0} :
              LET all == Candles(s, step, 0)
              IN  Candles(s, step, limit) =
                    IF Len(all) > limit THEN SubSeq(all, Len(all) - limit + 1, Len(all)) ELSE all
<1>1. PICK t : /\ Built(t, step, s)
               /\ Candles(s, step, 0) = t[Len(s)]
               /\ \A limit \in Nat \ {0} :
                     Candles(s, step, limit) =
                       IF Len(t[Len(s)]) > limit
                       THEN SubSeq(t[Len(s)], Len(t[Len(s)]) - limit + 1, Len(t[Len(s)]))
                       ELSE t[Len(s)]
  BY CandlesAreBuilt
<1> DEFINE F == {k \in 0..Len(s) : Partition(step, s, k, t[k])}
<1>2. 0 \in F
  <2>1. t[0] = <<>> /\ <<>> \in Seq(Candle) /\ Len(<<>>) = 0 /\ 1..0 = {} /\ 0 \in 0..Len(s)
    BY <1>1 DEF Built
  <2>2. Partition(step, s, 0, <<>>)
    BY <2>1 DEF Partition
  <2>3. QED
    BY <2>1, <2>2
<1>3. ASSUME NEW k \in 1..Len(s), k - 1 \in F
      PROVE  k \in F
  <2>1. Partition(step, s, k - 1, t[k - 1]) /\ t[k] = Candled(step, t[k - 1], s[k])
    BY <1>1, <1>3 DEF Built
  <2>2. Partition(step, s, k, t[k])
    BY <2>1, PartitionGrows
  <2>3. QED
    BY <2>2
<1> HIDE DEF F
<1>4. 0..Len(s) \subseteq F /\ Len(s) \in 0..Len(s)
  <2>1. Len(s) \in Nat
    OBVIOUS
  <2>2. 0..Len(s) \subseteq F
    BY <1>2, <1>3, <2>1, UpTo
  <2>3. QED
    BY <2>1, <2>2
<1>5. Partition(step, s, Len(s), t[Len(s)])
  BY <1>4 DEF F
<1>6. QED
  BY <1>1, <1>5

-----------------------------------------------------------------------------
(* The theorem about the candles *)

\* The prints of a candle's span are those of its bucket.
LEMMA WithinIs ==
  ASSUME ChartAssumption, TapeInv, NEW step \in Nat \ {0}, NEW c \in Candle,
         CandleOf(step, tape, Len(tape), c)
  PROVE  Within(c) = PrintsOf(step, tape, Len(tape), c)
<1>1. tape \in Seq(Printed) /\ DOMAIN tape = 1..Len(tape)
  BY DEF TapeInv
<1>2. c.open_time \in Nat /\ c.open_time % step = 0 /\ c.close_time = c.open_time + step
  BY CandleIs DEF CandleOf
<1>3. ASSUME NEW i \in 1..Len(tape)
      PROVE  c.open_time <= tape[i].time /\ tape[i].time < c.close_time
               <=> Bucket(tape[i].time, step) = c.open_time
  <2>1. tape[i] \in Printed
    BY <1>1
  <2>2. PICK t \in Nat, b \in Nat : t = tape[i].time /\ b = c.open_time
    BY <1>2, <2>1, PrintIs
  <2>3. /\ Bucket(t, step) <= t /\ t < Bucket(t, step) + step
        /\ b % step = 0 /\ b <= t /\ t < b + step => b = Bucket(t, step)
    BY Buckets
  <2>4. QED
    BY <1>2, <2>2, <2>3
<1>4. QED
  BY <1>1, <1>3 DEF Within, PrintsOf

\* The first and the last price of the prints in P, the least and the greatest, are c's.
Ends(s, c, P) ==
  LET prices == {s[i].price : i \in P}
  IN  /\ P # {}
      /\ c.open = s[Min(P)].price /\ c.close = s[Max(P)].price
      /\ c.low = Min(prices) /\ c.high = Max(prices)

\* What a candle tells, said with the first, the last, the least and the greatest.
LEMMA TellsEnds ==
  ASSUME ChartAssumption, NEW s \in Seq(Printed), NEW c \in Candle,
         NEW P \in SUBSET (1..Len(s)), Tells(s, c, P)
  PROVE  /\ Ends(s, c, P)
         /\ c.low <= c.open /\ c.open <= c.high /\ c.low <= c.close /\ c.close <= c.high
<1> DEFINE prices == {s[i].price : i \in P}
<1>1. \A i \in P : i \in Int /\ s[i].price \in Int
  <2>1. \A i \in P : i \in Int /\ s[i] \in Printed
    OBVIOUS
  <2>2. QED
    BY <2>1, PrintIs
<1>2. P \in SUBSET Int /\ prices \in SUBSET Int
  BY <1>1
<1>3. PICK i \in P : (\A j \in P : i <= j) /\ c.open = s[i].price
  BY DEF Tells
<1>4. PICK k \in P : (\A j \in P : j <= k) /\ c.close = s[k].price
  BY DEF Tells
<1>5. Min(P) = i /\ Max(P) = k
  <2>1. \A j \in P : k >= j
    BY <1>1, <1>4
  <2>2. QED
    BY <1>2, <1>3, <1>4, <2>1, EndsAre
<1>6. \A j \in P : c.low <= s[j].price /\ s[j].price <= c.high
  BY DEF Tells
<1>7. c.low \in prices /\ c.high \in prices
  BY DEF Tells
<1>8. c.low = Min(prices) /\ c.high = Max(prices)
  <2>1. (\A y \in prices : c.low <= y) /\ (\A y \in prices : c.high >= y)
    <3>1. c.high \in Int
      BY CandleIs
    <3>2. QED
      BY <1>1, <1>6, <3>1
  <2> HIDE DEF prices
  <2>2. QED
    BY <1>2, <1>7, <2>1, EndsAre
<1>9. Ends(s, c, P)
  BY <1>3, <1>4, <1>5, <1>8 DEF Ends
<1>10. QED
  BY <1>3, <1>4, <1>6, <1>9

\* For any interval, any limit and any tape, the candles partition it: each print is in
\* one, each opens, closes, peaks and dips where its own prints do, and a limit keeps
\* the newest.
THEOREM CandlesHold == Spec => []CandlesPartitionTape
<1>1. ASSUME ChartAssumption, TapeInv, NEW step \in Steps
      PROVE  LET candles == Candles(tape, step, 0)
             IN  /\ \A i \in DOMAIN tape : \E c \in ToSet(candles) : i \in Within(c)
                 /\ \A k \in 2..Len(candles) : candles[k - 1].close_time <= candles[k].open_time
                 /\ \A c \in ToSet(candles) :
                      LET prints == Within(c)
                          prices == {tape[i].price : i \in prints}
                      IN  /\ prints # {}
                          /\ c.open_time % step = 0 /\ c.close_time = c.open_time + step
                          /\ c.open = tape[Min(prints)].price /\ c.close = tape[Max(prints)].price
                          /\ c.low = Min(prices) /\ c.high = Max(prices)
                          /\ c.trades = Cardinality(prints)
                          /\ c.volume = SumFunctionOnSet(Volumes(tape), prints)
                 /\ \A limit \in 1..(Len(candles) + 1) :
                      Candles(tape, step, limit) =
                        SubSeq(candles, Max({1, Len(candles) - limit + 1}), Len(candles))
  <2> DEFINE candles == Candles(tape, step, 0)
             n       == Len(tape)
  <2>1. step \in Nat \ {0} /\ tape \in Seq(Printed) /\ InOrder(tape) /\ DOMAIN tape = 1..n
    BY <1>1 DEF TapeInv, ChartAssumption
  <2>2. /\ Partition(step, tape, n, candles)
        /\ \A limit \in Nat \ {0} :
             Candles(tape, step, limit) =
               IF Len(candles) > limit THEN SubSeq(candles, Len(candles) - limit + 1, Len(candles))
               ELSE candles
    BY <1>1, <2>1, CandlesPartition
  <2> HIDE DEF candles
  <2>3. /\ candles \in Seq(Candle) /\ Len(candles) \in Nat /\ DOMAIN candles = 1..Len(candles)
        /\ ToSet(candles) = {candles[m] : m \in 1..Len(candles)}
        /\ \A m \in 1..Len(candles) : candles[m] \in Candle
    <3>1. candles \in Seq(Candle)
      BY <2>2 DEF Partition
    <3>2. QED
      BY <3>1 DEF ToSet
  <2>4. ASSUME NEW m \in 1..Len(candles)
        PROVE  /\ CandleOf(step, tape, n, candles[m])
               /\ Within(candles[m]) = PrintsOf(step, tape, n, candles[m])
    <3>1. CandleOf(step, tape, n, candles[m]) /\ candles[m] \in Candle
      BY <2>2, <2>3 DEF Partition
    <3>2. QED
      BY <1>1, <2>1, <3>1, WithinIs
  <2>5. ASSUME NEW i \in DOMAIN tape
        PROVE  \E c \in ToSet(candles) : i \in Within(c)
    <3>1. PICK m \in 1..Len(candles) : candles[m].open_time = Bucket(tape[i].time, step)
      BY <2>1, <2>2 DEF Partition
    <3>2. i \in Within(candles[m])
      BY <2>1, <2>4, <3>1 DEF PrintsOf
    <3>3. QED
      BY <2>3, <3>2
  <2>6. ASSUME NEW k \in 2..Len(candles)
        PROVE  candles[k - 1].close_time <= candles[k].open_time
    <3>1. k - 1 \in 1..Len(candles) /\ k \in 1..Len(candles) /\ k - 1 < k
      BY <2>3
    <3>2. QED
      BY <2>2, <3>1 DEF Partition
  <2>7. ASSUME NEW c \in ToSet(candles)
        PROVE  LET prints == Within(c)
                   prices == {tape[i].price : i \in prints}
               IN  /\ prints # {}
                   /\ c.open_time % step = 0 /\ c.close_time = c.open_time + step
                   /\ c.open = tape[Min(prints)].price /\ c.close = tape[Max(prints)].price
                   /\ c.low = Min(prices) /\ c.high = Max(prices)
                   /\ c.trades = Cardinality(prints)
                   /\ c.volume = SumFunctionOnSet(Volumes(tape), prints)
    <3>1. PICK m \in 1..Len(candles) : c = candles[m]
      BY <2>3
    <3>2. CandleOf(step, tape, n, c) /\ Within(c) = PrintsOf(step, tape, n, c) /\ c \in Candle
      BY <2>3, <2>4, <3>1
    <3>3. Within(c) \in SUBSET (1..Len(tape)) /\ Tells(tape, c, Within(c))
          /\ c.open_time % step = 0 /\ c.close_time = c.open_time + step
      BY <3>2 DEF CandleOf, PrintsOf
    <3>4. c.trades = Cardinality(Within(c)) /\ c.volume = SumFunctionOnSet(Volumes(tape), Within(c))
      BY <3>3 DEF Tells
    <3>5. PICK P : P = Within(c)
      OBVIOUS
    <3>6. P \in SUBSET (1..Len(tape)) /\ Tells(tape, c, P)
      BY <3>3, <3>5
    <3>7. LET prices == {tape[i].price : i \in P}
          IN  /\ P # {} /\ c.open = tape[Min(P)].price /\ c.close = tape[Max(P)].price
              /\ c.low = Min(prices) /\ c.high = Max(prices)
      <4>1. ChartAssumption /\ tape \in Seq(Printed) /\ c \in Candle
        BY <1>1, <2>1, <3>2
      <4>2. Ends(tape, c, P)
        BY <3>6, <4>1, TellsEnds
      <4>3. QED
        BY <4>2 DEF Ends
    <3>8. QED
      BY <3>3, <3>4, <3>5, <3>7
  <2>8. ASSUME NEW limit \in 1..(Len(candles) + 1)
        PROVE  Candles(tape, step, limit) =
                 SubSeq(candles, Max({1, Len(candles) - limit + 1}), Len(candles))
    <3> DEFINE l == Len(candles)
    <3>1. l \in Nat /\ limit \in Nat \ {0} /\ l - limit + 1 \in Int
      BY <2>3
    <3>2. Max({1, l - limit + 1}) = IF 1 >= l - limit + 1 THEN 1 ELSE l - limit + 1
      <4>1. PICK x \in Int : x = l - limit + 1
        BY <3>1
      <4>2. Max({1, x}) = IF 1 >= x THEN 1 ELSE x
        BY OfTwo
      <4> HIDE DEF l
      <4>3. QED
        BY <4>1, <4>2
    <3>3. CASE l > limit
      <4>1. Max({1, l - limit + 1}) = l - limit + 1
        BY <3>1, <3>2, <3>3
      <4>2. QED
        BY <2>2, <3>1, <3>3, <4>1
    <3>4. CASE ~ (l > limit)
      <4>1. Max({1, l - limit + 1}) = 1
        BY <3>1, <3>2, <3>4
      <4>2. SubSeq(candles, 1, l) = candles
        BY <2>3
      <4>3. Candles(tape, step, limit) = candles
        BY <2>2, <3>1, <3>4
      <4>4. QED
        BY <4>1, <4>2, <4>3
    <3>5. QED
      BY <3>3, <3>4
  <2>9. QED
    BY <2>5, <2>6, <2>7, <2>8 DEF candles
<1>2. ChartAssumption /\ TapeInv => CandlesPartitionTape
  BY <1>1 DEF CandlesPartitionTape
<1>3. QED
  BY <1>2, TapeHolds, ChartAssumption, PTL

-----------------------------------------------------------------------------
(* The chart *)

\* The domain of the axis: finite, and around every candle and the live price.
LEMMA DomainIs ==
  ASSUME ChartAssumption, NEW candles \in Seq(Candle), candles # <<>>, NEW price \in Nat
  PROVE  LET D == Domain(candles, price)
         IN  /\ D \in SUBSET Int /\ IsFiniteSet(D) /\ D # {}
             /\ \A m \in 1..Len(candles) : candles[m].low \in D /\ candles[m].high \in D
             /\ price > 0 => price \in D
<1> DEFINE n == Len(candles)
           L == {c.low : c \in ToSet(candles)}
           H == {c.high : c \in ToSet(candles)}
           P == IF price \in Int /\ price > 0 THEN {price} ELSE {}
<1>1. n \in Nat /\ ToSet(candles) = {candles[m] : m \in 1..n} /\ \A m \in 1..n : candles[m] \in Candle
  BY DEF ToSet
<1>2. n > 0
  BY <1>1
<1>3. IsFiniteSet(L) /\ IsFiniteSet(H)
  <2> DEFINE f == [m \in 1..n |-> candles[m].low]
             g == [m \in 1..n |-> candles[m].high]
  <2>1. {f[m] : m \in 1..n} = L /\ {g[m] : m \in 1..n} = H
    BY <1>1
  <2> HIDE DEF f, g, L, H
  <2>2. IsFiniteSet({f[m] : m \in 1..n}) /\ IsFiniteSet({g[m] : m \in 1..n})
    BY <1>1, ImageFinite
  <2>3. QED
    BY <2>1, <2>2
<1>4. IsFiniteSet(P) /\ P \in SUBSET Int /\ (price > 0 => price \in P)
  <2>1. IsFiniteSet({price}) /\ IsFiniteSet({})
    BY FS_Singleton, FS_EmptySet
  <2>2. QED
    BY <2>1
<1>5. L \in SUBSET Int /\ H \in SUBSET Int
  BY <1>1, CandleIs
<1>6. \A m \in 1..n : candles[m].low \in L /\ candles[m].high \in H
  BY <1>1
<1>7. Domain(candles, price) = L \cup H \cup P
  BY DEF Domain
<1> HIDE DEF L, H, P
<1>8. IsFiniteSet(L \cup H \cup P)
  BY <1>3, <1>4, FS_Union
<1>9. L # {}
  BY <1>2, <1>6
<1>10. QED
  BY <1>4, <1>5, <1>6, <1>7, <1>8, <1>9

\* A price's height is inside the plot, on the right side of every line and above
\* those of lower prices.
Placed(p, lo, hi) ==
  /\ Inside(height(p, lo, hi))
  /\ \A i \in 0..5 : Higher(height(p, lo, hi), <<5 - i, 5>>) <=> 500 * p >= 5 * hi - (hi - lo) * i
  /\ \A q \in Int : q <= p => Higher(height(p, lo, hi), height(q, lo, hi))

\* The ends of an axis, eight hundredths of a span beyond the prices.
Axis(low, high, span, lo, hi) ==
  /\ span > 0 /\ high - low <= span
  /\ lo = 100 * low - 8 * span /\ hi = 100 * high + 8 * span

\* Prices between the ends of an axis with a margin: inside it, in order, and on
\* the right side of every line.
LEMMA Heights ==
  ASSUME NEW low \in Int, NEW high \in Int, NEW span \in Int, NEW lo \in Int, NEW hi \in Int,
         Axis(low, high, span, lo, hi), NEW p \in Int, low <= p, p <= high
  PROVE  Placed(p, lo, hi)
<1>1. PICK w \in Int : w = hi - lo
  OBVIOUS
<1>2. PICK a \in Int : a = 100 * p - lo
  <2>1. 100 * p - lo \in Int
    OBVIOUS
  <2>2. QED
    BY <2>1
<1>3. height(p, lo, hi) = <<a, w>>
  BY <1>1, <1>2 DEF height
<1>4. 0 < a /\ a < w
  <2>1. span > 0 /\ lo = 100 * low - 8 * span /\ hi = 100 * high + 8 * span
    BY DEF Axis
  <2>2. QED
    BY <1>1, <1>2, <2>1
<1>5. ASSUME NEW i \in 0..5
      PROVE  a * 5 >= (5 - i) * w <=> 500 * p >= 5 * hi - (hi - lo) * i
  <2>1. PICK x \in Int : x = w * i
    OBVIOUS
  <2>2. (5 - i) * w = 5 * w - x /\ (hi - lo) * i = x
    BY <1>1, <2>1
  <2>3. QED
    BY <1>1, <1>2, <2>1, <2>2
<1>6. ASSUME NEW q \in Int, q <= p
      PROVE  a * w >= (100 * q - lo) * w
  <2>1. PICK b \in Int, c \in Nat : b = 100 * q - lo /\ a = b + c
    <3>1. a - (100 * q - lo) \in Nat /\ 100 * q - lo \in Int
      BY <1>2, <1>6
    <3>2. a = (100 * q - lo) + (a - (100 * q - lo))
      BY <3>1
    <3>3. QED
      BY <3>1, <3>2
  <2>2. a * w = b * w + c * w /\ c * w >= 0
    <3>1. w \in Nat
      BY <1>4
    <3>2. c * w \in Nat
      BY <3>1
    <3>3. QED
      BY <2>1, <3>2
  <2>3. b * w \in Int
    OBVIOUS
  <2>4. QED
    BY <2>1, <2>2, <2>3
<1>7. Inside(height(p, lo, hi))
  BY <1>3, <1>4 DEF Inside
<1>8. \A i \in 0..5 : Higher(height(p, lo, hi), <<5 - i, 5>>) <=> a * 5 >= (5 - i) * w
  BY <1>3 DEF Higher
<1>9. \A q \in Int : Higher(height(p, lo, hi), height(q, lo, hi)) <=> a * w >= (100 * q - lo) * w
  BY <1>1, <1>3 DEF Higher, height
<1>10. QED
  BY <1>5, <1>6, <1>7, <1>8, <1>9 DEF Placed

\* A body between two prices, of a candle whose lowest is under both: inside the plot, of
\* some height, and no lower than the lowest unless it is a pixel high.
Embodied(body, lowest) ==
  /\ Inside(body[1]) /\ ~ Higher(body[1], body[2])
  /\ Higher(body[1], lowest) \/ OnePixel(body)

\* A body from height t, of a plot of w, down by a drop in its pixels.
Hung(t, w, drop) == << <<t * 390 - drop, w * 390>>, <<t, w>> >>

\* The heights of the top, the bottom and the lowest, of a plot of w.
Stacked(t, b, l, w) == 0 < l /\ l <= b /\ b <= t /\ t < w /\ w < 390 * t

\* Down to the bottom, and at least a pixel.
Drops(t, b, w, drop) == drop = IF 390 * t - 390 * b >= w THEN 390 * t - 390 * b ELSE w

LEMMA BodyStands ==
  ASSUME NEW w \in Int, NEW t \in Int, NEW b \in Int, NEW l \in Int,
         NEW drop \in Int, Stacked(t, b, l, w), Drops(t, b, w, drop)
  PROVE  Embodied(Hung(t, w, drop), <<l, w>>)
<1> USE DEF Stacked, Drops
<1> DEFINE body == << <<t * 390 - drop, w * 390>>, <<t, w>> >>
<1>1. PICK n \in Int : n = t * 390 - drop
  <2>1. t * 390 - drop \in Int
    OBVIOUS
  <2>2. QED
    BY <2>1
<1>2. 0 < n /\ n < w * 390 /\ 0 < drop
  BY <1>1
<1>3. PICK x \in Int : x = t * w
  OBVIOUS
<1>4. t * (w * 390) = 390 * x
  BY <1>3
<1>5. n * w < 390 * x
  <2>1. PICK y \in Int : y = drop * w
    OBVIOUS
  <2>2. 0 < y
    BY <1>2, <2>1
  <2>3. n * w = 390 * x - y
    BY <1>1, <1>3, <2>1
  <2>4. QED
    BY <2>2, <2>3
<1>6. CASE 390 * t - 390 * b >= w
  <2>1. n = 390 * b
    BY <1>1, <1>6
  <2>2. b * w >= l * w
    <3>1. PICK c \in Nat : b = l + c
      <4>1. b - l \in Nat /\ b = l + (b - l)
        OBVIOUS
      <4>2. QED
        BY <4>1
    <3>2. b * w = l * w + c * w
      BY <3>1
    <3>3. w \in Nat
      OBVIOUS
    <3>4. c * w \in Nat /\ l * w \in Int
      BY <3>3
    <3>5. QED
      BY <3>2, <3>4
  <2>3. n * w = 390 * (b * w) /\ l * (w * 390) = 390 * (l * w)
    BY <2>1
  <2>4. b * w \in Int /\ l * w \in Int
    OBVIOUS
  <2>5. n * w >= l * (w * 390)
    BY <2>2, <2>3, <2>4
  <2>6. QED
    BY <1>1, <1>2, <1>4, <1>5, <2>5 DEF Hung, Embodied, Inside, Higher
<1>7. CASE ~ (390 * t - 390 * b >= w)
  <2>1. n = 390 * t - w
    BY <1>1, <1>7
  <2>2. PICK z \in Int : z = w * w
    OBVIOUS
  <2>3. n * w = 390 * x - z
    BY <1>3, <2>1, <2>2
  <2>4. (w * 390) * w = 390 * z
    BY <2>2
  <2>5. 390 * (t * (w * 390) - n * w) = (w * 390) * w
    BY <1>4, <2>3, <2>4
  <2>6. OnePixel(body)
    BY <1>1, <2>5 DEF OnePixel, PLOT_H
  <2>7. QED
    BY <1>1, <1>2, <1>4, <1>5, <2>6 DEF Hung, Embodied, Inside, Higher
<1>8. QED
  BY <1>6, <1>7

\* The body of a candle is such a one, and its top is at one of the two prices.
BodyFits(from, to, lowest, lo, hi) ==
  /\ Embodied(Body(from, to, lo, hi), height(lowest, lo, hi))
  /\ \E top \in {from, to} : Body(from, to, lo, hi)[2] = height(top, lo, hi)

\* The prices of a candle between those of the axis.
Fits(low, high, lowest, from, to) ==
  low <= lowest /\ lowest <= from /\ lowest <= to /\ from <= high /\ to <= high

LEMMA BodyIs ==
  ASSUME NEW low \in Int, NEW high \in Int, NEW span \in Int, NEW lo \in Int, NEW hi \in Int,
         Axis(low, high, span, lo, hi),
         NEW from \in Int, NEW to \in Int, NEW lowest \in Int, Fits(low, high, lowest, from, to)
  PROVE  BodyFits(from, to, lowest, lo, hi)
<1>1. PICK w \in Int : w = hi - lo
  OBVIOUS
<1>2. PICK top \in {from, to}, bottom \in {from, to} :
        top = Max({from, to}) /\ bottom = Min({from, to}) /\ bottom <= top
  <2>1. /\ Max({from, to}) = IF from >= to THEN from ELSE to
        /\ Min({from, to}) = IF from <= to THEN from ELSE to
    BY OfTwo
  <2>2. QED
    BY <2>1
<1>3. PICK t \in Int, b \in Int, l \in Int :
        t = 100 * top - lo /\ b = 100 * bottom - lo /\ l = 100 * lowest - lo
  <2>1. 100 * top - lo \in Int /\ 100 * bottom - lo \in Int /\ 100 * lowest - lo \in Int
    OBVIOUS
  <2>2. QED
    BY <2>1
<1>4. span > 0 /\ high - low <= span /\ lo = 100 * low - 8 * span /\ hi = 100 * high + 8 * span
  BY DEF Axis
<1>5. Stacked(t, b, l, w)
  BY <1>1, <1>2, <1>3, <1>4 DEF Fits, Stacked
<1>6. PICK drop \in Int : Drops(t, b, w, drop)
  <2>1. 390 * t - 390 * b \in Int
    OBVIOUS
  <2>2. QED
    BY <2>1 DEF Drops
<1>7. Body(from, to, lo, hi) = Hung(t, w, drop)
  <2>1. PICK d \in Int : d = 390 * t - 390 * b
    <3>1. 390 * t - 390 * b \in Int
      OBVIOUS
    <3>2. QED
      BY <3>1
  <2>2. (100 * (top - bottom)) * 390 = d
    BY <1>2, <1>3, <2>1
  <2>3. Max({d, w}) = drop
    <3>1. Max({d, w}) = IF d >= w THEN d ELSE w
      BY OfTwo
    <3>2. QED
      BY <1>6, <2>1, <3>1 DEF Drops
  <2>4. height(top, lo, hi) = <<t, w>>
    BY <1>1, <1>3 DEF height
  <2>5. Body(from, to, lo, hi) =
          << <<(100 * top - lo) * PLOT_H - Max({(100 * (top - bottom)) * PLOT_H, hi - lo}),
               (hi - lo) * PLOT_H>>, height(top, lo, hi)>>
    BY <1>2, Zenon DEF Body
  <2>6. Body(from, to, lo, hi) = << <<t * 390 - Max({d, w}), w * 390>>, <<t, w>> >>
    <3>1. /\ (100 * top - lo) * PLOT_H = t * 390 /\ (hi - lo) * PLOT_H = w * 390
          /\ (100 * (top - bottom)) * PLOT_H = d /\ hi - lo = w
      BY <1>1, <1>3, <2>2 DEF PLOT_H
    <3>2. PICK a, m : a = (100 * top - lo) * PLOT_H /\ m = (hi - lo) * PLOT_H
      OBVIOUS
    <3>3. PICK e : e = Max({(100 * (top - bottom)) * PLOT_H, hi - lo})
      OBVIOUS
    <3>4. e = Max({d, w})
      BY <3>1, <3>3
    <3>5. Body(from, to, lo, hi) = << <<a - e, m>>, <<t, w>> >>
      BY <2>4, <2>5, <3>2, <3>3
    <3>6. QED
      BY <3>1, <3>2, <3>4, <3>5
  <2>7. QED
    BY <2>3, <2>6 DEF Hung
<1>8. height(lowest, lo, hi) = <<l, w>>
  BY <1>1, <1>3 DEF height
<1>9. Embodied(Hung(t, w, drop), <<l, w>>)
  BY <1>5, <1>6, BodyStands
<1>10. height(top, lo, hi) = <<t, w>>
  BY <1>1, <1>3 DEF height
<1>11. Embodied(Body(from, to, lo, hi), height(lowest, lo, hi))
  BY <1>7, <1>8, <1>9, Zenon
<1>12. Body(from, to, lo, hi)[2] = height(top, lo, hi)
  BY <1>7, <1>10 DEF Hung
<1>13. QED
  BY <1>2, <1>11, <1>12, Zenon DEF BodyFits

\* A bar as the chart's promise has it.
Seen(bar) ==
  /\ Inside(bar.wick[1]) /\ Inside(bar.wick[2])
  /\ Inside(bar.body[1]) /\ Inside(bar.body[2])
  /\ ~ Higher(bar.body[1], bar.body[2])
  /\ Higher(bar.wick[2], bar.body[2]) /\ Higher(bar.body[2], bar.wick[1])
  /\ Higher(bar.body[1], bar.wick[1]) \/ OnePixel(bar.body)

\* What the chart shows, of candles that are in order within themselves.
LEMMA ChartIs ==
  ASSUME ChartAssumption, NEW candles \in Seq(Candle), candles # <<>>, NEW price \in Nat,
         \A m \in 1..Len(candles) :
           /\ candles[m].low <= candles[m].open /\ candles[m].open <= candles[m].high
           /\ candles[m].low <= candles[m].close /\ candles[m].close <= candles[m].high
  PROVE  LET chart == CandleChart(candles, price)
         IN  /\ price > 0 <=> chart.marker # {}
             /\ \A y \in chart.marker :
                  /\ Inside(y)
                  /\ \A i \in 0..5 : Higher(y, chart.grid[i].height)
                                       <=> 500 * price >= chart.grid[i].price
             /\ \A bar \in ToSet(chart.bars) : Seen(bar)
<1> DEFINE chart == CandleChart(candles, price)
           D     == Domain(candles, price)
           n     == Len(candles)
<1>1. /\ D \in SUBSET Int /\ IsFiniteSet(D) /\ D # {}
      /\ \A m \in 1..n : candles[m].low \in D /\ candles[m].high \in D
      /\ price > 0 => price \in D
  BY DomainIs
<1>2. PICK low \in Int, high \in Int : low = Min(D) /\ high = Max(D)
  <2> HIDE DEF D
  <2>1. Min(D) \in D /\ Max(D) \in D
    BY <1>1, HasEnds
  <2>2. QED
    BY <1>1, <2>1
<1>3. \A x \in D : low <= x /\ x <= high
  <2> HIDE DEF D
  <2>1. QED
    BY <1>1, <1>2, HasEnds
<1>4. PICK span \in Int : span = Max({high - low, 2}) /\ span > 0 /\ high - low <= span
  <2>1. PICK d \in Int : d = high - low
    OBVIOUS
  <2>2. Max({d, 2}) = IF d >= 2 THEN d ELSE 2
    <3>1. ASSUME NEW x \in Int, NEW y \in Int
          PROVE  Max({x, y}) = IF x >= y THEN x ELSE y
      BY OfTwo
    <3>2. d \in Int /\ 2 \in Int
      OBVIOUS
    <3>3. QED
      BY <3>1, <3>2, Zenon
  <2>3. QED
    BY <2>1, <2>2
<1>5. PICK lo \in Int, hi \in Int : lo = 100 * low - 8 * span /\ hi = 100 * high + 8 * span
  <2>1. 100 * low - 8 * span \in Int /\ 100 * high + 8 * span \in Int
    OBVIOUS
  <2>2. QED
    BY <2>1
<1>6. chart = [grid   |-> Grid(lo, hi),
               bars   |-> [m \in DOMAIN candles |-> Bar(candles[m], lo, hi)],
               marker |-> Marker(price, lo, hi)]
  BY <1>2, <1>4, <1>5 DEF CandleChart
<1> HIDE DEF D, chart
<1>7. /\ chart.grid = Grid(lo, hi) /\ chart.marker = Marker(price, lo, hi)
      /\ chart.bars = [m \in DOMAIN candles |-> Bar(candles[m], lo, hi)]
  BY <1>6
<1>8. ASSUME NEW p \in Int, low <= p, p <= high
      PROVE  Placed(p, lo, hi)
  <2>1. Axis(low, high, span, lo, hi)
    BY <1>4, <1>5 DEF Axis
  <2>2. QED
    BY <1>8, <2>1, Heights
<1>9. price > 0 <=> chart.marker # {}
  BY <1>7 DEF Marker
<1>10. ASSUME NEW y \in chart.marker
       PROVE  /\ Inside(y)
              /\ \A i \in 0..5 : Higher(y, chart.grid[i].height)
                                   <=> 500 * price >= chart.grid[i].price
  <2>1. price > 0 /\ y = height(price, lo, hi) /\ price \in Int
    BY <1>7 DEF Marker
  <2>2. low <= price /\ price <= high
    BY <1>1, <1>3, <2>1
  <2>3. \A i \in 0..5 : /\ chart.grid[i].height = <<5 - i, 5>>
                        /\ chart.grid[i].price = 5 * hi - (hi - lo) * i
    BY <1>7 DEF Grid
  <2>4. Placed(price, lo, hi)
    BY <1>8, <2>1, <2>2
  <2>5. /\ Inside(y)
        /\ \A i \in 0..5 : Higher(y, <<5 - i, 5>>) <=> 500 * price >= 5 * hi - (hi - lo) * i
    BY <2>1, <2>4 DEF Placed
  <2>6. ASSUME NEW i \in 0..5
        PROVE  Higher(y, chart.grid[i].height) <=> 500 * price >= chart.grid[i].price
    <3>1. PICK g : g = 5 * hi - (hi - lo) * i
      OBVIOUS
    <3>2. chart.grid[i].price = g /\ chart.grid[i].height = <<5 - i, 5>>
      BY <2>3, <3>1
    <3>3. Higher(y, <<5 - i, 5>>) <=> 500 * price >= g
      BY <2>5, <3>1
    <3>4. QED
      BY <3>2, <3>3
  <2>7. QED
    BY <2>5, <2>6
<1>11. ASSUME NEW bar \in ToSet(chart.bars)
       PROVE  Seen(bar)
  <2>1. PICK m \in 1..n : bar = Bar(candles[m], lo, hi)
    BY <1>7 DEF ToSet
  <2>2. PICK c : c = candles[m]
    OBVIOUS
  <2>3. c \in Candle
    BY <2>1, <2>2
  <2>4. c.high \in Int /\ c.low \in Int /\ c.open \in Int /\ c.close \in Int
    BY <2>3, CandleIs
  <2>5. /\ c.low <= c.open /\ c.open <= c.high /\ c.low <= c.close /\ c.close <= c.high
    BY <2>1, <2>2
  <2>6. low <= c.low /\ c.high <= high
    BY <1>1, <1>3, <2>1, <2>2
  <2>7. /\ low <= c.high /\ low <= c.open /\ low <= c.close
        /\ c.low <= high /\ c.open <= high /\ c.close <= high
    <3>1. low <= c.high /\ c.low <= high
      BY <2>4, <2>5, <2>6
    <3>2. low <= c.open /\ c.open <= high
      BY <2>4, <2>5, <2>6
    <3>3. low <= c.close /\ c.close <= high
      BY <2>4, <2>5, <2>6
    <3>4. QED
      BY <3>1, <3>2, <3>3
  <2>8. ASSUME NEW top \in {c.open, c.close}
        PROVE  /\ Inside(height(c.low, lo, hi)) /\ Inside(height(c.high, lo, hi))
               /\ Inside(height(top, lo, hi))
               /\ Higher(height(top, lo, hi), height(c.low, lo, hi))
               /\ Higher(height(c.high, lo, hi), height(top, lo, hi))
    <3>1. /\ top \in Int /\ c.low <= top /\ top <= c.high /\ low <= top /\ top <= high
      BY <2>4, <2>5, <2>7
    <3>2. Placed(c.low, lo, hi) /\ Placed(c.high, lo, hi) /\ Placed(top, lo, hi)
      <4>1. low <= c.low /\ c.low <= high /\ low <= c.high /\ c.high <= high
        BY <2>6, <2>7
      <4>2. QED
        BY <1>8, <2>4, <3>1, <4>1
    <3>3. \A p : Placed(p, lo, hi) =>
                    /\ Inside(height(p, lo, hi))
                    /\ \A q \in Int : q <= p => Higher(height(p, lo, hi), height(q, lo, hi))
      BY Zenon DEF Placed
    <3>4. QED
      BY <2>4, <3>1, <3>2, <3>3
  <2>9. /\ bar.wick = <<height(c.low, lo, hi), height(c.high, lo, hi)>>
        /\ bar.body = Body(c.open, c.close, lo, hi)
    BY <2>1, <2>2 DEF Bar
  <2>10. /\ Embodied(bar.body, height(c.low, lo, hi))
         /\ \E top \in {c.open, c.close} : bar.body[2] = height(top, lo, hi)
    <3>1. Axis(low, high, span, lo, hi)
      BY <1>4, <1>5 DEF Axis
    <3>2. /\ c.open \in Int /\ c.close \in Int /\ c.low \in Int
          /\ Fits(low, high, c.low, c.open, c.close)
      BY <2>4, <2>5, <2>6, <2>7 DEF Fits
    <3>3. BodyFits(c.open, c.close, c.low, lo, hi)
      BY <3>1, <3>2, BodyIs
    <3>4. QED
      BY <2>9, <3>3 DEF BodyFits
  <2>11. PICK top \in {c.open, c.close} : bar.body[2] = height(top, lo, hi)
    BY <2>10
  <2>12. bar.wick[1] = height(c.low, lo, hi) /\ bar.wick[2] = height(c.high, lo, hi)
    BY <2>9
  <2>13. QED
    BY <2>8, <2>10, <2>11, <2>12, Zenon DEF Seen, Embodied
<1>12. QED
  BY <1>9, <1>10, <1>11 DEF chart

\* What was on the tape at an earlier length of it.
LEMMA EarlierTape ==
  ASSUME TapeInv, NEW k \in 0..Len(tape)
  PROVE  /\ SubSeq(tape, 1, k) \in Seq(Printed) /\ Len(SubSeq(tape, 1, k)) = k
         /\ InOrder(SubSeq(tape, 1, k))
         /\ \A i \in 1..k : SubSeq(tape, 1, k)[i] = tape[i]
<1>1. tape \in Seq(Printed) /\ InOrder(tape) /\ DOMAIN tape = 1..Len(tape)
  BY DEF TapeInv
<1> DEFINE s == SubSeq(tape, 1, k)
<1>2. s \in Seq(Printed) /\ Len(s) = k /\ \A i \in 1..k : s[i] = tape[i]
  BY <1>1
<1> HIDE DEF s
<1>3. DOMAIN s = 1..k /\ \A i \in 1..k : i \in 1..Len(tape)
  BY <1>2
<1>4. InOrder(s)
  BY <1>1, <1>2, <1>3 DEF InOrder
<1>5. QED
  BY <1>2, <1>4 DEF s

\* Whatever moment the candles are of and whatever moment the live price is of, all
\* that is drawn is inside the plot, and the price's marker between the right lines.
THEOREM ChartHolds == Spec => []ChartHoldsTheLivePrice
<1>1. ASSUME ChartAssumption, TapeInv, NEW step \in Steps,
             NEW polled \in 1..Len(tape), NEW live \in 0..Len(tape)
      PROVE  LET price == livePrice(SubSeq(tape, 1, live))
                 chart == CandleChart(Candles(SubSeq(tape, 1, polled), step, 0), price)
             IN  /\ price > 0 <=> chart.marker # {}
                 /\ \A y \in chart.marker :
                      /\ Inside(y)
                      /\ \A i \in 0..5 : Higher(y, chart.grid[i].height)
                                           <=> 500 * price >= chart.grid[i].price
                 /\ \A bar \in ToSet(chart.bars) : Seen(bar)
  <2>1. step \in Nat \ {0} /\ tape \in Seq(Printed) /\ polled \in 0..Len(tape) /\ polled # 0
    BY <1>1 DEF TapeInv, ChartAssumption
  <2>2. PICK s : s = SubSeq(tape, 1, polled)
    OBVIOUS
  <2>3. s \in Seq(Printed) /\ Len(s) = polled /\ InOrder(s)
    BY <1>1, <2>1, <2>2, EarlierTape
  <2>4. PICK candles : candles = Candles(s, step, 0)
    OBVIOUS
  <2>5. Partition(step, s, polled, candles)
    BY <1>1, <2>1, <2>3, <2>4, CandlesPartition
  <2>6. candles \in Seq(Candle) /\ candles # <<>>
    <3>1. candles \in Seq(Candle) /\ Len(candles) > 0
      BY <2>1, <2>5 DEF Partition
    <3>2. QED
      BY <3>1
  <2>7. ASSUME NEW m \in 1..Len(candles)
        PROVE  LET c == candles[m]
               IN  c.low <= c.open /\ c.open <= c.high /\ c.low <= c.close /\ c.close <= c.high
    <3>1. PICK c : c = candles[m]
      OBVIOUS
    <3>2. PICK P : P = PrintsOf(step, s, polled, c)
      OBVIOUS
    <3>3. c \in Candle /\ P \in SUBSET (1..Len(s)) /\ Tells(s, c, P)
      <4>1. c \in Candle /\ CandleOf(step, s, polled, c)
        BY <2>5, <2>6, <3>1 DEF Partition
      <4>2. Tells(s, c, P)
        BY <3>2, <4>1 DEF CandleOf
      <4>3. P \in SUBSET (1..Len(s))
        BY <2>3, <3>2 DEF PrintsOf
      <4>4. QED
        BY <4>1, <4>2, <4>3
    <3>4. c.low <= c.open /\ c.open <= c.high /\ c.low <= c.close /\ c.close <= c.high
      BY <1>1, <2>3, <3>3, TellsEnds
    <3>5. QED
      BY <3>1, <3>4
  <2>8. livePrice(SubSeq(tape, 1, live)) \in Nat
    <3>1. PICK l : l = SubSeq(tape, 1, live)
      OBVIOUS
    <3>2. l \in Seq(Printed)
      BY <1>1, <3>1, EarlierTape
    <3>3. CASE l = <<>>
      BY <3>1, <3>3 DEF livePrice
    <3>4. CASE l # <<>>
      <4>1. Last(l) \in Printed
        BY <3>2, <3>4 DEF Last
      <4>2. Last(l).price \in Nat
        BY <1>1, <4>1, PrintIs
      <4>3. QED
        BY <3>1, <3>4, <4>2 DEF livePrice
    <3>5. QED
      BY <3>3, <3>4
  <2>9. PICK price \in Nat : price = livePrice(SubSeq(tape, 1, live))
    BY <2>8
  <2>10. QED
    BY <1>1, <2>2, <2>4, <2>6, <2>7, <2>9, ChartIs
<1>2. ChartAssumption /\ TapeInv => ChartHoldsTheLivePrice
  BY <1>1, Zenon DEF ChartHoldsTheLivePrice, Seen
<1>3. QED
  BY <1>2, TapeHolds, ChartAssumption, PTL

=============================================================================
