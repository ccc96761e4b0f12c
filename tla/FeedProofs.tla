----------------------------- MODULE FeedProofs -----------------------------
(***************************************************************************)
(* What the display of the prints promises, for every number of            *)
(* instruments, every buffer and every cap.                                *)
(*                                                                         *)
(* Inv says what is where: of which instrument, in which order, how often. *)
(* Faithful says how the pieces join while nothing is known to be lost:    *)
(* the tape on display reaches where the buffered prints begin, those end  *)
(* where the channel's begin, and the channel's end is the venue's.  A     *)
(* seed on its way changes what the tape must be, so there are two forms   *)
(* of it: what was streamed, to be overwritten, and a tape of the venue.   *)
(*                                                                         *)
(* The fold of Unseen is a recursion on sets of positions; it is opened by *)
(* the smallest counterexample, as the sums are in Sums.                   *)
(***************************************************************************)
EXTENDS Feed, Sums, SequenceTheorems

-----------------------------------------------------------------------------
(* The inductive invariant *)

\* The prints of s numbered from a + 1 to b ...
Prints(s, a, b) == [i \in 1..(b - a) |-> Trade(s, a + i)]

\* ... and no more than the last MaxTrades of them.
Latest(s, a, b) == Prints(s, IF b - a > MaxTrades THEN b - MaxTrades ELSE a, b)

Events == [type : {"trade"}, data : Trades] \cup [type : {"order"}, data : Orders]

IsPrint(e) == e.type = "trade"

\* What a seed has read is what the tape of its instrument was at some moment.
SeedOK(q) ==
  /\ q = [effect |-> q.effect, symbol |-> q.symbol, trades |-> q.trades, book |-> q.book]
  /\ q.effect \in 1..effect /\ q.symbol \in Symbols
  /\ q.effect = effect => q.symbol = symbol
  /\ q.trades # None =>
       /\ \E r \in 0..printed(q.symbol) : q.trades = Latest(q.symbol, 0, r)
       /\ q.book \in SUBSET Orders /\ \A o \in q.book : o.symbol = q.symbol

VenuesOK ==
  /\ stage \in [Symbols -> {"new", "resting", "filled", "cancelled"}]
  /\ left \in [Symbols -> Nat]
  /\ \A s \in Symbols : left[s] \in 0..Size[s]
  /\ \A s \in Symbols : stage[s] \in {"new", "resting"} => left[s] > 0

StreamOK ==
  /\ link \in {"closed", "dialling", "subscribed", "open"}
  /\ ch \in Seq(Events) /\ Len(ch) <= Buffer
  /\ link \in {"closed", "dialling"} => ch = <<>>
  /\ \A i \in DOMAIN ch : ch[i].data.symbol = symbol

BrowserOK ==
  /\ symbol \in Symbols \cup {None}
  /\ effect \in 0..MaxConnects /\ cuts \in 0..MaxCuts
  /\ status \in {"connecting", "live", "reconnecting", "offline"}
  /\ symbol = None => /\ link = "closed" /\ status = "connecting"
                      /\ pending = NoEvents /\ store = EMPTY_STATE /\ seeds = {}

BuffersOK ==
  /\ pending = [trades |-> pending.trades, orders |-> pending.orders]
  /\ pending.trades \in Seq(Trades) /\ pending.orders \in Seq(Orders)
  /\ \A i \in DOMAIN pending.trades : pending.trades[i].symbol = symbol
  /\ \A i \in DOMAIN pending.orders : pending.orders[i].symbol = symbol

StoreOK ==
  /\ store.trades \in Seq(Trades) /\ store.ordersById \in SUBSET Orders
  /\ Len(store.trades) <= MaxTrades
  /\ \A i \in DOMAIN store.trades : store.trades[i].symbol = symbol
  /\ \A o \in store.ordersById : o.symbol = symbol
  /\ IsInjective(store.trades)

SeedsOK ==
  /\ \A q \in seeds : SeedOK(q)
  /\ \A q, r \in seeds : q.effect = r.effect => q = r

\* Prints arrive in the order they were made, none twice.
Ascending(p, k, last) ==
  /\ \A i \in DOMAIN p : p[i].n <= last
  /\ \A i, j \in DOMAIN p : i < j => p[i].n < p[j].n
  /\ \A i \in DOMAIN k : IsPrint(k[i]) =>
       /\ k[i].data.n <= last
       /\ \A j \in DOMAIN p : p[j].n < k[i].data.n
       /\ \A j \in DOMAIN k : i < j /\ IsPrint(k[j]) => k[i].data.n < k[j].data.n

InTurn == symbol # None => Ascending(pending.trades, ch, printed(symbol))

Inv ==
  /\ VenuesOK /\ StreamOK /\ BrowserOK /\ BuffersOK /\ StoreOK /\ SeedsOK /\ InTurn

-----------------------------------------------------------------------------
(* What the display follows *)

Live   == {q \in seeds : current(q)}
Linked == link \in {"subscribed", "open"}

\* The events k carry the prints f + 1 to g and no others.
Carries(k, f, g) ==
  /\ \A m \in (f + 1)..g : \E i \in DOMAIN k : IsPrint(k[i]) /\ k[i].data.n = m
  /\ \A i \in DOMAIN k : IsPrint(k[i]) => k[i].data.n \in (f + 1)..g

\* The store has what was made up to f since some moment c; a seed on its way has
\* all there was at c.
WithSeed(f) ==
  \E c \in 0..f :
    /\ store.trades = Latest(symbol, c, f)
    /\ \A q \in Live : q.trades # None =>
         \E r \in c..printed(symbol) : q.trades = Latest(symbol, 0, r)

\* Once the seed is in, the store is a tape of the venue that reaches f.
Seeded(f) == \E r \in f..printed(symbol) : store.trades = Latest(symbol, 0, r)

Follows ==
  \E h \in 0..printed(symbol) : \E f \in 0..h :
    /\ pending.trades = Prints(symbol, f, h)
    /\ Carries(ch, h, printed(symbol))
    /\ IF Live # {} THEN WithSeed(f) ELSE Seeded(f)

\* Before the subscription there is nothing but the seed.
Waits ==
  /\ pending = NoEvents
  /\ IF Live # {} THEN store.trades = <<>> ELSE Seeded(0)

Faithful ==
  symbol # None /\ gaps = {} =>
    /\ IF Linked THEN Follows ELSE Waits
    /\ status = "live" => link = "open"

-----------------------------------------------------------------------------
(* The fold that leaves out the prints a tape has *)

\* A finite set whose subsets each have a last element.
HasLasts(S) == IsFiniteSet(S) /\ \A s \in SUBSET S : s # {} => Max(s) \in s

\* The positions of a sequence are such a set.
LEMMA PositionsHaveLasts == ASSUME NEW n \in Nat PROVE HasLasts(1..n)
<1>1. IsFiniteSet(1..n)
  BY FS_Interval
<1>2. \A s \in SUBSET (1..n) : s # {} => Max(s) \in s
  BY LastPosition
<1>3. QED
  BY <1>1, <1>2 DEF HasLasts

\* So is a part of one.
LEMMA PartsHaveLasts == ASSUME NEW S, HasLasts(S), NEW T \in SUBSET S PROVE HasLasts(T)
<1>1. IsFiniteSet(T)
  BY FS_Subset DEF HasLasts
<1>2. QED
  BY <1>1 DEF HasLasts

\* What the fold's iteration makes of the positions s, given its values on fewer.
Sieved(g, tape, new, s) ==
  IF s = {} THEN <<>>
  ELSE IF new[Max(s)] \in ToSet(tape) THEN g[s \ {Max(s)}]
       ELSE Append(g[s \ {Max(s)}], new[Max(s)])

\* g is the iteration over the positions S.
Sieves(g, tape, new, S) == g = [s \in SUBSET S |-> Sieved(g, tape, new, s)]

\* Unseen is the value of an iteration on all the positions.
LEMMA UnseenUnfolds ==
  ASSUME NEW tape, NEW new
  PROVE  Unseen(tape, new) = (CHOOSE g : Sieves(g, tape, new, DOMAIN new))[DOMAIN new]
  BY DEF Unseen, FoldLeft, MapThenFoldSet, Sieves, Sieved

\* Two iterations agree where both are defined.
LEMMA SievesAgree ==
  ASSUME NEW tape, NEW new, NEW S, NEW T, HasLasts(S), S \subseteq T,
         NEW g, NEW h, Sieves(g, tape, new, S), Sieves(h, tape, new, T)
  PROVE  \A U \in SUBSET S : g[U] = h[U]
<1> DEFINE F == {U \in SUBSET S : g[U] = h[U]}
<1>1. ASSUME NEW U \in SUBSET S, \A V \in SUBSET U : V # U => V \in F
      PROVE  U \in F
  <2>1. g[U] = Sieved(g, tape, new, U) /\ h[U] = Sieved(h, tape, new, U)
    BY DEF Sieves
  <2>2. U # {} => Max(U) \in U
    BY DEF HasLasts
  <2>3. Sieved(g, tape, new, U) = Sieved(h, tape, new, U)
    BY <1>1, <2>2 DEF Sieved
  <2>4. QED
    BY <2>1, <2>3
<1> HIDE DEF F
<1>2. IsFiniteSet(S)
  BY DEF HasLasts
<1>3. SUBSET S \subseteq F
  BY <1>1, <1>2, SubsetInduction
<1>4. QED
  BY <1>3 DEF F

\* There is one: glued together from those of fewer positions.
LEMMA SievesExist ==
  ASSUME NEW tape, NEW new, NEW S, HasLasts(S)
  PROVE  \E g : Sieves(g, tape, new, S)
<1> DEFINE F == {U \in SUBSET S : \E g : Sieves(g, tape, new, U)}
<1>1. ASSUME NEW U \in SUBSET S, \A V \in SUBSET U : V # U => V \in F
      PROVE  U \in F
  <2> DEFINE part(V) == CHOOSE g : Sieves(g, tape, new, V)
             low(V)  == part(V)[V]
             top     == IF U = {} THEN <<>>
                        ELSE IF new[Max(U)] \in ToSet(tape) THEN low(U \ {Max(U)})
                             ELSE Append(low(U \ {Max(U)}), new[Max(U)])
             g == [V \in SUBSET U |-> IF V # U THEN low(V) ELSE top]
  <2>1. \A V \in SUBSET U : V # U => Sieves(part(V), tape, new, V)
    BY <1>1
  <2>2. ASSUME NEW V \in SUBSET U, V # U
        PROVE  low(V) = Sieved(g, tape, new, V)
    <3>1. low(V) = Sieved(part(V), tape, new, V)
      BY <2>1, <2>2 DEF Sieves
    <3>2. CASE V = {}
      BY <3>1, <3>2 DEF Sieved
    <3>3. CASE V # {}
      <4> DEFINE W == V \ {Max(V)}
      <4>0. Max(V) \in V
        BY <3>3 DEF HasLasts
      <4>1. W \in SUBSET V /\ W # V /\ W \in SUBSET U /\ W # U
        BY <2>2, <3>3, <4>0
      <4>2. Sieves(part(W), tape, new, W) /\ Sieves(part(V), tape, new, V)
        BY <2>1, <2>2, <4>1
      <4>3. HasLasts(W)
        BY <4>1, PartsHaveLasts
      <4> HIDE DEF W, part
      <4>4. part(W)[W] = part(V)[W]
        BY <4>1, <4>2, <4>3, SievesAgree
      <4>5. g[W] = low(W)
        BY <4>1
      <4>6. QED
        BY <3>1, <3>3, <4>4, <4>5 DEF Sieved, W
    <3>4. QED
      BY <3>2, <3>3
  <2>3. g[U] = Sieved(g, tape, new, U)
    <3>1. CASE U = {}
      BY <3>1 DEF Sieved
    <3>2. CASE U # {}
      <4>0. Max(U) \in U
        BY <3>2 DEF HasLasts
      <4>1. U \ {Max(U)} \in SUBSET U /\ U \ {Max(U)} # U
        BY <3>2, <4>0
      <4> HIDE DEF low
      <4>2. g[U \ {Max(U)}] = low(U \ {Max(U)})
        BY <4>1
      <4>3. g[U] = top
        OBVIOUS
      <4> HIDE DEF g
      <4>4. QED
        BY <3>2, <4>2, <4>3 DEF Sieved
    <3>3. QED
      BY <3>1, <3>2
  <2>4. \A V \in SUBSET U : g[V] = Sieved(g, tape, new, V)
    <3> HIDE DEF low
    <3>1. \A V \in SUBSET U : V # U => g[V] = low(V)
      OBVIOUS
    <3> HIDE DEF g
    <3>2. QED
      BY <2>2, <2>3, <3>1
  <2>5. g = [V \in SUBSET U |-> g[V]]
    OBVIOUS
  <2> HIDE DEF g
  <2>6. g = [V \in SUBSET U |-> Sieved(g, tape, new, V)]
    BY <2>4, <2>5
  <2>7. QED
    BY <2>6 DEF Sieves
<1> HIDE DEF F
<1>2. IsFiniteSet(S)
  BY DEF HasLasts
<1>3. SUBSET S \subseteq F
  BY <1>1, <1>2, SubsetInduction
<1>4. QED
  BY <1>3 DEF F

\* The prints are looked at one by one: u[k] is what the first k of them leave.
Stages(u, tape, new) ==
  /\ u[0] = <<>>
  /\ \A k \in 1..Len(new) :
       u[k] = IF new[k] \in ToSet(tape) THEN u[k - 1] ELSE Append(u[k - 1], new[k])

\* Unseen goes through such stages.
LEMMA UnseenByStages ==
  ASSUME NEW tape, NEW X, NEW new \in Seq(X)
  PROVE  \E u : Stages(u, tape, new) /\ Unseen(tape, new) = u[Len(new)]
<1> DEFINE n == Len(new)
           g == CHOOSE g : Sieves(g, tape, new, 1..n)
           u == [k \in 0..n |-> g[1..k]]
<1>1. n \in Nat /\ DOMAIN new = 1..n
  OBVIOUS
<1> HIDE DEF n
<1>2. Sieves(g, tape, new, 1..n)
  BY <1>1, SievesExist, PositionsHaveLasts
<1>3. Unseen(tape, new) = g[1..n]
  BY <1>1, UnseenUnfolds
<1> HIDE DEF g
<1>4. \A k \in 0..n : u[k] = Sieved(g, tape, new, 1..k)
  BY <1>1, <1>2 DEF Sieves
<1>5. u[0] = <<>>
  <2>1. 1..0 = {} /\ 0 \in 0..n
    BY <1>1
  <2>2. QED
    BY <1>4, <2>1 DEF Sieved
<1>6. ASSUME NEW k \in 1..n
      PROVE  u[k] = IF new[k] \in ToSet(tape) THEN u[k - 1] ELSE Append(u[k - 1], new[k])
  <2>1. k \in Nat \ {0} /\ k - 1 \in 0..n /\ k \in 0..n /\ 1..k # {}
    <3>1. k \in Nat \ {0} /\ k - 1 \in 0..n /\ k \in 0..n /\ k \in 1..k
      BY <1>1
    <3>2. QED
      BY <3>1
  <2>2. Max(1..k) = k /\ (1..k) \ {Max(1..k)} = 1..(k - 1)
    BY <2>1, LastOfInterval
  <2>3. u[k - 1] = g[1..(k - 1)]
    BY <2>1
  <2>4. u[k] = Sieved(g, tape, new, 1..k)
    BY <1>4, <2>1
  <2> HIDE DEF u
  <2>5. QED
    BY <2>1, <2>2, <2>3, <2>4 DEF Sieved
<1>7. Unseen(tape, new) = u[n]
  BY <1>1, <1>3
<1> HIDE DEF u
<1>8. Stages(u, tape, new)
  BY <1>1, <1>5, <1>6 DEF Stages, n
<1>9. QED
  BY <1>7, <1>8 DEF n

\* The first k prints leave some of themselves, none of them on the tape.
LEMMA UnseenKeeps ==
  ASSUME NEW tape, NEW X, NEW new \in Seq(X)
  PROVE  /\ Unseen(tape, new) \in Seq(X)
         /\ \A i \in DOMAIN Unseen(tape, new) :
              /\ Unseen(tape, new)[i] \notin ToSet(tape)
              /\ \E j \in DOMAIN new : Unseen(tape, new)[i] = new[j]
         /\ (\A i, j \in DOMAIN new : i < j => new[i] # new[j]) =>
              \A i, j \in DOMAIN Unseen(tape, new) :
                i < j => Unseen(tape, new)[i] # Unseen(tape, new)[j]
<1> DEFINE n == Len(new)
           Apart == \A i, j \in DOMAIN new : i < j => new[i] # new[j]
           Good(s, k) ==
             /\ s \in Seq(X)
             /\ \A i \in 1..Len(s) : s[i] \notin ToSet(tape) /\ \E j \in 1..k : s[i] = new[j]
             /\ Apart => \A i, j \in 1..Len(s) : i < j => s[i] # s[j]
<1>0. n \in Nat /\ DOMAIN new = 1..n /\ \A k \in 1..n : new[k] \in X
  OBVIOUS
<1>1. PICK u : Stages(u, tape, new) /\ Unseen(tape, new) = u[Len(new)]
  BY UnseenByStages
<1> DEFINE F == {k \in 0..n : Good(u[k], k)}
<1> HIDE DEF n
<1>2. 0 \in F
  <2>1. <<>> \in Seq(X) /\ Len(<<>>) = 0 /\ 1..0 = {}
    OBVIOUS
  <2>2. u[0] = <<>> /\ 0 \in 0..n
    BY <1>0, <1>1 DEF Stages
  <2>3. QED
    BY <2>1, <2>2
<1>3. ASSUME NEW k \in 1..n, k - 1 \in F
      PROVE  k \in F
  <2> DEFINE s == u[k - 1]
  <2>1. Good(s, k - 1) /\ k \in 0..n /\ k \in Nat /\ k >= 1
    BY <1>0, <1>3
  <2>2. u[k] = IF new[k] \in ToSet(tape) THEN s ELSE Append(s, new[k])
    BY <1>1 DEF Stages, n
  <2> HIDE DEF s
  <2>3. s \in Seq(X) /\ Len(s) \in Nat
    BY <2>1
  <2>4. CASE new[k] \in ToSet(tape)
    <3>1. \A i \in 1..Len(s) : \E j \in 1..k : s[i] = new[j]
      BY <2>1
    <3>2. Good(s, k)
      BY <2>1, <3>1
    <3>3. QED
      BY <2>1, <2>2, <2>4, <3>2
  <2>5. CASE new[k] \notin ToSet(tape)
    <3> DEFINE t == Append(s, new[k])
    <3>1. /\ t \in Seq(X) /\ Len(t) = Len(s) + 1
          /\ \A i \in 1..Len(s) : t[i] = s[i]
          /\ t[Len(s) + 1] = new[k]
      BY <1>0, <2>3, AppendIs
    <3> HIDE DEF t
    <3>2. \A i \in 1..Len(t) : i \in 1..Len(s) \/ i = Len(s) + 1
      BY <2>3, <3>1
    <3>3. ASSUME NEW i \in 1..Len(t)
          PROVE  t[i] \notin ToSet(tape) /\ \E j \in 1..k : t[i] = new[j]
      <4>1. CASE i \in 1..Len(s)
        BY <2>1, <3>1, <4>1
      <4>2. CASE i = Len(s) + 1
        <5>1. k \in 1..k
          BY <2>1
        <5>2. QED
          BY <2>5, <3>1, <4>2, <5>1
      <4>3. QED
        BY <3>2, <4>1, <4>2
    <3>4. ASSUME Apart, NEW i \in 1..Len(t), NEW j \in 1..Len(t), i < j
          PROVE  t[i] # t[j]
      <4>1. i \in 1..Len(s)
        BY <2>3, <3>1, <3>4
      <4>2. CASE j \in 1..Len(s)
        BY <2>1, <3>1, <3>4, <4>1, <4>2
      <4>3. CASE j = Len(s) + 1
        <5>1. PICK m \in 1..(k - 1) : s[i] = new[m]
          BY <2>1, <4>1
        <5>2. m \in DOMAIN new /\ k \in DOMAIN new /\ m < k
          BY <1>0, <2>1
        <5>3. new[m] # new[k]
          BY <3>4, <5>2
        <5>4. QED
          BY <3>1, <4>1, <4>3, <5>1, <5>3
      <4>4. QED
        BY <3>2, <4>2, <4>3
    <3> HIDE DEF Apart
    <3>5. Good(t, k)
      BY <3>1, <3>3, <3>4
    <3>6. u[k] = t
      BY <2>2, <2>5 DEF t
    <3>7. QED
      BY <2>1, <3>5, <3>6
  <2>6. QED
    BY <2>4, <2>5
<1> HIDE DEF F
<1>4. 0..n \subseteq F
  BY <1>0, <1>2, <1>3, UpTo
<1>5. n \in 0..n
  BY <1>0
<1>6. Good(u[n], n)
  BY <1>4, <1>5 DEF F
<1>7. Unseen(tape, new) = u[n]
  BY <1>1 DEF n
<1> DEFINE w == Unseen(tape, new)
<1>8. Good(w, n)
  BY <1>6, <1>7
<1> HIDE DEF w
<1>9. DOMAIN w = 1..Len(w)
  BY <1>8
<1>10. QED
  BY <1>0, <1>8, <1>9 DEF w

-----------------------------------------------------------------------------
(* Stretches of the prints *)

\* A stretch of the prints, print by print.
LEMMA PrintsAre ==
  ASSUME NEW s \in Symbols, NEW a \in Nat, NEW b \in Nat, a <= b
  PROVE  /\ Prints(s, a, b) \in Seq(Trades) /\ Len(Prints(s, a, b)) = b - a
         /\ DOMAIN Prints(s, a, b) = 1..(b - a)
         /\ \A i \in 1..(b - a) : Prints(s, a, b)[i] = Trade(s, a + i)
<1> DEFINE p == Prints(s, a, b)
<1>1. b - a \in Nat /\ p = [i \in 1..(b - a) |-> Trade(s, a + i)]
  BY DEF Prints
<1>2. \A i \in 1..(b - a) : Trade(s, a + i) \in Trades
  BY DEF Trade, Trades
<1> HIDE DEF p
<1>3. p \in Seq(Trades) /\ Len(p) = b - a
  BY <1>1, <1>2
<1>4. QED
  BY <1>1, <1>3 DEF p

\* A sequence is such a stretch when each of its members is.
LEMMA IsPrints ==
  ASSUME NEW s \in Symbols, NEW a \in Nat, NEW b \in Nat, a <= b,
         NEW X, NEW p \in Seq(X), Len(p) = b - a, \A i \in 1..(b - a) : p[i] = Trade(s, a + i)
  PROVE  p = Prints(s, a, b)
<1>1. p = [i \in 1..(b - a) |-> p[i]]
  OBVIOUS
<1>2. QED
  BY <1>1 DEF Prints

\* From a print to itself there is none.
LEMMA NoPrintsAre ==
  ASSUME NEW s \in Symbols, NEW a \in Nat
  PROVE  Prints(s, a, a) = <<>>
<1>1. 1..(a - a) = {}
  OBVIOUS
<1>2. QED
  BY <1>1 DEF Prints

\* One print more.
LEMMA OnePrintMore ==
  ASSUME NEW s \in Symbols, NEW a \in Nat, NEW b \in Nat, a <= b
  PROVE  Append(Prints(s, a, b), Trade(s, b + 1)) = Prints(s, a, b + 1)
<1> DEFINE p == Prints(s, a, b)
           t == Trade(s, b + 1)
           q == Append(p, t)
<1>1. p \in Seq(Trades) /\ Len(p) = b - a /\ \A i \in 1..(b - a) : p[i] = Trade(s, a + i)
  BY PrintsAre
<1>2. t \in Trades
  BY DEF Trade, Trades
<1> HIDE DEF p, t
<1>3. /\ q \in Seq(Trades) /\ Len(q) = Len(p) + 1
      /\ \A i \in 1..Len(p) : q[i] = p[i]
      /\ q[Len(p) + 1] = t
  BY <1>1, <1>2, AppendIs
<1> HIDE DEF q
<1>4. Len(q) = (b + 1) - a /\ b + 1 \in Nat /\ a <= b + 1
  BY <1>1, <1>3
<1>5. ASSUME NEW i \in 1..((b + 1) - a)
      PROVE  q[i] = Trade(s, a + i)
  <2>1. CASE i \in 1..(b - a)
    BY <1>1, <1>3, <2>1
  <2>2. CASE i = b - a + 1
    <3>1. a + i = b + 1
      BY <2>2
    <3>2. q[i] = t
      BY <1>1, <1>3, <2>2
    <3>3. QED
      BY <3>1, <3>2 DEF t
  <2>3. QED
    BY <2>1, <2>2
<1>6. q = Prints(s, a, b + 1)
  BY <1>3, <1>4, <1>5, IsPrints
<1>7. QED
  BY <1>6 DEF q, p, t

\* Two stretches that meet are one.
LEMMA PrintsMeet ==
  ASSUME NEW s \in Symbols, NEW a \in Nat, NEW b \in Nat, NEW c \in Nat, a <= b, b <= c
  PROVE  Prints(s, a, b) \o Prints(s, b, c) = Prints(s, a, c)
<1> DEFINE p == Prints(s, a, b)
           q == Prints(s, b, c)
           r == p \o q
<1>1. p \in Seq(Trades) /\ Len(p) = b - a /\ \A i \in 1..(b - a) : p[i] = Trade(s, a + i)
  BY PrintsAre
<1>2. q \in Seq(Trades) /\ Len(q) = c - b /\ \A i \in 1..(c - b) : q[i] = Trade(s, b + i)
  BY PrintsAre
<1> HIDE DEF p, q
<1>3. /\ r \in Seq(Trades) /\ Len(r) = Len(p) + Len(q)
      /\ \A i \in 1..(Len(p) + Len(q)) : r[i] = IF i <= Len(p) THEN p[i] ELSE q[i - Len(p)]
  BY <1>1, <1>2, ConcatProperties
<1> HIDE DEF r
<1>4. Len(r) = c - a /\ a <= c
  BY <1>1, <1>2, <1>3
<1>5. ASSUME NEW i \in 1..(c - a)
      PROVE  r[i] = Trade(s, a + i)
  <2>1. CASE i <= b - a
    BY <1>1, <1>2, <1>3, <2>1
  <2>2. CASE i > b - a
    <3>1. i - Len(p) \in 1..(c - b) /\ b + (i - Len(p)) = a + i
      BY <1>1, <2>2
    <3>2. r[i] = q[i - Len(p)]
      BY <1>1, <1>2, <1>3, <2>2
    <3>3. QED
      BY <1>2, <3>1, <3>2
  <2>3. QED
    BY <2>1, <2>2
<1>6. r = Prints(s, a, c)
  BY <1>3, <1>4, <1>5, IsPrints
<1>7. QED
  BY <1>6 DEF r, p, q

\* The end of a stretch is one.
LEMMA PrintsEnd ==
  ASSUME NEW s \in Symbols, NEW a \in Nat, NEW b \in Nat, NEW c \in Nat, a <= b, b <= c
  PROVE  SubSeq(Prints(s, a, c), b - a + 1, c - a) = Prints(s, b, c)
<1> DEFINE p == Prints(s, a, c)
           r == SubSeq(p, b - a + 1, c - a)
<1>1. p \in Seq(Trades) /\ Len(p) = c - a /\ \A i \in 1..(c - a) : p[i] = Trade(s, a + i)
  BY PrintsAre
<1> HIDE DEF p
<1>2. b - a + 1 \in 1..(Len(p) + 1) /\ c - a \in (b - a + 1 - 1)..Len(p)
  BY <1>1
<1>3. /\ r \in Seq(Trades) /\ Len(r) = (c - a) - (b - a + 1) + 1
      /\ \A i \in 1..((c - a) - (b - a + 1) + 1) : r[i] = p[b - a + 1 + i - 1]
  BY <1>1, <1>2, SubSeqProperties
<1> HIDE DEF r
<1>4. Len(r) = c - b
  BY <1>3
<1>5. ASSUME NEW i \in 1..(c - b)
      PROVE  r[i] = Trade(s, b + i)
  <2>1. b - a + 1 + i - 1 = b - a + i /\ b - a + i \in 1..(c - a) /\ a + (b - a + i) = b + i
    OBVIOUS
  <2>2. r[i] = p[b - a + i]
    BY <1>3, <2>1
  <2>3. QED
    BY <1>1, <2>1, <2>2
<1>6. r = Prints(s, b, c)
  BY <1>3, <1>4, <1>5, IsPrints
<1>7. QED
  BY <1>6 DEF r, p

\* Of a stretch the tape has up to h and not beyond, what is beyond is unseen.
LEMMA UnseenPrints ==
  ASSUME NEW s \in Symbols, NEW f \in Nat, NEW h \in Nat, NEW g \in Nat, f <= h, h <= g,
         NEW tape, \A m \in (f + 1)..h : Trade(s, m) \in ToSet(tape),
         \A m \in (h + 1)..g : Trade(s, m) \notin ToSet(tape)
  PROVE  Unseen(tape, Prints(s, f, g)) = Prints(s, h, g)
<1> DEFINE new == Prints(s, f, g)
           n == g - f
           w(k) == Prints(s, h, IF f + k <= h THEN h ELSE f + k)
<1>1. /\ new \in Seq(Trades) /\ Len(new) = n /\ n \in Nat
      /\ \A k \in 1..n : new[k] = Trade(s, f + k)
  BY PrintsAre
<1> HIDE DEF new
<1>2. PICK u : Stages(u, tape, new) /\ Unseen(tape, new) = u[Len(new)]
  BY <1>1, UnseenByStages
<1> DEFINE F == {k \in 0..n : u[k] = w(k)}
<1> HIDE DEF n
<1>3. 0 \in F
  <2>1. u[0] = <<>> /\ 0 \in 0..n
    BY <1>1, <1>2 DEF Stages
  <2>2. w(0) = Prints(s, h, h)
    BY DEF Prints
  <2>3. w(0) = <<>>
    BY <2>2, NoPrintsAre
  <2>4. QED
    BY <2>1, <2>3
<1>4. ASSUME NEW k \in 1..n, k - 1 \in F
      PROVE  k \in F
  <2>1. k \in 0..n /\ k \in Nat /\ k >= 1 /\ k - 1 \in Nat /\ f + k \in Nat /\ f + k <= g
    BY <1>1 DEF n
  <2>2. new[k] = Trade(s, f + k) /\ u[k - 1] = w(k - 1)
    BY <1>1, <1>4
  <2>3. u[k] = IF new[k] \in ToSet(tape) THEN u[k - 1] ELSE Append(u[k - 1], new[k])
    BY <1>1, <1>2 DEF Stages
  <2>4. CASE f + k <= h
    <3>1. new[k] \in ToSet(tape)
      BY <2>1, <2>2, <2>4
    <3>2. w(k) = Prints(s, h, h)
      BY <2>4
    <3>3. f + (k - 1) <= h
      BY <2>1, <2>4
    <3>4. w(k - 1) = Prints(s, h, h)
      BY <3>3
    <3> HIDE DEF w
    <3>5. u[k] = w(k)
      BY <2>2, <2>3, <3>1, <3>2, <3>4
    <3>6. QED
      BY <2>1, <3>5
  <2>5. CASE f + k > h
    <3> DEFINE b == f + k - 1
    <3>1. new[k] \notin ToSet(tape)
      BY <2>1, <2>2, <2>5
    <3>2. b \in Nat /\ h <= b /\ b + 1 = f + k
      BY <2>1, <2>5
    <3>3. w(k) = Prints(s, h, b + 1)
      BY <2>1, <2>5, <3>2
    <3>4. w(k - 1) = Prints(s, h, b)
      BY <2>1, <2>5
    <3>5. Append(Prints(s, h, b), Trade(s, b + 1)) = Prints(s, h, b + 1)
      BY <3>2, OnePrintMore
    <3> HIDE DEF w, b
    <3>6. u[k] = w(k)
      BY <2>2, <2>3, <3>1, <3>2, <3>3, <3>4, <3>5
    <3>7. QED
      BY <2>1, <3>6
  <2>6. QED
    BY <2>1, <2>4, <2>5
<1> HIDE DEF F
<1>5. 0..n \subseteq F
  BY <1>1, <1>3, <1>4, UpTo
<1>6. u[n] = w(n)
  <2>1. n \in 0..n
    BY <1>1
  <2>2. QED
    BY <1>5, <2>1 DEF F
<1>7. w(n) = Prints(s, h, g)
  <2>1. f + n = g
    BY DEF n
  <2>2. CASE g <= h
    BY <2>1, <2>2
  <2>3. CASE g > h
    BY <2>1, <2>3
  <2>4. QED
    BY <2>2, <2>3
<1> HIDE DEF w
<1>8. Unseen(tape, new) = Prints(s, h, g)
  BY <1>1, <1>2, <1>6, <1>7
<1>9. QED
  BY <1>8 DEF new

\* Where the last MaxTrades of a stretch begin.
Start(a, b) == IF b - a > MaxTrades THEN b - MaxTrades ELSE a

\* They are no more than MaxTrades, and begin within the stretch.
LEMMA StartIs ==
  ASSUME NEW a \in Nat, NEW b \in Nat, a <= b
  PROVE  /\ Start(a, b) \in Nat /\ a <= Start(a, b) /\ Start(a, b) <= b
         /\ b - Start(a, b) <= MaxTrades
         /\ \A s : Latest(s, a, b) = Prints(s, Start(a, b), b)
<1>1. MaxTrades \in Nat \ {0}
  BY FeedAssumption
<1>2. \A s : Latest(s, a, b) = Prints(s, Start(a, b), b)
  BY DEF Latest, Start
<1>3. Start(a, b) \in Nat /\ a <= Start(a, b) /\ Start(a, b) <= b /\ b - Start(a, b) <= MaxTrades
  BY <1>1 DEF Start
<1>4. QED
  BY <1>2, <1>3

\* What Latest has, print by print.
LEMMA LatestIs ==
  ASSUME NEW s \in Symbols, NEW a \in Nat, NEW b \in Nat, a <= b
  PROVE  /\ Latest(s, a, b) \in Seq(Trades) /\ Len(Latest(s, a, b)) = b - Start(a, b)
         /\ DOMAIN Latest(s, a, b) = 1..(b - Start(a, b))
         /\ \A i \in 1..(b - Start(a, b)) : Latest(s, a, b)[i] = Trade(s, Start(a, b) + i)
<1>1. Start(a, b) \in Nat /\ Start(a, b) <= b /\ Latest(s, a, b) = Prints(s, Start(a, b), b)
  BY StartIs
<1>2. PICK k \in Nat : k = Start(a, b)
  BY <1>1
<1>3. k <= b /\ Latest(s, a, b) = Prints(s, k, b)
  BY <1>1, <1>2
<1>4. /\ Prints(s, k, b) \in Seq(Trades) /\ Len(Prints(s, k, b)) = b - k
      /\ DOMAIN Prints(s, k, b) = 1..(b - k)
      /\ \A i \in 1..(b - k) : Prints(s, k, b)[i] = Trade(s, k + i)
  BY <1>3, PrintsAre
<1>5. QED
  BY <1>2, <1>3, <1>4

\* Its members are the prints numbered from there to the end.
LEMMA LatestHas ==
  ASSUME NEW s \in Symbols, NEW a \in Nat, NEW b \in Nat, a <= b
  PROVE  ToSet(Latest(s, a, b)) = {Trade(s, m) : m \in (Start(a, b) + 1)..b}
<1> DEFINE x == Start(a, b)
           l == Latest(s, a, b)
<1>1. /\ DOMAIN l = 1..(b - x) /\ \A i \in 1..(b - x) : l[i] = Trade(s, x + i)
      /\ x \in Nat /\ x <= b
  BY LatestIs, StartIs
<1> HIDE DEF x, l
<1>2. ASSUME NEW m \in (x + 1)..b
      PROVE  Trade(s, m) \in ToSet(l)
  <2>1. m - x \in 1..(b - x) /\ x + (m - x) = m
    BY <1>1
  <2>2. l[m - x] = Trade(s, m)
    BY <1>1, <2>1
  <2>3. QED
    BY <1>1, <2>1, <2>2 DEF ToSet
<1>3. ASSUME NEW t \in ToSet(l)
      PROVE  \E m \in (x + 1)..b : t = Trade(s, m)
  <2>1. PICK i \in 1..(b - x) : t = l[i]
    BY <1>1 DEF ToSet
  <2>2. x + i \in (x + 1)..b /\ t = Trade(s, x + i)
    BY <1>1, <2>1
  <2>3. QED
    BY <2>2
<1>4. QED
  BY <1>2, <1>3 DEF x, l

\* The cap, of the tape and what comes after it.
LEMMA CappedLatest ==
  ASSUME NEW s \in Symbols, NEW a \in Nat, NEW b \in Nat, NEW c \in Nat, a <= b, b <= c
  PROVE  Capped(Latest(s, a, b) \o Prints(s, b, c)) = Latest(s, a, c)
<1> DEFINE x == Start(a, b)
<1>1. MaxTrades \in Nat \ {0}
  BY FeedAssumption
<1>2. x \in Nat /\ a <= x /\ x <= b /\ Latest(s, a, b) = Prints(s, x, b)
  BY StartIs
<1> HIDE DEF x
<1>3. Latest(s, a, b) \o Prints(s, b, c) = Prints(s, x, c)
  <2>1. x \in Nat /\ x <= b /\ b \in Nat /\ c \in Nat /\ b <= c
    BY <1>2
  <2>2. Prints(s, x, b) \o Prints(s, b, c) = Prints(s, x, c)
    BY <2>1, PrintsMeet
  <2>3. QED
    BY <1>2, <2>2
<1>4. Latest(s, a, c) = Prints(s, Start(a, c), c)
  <2>1. a <= c
    OBVIOUS
  <2>2. QED
    BY <2>1, StartIs
<1>5. Len(Prints(s, x, c)) = c - x /\ x <= c
  <2>1. x \in Nat /\ c \in Nat /\ x <= c
    BY <1>2
  <2>2. QED
    BY <2>1, PrintsAre
<1>6. CASE c - x > MaxTrades
  <2>1. Capped(Prints(s, x, c)) = SubSeq(Prints(s, x, c), c - x - MaxTrades + 1, c - x)
    BY <1>5, <1>6 DEF Capped
  <2>2. c - MaxTrades \in Nat /\ x <= c - MaxTrades /\ c - MaxTrades <= c
        /\ c - MaxTrades - x + 1 = c - x - MaxTrades + 1
    BY <1>1, <1>2, <1>6
  <2>3. Capped(Prints(s, x, c)) = Prints(s, c - MaxTrades, c)
    <3> DEFINE y == c - MaxTrades
    <3>1. SubSeq(Prints(s, x, c), y - x + 1, c - x) = Prints(s, y, c)
      BY <1>2, <2>2, PrintsEnd
    <3>2. QED
      BY <2>1, <2>2, <3>1
  <2>4. Start(a, c) = c - MaxTrades
    BY <1>1, <1>2, <1>6 DEF Start, x
  <2>5. QED
    BY <1>3, <1>4, <2>3, <2>4
<1>7. CASE c - x <= MaxTrades
  <2>1. Capped(Prints(s, x, c)) = Prints(s, x, c)
    BY <1>1, <1>2, <1>5, <1>7 DEF Capped
  <2>2. Start(a, c) = x
    BY <1>1, <1>2, <1>7 DEF Start, x
  <2>3. QED
    BY <1>3, <1>4, <2>1, <2>2
<1>8. QED
  BY <1>1, <1>2, <1>6, <1>7

\* The tape of a venue.
LEMMA TapeIsLatest ==
  ASSUME NEW s \in Symbols, printed(s) \in Nat
  PROVE  GetTrades(s) = Latest(s, 0, printed(s))
<1> DEFINE n == printed(s)
<1>1. MaxTrades \in Nat \ {0}
  BY FeedAssumption
<1>2. CASE n > MaxTrades
  <2>1. n - (n - MaxTrades + 1) + 1 = n - (n - MaxTrades) /\ n - 0 > MaxTrades
    BY <1>1, <1>2
  <2>2. \A i \in Int : (n - MaxTrades + 1) + i - 1 = (n - MaxTrades) + i
    BY <1>1
  <2>3. QED
    BY <1>2, <2>1, <2>2 DEF GetTrades, Latest, Prints
<1>3. CASE ~ (n > MaxTrades)
  BY <1>1, <1>3 DEF GetTrades, Latest, Prints
<1>4. QED
  BY <1>2, <1>3

-----------------------------------------------------------------------------
(* The invariant is inductive *)

\* The venues keep their types, and what they have printed grows.
LEMMA VenuesKeep ==
  ASSUME VenuesOK, [Next]_vars
  PROVE  /\ VenuesOK'
         /\ \A s \in Symbols : printed(s) \in Nat /\ printed(s)' \in Nat /\ printed(s) <= printed(s)'
<1>1. \A s \in Symbols : Size[s] \in Nat \ {0}
  BY FeedAssumption
<1>2. CASE \E s \in Symbols : Rest(s)
  <2>1. PICK s \in Symbols : Rest(s)
    BY <1>2
  <2>2. stage' = [stage EXCEPT ![s] = "resting"] /\ left' = left /\ left[s] > 0
    BY <2>1 DEF Rest, VenuesOK
  <2>3. QED
    BY <1>1, <2>2 DEF VenuesOK, printed
<1>3. CASE \E s \in Symbols : Fill(s)
  <2>1. PICK s \in Symbols : Fill(s)
    BY <1>3
  <2>2. /\ stage[s] = "resting" /\ left' = [left EXCEPT ![s] = left[s] - 1]
        /\ stage' = [stage EXCEPT ![s] = IF left[s] = 1 THEN "filled" ELSE stage[s]]
        /\ left[s] \in Nat /\ left[s] > 0
    BY <2>1 DEF Fill, VenuesOK
  <2>3. VenuesOK'
    <3>1. left' \in [Symbols -> Nat]
      BY <2>2 DEF VenuesOK
    <3>2. \A t \in Symbols : left'[t] \in 0..Size[t]
      BY <1>1, <2>2 DEF VenuesOK
    <3>3. stage' \in [Symbols -> {"new", "resting", "filled", "cancelled"}]
      BY <2>2 DEF VenuesOK
    <3>4. \A t \in Symbols : stage'[t] \in {"new", "resting"} => left'[t] > 0
      <4>1. ASSUME NEW t \in Symbols, stage'[t] \in {"new", "resting"}
            PROVE  left'[t] > 0
        <5>1. CASE t = s
          BY <2>2, <4>1, <5>1 DEF VenuesOK
        <5>2. CASE t # s
          BY <2>2, <4>1, <5>2 DEF VenuesOK
        <5>3. QED
          BY <5>1, <5>2
      <4>2. QED
        BY <4>1
    <3>5. QED
      BY <3>1, <3>2, <3>3, <3>4 DEF VenuesOK
  <2>4. QED
    BY <1>1, <2>2, <2>3 DEF VenuesOK, printed
<1>4. CASE \E s \in Symbols : Cancel(s)
  <2>1. PICK s \in Symbols : Cancel(s)
    BY <1>4
  <2>2. QED
    BY <1>1, <2>1 DEF Cancel, VenuesOK, printed
<1>5. CASE UNCHANGED venues
  BY <1>1, <1>5 DEF venues, VenuesOK, printed
<1>6. QED
  BY <1>2, <1>3, <1>4, <1>5
     DEF Next, Venue, Connect, Seed, SeedRead, SeedArrives, SeedFails, Subscribe, Open, Forward,
         Flush, Cut, GiveUp, vars

\* A fill is one unit less and one print more.
LEMMA FillIs ==
  ASSUME VenuesOK, NEW s \in Symbols, Fill(s)
  PROVE  /\ left[s] \in Nat /\ left[s] - 1 \in Nat /\ printed(s) \in Nat
         /\ printed(s) + 1 \in Nat \ {0} /\ printed(s)' = printed(s) + 1
         /\ \A t \in Symbols : t # s => printed(t)' = printed(t)
<1>1. Size[s] \in Nat /\ left[s] \in 0..Size[s] /\ left[s] > 0 /\ left \in [Symbols -> Nat]
  BY FeedAssumption DEF VenuesOK, Fill
<1>2. left' = [left EXCEPT ![s] = left[s] - 1]
  BY DEF Fill
<1>3. left'[s] = left[s] - 1 /\ \A t \in Symbols : t # s => left'[t] = left[t]
  BY <1>1, <1>2
<1>4. QED
  BY <1>1, <1>3 DEF printed

\* What Publish puts in the channel of the browser that looks at s, and in no other.
LEMMA PublishSends ==
  ASSUME NEW s \in Symbols, NEW e \in Seq(Events), StreamOK, Publish(s, e)
  PROVE  /\ ch' \in Seq(Events) /\ Len(ch') <= Buffer
         /\ Len(ch) <= Len(ch') /\ Len(ch') <= Len(ch) + Len(e)
         /\ \A i \in 1..Len(ch) : ch'[i] = ch[i]
         /\ \A i \in (Len(ch) + 1)..Len(ch') : ch'[i] = e[i - Len(ch)]
         /\ ~ wants(s) => ch' = ch /\ gaps' = gaps
         /\ gaps \subseteq gaps'
         /\ gaps' = {} /\ wants(s) => Len(ch') = Len(ch) + Len(e)
<1>1. ch \in Seq(Events) /\ Len(ch) \in Nat /\ Len(ch) <= Buffer /\ Len(e) \in Nat /\ Buffer \in Nat
  BY FeedAssumption DEF StreamOK
<1>2. CASE wants(s)
  <2> DEFINE room == Buffer - Len(ch)
             k == IF room < Len(e) THEN room ELSE Len(e)
             sent == SubSeq(e, 1, k)
  <2>1. /\ ch' = ch \o sent
        /\ gaps' = IF room < Len(e) THEN gaps \cup {"fault"} ELSE gaps
    BY <1>2 DEF Publish
  <2>2. k \in Nat /\ k <= Len(e) /\ Len(ch) + k <= Buffer /\ (~ (room < Len(e)) => k = Len(e))
    BY <1>1
  <2> HIDE DEF k
  <2>3. sent \in Seq(Events) /\ Len(sent) = k /\ \A i \in 1..k : sent[i] = e[i]
    <3>1. \A i \in 1..k : e[i] \in Events
      BY <1>1, <2>2
    <3>2. /\ sent \in Seq(Events) /\ Len(sent) = IF 1 <= k THEN k - 1 + 1 ELSE 0
          /\ \A i \in 1..(k - 1 + 1) : sent[i] = e[1 + i - 1]
      BY <2>2, <3>1, SubSeqProperties
    <3>3. k - 1 + 1 = k /\ \A i \in 1..k : 1 + i - 1 = i
      BY <2>2
    <3> HIDE DEF sent
    <3>4. QED
      BY <2>2, <3>2, <3>3
  <2> HIDE DEF sent
  <2>4. /\ ch' \in Seq(Events) /\ Len(ch') = Len(ch) + k
        /\ \A i \in 1..(Len(ch) + k) : ch'[i] = IF i <= Len(ch) THEN ch[i] ELSE sent[i - Len(ch)]
    BY <1>1, <2>1, <2>3, ConcatProperties
  <2>5. ASSUME NEW i \in (Len(ch) + 1)..Len(ch')
        PROVE  ch'[i] = e[i - Len(ch)]
    <3>1. i - Len(ch) \in 1..k /\ i \in 1..(Len(ch) + k) /\ ~ (i <= Len(ch))
      BY <1>1, <2>2, <2>4
    <3>2. QED
      BY <2>3, <2>4, <3>1
  <2>6. \A i \in 1..Len(ch) : ch'[i] = ch[i]
    BY <1>1, <2>2, <2>4
  <2>7. gaps' = {} => k = Len(e)
    BY <2>1, <2>2
  <2>8. QED
    BY <1>1, <1>2, <2>1, <2>2, <2>4, <2>5, <2>6, <2>7
<1>3. CASE ~ wants(s)
  <2>1. ch' = ch /\ gaps' = gaps
    BY <1>3 DEF Publish
  <2>2. \A i \in (Len(ch) + 1)..Len(ch') : ch'[i] = e[i - Len(ch)]
    BY <1>1, <2>1
  <2>3. QED
    BY <1>1, <1>3, <2>1, <2>2
<1>4. QED
  BY <1>2, <1>3

\* The events of a venue.
LEMMA EventsAre ==
  ASSUME NEW s \in Symbols, NEW n \in Nat \ {0}, NEW q \in Nat
  PROVE  /\ TradeEvent(s, n) \in Events /\ OrderEvent(s, q) \in Events
         /\ IsPrint(TradeEvent(s, n)) /\ ~ IsPrint(OrderEvent(s, q))
         /\ TradeEvent(s, n).data = Trade(s, n) /\ Trade(s, n).n = n
         /\ TradeEvent(s, n).data.symbol = s /\ OrderEvent(s, q).data.symbol = s
         /\ <<OrderEvent(s, q)>> \in Seq(Events) /\ <<TradeEvent(s, n), OrderEvent(s, q)>> \in Seq(Events)
<1>1. TradeEvent(s, n) \in Events /\ OrderEvent(s, q) \in Events
  BY DEF TradeEvent, OrderEvent, Events, Trades, Orders, Trade, Order
<1>2. <<OrderEvent(s, q)>> \in Seq(Events) /\ <<TradeEvent(s, n), OrderEvent(s, q)>> \in Seq(Events)
  BY <1>1
<1>3. QED
  BY <1>1, <1>2 DEF TradeEvent, OrderEvent, Trade, Order, IsPrint

\* The events a step of a venue publishes, and where.
LEMMA SendsKeep ==
  ASSUME NEW s \in Symbols, NEW e \in Seq(Events), \A i \in 1..Len(e) : e[i].data.symbol = s,
         StreamOK, Publish(s, e), link' = link, symbol' = symbol
  PROVE  StreamOK'
<1>1. /\ ch' \in Seq(Events) /\ Len(ch') <= Buffer
      /\ Len(ch) <= Len(ch') /\ Len(ch') <= Len(ch) + Len(e)
      /\ \A i \in 1..Len(ch) : ch'[i] = ch[i]
      /\ \A i \in (Len(ch) + 1)..Len(ch') : ch'[i] = e[i - Len(ch)]
      /\ ~ wants(s) => ch' = ch
  BY PublishSends
<1>2. CASE wants(s)
  <2>1. ASSUME NEW i \in 1..Len(ch')
        PROVE  ch'[i].data.symbol = symbol
    <3>1. CASE i \in 1..Len(ch)
      BY <1>1, <3>1 DEF StreamOK
    <3>2. CASE i \in (Len(ch) + 1)..Len(ch')
      <4>1. i - Len(ch) \in 1..Len(e)
        BY <1>1, <3>2 DEF StreamOK
      <4>2. QED
        BY <1>1, <1>2, <3>2, <4>1 DEF wants
    <3>3. QED
      BY <3>1, <3>2 DEF StreamOK
  <2>2. DOMAIN ch' = 1..Len(ch')
    BY <1>1
  <2>3. QED
    BY <1>1, <1>2, <2>1, <2>2 DEF StreamOK, wants
<1>3. CASE ~ wants(s)
  BY <1>1, <1>3 DEF StreamOK
<1>4. QED
  BY <1>2, <1>3

\* The channel keeps its bound and carries events of the instrument on display.
LEMMA StreamKeeps ==
  ASSUME VenuesOK, StreamOK, [Next]_vars
  PROVE  StreamOK'
<1>1. CASE \E s \in Symbols : Rest(s)
  <2>1. PICK s \in Symbols : Rest(s)
    BY <1>1
  <2>2. left[s] \in Nat
    BY DEF VenuesOK
  <2> DEFINE e == <<OrderEvent(s, left[s])>>
  <2>3. e \in Seq(Events) /\ Len(e) = 1 /\ e[1].data.symbol = s
    BY <2>2, EventsAre
  <2> HIDE DEF e
  <2>4. Publish(s, e) /\ link' = link /\ symbol' = symbol
    BY <2>1 DEF Rest, browser, e
  <2>5. QED
    BY <2>3, <2>4, SendsKeep
<1>2. CASE \E s \in Symbols : Fill(s)
  <2>1. PICK s \in Symbols : Fill(s)
    BY <1>2
  <2>2. left[s] - 1 \in Nat /\ printed(s) + 1 \in Nat \ {0}
    BY <2>1, FillIs
  <2> DEFINE e == <<TradeEvent(s, printed(s) + 1), OrderEvent(s, left[s] - 1)>>
  <2>3. e \in Seq(Events) /\ Len(e) = 2 /\ e[1].data.symbol = s /\ e[2].data.symbol = s
    BY <2>2, EventsAre
  <2> HIDE DEF e
  <2>4. Publish(s, e) /\ link' = link /\ symbol' = symbol
    BY <2>1 DEF Fill, browser, e
  <2>5. \A i \in 1..Len(e) : e[i].data.symbol = s
    BY <2>3
  <2>6. QED
    BY <2>3, <2>4, <2>5, SendsKeep
<1>3. CASE (\E s \in Symbols : Connect(s)) \/ Cut
  <2>1. ch' = <<>> /\ link' = "dialling"
    BY <1>3 DEF Connect, Cut
  <2>2. <<>> \in Seq(Events) /\ Len(<<>>) = 0 /\ Buffer >= 0 /\ DOMAIN <<>> = {}
    BY FeedAssumption
  <2>3. QED
    BY <2>1, <2>2 DEF StreamOK
<1>4. CASE Forward
  <2>1. ch \in Seq(Events) /\ ch # <<>> /\ ch' = Tail(ch) /\ link' = link /\ link = "open" /\ symbol' = symbol
    BY <1>4 DEF Forward, StreamOK
  <2>2. ch' \in Seq(Events) /\ Len(ch') = Len(ch) - 1 /\ \A i \in 1..Len(ch') : ch'[i] = ch[i + 1]
    BY <2>1, HeadTailProperties
  <2>3. \A i \in 1..Len(ch') : i + 1 \in 1..Len(ch)
    BY <2>1, <2>2
  <2>4. DOMAIN ch' = 1..Len(ch') /\ DOMAIN ch = 1..Len(ch)
    BY <2>1, <2>2
  <2>5. Len(ch') <= Buffer
    BY <2>1, <2>2, FeedAssumption DEF StreamOK
  <2>6. QED
    BY <2>1, <2>2, <2>3, <2>4, <2>5 DEF StreamOK
<1>5. CASE \/ (\E s \in Symbols : Cancel(s)) \/ (\E q \in seeds : Seed(q)) \/ Flush
           \/ Subscribe \/ Open \/ GiveUp \/ UNCHANGED vars
  <2>1. (\E s \in Symbols : Cancel(s)) \/ (\E q \in seeds : Seed(q)) \/ Flush \/ UNCHANGED vars
          => ch' = ch /\ symbol' = symbol /\ link' = link
    BY DEF Cancel, Seed, SeedRead, SeedArrives, SeedFails, Flush, browser, vars
  <2>2. Subscribe \/ Open \/ GiveUp
          => /\ ch' = ch /\ symbol' = symbol
             /\ link' = "open" \/ (ch = <<>> /\ link' \in {"closed", "subscribed"})
    BY DEF Subscribe, Open, GiveUp, browser, StreamOK
  <2>3. /\ ch' = ch /\ symbol' = symbol
        /\ link' = link \/ link' = "open" \/ (ch = <<>> /\ link' \in {"closed", "subscribed"})
    BY <1>5, <2>1, <2>2
  <2>4. QED
    BY <2>3 DEF StreamOK
<1>6. \/ (\E s \in Symbols : Rest(s)) \/ (\E s \in Symbols : Fill(s))
      \/ (\E s \in Symbols : Cancel(s)) \/ (\E s \in Symbols : Connect(s))
      \/ (\E q \in seeds : Seed(q))
      \/ Subscribe \/ Open \/ Forward \/ Flush \/ Cut \/ GiveUp \/ UNCHANGED vars
  BY DEF Next, Venue
<1>7. QED
  BY <1>1, <1>2, <1>3, <1>4, <1>5, <1>6

\* The browser keeps its types; nothing happens to it before it looks at something.
LEMMA BrowserKeeps ==
  ASSUME BrowserOK, [Next]_vars
  PROVE  BrowserOK'
<1>1. MaxConnects \in Nat \ {0} /\ MaxCuts \in Nat /\ None \notin Symbols
  BY FeedAssumption
<1>2. CASE \E s \in Symbols : Connect(s)
  BY <1>1, <1>2 DEF BrowserOK, Connect
<1>3. CASE Cut
  BY <1>1, <1>3 DEF BrowserOK, Cut
<1>4. CASE GiveUp
  BY <1>1, <1>4 DEF BrowserOK, GiveUp
<1>5. CASE Subscribe \/ Open
  BY <1>5 DEF BrowserOK, Subscribe, Open, browser
<1>6. CASE Forward
  BY <1>6 DEF BrowserOK, Forward
<1>7. CASE Flush
  BY <1>7 DEF BrowserOK, Flush
<1>8. CASE \E q \in seeds : Seed(q)
  <2>1. symbol # None
    BY <1>8 DEF BrowserOK
  <2>2. UNCHANGED <<symbol, effect, cuts, status>>
    BY <1>8 DEF Seed, SeedRead, SeedArrives, SeedFails
  <2>3. QED
    BY <2>1, <2>2 DEF BrowserOK
<1>9. CASE (\E s \in Symbols : Venue(s)) \/ UNCHANGED vars
  <2>1. UNCHANGED <<link, symbol, effect, cuts, status, seeds, pending, store>>
    BY <1>9 DEF Venue, Rest, Fill, Cancel, browser, vars
  <2>2. QED
    BY <2>1 DEF BrowserOK
<1>10. QED
  BY <1>2, <1>3, <1>4, <1>5, <1>6, <1>7, <1>8, <1>9 DEF Next

\* What one event does to the buffers.
LEMMA ForwardIs ==
  ASSUME StreamOK, BuffersOK, Forward
  PROVE  /\ Len(ch) > 0 /\ ch[1] \in Events /\ ch[1].data.symbol = symbol /\ 1 \in DOMAIN ch
         /\ Len(ch') = Len(ch) - 1 /\ DOMAIN ch' = 1..(Len(ch) - 1)
         /\ \A i \in 1..(Len(ch) - 1) : ch'[i] = ch[i + 1]
         /\ IsPrint(ch[1]) =>
              /\ ch[1].data \in Trades
              /\ pending'.trades = Append(pending.trades, ch[1].data) /\ pending'.orders = pending.orders
         /\ ~ IsPrint(ch[1]) =>
              /\ ch[1].data \in Orders
              /\ pending'.trades = pending.trades /\ pending'.orders = Append(pending.orders, ch[1].data)
         /\ pending' = [trades |-> pending'.trades, orders |-> pending'.orders]
         /\ UNCHANGED <<venues, link, symbol, effect, seeds, status, store, cuts, gaps>>
<1>1. ch \in Seq(Events) /\ ch # <<>> /\ ch' = Tail(ch)
  BY DEF Forward, StreamOK
<1>2. Len(ch) > 0 /\ Head(ch) = ch[1] /\ ch[1] \in Events /\ DOMAIN ch = 1..Len(ch)
  BY <1>1
<1>3. ch' \in Seq(Events) /\ Len(ch') = Len(ch) - 1 /\ \A i \in 1..Len(ch') : ch'[i] = ch[i + 1]
  BY <1>1, HeadTailProperties
<1>0. DOMAIN ch' = 1..(Len(ch) - 1) /\ UNCHANGED <<venues, link, symbol, effect, seeds, status, store, cuts, gaps>>
  BY <1>3 DEF Forward
<1>4. 1 \in DOMAIN ch /\ ch[1].data.symbol = symbol
  BY <1>2 DEF StreamOK
<1>5. pending' = IF ch[1].type = "trade" THEN [pending EXCEPT !.trades = Append(pending.trades, ch[1].data)]
                                         ELSE [pending EXCEPT !.orders = Append(pending.orders, ch[1].data)]
  BY <1>2 DEF Forward
<1>6. pending = [trades |-> pending.trades, orders |-> pending.orders]
  BY DEF BuffersOK
<1>7. CASE IsPrint(ch[1])
  <2>1. ch[1].data \in Trades
    BY <1>2, <1>7 DEF IsPrint, Events
  <2>2. pending' = [trades |-> Append(pending.trades, ch[1].data), orders |-> pending.orders]
    BY <1>5, <1>6, <1>7 DEF IsPrint
  <2>3. QED
    BY <1>2, <1>3, <1>4, <1>7, <1>0, <2>1, <2>2
<1>8. CASE ~ IsPrint(ch[1])
  <2>1. ch[1].data \in Orders
    BY <1>2, <1>8 DEF IsPrint, Events
  <2>2. pending' = [trades |-> pending.trades, orders |-> Append(pending.orders, ch[1].data)]
    BY <1>5, <1>6, <1>8 DEF IsPrint
  <2>3. QED
    BY <1>2, <1>3, <1>4, <1>8, <1>0, <2>1, <2>2
<1>9. QED
  BY <1>7, <1>8

\* The steps that leave what the browser has buffered alone.
LEMMA BuffersStay ==
  ASSUME [Next]_vars, ~ (\E s \in Symbols : Connect(s)), ~ Forward, ~ Flush
  PROVE  pending' = pending /\ symbol' = symbol
BY DEF Next, Venue, Rest, Fill, Cancel, Seed, SeedRead, SeedArrives, SeedFails, Subscribe, Open,
       Cut, GiveUp, browser, vars

\* The buffers hold prints and orders of the instrument on display.
LEMMA BuffersKeep ==
  ASSUME StreamOK, BuffersOK, [Next]_vars
  PROVE  BuffersOK'
<1>1. CASE (\E s \in Symbols : Connect(s)) \/ Flush
  <2>1. pending' = NoEvents
    BY <1>1 DEF Connect, Flush, Reset
  <2>2. <<>> \in Seq(Trades) /\ <<>> \in Seq(Orders) /\ DOMAIN <<>> = {}
    OBVIOUS
  <2>3. QED
    BY <2>1, <2>2 DEF BuffersOK, NoEvents
<1>2. CASE Forward
  <2> DEFINE p == pending.trades
             o == pending.orders
             d == ch[1].data
  <2>1. p \in Seq(Trades) /\ o \in Seq(Orders) /\ Len(p) \in Nat /\ Len(o) \in Nat
    BY DEF BuffersOK
  <2>2. /\ \A i \in 1..Len(p) : p[i].symbol = symbol
        /\ \A i \in 1..Len(o) : o[i].symbol = symbol
    BY <2>1 DEF BuffersOK
  <2>3. symbol' = symbol /\ pending' = [trades |-> pending'.trades, orders |-> pending'.orders] /\ d.symbol = symbol
    BY <1>2, ForwardIs
  <2> HIDE DEF p, o, d
  <2>4. CASE IsPrint(ch[1])
    <3>1. d \in Trades /\ pending'.trades = Append(p, d) /\ pending'.orders = o
      BY <1>2, <2>4, ForwardIs DEF p, o, d
    <3> DEFINE w == Append(p, d)
    <3>2. w \in Seq(Trades) /\ DOMAIN w = 1..(Len(p) + 1) /\ \A i \in 1..Len(p) : w[i] = p[i]
      BY <2>1, <3>1, AppendIs
    <3>3. w[Len(p) + 1] = d
      BY <2>1, <3>1, AppendIs
    <3> HIDE DEF w
    <3>4. \A i \in 1..(Len(p) + 1) : w[i].symbol = symbol
      <4>1. \A i \in 1..(Len(p) + 1) : i \in 1..Len(p) \/ i = Len(p) + 1
        BY <2>1
      <4>2. QED
        BY <2>2, <2>3, <3>2, <3>3, <4>1
    <3>5. pending'.trades = w /\ pending'.orders = o /\ DOMAIN o = 1..Len(o)
      BY <2>1, <3>1 DEF w
    <3>6. QED
      BY <2>1, <2>2, <2>3, <3>2, <3>4, <3>5 DEF BuffersOK
  <2>5. CASE ~ IsPrint(ch[1])
    <3>1. d \in Orders /\ pending'.trades = p /\ pending'.orders = Append(o, d)
      BY <1>2, <2>5, ForwardIs DEF p, o, d
    <3> DEFINE w == Append(o, d)
    <3>2. w \in Seq(Orders) /\ DOMAIN w = 1..(Len(o) + 1) /\ \A i \in 1..Len(o) : w[i] = o[i]
      BY <2>1, <3>1, AppendIs
    <3>3. w[Len(o) + 1] = d
      BY <2>1, <3>1, AppendIs
    <3> HIDE DEF w
    <3>4. \A i \in 1..(Len(o) + 1) : w[i].symbol = symbol
      <4>1. \A i \in 1..(Len(o) + 1) : i \in 1..Len(o) \/ i = Len(o) + 1
        BY <2>1
      <4>2. QED
        BY <2>2, <2>3, <3>2, <3>3, <4>1
    <3>5. pending'.trades = p /\ pending'.orders = w /\ DOMAIN p = 1..Len(p)
      BY <2>1, <3>1 DEF w
    <3>6. QED
      BY <2>1, <2>2, <2>3, <3>2, <3>4, <3>5 DEF BuffersOK
  <2>6. QED
    BY <2>4, <2>5
<1>3. CASE ~ (\E s \in Symbols : Connect(s)) /\ ~ Forward /\ ~ Flush
  <2>1. pending' = pending /\ symbol' = symbol
    BY <1>3, BuffersStay
  <2>2. QED
    BY <2>1 DEF BuffersOK
<1>4. QED
  BY <1>1, <1>2, <1>3

\* What a member of the seeds is once its effect has run, and what the tape was.
LEMMA SeedStays ==
  ASSUME NEW q, SeedOK(q), symbol' = symbol, effect' = effect, printed(q.symbol) \in Nat,
         printed(q.symbol)' \in Nat, printed(q.symbol) <= printed(q.symbol)'
  PROVE  SeedOK(q)'
<1>1. 0..printed(q.symbol) \subseteq 0..(printed(q.symbol)')
  OBVIOUS
<1>2. QED
  BY <1>1 DEF SeedOK, Latest, Prints, Trade

\* An answered seed, field by field.
LEMMA AnsweredIs ==
  ASSUME NEW q, q = [effect |-> q.effect, symbol |-> q.symbol, trades |-> q.trades, book |-> q.book],
         NEW x, NEW y, NEW n, n = [q EXCEPT !.trades = x, !.book = y]
  PROVE  n = [effect |-> q.effect, symbol |-> q.symbol, trades |-> x, book |-> y]
<1>1. PICK p : p = [q EXCEPT !.trades = x]
  OBVIOUS
<1>2. p = [effect |-> q.effect, symbol |-> q.symbol, trades |-> x, book |-> q.book]
  BY <1>1
<1>3. n = [p EXCEPT !.book = y]
  BY <1>1
<1>4. QED
  BY <1>2, <1>3

\* A seed is of the instrument of its effect and has what its tape was, and there
\* is no more than one of an effect.
LEMMA SeedsKeep ==
  ASSUME VenuesOK, BrowserOK, SeedsOK, [Next]_vars
  PROVE  SeedsOK'
<1>1. \A s \in Symbols : printed(s) \in Nat /\ printed(s)' \in Nat /\ printed(s) <= printed(s)'
  BY VenuesKeep
<1>2. CASE \E s \in Symbols : Connect(s)
  <2>1. PICK s \in Symbols : Connect(s)
    BY <1>2
  <2>2. PICK n : n = [effect |-> effect + 1, symbol |-> s, trades |-> None, book |-> None]
    OBVIOUS
  <2>3. /\ symbol' = s /\ effect' = effect + 1 /\ seeds' = seeds \cup {n}
        /\ effect \in Nat
    BY <2>1, <2>2 DEF Connect, BrowserOK
  <2>4. /\ n = [effect |-> n.effect, symbol |-> n.symbol, trades |-> n.trades, book |-> n.book]
        /\ n.effect = effect + 1 /\ n.symbol = s /\ n.trades = None
    BY <2>2
  <2>5. SeedOK(n)'
    <3>1. n.effect \in 1..effect' /\ n.effect = effect' /\ n.symbol = symbol' /\ n.symbol \in Symbols
      BY <2>3, <2>4
    <3>2. QED
      BY <2>4, <3>1 DEF SeedOK
  <2>6. ASSUME NEW q \in seeds
        PROVE  SeedOK(q)' /\ q.effect < effect + 1 /\ q.effect \in Nat
    <3>1. SeedOK(q) /\ q.effect \in 1..effect /\ q.symbol \in Symbols
      BY DEF SeedsOK, SeedOK
    <3>2. q.effect # effect' /\ q.effect \in 1..(effect')
      BY <2>3, <3>1
    <3>3. 0..printed(q.symbol) \subseteq 0..(printed(q.symbol)')
      BY <1>1, <3>1
    <3>4. \A r \in 0..printed(q.symbol) : r \in 0..(printed(q.symbol)')
      BY <3>3
    <3>5. SeedOK(q)'
      BY <2>3, <3>1, <3>2, <3>4 DEF SeedOK, Latest, Prints, Trade
    <3>6. QED
      BY <2>3, <3>1, <3>5 DEF BrowserOK
  <2>7. \A q \in seeds' : SeedOK(q)'
    BY <2>3, <2>5, <2>6
  <2>8. \A q, r \in seeds' : q.effect = r.effect => q = r
    <3>1. ASSUME NEW q \in seeds', NEW r \in seeds', q.effect = r.effect
          PROVE  q = r
      <4>1. CASE q = n \/ r = n
        BY <2>3, <2>4, <2>6, <3>1, <4>1
      <4>2. CASE q # n /\ r # n
        BY <2>3, <3>1, <4>2 DEF SeedsOK
      <4>3. QED
        BY <4>1, <4>2
    <3>2. QED
      BY <3>1
  <2>9. QED
    BY <2>7, <2>8 DEF SeedsOK
<1>3. CASE \E q \in seeds : SeedRead(q)
  <2>1. PICK q \in seeds : SeedRead(q)
    BY <1>3
  <2> DEFINE s == q.symbol
  <2>2. /\ q = [effect |-> q.effect, symbol |-> s, trades |-> q.trades, book |-> q.book]
        /\ s \in Symbols /\ q.effect \in 1..effect /\ (q.effect = effect => s = symbol)
    BY DEF SeedsOK, SeedOK
  <2>3. PICK n : /\ seeds' = (seeds \ {q}) \cup {n}
                 /\ n = [q EXCEPT !.trades = GetTrades(s), !.book = Snapshot(s)]
                 /\ symbol' = symbol /\ effect' = effect /\ UNCHANGED <<stage, left>>
    BY <2>1 DEF SeedRead, venues
  <2>4. n = [effect |-> q.effect, symbol |-> s, trades |-> GetTrades(s), book |-> Snapshot(s)]
    BY <2>2, <2>3, AnsweredIs
  <2>5. printed(s)' = printed(s) /\ printed(s) \in Nat
    BY <1>1, <2>2, <2>3 DEF printed
  <2>6. \E r \in 0..printed(s) : GetTrades(s) = Latest(s, 0, r)
    BY <2>2, <2>5, TapeIsLatest
  <2>7. Snapshot(s) \in SUBSET Orders /\ \A o \in Snapshot(s) : o.symbol = s
    <3>1. left[s] \in Nat
      BY <2>2 DEF VenuesOK
    <3>2. QED
      BY <2>2, <3>1 DEF Snapshot, Orders, Order
  <2> HIDE DEF s
  <2>8. /\ n = [effect |-> n.effect, symbol |-> n.symbol, trades |-> n.trades, book |-> n.book]
        /\ n.effect = q.effect /\ n.symbol = s /\ n.trades = GetTrades(s) /\ n.book = Snapshot(s)
    BY <2>4
  <2>9. SeedOK(n)
    <3>1. /\ n.effect \in 1..effect /\ n.symbol \in Symbols /\ (n.effect = effect => n.symbol = symbol)
          /\ \E r \in 0..printed(n.symbol) : n.trades = Latest(n.symbol, 0, r)
      BY <2>2, <2>6, <2>8
    <3>2. n.book \in SUBSET Orders /\ \A o \in n.book : o.symbol = n.symbol
      BY <2>7, <2>8
    <3>3. QED
      BY <2>8, <3>1, <3>2 DEF SeedOK
  <2>10. SeedOK(n)'
    BY <1>1, <2>2, <2>3, <2>8, <2>9, SeedStays
  <2>11. ASSUME NEW x \in seeds
         PROVE  SeedOK(x)'
    <3>1. SeedOK(x) /\ x.symbol \in Symbols
      BY DEF SeedsOK, SeedOK
    <3>2. QED
      BY <1>1, <2>3, <3>1, SeedStays
  <2>12. \A x \in seeds' : SeedOK(x)'
    BY <2>3, <2>10, <2>11
  <2>13. \A x, y \in seeds' : x.effect = y.effect => x = y
    <3>1. ASSUME NEW x \in seeds', NEW y \in seeds', x.effect = y.effect
          PROVE  x = y
      <4>1. CASE x = n /\ y # n
        BY <2>3, <2>8, <3>1, <4>1 DEF SeedsOK
      <4>2. CASE x # n /\ y = n
        BY <2>3, <2>8, <3>1, <4>2 DEF SeedsOK
      <4>3. CASE x # n /\ y # n
        BY <2>3, <3>1, <4>3 DEF SeedsOK
      <4>4. QED
        BY <4>1, <4>2, <4>3
    <3>2. QED
      BY <3>1
  <2>14. QED
    BY <2>12, <2>13 DEF SeedsOK
<1>4. CASE ~ (\E s \in Symbols : Connect(s)) /\ ~ (\E q \in seeds : SeedRead(q))
  <2>1. seeds' \subseteq seeds /\ symbol' = symbol /\ effect' = effect
    BY <1>4 DEF Next, Venue, Rest, Fill, Cancel, Seed, SeedArrives, SeedFails, Subscribe, Open,
                Forward, Flush, Cut, GiveUp, browser, vars
  <2>2. ASSUME NEW x \in seeds
        PROVE  SeedOK(x)'
    <3>1. SeedOK(x) /\ x.symbol \in Symbols
      BY DEF SeedsOK, SeedOK
    <3>2. QED
      BY <1>1, <2>1, <3>1, SeedStays
  <2>3. QED
    BY <2>1, <2>2 DEF SeedsOK
<1>5. QED
  BY <1>2, <1>3, <1>4

\* The cap leaves the end of the tape.
LEMMA CappedIs ==
  ASSUME NEW X, NEW t \in Seq(X)
  PROVE  /\ Capped(t) \in Seq(X) /\ Len(Capped(t)) <= MaxTrades
         /\ \E d \in Nat : /\ Len(t) = Len(Capped(t)) + d
                           /\ \A i \in 1..Len(Capped(t)) : Capped(t)[i] = t[i + d]
<1>1. MaxTrades \in Nat \ {0} /\ Len(t) \in Nat
  BY FeedAssumption
<1>2. CASE Len(t) > MaxTrades
  <2> DEFINE d == Len(t) - MaxTrades
             c == SubSeq(t, d + 1, Len(t))
  <2>1. Capped(t) = c /\ d \in Nat
    BY <1>1, <1>2 DEF Capped
  <2>2. d + 1 \in Int /\ Len(t) \in Int /\ \A i \in (d + 1)..Len(t) : t[i] \in X
    BY <1>1, <1>2
  <2>3. /\ c \in Seq(X) /\ Len(c) = IF d + 1 <= Len(t) THEN Len(t) - (d + 1) + 1 ELSE 0
        /\ \A i \in 1..(Len(t) - (d + 1) + 1) : c[i] = t[d + 1 + i - 1]
    BY <2>2, SubSeqProperties
  <2> HIDE DEF c
  <2>4. Len(c) = MaxTrades /\ Len(t) - (d + 1) + 1 = MaxTrades
    BY <1>1, <1>2, <2>3
  <2>5. \A i \in 1..MaxTrades : c[i] = t[i + d]
    <3>1. \A i \in 1..MaxTrades : d + 1 + i - 1 = i + d
      BY <1>1
    <3>2. QED
      BY <2>3, <2>4, <3>1
  <2>6. Len(t) = Len(c) + d
    BY <1>1, <2>4
  <2>7. Len(c) <= MaxTrades
    BY <1>1, <2>4
  <2> HIDE DEF d
  <2>8. QED
    BY <2>1, <2>3, <2>4, <2>5, <2>6, <2>7
<1>3. CASE ~ (Len(t) > MaxTrades)
  <2>1. Capped(t) = t
    BY <1>3 DEF Capped
  <2>2. Len(t) = Len(t) + 0 /\ \A i \in 1..Len(t) : t[i] = t[i + 0]
    BY <1>1
  <2>3. \E d \in Nat : Len(t) = Len(t) + d /\ \A i \in 1..Len(t) : t[i] = t[i + d]
    BY <2>2
  <2>4. t \in Seq(X) /\ Len(t) <= MaxTrades
    BY <1>1, <1>3
  <2>5. QED
    BY <2>1, <2>3, <2>4
<1>4. QED
  BY <1>2, <1>3

\* What Extended makes of a tape without doubles and prints without doubles.
LEMMA ExtendedIs ==
  ASSUME NEW t \in Seq(Trades), IsInjective(t), NEW p \in Seq(Trades),
         \A i, j \in DOMAIN p : i < j => p[i] # p[j]
  PROVE  /\ Extended(t, p) \in Seq(Trades) /\ Len(Extended(t, p)) <= MaxTrades
         /\ IsInjective(Extended(t, p))
         /\ \A i \in DOMAIN Extended(t, p) :
              \/ \E j \in DOMAIN t : Extended(t, p)[i] = t[j]
              \/ \E j \in DOMAIN p : Extended(t, p)[i] = p[j]
<1> DEFINE w == Unseen(t, p)
           v == t \o w
           x == Extended(t, p)
<1>1. w \in Seq(Trades)
  BY UnseenKeeps
<1>2. \A i \in DOMAIN w : w[i] \notin ToSet(t) /\ \E j \in DOMAIN p : w[i] = p[j]
  BY UnseenKeeps
<1>3. \A i, j \in DOMAIN w : i < j => w[i] # w[j]
  BY UnseenKeeps
<1> HIDE DEF w
<1>4. /\ v \in Seq(Trades) /\ Len(v) = Len(t) + Len(w)
      /\ \A i \in 1..(Len(t) + Len(w)) : v[i] = IF i <= Len(t) THEN t[i] ELSE w[i - Len(t)]
  BY <1>1, ConcatProperties
<1>5. x = Capped(v)
  BY DEF Extended, w
<1> HIDE DEF v, x
<1>6. DOMAIN t = 1..Len(t) /\ DOMAIN w = 1..Len(w) /\ Len(t) \in Nat /\ Len(w) \in Nat
  BY <1>1
<1>7. \A i \in 1..Len(t) : v[i] = t[i] /\ v[i] \in ToSet(t)
  BY <1>4, <1>6 DEF ToSet
<1>8. \A i \in (Len(t) + 1)..Len(v) : i - Len(t) \in 1..Len(w) /\ v[i] = w[i - Len(t)]
  BY <1>4, <1>6
<1>9. \A i \in 1..Len(v) : i \in 1..Len(t) \/ i \in (Len(t) + 1)..Len(v)
  BY <1>4, <1>6
<1>10. ASSUME NEW i \in 1..Len(v), NEW j \in 1..Len(v), i < j
       PROVE  v[i] # v[j]
  <2>1. CASE j \in 1..Len(t)
    <3>1. i \in 1..Len(t) /\ i # j
      BY <1>6, <1>10, <2>1
    <3>2. QED
      BY <1>6, <1>7, <2>1, <3>1 DEF IsInjective
  <2>2. CASE i \in 1..Len(t) /\ j \in (Len(t) + 1)..Len(v)
    <3>1. v[i] \in ToSet(t)
      BY <1>7, <2>2
    <3>2. v[j] \notin ToSet(t)
      BY <1>2, <1>6, <1>8, <2>2
    <3>3. QED
      BY <3>1, <3>2
  <2>3. CASE i \in (Len(t) + 1)..Len(v) /\ j \in (Len(t) + 1)..Len(v)
    <3>1. i - Len(t) \in DOMAIN w /\ j - Len(t) \in DOMAIN w /\ i - Len(t) < j - Len(t)
      BY <1>6, <1>8, <1>10, <2>3
    <3>2. QED
      BY <1>3, <1>8, <2>3, <3>1
  <2>4. QED
    BY <1>9, <2>1, <2>2, <2>3
<1>11. \A i \in 1..Len(v) : (\E j \in DOMAIN t : v[i] = t[j]) \/ (\E j \in DOMAIN p : v[i] = p[j])
  <2>1. ASSUME NEW i \in 1..Len(v)
        PROVE  (\E j \in DOMAIN t : v[i] = t[j]) \/ (\E j \in DOMAIN p : v[i] = p[j])
    <3>1. CASE i \in 1..Len(t)
      BY <1>6, <1>7, <3>1
    <3>2. CASE i \in (Len(t) + 1)..Len(v)
      BY <1>2, <1>6, <1>8, <3>2
    <3>3. QED
      BY <1>9, <3>1, <3>2
  <2>2. QED
    BY <2>1
<1>12. x \in Seq(Trades) /\ Len(x) <= MaxTrades
  BY <1>4, <1>5, CappedIs
<1>13. PICK d \in Nat : Len(v) = Len(x) + d /\ \A i \in 1..Len(x) : x[i] = v[i + d]
  BY <1>4, <1>5, CappedIs
<1>14. DOMAIN x = 1..Len(x) /\ Len(x) \in Nat
  BY <1>12
<1>15. \A i \in 1..Len(x) : i + d \in 1..Len(v)
  BY <1>13, <1>14
<1>16. IsInjective(x)
  <2>1. ASSUME NEW i \in 1..Len(x), NEW j \in 1..Len(x), x[i] = x[j]
        PROVE  i = j
    <3>1. i + d \in 1..Len(v) /\ j + d \in 1..Len(v) /\ v[i + d] = v[j + d]
      BY <1>13, <1>15, <2>1
    <3>2. ~ (i + d < j + d) /\ ~ (j + d < i + d)
      BY <1>10, <3>1
    <3>3. QED
      BY <3>2
  <2>2. QED
    BY <1>14, <2>1 DEF IsInjective
<1>17. \A i \in DOMAIN x : (\E j \in DOMAIN t : x[i] = t[j]) \/ (\E j \in DOMAIN p : x[i] = p[j])
  BY <1>11, <1>13, <1>14, <1>15
<1>18. QED
  BY <1>12, <1>16, <1>17 DEF x

\* The steps that leave the store alone.
LEMMA StoreStays ==
  ASSUME [Next]_vars, ~ (\E s \in Symbols : Connect(s)), ~ Flush, ~ (\E q \in seeds : SeedArrives(q))
  PROVE  store' = store /\ symbol' = symbol
BY DEF Next, Venue, Rest, Fill, Cancel, Seed, SeedRead, SeedFails, Subscribe, Open, Forward,
       Cut, GiveUp, browser, vars

\* A seed that arrives is the tape of the instrument on display at some moment.
LEMMA ArrivalIs ==
  ASSUME VenuesOK, SeedsOK, NEW q \in seeds, SeedArrives(q), current(q)
  PROVE  /\ symbol \in Symbols /\ q.trades # None /\ q.effect = effect
         /\ \E r \in 0..printed(symbol) : q.trades = Latest(symbol, 0, r)
         /\ q.book \in SUBSET Orders /\ \A o \in q.book : o.symbol = symbol
         /\ store' = [trades |-> q.trades,
                      ordersById |-> IF store.ordersById = {} THEN q.book ELSE store.ordersById]
         /\ symbol' = symbol /\ seeds' = seeds \ {q}
BY DEF SeedArrives, current, SeedsOK, SeedOK

\* What the store has on display is of the instrument on display, without doubles.
LEMMA StoreKeeps ==
  ASSUME VenuesOK, BrowserOK, BuffersOK, StoreOK, SeedsOK, InTurn, [Next]_vars
  PROVE  StoreOK'
<1>0. MaxTrades \in Nat \ {0} /\ None \notin Symbols
  BY FeedAssumption
<1>1. CASE \E s \in Symbols : Connect(s)
  <2>1. store' = EMPTY_STATE
    BY <1>1 DEF Connect
  <2>2. <<>> \in Seq(Trades) /\ Len(<<>>) = 0 /\ DOMAIN <<>> = {}
    OBVIOUS
  <2>3. IsInjective(<<>>)
    BY <2>2 DEF IsInjective
  <2>4. store'.trades = <<>> /\ store'.ordersById = {}
    BY <2>1 DEF EMPTY_STATE
  <2>5. QED
    BY <1>0, <2>2, <2>3, <2>4 DEF StoreOK
<1>2. CASE \E q \in seeds : SeedArrives(q)
  <2>1. PICK q \in seeds : SeedArrives(q)
    BY <1>2
  <2>2. CASE current(q)
    <3>1. PICK r \in 0..printed(symbol) : q.trades = Latest(symbol, 0, r)
      BY <2>1, <2>2, ArrivalIs
    <3>2. /\ symbol \in Symbols /\ symbol' = symbol
          /\ q.book \in SUBSET Orders /\ \A o \in q.book : o.symbol = symbol
          /\ store'.trades = Latest(symbol, 0, r)
          /\ store'.ordersById = IF store.ordersById = {} THEN q.book ELSE store.ordersById
      BY <2>1, <2>2, <3>1, ArrivalIs
    <3>3. r \in Nat /\ 0 \in Nat /\ 0 <= r
      <4>1. printed(symbol) \in Nat
        BY <3>2, VenuesKeep
      <4>2. QED
        BY <3>1, <4>1
    <3> DEFINE x == Start(0, r)
               l == Latest(symbol, 0, r)
    <3>4. x \in Nat /\ x <= r /\ r - x <= MaxTrades
      BY <3>3, StartIs
    <3>5. /\ l \in Seq(Trades) /\ Len(l) = r - x /\ DOMAIN l = 1..(r - x)
          /\ \A i \in 1..(r - x) : l[i] = Trade(symbol, x + i)
      BY <3>2, <3>3, LatestIs
    <3> HIDE DEF x, l
    <3>6. \A i \in DOMAIN l : l[i].symbol = symbol /\ l[i].n = x + i
      BY <3>5 DEF Trade
    <3>7. IsInjective(l)
      BY <3>4, <3>5, <3>6 DEF IsInjective
    <3>8. store'.ordersById \in SUBSET Orders /\ \A o \in store'.ordersById : o.symbol = symbol
      BY <3>2 DEF StoreOK
    <3>9. store'.trades = l /\ Len(l) <= MaxTrades
      BY <3>2, <3>4, <3>5 DEF l
    <3>10. QED
      BY <3>2, <3>5, <3>6, <3>7, <3>8, <3>9 DEF StoreOK
  <2>3. CASE ~ current(q)
    <3>1. store' = store /\ symbol' = symbol
      BY <2>1, <2>3 DEF SeedArrives
    <3>2. QED
      BY <3>1 DEF StoreOK
  <2>4. QED
    BY <2>2, <2>3
<1>3. CASE Flush
  <2> DEFINE p == pending.trades
             t == store.trades
             x == Extended(t, p)
             o == Applied(store.ordersById, pending.orders)
  <2>1. symbol \in Symbols /\ symbol' = symbol
    BY <1>3 DEF Flush, BrowserOK
  <2>2. p \in Seq(Trades) /\ \A i \in DOMAIN p : p[i].symbol = symbol /\ p[i].n \in Nat
    <3>1. p \in Seq(Trades) /\ \A i \in DOMAIN p : p[i].symbol = symbol
      BY DEF BuffersOK
    <3> HIDE DEF p
    <3>2. \A i \in DOMAIN p : p[i] \in Trades
      BY <3>1
    <3>3. QED
      BY <3>1, <3>2 DEF Trades
  <2>3. \A i, j \in DOMAIN p : i < j => p[i].n < p[j].n
    BY <1>0, <2>1 DEF InTurn, Ascending
  <2>4. \A i, j \in DOMAIN p : i < j => p[i] # p[j]
    BY <2>2, <2>3
  <2>5. t \in Seq(Trades) /\ IsInjective(t) /\ \A i \in DOMAIN t : t[i].symbol = symbol
    BY DEF StoreOK
  <2>6. store' = [trades |-> x, ordersById |-> o]
    BY <1>3 DEF Flush
  <2>7. o \in SUBSET Orders /\ \A y \in o : y.symbol = symbol
    <3>1. \A y \in o : y \in store.ordersById \/ \E i \in DOMAIN pending.orders : y = pending.orders[i]
      BY DEF Applied
    <3>2. \A i \in DOMAIN pending.orders : pending.orders[i] \in Orders /\ pending.orders[i].symbol = symbol
      BY DEF BuffersOK
    <3> HIDE DEF o
    <3>3. QED
      BY <3>1, <3>2 DEF StoreOK
  <2> HIDE DEF p, t, o
  <2>8. /\ x \in Seq(Trades) /\ Len(x) <= MaxTrades /\ IsInjective(x)
        /\ \A i \in DOMAIN x : (\E j \in DOMAIN t : x[i] = t[j]) \/ (\E j \in DOMAIN p : x[i] = p[j])
    BY <2>2, <2>4, <2>5, ExtendedIs
  <2> HIDE DEF x
  <2>9. \A i \in DOMAIN x : x[i].symbol = symbol
    BY <2>2, <2>5, <2>8
  <2>10. QED
    BY <2>1, <2>6, <2>7, <2>8, <2>9 DEF StoreOK
<1>4. CASE ~ (\E s \in Symbols : Connect(s)) /\ ~ Flush /\ ~ (\E q \in seeds : SeedArrives(q))
  <2>1. store' = store /\ symbol' = symbol
    BY <1>4, StoreStays
  <2>2. QED
    BY <2>1 DEF StoreOK
<1>5. QED
  BY <1>1, <1>2, <1>3, <1>4

\* The steps that leave the prints that wait, and how many there are, alone.
LEMMA InTurnStays ==
  ASSUME InTurn, pending' = pending, ch' = ch, symbol' = symbol,
         symbol \in Symbols => printed(symbol) \in Nat /\ printed(symbol)' \in Nat
                               /\ printed(symbol) <= printed(symbol)',
         symbol \in Symbols \cup {None}, VenuesOK, BuffersOK, StreamOK
  PROVE  InTurn'
<1>1. SUFFICES ASSUME symbol # None
               PROVE  Ascending(pending.trades, ch, printed(symbol)')
  BY DEF InTurn
<1>2. Ascending(pending.trades, ch, printed(symbol))
  BY <1>1 DEF InTurn
<1>3. PICK a \in Nat, b \in Nat : a = printed(symbol) /\ b = printed(symbol)' /\ a <= b
  BY <1>1
<1>4. \A i \in DOMAIN pending.trades : pending.trades[i].n \in Nat
  <2>1. \A i \in DOMAIN pending.trades : pending.trades[i] \in Trades
    BY DEF BuffersOK
  <2>2. QED
    BY <2>1 DEF Trades
<1>5. \A i \in DOMAIN ch : IsPrint(ch[i]) => ch[i].data.n \in Nat
  <2>1. \A i \in DOMAIN ch : ch[i] \in Events
    BY DEF StreamOK
  <2>2. QED
    BY <2>1 DEF Events, Trades, IsPrint
<1>6. Ascending(pending.trades, ch, b)
  BY <1>2, <1>3, <1>4, <1>5 DEF Ascending
<1>7. QED
  BY <1>3, <1>6

\* What a step of the venue on display puts in the channel comes after all that waits.
LEMMA InTurnSends ==
  ASSUME NEW s \in Symbols, NEW e \in Seq(Events), VenuesOK, StreamOK, BuffersOK, InTurn,
         Publish(s, e), symbol = s, None \notin Symbols, pending' = pending, symbol' = symbol,
         NEW a \in Nat, a = printed(s), NEW b \in Nat, b = printed(s)', a <= b,
         \A i \in 1..Len(e) : IsPrint(e[i]) => i = 1 /\ e[i].data.n = b /\ a < b
  PROVE  InTurn'
<1> DEFINE p == pending.trades
<1>1. Ascending(p, ch, a)
  BY DEF InTurn
<1>2. /\ ch' \in Seq(Events)
      /\ Len(ch) <= Len(ch') /\ Len(ch') <= Len(ch) + Len(e)
      /\ \A i \in 1..Len(ch) : ch'[i] = ch[i]
      /\ \A i \in (Len(ch) + 1)..Len(ch') : ch'[i] = e[i - Len(ch)]
  BY PublishSends
<1>3. /\ \A i \in DOMAIN p : p[i].n \in Nat
      /\ \A i \in DOMAIN ch : IsPrint(ch[i]) => ch[i].data.n \in Nat
  <2>1. \A i \in DOMAIN p : p[i] \in Trades
    BY DEF BuffersOK
  <2>2. \A i \in DOMAIN ch : ch[i] \in Events
    BY DEF StreamOK
  <2>3. QED
    BY <2>1, <2>2 DEF Events, Trades, IsPrint
<1>4. ch \in Seq(Events) /\ Len(ch) \in Nat /\ DOMAIN ch = 1..Len(ch) /\ DOMAIN ch' = 1..Len(ch')
  BY <1>2 DEF StreamOK
<1>5. \A i \in (Len(ch) + 1)..Len(ch') :
        IsPrint(ch'[i]) => i = Len(ch) + 1 /\ ch'[i].data.n = b /\ a < b
  <2>1. ASSUME NEW i \in (Len(ch) + 1)..Len(ch'), IsPrint(ch'[i])
        PROVE  i = Len(ch) + 1 /\ ch'[i].data.n = b /\ a < b
    <3>1. i - Len(ch) \in 1..Len(e) /\ ch'[i] = e[i - Len(ch)]
      BY <1>2, <1>4
    <3>2. i - Len(ch) = 1 /\ ch'[i].data.n = b /\ a < b
      BY <2>1, <3>1
    <3>3. QED
      BY <1>4, <3>2
  <2>2. QED
    BY <2>1
<1> HIDE DEF p
<1>6. \A i \in 1..Len(ch') : i \in 1..Len(ch) \/ i \in (Len(ch) + 1)..Len(ch')
  BY <1>2, <1>4
<1>7. \A i \in DOMAIN p : p[i].n <= b
  BY <1>1, <1>3 DEF Ascending
<1>8. ASSUME NEW i \in 1..Len(ch'), IsPrint(ch'[i])
      PROVE  /\ ch'[i].data.n <= b
             /\ \A j \in DOMAIN p : p[j].n < ch'[i].data.n
             /\ \A j \in 1..Len(ch') : i < j /\ IsPrint(ch'[j]) => ch'[i].data.n < ch'[j].data.n
  <2>1. CASE i \in 1..Len(ch)
    <3>1. /\ ch'[i] = ch[i] /\ i \in DOMAIN ch /\ ch[i].data.n \in Nat /\ ch[i].data.n <= a
          /\ \A j \in DOMAIN p : p[j].n < ch[i].data.n
          /\ \A j \in DOMAIN ch : i < j /\ IsPrint(ch[j]) => ch[i].data.n < ch[j].data.n
      BY <1>1, <1>2, <1>3, <1>4, <1>8, <2>1 DEF Ascending
    <3>2. ASSUME NEW j \in 1..Len(ch'), i < j, IsPrint(ch'[j])
          PROVE  ch'[i].data.n < ch'[j].data.n
      <4>1. CASE j \in 1..Len(ch)
        BY <1>2, <1>4, <3>1, <3>2, <4>1
      <4>2. CASE j \in (Len(ch) + 1)..Len(ch')
        BY <1>5, <3>1, <3>2, <4>2
      <4>3. QED
        BY <1>6, <4>1, <4>2
    <3>3. QED
      BY <3>1, <3>2
  <2>2. CASE i \in (Len(ch) + 1)..Len(ch')
    <3>1. i = Len(ch) + 1 /\ ch'[i].data.n = b /\ a < b
      BY <1>5, <1>8, <2>2
    <3>2. \A j \in DOMAIN p : p[j].n < b
      BY <1>1, <1>3, <3>1 DEF Ascending
    <3>3. ASSUME NEW j \in 1..Len(ch'), i < j, IsPrint(ch'[j])
          PROVE  FALSE
      <4>1. j \in (Len(ch) + 1)..Len(ch') /\ j # Len(ch) + 1
        BY <1>4, <3>1, <3>3
      <4>2. QED
        BY <1>5, <3>3, <4>1
    <3>4. QED
      BY <3>1, <3>2, <3>3
  <2>3. QED
    BY <1>6, <2>1, <2>2
<1>9. Ascending(p, ch', b)
  BY <1>1, <1>4, <1>7, <1>8 DEF Ascending
<1>10. QED
  BY <1>9 DEF InTurn, p

\* A print that moves from the channel to the buffers stays in turn.
LEMMA InTurnForwards ==
  ASSUME VenuesOK, BrowserOK, StreamOK, BuffersOK, InTurn, Forward
  PROVE  InTurn'
<1> DEFINE p == pending.trades
           d == ch[1].data
           n == printed(symbol)
           w == pending'.trades
<1>1. /\ Len(ch) > 0 /\ Len(ch) \in Nat /\ ch[1] \in Events /\ DOMAIN ch = 1..Len(ch)
      /\ DOMAIN ch' = 1..(Len(ch) - 1) /\ \A i \in 1..(Len(ch) - 1) : ch'[i] = ch[i + 1]
  BY ForwardIs DEF StreamOK
<1>2. /\ IsPrint(ch[1]) => d \in Trades /\ w = Append(p, d)
      /\ ~ IsPrint(ch[1]) => w = p
  BY ForwardIs
<1>3. symbol' = symbol /\ printed(symbol)' = printed(symbol)
  BY ForwardIs DEF printed, venues
<1>4. symbol # None
  BY DEF Forward, BrowserOK
<1>5. Ascending(p, ch, n)
  BY <1>4 DEF InTurn
<1>6. p \in Seq(Trades) /\ DOMAIN p = 1..Len(p) /\ Len(p) \in Nat
  BY DEF BuffersOK
<1> HIDE DEF p, d, n, w
<1>7. ASSUME NEW i \in DOMAIN ch', IsPrint(ch'[i])
      PROVE  /\ ch'[i].data.n <= n
             /\ \A j \in DOMAIN p : p[j].n < ch'[i].data.n
             /\ \A j \in DOMAIN ch' : i < j /\ IsPrint(ch'[j]) => ch'[i].data.n < ch'[j].data.n
             /\ IsPrint(ch[1]) => ch[1].data.n < ch'[i].data.n
  <2>1. i + 1 \in DOMAIN ch /\ ch'[i] = ch[i + 1] /\ 1 \in DOMAIN ch /\ 1 < i + 1
    BY <1>1
  <2>2. ASSUME NEW j \in DOMAIN ch', i < j, IsPrint(ch'[j])
        PROVE  ch'[i].data.n < ch'[j].data.n
    <3>1. j + 1 \in DOMAIN ch /\ ch'[j] = ch[j + 1] /\ i + 1 < j + 1
      BY <1>1, <2>2
    <3>2. QED
      BY <1>5, <1>7, <2>1, <2>2, <3>1 DEF Ascending
  <2>3. QED
    BY <1>5, <1>7, <2>1, <2>2 DEF Ascending
<1>8. CASE ~ IsPrint(ch[1])
  <2>1. Ascending(w, ch', n)
    BY <1>2, <1>5, <1>7, <1>8 DEF Ascending
  <2>2. QED
    BY <1>3, <2>1 DEF InTurn, w, n
<1>9. CASE IsPrint(ch[1])
  <2> DEFINE v == Append(p, d)
  <2>1. d \in Trades /\ w = v
    BY <1>2, <1>9
  <2>2. DOMAIN v = 1..(Len(p) + 1) /\ (\A i \in 1..Len(p) : v[i] = p[i]) /\ v[Len(p) + 1] = d
    BY <1>6, <2>1, AppendIs
  <2>3. \A i \in 1..(Len(p) + 1) : i \in DOMAIN p \/ i = Len(p) + 1
    BY <1>6
  <2>4. d.n <= n /\ \A i \in DOMAIN p : p[i].n < d.n
    BY <1>1, <1>5, <1>9 DEF Ascending, d
  <2>5. \A i \in DOMAIN ch' : IsPrint(ch'[i]) => d.n < ch'[i].data.n
    BY <1>7, <1>9 DEF d
  <2> HIDE DEF v
  <2>6. \A i \in DOMAIN v : v[i].n <= n
    BY <1>5, <1>6, <2>2, <2>3, <2>4 DEF Ascending
  <2>7. \A i, j \in DOMAIN v : i < j => v[i].n < v[j].n
    <3>1. ASSUME NEW i \in DOMAIN v, NEW j \in DOMAIN v, i < j
          PROVE  v[i].n < v[j].n
      <4>1. i \in DOMAIN p
        BY <1>6, <2>2, <3>1
      <4>2. CASE j \in DOMAIN p
        BY <1>5, <1>6, <2>2, <3>1, <4>1, <4>2 DEF Ascending
      <4>3. CASE j = Len(p) + 1
        BY <1>6, <2>2, <2>4, <4>1, <4>3
      <4>4. QED
        BY <2>2, <2>3, <4>2, <4>3
    <3>2. QED
      BY <3>1
  <2>8. \A i \in DOMAIN ch' : IsPrint(ch'[i]) => \A j \in DOMAIN v : v[j].n < ch'[i].data.n
    <3>1. ASSUME NEW i \in DOMAIN ch', IsPrint(ch'[i]), NEW j \in DOMAIN v
          PROVE  v[j].n < ch'[i].data.n
      <4>1. CASE j \in DOMAIN p
        BY <1>6, <1>7, <2>2, <3>1, <4>1
      <4>2. CASE j = Len(p) + 1
        BY <2>2, <2>5, <3>1, <4>2
      <4>3. QED
        BY <2>2, <2>3, <4>1, <4>2
    <3>2. QED
      BY <3>1
  <2>9. Ascending(v, ch', n)
    BY <1>7, <2>6, <2>7, <2>8 DEF Ascending
  <2>10. QED
    BY <1>3, <2>1, <2>9 DEF InTurn, w, n
<1>10. QED
  BY <1>8, <1>9

\* Prints stay in turn.
LEMMA InTurnKeeps ==
  ASSUME Inv, [Next]_vars
  PROVE  InTurn'
<1>0. VenuesOK /\ StreamOK /\ BrowserOK /\ BuffersOK /\ InTurn /\ None \notin Symbols
  BY FeedAssumption DEF Inv
<1>1. \A s \in Symbols : printed(s) \in Nat /\ printed(s)' \in Nat /\ printed(s) <= printed(s)'
  BY <1>0, VenuesKeep
<1>2. CASE \E s \in Symbols : Rest(s) /\ symbol = s
  <2>1. PICK s \in Symbols : Rest(s) /\ symbol = s
    BY <1>2
  <2>2. left[s] \in Nat /\ 1 \in Nat \ {0}
    BY <1>0 DEF VenuesOK
  <2> DEFINE e == <<OrderEvent(s, left[s])>>
  <2>3. e \in Seq(Events) /\ Len(e) = 1 /\ e[1] = OrderEvent(s, left[s])
    BY <2>2, EventsAre
  <2>4. ~ IsPrint(OrderEvent(s, left[s]))
    BY <2>2, EventsAre
  <2> HIDE DEF e
  <2>5. \A i \in 1..Len(e) : ~ IsPrint(e[i])
    BY <2>3, <2>4
  <2>6. Publish(s, e) /\ pending' = pending /\ symbol' = symbol
    BY <2>1 DEF Rest, browser, e
  <2>7. PICK a \in Nat, b \in Nat : a = printed(s) /\ b = printed(s)' /\ a <= b
    BY <1>1
  <2>8. QED
    BY <1>0, <2>1, <2>3, <2>5, <2>6, <2>7, InTurnSends
<1>3. CASE \E s \in Symbols : Fill(s) /\ symbol = s
  <2>1. PICK s \in Symbols : Fill(s) /\ symbol = s
    BY <1>3
  <2>2. /\ left[s] - 1 \in Nat /\ printed(s) \in Nat /\ printed(s) + 1 \in Nat \ {0}
        /\ printed(s)' = printed(s) + 1
    BY <1>0, <2>1, FillIs
  <2> DEFINE e == <<TradeEvent(s, printed(s) + 1), OrderEvent(s, left[s] - 1)>>
  <2>3. /\ e \in Seq(Events) /\ Len(e) = 2 /\ ~ IsPrint(e[2]) /\ IsPrint(e[1])
        /\ e[1].data.n = printed(s) + 1
    BY <2>2, EventsAre
  <2> HIDE DEF e
  <2>4. Publish(s, e) /\ pending' = pending /\ symbol' = symbol
    BY <2>1 DEF Fill, browser, e
  <2>5. PICK a \in Nat, b \in Nat : a = printed(s) /\ b = printed(s)' /\ b = a + 1
    BY <2>2
  <2>6. a <= b /\ \A i \in 1..Len(e) : IsPrint(e[i]) => i = 1 /\ e[i].data.n = b /\ a < b
    BY <2>3, <2>5
  <2>7. QED
    BY <1>0, <2>1, <2>3, <2>4, <2>5, <2>6, InTurnSends
<1>4. CASE Forward
  BY <1>0, <1>4, InTurnForwards
<1>5. CASE (\E s \in Symbols : Connect(s)) \/ Flush
  <2>1. pending' = NoEvents
    BY <1>5 DEF Connect, Flush, Reset
  <2>2. pending'.trades = <<>> /\ DOMAIN <<>> = {}
    BY <2>1 DEF NoEvents
  <2>3. CASE ch' = <<>>
    BY <2>2, <2>3 DEF InTurn, Ascending
  <2>4. CASE Flush
    <3>1. ch' = ch /\ symbol' = symbol /\ printed(symbol)' = printed(symbol) /\ symbol # None
      BY <1>0, <2>4 DEF Flush, venues, printed, BrowserOK
    <3>2. Ascending(pending.trades, ch, printed(symbol))
      BY <1>0, <3>1 DEF InTurn
    <3>3. Ascending(pending'.trades, ch, printed(symbol))
      BY <2>2, <3>2 DEF Ascending
    <3>4. QED
      BY <3>1, <3>3 DEF InTurn
  <2>5. QED
    BY <1>5, <2>3, <2>4 DEF Connect
<1>6. CASE Cut
  <2>1. ch' = <<>> /\ pending' = pending /\ symbol' = symbol /\ printed(symbol)' = printed(symbol)
    BY <1>6 DEF Cut, printed, venues
  <2>2. QED
    BY <1>0, <2>1 DEF InTurn, Ascending
<1>7. CASE \E s \in Symbols : (Rest(s) \/ Fill(s)) /\ symbol # s
  <2>1. PICK s \in Symbols : (Rest(s) \/ Fill(s)) /\ symbol # s
    BY <1>7
  <2>2. ~ wants(s)
    BY <2>1 DEF wants
  <2>3. pending' = pending /\ ch' = ch /\ symbol' = symbol
    BY <2>1, <2>2 DEF Rest, Fill, Publish, browser
  <2>4. QED
    BY <1>0, <1>1, <2>3, InTurnStays DEF BrowserOK
<1>8. CASE (\E s \in Symbols : Cancel(s)) \/ (\E q \in seeds : Seed(q)) \/ Subscribe \/ Open \/ GiveUp
           \/ UNCHANGED vars
  <2>1. pending' = pending /\ ch' = ch /\ symbol' = symbol
    BY <1>8 DEF Cancel, Seed, SeedRead, SeedArrives, SeedFails, Subscribe, Open, GiveUp, browser, vars
  <2>2. QED
    BY <1>0, <1>1, <2>1, InTurnStays DEF BrowserOK
<1>9. \/ (\E s \in Symbols : (Rest(s) \/ Fill(s)) /\ (symbol = s \/ symbol # s))
      \/ (\E s \in Symbols : Cancel(s)) \/ (\E s \in Symbols : Connect(s))
      \/ (\E q \in seeds : Seed(q))
      \/ Subscribe \/ Open \/ Forward \/ Flush \/ Cut \/ GiveUp \/ UNCHANGED vars
  BY DEF Next, Venue
<1>10. QED
  BY <1>2, <1>3, <1>4, <1>5, <1>6, <1>7, <1>8, <1>9

\* It holds at the start.
LEMMA InitInv == Init => Inv
<1> SUFFICES ASSUME Init
             PROVE  Inv
  OBVIOUS
<1>0. /\ Size \in [Symbols -> Nat \ {0}] /\ MaxTrades \in Nat \ {0} /\ Buffer \in Nat /\ MaxCuts \in Nat
      /\ MaxConnects \in Nat
  BY FeedAssumption
<1>1. <<>> \in Seq(Trades) /\ <<>> \in Seq(Orders) /\ <<>> \in Seq(Events) /\ DOMAIN <<>> = {} /\ Len(<<>>) = 0
  OBVIOUS
<1>2. VenuesOK
  BY <1>0 DEF Init, VenuesOK
<1>3. StreamOK /\ BrowserOK /\ SeedsOK /\ InTurn
  BY <1>0, <1>1 DEF Init, StreamOK, BrowserOK, SeedsOK, InTurn
<1>4. BuffersOK
  BY <1>1 DEF Init, BuffersOK, NoEvents
<1>5. StoreOK
  BY <1>0, <1>1 DEF Init, StoreOK, EMPTY_STATE, IsInjective
<1>6. QED
  BY <1>2, <1>3, <1>4, <1>5 DEF Inv

\* Every step keeps it.
LEMMA NextInv ==
  ASSUME Inv, [Next]_vars
  PROVE  Inv'
<1>1. VenuesOK /\ StreamOK /\ BrowserOK /\ BuffersOK /\ StoreOK /\ SeedsOK /\ InTurn
  BY DEF Inv
<1>2. VenuesOK' /\ StreamOK' /\ BrowserOK'
  BY <1>1, VenuesKeep, StreamKeeps, BrowserKeeps
<1>3. BuffersOK' /\ StoreOK' /\ SeedsOK'
  BY <1>1, BuffersKeep, StoreKeeps, SeedsKeep
<1>4. InTurn'
  BY InTurnKeeps
<1>5. QED
  BY <1>2, <1>3, <1>4 DEF Inv

\* The invariant of the feed: what is buffered, sent or on display is of the
\* instrument on display, and no print is there twice.
THEOREM FeedHolds == Spec => []Inv
<1>1. Init => Inv
  BY InitInv
<1>2. Inv /\ [Next]_vars => Inv'
  BY NextInv
<1>3. QED
  BY <1>1, <1>2, PTL DEF Spec

\* The state keeps its types, a subscriber's channel its size and the tape on
\* display its cap (stream.go:24 subscriberBuffer, stream.ts MAX_TRADES).
THEOREM TypeCorrect == Spec => []TypeOK
<1>1. Inv => TypeOK
  BY DEF Inv, VenuesOK, StreamOK, BrowserOK, BuffersOK, StoreOK, TypeOK
<1>2. QED
  BY <1>1, FeedHolds, PTL

\* Nothing of another instrument is on display (stream.ts:133).
THEOREM OneAtATime == Spec => []OneSymbol
<1>1. Inv => OneSymbol
  BY DEF Inv, BuffersOK, StoreOK, OneSymbol, ToSet
<1>2. QED
  BY <1>1, FeedHolds, PTL

\* A print the seed and the stream both carry is on the tape once (stream.ts:94).
THEOREM NoDoubles == Spec => []PrintsOnce
<1>1. Inv => PrintsOnce
  BY DEF Inv, StoreOK, PrintsOnce
<1>2. QED
  BY <1>1, FeedHolds, PTL

-----------------------------------------------------------------------------
(* The display follows the venue *)

\* What is not on the tape is among the unseen.
LEMMA UnseenHas ==
  ASSUME NEW tape, NEW X, NEW new \in Seq(X), NEW j \in DOMAIN new, new[j] \notin ToSet(tape)
  PROVE  new[j] \in ToSet(Unseen(tape, new))
<1> DEFINE n == Len(new)
<1>0. n \in Nat /\ DOMAIN new = 1..n /\ (\A k \in 1..n : new[k] \in X) /\ j \in 1..n
  OBVIOUS
<1>1. PICK u : Stages(u, tape, new) /\ Unseen(tape, new) = u[Len(new)]
  BY UnseenByStages
<1> DEFINE Good(s, k) == s \in Seq(X) /\ (j <= k => \E i \in 1..Len(s) : s[i] = new[j])
           F == {k \in 0..n : Good(u[k], k)}
<1> HIDE DEF n
<1>2. 0 \in F
  <2>1. <<>> \in Seq(X)
    OBVIOUS
  <2>2. u[0] = <<>> /\ 0 \in 0..n /\ ~ (j <= 0)
    BY <1>0, <1>1 DEF Stages
  <2>3. QED
    BY <2>1, <2>2
<1>3. ASSUME NEW k \in 1..n, k - 1 \in F
      PROVE  k \in F
  <2> DEFINE s == u[k - 1]
  <2>1. Good(s, k - 1) /\ k \in 0..n /\ k \in Nat /\ new[k] \in X
    BY <1>0, <1>3
  <2>2. u[k] = IF new[k] \in ToSet(tape) THEN s ELSE Append(s, new[k])
    BY <1>1 DEF Stages, n
  <2> HIDE DEF s
  <2>3. s \in Seq(X) /\ Len(s) \in Nat
    BY <2>1
  <2>4. CASE new[k] \in ToSet(tape)
    <3>1. j # k
      BY <2>4
    <3>2. j <= k => j <= k - 1
      BY <1>0, <2>1, <3>1
    <3>3. Good(s, k)
      BY <2>1, <3>2
    <3>4. QED
      BY <2>1, <2>2, <2>4, <3>3
  <2>5. CASE new[k] \notin ToSet(tape)
    <3> DEFINE t == Append(s, new[k])
    <3>1. /\ t \in Seq(X) /\ Len(t) = Len(s) + 1
          /\ \A i \in 1..Len(s) : t[i] = s[i]
          /\ t[Len(s) + 1] = new[k]
      BY <2>1, <2>3, AppendIs
    <3> HIDE DEF t
    <3>2. \E i \in 1..Len(t) : j <= k => t[i] = new[j]
      <4>1. CASE j = k
        BY <2>3, <3>1, <4>1
      <4>2. CASE j # k /\ j <= k
        <5>1. j <= k - 1
          BY <1>0, <2>1, <4>2
        <5>2. PICK i \in 1..Len(s) : s[i] = new[j]
          BY <2>1, <5>1
        <5>3. i \in 1..Len(t)
          BY <2>3, <3>1
        <5>4. QED
          BY <3>1, <5>2, <5>3
      <4>3. CASE ~ (j <= k)
        <5>1. 1 \in 1..Len(t)
          BY <2>3, <3>1
        <5>2. QED
          BY <4>3, <5>1
      <4>4. QED
        BY <4>1, <4>2, <4>3
    <3>3. Good(t, k)
      BY <3>1, <3>2
    <3>4. QED
      BY <2>1, <2>2, <2>5, <3>3 DEF t
  <2>6. QED
    BY <2>4, <2>5
<1> HIDE DEF F
<1>4. 0..n \subseteq F
  BY <1>0, <1>2, <1>3, UpTo
<1>5. n \in 0..n /\ j <= n
  BY <1>0
<1>6. Good(u[n], n)
  BY <1>4, <1>5 DEF F
<1>7. Unseen(tape, new) = u[n]
  BY <1>1 DEF n
<1> DEFINE w == Unseen(tape, new)
<1>8. Good(w, n)
  BY <1>6, <1>7
<1> HIDE DEF w
<1>9. DOMAIN w = 1..Len(w) /\ \E i \in 1..Len(w) : w[i] = new[j]
  BY <1>5, <1>8
<1>10. QED
  BY <1>9 DEF ToSet, w

\* The number of the last print of a tape.
newest(tape) == IF tape = <<>> THEN 0 ELSE Last(tape).n

\* The tape of a venue reaches as far as the venue had come.
LEMMA NewestIs ==
  ASSUME NEW s \in Symbols, NEW r \in Nat
  PROVE  newest(Latest(s, 0, r)) = r
<1> DEFINE x == Start(0, r)
           l == Latest(s, 0, r)
<1>0. MaxTrades \in Nat \ {0} /\ 0 \in Nat /\ 0 <= r
  BY FeedAssumption
<1>1. /\ x \in Nat /\ x <= r /\ l \in Seq(Trades) /\ Len(l) = r - x
      /\ \A i \in 1..(r - x) : l[i] = Trade(s, x + i)
  BY <1>0, StartIs, LatestIs
<1>2. r > 0 => x < r
  BY <1>0 DEF Start
<1> HIDE DEF x, l
<1>3. CASE r = 0
  <2>1. l = <<>>
    BY <1>1, <1>3
  <2>2. QED
    BY <1>3, <2>1 DEF newest, l
<1>4. CASE r > 0
  <2>1. l # <<>> /\ r - x \in 1..(r - x) /\ x + (r - x) = r
    BY <1>1, <1>2, <1>4
  <2>2. Last(l) = Trade(s, r)
    BY <1>1, <2>1 DEF Last
  <2>3. QED
    BY <2>1, <2>2 DEF newest, Trade, l
<1>5. QED
  BY <1>3, <1>4

\* The same prints, no fewer.
LEMMA SeededStays ==
  ASSUME NEW f \in Nat, Seeded(f), symbol' = symbol, store'.trades = store.trades,
         printed(symbol) \in Nat, printed(symbol)' \in Nat, printed(symbol) <= printed(symbol)'
  PROVE  Seeded(f)'
<1>1. PICK a \in Nat, b \in Nat : a = printed(symbol) /\ b = printed(symbol)' /\ a <= b
  OBVIOUS
<1>2. PICK r \in f..a : store.trades = Latest(symbol, 0, r)
  BY <1>1 DEF Seeded
<1>3. r \in f..b
  BY <1>1
<1>4. store'.trades = Latest(symbol', 0, r)
  BY <1>2
<1>5. QED
  BY <1>1, <1>3, <1>4 DEF Seeded, Latest, Prints, Trade

\* The same prints and the same seeds.
LEMMA WithSeedStays ==
  ASSUME NEW f \in Nat, WithSeed(f), symbol' = symbol, store'.trades = store.trades, Live' = Live,
         printed(symbol) \in Nat, printed(symbol)' \in Nat, printed(symbol) <= printed(symbol)'
  PROVE  WithSeed(f)'
<1>1. PICK a \in Nat, b \in Nat : a = printed(symbol) /\ b = printed(symbol)' /\ a <= b
  OBVIOUS
<1>2. PICK c \in 0..f :
        /\ store.trades = Latest(symbol, c, f)
        /\ \A q \in Live : q.trades # None => \E r \in c..a : q.trades = Latest(symbol, 0, r)
  BY <1>1 DEF WithSeed
<1>3. \A r \in c..a : r \in c..b
  BY <1>1
<1>4. store'.trades = Latest(symbol', c, f)
  BY <1>2
<1>5. \A q \in Live' : q.trades # None => \E r \in c..b : q.trades = Latest(symbol', 0, r)
  BY <1>2, <1>3
<1>6. QED
  BY <1>1, <1>4, <1>5 DEF WithSeed, Latest, Prints, Trade

\* A step that touches neither the buffers nor the store nor the live seed, and whose
\* prints are carried.
LEMMA FollowsStays ==
  ASSUME Follows, symbol' = symbol, store' = store, pending' = pending, Live' = Live,
         printed(symbol) \in Nat, printed(symbol)' \in Nat, printed(symbol) <= printed(symbol)',
         \A h \in 0..printed(symbol) :
           Carries(ch, h, printed(symbol)) => Carries(ch', h, printed(symbol)')
  PROVE  Follows'
<1>0. PICK h \in 0..printed(symbol) : \E f \in 0..h :
        /\ pending.trades = Prints(symbol, f, h)
        /\ Carries(ch, h, printed(symbol))
        /\ IF Live # {} THEN WithSeed(f) ELSE Seeded(f)
  BY DEF Follows
<1>1. PICK f \in 0..h :
        /\ pending.trades = Prints(symbol, f, h)
        /\ Carries(ch, h, printed(symbol))
        /\ IF Live # {} THEN WithSeed(f) ELSE Seeded(f)
  BY <1>0
<1>2. f \in Nat /\ h \in 0..(printed(symbol)') /\ Carries(ch', h, printed(symbol)')
  BY <1>1
<1>3. IF Live' # {} THEN WithSeed(f)' ELSE Seeded(f)'
  BY <1>1, <1>2, SeededStays, WithSeedStays
<1>4. pending'.trades = Prints(symbol', f, h)
  BY <1>1
<1>5. QED
  BY <1>2, <1>3, <1>4 DEF Follows, Prints, Trade

\* The same before the subscription.
LEMMA WaitsStays ==
  ASSUME Waits, symbol' = symbol, store' = store, pending' = pending, Live' = Live,
         printed(symbol) \in Nat, printed(symbol)' \in Nat, printed(symbol) <= printed(symbol)'
  PROVE  Waits'
<1>1. Live = {} => Seeded(0)'
  BY SeededStays DEF Waits
<1>2. QED
  BY <1>1 DEF Waits, NoEvents

\* What Faithful says of the state before a step that starts no effect over.
LEMMA FaithfulSays ==
  ASSUME Faithful, symbol # None, gaps = {}
  PROVE  /\ Linked => Follows
         /\ ~ Linked => Waits
         /\ status = "live" => link = "open"
BY DEF Faithful

\* The events of the venue on display are carried in turn.
LEMMA CarriesOn ==
  ASSUME NEW s \in Symbols, NEW e \in Seq(Events), StreamOK, Publish(s, e), Len(e) >= 1,
         wants(s), gaps' = {}, NEW a \in Nat, NEW b \in Nat,
         \A i \in 2..Len(e) : ~ IsPrint(e[i]),
         IF IsPrint(e[1]) THEN b = a + 1 /\ e[1].data.n = b ELSE b = a,
         NEW h \in 0..a, Carries(ch, h, a)
  PROVE  Carries(ch', h, b)
<1>1. /\ ch' \in Seq(Events) /\ Len(ch') = Len(ch) + Len(e)
      /\ \A i \in 1..Len(ch) : ch'[i] = ch[i]
      /\ \A i \in (Len(ch) + 1)..Len(ch') : ch'[i] = e[i - Len(ch)]
  BY PublishSends
<1>2. ch \in Seq(Events) /\ Len(ch) \in Nat /\ DOMAIN ch = 1..Len(ch) /\ DOMAIN ch' = 1..Len(ch')
      /\ Len(e) \in Nat
  BY <1>1 DEF StreamOK
<1>3. ch'[Len(ch) + 1] = e[1] /\ Len(ch) + 1 \in DOMAIN ch'
  <2>1. Len(ch) + 1 \in (Len(ch) + 1)..Len(ch') /\ (Len(ch) + 1) - Len(ch) = 1
    BY <1>1, <1>2
  <2>2. QED
    BY <1>1, <1>2, <2>1
<1>4. ASSUME NEW m \in (h + 1)..b
      PROVE  \E i \in DOMAIN ch' : IsPrint(ch'[i]) /\ ch'[i].data.n = m
  <2>1. CASE m \in (h + 1)..a
    <3>1. PICK i \in DOMAIN ch : IsPrint(ch[i]) /\ ch[i].data.n = m
      BY <2>1 DEF Carries
    <3>2. i \in DOMAIN ch' /\ ch'[i] = ch[i]
      BY <1>1, <1>2
    <3>3. QED
      BY <3>1, <3>2
  <2>2. CASE m \notin (h + 1)..a
    <3>1. IsPrint(e[1]) /\ m = b /\ e[1].data.n = b
      BY <2>2
    <3>2. QED
      BY <1>3, <3>1
  <2>3. QED
    BY <2>1, <2>2
<1>5. ASSUME NEW i \in DOMAIN ch', IsPrint(ch'[i])
      PROVE  ch'[i].data.n \in (h + 1)..b
  <2>1. CASE i \in 1..Len(ch)
    <3>1. ch'[i] = ch[i] /\ i \in DOMAIN ch
      BY <1>1, <1>2, <2>1
    <3>2. ch[i].data.n \in (h + 1)..a
      BY <1>5, <3>1 DEF Carries
    <3>3. a <= b
      OBVIOUS
    <3>4. QED
      BY <3>1, <3>2, <3>3
  <2>2. CASE i \in (Len(ch) + 1)..Len(ch')
    <3>1. ch'[i] = e[i - Len(ch)] /\ i - Len(ch) \in 1..Len(e)
      BY <1>1, <1>2, <2>2
    <3>2. i - Len(ch) = 1
      BY <1>2, <1>5, <3>1
    <3>3. IsPrint(e[1]) /\ ch'[i].data.n = b
      BY <1>5, <3>1, <3>2
    <3>4. h + 1 <= b /\ b <= b
      BY <3>3
    <3>5. QED
      BY <3>3, <3>4
  <2>3. QED
    BY <1>1, <1>2, <2>1, <2>2
<1>6. QED
  BY <1>4, <1>5 DEF Carries

\* A step of a venue.
LEMMA VenueFaithful ==
  ASSUME Inv, Faithful, NEW s \in Symbols, Venue(s)
  PROVE  Faithful'
<1>0. VenuesOK /\ StreamOK /\ BrowserOK /\ Next /\ None \notin Symbols
  BY FeedAssumption DEF Inv, Next
<1>1. \A t \in Symbols : printed(t) \in Nat /\ printed(t)' \in Nat /\ printed(t) <= printed(t)'
  BY <1>0, VenuesKeep
<1>2. /\ link' = link /\ status' = status /\ symbol' = symbol /\ store' = store /\ pending' = pending
      /\ seeds' = seeds /\ effect' = effect
  BY DEF Venue, Rest, Fill, Cancel, browser
<1>3. Live' = Live /\ (Linked' <=> Linked)
  BY <1>2 DEF Live, current, Linked
<1>4. SUFFICES ASSUME symbol # None, gaps' = {}
               PROVE  /\ Linked => Follows'
                      /\ ~ Linked => Waits'
                      /\ status = "live" => link = "open"
  BY <1>2, <1>3 DEF Faithful
<1>5. symbol \in Symbols
  BY <1>0, <1>4 DEF BrowserOK
<1>6. gaps = {}
  BY <1>4 DEF Venue, Rest, Fill, Cancel, Publish
<1>7. (Linked => Follows) /\ (~ Linked => Waits) /\ (status = "live" => link = "open")
  BY <1>4, <1>6, FaithfulSays
<1>8. ~ Linked => Waits'
  BY <1>1, <1>2, <1>3, <1>5, <1>7, WaitsStays
<1>9. ASSUME Linked
      PROVE  \A h \in 0..printed(symbol) :
               Carries(ch, h, printed(symbol)) => Carries(ch', h, printed(symbol)')
  <2>1. CASE Rest(s) /\ symbol = s
    <3>1. left[s] \in Nat /\ printed(s)' = printed(s) /\ printed(s) \in Nat
      BY <1>0, <1>1, <2>1 DEF Rest, VenuesOK, printed
    <3> DEFINE e == <<OrderEvent(s, left[s])>>
    <3>2. e \in Seq(Events) /\ Len(e) = 1 /\ ~ IsPrint(e[1])
      BY <3>1, EventsAre
    <3> HIDE DEF e
    <3>3. Publish(s, e)
      BY <2>1 DEF Rest, e
    <3>4. wants(s)
      BY <1>9, <2>1 DEF wants, Linked
    <3>5. PICK a \in Nat : a = printed(s) /\ a = printed(s)'
      BY <3>1
    <3>6. \A i \in 2..Len(e) : ~ IsPrint(e[i])
      BY <3>2
    <3>7. \A h \in 0..a : Carries(ch, h, a) => Carries(ch', h, a)
      BY <1>0, <1>4, <3>2, <3>3, <3>4, <3>6, CarriesOn
    <3>8. QED
      BY <2>1, <1>2, <3>5, <3>7
  <2>2. CASE Fill(s) /\ symbol = s
    <3>1. /\ left[s] - 1 \in Nat /\ printed(s) \in Nat /\ printed(s) + 1 \in Nat \ {0}
          /\ printed(s)' = printed(s) + 1
      BY <1>0, <2>2, FillIs
    <3> DEFINE e == <<TradeEvent(s, printed(s) + 1), OrderEvent(s, left[s] - 1)>>
    <3>2. /\ e \in Seq(Events) /\ Len(e) = 2 /\ IsPrint(e[1]) /\ ~ IsPrint(e[2])
          /\ e[1].data.n = printed(s) + 1
      BY <3>1, EventsAre
    <3> HIDE DEF e
    <3>3. Publish(s, e)
      BY <2>2 DEF Fill, e
    <3>4. wants(s)
      BY <1>9, <2>2 DEF wants, Linked
    <3>5. PICK a \in Nat, b \in Nat : a = printed(s) /\ b = printed(s)' /\ b = a + 1
      BY <3>1
    <3>6. /\ \A i \in 2..Len(e) : ~ IsPrint(e[i])
          /\ IF IsPrint(e[1]) THEN b = a + 1 /\ e[1].data.n = b ELSE b = a
          /\ Len(e) >= 1
      BY <3>2, <3>5
    <3>7. \A h \in 0..a : Carries(ch, h, a) => Carries(ch', h, b)
      BY <1>0, <1>4, <3>2, <3>3, <3>4, <3>6, CarriesOn
    <3>8. QED
      BY <2>2, <1>2, <3>5, <3>7
  <2>3. CASE Cancel(s) \/ symbol # s
    <3>1. ch' = ch
      BY <2>3 DEF Venue, Rest, Fill, Cancel, Publish, wants
    <3>2. printed(symbol)' = printed(symbol)
      <4>1. CASE Fill(s) /\ symbol # s
        <5>1. \A t \in Symbols : t # s => printed(t)' = printed(t)
          BY <1>0, <4>1, FillIs
        <5>2. QED
          BY <1>2, <1>5, <4>1, <5>1
      <4>2. CASE Rest(s) \/ Cancel(s)
        BY <1>2, <4>2 DEF Rest, Cancel, printed
      <4>3. QED
        BY <2>3, <4>1, <4>2 DEF Venue
    <3>3. QED
      BY <3>1, <3>2
  <2>4. QED
    BY <2>1, <2>2, <2>3 DEF Venue
<1>10. Linked => Follows'
  BY <1>1, <1>2, <1>3, <1>5, <1>7, <1>9, FollowsStays
<1>11. QED
  BY <1>7, <1>8, <1>10

\* A fresh effect starts with nothing but its seed to come.
LEMMA ConnectFaithful ==
  ASSUME Inv, NEW s \in Symbols, Connect(s)
  PROVE  Faithful'
<1>1. PICK n : n = [effect |-> effect + 1, symbol |-> s, trades |-> None, book |-> None]
  OBVIOUS
<1>2. /\ n \in seeds' /\ n.effect = effect' /\ link' = "dialling" /\ status' = "connecting"
      /\ pending' = NoEvents /\ store' = EMPTY_STATE
  BY <1>1 DEF Connect, Reset
<1>3. Live' # {}
  BY <1>2 DEF Live, current
<1>4. store'.trades = <<>>
  BY <1>2 DEF EMPTY_STATE
<1>5. ~ Linked' /\ Waits'
  BY <1>2, <1>3, <1>4 DEF Linked, Waits, NoEvents
<1>6. QED
  BY <1>2, <1>5 DEF Faithful

\* When the subscription begins, nothing has been made that the seed has not.
LEMMA SubscribeFaithful ==
  ASSUME Inv, Faithful, Subscribe
  PROVE  Faithful'
<1>0. /\ VenuesOK /\ StreamOK /\ BrowserOK /\ BuffersOK /\ StoreOK /\ SeedsOK /\ Next
      /\ None \notin Symbols
  BY FeedAssumption DEF Inv, Next
<1>1. /\ link = "dialling" /\ link' = "subscribed" /\ status' = status /\ symbol' = symbol
      /\ store' = store /\ pending' = pending /\ seeds' = seeds /\ effect' = effect /\ ch' = ch
      /\ stage' = stage /\ left' = left
      /\ gaps' = IF printed(symbol) > seedReaches THEN gaps \cup {"race"} ELSE gaps
  BY DEF Subscribe, browser, venues
<1>2. Live' = Live /\ Linked' /\ ~ Linked /\ printed(symbol)' = printed(symbol)
  BY <1>1 DEF Live, current, Linked, printed
<1>3. SUFFICES ASSUME symbol # None, gaps' = {}
               PROVE  Follows' /\ (status = "live" => link' = "open")
  BY <1>1, <1>2 DEF Faithful
<1>4. gaps = {} /\ ~ (printed(symbol) > seedReaches)
  BY <1>1, <1>3
<1>5. Waits /\ status # "live"
  BY <1>1, <1>2, <1>3, <1>4, FaithfulSays
<1>6. symbol \in Symbols
  BY <1>0, <1>3 DEF BrowserOK
<1>7. PICK n \in Nat : n = printed(symbol)
  BY <1>0, <1>6, VenuesKeep
<1>8. ch = <<>> /\ pending.trades = <<>>
  BY <1>0, <1>1, <1>5 DEF StreamOK, Waits, NoEvents
<1>9. pending.trades = Prints(symbol, n, n)
  BY <1>6, <1>8, NoPrintsAre
<1>10. Carries(ch', n, n)
  <2>1. DOMAIN <<>> = {} /\ (n + 1)..n = {}
    OBVIOUS
  <2>2. QED
    BY <1>1, <1>8, <2>1 DEF Carries
<1>11. IF Live # {} THEN WithSeed(n) ELSE Seeded(n)
  <2>1. CASE Live # {}
    <3>1. PICK q \in Live : TRUE
      BY <2>1
    <3>2. \A x \in Live : x = q
      BY <1>0 DEF Live, current, SeedsOK
    <3>3. Live = {x \in seeds : x.effect = effect} /\ Live = {q} /\ (CHOOSE x \in Live : TRUE) = q
      BY <3>1, <3>2 DEF Live, current
    <3>4. store.trades = <<>>
      BY <1>5, <2>1 DEF Waits
    <3>5. Latest(symbol, n, n) = <<>>
      <4>1. MaxTrades \in Nat \ {0}
        BY FeedAssumption
      <4>2. Latest(symbol, n, n) = Prints(symbol, n, n)
        BY <4>1 DEF Latest
      <4>3. QED
        BY <1>6, <4>2, NoPrintsAre
    <3>6. ASSUME q.trades # None
          PROVE  \E r \in n..n : q.trades = Latest(symbol, 0, r)
      <4>1. SeedOK(q) /\ q.effect = effect
        BY <1>0, <3>1 DEF SeedsOK, Live, current
      <4>2. PICK r \in 0..n : q.trades = Latest(symbol, 0, r)
        BY <1>7, <3>6, <4>1 DEF SeedOK
      <4>3. seedReaches = newest(q.trades)
        BY <3>3, <3>6 DEF seedReaches, newest
      <4>4. newest(q.trades) = r
        BY <1>6, <4>2, NewestIs
      <4>5. r = n
        BY <1>4, <1>7, <4>3, <4>4
      <4>6. QED
        BY <4>2, <4>5
    <3>7. n \in 0..n /\ \A x \in Live : x.trades # None => \E r \in n..printed(symbol) : x.trades = Latest(symbol, 0, r)
      BY <1>7, <3>2, <3>6
    <3>8. WithSeed(n)
      BY <3>4, <3>5, <3>7 DEF WithSeed
    <3>9. QED
      BY <2>1, <3>8
  <2>2. CASE Live = {}
    <3>1. PICK r \in 0..n : store.trades = Latest(symbol, 0, r)
      BY <1>5, <1>7, <2>2 DEF Waits, Seeded
    <3>2. {x \in seeds : x.effect = effect} = {}
      BY <2>2 DEF Live, current
    <3>3. seedReaches = newest(store.trades)
      BY <3>2 DEF seedReaches, newest
    <3>4. newest(store.trades) = r
      BY <1>6, <3>1, NewestIs
    <3>5. r = n
      BY <1>4, <1>7, <3>3, <3>4
    <3>6. r \in n..printed(symbol)
      BY <1>7, <3>5
    <3>7. QED
      BY <2>2, <3>1, <3>6 DEF Seeded
  <2>3. QED
    BY <2>1, <2>2
<1>12. IF Live' # {} THEN WithSeed(n)' ELSE Seeded(n)'
  BY <1>1, <1>2, <1>6, <1>7, <1>11, SeededStays, WithSeedStays
<1>13. n \in 0..(printed(symbol)') /\ n \in 0..n /\ n = printed(symbol)'
  BY <1>2, <1>7
<1>14. pending'.trades = Prints(symbol', n, n)
  BY <1>1, <1>9
<1>15. Follows'
  BY <1>10, <1>12, <1>13, <1>14 DEF Follows, Prints, Trade
<1>16. QED
  BY <1>5, <1>15

\* The connection opens, fails, or nothing happens.
LEMMA LinkFaithful ==
  ASSUME Inv, Faithful, Open \/ Cut \/ GiveUp \/ UNCHANGED vars
  PROVE  Faithful'
<1>1. CASE Cut \/ GiveUp
  BY <1>1 DEF Cut, GiveUp, Faithful
<1>2. CASE Open \/ UNCHANGED vars
  <2>0. VenuesOK /\ StreamOK /\ BrowserOK /\ [Next]_vars /\ None \notin Symbols
    BY <1>2, FeedAssumption DEF Inv, Next
  <2>1. /\ symbol' = symbol /\ store' = store /\ pending' = pending /\ seeds' = seeds
        /\ effect' = effect /\ ch' = ch /\ gaps' = gaps /\ left' = left
        /\ Open => link = "subscribed" /\ link' = "open"
        /\ ~ Open => link' = link /\ status' = status
    BY <1>2 DEF Open, vars, browser, venues
  <2>2. Live' = Live /\ printed(symbol)' = printed(symbol) /\ (Linked' <=> Linked)
    BY <2>1 DEF Live, current, printed, Linked
  <2>3. SUFFICES ASSUME symbol # None, gaps = {}
                 PROVE  /\ Linked => Follows'
                        /\ ~ Linked => Waits'
                        /\ status' = "live" => link' = "open"
    BY <2>1, <2>2 DEF Faithful
  <2>4. (Linked => Follows) /\ (~ Linked => Waits) /\ (status = "live" => link = "open")
    BY <2>3, FaithfulSays
  <2>5. printed(symbol) \in Nat
    BY <2>0, <2>3, VenuesKeep DEF BrowserOK
  <2>6. printed(symbol)' \in Nat /\ printed(symbol) <= printed(symbol)'
    BY <2>2, <2>5
  <2>7. Linked => Follows'
    BY <2>1, <2>2, <2>4, <2>5, <2>6, FollowsStays
  <2>8. ~ Linked => Waits'
    BY <2>1, <2>2, <2>4, <2>5, <2>6, WaitsStays
  <2>9. QED
    BY <2>1, <2>4, <2>7, <2>8
<1>3. QED
  BY <1>1, <1>2

\* The first print in the channel is the one after those that have come through.
LEMMA ForwardFaithful ==
  ASSUME Inv, Faithful, Forward
  PROVE  Faithful'
<1>0. /\ VenuesOK /\ StreamOK /\ BrowserOK /\ BuffersOK /\ InTurn /\ Next /\ None \notin Symbols
  BY FeedAssumption DEF Inv, Next
<1>1. /\ link = "open" /\ link' = link /\ status' = status /\ symbol' = symbol /\ store' = store
      /\ seeds' = seeds /\ effect' = effect /\ gaps' = gaps /\ left' = left
  BY DEF Forward, venues
<1>2. Live' = Live /\ Linked' /\ Linked /\ printed(symbol)' = printed(symbol)
  BY <1>1 DEF Live, current, Linked, printed
<1>3. SUFFICES ASSUME symbol # None, gaps = {}
               PROVE  Follows'
  BY <1>1, <1>2 DEF Faithful
<1>4. Follows
  BY <1>2, <1>3, FaithfulSays
<1>5. symbol \in Symbols
  BY <1>0, <1>3 DEF BrowserOK
<1>6. PICK n \in Nat : n = printed(symbol)
  BY <1>0, <1>5, VenuesKeep
<1>7. PICK h \in 0..n : \E f \in 0..h :
        /\ pending.trades = Prints(symbol, f, h)
        /\ Carries(ch, h, n)
        /\ IF Live # {} THEN WithSeed(f) ELSE Seeded(f)
  BY <1>4, <1>6 DEF Follows
<1>8. PICK f \in 0..h :
        /\ pending.trades = Prints(symbol, f, h)
        /\ Carries(ch, h, n)
        /\ IF Live # {} THEN WithSeed(f) ELSE Seeded(f)
  BY <1>7
<1>9. f \in Nat /\ h \in Nat /\ f <= h
  OBVIOUS
<1>10. IF Live' # {} THEN WithSeed(f)' ELSE Seeded(f)'
  BY <1>1, <1>2, <1>6, <1>8, <1>9, SeededStays, WithSeedStays
<1>11. /\ Len(ch) > 0 /\ Len(ch) \in Nat /\ ch[1] \in Events /\ ch[1].data.symbol = symbol
       /\ DOMAIN ch = 1..Len(ch)
       /\ DOMAIN ch' = 1..(Len(ch) - 1) /\ \A i \in 1..(Len(ch) - 1) : ch'[i] = ch[i + 1]
  BY <1>0, ForwardIs DEF StreamOK
<1>12. \A i \in DOMAIN ch : i = 1 \/ (i - 1 \in DOMAIN ch' /\ ch'[i - 1] = ch[i])
  BY <1>11
<1>13. CASE ~ IsPrint(ch[1])
  <2>1. pending'.trades = pending.trades
    BY <1>0, <1>13, ForwardIs
  <2>2. Carries(ch', h, n)
    <3>1. ASSUME NEW m \in (h + 1)..n
          PROVE  \E i \in DOMAIN ch' : IsPrint(ch'[i]) /\ ch'[i].data.n = m
      <4>1. PICK i \in DOMAIN ch : IsPrint(ch[i]) /\ ch[i].data.n = m
        BY <1>8 DEF Carries
      <4>2. i # 1
        BY <1>13, <4>1
      <4>3. QED
        BY <1>12, <4>1, <4>2
    <3>2. \A i \in DOMAIN ch' : i + 1 \in DOMAIN ch /\ ch'[i] = ch[i + 1]
      BY <1>11
    <3>3. QED
      BY <1>8, <3>1, <3>2 DEF Carries
  <2>3. pending'.trades = Prints(symbol', f, h)
    BY <1>1, <1>8, <2>1
  <2>4. QED
    BY <1>2, <1>6, <1>10, <2>2, <2>3 DEF Follows, Prints, Trade
<1>14. CASE IsPrint(ch[1])
  <2>1. ch[1].data \in Trades /\ pending'.trades = Append(pending.trades, ch[1].data)
    BY <1>0, <1>14, ForwardIs
  <2>2. Ascending(pending.trades, ch, n)
    BY <1>0, <1>3, <1>6 DEF InTurn
  <2>3. 1 \in DOMAIN ch
    BY <1>11
  <2>4. ch[1].data.n \in (h + 1)..n
    BY <1>8, <1>14, <2>3 DEF Carries
  <2>5. ch[1].data.n = h + 1
    <3>1. h + 1 \in (h + 1)..n
      BY <1>6, <1>9, <2>4
    <3>2. PICK i \in DOMAIN ch : IsPrint(ch[i]) /\ ch[i].data.n = h + 1
      BY <1>8, <3>1 DEF Carries
    <3>3. CASE i = 1
      BY <3>2, <3>3
    <3>4. CASE i # 1
      <4>1. 1 < i
        BY <1>11, <3>4
      <4>2. ch[1].data.n < h + 1
        BY <1>14, <2>2, <2>3, <3>2, <4>1 DEF Ascending
      <4>3. QED
        BY <1>9, <2>4, <4>2
    <3>5. QED
      BY <3>3, <3>4
  <2>6. ch[1].data = Trade(symbol, h + 1)
    <3>1. ch[1].data = [symbol |-> ch[1].data.symbol, n |-> ch[1].data.n]
      BY <2>1 DEF Trades
    <3>2. QED
      BY <1>11, <2>5, <3>1 DEF Trade
  <2>7. pending'.trades = Prints(symbol, f, h + 1)
    BY <1>5, <1>8, <1>9, <2>1, <2>6, OnePrintMore
  <2>8. Carries(ch', h + 1, n)
    <3>1. ASSUME NEW m \in ((h + 1) + 1)..n
          PROVE  \E i \in DOMAIN ch' : IsPrint(ch'[i]) /\ ch'[i].data.n = m
      <4>1. m \in (h + 1)..n /\ m # h + 1
        BY <1>9
      <4>2. PICK i \in DOMAIN ch : IsPrint(ch[i]) /\ ch[i].data.n = m
        BY <1>8, <4>1 DEF Carries
      <4>3. i # 1
        BY <2>5, <4>1, <4>2
      <4>4. QED
        BY <1>12, <4>2, <4>3
    <3>2. ASSUME NEW i \in DOMAIN ch', IsPrint(ch'[i])
          PROVE  ch'[i].data.n \in ((h + 1) + 1)..n
      <4>1. i + 1 \in DOMAIN ch /\ ch'[i] = ch[i + 1] /\ 1 < i + 1
        BY <1>11
      <4>2. ch'[i].data.n \in (h + 1)..n
        BY <1>8, <3>2, <4>1 DEF Carries
      <4>3. h + 1 < ch'[i].data.n
        BY <1>14, <2>2, <2>3, <2>5, <3>2, <4>1 DEF Ascending
      <4>4. QED
        BY <1>9, <4>2, <4>3
    <3>3. QED
      BY <3>1, <3>2 DEF Carries
  <2>9. h + 1 \in 0..n /\ f \in 0..(h + 1)
    BY <1>6, <1>9, <2>4
  <2>10. pending'.trades = Prints(symbol', f, h + 1)
    BY <1>1, <2>7
  <2>11. QED
    BY <1>2, <1>6, <1>10, <2>8, <2>9, <2>10 DEF Follows, Prints, Trade
<1>15. QED
  BY <1>13, <1>14

\* A seed is read, arrives, fails, or is of an earlier effect.
LEMMA SeedFaithful ==
  ASSUME Inv, Faithful, NEW q \in seeds, Seed(q)
  PROVE  Faithful'
<1>0. /\ VenuesOK /\ StreamOK /\ BrowserOK /\ StoreOK /\ SeedsOK /\ Next /\ None \notin Symbols
  BY FeedAssumption DEF Inv, Next
<1>1. /\ link' = link /\ status' = status /\ symbol' = symbol /\ pending' = pending
      /\ effect' = effect /\ ch' = ch /\ left' = left
  BY DEF Seed, SeedRead, SeedArrives, SeedFails, venues
<1>2. (Linked' <=> Linked) /\ printed(symbol)' = printed(symbol)
  BY <1>1 DEF Linked, printed
<1>3. SUFFICES ASSUME symbol # None, gaps' = {}
               PROVE  (Linked => Follows') /\ (~ Linked => Waits') /\ (status = "live" => link = "open")
  BY <1>1, <1>2 DEF Faithful
<1>4. gaps = {}
  BY <1>3 DEF Seed, SeedRead, SeedArrives, SeedFails
<1>5. (Linked => Follows) /\ (~ Linked => Waits) /\ (status = "live" => link = "open")
  BY <1>3, <1>4, FaithfulSays
<1>6. symbol \in Symbols
  BY <1>0, <1>3 DEF BrowserOK
<1>7. PICK n \in Nat : n = printed(symbol)
  BY <1>0, <1>6, VenuesKeep
<1>8. SeedOK(q)
  BY <1>0 DEF SeedsOK
<1>9. CASE Live' = Live /\ store' = store
  <2>1. (Linked => Follows') /\ (~ Linked => Waits')
    BY <1>1, <1>2, <1>5, <1>7, <1>9, FollowsStays, WaitsStays
  <2>2. QED
    BY <1>5, <2>1
<1>10. CASE (SeedArrives(q) \/ SeedFails(q)) /\ ~ current(q)
  <2>1. seeds' = seeds \ {q} /\ store' = store
    BY <1>10 DEF SeedArrives, SeedFails
  <2>2. Live' = Live
    BY <1>1, <1>10, <2>1 DEF Live, current
  <2>3. QED
    BY <1>9, <2>1, <2>2
<1>11. CASE SeedFails(q) /\ current(q)
  BY <1>3, <1>11 DEF SeedFails
<1>12. CASE SeedArrives(q) /\ current(q)
  <2>1. /\ q.trades # None /\ q.effect = effect /\ store'.trades = q.trades /\ seeds' = seeds \ {q}
        /\ ToSet(store.trades) \subseteq ToSet(q.trades)
    BY <1>3, <1>12 DEF SeedArrives, current
  <2>2. q \in Live /\ Live' = {}
    BY <1>0, <1>1, <2>1 DEF Live, current, SeedsOK
  <2>3. CASE Linked
    <3>1. PICK h \in 0..n : \E f \in 0..h :
            /\ pending.trades = Prints(symbol, f, h) /\ Carries(ch, h, n) /\ WithSeed(f)
      BY <1>5, <1>7, <2>2, <2>3 DEF Follows
    <3>2. PICK f \in 0..h :
            /\ pending.trades = Prints(symbol, f, h) /\ Carries(ch, h, n) /\ WithSeed(f)
      BY <3>1
    <3>3. PICK c \in 0..f :
            /\ store.trades = Latest(symbol, c, f)
            /\ \A x \in Live : x.trades # None => \E r \in c..n : x.trades = Latest(symbol, 0, r)
      BY <1>7, <3>2 DEF WithSeed
    <3>4. PICK r \in c..n : q.trades = Latest(symbol, 0, r)
      BY <2>1, <2>2, <3>3
    <3>5. c \in Nat /\ f \in Nat /\ r \in Nat /\ c <= f /\ 0 \in Nat /\ 0 <= r /\ c <= r /\ h \in Nat /\ f <= h
      OBVIOUS
    <3>6. f <= r
      <4>1. CASE f = c
        BY <3>5, <4>1
      <4>2. CASE f # c
        <5>1. MaxTrades \in Nat \ {0}
          BY FeedAssumption
        <5>2. f \in (Start(c, f) + 1)..f
          BY <3>5, <4>2, <5>1 DEF Start
        <5>3. Trade(symbol, f) \in ToSet(Latest(symbol, c, f))
          BY <1>6, <3>5, <5>2, LatestHas
        <5>4. Trade(symbol, f) \in ToSet(Latest(symbol, 0, r))
          BY <2>1, <3>3, <3>4, <5>3
        <5>5. PICK m \in (Start(0, r) + 1)..r : Trade(symbol, f) = Trade(symbol, m)
          BY <1>6, <3>5, <5>4, LatestHas
        <5>6. f = m
          BY <5>5 DEF Trade
        <5>7. Start(0, r) \in Nat
          BY <3>5, StartIs
        <5>8. QED
          BY <3>5, <5>5, <5>6, <5>7
      <4>3. QED
        BY <4>1, <4>2
    <3>7. r \in f..n /\ store'.trades = Latest(symbol', 0, r)
      BY <1>1, <2>1, <3>4, <3>5, <3>6
    <3>8. Seeded(f)'
      BY <1>2, <1>7, <3>7 DEF Seeded, Latest, Prints, Trade
    <3>9. pending'.trades = Prints(symbol', f, h) /\ Carries(ch', h, n)
      BY <1>1, <3>2
    <3>10. Follows'
      BY <1>2, <1>7, <2>2, <3>8, <3>9 DEF Follows, Prints, Trade
    <3>11. QED
      BY <1>5, <2>3, <3>10
  <2>4. CASE ~ Linked
    <3>1. PICK r \in 0..n : q.trades = Latest(symbol, 0, r)
      BY <1>7, <1>8, <2>1 DEF SeedOK
    <3>2. store'.trades = Latest(symbol', 0, r)
      BY <1>1, <2>1, <3>1
    <3>3. Seeded(0)'
      BY <1>2, <1>7, <3>2 DEF Seeded, Latest, Prints, Trade
    <3>4. pending' = NoEvents
      BY <1>1, <1>5, <2>4 DEF Waits
    <3>5. Waits'
      BY <2>2, <3>3, <3>4 DEF Waits, NoEvents
    <3>6. QED
      BY <1>5, <2>4, <3>5
  <2>5. QED
    BY <2>3, <2>4
<1>13. CASE SeedRead(q)
  <2>1. PICK x : /\ seeds' = (seeds \ {q}) \cup {x}
                 /\ x = [q EXCEPT !.trades = GetTrades(q.symbol), !.book = Snapshot(q.symbol)]
                 /\ store' = store
    BY <1>13 DEF SeedRead
  <2>2. q = [effect |-> q.effect, symbol |-> q.symbol, trades |-> q.trades, book |-> q.book]
    BY <1>8 DEF SeedOK
  <2>3. x = [effect |-> q.effect, symbol |-> q.symbol, trades |-> GetTrades(q.symbol), book |-> Snapshot(q.symbol)]
    BY <2>1, <2>2, AnsweredIs
  <2>4. x.effect = q.effect /\ x.trades = GetTrades(q.symbol)
    BY <2>3
  <2>5. CASE q.effect # effect
    <3>1. Live' = Live
      BY <1>1, <2>1, <2>4, <2>5 DEF Live, current
    <3>2. QED
      BY <1>9, <2>1, <3>1
  <2>6. CASE q.effect = effect
    <3>1. q \in Live /\ x \in Live' /\ \A y \in Live' : y = x
      BY <1>0, <1>1, <2>1, <2>4, <2>6 DEF Live, current, SeedsOK
    <3>2. x.trades = Latest(symbol, 0, n)
      BY <1>6, <1>7, <1>8, <2>4, <2>6, TapeIsLatest DEF SeedOK
    <3>3. CASE Linked
      <4>1. PICK h \in 0..n : \E f \in 0..h :
              /\ pending.trades = Prints(symbol, f, h) /\ Carries(ch, h, n) /\ WithSeed(f)
        BY <1>5, <1>7, <3>1, <3>3 DEF Follows
      <4>2. PICK f \in 0..h :
              /\ pending.trades = Prints(symbol, f, h) /\ Carries(ch, h, n) /\ WithSeed(f)
        BY <4>1
      <4>3. PICK c \in 0..f : store.trades = Latest(symbol, c, f)
        BY <4>2 DEF WithSeed
      <4>4. n \in c..n /\ store'.trades = Latest(symbol', c, f)
        BY <1>1, <2>1, <4>3
      <4>5. \A y \in Live' : y.trades # None => \E r \in c..n : y.trades = Latest(symbol', 0, r)
        BY <1>1, <3>1, <3>2, <4>4
      <4>6. WithSeed(f)'
        BY <1>2, <1>7, <4>4, <4>5 DEF WithSeed
      <4>7. pending'.trades = Prints(symbol', f, h) /\ Carries(ch', h, n)
        BY <1>1, <4>2
      <4>8. Follows'
        BY <1>2, <1>7, <3>1, <4>6, <4>7 DEF Follows, Prints, Trade
      <4>9. QED
        BY <1>5, <3>3, <4>8
    <3>4. CASE ~ Linked
      <4>1. pending' = NoEvents /\ store'.trades = <<>>
        BY <1>1, <1>5, <2>1, <3>1, <3>4 DEF Waits
      <4>2. Waits'
        BY <3>1, <4>1 DEF Waits, NoEvents
      <4>3. QED
        BY <1>5, <3>4, <4>2
    <3>5. QED
      BY <3>3, <3>4
  <2>7. QED
    BY <2>5, <2>6
<1>14. QED
  BY <1>10, <1>11, <1>12, <1>13 DEF Seed

\* What a flush makes of a store that a seed has still to overwrite.
LEMMA FlushesUnseeded ==
  ASSUME NEW s \in Symbols, NEW c \in Nat, NEW f \in Nat, NEW h \in Nat, c <= f, f <= h
  PROVE  Extended(Latest(s, c, f), Prints(s, f, h)) = Latest(s, c, h)
<1> DEFINE t == Latest(s, c, f)
<1>1. \A m \in (f + 1)..h : Trade(s, m) \notin ToSet(t)
  <2>1. ASSUME NEW m \in (f + 1)..h, Trade(s, m) \in ToSet(t)
        PROVE  FALSE
    <3>1. PICK k \in (Start(c, f) + 1)..f : Trade(s, m) = Trade(s, k)
      BY <2>1, LatestHas
    <3>2. Start(c, f) \in Nat
      BY StartIs
    <3>3. m = k
      BY <3>1 DEF Trade
    <3>4. QED
      BY <3>1, <3>2, <3>3
  <2>2. QED
    BY <2>1
<1> HIDE DEF t
<1>2. \A m \in (f + 1)..f : Trade(s, m) \in ToSet(t)
  OBVIOUS
<1>3. Unseen(t, Prints(s, f, h)) = Prints(s, f, h)
  BY <1>1, <1>2, UnseenPrints
<1>4. Capped(t \o Prints(s, f, h)) = Latest(s, c, h)
  BY CappedLatest DEF t
<1>5. QED
  BY <1>3, <1>4 DEF Extended, t

\* What a flush makes of a tape of the venue, when it is no whole tape ahead.
LEMMA FlushesSeeded ==
  ASSUME NEW s \in Symbols, NEW f \in Nat, NEW h \in Nat, NEW r \in Nat, f <= h, f <= r,
         NEW t, t = Latest(s, 0, r), NEW p, p = Prints(s, f, h),
         ~ \E x \in ToSet(Unseen(t, p)), u \in ToSet(t) : x.n < u.n
  PROVE  Extended(t, p) = Latest(s, 0, IF r <= h THEN h ELSE r)
<1> DEFINE x == Start(0, r)
           m == IF r <= h THEN r ELSE h
<1>0. MaxTrades \in Nat \ {0} /\ 0 \in Nat /\ 0 <= r
  BY FeedAssumption
<1>1. x \in Nat /\ x <= r /\ ToSet(t) = {Trade(s, k) : k \in (x + 1)..r}
  BY <1>0, StartIs, LatestHas
<1>2. r > 0 => x < r
  BY <1>0 DEF Start
<1> HIDE DEF x
<1>3. m \in Nat /\ f <= m /\ m <= h /\ m <= r
  OBVIOUS
<1>4. f = h \/ x <= f
  <2>1. SUFFICES ASSUME f < h, f < x
                 PROVE  FALSE
    BY <1>1
  <2>2. /\ p \in Seq(Trades) /\ DOMAIN p = 1..(h - f)
        /\ \A i \in 1..(h - f) : p[i] = Trade(s, f + i)
    BY PrintsAre
  <2>3. 1 \in 1..(h - f)
    BY <2>1
  <2>4. p[1] = Trade(s, f + 1) /\ 1 \in DOMAIN p
    BY <2>2, <2>3
  <2>5. p[1] \notin ToSet(t)
    <3>1. \A k \in (x + 1)..r : k # f + 1
      BY <1>1, <2>1
    <3>2. QED
      BY <1>1, <2>4, <3>1 DEF Trade
  <2>6. p[1] \in ToSet(Unseen(t, p))
    BY <2>2, <2>4, <2>5, UnseenHas
  <2>7. Trade(s, r) \in ToSet(t)
    <3>1. r \in (x + 1)..r
      BY <1>1, <1>2, <2>1
    <3>2. QED
      BY <1>1, <3>1
  <2>8. p[1].n < Trade(s, r).n
    <3>1. f + 1 < r
      BY <1>1, <1>2, <2>1
    <3>2. p[1].n = f + 1 /\ Trade(s, r).n = r
      BY <2>4 DEF Trade
    <3>3. QED
      BY <3>1, <3>2
  <2>9. QED
    BY <2>6, <2>7, <2>8
<1>5. \A k \in (f + 1)..m : Trade(s, k) \in ToSet(t)
  <2>1. ASSUME NEW k \in (f + 1)..m
        PROVE  k \in (x + 1)..r
    BY <1>1, <1>3, <1>4
  <2>2. QED
    BY <1>1, <2>1
<1>6. \A k \in (m + 1)..h : Trade(s, k) \notin ToSet(t)
  <2>1. ASSUME NEW k \in (m + 1)..h, NEW j \in (x + 1)..r
        PROVE  Trade(s, k) # Trade(s, j)
    <3>1. k > r
      OBVIOUS
    <3>2. k # j
      BY <1>1, <3>1
    <3>3. QED
      BY <3>2 DEF Trade
  <2>2. QED
    BY <1>1, <2>1
<1> HIDE DEF m
<1>7. Unseen(t, p) = Prints(s, m, h)
  BY <1>3, <1>5, <1>6, UnseenPrints
<1>8. Extended(t, p) = Capped(t \o Prints(s, m, h))
  BY <1>7 DEF Extended
<1>9. CASE r <= h
  <2>1. m = r
    BY <1>9 DEF m
  <2>2. Capped(Latest(s, 0, r) \o Prints(s, r, h)) = Latest(s, 0, h)
    BY <1>0, <1>9, CappedLatest
  <2>3. QED
    BY <1>8, <1>9, <2>1, <2>2
<1>10. CASE ~ (r <= h)
  <2>1. Prints(s, m, h) = Prints(s, r, r)
    <3>1. m = h
      BY <1>10 DEF m
    <3>2. Prints(s, h, h) = <<>> /\ Prints(s, r, r) = <<>>
      BY NoPrintsAre
    <3>3. QED
      BY <3>1, <3>2
  <2>2. Capped(Latest(s, 0, r) \o Prints(s, r, r)) = Latest(s, 0, r)
    BY <1>0, CappedLatest
  <2>3. QED
    BY <1>8, <1>10, <2>1, <2>2
<1>11. QED
  BY <1>9, <1>10

\* The buffers go into the store: its tape then reaches what has come through.
LEMMA FlushFaithful ==
  ASSUME Inv, Faithful, Flush
  PROVE  Faithful'
<1>0. VenuesOK /\ StreamOK /\ BrowserOK /\ BuffersOK /\ Next /\ None \notin Symbols
  BY FeedAssumption DEF Inv, Next
<1>1. /\ link' = link /\ status' = status /\ symbol' = symbol /\ seeds' = seeds /\ effect' = effect
      /\ ch' = ch /\ left' = left /\ pending # NoEvents
      /\ pending'.trades = <<>> /\ store'.trades = Extended(store.trades, pending.trades)
      /\ gaps' = IF Overtaken THEN gaps \cup {"race"} ELSE gaps
  BY DEF Flush, venues, NoEvents
<1>2. Live' = Live /\ (Linked' <=> Linked) /\ printed(symbol)' = printed(symbol)
  BY <1>1 DEF Live, current, Linked, printed
<1>3. SUFFICES ASSUME symbol # None, gaps' = {}
               PROVE  Linked /\ Follows' /\ (status = "live" => link = "open")
  BY <1>1, <1>2 DEF Faithful
<1>4. gaps = {} /\ ~ Overtaken
  BY <1>1, <1>3
<1>5. Linked /\ Follows /\ (status = "live" => link = "open")
  BY <1>1, <1>3, <1>4, FaithfulSays DEF Waits
<1>6. symbol \in Symbols
  BY <1>0, <1>3 DEF BrowserOK
<1>7. PICK n \in Nat : n = printed(symbol)
  BY <1>0, <1>6, VenuesKeep
<1>8. PICK h \in 0..n : \E f \in 0..h :
        /\ pending.trades = Prints(symbol, f, h)
        /\ Carries(ch, h, n)
        /\ IF Live # {} THEN WithSeed(f) ELSE Seeded(f)
  BY <1>5, <1>7 DEF Follows
<1>9. PICK f \in 0..h :
        /\ pending.trades = Prints(symbol, f, h)
        /\ Carries(ch, h, n)
        /\ IF Live # {} THEN WithSeed(f) ELSE Seeded(f)
  BY <1>8
<1>10. f \in Nat /\ h \in Nat /\ f <= h
  OBVIOUS
<1>11. pending'.trades = Prints(symbol', h, h) /\ Carries(ch', h, n)
  BY <1>1, <1>6, <1>9, <1>10, NoPrintsAre
<1>12. CASE Live # {}
  <2>1. PICK c \in 0..f :
          /\ store.trades = Latest(symbol, c, f)
          /\ \A q \in Live : q.trades # None => \E r \in c..n : q.trades = Latest(symbol, 0, r)
    BY <1>7, <1>9, <1>12 DEF WithSeed
  <2>2. c \in Nat /\ c <= f /\ c \in 0..h
    OBVIOUS
  <2>3. store'.trades = Latest(symbol', c, h)
    BY <1>1, <1>6, <1>9, <1>10, <2>1, <2>2, FlushesUnseeded
  <2>4. \A q \in Live' : q.trades # None => \E r \in c..n : q.trades = Latest(symbol', 0, r)
    BY <1>1, <1>2, <2>1
  <2>5. WithSeed(h)'
    BY <1>2, <1>7, <2>2, <2>3, <2>4 DEF WithSeed
  <2>6. Follows'
    BY <1>2, <1>7, <1>10, <1>11, <1>12, <2>5 DEF Follows
  <2>7. QED
    BY <1>5, <2>6
<1>13. CASE Live = {}
  <2>1. PICK r \in f..n : store.trades = Latest(symbol, 0, r)
    BY <1>7, <1>9, <1>13 DEF Seeded
  <2>2. r \in Nat /\ f <= r
    BY <1>10
  <2> DEFINE t == store.trades
             p == pending.trades
             g == IF r <= h THEN h ELSE r
  <2>3. ~ \E x \in ToSet(Unseen(t, p)), u \in ToSet(t) : x.n < u.n
    BY <1>4 DEF Overtaken
  <2>4. t = Latest(symbol, 0, r) /\ p = Prints(symbol, f, h)
    BY <1>9, <2>1
  <2> HIDE DEF t, p
  <2>5. Extended(t, p) = Latest(symbol, 0, g)
    BY <1>6, <1>10, <2>2, <2>3, <2>4, FlushesSeeded
  <2>6. g \in h..n
    BY <1>7, <1>10, <2>2
  <2> HIDE DEF g
  <2>7. store'.trades = Latest(symbol', 0, g)
    BY <1>1, <2>5 DEF t, p
  <2>8. Seeded(h)'
    BY <1>2, <1>7, <2>6, <2>7 DEF Seeded
  <2>9. Follows'
    BY <1>2, <1>7, <1>10, <1>11, <1>13, <2>8 DEF Follows
  <2>10. QED
    BY <1>5, <2>9
<1>14. QED
  BY <1>12, <1>13

\* Every step keeps it.
LEMMA NextFaithful ==
  ASSUME Inv, Faithful, [Next]_vars
  PROVE  Faithful'
<1>1. CASE \E s \in Symbols : Venue(s)
  BY <1>1, VenueFaithful
<1>2. CASE \E s \in Symbols : Connect(s)
  BY <1>2, ConnectFaithful
<1>3. CASE \E q \in seeds : Seed(q)
  BY <1>3, SeedFaithful
<1>4. CASE Subscribe
  BY <1>4, SubscribeFaithful
<1>5. CASE Forward
  BY <1>5, ForwardFaithful
<1>6. CASE Flush
  BY <1>6, FlushFaithful
<1>7. CASE Open \/ Cut \/ GiveUp \/ UNCHANGED vars
  BY <1>7, LinkFaithful
<1>8. QED
  BY <1>1, <1>2, <1>3, <1>4, <1>5, <1>6, <1>7 DEF Next

\* As long as nothing has cost the browser a print, what it shows, what it buffers
\* and what is on its way are the venue's prints, one after the other.
THEOREM FeedFollows == Spec => []Faithful
<1>1. Init => Faithful
  BY DEF Init, Faithful
<1>2. Inv /\ Faithful /\ [Next]_vars => Faithful'
  BY NextFaithful
<1>3. QED
  BY <1>1, <1>2, FeedHolds, PTL DEF Spec

\* When everything sent is on display and none of the causes gaps records has
\* occurred, the tape on display is the venue's: stream.ts:94 and README.md:602.
THEOREM GapsHaveCauses == Spec => []GapsAreKnown
<1>1. ASSUME Inv, Faithful, Quiet, gaps = {}
      PROVE  TapeComplete
  <2>1. symbol \in Symbols
    BY <1>1 DEF Inv, BrowserOK, Quiet
  <2>2. PICK n \in Nat : n = printed(symbol)
    <3>1. Size[symbol] \in Nat /\ left[symbol] \in 0..Size[symbol]
      BY <1>1, <2>1, FeedAssumption DEF Inv, VenuesOK
    <3>2. QED
      BY <3>1 DEF printed
  <2>3. Live = {} /\ ch = <<>> /\ pending.trades = <<>>
    BY <1>1 DEF Quiet, Live, NoEvents
  <2>4. symbol # None
    BY <2>1, FeedAssumption
  <2>5. Follows
    BY <1>1, <2>4 DEF Faithful, Linked, Quiet
  <2>6. PICK h \in 0..n : \E f \in 0..h :
          pending.trades = Prints(symbol, f, h) /\ Carries(ch, h, n) /\ Seeded(f)
    BY <2>2, <2>3, <2>5 DEF Follows
  <2>7. PICK f \in 0..h : pending.trades = Prints(symbol, f, h) /\ Carries(ch, h, n) /\ Seeded(f)
    BY <2>6
  <2>8. f = h
    <3>1. f \in Nat /\ h \in Nat /\ f <= h
      OBVIOUS
    <3>2. Len(Prints(symbol, f, h)) = h - f
      BY <2>1, <3>1, PrintsAre
    <3>3. Len(<<>>) = 0
      OBVIOUS
    <3>4. QED
      BY <2>3, <2>7, <3>1, <3>2, <3>3
  <2>9. h = n
    <3>1. \A m \in (h + 1)..n : FALSE
      BY <2>3, <2>7 DEF Carries
    <3>2. h < n => n \in (h + 1)..n
      OBVIOUS
    <3>3. QED
      BY <3>1, <3>2
  <2>10. PICK r \in n..n : store.trades = Latest(symbol, 0, r)
    BY <2>2, <2>7, <2>8, <2>9 DEF Seeded
  <2>11. store.trades = GetTrades(symbol)
    BY <2>1, <2>2, <2>10, TapeIsLatest
  <2>12. QED
    BY <2>4, <2>11 DEF TapeComplete
<1>2. Inv /\ Faithful => GapsAreKnown
  BY <1>1 DEF GapsAreKnown
<1>3. QED
  BY <1>2, FeedHolds, FeedFollows, PTL

=============================================================================
