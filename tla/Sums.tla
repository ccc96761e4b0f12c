-------------------------------- MODULE Sums --------------------------------
(***************************************************************************)
(* What SumFunctionOnSet computes on finite sets, and the least and the    *)
(* greatest of a finite set of integers.                                   *)
(*                                                                         *)
(* The fold is a recursive function on the subsets of its argument.  That  *)
(* there is such a function, and only one, is proved by the smallest       *)
(* counterexample: a nonempty family of finite sets has a member with no   *)
(* other inside it.                                                        *)
(***************************************************************************)
EXTENDS Integers, SequencesExt, FiniteSetTheorems, SequenceTheorems, WellFoundedInduction, TLAPS

-----------------------------------------------------------------------------
(* Induction *)

\* A nonempty family of subsets of a finite set has one with no other inside it.
LEMMA Smallest ==
  ASSUME NEW S, IsFiniteSet(S), NEW F, F \subseteq SUBSET S, F # {}
  PROVE  \E T \in F : \A U \in F : U \subseteq T => U = T
<1>1. IsWellFoundedOn(StrictSubsetOrdering(S), FiniteSubsetsOf(S))
  BY FS_StrictSubsetOrderingWellFounded
<1>2. FiniteSubsetsOf(S) = SUBSET S
  BY FS_FiniteSubsetsOfFinite
<1>3. PICK T \in F : \A U \in F : <<U, T>> \notin StrictSubsetOrdering(S)
  BY <1>1, <1>2, WFMin
<1>4. QED
  BY <1>3 DEF StrictSubsetOrdering

\* A family of subsets that has every one whose smaller ones it has is all of them.
LEMMA SubsetInduction ==
  ASSUME NEW S, IsFiniteSet(S), NEW F,
         \A T \in SUBSET S : (\A U \in SUBSET T : U # T => U \in F) => T \in F
  PROVE  SUBSET S \subseteq F
<1> DEFINE G == (SUBSET S) \ F
<1>1. SUFFICES ASSUME G # {}
               PROVE  FALSE
  OBVIOUS
<1>2. G \subseteq SUBSET S
  OBVIOUS
<1> HIDE DEF G
<1>3. PICK T \in G : \A U \in G : U \subseteq T => U = T
  BY <1>1, <1>2, Smallest
<1>4. QED
  BY <1>3 DEF G

\* A nonempty set of positions has a last one.
LEMMA LastPosition ==
  ASSUME NEW n \in Nat, NEW s \in SUBSET (1..n), s # {}
  PROVE  Max(s) \in s /\ \A i \in s : i <= Max(s)
<1> DEFINE S == 1..n
           F == {T \in SUBSET S : s \subseteq T /\ \E k \in 0..n : T = 1..k}
<1>1. IsFiniteSet(S) /\ F \subseteq SUBSET S
  BY FS_Interval
<1>2. F # {}
  <2>1. S \in F
    OBVIOUS
  <2>2. QED
    BY <2>1
<1> HIDE DEF S, F
<1>3. PICK T \in F : \A U \in F : U \subseteq T => U = T
  BY <1>1, <1>2, Smallest
<1>4. PICK k \in 0..n : T = 1..k
  BY <1>3 DEF F
<1> USE DEF S
<1>5. s \subseteq 1..k /\ k > 0
  <2>1. s \subseteq 1..k
    BY <1>3, <1>4 DEF F
  <2>2. PICK i \in s : i \in 1..k
    BY <2>1
  <2>3. QED
    BY <1>4, <2>1, <2>2
<1>6. k \in s
  <2>1. SUFFICES ASSUME k \notin s
                 PROVE  FALSE
    OBVIOUS
  <2>2. s \subseteq 1..(k - 1) /\ k - 1 \in 0..n
    BY <1>5, <2>1
  <2>3. 1..(k - 1) \in F /\ 1..(k - 1) \subseteq T
    BY <1>4, <2>2 DEF F
  <2>4. 1..(k - 1) = T
    BY <1>3, <2>3
  <2>5. k \in 1..k /\ k \notin 1..(k - 1)
    BY <1>5
  <2>6. QED
    BY <1>4, <2>4, <2>5
<1>7. \E x \in s : \A y \in s : x >= y
  BY <1>5, <1>6
<1>8. QED
  BY <1>7 DEF Max

\* The last of the first k positions is k.
LEMMA LastOfInterval ==
  ASSUME NEW k \in Nat \ {0}
  PROVE  Max(1..k) = k /\ (1..k) \ {Max(1..k)} = 1..(k - 1)
<1>1. 1..k \in SUBSET (1..k) /\ 1..k # {} /\ k \in 1..k
  OBVIOUS
<1>2. Max(1..k) \in 1..k /\ \A i \in 1..k : i <= Max(1..k)
  BY <1>1, LastPosition
<1>3. Max(1..k) = k
  BY <1>1, <1>2
<1>4. QED
  BY <1>3

\* What holds of 0 and of each k after k - 1 holds up to n.
LEMMA UpTo ==
  ASSUME NEW n \in Nat, NEW F, 0 \in F, \A k \in 1..n : k - 1 \in F => k \in F
  PROVE  0..n \subseteq F
<1> DEFINE G == {k \in 0..n : k \notin F}
<1>1. SUFFICES ASSUME G # {}
               PROVE  FALSE
  OBVIOUS
<1>2. G \subseteq Nat
  OBVIOUS
<1>3. IsWellFoundedOn(OpToRel(<, Nat), Nat)
  BY NatLessThanWellFounded
<1> HIDE DEF G
<1>4. PICK k \in G : \A i \in G : <<i, k>> \notin OpToRel(<, Nat)
  BY <1>1, <1>2, <1>3, WFMin
<1>5. k \in G /\ \A i \in G : ~ (i < k)
  BY <1>2, <1>4 DEF OpToRel
<1>6. k \in 1..n
  BY <1>5 DEF G
<1>7. k - 1 \in 0..n /\ k - 1 < k /\ k \notin F
  BY <1>5, <1>6 DEF G
<1>8. k - 1 \notin F
  BY <1>6, <1>7
<1>9. k - 1 \in G
  BY <1>7, <1>8 DEF G
<1>10. QED
  BY <1>5, <1>7, <1>9

\* A member added at the end.
LEMMA AppendIs ==
  ASSUME NEW X, NEW s \in Seq(X), NEW x \in X
  PROVE  /\ Append(s, x) \in Seq(X) /\ Len(Append(s, x)) = Len(s) + 1
         /\ DOMAIN Append(s, x) = 1..(Len(s) + 1)
         /\ \A i \in 1..Len(s) : Append(s, x)[i] = s[i]
         /\ Append(s, x)[Len(s) + 1] = x
  BY AppendProperties

-----------------------------------------------------------------------------
(* The recursion *)

Chosen(s) == CHOOSE x \in s : TRUE

\* What the fold's iteration makes of a subset s, given its values on smaller ones.
Unfolded(g, f, s) == IF s = {} THEN 0 ELSE f[Chosen(s)] + g[s \ {Chosen(s)}]

\* g adds f on every subset of S.
SumsUp(g, f, S) == g = [s \in SUBSET S |-> Unfolded(g, f, s)]

\* SumFunctionOnSet is the value, on the whole set, of a function that adds.
LEMMA SumUnfolds ==
  ASSUME NEW f, NEW S
  PROVE  SumFunctionOnSet(f, S) = (CHOOSE g : SumsUp(g, f, S))[S]
  BY DEF SumFunctionOnSet, FoldFunctionOnSet, MapThenFoldSet, SumsUp, Unfolded, Chosen

\* The element the fold takes out is one of the set.
LEMMA ChosenIsMember == ASSUME NEW s, s # {} PROVE Chosen(s) \in s
  BY DEF Chosen

\* Two functions that add agree where both are defined.
LEMMA SumsAgree ==
  ASSUME NEW f, NEW S, IsFiniteSet(S), NEW T, NEW g, NEW h, SumsUp(g, f, S), SumsUp(h, f, T),
         S \subseteq T
  PROVE  \A U \in SUBSET S : g[U] = h[U]
<1> DEFINE F == {U \in SUBSET S : g[U] = h[U]}
<1>1. ASSUME NEW U \in SUBSET S, \A V \in SUBSET U : V # U => V \in F
      PROVE  U \in F
  <2>1. g[U] = Unfolded(g, f, U) /\ h[U] = Unfolded(h, f, U)
    BY DEF SumsUp
  <2>2. Unfolded(g, f, U) = Unfolded(h, f, U)
    BY <1>1, ChosenIsMember DEF Unfolded
  <2>3. QED
    BY <2>1, <2>2
<1> HIDE DEF F
<1>2. SUBSET S \subseteq F
  BY <1>1, SubsetInduction
<1>3. QED
  BY <1>2 DEF F

\* There is such a function: glued together from those of the smaller subsets.
LEMMA SumExists ==
  ASSUME NEW f, NEW S, IsFiniteSet(S)
  PROVE  \E g : SumsUp(g, f, S)
<1> DEFINE F == {U \in SUBSET S : \E g : SumsUp(g, f, U)}
<1>1. ASSUME NEW U \in SUBSET S, \A V \in SUBSET U : V # U => V \in F
      PROVE  U \in F
  <2> DEFINE part(V) == CHOOSE g : SumsUp(g, f, V)
             low(V)  == part(V)[V]
             g == [V \in SUBSET U |-> IF V # U THEN low(V)
                                      ELSE IF U = {} THEN 0
                                      ELSE f[Chosen(U)] + low(U \ {Chosen(U)})]
  <2>1. \A V \in SUBSET U : V # U => SumsUp(part(V), f, V)
    BY <1>1
  <2>2. ASSUME NEW V \in SUBSET U, V # U
        PROVE  low(V) = Unfolded(g, f, V)
    <3>1. low(V) = Unfolded(part(V), f, V)
      BY <2>1, <2>2 DEF SumsUp
    <3>2. CASE V = {}
      BY <3>1, <3>2 DEF Unfolded
    <3>3. CASE V # {}
      <4> DEFINE W == V \ {Chosen(V)}
      <4>1. W \in SUBSET V /\ W # V /\ W \in SUBSET U /\ W # U
        BY <2>2, <3>3, ChosenIsMember
      <4>2. SumsUp(part(W), f, W) /\ SumsUp(part(V), f, V)
        BY <2>1, <2>2, <4>1
      <4>3. IsFiniteSet(W)
        BY <4>1, FS_Subset
      <4> HIDE DEF W, part
      <4>4. part(W)[W] = part(V)[W]
        BY <4>1, <4>2, <4>3, SumsAgree
      <4>5. g[W] = low(W)
        BY <4>1
      <4>6. QED
        BY <3>1, <3>3, <4>4, <4>5 DEF Unfolded, W
    <3>4. QED
      BY <3>2, <3>3
  <2>3. g[U] = Unfolded(g, f, U)
    <3>1. CASE U = {}
      BY <3>1 DEF Unfolded
    <3>2. CASE U # {}
      <4>1. U \ {Chosen(U)} \in SUBSET U /\ U \ {Chosen(U)} # U
        BY <3>2, ChosenIsMember
      <4> HIDE DEF low
      <4>2. g[U \ {Chosen(U)}] = low(U \ {Chosen(U)})
        BY <4>1
      <4>3. g[U] = f[Chosen(U)] + low(U \ {Chosen(U)})
        BY <3>2
      <4> HIDE DEF g
      <4>4. QED
        BY <3>2, <4>2, <4>3 DEF Unfolded
    <3>3. QED
      BY <3>1, <3>2
  <2>4. \A V \in SUBSET U : g[V] = Unfolded(g, f, V)
    <3> HIDE DEF low
    <3>1. \A V \in SUBSET U : V # U => g[V] = low(V)
      OBVIOUS
    <3> HIDE DEF g
    <3>2. QED
      BY <2>2, <2>3, <3>1
  <2>5. g = [V \in SUBSET U |-> g[V]]
    OBVIOUS
  <2> HIDE DEF g
  <2>6. g = [V \in SUBSET U |-> Unfolded(g, f, V)]
    BY <2>4, <2>5
  <2>7. QED
    BY <2>6 DEF SumsUp
<1> HIDE DEF F
<1>2. SUBSET S \subseteq F
  BY <1>1, SubsetInduction
<1>3. QED
  BY <1>2 DEF F

\* Any function that adds over a larger set gives the sum.
LEMMA SumIs ==
  ASSUME NEW f, NEW T, IsFiniteSet(T), NEW g, SumsUp(g, f, T), NEW S \in SUBSET T
  PROVE  SumFunctionOnSet(f, S) = g[S]
<1> DEFINE h == CHOOSE h : SumsUp(h, f, S)
<1>1. IsFiniteSet(S)
  BY FS_Subset
<1>2. SumsUp(h, f, S)
  BY <1>1, SumExists
<1>3. SumFunctionOnSet(f, S) = h[S]
  BY SumUnfolds
<1> HIDE DEF h
<1>4. S \subseteq T /\ S \in SUBSET S
  OBVIOUS
<1>5. h[S] = g[S]
  BY <1>1, <1>2, <1>4, SumsAgree
<1>6. QED
  BY <1>3, <1>5

-----------------------------------------------------------------------------
(* Sums *)

\* The fold's own equation.
LEMMA SumSteps ==
  ASSUME NEW f, NEW S, IsFiniteSet(S)
  PROVE  /\ SumFunctionOnSet(f, {}) = 0
         /\ S # {} => SumFunctionOnSet(f, S) =
                        f[Chosen(S)] + SumFunctionOnSet(f, S \ {Chosen(S)})
<1>1. PICK g : SumsUp(g, f, S)
  BY SumExists
<1>2. \A U \in SUBSET S : SumFunctionOnSet(f, U) = g[U] /\ g[U] = Unfolded(g, f, U)
  <2>1. \A U \in SUBSET S : SumFunctionOnSet(f, U) = g[U]
    BY <1>1, SumIs
  <2>2. QED
    BY <1>1, <2>1 DEF SumsUp
<1>3. QED
  BY <1>2 DEF Unfolded

\* A sum of integers is one.
LEMMA SumType ==
  ASSUME NEW f, NEW S, IsFiniteSet(S), \A x \in S : f[x] \in Int
  PROVE  SumFunctionOnSet(f, S) \in Int
<1> DEFINE F == {U \in SUBSET S : SumFunctionOnSet(f, U) \in Int}
<1>1. ASSUME NEW U \in SUBSET S, \A V \in SUBSET U : V # U => V \in F
      PROVE  U \in F
  <2>1. IsFiniteSet(U)
    BY FS_Subset
  <2>2. CASE U = {}
    BY <2>1, <2>2, SumSteps
  <2>3. CASE U # {}
    <3>1. Chosen(U) \in U /\ U \ {Chosen(U)} \in F /\ f[Chosen(U)] \in Int
      BY <1>1, <2>3, ChosenIsMember
    <3>2. SumFunctionOnSet(f, U) = f[Chosen(U)] + SumFunctionOnSet(f, U \ {Chosen(U)})
      BY <2>1, <2>3, SumSteps
    <3>3. QED
      BY <3>1, <3>2
  <2>4. QED
    BY <2>2, <2>3
<1> HIDE DEF F
<1>2. SUBSET S \subseteq F
  BY <1>1, SubsetInduction
<1>3. QED
  BY <1>2 DEF F

\* The order of the terms does not matter: any of them may be taken out.
THEOREM SumTakesOut ==
  ASSUME NEW f, NEW S, IsFiniteSet(S), \A x \in S : f[x] \in Int, NEW x \in S
  PROVE  SumFunctionOnSet(f, S) = f[x] + SumFunctionOnSet(f, S \ {x})
<1> DEFINE Sum(U) == SumFunctionOnSet(f, U)
           F == {U \in SUBSET S : \A y \in U : Sum(U) = f[y] + Sum(U \ {y})}
<1>0. \A U \in SUBSET S : IsFiniteSet(U) /\ Sum(U) \in Int
  <2>1. \A U \in SUBSET S : IsFiniteSet(U)
    BY FS_Subset
  <2>2. QED
    BY <2>1, SumType
<1>1. ASSUME NEW U \in SUBSET S, \A V \in SUBSET U : V # U => V \in F
      PROVE  U \in F
  <2>1. ASSUME NEW y \in U
        PROVE  Sum(U) = f[y] + Sum(U \ {y})
    <3> DEFINE c == Chosen(U)
    <3>1. c \in U /\ Sum(U) = f[c] + Sum(U \ {c})
      BY <1>0, ChosenIsMember, SumSteps
    <3>2. CASE y = c
      BY <3>1, <3>2
    <3>3. CASE y # c
      <4> HIDE DEF c
      <4>1. U \ {c} \in F /\ U \ {y} \in F
        BY <1>1, <3>1
      <4> HIDE DEF Sum
      <4>2. Sum(U \ {c}) = f[y] + Sum((U \ {c}) \ {y})
        BY <3>3, <4>1
      <4>3. Sum(U \ {y}) = f[c] + Sum((U \ {y}) \ {c})
        BY <3>1, <3>3, <4>1
      <4>4. (U \ {c}) \ {y} = (U \ {y}) \ {c}
        OBVIOUS
      <4>5. /\ f[c] \in Int /\ f[y] \in Int /\ Sum((U \ {y}) \ {c}) \in Int
        BY <1>0, <3>1
      <4>6. PICK z \in Int : z = Sum((U \ {y}) \ {c})
        BY <4>5
      <4>7. Sum(U) = f[c] + (f[y] + z) /\ Sum(U \ {y}) = f[c] + z
        BY <3>1, <4>2, <4>3, <4>4, <4>6
      <4>8. f[c] + (f[y] + z) = f[y] + (f[c] + z)
        BY <4>5
      <4>9. QED
        BY <4>7, <4>8
    <3>4. QED
      BY <3>2, <3>3
  <2>2. QED
    BY <2>1
<1> HIDE DEF F
<1>2. SUBSET S \subseteq F
  BY <1>1, SubsetInduction
<1>3. QED
  BY <1>2 DEF F

\* A sum looks at no more than the terms it adds.
THEOREM SumLooksAt ==
  ASSUME NEW f, NEW g, NEW S, IsFiniteSet(S), \A x \in S : f[x] = g[x]
  PROVE  SumFunctionOnSet(f, S) = SumFunctionOnSet(g, S)
<1> DEFINE F == {U \in SUBSET S : SumFunctionOnSet(f, U) = SumFunctionOnSet(g, U)}
<1>1. ASSUME NEW U \in SUBSET S, \A V \in SUBSET U : V # U => V \in F
      PROVE  U \in F
  <2>1. IsFiniteSet(U)
    BY FS_Subset
  <2>2. CASE U = {}
    BY <2>1, <2>2, SumSteps
  <2>3. CASE U # {}
    <3>1. Chosen(U) \in U /\ U \ {Chosen(U)} \in F /\ f[Chosen(U)] = g[Chosen(U)]
      BY <1>1, <2>3, ChosenIsMember
    <3>2. QED
      BY <2>1, <2>3, <3>1, SumSteps
  <2>4. QED
    BY <2>2, <2>3
<1> HIDE DEF F
<1>2. SUBSET S \subseteq F
  BY <1>1, SubsetInduction
<1>3. QED
  BY <1>2 DEF F

\* One term more.
LEMMA SumAdds ==
  ASSUME NEW f, NEW S, IsFiniteSet(S), NEW x, x \notin S, \A y \in S \cup {x} : f[y] \in Int
  PROVE  SumFunctionOnSet(f, S \cup {x}) = SumFunctionOnSet(f, S) + f[x]
<1> DEFINE T == S \cup {x}
<1>1. IsFiniteSet(T) /\ T \ {x} = S /\ x \in T
  BY FS_AddElement
<1>2. SumFunctionOnSet(f, S) \in Int /\ f[x] \in Int
  BY SumType
<1>3. \A y \in T : f[y] \in Int
  OBVIOUS
<1> HIDE DEF T
<1>4. SumFunctionOnSet(f, T) = f[x] + SumFunctionOnSet(f, T \ {x})
  BY <1>1, <1>3, SumTakesOut
<1>5. SumFunctionOnSet(f, T) = f[x] + SumFunctionOnSet(f, S)
  BY <1>1, <1>4
<1>6. SumFunctionOnSet(f, T) = SumFunctionOnSet(f, S) + f[x]
  BY <1>2, <1>5
<1>7. QED
  BY <1>6 DEF T

\* One term changed.
LEMMA SumChanges ==
  ASSUME NEW f, NEW g, NEW S, IsFiniteSet(S), NEW x \in S,
         \A y \in S : f[y] \in Int /\ g[y] \in Int, \A y \in S \ {x} : f[y] = g[y]
  PROVE  SumFunctionOnSet(g, S) = SumFunctionOnSet(f, S) + g[x] - f[x]
<1> DEFINE T == S \ {x}
<1>1. IsFiniteSet(T)
  BY FS_RemoveElement
<1>2. /\ SumFunctionOnSet(g, S) = g[x] + SumFunctionOnSet(g, T)
      /\ SumFunctionOnSet(f, S) = f[x] + SumFunctionOnSet(f, T)
  BY SumTakesOut
<1> HIDE DEF T
<1>3. SumFunctionOnSet(f, T) = SumFunctionOnSet(g, T)
  BY <1>1, SumLooksAt DEF T
<1>4. SumFunctionOnSet(f, T) \in Int /\ f[x] \in Int /\ g[x] \in Int
  BY <1>1, SumType DEF T
<1>5. QED
  BY <1>2, <1>3, <1>4

\* A sum of naturals is one, and no less than any of them.
LEMMA SumOfNats ==
  ASSUME NEW f, NEW S, IsFiniteSet(S), \A x \in S : f[x] \in Nat
  PROVE  /\ SumFunctionOnSet(f, S) \in Nat
         /\ \A x \in S : f[x] <= SumFunctionOnSet(f, S)
<1> DEFINE F == {U \in SUBSET S : SumFunctionOnSet(f, U) \in Nat}
<1>1. ASSUME NEW U \in SUBSET S, \A V \in SUBSET U : V # U => V \in F
      PROVE  U \in F
  <2>1. IsFiniteSet(U)
    BY FS_Subset
  <2>2. CASE U = {}
    <3>1. SumFunctionOnSet(f, U) = 0
      BY <2>1, <2>2, SumSteps
    <3>2. QED
      BY <3>1
  <2>3. CASE U # {}
    <3>1. Chosen(U) \in U /\ U \ {Chosen(U)} \in F /\ f[Chosen(U)] \in Nat
      BY <1>1, <2>3, ChosenIsMember
    <3>2. SumFunctionOnSet(f, U) = f[Chosen(U)] + SumFunctionOnSet(f, U \ {Chosen(U)})
      BY <2>1, <2>3, SumSteps
    <3>3. SumFunctionOnSet(f, U \ {Chosen(U)}) \in Nat
      BY <3>1
    <3>4. QED
      BY <3>1, <3>2, <3>3
  <2>4. QED
    BY <2>2, <2>3
<1> HIDE DEF F
<1>2. SUBSET S \subseteq F
  BY <1>1, SubsetInduction
<1>3. \A U \in SUBSET S : SumFunctionOnSet(f, U) \in Nat
  BY <1>2 DEF F
<1>4. ASSUME NEW x \in S
      PROVE  f[x] <= SumFunctionOnSet(f, S)
  <2>1. SumFunctionOnSet(f, S) = f[x] + SumFunctionOnSet(f, S \ {x})
    BY SumTakesOut
  <2>2. SumFunctionOnSet(f, S \ {x}) \in Nat
    BY <1>3
  <2>3. QED
    BY <2>1, <2>2
<1>5. QED
  BY <1>3, <1>4

\* A part of a sum of naturals is no more than the sum.
LEMMA SumOfPart ==
  ASSUME NEW f, NEW S, IsFiniteSet(S), \A x \in S : f[x] \in Nat, NEW T \in SUBSET S
  PROVE  SumFunctionOnSet(f, T) <= SumFunctionOnSet(f, S)
<1> DEFINE Sum(U) == SumFunctionOnSet(f, U)
           F == {U \in SUBSET S : \A V \in SUBSET U : Sum(V) <= Sum(U)}
<1>0. \A U \in SUBSET S : IsFiniteSet(U) /\ Sum(U) \in Nat
  <2>1. \A U \in SUBSET S : IsFiniteSet(U)
    BY FS_Subset
  <2>2. QED
    BY <2>1, SumOfNats
<1>1. ASSUME NEW U \in SUBSET S, \A V \in SUBSET U : V # U => V \in F
      PROVE  U \in F
  <2>1. ASSUME NEW V \in SUBSET U
        PROVE  Sum(V) <= Sum(U)
    <3>1. CASE V = U
      <4>1. Sum(U) \in Nat
        BY <1>0
      <4> HIDE DEF Sum
      <4>2. QED
        BY <3>1, <4>1
    <3>2. CASE V # U
      <4>1. PICK x \in U : x \notin V
        BY <3>2
      <4>2. V \subseteq U \ {x} /\ U \ {x} \in SUBSET U /\ U \ {x} # U
        BY <4>1
      <4>3. U \ {x} \in F
        BY <1>1, <4>2
      <4>4. Sum(V) <= Sum(U \ {x})
        <5> HIDE DEF Sum
        <5>1. QED
          BY <4>2, <4>3
      <4>5. Sum(U) = f[x] + Sum(U \ {x})
        <5>1. IsFiniteSet(U) /\ \A y \in U : f[y] \in Int
          BY <1>0
        <5>2. QED
          BY <5>1, SumTakesOut
      <4>6. Sum(V) \in Nat /\ Sum(U \ {x}) \in Nat /\ f[x] \in Nat
        BY <1>0, <4>2
      <4> HIDE DEF Sum
      <4>7. QED
        BY <4>4, <4>5, <4>6
    <3>3. QED
      BY <3>1, <3>2
  <2>2. QED
    BY <2>1
<1> HIDE DEF F
<1>2. SUBSET S \subseteq F
  BY <1>1, SubsetInduction
<1>3. S \in F
  BY <1>2
<1>4. QED
  BY <1>3 DEF F

\* Nothing but zeros adds up to nothing.
LEMMA SumOfZeros ==
  ASSUME NEW f, NEW S, IsFiniteSet(S), \A x \in S : f[x] = 0
  PROVE  SumFunctionOnSet(f, S) = 0
<1> DEFINE F == {U \in SUBSET S : SumFunctionOnSet(f, U) = 0}
<1>1. ASSUME NEW U \in SUBSET S, \A V \in SUBSET U : V # U => V \in F
      PROVE  U \in F
  <2>1. IsFiniteSet(U)
    BY FS_Subset
  <2>2. CASE U = {}
    BY <2>1, <2>2, SumSteps
  <2>3. CASE U # {}
    <3>1. Chosen(U) \in U /\ U \ {Chosen(U)} \in F /\ f[Chosen(U)] = 0
      BY <1>1, <2>3, ChosenIsMember
    <3>2. QED
      BY <2>1, <2>3, <3>1, SumSteps
  <2>4. QED
    BY <2>2, <2>3
<1> HIDE DEF F
<1>2. SUBSET S \subseteq F
  BY <1>1, SubsetInduction
<1>3. QED
  BY <1>2 DEF F

\* Terms that are zero may be left out.
LEMMA SumSkipsZeros ==
  ASSUME NEW f, NEW S, IsFiniteSet(S), \A x \in S : f[x] \in Int,
         NEW T \in SUBSET S, \A x \in S \ T : f[x] = 0
  PROVE  SumFunctionOnSet(f, S) = SumFunctionOnSet(f, T)
<1> DEFINE R == S \ T
           Sum(U) == SumFunctionOnSet(f, U)
           F == {U \in SUBSET R : Sum(T \cup U) = Sum(T)}
<1>0. IsFiniteSet(R) /\ T \cup R = S
  BY FS_Subset
<1>1. ASSUME NEW U \in SUBSET R, \A V \in SUBSET U : V # U => V \in F
      PROVE  U \in F
  <2>1. CASE U = {}
    BY <2>1
  <2>2. CASE U # {}
    <3>1. PICK x \in U : TRUE
      BY <2>2
    <3>2. U \ {x} \in F
      BY <1>1, <3>1
    <3>3. IsFiniteSet(T \cup U) /\ x \in T \cup U /\ (T \cup U) \ {x} = T \cup (U \ {x})
      BY <3>1, FS_Subset
    <3>4. \A y \in T \cup U : f[y] \in Int
      OBVIOUS
    <3>5. Sum(T \cup U) = f[x] + Sum(T \cup (U \ {x}))
      BY <3>3, <3>4, SumTakesOut
    <3>6. f[x] = 0 /\ Sum(T \cup (U \ {x})) = Sum(T)
      BY <3>1, <3>2
    <3>7. IsFiniteSet(T) /\ Sum(T) \in Int
      <4>1. IsFiniteSet(T)
        BY FS_Subset
      <4>2. QED
        BY <4>1, SumType
    <3> HIDE DEF Sum
    <3>8. Sum(T \cup U) = Sum(T)
      BY <3>3, <3>5, <3>6, <3>7
    <3>9. QED
      BY <3>8
  <2>3. QED
    BY <2>1, <2>2
<1> HIDE DEF F, R
<1>2. SUBSET R \subseteq F
  BY <1>0, <1>1, SubsetInduction
<1>3. R \in F
  BY <1>2
<1>4. QED
  BY <1>0, <1>3 DEF F

-----------------------------------------------------------------------------
(* Any fold *)

\* g goes through the parts of S, from the one with the member that c chooses less.
Recurs(g, f, c, base, S) ==
  g = [s \in SUBSET S |-> IF s = {} THEN base ELSE f[<<g[s \ {c[s]}], c[s]>>]]

\* c chooses a member of each part.
Chooses(c, S) == \A s \in SUBSET S : s # {} => c[s] \in s

\* Two such functions agree where both are defined.
LEMMA RecursAgree ==
  ASSUME NEW S, IsFiniteSet(S), NEW T, S \subseteq T, NEW c, Chooses(c, S),
         NEW f, NEW base, NEW g, NEW h, Recurs(g, f, c, base, S), Recurs(h, f, c, base, T)
  PROVE  \A U \in SUBSET S : g[U] = h[U]
<1> DEFINE F == {U \in SUBSET S : g[U] = h[U]}
<1>1. ASSUME NEW U \in SUBSET S, \A V \in SUBSET U : V # U => V \in F
      PROVE  U \in F
  <2>1. U # {} => c[U] \in U
    BY DEF Chooses
  <2>2. g[U] = IF U = {} THEN base ELSE f[<<g[U \ {c[U]}], c[U]>>]
    BY DEF Recurs
  <2>3. h[U] = IF U = {} THEN base ELSE f[<<h[U \ {c[U]}], c[U]>>]
    BY DEF Recurs
  <2>4. QED
    BY <1>1, <2>1, <2>2, <2>3
<1> HIDE DEF F
<1>2. SUBSET S \subseteq F
  BY <1>1, SubsetInduction
<1>3. QED
  BY <1>2 DEF F

\* There is one: glued together from those of smaller parts.
LEMMA RecursExists ==
  ASSUME NEW S, IsFiniteSet(S), NEW c, Chooses(c, S), NEW f, NEW base
  PROVE  \E g : Recurs(g, f, c, base, S)
<1> DEFINE F == {U \in SUBSET S : \E g : Recurs(g, f, c, base, U)}
<1>0. \A s \in SUBSET S : s # {} => c[s] \in s
  BY DEF Chooses
<1>1. ASSUME NEW U \in SUBSET S, \A V \in SUBSET U : V # U => V \in F
      PROVE  U \in F
  <2> DEFINE part(V) == CHOOSE g : Recurs(g, f, c, base, V)
             low(V)  == part(V)[V]
             top     == IF U = {} THEN base ELSE f[<<low(U \ {c[U]}), c[U]>>]
             g == [V \in SUBSET U |-> IF V # U THEN low(V) ELSE top]
  <2>1. \A V \in SUBSET U : V # U => Recurs(part(V), f, c, base, V)
    BY <1>1
  <2>2. ASSUME NEW V \in SUBSET U, V # U
        PROVE  low(V) = IF V = {} THEN base ELSE f[<<g[V \ {c[V]}], c[V]>>]
    <3>1. low(V) = IF V = {} THEN base ELSE f[<<part(V)[V \ {c[V]}], c[V]>>]
      <4>1. Recurs(part(V), f, c, base, V)
        BY <2>1, <2>2
      <4> HIDE DEF part
      <4>2. QED
        BY <4>1 DEF Recurs
    <3>2. CASE V = {}
      BY <3>1, <3>2
    <3>3. CASE V # {}
      <4> DEFINE W == V \ {c[V]}
      <4>1. W \in SUBSET V /\ W # V /\ W \in SUBSET U /\ W # U
        BY <1>0, <2>2, <3>3
      <4>2. Recurs(part(W), f, c, base, W) /\ Recurs(part(V), f, c, base, V)
        BY <2>1, <2>2, <4>1
      <4>3. IsFiniteSet(W) /\ Chooses(c, W) /\ W \in SUBSET W /\ W \subseteq V
        BY <4>1, FS_Subset DEF Chooses
      <4> HIDE DEF W, part
      <4>4. \A X \in SUBSET W : part(W)[X] = part(V)[X]
        <5>1. \A p, q : Recurs(p, f, c, base, W) /\ Recurs(q, f, c, base, V) => \A X \in SUBSET W : p[X] = q[X]
          BY <4>3, RecursAgree
        <5>2. QED
          BY <4>2, <5>1
      <4>5. g[W] = low(W)
        BY <4>1
      <4>6. QED
        BY <3>1, <3>3, <4>3, <4>4, <4>5 DEF W
    <3>4. QED
      BY <3>2, <3>3
  <2>3. g[U] = IF U = {} THEN base ELSE f[<<g[U \ {c[U]}], c[U]>>]
    <3>1. CASE U = {}
      BY <3>1
    <3>2. CASE U # {}
      <4>1. U \ {c[U]} \in SUBSET U /\ U \ {c[U]} # U
        BY <1>0, <3>2
      <4> HIDE DEF low
      <4>2. g[U \ {c[U]}] = low(U \ {c[U]})
        BY <4>1
      <4>3. g[U] = f[<<low(U \ {c[U]}), c[U]>>]
        BY <3>2
      <4> HIDE DEF g
      <4>4. QED
        BY <3>2, <4>2, <4>3
    <3>3. QED
      BY <3>1, <3>2
  <2>4. \A V \in SUBSET U : g[V] = IF V = {} THEN base ELSE f[<<g[V \ {c[V]}], c[V]>>]
    <3> HIDE DEF low
    <3>1. \A V \in SUBSET U : V # U => g[V] = low(V)
      OBVIOUS
    <3> HIDE DEF g
    <3>2. QED
      BY <2>2, <2>3, <3>1
  <2>5. g = [V \in SUBSET U |-> g[V]]
    OBVIOUS
  <2> HIDE DEF g
  <2>6. g = [V \in SUBSET U |-> IF V = {} THEN base ELSE f[<<g[V \ {c[V]}], c[V]>>]]
    BY <2>4, <2>5
  <2>7. QED
    BY <2>6 DEF Recurs
<1> HIDE DEF F
<1>2. SUBSET S \subseteq F
  BY <1>1, SubsetInduction
<1>3. QED
  BY <1>2 DEF F

\* With a step of the right type there is a value of that type for each part.
LEMMA FoldExists ==
  ASSUME NEW S, IsFiniteSet(S), NEW c, Chooses(c, S),
         NEW A, NEW base \in A, NEW f \in [A \X S -> A]
  PROVE  \E g \in [SUBSET S -> A] : Recurs(g, f, c, base, S)
<1>1. PICK g : Recurs(g, f, c, base, S)
  BY RecursExists
<1>2. \A s \in SUBSET S : g[s] = IF s = {} THEN base ELSE f[<<g[s \ {c[s]}], c[s]>>]
  BY <1>1 DEF Recurs
<1> DEFINE F == {U \in SUBSET S : g[U] \in A}
<1>3. ASSUME NEW U \in SUBSET S, \A V \in SUBSET U : V # U => V \in F
      PROVE  U \in F
  <2>1. CASE U = {}
    BY <1>2, <2>1
  <2>2. CASE U # {}
    <3>1. c[U] \in U /\ U \ {c[U]} \in SUBSET U /\ U \ {c[U]} # U
      BY <2>2 DEF Chooses
    <3>2. g[U \ {c[U]}] \in A
      BY <1>3, <3>1
    <3>3. g[U] = f[<<g[U \ {c[U]}], c[U]>>]
      BY <1>2, <2>2
    <3>4. <<g[U \ {c[U]}], c[U]>> \in A \X S
      BY <3>1, <3>2
    <3>5. QED
      BY <3>3, <3>4
  <2>3. QED
    BY <2>1, <2>2
<1>4. SUBSET S \subseteq F
  <2> HIDE DEF F
  <2>1. QED
    BY <1>3, SubsetInduction
<1>5. g \in [SUBSET S -> A]
  <2>1. g = [s \in SUBSET S |-> g[s]]
    BY <1>1 DEF Recurs
  <2>2. \A s \in SUBSET S : g[s] \in A
    BY <1>4
  <2>3. QED
    BY <2>1, <2>2
<1>6. QED
  BY <1>1, <1>5

-----------------------------------------------------------------------------
(* The fold of a sequence *)

\* g folds f over each part of the first n positions, its last one last.
FoldsOver(g, f, base, n) ==
  \A s \in SUBSET (1..n) :
    g[s] = IF s = {} THEN base ELSE f[<<g[s \ {Max(s)}], Max(s)>>]

\* There is such a fold, of the step's type.
LEMMA FoldsLeft ==
  ASSUME NEW n \in Nat, NEW A, NEW base \in A, NEW f \in [A \X (1..n) -> A]
  PROVE  \E g \in [SUBSET (1..n) -> A] : FoldsOver(g, f, base, n)
<1> DEFINE S == 1..n
           c == [s \in SUBSET S |-> Max(s)]
<1>1. IsFiniteSet(S)
  BY FS_Interval
<1>2. Chooses(c, S)
  <2>1. \A s \in SUBSET (1..n) : s # {} => Max(s) \in s
    BY LastPosition
  <2>2. QED
    BY <2>1 DEF Chooses
<1> HIDE DEF c, S
<1>3. PICK g \in [SUBSET S -> A] : Recurs(g, f, c, base, S)
  <2>1. f \in [A \X S -> A]
    BY DEF S
  <2>2. QED
    BY <1>1, <1>2, <2>1, FoldExists
<1>4. \A s \in SUBSET S : g[s] = IF s = {} THEN base ELSE f[<<g[s \ {c[s]}], c[s]>>]
  BY <1>3 DEF Recurs
<1>5. \A s \in SUBSET S : c[s] = Max(s)
  BY DEF c
<1>6. \A s \in SUBSET S : g[s] = IF s = {} THEN base ELSE f[<<g[s \ {Max(s)}], Max(s)>>]
  BY <1>4, <1>5
<1>7. QED
  BY <1>3, <1>6 DEF S, FoldsOver

-----------------------------------------------------------------------------
(* The ends of a finite set of integers *)

\* The least and the greatest of a set, once found.
LEMMA EndsAre ==
  ASSUME NEW S \in SUBSET Int, NEW x \in S
  PROVE  /\ (\A y \in S : x <= y) => Min(S) = x
         /\ (\A y \in S : x >= y) => Max(S) = x
<1>1. ASSUME \A y \in S : x <= y
      PROVE  Min(S) = x
  <2>1. Min(S) \in S /\ \A y \in S : Min(S) <= y
    BY <1>1 DEF Min
  <2>2. x <= Min(S) /\ Min(S) <= x /\ x \in Int /\ Min(S) \in Int
    BY <1>1, <2>1
  <2>3. QED
    BY <2>2
<1>2. ASSUME \A y \in S : x >= y
      PROVE  Max(S) = x
  <2>1. Max(S) \in S /\ \A y \in S : Max(S) >= y
    BY <1>2 DEF Max
  <2>2. x >= Max(S) /\ Max(S) >= x /\ x \in Int /\ Max(S) \in Int
    BY <1>2, <2>1
  <2>3. QED
    BY <2>2
<1>3. QED
  BY <1>1, <1>2

\* The greater and the lesser of two.
LEMMA OfTwo ==
  ASSUME NEW a \in Int, NEW b \in Int
  PROVE  /\ Max({a, b}) = IF a >= b THEN a ELSE b
         /\ Min({a, b}) = IF a <= b THEN a ELSE b
<1>1. \E x \in {a, b} : \A y \in {a, b} : x >= y
  OBVIOUS
<1>2. \E x \in {a, b} : \A y \in {a, b} : x <= y
  OBVIOUS
<1>3. Max({a, b}) \in {a, b} /\ \A y \in {a, b} : Max({a, b}) >= y
  BY <1>1 DEF Max
<1>4. Min({a, b}) \in {a, b} /\ \A y \in {a, b} : Min({a, b}) <= y
  BY <1>2 DEF Min
<1>5. QED
  BY <1>3, <1>4

\* A finite set of integers has a least and a greatest member.
LEMMA HasEnds ==
  ASSUME NEW S \in SUBSET Int, IsFiniteSet(S), S # {}
  PROVE  /\ Min(S) \in S /\ Max(S) \in S
         /\ \A x \in S : Min(S) <= x /\ x <= Max(S)
<1> DEFINE Ended(T) == T = {} \/ \E a \in T, b \in T : \A x \in T : a <= x /\ x <= b
           F == {T \in SUBSET S : Ended(T)}
<1>1. ASSUME NEW T \in SUBSET S, \A U \in SUBSET T : U # T => U \in F
      PROVE  T \in F
  <2>1. CASE T = {}
    BY <2>1
  <2>2. ASSUME NEW c \in T
        PROVE  Ended(T)
    <3>1. T \ {c} \in F
      BY <1>1
    <3>2. CASE T \ {c} = {}
      <4>1. \A x \in T : c <= x /\ x <= c
        BY <3>2
      <4>2. QED
        BY <4>1
    <3>3. CASE \E a \in T \ {c}, b \in T \ {c} : \A x \in T \ {c} : a <= x /\ x <= b
      <4>1. PICK a \in T \ {c}, b \in T \ {c} : \A x \in T \ {c} : a <= x /\ x <= b
        BY <3>3
      <4>2. a \in Int /\ b \in Int /\ c \in Int /\ a <= b
        BY <4>1
      <4>3. \A x \in T : x = c \/ (a <= x /\ x <= b)
        BY <4>1
      <4>4. PICK d \in T, e \in T : d = (IF a <= c THEN a ELSE c) /\ e = (IF b >= c THEN b ELSE c)
        OBVIOUS
      <4>5. \A x \in T : d <= x /\ x <= e
        BY <4>2, <4>3, <4>4
      <4>6. QED
        BY <4>5
    <3>4. QED
      BY <3>1, <3>2, <3>3
  <2>3. QED
    BY <2>1, <2>2
<1> HIDE DEF F
<1>2. SUBSET S \subseteq F
  BY <1>1, SubsetInduction
<1>3. Ended(S)
  BY <1>2 DEF F
<1>4. PICK a \in S, b \in S : \A x \in S : a <= x /\ x <= b
  BY <1>3
<1>5. Min(S) = a /\ Max(S) = b
  <2>1. \A x \in S : b >= x
    BY <1>4
  <2>2. QED
    BY <1>4, <2>1, EndsAre
<1>6. QED
  BY <1>4, <1>5

\* What a sequence maps to is finite.
LEMMA ImageFinite ==
  ASSUME NEW n \in Nat, NEW f
  PROVE  IsFiniteSet({f[m] : m \in 1..n})
<1> DEFINE g == [m \in 1..n |-> f[m]]
           T == {f[m] : m \in 1..n}
<1>1. g \in Surjection(1..n, T)
  BY DEF Surjection
<1>2. IsFiniteSet(1..n)
  BY FS_Interval
<1> HIDE DEF g, T
<1>3. IsFiniteSet(T)
  BY <1>1, <1>2, FS_Surjection
<1>4. QED
  BY <1>3 DEF T

=============================================================================
