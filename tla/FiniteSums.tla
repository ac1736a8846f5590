----------------------------- MODULE FiniteSums -----------------------------
(***************************************************************************)
(* SumFunctionOnSet of the module Functions adds the values of a function  *)
(* on a set one after the other, by a function that is defined by          *)
(* recursion on subsets.  That there is such a function, and that the sum  *)
(* of naturals is a natural, is proved here from the well-foundedness of   *)
(* strict inclusion among the subsets of a finite set: every collection of *)
(* them that is not empty has a minimal member.                            *)
(***************************************************************************)
EXTENDS Integers, FiniteSets, Functions, FiniteSetTheorems, TLAPS

\* The member that is added first, and the sum of s by way of g.
First(s) == CHOOSE x \in s : TRUE
Step(f, g, s) == IF s = {} THEN 0 ELSE f[First(s)] + g[s \ {First(s)}]

\* g has the sums of f on all the subsets of S.
Sums(f, S, g) == g = [s \in SUBSET S |-> Step(f, g, s)]

\* Of the subsets of a finite set that have a property one is minimal.
LEMMA MinimalSubset ==
  ASSUME NEW S, IsFiniteSet(S), NEW Bad \in SUBSET (SUBSET S), Bad # {}
  PROVE  \E s \in Bad : \A t \in Bad : t \subseteq s => t = s
<1>1. IsWellFoundedOn(StrictSubsetOrdering(S), SUBSET S)
  BY FS_StrictSubsetOrderingWellFounded, FS_FiniteSubsetsOfFinite
<1>2. PICK s \in Bad : \A t \in Bad : ~(<<t, s>> \in StrictSubsetOrdering(S))
  BY <1>1, WFMin
<1>3. ASSUME NEW t \in Bad, t \subseteq s, t # s PROVE FALSE
  BY <1>2, <1>3 DEF StrictSubsetOrdering
<1> QED
  BY <1>2, <1>3

\* What is left of a set without its first member is smaller.
LEMMA Rest ==
  ASSUME NEW s, s # {}
  PROVE  First(s) \in s /\ s \ {First(s)} \subseteq s /\ s \ {First(s)} # s
  BY DEF First

\* Two functions with the sums of f agree where both are defined.
LEMMA SumsAgree ==
  ASSUME NEW f, NEW S, IsFiniteSet(S), NEW T \in SUBSET S,
         NEW g, Sums(f, S, g), NEW h, Sums(f, T, h)
  PROVE  \A s \in SUBSET T : g[s] = h[s]
<1> DEFINE Bad == {s \in SUBSET T : g[s] # h[s]}
<1> SUFFICES ASSUME Bad # {} PROVE FALSE
  OBVIOUS
<1>1. IsFiniteSet(T)
  BY FS_Subset
<1>2. PICK s \in Bad : \A t \in Bad : t \subseteq s => t = s
  <2>1. Bad \in SUBSET (SUBSET T)
    OBVIOUS
  <2> HIDE DEF Bad
  <2> QED
    BY <1>1, <2>1, MinimalSubset
<1>3. g[s] = Step(f, g, s) /\ h[s] = Step(f, h, s)
  BY <1>2 DEF Sums
<1>4. s # {}
  BY <1>2, <1>3 DEF Step
<1>5. g[s \ {First(s)}] = h[s \ {First(s)}]
  BY <1>2, <1>4, Rest
<1>6. Step(f, g, s) = Step(f, h, s)
  BY <1>5 DEF Step
<1> QED
  BY <1>2, <1>3, <1>6

\* There is such a function on every subset of a finite set on which f is a
\* natural, and its values are naturals.
LEMMA SumsExist ==
  ASSUME NEW S, IsFiniteSet(S), NEW f, \A x \in S : f[x] \in Nat
  PROVE  \A T \in SUBSET S : \E g \in [SUBSET T -> Nat] : Sums(f, T, g)
<1> DEFINE Bad == {T \in SUBSET S : ~\E g \in [SUBSET T -> Nat] : Sums(f, T, g)}
           G(t) == CHOOSE g \in [SUBSET t -> Nat] : Sums(f, t, g)
<1> SUFFICES ASSUME Bad # {} PROVE FALSE
  OBVIOUS
<1>1. PICK T \in Bad : \A t \in Bad : t \subseteq T => t = T
  <2>1. Bad \in SUBSET (SUBSET S)
    OBVIOUS
  <2> HIDE DEF Bad
  <2> QED
    BY <2>1, MinimalSubset
<1>2. \A t \in SUBSET T : t # T => G(t) \in [SUBSET t -> Nat] /\ Sums(f, t, G(t))
  <2> SUFFICES ASSUME NEW t \in SUBSET T, t # T
               PROVE  G(t) \in [SUBSET t -> Nat] /\ Sums(f, t, G(t))
    OBVIOUS
  <2>1. t \in SUBSET S /\ t \notin Bad
    BY <1>1
  <2>2. \E g \in [SUBSET t -> Nat] : Sums(f, t, g)
    BY <2>1
  <2> QED
    BY <2>2
<1> DEFINE total(s) == IF s = {} THEN 0 ELSE f[First(s)] + G(s \ {First(s)})[s \ {First(s)}]
           k == [s \in SUBSET T |-> total(s)]
<1>3. \A s \in SUBSET T : total(s) \in Nat
  <2> SUFFICES ASSUME NEW s \in SUBSET T, s # {} PROVE total(s) \in Nat
    OBVIOUS
  <2>1. f[First(s)] \in Nat
    BY <1>1, Rest
  <2> DEFINE v == s \ {First(s)}
  <2>2. v \in SUBSET T /\ v # T
    BY Rest
  <2>3. G(v) \in [SUBSET v -> Nat]
    BY <1>2, <2>2
  <2>4. G(v)[v] \in Nat
    <3> HIDE DEF G, v
    <3> QED
      BY <2>3
  <2> QED
    BY <2>1, <2>4
<1>4. \A u \in SUBSET T : u # T => G(u)[u] = total(u)
  <2> SUFFICES ASSUME NEW u \in SUBSET T, u # T
               PROVE  G(u)[u] = total(u)
    OBVIOUS
  <2>1. Sums(f, u, G(u))
    BY <1>2
  <2>2. G(u)[u] = Step(f, G(u), u)
    <3> HIDE DEF G
    <3> QED
      BY <2>1 DEF Sums
  <2>3. CASE u = {}
    <3> HIDE DEF G
    <3> QED
      BY <2>2, <2>3 DEF Step
  <2>4. CASE u # {}
    <3> DEFINE v == u \ {First(u)}
    <3>1. v \subseteq u /\ v # u
      BY <2>4, Rest
    <3>2. v \in SUBSET u /\ v # T /\ v \in SUBSET T
      BY <3>1
    <3>3. Sums(f, v, G(v))
      BY <1>2, <3>2
    <3>4. IsFiniteSet(u)
      BY <1>1, FS_Subset
    <3>5. G(u)[v] = G(v)[v]
      <4> HIDE DEF G, v
      <4> QED
        BY <3>2, <3>3, <3>4, <2>1, SumsAgree
    <3> HIDE DEF G
    <3> QED
      BY <2>2, <2>4, <3>5 DEF Step
  <2> QED
    BY <2>3, <2>4
<1>5. k \in [SUBSET T -> Nat]
  BY <1>3
<1>6. \A s \in SUBSET T : k[s] = Step(f, k, s)
  <2> SUFFICES ASSUME NEW s \in SUBSET T, s # {} PROVE k[s] = Step(f, k, s)
    BY DEF Step
  <2>1. s \ {First(s)} \in SUBSET T /\ s \ {First(s)} # T
    BY Rest
  <2>2. G(s \ {First(s)})[s \ {First(s)}] = total(s \ {First(s)})
    BY <2>1, <1>4
  <2>3. k[s \ {First(s)}] = total(s \ {First(s)}) /\ k[s] = total(s)
    BY <2>1
  <2> HIDE DEF k, G
  <2> QED
    BY <2>2, <2>3 DEF Step
<1>7. Sums(f, T, k)
  <2>1. k = [s \in SUBSET T |-> k[s]]
    OBVIOUS
  <2> HIDE DEF k
  <2> QED
    BY <2>1, <1>6 DEF Sums
<1> QED
  BY <1>1, <1>5, <1>7

\* The sum of naturals over a finite set is a natural.
LEMMA SumIsNatural ==
  ASSUME NEW T, IsFiniteSet(T), NEW f, \A x \in T : f[x] \in Nat
  PROVE  SumFunctionOnSet(f, T) \in Nat
<1> DEFINE iter == CHOOSE h : Sums(f, T, h)
<1>1. PICK g \in [SUBSET T -> Nat] : Sums(f, T, g)
  BY SumsExist
<1>2. Sums(f, T, iter)
  BY <1>1
<1>3. iter[T] = g[T]
  <2> HIDE DEF iter
  <2> QED
    BY <1>1, <1>2, SumsAgree
<1>4. SumFunctionOnSet(f, T) = iter[T]
  BY DEF SumFunctionOnSet, FoldFunctionOnSet, MapThenFoldSet, Sums, Step, First
<1> QED
  BY <1>1, <1>3, <1>4

-----------------------------------------------------------------------------
(* Two more facts about finite sets.                                       *)

\* A finite set of integers has a largest member.
LEMMA LargestMember ==
  ASSUME NEW S, IsFiniteSet(S), S # {}, S \subseteq Int
  PROVE  \E m \in S : \A i \in S : i <= m
<1> DEFINE above(j) == {i \in S : j <= i}
           Tails == {above(j) : j \in S}
<1>1. Tails \in SUBSET (SUBSET S) /\ Tails # {}
  OBVIOUS
<1>2. PICK t \in Tails : \A u \in Tails : u \subseteq t => u = t
  <2>1. Tails \in SUBSET (SUBSET S)
    OBVIOUS
  <2>2. Tails # {}
    OBVIOUS
  <2> HIDE DEF Tails
  <2>3. IsFiniteSet(S)
    OBVIOUS
  <2> QED
    BY ONLY <2>1, <2>2, <2>3, MinimalSubset
<1>3. PICK m \in S : t = above(m)
  OBVIOUS
<1>4. ASSUME NEW i \in S, ~(i <= m) PROVE FALSE
  <2>1. i \in Int /\ m \in Int /\ \A j \in S : j \in Int
    OBVIOUS
  <2>2. above(i) \subseteq t
    <3>1. ASSUME NEW j \in above(i) PROVE j \in t
      <4>1. j \in S /\ i <= j /\ m <= i /\ j \in Int
        BY <1>4, <2>1
      <4> QED
        BY <4>1, <2>1, <1>3
    <3> QED
      BY <3>1
  <2>3. above(i) = t
    BY <1>2, <2>2
  <2>4. m \in t
    BY <1>3, <2>1
  <2> QED
    BY <1>4, <2>3, <2>4
<1> QED
  BY <1>4

\* How many members of a finite set come before one of them.
LEMMA Position ==
  ASSUME NEW T \in SUBSET Int, IsFiniteSet(T), NEW k \in T
  PROVE  /\ Cardinality(T) \in Nat
         /\ Cardinality({i \in T : i < k}) \in Nat /\ Cardinality({i \in T : i < k}) < Cardinality(T)
<1> DEFINE before == {i \in T : i < k}
<1>1. before \in SUBSET T /\ k \notin before
  OBVIOUS
<1> HIDE DEF before
<1>2. IsFiniteSet(before) /\ Cardinality(before) <= Cardinality(T) /\ (Cardinality(T) = Cardinality(before) => T = before)
  BY <1>1, FS_Subset
<1>3. Cardinality(before) \in Nat /\ Cardinality(T) \in Nat
  BY <1>2, FS_CardinalityType
<1>4. Cardinality(before) < Cardinality(T)
  BY <1>1, <1>2, <1>3
<1> QED
  BY <1>3, <1>4 DEF before
=============================================================================
