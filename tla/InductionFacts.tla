--------------------------- MODULE InductionFacts ---------------------------
(***************************************************************************)
(* Facts about natural numbers, finite sets and folds that the proofs of   *)
(* the components share.                                                   *)
(***************************************************************************)
EXTENDS Integers, FiniteSets, FiniteSetsExt, FiniteSetTheorems, WellFoundedInduction, TLAPS

\* Every non-empty set of natural numbers has a least element.
LEMMA LeastNatural ==
    ASSUME NEW T \in SUBSET Nat, T # {}
    PROVE  \E n \in T : \A m \in T : n <= m
<1> DEFINE R == {ss \in Nat \X Nat : ss[1] < ss[2]}
<1>1. IsWellFoundedOn(R, Nat)
  BY NatLessThanWellFounded, Zenon DEF OpToRel
<1>2. PICK n \in T : \A m \in T : ~ (<<m, n>> \in R)
  <2> HIDE DEF R
  <2> QED BY <1>1, WFMin, Zenon
<1>3. \A m \in T : n <= m
  <2> TAKE m \in T
  <2>1. ~ (<<m, n>> \in R)
    BY <1>2
  <2> QED
    BY <2>1, SMT
<1> QED
  BY <1>3

\* A function on the subsets of a finite set that has its value in V for the empty
\* set, and for every other set if it has it without one of the elements, has all its
\* values in V.
LEMMA FoldIn ==
    ASSUME NEW D, IsFiniteSet(D), NEW V, NEW g, g[{}] \in V,
           \A s \in SUBSET D : s # {} => \E x \in s : g[s \ {x}] \in V => g[s] \in V
    PROVE  g[D] \in V
<1> DEFINE T == {n \in Nat : \E s \in SUBSET D : Cardinality(s) = n /\ g[s] \notin V}
<1>1. \A s \in SUBSET D : IsFiniteSet(s) /\ Cardinality(s) \in Nat
  BY FS_Subset, FS_CardinalityType
<1>2. ASSUME T # {} PROVE FALSE
  <2>1. PICK n \in T : \A m \in T : n <= m
    <3> HIDE DEF T
    <3>1. T \in SUBSET Nat
      BY DEF T
    <3> QED BY <1>2, <3>1, LeastNatural
  <2>2. PICK s \in SUBSET D : Cardinality(s) = n /\ g[s] \notin V
    BY <2>1
  <2>3. s # {}
    BY <2>2
  <2>4. PICK x \in s : g[s \ {x}] \in V => g[s] \in V
    BY <2>3
  <2>5. g[s \ {x}] \notin V
    BY <2>2, <2>4
  <2>6. Cardinality(s \ {x}) = n - 1 /\ Cardinality(s \ {x}) \in Nat
    <3>1. s \ {x} \in SUBSET D /\ IsFiniteSet(s)
      BY <1>1
    <3>2. Cardinality(s \ {x}) = Cardinality(s) - 1
      BY <3>1, <2>4, FS_RemoveElement, Zenon
    <3> QED BY <3>1, <3>2, <2>2, <1>1
  <2>7. n - 1 \in T
    BY <2>5, <2>6
  <2> QED BY <2>1, <2>7
<1> QED
  BY <1>1, <1>2, D \in SUBSET D

\* A fold over the finite set D with values in V: base for the empty set, and for any
\* other set a step from the value without the element that pick takes.
Folding(D, V, base, pick, step) ==
    /\ IsFiniteSet(D) /\ base \in V
    /\ \A s \in SUBSET D : s # {} => pick[s] \in s
    /\ step \in [D \X V -> V]

FoldEquations(g, D, base, pick, step) ==
    \A s \in SUBSET D :
        g[s] = IF s = {} THEN base ELSE step[<<pick[s], g[s \ {pick[s]}]>>]

\* The equations of a fold have a solution.
LEMMA FoldExists ==
    ASSUME NEW D, NEW V, NEW base, NEW pick, NEW step, Folding(D, V, base, pick, step)
    PROVE  \E g \in [SUBSET D -> V] : FoldEquations(g, D, base, pick, step)
<1> USE DEF Folding, FoldEquations
<1> DEFINE Level(n) == {s \in SUBSET D : Cardinality(s) <= n}
           Solves(g, n) == /\ g \in [Level(n) -> V]
                           /\ \A s \in Level(n) :
                                g[s] = IF s = {} THEN base
                                       ELSE step[<<pick[s], g[s \ {pick[s]}]>>]
           T == {n \in Nat : ~ \E g : Solves(g, n)}
<1>1. \A s \in SUBSET D : IsFiniteSet(s) /\ Cardinality(s) \in Nat
                          /\ Cardinality(s) <= Cardinality(D)
  BY FS_Subset, FS_CardinalityType
<1>2. \A s \in SUBSET D : s # {} => Cardinality(s \ {pick[s]}) = Cardinality(s) - 1
  BY <1>1, FS_RemoveElement
<1>3. \A s \in SUBSET D : Cardinality(s) = 0 <=> s = {}
  BY <1>1, FS_EmptySet
<1>4. Solves([s \in Level(0) |-> base], 0)
  BY <1>1, <1>3
<1>5. ASSUME NEW n \in Nat, NEW f, Solves(f, n)
      PROVE  \E g : Solves(g, n + 1)
  <2> DEFINE g == [s \in Level(n + 1) |->
                     IF s = {} THEN base ELSE step[<<pick[s], f[s \ {pick[s]}]>>]]
  <2>1. \A s \in Level(n + 1) : s # {} => s \ {pick[s]} \in Level(n)
    BY <1>1, <1>2
  <2>2. \A s \in Level(n) : s \in Level(n + 1) /\ g[s] = f[s]
    <3> SUFFICES ASSUME NEW s \in Level(n) PROVE s \in Level(n + 1) /\ g[s] = f[s]
      BY Zenon
    <3>1. s \in Level(n + 1)
      BY <1>1
    <3>2. f[s] = IF s = {} THEN base ELSE step[<<pick[s], f[s \ {pick[s]}]>>]
      BY <1>5
    <3> HIDE DEF Level
    <3> QED BY <3>1, <3>2
  <2>3. \A s \in Level(n + 1) : s # {} => pick[s] \in D /\ f[s \ {pick[s]}] \in V
    BY <2>1, <1>5
  <2>4. g \in [Level(n + 1) -> V]
    BY <2>3, Zenon
  <2>5. \A s \in Level(n + 1) :
          g[s] = IF s = {} THEN base ELSE step[<<pick[s], g[s \ {pick[s]}]>>]
    <3> SUFFICES ASSUME NEW s \in Level(n + 1)
                 PROVE  g[s] = IF s = {} THEN base ELSE step[<<pick[s], g[s \ {pick[s]}]>>]
      BY Zenon
    <3>1. CASE s = {}
      BY <3>1
    <3>2. CASE s # {}
      <4>1. g[s \ {pick[s]}] = f[s \ {pick[s]}]
        BY <2>1, <2>2, <3>2, Zenon
      <4>2. g[s] = step[<<pick[s], f[s \ {pick[s]}]>>]
        BY <3>2
      <4> HIDE DEF g
      <4> QED BY <3>2, <4>1, <4>2
    <3> QED BY <3>1, <3>2
  <2> HIDE DEF g
  <2> QED BY <2>4, <2>5, Zenon
<1>6. ASSUME T # {} PROVE FALSE
  <2>1. T \in SUBSET Nat
    OBVIOUS
  <2> HIDE DEF T
  <2>2. PICK n \in T : \A m \in T : n <= m
    BY <1>6, <2>1, LeastNatural, Zenon
  <2>3. n \in Nat /\ ~ \E g : Solves(g, n)
    BY <2>2, Zenon DEF T
  <2>4. n # 0
    <3> HIDE DEF Solves
    <3> QED BY <1>4, <2>3
  <2>5. n - 1 \in Nat /\ n - 1 \notin T
    BY <2>2, <2>3, <2>4
  <2>6. \E g : Solves(g, n - 1)
    BY <2>5, Zenon DEF T
  <2> HIDE DEF Solves
  <2>7. \E g : Solves(g, (n - 1) + 1)
    BY <2>5, <2>6, <1>5
  <2>8. (n - 1) + 1 = n
    BY <2>3
  <2> QED BY <2>3, <2>7, <2>8
<1>7. Cardinality(D) \in Nat /\ Level(Cardinality(D)) = SUBSET D
  BY <1>1, D \in SUBSET D
<1>8. \E g : Solves(g, Cardinality(D))
  BY <1>6, <1>7, Zenon
<1> QED
  BY <1>7, <1>8, Zenon

\* The least element of a set of natural numbers.
LEMMA MinNatural ==
    ASSUME NEW S \in SUBSET Nat, S # {}
    PROVE  Min(S) \in S /\ \A x \in S : Min(S) <= x
<1>1. \E n \in S : \A m \in S : n <= m
  BY LeastNatural
<1> QED
  BY <1>1, Zenon DEF Min

\* The greatest element of a finite set of natural numbers.
LEMMA MaxNatural ==
    ASSUME NEW S \in SUBSET Nat, IsFiniteSet(S), S # {}
    PROVE  Max(S) \in S /\ \A x \in S : Max(S) >= x
<1> DEFINE Top(s) == \E x \in s : \A y \in s : x >= y
           g == [s \in SUBSET S |-> IF s = {} \/ Top(s) THEN 1 ELSE 0]
           V == {1}
<1>1. g[{}] \in V
  OBVIOUS
<1>2. ASSUME NEW s \in SUBSET S, s # {}
      PROVE  \E x \in s : g[s \ {x}] \in V => g[s] \in V
  <2>1. PICK x \in s : TRUE
    BY <1>2, Zenon
  <2>2. ASSUME g[s \ {x}] \in V PROVE Top(s)
    <3>1. s \ {x} = {} \/ Top(s \ {x})
      BY <2>2, s \ {x} \in SUBSET S
    <3>2. CASE s \ {x} = {}
      BY <2>1, <3>2
    <3>3. CASE Top(s \ {x})
      <4>1. PICK y \in s \ {x} : \A z \in s \ {x} : y >= z
        BY <3>3
      <4>2. CASE y >= x
        BY <4>1, <4>2
      <4>3. CASE x >= y
        BY <4>1, <4>3
      <4> QED BY <4>1, <4>2, <4>3
    <3> QED BY <3>1, <3>2, <3>3
  <2> QED BY <2>1, <2>2, Zenon
<1>3. g[S] \in V
  <2>1. \A s \in SUBSET S : s # {} => \E x \in s : g[s \ {x}] \in V => g[s] \in V
    BY <1>2, Zenon
  <2> HIDE DEF g, V
  <2> QED BY <1>1, <2>1, FoldIn
<1>4. Top(S)
  BY <1>3, S \in SUBSET S, 0 # 1, Zenon
<1> QED
  BY <1>4, Zenon DEF Max
=============================================================================
