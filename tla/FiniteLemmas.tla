---------------------------- MODULE FiniteLemmas ----------------------------
(***************************************************************************)
(* Minima, maxima and sums over finite sets of numbers, for the proofs     *)
(* about cursors, money and messages.  The community modules define        *)
(* SumFunctionOnSet by a recursive function; the lemmas derive what that   *)
(* function computes from the one induction principle that needs no        *)
(* predicate as a parameter: a non-empty set of numbers has a smallest     *)
(* member.                                                                 *)
(***************************************************************************)
EXTENDS Integers, FiniteSets, FiniteSetsExt, FiniteSetTheorems,
        WellFoundedInduction, TLAPS

\* A non-empty set of natural numbers has a smallest member, which is its Min.
LEMMA MinOfNats ==
    ASSUME NEW S \in SUBSET Nat, S # {}
    PROVE  Min(S) \in S /\ \A y \in S : Min(S) <= y
<1> DEFINE Less == OpToRel(<, Nat)
<1>1. IsWellFoundedOn(Less, Nat)
  BY NatLessThanWellFounded
<1>2. \A m, n \in Nat : m < n => <<m, n>> \in Less
  BY DEF OpToRel
<1> HIDE DEF Less
<1>3. \E n \in S : \A m \in S : ~ (<<m, n>> \in Less)
  BY <1>1, WFMin
<1>4. PICK n \in S : \A m \in S : ~ (<<m, n>> \in Less)
  BY <1>3
<1>5. ASSUME NEW m \in S PROVE n <= m
  <2>1. m \in Nat /\ n \in Nat /\ ~ (m < n)
    BY <1>2, <1>4
  <2> QED BY <2>1
<1>6. \E x \in S : \A m \in S : x <= m
  BY <1>5
<1> QED BY <1>6 DEF Min

\* A non-empty set of numbers below a bound has a largest member, its Max.
LEMMA MaxOfNats ==
    ASSUME NEW n \in Nat, NEW S \in SUBSET (0 .. n), S # {}
    PROVE  Max(S) \in S /\ \A y \in S : y <= Max(S)
<1> DEFINE D == {n - y : y \in S}
<1>1. D \in SUBSET Nat /\ D # {}
  <2>1. ASSUME NEW y \in S PROVE n - y \in Nat
    <3>1. y \in 0 .. n
      OBVIOUS
    <3> QED BY <3>1
  <2> QED BY <2>1
<1>2. Min(D) \in D /\ \A d \in D : Min(D) <= d
  BY <1>1, MinOfNats
<1>3. PICK x \in S : Min(D) = n - x
  BY <1>2
<1>4. \A y \in S : n - x <= n - y
  BY <1>2, <1>3
<1>5. \A y \in S : x >= y
  BY <1>4
<1>6. \E z \in S : \A y \in S : z >= y
  BY <1>5
<1>7. Max(S) \in S /\ \A y \in S : Max(S) >= y
  BY <1>6 DEF Max
<1> QED BY <1>7

\* A set that holds zero, and successors of its numbers, holds every number.
LEMMA NatSetInduction ==
    ASSUME NEW X, 0 \in X, \A n \in Nat : n \in X => n + 1 \in X
    PROVE  Nat \subseteq X
<1> SUFFICES ASSUME Nat \ X # {} PROVE FALSE
  OBVIOUS
<1>1. PICK n \in Nat \ X : \A m \in Nat \ X : n <= m
  BY MinOfNats
<1>2. n - 1 \in Nat /\ n - 1 \notin Nat \ X
  BY <1>1
<1>3. (n - 1) + 1 \in X
  BY <1>2
<1> QED BY <1>1, <1>3

\* A family of subsets of a finite set that is closed under adding an element
\* to a member has the whole set as a member.
LEMMA SubsetInduction ==
    ASSUME NEW S, IsFiniteSet(S), NEW X, {} \in X,
           \A T \in SUBSET S, x \in S : T \in X /\ x \notin T => T \union {x} \in X
    PROVE  S \in X
<1> DEFINE Y == {n \in Nat : \A T \in SUBSET S : Cardinality(T) = n => T \in X}
<1>1. \A T \in SUBSET S : IsFiniteSet(T) /\ Cardinality(T) \in Nat
  BY FS_Subset, FS_CardinalityType
<1>2. 0 \in Y
  BY <1>1, FS_EmptySet
<1>3. ASSUME NEW n \in Nat, n \in Y PROVE n + 1 \in Y
  <2> SUFFICES ASSUME NEW T \in SUBSET S, Cardinality(T) = n + 1 PROVE T \in X
    OBVIOUS
  <2>1. PICK x \in T : TRUE
    BY <1>1, FS_EmptySet
  <2>2. T \ {x} \in SUBSET S /\ Cardinality(T \ {x}) = n
    <3>1. Cardinality(T \ {x}) = Cardinality(T) - 1
      BY <1>1, <2>1, FS_RemoveElement
    <3> QED BY <3>1
  <2>3. T \ {x} \in X
    BY <1>3, <2>2
  <2>4. (T \ {x}) \union {x} = T
    BY <2>1
  <2>5. (T \ {x}) \union {x} \in X
    BY <2>1, <2>2, <2>3
  <2> QED BY <2>4, <2>5
<1> HIDE DEF Y
<1>4. Nat \subseteq Y
  BY <1>2, <1>3, NatSetInduction
<1>5. Cardinality(S) \in Y
  BY <1>1, <1>4
<1> QED BY <1>5 DEF Y

-----------------------------------------------------------------------------

Sum(f, S) == SumFunctionOnSet(f, S)

\* The element the fold takes next.
Pick(S) == CHOOSE x \in S : TRUE

\* g is the recursive function of the fold over the subsets of S.
IsSumFcn(f, S, g) ==
    g = [T \in SUBSET S |-> IF T = {} THEN 0 ELSE f[Pick(T)] + g[T \ {Pick(T)}]]

LEMMA SumIsChosen ==
    ASSUME NEW f, NEW S
    PROVE  Sum(f, S) = (CHOOSE g : IsSumFcn(f, S, g))[S]
  BY DEF Sum, SumFunctionOnSet, FoldFunctionOnSet, MapThenFoldSet, IsSumFcn, Pick

\* The recursion is well-founded over a finite set, so there is such a function.
LEMMA SumFcnExists ==
    ASSUME NEW f, NEW S, IsFiniteSet(S)
    PROVE  \E g : IsSumFcn(f, S, g)
<1> DEFINE Step(g, T) == IF T = {} THEN 0 ELSE f[Pick(T)] + g[T \ {Pick(T)}]
           X == {n \in Nat : \E g : /\ g = [T \in SUBSET S |-> g[T]]
                                    /\ \A T \in SUBSET S :
                                         Cardinality(T) <= n => g[T] = Step(g, T)}
<1>1. \A T \in SUBSET S : IsFiniteSet(T) /\ Cardinality(T) \in Nat
                          /\ Cardinality(T) <= Cardinality(S)
  BY FS_Subset, FS_CardinalityType
<1>2. \A T \in SUBSET S : Cardinality(T) = 0 => T = {}
  BY <1>1, FS_EmptySet
<1>3. \A T \in SUBSET S : T # {} => /\ Pick(T) \in T
                                    /\ T \ {Pick(T)} \in SUBSET S
                                    /\ Cardinality(T \ {Pick(T)}) = Cardinality(T) - 1
  BY <1>1, FS_RemoveElement DEF Pick
<1>4. 0 \in X
  <2> DEFINE g == [T \in SUBSET S |-> 0]
  <2>1. g = [T \in SUBSET S |-> g[T]]
    OBVIOUS
  <2>2. \A T \in SUBSET S : Cardinality(T) <= 0 => g[T] = Step(g, T)
    BY <1>1, <1>2
  <2> QED BY <2>1, <2>2
<1>5. ASSUME NEW n \in Nat, n \in X PROVE n + 1 \in X
  <2>1. PICK g : /\ g = [T \in SUBSET S |-> g[T]]
                 /\ \A T \in SUBSET S : Cardinality(T) <= n => g[T] = Step(g, T)
    BY <1>5
  <2> DEFINE h == [T \in SUBSET S |-> IF Cardinality(T) = n + 1 THEN Step(g, T) ELSE g[T]]
  <2>2. h = [T \in SUBSET S |-> h[T]]
    OBVIOUS
  <2>3. ASSUME NEW T \in SUBSET S, Cardinality(T) <= n + 1
        PROVE  h[T] = Step(h, T)
    <3>1. h[T] = Step(g, T)
      <4>1. CASE Cardinality(T) = n + 1
        BY <4>1
      <4>2. CASE Cardinality(T) <= n
        <5>1. h[T] = g[T]
          BY <1>1, <4>2
        <5> HIDE DEF h
        <5> QED BY <2>1, <4>2, <5>1
      <4> QED BY <1>1, <2>3, <4>1, <4>2
    <3>2. T # {} => h[T \ {Pick(T)}] = g[T \ {Pick(T)}]
      <4> SUFFICES ASSUME T # {} PROVE h[T \ {Pick(T)}] = g[T \ {Pick(T)}]
        OBVIOUS
      <4>1. T \ {Pick(T)} \in SUBSET S /\ Cardinality(T \ {Pick(T)}) # n + 1
        BY <1>1, <1>3, <2>3
      <4> QED BY <4>1
    <3> HIDE DEF h
    <3> QED BY <3>1, <3>2
  <2> HIDE DEF h, Step
  <2>4. \E k : /\ k = [T \in SUBSET S |-> k[T]]
               /\ \A T \in SUBSET S : Cardinality(T) <= n + 1 => k[T] = Step(k, T)
    BY <2>2, <2>3
  <2>5. n + 1 \in Nat
    OBVIOUS
  <2> QED BY <2>4, <2>5, Zenon
<1> HIDE DEF X
<1>6. Cardinality(S) \in X
  BY <1>1, <1>4, <1>5, NatSetInduction
<1>7. PICK g : /\ g = [T \in SUBSET S |-> g[T]]
               /\ \A T \in SUBSET S : g[T] = Step(g, T)
  BY <1>1, <1>6 DEF X
<1>8. g = [T \in SUBSET S |-> Step(g, T)]
  BY <1>7
<1> QED BY <1>8 DEF IsSumFcn

\* The function of the fold, over the subsets of a finite set.
SumFcn(f, S) == CHOOSE g : IsSumFcn(f, S, g)

LEMMA SumFcnUnfold ==
    ASSUME NEW f, NEW S, IsFiniteSet(S), NEW T \in SUBSET S
    PROVE  SumFcn(f, S)[T] =
             IF T = {} THEN 0 ELSE f[Pick(T)] + SumFcn(f, S)[T \ {Pick(T)}]
<1>1. IsSumFcn(f, S, SumFcn(f, S))
  BY SumFcnExists DEF SumFcn
<1> QED BY <1>1 DEF IsSumFcn

\* What the fold computes for a subset does not depend on the set it started from.
LEMMA SumFcnLocal ==
    ASSUME NEW f, NEW S, IsFiniteSet(S), NEW T \in SUBSET S
    PROVE  SumFcn(f, S)[T] = Sum(f, T)
<1> DEFINE X == {n \in Nat : \A U \in SUBSET S : \A V \in SUBSET U :
                   Cardinality(V) = n => SumFcn(f, U)[V] = SumFcn(f, V)[V]}
<1>1. \A U \in SUBSET S : IsFiniteSet(U) /\ Cardinality(U) \in Nat
  BY FS_Subset, FS_CardinalityType
<1>2. 0 \in X
  <2> SUFFICES ASSUME NEW U \in SUBSET S, NEW V \in SUBSET U, Cardinality(V) = 0
               PROVE  SumFcn(f, U)[V] = SumFcn(f, V)[V]
    OBVIOUS
  <2>1. V = {} /\ V \in SUBSET S
    BY <1>1, FS_EmptySet
  <2>2. SumFcn(f, U)[V] = 0 /\ SumFcn(f, V)[V] = 0
    BY <1>1, <2>1, SumFcnUnfold
  <2> QED BY <2>2
<1>3. ASSUME NEW n \in Nat, n \in X PROVE n + 1 \in X
  <2> SUFFICES ASSUME NEW U \in SUBSET S, NEW V \in SUBSET U, Cardinality(V) = n + 1
               PROVE  SumFcn(f, U)[V] = SumFcn(f, V)[V]
    OBVIOUS
  <2> DEFINE W == V \ {Pick(V)}
  <2>1. V # {} /\ V \in SUBSET S /\ IsFiniteSet(U) /\ IsFiniteSet(V)
    BY <1>1, FS_EmptySet
  <2>2. W \in SUBSET U /\ W \in SUBSET V /\ Cardinality(W) = n
    <3>1. Pick(V) \in V
      BY <2>1 DEF Pick
    <3>2. Cardinality(W) = Cardinality(V) - 1
      BY <2>1, <3>1, FS_RemoveElement
    <3> QED BY <3>2
  <2>3. /\ SumFcn(f, U)[V] = f[Pick(V)] + SumFcn(f, U)[W]
        /\ SumFcn(f, V)[V] = f[Pick(V)] + SumFcn(f, V)[W]
    BY <2>1, SumFcnUnfold
  <2>4. /\ SumFcn(f, U)[W] = SumFcn(f, W)[W]
        /\ SumFcn(f, V)[W] = SumFcn(f, W)[W]
    BY <1>3, <2>1, <2>2
  <2> QED BY <2>3, <2>4
<1> HIDE DEF X
<1>4. Cardinality(T) \in X
  BY <1>1, <1>2, <1>3, NatSetInduction
<1>5. SumFcn(f, S)[T] = SumFcn(f, T)[T]
  BY <1>4 DEF X
<1> QED BY <1>5, SumIsChosen DEF SumFcn

\* The sum over the empty set, and the first step of any other sum.
LEMMA SumUnfold ==
    ASSUME NEW f, NEW S, IsFiniteSet(S)
    PROVE  /\ Sum(f, {}) = 0
           /\ S # {} => /\ Pick(S) \in S
                        /\ Sum(f, S) = f[Pick(S)] + Sum(f, S \ {Pick(S)})
<1>1. Sum(f, {}) = 0
  <2>1. SumFcn(f, {})[{}] = 0
    BY FS_EmptySet, SumFcnUnfold
  <2> QED BY <2>1, SumIsChosen DEF SumFcn
<1>2. ASSUME S # {}
      PROVE  Pick(S) \in S /\ Sum(f, S) = f[Pick(S)] + Sum(f, S \ {Pick(S)})
  <2>1. Pick(S) \in S
    BY <1>2 DEF Pick
  <2>2. Sum(f, S) = SumFcn(f, S)[S]
    BY SumIsChosen DEF SumFcn
  <2>3. SumFcn(f, S)[S] = f[Pick(S)] + SumFcn(f, S)[S \ {Pick(S)}]
    BY <1>2, SumFcnUnfold
  <2>4. SumFcn(f, S)[S \ {Pick(S)}] = Sum(f, S \ {Pick(S)})
    BY SumFcnLocal
  <2> QED BY <2>1, <2>2, <2>3, <2>4
<1> QED BY <1>1, <1>2

\* A sum of natural numbers is one.
LEMMA SumNat ==
    ASSUME NEW f, NEW S, IsFiniteSet(S), \A x \in S : f[x] \in Nat
    PROVE  Sum(f, S) \in Nat
<1> DEFINE X == {n \in Nat : \A T \in SUBSET S : Cardinality(T) = n => Sum(f, T) \in Nat}
<1>1. \A T \in SUBSET S : IsFiniteSet(T) /\ Cardinality(T) \in Nat
  BY FS_Subset, FS_CardinalityType
<1>2. 0 \in X
  BY <1>1, FS_EmptySet, SumUnfold
<1>3. ASSUME NEW n \in Nat, n \in X PROVE n + 1 \in X
  <2> SUFFICES ASSUME NEW T \in SUBSET S, Cardinality(T) = n + 1
               PROVE  Sum(f, T) \in Nat
    OBVIOUS
  <2>1. T # {} /\ IsFiniteSet(T)
    BY <1>1, FS_EmptySet
  <2>2. Pick(T) \in T /\ Sum(f, T) = f[Pick(T)] + Sum(f, T \ {Pick(T)})
    BY <2>1, SumUnfold
  <2>3. Cardinality(T \ {Pick(T)}) = n
    <3>1. Cardinality(T \ {Pick(T)}) = Cardinality(T) - 1
      BY <2>1, <2>2, FS_RemoveElement
    <3> QED BY <3>1
  <2>4. Sum(f, T \ {Pick(T)}) \in Nat /\ f[Pick(T)] \in Nat
    BY <1>3, <2>2, <2>3
  <2> QED BY <2>2, <2>4
<1> HIDE DEF X
<1>4. Cardinality(S) \in X
  BY <1>1, <1>2, <1>3, NatSetInduction
<1> QED BY <1>4 DEF X

\* Any element may be taken out first.
LEMMA SumRemove ==
    ASSUME NEW f, NEW S, IsFiniteSet(S), \A x \in S : f[x] \in Nat, NEW x \in S
    PROVE  Sum(f, S) = f[x] + Sum(f, S \ {x})
<1> DEFINE X == {n \in Nat : \A T \in SUBSET S : Cardinality(T) = n =>
                   \A y \in T : Sum(f, T) = f[y] + Sum(f, T \ {y})}
<1>1. \A T \in SUBSET S : /\ IsFiniteSet(T) /\ Cardinality(T) \in Nat
                          /\ Sum(f, T) \in Nat
  BY FS_Subset, FS_CardinalityType, SumNat
<1>2. 0 \in X
  BY <1>1, FS_EmptySet
<1>3. ASSUME NEW n \in Nat, n \in X PROVE n + 1 \in X
  <2> SUFFICES ASSUME NEW T \in SUBSET S, Cardinality(T) = n + 1, NEW y \in T
               PROVE  Sum(f, T) = f[y] + Sum(f, T \ {y})
    OBVIOUS
  <2> DEFINE p == Pick(T)
  <2>1. p \in T /\ Sum(f, T) = f[p] + Sum(f, T \ {p})
    BY <1>1, SumUnfold
  <2>2. CASE p = y
    BY <2>1, <2>2
  <2>3. CASE p # y
    <3> DEFINE R == T \ {y, p}
    <3>1. /\ (T \ {p}) \ {y} = R /\ (T \ {y}) \ {p} = R
          /\ y \in T \ {p} /\ p \in T \ {y}
          /\ T \ {p} \in SUBSET S /\ T \ {y} \in SUBSET S /\ R \in SUBSET S
      BY <2>1, <2>3
    <3>2. Cardinality(T \ {p}) = n /\ Cardinality(T \ {y}) = n
      <4>1. /\ Cardinality(T \ {p}) = Cardinality(T) - 1
            /\ Cardinality(T \ {y}) = Cardinality(T) - 1
        BY <1>1, <2>1, FS_RemoveElement
      <4> QED BY <4>1
    <3>3. Sum(f, T \ {p}) = f[y] + Sum(f, R)
      BY <1>3, <3>1, <3>2
    <3>4. Sum(f, T \ {y}) = f[p] + Sum(f, R)
      BY <1>3, <3>1, <3>2
    <3>5. f[p] \in Nat /\ f[y] \in Nat /\ Sum(f, R) \in Nat
      BY <1>1, <2>1, <3>1
    <3> HIDE DEF p, R
    <3> QED BY <2>1, <3>3, <3>4, <3>5
  <2> QED BY <2>2, <2>3
<1> HIDE DEF X
<1>4. Cardinality(S) \in X
  BY <1>1, <1>2, <1>3, NatSetInduction
<1> QED BY <1>4 DEF X

\* One element more.
LEMMA SumAdd ==
    ASSUME NEW f, NEW S, IsFiniteSet(S), NEW x, x \notin S,
           \A y \in S \union {x} : f[y] \in Nat
    PROVE  Sum(f, S \union {x}) = f[x] + Sum(f, S)
<1>1. IsFiniteSet(S \union {x}) /\ (S \union {x}) \ {x} = S
  BY FS_AddElement
<1>2. Sum(f, S \union {x}) = f[x] + Sum(f, (S \union {x}) \ {x})
  BY <1>1, SumRemove
<1> QED BY <1>1, <1>2

\* The sum over two sets that have no element in common.
LEMMA SumUnion ==
    ASSUME NEW f, NEW S, NEW T, IsFiniteSet(S), IsFiniteSet(T), S \intersect T = {},
           \A y \in S \union T : f[y] \in Nat
    PROVE  Sum(f, S \union T) = Sum(f, S) + Sum(f, T)
<1> DEFINE X == {U \in SUBSET T : Sum(f, S \union U) = Sum(f, S) + Sum(f, U)}
<1>0. \A U \in SUBSET T : /\ IsFiniteSet(U) /\ IsFiniteSet(S \union U)
                          /\ Sum(f, U) \in Nat
  <2> TAKE U \in SUBSET T
  <2>1. IsFiniteSet(U)
    BY FS_Subset
  <2>2. IsFiniteSet(S \union U)
    BY <2>1, FS_Union
  <2> QED BY <2>1, <2>2, SumNat
<1>1. {} \in X
  <2>1. S \union {} = S /\ Sum(f, {}) = 0 /\ Sum(f, S) \in Nat
    BY SumUnfold, SumNat
  <2> QED BY <2>1
<1>2. ASSUME NEW U \in SUBSET T, NEW x \in T, U \in X, x \notin U
      PROVE  U \union {x} \in X
  <2>1. Sum(f, U \union {x}) = f[x] + Sum(f, U)
    BY <1>0, <1>2, SumAdd
  <2>2. Sum(f, (S \union U) \union {x}) = f[x] + Sum(f, S \union U)
    BY <1>0, <1>2, SumAdd
  <2>3. (S \union U) \union {x} = S \union (U \union {x})
    OBVIOUS
  <2>4. Sum(f, S \union U) = Sum(f, S) + Sum(f, U)
    BY <1>2
  <2>5. Sum(f, S) \in Nat /\ Sum(f, U) \in Nat /\ f[x] \in Nat
    BY <1>0, SumNat
  <2>6. Sum(f, S \union (U \union {x})) = Sum(f, S) + Sum(f, U \union {x})
    <3>1. Sum(f, S \union (U \union {x})) = f[x] + Sum(f, S \union U)
      BY <2>2, <2>3, Zenon
    <3> QED BY <2>1, <2>4, <2>5, <3>1
  <2> QED BY <2>6
<1> HIDE DEF X
<1>3. T \in X
  BY <1>1, <1>2, SubsetInduction
<1> QED BY <1>3 DEF X

\* Summands that are no larger give a sum that is no larger.
LEMMA SumMonotone ==
    ASSUME NEW f, NEW g, NEW S, IsFiniteSet(S),
           \A x \in S : f[x] \in Nat /\ g[x] \in Nat /\ f[x] <= g[x]
    PROVE  Sum(f, S) <= Sum(g, S)
<1> DEFINE X == {T \in SUBSET S : Sum(f, T) <= Sum(g, T)}
<1>1. {} \in X
  <2>1. Sum(f, {}) = 0 /\ Sum(g, {}) = 0
    BY SumUnfold
  <2> QED BY <2>1
<1>2. ASSUME NEW T \in SUBSET S, NEW x \in S, T \in X, x \notin T
      PROVE  T \union {x} \in X
  <2>1. IsFiniteSet(T)
    BY FS_Subset
  <2>2. /\ Sum(f, T \union {x}) = f[x] + Sum(f, T)
        /\ Sum(g, T \union {x}) = g[x] + Sum(g, T)
    BY <1>2, <2>1, SumAdd
  <2>3. Sum(f, T) \in Nat /\ Sum(g, T) \in Nat /\ Sum(f, T) <= Sum(g, T)
    BY <1>2, <2>1, SumNat
  <2>4. Sum(f, T \union {x}) <= Sum(g, T \union {x})
    BY <2>2, <2>3
  <2> QED BY <2>4
<1> HIDE DEF X
<1>3. S \in X
  BY <1>1, <1>2, SubsetInduction
<1> QED BY <1>3 DEF X

\* Functions that agree on a set have the same sum over it.
LEMMA SumEqual ==
    ASSUME NEW f, NEW g, NEW S, IsFiniteSet(S),
           \A x \in S : f[x] \in Nat /\ f[x] = g[x]
    PROVE  Sum(f, S) = Sum(g, S)
<1>1. Sum(f, S) <= Sum(g, S) /\ Sum(g, S) <= Sum(f, S)
  BY SumMonotone
<1>2. Sum(f, S) \in Nat /\ Sum(g, S) \in Nat
  BY SumNat
<1> QED BY <1>1, <1>2

\* A sum over fewer elements is no larger.
LEMMA SumSubset ==
    ASSUME NEW f, NEW S, IsFiniteSet(S), \A x \in S : f[x] \in Nat, NEW T \in SUBSET S
    PROVE  Sum(f, T) <= Sum(f, S)
<1>1. IsFiniteSet(T) /\ IsFiniteSet(S \ T) /\ T \intersect (S \ T) = {}
      /\ T \union (S \ T) = S
  BY FS_Subset
<1>2. Sum(f, T \union (S \ T)) = Sum(f, T) + Sum(f, S \ T)
  BY <1>1, SumUnion
<1>3. Sum(f, T) \in Nat /\ Sum(f, S \ T) \in Nat
  BY <1>1, SumNat
<1>4. Sum(f, S) = Sum(f, T) + Sum(f, S \ T)
  BY <1>1, <1>2, Zenon
<1> QED BY <1>3, <1>4

\* g is f with one added to the value at x.
Bumped(f, g, x, S) == g[x] = f[x] + 1 /\ \A y \in S \ {x} : g[y] = f[y]

\* Adding one to one of the values adds one to the sum.
LEMMA SumBump ==
    ASSUME NEW f, NEW g, NEW S, IsFiniteSet(S), NEW x \in S,
           \A y \in S : f[y] \in Nat, Bumped(f, g, x, S)
    PROVE  Sum(g, S) = Sum(f, S) + 1
<1>0. g[x] = f[x] + 1 /\ \A y \in S \ {x} : g[y] = f[y]
  BY DEF Bumped
<1>1. IsFiniteSet(S \ {x}) /\ \A y \in S : g[y] \in Nat
  BY <1>0, FS_Subset
<1>2. Sum(f, S) = f[x] + Sum(f, S \ {x})
  BY SumRemove
<1>3. Sum(g, S) = g[x] + Sum(g, S \ {x})
  BY <1>1, SumRemove
<1>4. Sum(g, S \ {x}) = Sum(f, S \ {x}) /\ Sum(f, S \ {x}) \in Nat
  BY <1>0, <1>1, SumEqual, SumNat
<1> QED BY <1>0, <1>2, <1>3, <1>4

=============================================================================
