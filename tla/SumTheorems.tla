---------------------------- MODULE SumTheorems -----------------------------
(***************************************************************************)
(* Sums over finite sets, for the proofs about balances and charge runs.    *)
(* MapThenSumSet of the community modules is a fold: a CHOOSE of a function *)
(* that satisfies a recursion over the subsets.  Such a function is unique  *)
(* and exists, by induction over the finite subsets of a set; what a sum    *)
(* does when an element comes or goes, is renamed or weighs nothing follows.*)
(***************************************************************************)
EXTENDS Integers, FiniteSets, FiniteSetsExt, FiniteSetTheorems, WellFoundedInduction, TLAPS

\* The sum of a function over a set.
Sum(f, S) == MapThenSumSet(LAMBDA x : f[x], S)

Pick(s) == CHOOSE x \in s : TRUE

\* g tells the sum of f over every subset of S.
Adds(g, f, S) ==
    g = [s \in SUBSET S |-> IF s = {} THEN 0 ELSE f[Pick(s)] + g[s \ {Pick(s)}]]

\* What holds of a set whenever it holds of its strict subsets holds of every finite set.
LEMMA SubsetInduction ==
    ASSUME NEW S, IsFiniteSet(S), NEW Q,
           \A s \in SUBSET S : (\A t \in SUBSET s : t # s => t \in Q) => s \in Q
    PROVE  S \in Q
<1>. DEFINE Bad == {s \in SUBSET S : s \notin Q}
<1>1. SUFFICES ASSUME Bad # {}
               PROVE  FALSE
  OBVIOUS
<1>2. Bad \subseteq FiniteSubsetsOf(S)
  BY FS_Subset DEF FiniteSubsetsOf
<1>. HIDE DEF Bad
<1>. DEFINE R == StrictSubsetOrdering(S)
            F == FiniteSubsetsOf(S)
<1>5. IsWellFoundedOn(R, F)
  BY FS_StrictSubsetOrderingWellFounded
<1>. HIDE DEF R, F
<1>6. PICK s \in Bad : \A t \in Bad : ~(<<t, s>> \in R)
  BY <1>1, <1>2, <1>5, WFMin DEF F
<1>. USE DEF Bad, R
<1>3. \A t \in Bad : ~(<<t, s>> \in StrictSubsetOrdering(S))
  BY <1>6
<1>4. \A t \in SUBSET s : t # s => t \in Q
  BY <1>3 DEF StrictSubsetOrdering
<1>. QED
  BY <1>3, <1>4

\* What is picked from a set that is not empty is in it.
LEMMA PickIsIn == \A s : s # {} => Pick(s) \in s
  BY DEF Pick

\* The fold of the community modules, as a choice of a solution.
LEMMA SumUnfolds ==
    ASSUME NEW f, NEW S
    PROVE  Sum(f, S) = (CHOOSE g : Adds(g, f, S))[S]
  BY DEF Sum, MapThenSumSet, MapThenFoldSet, Adds, Pick

\* There is at most one solution.
LEMMA SolutionsAgree ==
    ASSUME NEW f, NEW A, NEW B, NEW g, NEW h, Adds(g, f, A), Adds(h, f, B),
           NEW S \in SUBSET (A \cap B), IsFiniteSet(S)
    PROVE  g[S] = h[S]
<1>. DEFINE Q == {s \in SUBSET S : g[s] = h[s]}
<1>1. ASSUME NEW s \in SUBSET S, \A t \in SUBSET s : t # s => t \in Q
      PROVE  s \in Q
  <2>1. CASE s = {}
    BY <2>1 DEF Adds
  <2>2. CASE s # {}
    <3>. DEFINE t == s \ {Pick(s)}
    <3>1. t \in SUBSET s /\ t # s
      BY <2>2, PickIsIn
    <3>2. g[t] = h[t]
      BY <3>1, <1>1
    <3>. HIDE DEF t
    <3>3. g[s] = f[Pick(s)] + g[t] /\ h[s] = f[Pick(s)] + h[t]
      BY <2>2 DEF Adds, t
    <3>. QED
      BY <3>2, <3>3
  <2>. QED
    BY <2>1, <2>2
<1>. HIDE DEF Q
<1>2. S \in Q
  BY <1>1, SubsetInduction
<1>. QED
  BY <1>2 DEF Q

\* Where there are solutions, a sum is that of all but the picked element, and that.
LEMMA StepOfSolution ==
    ASSUME NEW f, NEW S, IsFiniteSet(S), S # {}, \E g : Adds(g, f, S),
           \E g : Adds(g, f, S \ {Pick(S)})
    PROVE  Sum(f, S) = f[Pick(S)] + Sum(f, S \ {Pick(S)})
<1>. DEFINE T == S \ {Pick(S)}
            g == CHOOSE k : Adds(k, f, S)
            h == CHOOSE k : Adds(k, f, T)
<1>1. Adds(g, f, S) /\ Adds(h, f, T)
  OBVIOUS
<1>2. Sum(f, S) = g[S] /\ Sum(f, T) = h[T]
  BY SumUnfolds
<1>3. T \in SUBSET (S \cap T) /\ IsFiniteSet(T)
  BY FS_Subset
<1>. HIDE DEF g, h, T
<1>4. g[T] = h[T]
  BY <1>1, <1>3, SolutionsAgree
<1>5. g[S] = f[Pick(S)] + g[T]
  BY <1>1 DEF Adds, T
<1>. QED
  BY <1>2, <1>4, <1>5 DEF T

\* There is a solution over every finite set.
LEMMA SolutionExists ==
    ASSUME NEW f, NEW S, IsFiniteSet(S)
    PROVE  \E g : Adds(g, f, S)
<1>. DEFINE Q == {s \in SUBSET S : \E g : Adds(g, f, s)}
<1>1. ASSUME NEW s \in SUBSET S, \A t \in SUBSET s : t # s => t \in Q
      PROVE  s \in Q
  <2>. DEFINE h == [t \in SUBSET s |->
                      IF t = {} THEN 0 ELSE f[Pick(t)] + Sum(f, t \ {Pick(t)})]
  <2>1. ASSUME NEW t \in SUBSET s, t # s
        PROVE  h[t] = Sum(f, t)
    <3>1. IsFiniteSet(t) /\ \E g : Adds(g, f, t)
      BY <1>1, <2>1, FS_Subset
    <3>2. CASE t = {}
      <4>1. PICK g : g = (CHOOSE k : Adds(k, f, t))
        OBVIOUS
      <4>2. Adds(g, f, t) /\ Sum(f, t) = g[t]
        BY <3>1, <4>1, SumUnfolds
      <4>. QED
        BY <3>2, <4>2 DEF Adds
    <3>3. CASE t # {}
      <4>1. t \ {Pick(t)} \in SUBSET s /\ t \ {Pick(t)} # s
        BY <3>3, PickIsIn
      <4>2. \E g : Adds(g, f, t \ {Pick(t)})
        BY <1>1, <4>1
      <4>3. Sum(f, t) = f[Pick(t)] + Sum(f, t \ {Pick(t)})
        BY <3>1, <3>3, <4>2, StepOfSolution
      <4>. QED
        BY <3>3, <4>3
    <3>. QED
      BY <3>2, <3>3
  <2>2. ASSUME NEW t \in SUBSET s, t # {}
        PROVE  h[t \ {Pick(t)}] = Sum(f, t \ {Pick(t)})
    <3>1. t \ {Pick(t)} \in SUBSET s /\ t \ {Pick(t)} # s
      BY <2>2, PickIsIn
    <3>. HIDE DEF h
    <3>. QED
      BY <3>1, <2>1
  <2>3. Adds(h, f, s)
    <3>. DEFINE k == [t \in SUBSET s |-> IF t = {} THEN 0 ELSE f[Pick(t)] + h[t \ {Pick(t)}]]
    <3>1. \A t \in SUBSET s :
            h[t] = IF t = {} THEN 0 ELSE f[Pick(t)] + Sum(f, t \ {Pick(t)})
      OBVIOUS
    <3>2. h = [t \in SUBSET s |-> h[t]]
      OBVIOUS
    <3>. HIDE DEF h
    <3>3. \A t \in SUBSET s : h[t] = k[t]
      BY <3>1, <2>2
    <3>4. k = [t \in SUBSET s |-> k[t]]
      OBVIOUS
    <3>5. h = k
      <4>. HIDE DEF k
      <4>. QED
        BY <3>2, <3>3, <3>4
    <3>. QED
      BY <3>5 DEF Adds
  <2>. QED
    BY <2>3
<1>. HIDE DEF Q
<1>2. S \in Q
  BY <1>1, SubsetInduction
<1>. QED
  BY <1>2 DEF Q

-----------------------------------------------------------------------------
\* The sum over no elements.
LEMMA SumOfNothing == \A f : Sum(f, {}) = 0
<1>1. TAKE f
<1>. DEFINE g == CHOOSE k : Adds(k, f, {})
<1>2. Adds(g, f, {})
  BY SolutionExists, FS_EmptySet
<1>3. Sum(f, {}) = g[{}]
  BY SumUnfolds
<1>. HIDE DEF g
<1>. QED
  BY <1>2, <1>3 DEF Adds

\* The recursion the fold stands for.
LEMMA SumOfPicked ==
    ASSUME NEW f, NEW S, IsFiniteSet(S), S # {}
    PROVE  Sum(f, S) = f[Pick(S)] + Sum(f, S \ {Pick(S)})
BY SolutionExists, StepOfSolution, FS_Subset

\* Integers add up to an integer.
LEMMA SumIsInteger ==
    ASSUME NEW f, NEW S, IsFiniteSet(S), \A x \in S : f[x] \in Int
    PROVE  Sum(f, S) \in Int
<1>. DEFINE Q == {s \in SUBSET S : Sum(f, s) \in Int}
<1>1. ASSUME NEW s \in SUBSET S, \A t \in SUBSET s : t # s => t \in Q
      PROVE  s \in Q
  <2>1. CASE s = {}
    BY <2>1, SumOfNothing
  <2>2. CASE s # {}
    <3>1. s \ {Pick(s)} \in Q /\ Pick(s) \in S
      BY <1>1, <2>2, PickIsIn
    <3>2. Sum(f, s) = f[Pick(s)] + Sum(f, s \ {Pick(s)})
      BY <2>2, SumOfPicked, FS_Subset
    <3>. QED
      BY <3>1, <3>2
  <2>. QED
    BY <2>1, <2>2
<1>. HIDE DEF Q
<1>2. S \in Q
  BY <1>1, SubsetInduction
<1>. QED
  BY <1>2 DEF Q

\* Any element can be taken out of a sum, not only the one picked.
LEMMA SumRemove ==
    ASSUME NEW f, NEW S, IsFiniteSet(S), \A y \in S : f[y] \in Int, NEW x \in S
    PROVE  Sum(f, S) = f[x] + Sum(f, S \ {x})
<1>. DEFINE Q == {s \in SUBSET S : \A y \in s : Sum(f, s) = f[y] + Sum(f, s \ {y})}
<1>1. ASSUME NEW s \in SUBSET S, \A t \in SUBSET s : t # s => t \in Q
      PROVE  s \in Q
  <2>1. SUFFICES ASSUME NEW y \in s
                 PROVE  Sum(f, s) = f[y] + Sum(f, s \ {y})
    OBVIOUS
  <2>. DEFINE p == Pick(s)
              P == s \ {p}
              Y == s \ {y}
              R == P \ {y}
  <2>2. p \in s /\ IsFiniteSet(s)
    BY PickIsIn, FS_Subset
  <2>3. /\ P \in SUBSET s /\ P # s
        /\ Y \in SUBSET s /\ Y # s
        /\ R = Y \ {p}
        /\ IsFiniteSet(P) /\ IsFiniteSet(Y) /\ IsFiniteSet(R)
    BY <2>2, FS_Subset
  <2>4. Sum(f, s) = f[p] + Sum(f, P)
    BY <2>2, SumOfPicked
  <2>5. CASE y = p
    BY <2>4, <2>5
  <2>6. CASE y # p
    <3>1. y \in P /\ p \in Y
      BY <2>2, <2>6
    <3>. HIDE DEF p, P, Y, R
    <3>2. P \in Q /\ Y \in Q
      BY <1>1, <2>3
    <3>3. Sum(f, P) = f[y] + Sum(f, R) /\ Sum(f, Y) = f[p] + Sum(f, R)
      BY <3>1, <3>2, <2>3 DEF R
    <3>4. f[p] \in Int /\ f[y] \in Int
      BY <2>2
    <3>5. Sum(f, R) \in Int
      <4>1. \A z \in R : f[z] \in Int
        BY DEF R, P
      <4>. QED
        BY <4>1, <2>3, SumIsInteger
    <3>6. Sum(f, s) = f[y] + Sum(f, Y)
      BY <2>4, <3>3, <3>4, <3>5
    <3>. QED
      BY <3>6 DEF Y
  <2>. QED
    BY <2>5, <2>6
<1>. HIDE DEF Q
<1>2. S \in Q
  BY <1>1, SubsetInduction
<1>. QED
  BY <1>2 DEF Q

\* An element that comes adds its weight.
LEMMA SumAdd ==
    ASSUME NEW f, NEW S, IsFiniteSet(S), NEW x, x \notin S, f[x] \in Int,
           \A y \in S : f[y] \in Int
    PROVE  Sum(f, S \cup {x}) = Sum(f, S) + f[x]
<1>. DEFINE T == S \cup {x}
<1>1. IsFiniteSet(T) /\ (\A y \in T : f[y] \in Int) /\ x \in T /\ T \ {x} = S
  BY FS_AddElement
<1>. HIDE DEF T
<1>2. Sum(f, T) = f[x] + Sum(f, T \ {x})
  BY <1>1, SumRemove
<1>3. Sum(f, S) \in Int
  BY SumIsInteger
<1>4. Sum(f, T \ {x}) = Sum(f, S)
  BY <1>1
<1>5. Sum(f, T) = Sum(f, S) + f[x]
  BY <1>2, <1>3, <1>4
<1>. QED
  BY <1>5 DEF T

\* Reindexing: what is summed over S is what is summed over T, member by member.
LEMMA SumReindexed ==
    ASSUME NEW f, NEW S, NEW g, NEW T, IsFiniteSet(S), NEW m \in [S -> T],
           \A x, y \in S : m[x] = m[y] => x = y,
           \A z \in T : \E x \in S : m[x] = z,
           \A x \in S : f[x] \in Int /\ g[m[x]] = f[x]
    PROVE  Sum(f, S) = Sum(g, T)
<1>. DEFINE Of(s) == {m[x] : x \in s}
            Q == {s \in SUBSET S : IsFiniteSet(Of(s)) /\ Sum(f, s) = Sum(g, Of(s))}
<1>1. ASSUME NEW s \in SUBSET S, \A t \in SUBSET s : t # s => t \in Q
      PROVE  s \in Q
  <2>1. CASE s = {}
    <3>1. Of(s) = {}
      BY <2>1
    <3>. QED
      BY <3>1, <2>1, SumOfNothing, FS_EmptySet
  <2>2. CASE s # {}
    <3>. DEFINE p == Pick(s)
                t == s \ {p}
    <3>1. p \in s /\ t \in SUBSET s /\ t # s /\ IsFiniteSet(s) /\ IsFiniteSet(t)
      BY <2>2, PickIsIn, FS_Subset
    <3>2. IsFiniteSet(Of(t)) /\ Sum(f, t) = Sum(g, Of(t))
      BY <3>1, <1>1
    <3>3. m[p] \notin Of(t)
      BY <3>1
    <3>4. Of(s) = Of(t) \cup {m[p]}
      BY <3>1
    <3>5. IsFiniteSet(Of(s))
      <4>. HIDE DEF Of, p, t
      <4>. QED
        BY <3>2, <3>4, FS_AddElement
    <3>6. /\ g[m[p]] = f[p] /\ f[p] \in Int
          /\ \A z \in Of(t) : g[z] \in Int
      BY <3>1
    <3>7. Sum(f, s) = f[p] + Sum(f, t)
      BY <2>2, <3>1, SumOfPicked
    <3>8. Sum(g, Of(t) \cup {m[p]}) = Sum(g, Of(t)) + g[m[p]]
      <4>. HIDE DEF Of, p, t
      <4>. QED
        BY <3>2, <3>3, <3>6, SumAdd
    <3>9. Sum(g, Of(t)) \in Int
      <4>. HIDE DEF Of
      <4>. QED
        BY <3>2, <3>6, SumIsInteger
    <3>10. Sum(f, s) = Sum(g, Of(s))
      <4>. HIDE DEF Of, p, t
      <4>. QED
        BY <3>2, <3>4, <3>6, <3>7, <3>8, <3>9
    <3>. QED
      BY <3>5, <3>10
  <2>. QED
    BY <2>1, <2>2
<1>2. S \in Q
  <2>. HIDE DEF Q
  <2>. QED
    BY <1>1, SubsetInduction
<1>3. Of(S) = T
  OBVIOUS
<1>. QED
  BY <1>2, <1>3

\* A sum depends on the weights of its own elements only.
LEMMA SumSame ==
    ASSUME NEW f, NEW g, NEW S, IsFiniteSet(S), \A x \in S : f[x] \in Int /\ g[x] = f[x]
    PROVE  Sum(f, S) = Sum(g, S)
<1>. DEFINE m == [x \in S |-> x]
<1>1. /\ m \in [S -> S]
      /\ \A x, y \in S : m[x] = m[y] => x = y
      /\ \A z \in S : \E x \in S : m[x] = z
      /\ \A x \in S : f[x] \in Int /\ g[m[x]] = f[x]
  OBVIOUS
<1>. HIDE DEF m
<1>. QED
  BY <1>1, SumReindexed

\* The sum over two sets that share nothing.
LEMMA SumOfTwo ==
    ASSUME NEW f, NEW S, NEW T, IsFiniteSet(S), IsFiniteSet(T), S \cap T = {},
           \A x \in S \cup T : f[x] \in Int
    PROVE  Sum(f, S \cup T) = Sum(f, S) + Sum(f, T)
<1>. DEFINE Q == {t \in SUBSET T : Sum(f, S \cup t) = Sum(f, S) + Sum(f, t)}
<1>1. ASSUME NEW s \in SUBSET T, \A t \in SUBSET s : t # s => t \in Q
      PROVE  s \in Q
  <2>0. Sum(f, S) \in Int
    BY SumIsInteger
  <2>1. CASE s = {}
    <3>1. S \cup s = S /\ Sum(f, s) = 0
      BY <2>1, SumOfNothing
    <3>2. Sum(f, S \cup s) = Sum(f, S)
      BY <3>1
    <3>. QED
      BY <3>1, <3>2, <2>0
  <2>2. CASE s # {}
    <3>. DEFINE p == Pick(s)
                t == s \ {p}
    <3>1. p \in s /\ t \in SUBSET s /\ t # s /\ IsFiniteSet(s) /\ IsFiniteSet(t)
      BY <2>2, PickIsIn, FS_Subset
    <3>2. Sum(f, S \cup t) = Sum(f, S) + Sum(f, t)
      BY <3>1, <1>1
    <3>3. Sum(f, s) = f[p] + Sum(f, t)
      BY <2>2, <3>1, SumOfPicked
    <3>4. /\ IsFiniteSet(S \cup t) /\ p \notin S \cup t /\ f[p] \in Int
          /\ \A y \in S \cup t : f[y] \in Int
          /\ S \cup s = (S \cup t) \cup {p}
      BY <3>1, FS_Union
    <3>. HIDE DEF p, t
    <3>5. Sum(f, (S \cup t) \cup {p}) = Sum(f, S \cup t) + f[p]
      BY <3>4, SumAdd
    <3>6. Sum(f, t) \in Int
      BY <3>1, <3>4, SumIsInteger
    <3>7. Sum(f, S \cup s) = Sum(f, (S \cup t) \cup {p})
      BY <3>4
    <3>8. Sum(f, S \cup s) = Sum(f, S) + Sum(f, s)
      BY <2>0, <3>2, <3>3, <3>4, <3>5, <3>6, <3>7
    <3>. QED
      BY <3>8
  <2>. QED
    BY <2>1, <2>2
<1>. HIDE DEF Q
<1>2. T \in Q
  BY <1>1, SubsetInduction
<1>. QED
  BY <1>2 DEF Q

\* What a fold chooses as its function of subsets is what Sum chooses.
LEMMA SolutionSums ==
    ASSUME NEW f, NEW S, IsFiniteSet(S), NEW h, Adds(h, f, S)
    PROVE  h[S] = Sum(f, S)
<1>1. PICK k : k = CHOOSE j : Adds(j, f, S)
  OBVIOUS
<1>2. Adds(k, f, S) /\ Sum(f, S) = k[S]
  BY <1>1, SumUnfolds
<1>. QED
  BY <1>2, SolutionsAgree

\* Natural numbers add up to one.
LEMMA SumIsNatural ==
    ASSUME NEW f, NEW S, IsFiniteSet(S), \A x \in S : f[x] \in Nat
    PROVE  Sum(f, S) \in Nat
<1>. DEFINE Q == {s \in SUBSET S : Sum(f, s) \in Nat}
<1>1. ASSUME NEW s \in SUBSET S, \A t \in SUBSET s : t # s => t \in Q
      PROVE  s \in Q
  <2>1. CASE s = {}
    BY <2>1, SumOfNothing
  <2>2. CASE s # {}
    <3>1. s \ {Pick(s)} \in Q /\ Pick(s) \in S
      BY <1>1, <2>2, PickIsIn
    <3>2. Sum(f, s) = f[Pick(s)] + Sum(f, s \ {Pick(s)})
      BY <2>2, SumOfPicked, FS_Subset
    <3>. QED
      BY <3>1, <3>2
  <2>. QED
    BY <2>1, <2>2
<1>. HIDE DEF Q
<1>2. S \in Q
  BY <1>1, SubsetInduction
<1>. QED
  BY <1>2 DEF Q

-----------------------------------------------------------------------------
(* Naturals, with a set in place of a predicate *)

\* A set of numbers that is not empty has a least one.
LEMMA LeastNumber ==
    ASSUME NEW S \in SUBSET Nat, S # {}
    PROVE  \E n \in S : \A m \in S : n <= m
<1>1. PICK top \in S : TRUE
  OBVIOUS
<1>. DEFINE T == S \cap (0 .. top)
            Q == {t \in SUBSET T : t # {} => \E n \in t : \A m \in t : n <= m}
<1>2. IsFiniteSet(T)
  <2>1. IsFiniteSet(0 .. top)
    BY FS_Interval
  <2>. QED
    BY <2>1, FS_Subset
<1>3. ASSUME NEW t \in SUBSET T, \A s \in SUBSET t : s # t => s \in Q
      PROVE  t \in Q
  <2>. SUFFICES ASSUME t # {}
                PROVE  \E n \in t : \A m \in t : n <= m
    OBVIOUS
  <2>1. PICK x \in t : TRUE
    OBVIOUS
  <2>2. CASE t = {x}
    BY <2>2
  <2>3. CASE t \ {x} # {}
    <3>1. t \ {x} \in Q
      BY <1>3, <2>1
    <3>2. PICK n \in t \ {x} : \A m \in t \ {x} : n <= m
      BY <2>3, <3>1
    <3>. QED
      BY <3>2
  <2>. QED
    BY <2>2, <2>3
<1>. HIDE DEF Q, T
<1>4. T \in Q
  BY <1>2, <1>3, SubsetInduction
<1>5. PICK n \in T : \A m \in T : n <= m
  BY <1>1, <1>4 DEF Q, T
<1>. QED
  BY <1>5 DEF T

\* Induction over the numbers.
LEMMA NumberInduction ==
    ASSUME NEW Q, 0 \in Q, \A n \in Nat : n \in Q => n + 1 \in Q
    PROVE  Nat \subseteq Q
<1>. SUFFICES ASSUME Nat \ Q # {}
              PROVE  FALSE
  OBVIOUS
<1>1. PICK n \in Nat \ Q : \A m \in Nat \ Q : n <= m
  BY LeastNumber
<1>2. n # 0 /\ n - 1 \in Nat /\ n - 1 \in Q
  BY <1>1
<1>. QED
  BY <1>1, <1>2

=============================================================================
