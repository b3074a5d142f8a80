----------------------------- MODULE Sums_proofs -----------------------------
(***************************************************************************)
(* Laws of finite sums.  Total is a fold that takes the elements of its    *)
(* set in an order of its own; here the order is shown not to matter.  The *)
(* inductions are over sets of sets, by a smallest counterexample.         *)
(***************************************************************************)
EXTENDS Sums, FiniteSetTheorems, TLAPS

\* What holds of a set when it holds of all the smaller ones holds of every
\* subset of a finite set.
LEMMA SubsetInduction ==
    ASSUME NEW S, IsFiniteSet(S), NEW Good,
           \A U \in SUBSET S : (\A V \in SUBSET U : V # U => V \in Good) => U \in Good
    PROVE  SUBSET S \subseteq Good
<1> SUFFICES ASSUME ~(SUBSET S \subseteq Good)
             PROVE  FALSE
  OBVIOUS
<1> DEFINE Bad == (SUBSET S) \ Good
<1>1. IsWellFoundedOn(StrictSubsetOrdering(S), SUBSET S)
  <2>1. FiniteSubsetsOf(S) = SUBSET S
    BY FS_FiniteSubsetsOfFinite
  <2>2. IsWellFoundedOn(StrictSubsetOrdering(S), FiniteSubsetsOf(S))
    BY FS_StrictSubsetOrderingWellFounded
  <2>3. QED
    BY <2>1, <2>2
<1>2. Bad \subseteq SUBSET S /\ Bad # {}
  OBVIOUS
<1>3. PICK U \in Bad : \A V \in Bad : <<V, U>> \notin StrictSubsetOrdering(S)
  <2> HIDE DEF Bad
  <2>1. QED
    BY <1>1, <1>2, WFMin
<1>4. ASSUME NEW V \in SUBSET U, V # U
      PROVE  V \in Good
  <2>1. V \in SUBSET S /\ U \in SUBSET S
    BY <1>4
  <2>2. <<V, U>> \in StrictSubsetOrdering(S)
    BY <1>4, <2>1 DEF StrictSubsetOrdering
  <2>3. QED
    BY <1>3, <2>1, <2>2
<1>5. QED
  BY <1>3, <1>4

-----------------------------------------------------------------------------
\* The fold: g holds the sums over all subsets of S.
Elem(U) == CHOOSE x \in U : TRUE
Rest(U) == U \ {Elem(U)}
IsSum(g, f, S) ==
    g = [U \in SUBSET S |-> IF U = {} THEN 0 ELSE f[Elem(U)] + g[Rest(U)]]

\* The fold takes its sum from such a table.
LEMMA TotalIsChosen ==
    ASSUME NEW f, NEW S
    PROVE  Total(f, S) = (CHOOSE g : IsSum(g, f, S))[S]
BY DEF Total, MapThenSumSet, MapThenFoldSet, IsSum, Elem, Rest

\* A set is one of its members and the rest.
LEMMA RestFacts ==
    ASSUME NEW U, U # {}
    PROVE  Elem(U) \in U /\ Rest(U) \in SUBSET U /\ Rest(U) # U
BY DEF Elem, Rest

\* What the table holds for a subset.
LEMMA IsSumStep ==
    ASSUME NEW f, NEW S, NEW g, IsSum(g, f, S), NEW U \in SUBSET S
    PROVE  g[U] = IF U = {} THEN 0 ELSE f[Elem(U)] + g[Rest(U)]
<1>1. g = [V \in SUBSET S |-> IF V = {} THEN 0 ELSE f[Elem(V)] + g[Rest(V)]]
  BY DEF IsSum
<1>2. QED
  BY ONLY <1>1, U \in SUBSET S

\* There is one such table at most.
LEMMA SumUnique ==
    ASSUME NEW f, NEW S, IsFiniteSet(S), NEW g, IsSum(g, f, S), NEW h, IsSum(h, f, S)
    PROVE  \A U \in SUBSET S : g[U] = h[U]
<1> DEFINE Good == {U \in SUBSET S : g[U] = h[U]}
<1>1. ASSUME NEW U \in SUBSET S, \A V \in SUBSET U : V # U => V \in Good
      PROVE  U \in Good
  <2>1. CASE U = {}
    BY <2>1, IsSumStep
  <2>2. CASE U # {}
    <3>1. Rest(U) \in Good
      BY <1>1, <2>2, RestFacts
    <3>2. /\ g[U] = f[Elem(U)] + g[Rest(U)]
          /\ h[U] = f[Elem(U)] + h[Rest(U)]
      BY <2>2, IsSumStep
    <3>3. QED
      BY <3>1, <3>2
  <2>3. QED
    BY <2>1, <2>2
<1>2. SUBSET S \subseteq Good
  <2> HIDE DEF Good
  <2>1. QED
    BY <1>1, SubsetInduction
<1>3. QED
  BY <1>2

\* There is one, and the totals make it up.
LEMMA TotalStep ==
    ASSUME NEW f, NEW S, IsFiniteSet(S)
    PROVE  Total(f, S) = IF S = {} THEN 0 ELSE f[Elem(S)] + Total(f, Rest(S))
<1> DEFINE Good == {U \in SUBSET S :
              Total(f, U) = IF U = {} THEN 0 ELSE f[Elem(U)] + Total(f, Rest(U))}
<1>1. ASSUME NEW U \in SUBSET S, \A V \in SUBSET U : V # U => V \in Good
      PROVE  U \in Good
  <2> DEFINE g == [V \in SUBSET U |->
                     IF V # U THEN Total(f, V)
                     ELSE IF U = {} THEN 0 ELSE f[Elem(U)] + Total(f, Rest(U))]
             k == CHOOSE k : IsSum(k, f, U)
  <2>1. ASSUME NEW V \in SUBSET U
        PROVE  g[V] = IF V = {} THEN 0 ELSE f[Elem(V)] + g[Rest(V)]
    <3>1. V # {} => Rest(V) \in SUBSET U /\ Rest(V) # U
      BY RestFacts
    <3>2. V # {} => g[Rest(V)] = Total(f, Rest(V))
      BY <3>1
    <3>3. CASE V = U
      BY <3>2, <3>3
    <3>4. CASE V # U
      <4>1. Total(f, V) = IF V = {} THEN 0 ELSE f[Elem(V)] + Total(f, Rest(V))
        BY <1>1, <3>4
      <4>2. QED
        BY <3>2, <3>4, <4>1
    <3>5. QED
      BY <3>3, <3>4
  <2>2. g = [V \in SUBSET U |-> g[V]]
    OBVIOUS
  <2>3. IsSum(g, f, U)
    <3> HIDE DEF g
    <3>1. QED
      BY <2>1, <2>2 DEF IsSum
  <2>4. IsSum(k, f, U)
    <3> HIDE DEF g
    <3>1. QED
      BY <2>3
  <2>5. k[U] = g[U]
    <3> HIDE DEF g, k
    <3>1. IsFiniteSet(U)
      BY FS_Subset
    <3>2. QED
      BY <2>3, <2>4, <3>1, SumUnique
  <2>6. Total(f, U) = k[U]
    BY TotalIsChosen
  <2>7. QED
    BY <2>5, <2>6
<1>2. SUBSET S \subseteq Good
  <2> HIDE DEF Good
  <2>1. QED
    BY <1>1, SubsetInduction
<1>3. QED
  BY <1>2

-----------------------------------------------------------------------------
\* The laws.  The sum over no elements is 0 ...
LEMMA TotalEmpty ==
    ASSUME NEW f
    PROVE  Total(f, {}) = 0
BY TotalStep, FS_EmptySet

\* ... and sums of integers are integers.
LEMMA TotalInt ==
    ASSUME NEW S, IsFiniteSet(S), NEW f, \A x \in S : f[x] \in Int
    PROVE  Total(f, S) \in Int
<1> DEFINE Good == {U \in SUBSET S : Total(f, U) \in Int}
<1>1. ASSUME NEW U \in SUBSET S, \A V \in SUBSET U : V # U => V \in Good
      PROVE  U \in Good
  <2>1. Total(f, U) = IF U = {} THEN 0 ELSE f[Elem(U)] + Total(f, Rest(U))
    BY TotalStep, FS_Subset
  <2>2. CASE U # {}
    <3>1. Rest(U) \in Good /\ f[Elem(U)] \in Int
      BY <1>1, <2>2, RestFacts
    <3>2. QED
      BY <2>1, <2>2, <3>1
  <2>3. QED
    BY <2>1, <2>2
<1>2. SUBSET S \subseteq Good
  <2> HIDE DEF Good
  <2>1. QED
    BY <1>1, SubsetInduction
<1>3. QED
  BY <1>2

\* Any element may be added last: the order does not matter.
LEMMA TotalPick ==
    ASSUME NEW S, IsFiniteSet(S), NEW f, \A x \in S : f[x] \in Int, NEW x \in S
    PROVE  Total(f, S) = f[x] + Total(f, S \ {x})
<1> DEFINE Good == {U \in SUBSET S :
                      \A y \in U : Total(f, U) = f[y] + Total(f, U \ {y})}
<1>1. ASSUME NEW U \in SUBSET S, \A V \in SUBSET U : V # U => V \in Good
      PROVE  U \in Good
  <2> SUFFICES ASSUME NEW y \in U
               PROVE  Total(f, U) = f[y] + Total(f, U \ {y})
    OBVIOUS
  <2> DEFINE e == Elem(U)
             R == Rest(U)
  <2>1. Total(f, U) = f[e] + Total(f, R)
    BY TotalStep, FS_Subset
  <2>2. e \in U /\ R \in SUBSET U /\ R # U /\ R = U \ {e}
    BY RestFacts DEF Rest
  <2>3. CASE y = e
    BY <2>1, <2>2, <2>3
  <2>4. CASE y # e
    <3> DEFINE Q == U \ {y}
    <3>1. /\ R \in Good /\ y \in R /\ Q \in Good /\ e \in Q
      BY <1>1, <2>2, <2>4
    <3>2. Total(f, R) = f[y] + Total(f, R \ {y})
      BY <3>1
    <3>3. Total(f, Q) = f[e] + Total(f, Q \ {e})
      BY <3>1
    <3>4. Q \ {e} = R \ {y}
      BY <2>2
    <3>5. /\ f[e] \in Int /\ f[y] \in Int /\ Total(f, R \ {y}) \in Int
      <4>1. /\ IsFiniteSet(R \ {y}) /\ R \ {y} \subseteq S
        BY <2>2, FS_Subset
      <4>2. QED
        BY <2>2, <4>1, TotalInt
    <3> HIDE DEF Q, R, e
    <3>6. Total(f, Q) = f[e] + Total(f, R \ {y})
      BY <3>3, <3>4
    <3>7. QED
      BY <2>1, <3>2, <3>5, <3>6 DEF Q
  <2>5. QED
    BY <2>3, <2>4
<1>2. SUBSET S \subseteq Good
  <2> HIDE DEF Good
  <2>1. QED
    BY <1>1, SubsetInduction
<1>3. QED
  BY <1>2

\* Functions that agree on the set have one sum over it.
LEMMA TotalEqual ==
    ASSUME NEW S, IsFiniteSet(S), NEW f, NEW g, \A x \in S : f[x] = g[x]
    PROVE  Total(f, S) = Total(g, S)
<1> DEFINE Good == {U \in SUBSET S : Total(f, U) = Total(g, U)}
<1>1. ASSUME NEW U \in SUBSET S, \A V \in SUBSET U : V # U => V \in Good
      PROVE  U \in Good
  <2>1. /\ Total(f, U) = IF U = {} THEN 0 ELSE f[Elem(U)] + Total(f, Rest(U))
        /\ Total(g, U) = IF U = {} THEN 0 ELSE g[Elem(U)] + Total(g, Rest(U))
    BY TotalStep, FS_Subset
  <2>2. CASE U # {}
    <3>1. Rest(U) \in Good /\ f[Elem(U)] = g[Elem(U)]
      BY <1>1, <2>2, RestFacts
    <3>2. QED
      BY <2>1, <2>2, <3>1
  <2>3. QED
    BY <2>1, <2>2
<1>2. SUBSET S \subseteq Good
  <2> HIDE DEF Good
  <2>1. QED
    BY <1>1, SubsetInduction
<1>3. QED
  BY <1>2

\* The sum of sums.
LEMMA TotalPlus ==
    ASSUME NEW S, IsFiniteSet(S), NEW f, NEW g, NEW h,
           \A x \in S : f[x] \in Int /\ g[x] \in Int /\ h[x] = f[x] + g[x]
    PROVE  Total(h, S) = Total(f, S) + Total(g, S)
<1> DEFINE Good == {U \in SUBSET S : Total(h, U) = Total(f, U) + Total(g, U)}
<1>1. ASSUME NEW U \in SUBSET S, \A V \in SUBSET U : V # U => V \in Good
      PROVE  U \in Good
  <2>1. /\ Total(f, U) = IF U = {} THEN 0 ELSE f[Elem(U)] + Total(f, Rest(U))
        /\ Total(g, U) = IF U = {} THEN 0 ELSE g[Elem(U)] + Total(g, Rest(U))
        /\ Total(h, U) = IF U = {} THEN 0 ELSE h[Elem(U)] + Total(h, Rest(U))
    BY TotalStep, FS_Subset
  <2>2. CASE U # {}
    <3>1. /\ Rest(U) \in Good /\ Elem(U) \in S
          /\ IsFiniteSet(Rest(U)) /\ Rest(U) \subseteq S
      BY <1>1, <2>2, RestFacts, FS_Subset
    <3>2. Total(f, Rest(U)) \in Int /\ Total(g, Rest(U)) \in Int
      BY <3>1, TotalInt
    <3>3. QED
      BY <2>1, <2>2, <3>1, <3>2
  <2>3. QED
    BY <2>1, <2>2
<1>2. SUBSET S \subseteq Good
  <2> HIDE DEF Good
  <2>1. QED
    BY <1>1, SubsetInduction
<1>3. QED
  BY <1>2

\* A larger set of naturals has no smaller a sum.
LEMMA TotalMonotone ==
    ASSUME NEW S, IsFiniteSet(S), NEW f, \A x \in S : f[x] \in Nat, NEW T \in SUBSET S
    PROVE  Total(f, T) \in Nat /\ Total(f, T) <= Total(f, S)
<1> DEFINE Good == {U \in SUBSET S :
              \A V \in SUBSET U : Total(f, V) \in Nat /\ Total(f, V) <= Total(f, U)}
<1>1. ASSUME NEW U \in SUBSET S, \A V \in SUBSET U : V # U => V \in Good
      PROVE  U \in Good
  <2> SUFFICES ASSUME NEW V \in SUBSET U
               PROVE  Total(f, V) \in Nat /\ Total(f, V) <= Total(f, U)
    OBVIOUS
  <2>1. Total(f, U) \in Int
    BY TotalInt, FS_Subset
  <2>2. CASE V # U
    <3>1. PICK x \in U : x \notin V
      BY <2>2
    <3>2. U \ {x} \in Good /\ V \in SUBSET (U \ {x})
      BY <1>1, <3>1
    <3>3. /\ Total(f, V) \in Nat /\ Total(f, V) <= Total(f, U \ {x})
          /\ Total(f, U \ {x}) \in Nat
      BY <3>2
    <3>4. Total(f, U) = f[x] + Total(f, U \ {x}) /\ f[x] \in Nat
      BY TotalPick, FS_Subset
    <3>5. QED
      BY <3>3, <3>4
  <2>3. CASE V = U
    <3>1. CASE U = {}
      BY <2>3, <3>1, TotalEmpty
    <3>2. CASE U # {}
      <4>1. PICK x \in U : TRUE
        BY <3>2
      <4>2. U \ {x} \in Good
        BY <1>1, <4>1
      <4>3. Total(f, U \ {x}) \in Nat
        BY <4>2
      <4>4. Total(f, U) = f[x] + Total(f, U \ {x}) /\ f[x] \in Nat
        BY TotalPick, FS_Subset
      <4>5. QED
        BY <2>3, <4>3, <4>4
    <3>3. QED
      BY <3>1, <3>2
  <2>4. QED
    BY <2>2, <2>3
<1>2. SUBSET S \subseteq Good
  <2> HIDE DEF Good
  <2>1. QED
    BY <1>1, SubsetInduction
<1>3. QED
  BY <1>2

\* A change at one element changes the sum by as much.
LEMMA TotalUpdate ==
    ASSUME NEW S, IsFiniteSet(S), NEW f, NEW g, NEW x \in S,
           \A y \in S : f[y] \in Int /\ g[y] \in Int,
           \A y \in S : y # x => g[y] = f[y]
    PROVE  Total(g, S) = Total(f, S) - f[x] + g[x]
<1>1. IsFiniteSet(S \ {x})
  BY FS_Subset
<1>2. Total(f, S \ {x}) = Total(g, S \ {x}) /\ Total(f, S \ {x}) \in Int
  BY <1>1, TotalEqual, TotalInt
<1>3. Total(f, S) = f[x] + Total(f, S \ {x}) /\ Total(g, S) = g[x] + Total(g, S \ {x})
  BY TotalPick
<1>4. f[x] \in Int /\ g[x] \in Int
  OBVIOUS
<1>5. QED
  BY <1>2, <1>3, <1>4

\* A sum of zeros.
LEMMA TotalZero ==
    ASSUME NEW S, IsFiniteSet(S), NEW f, \A x \in S : f[x] = 0
    PROVE  Total(f, S) = 0
<1>1. Total(f, S) = Total(f, S) + Total(f, S)
  BY TotalPlus
<1>2. Total(f, S) \in Int
  BY TotalInt
<1>3. \A n \in Int : n = n + n => n = 0
  OBVIOUS
<1>4. QED
  BY ONLY <1>1, <1>2, <1>3

\* A sum in two parts.
LEMMA TotalSplit ==
    ASSUME NEW S, IsFiniteSet(S), NEW f, \A x \in S : f[x] \in Int, NEW T \in SUBSET S
    PROVE  Total(f, S) = Total(f, T) + Total(f, S \ T)
<1> DEFINE Good == {U \in SUBSET S :
              \A V \in SUBSET U : Total(f, U) = Total(f, V) + Total(f, U \ V)}
<1>1. ASSUME NEW U \in SUBSET S, \A V \in SUBSET U : V # U => V \in Good
      PROVE  U \in Good
  <2> SUFFICES ASSUME NEW V \in SUBSET U
               PROVE  Total(f, U) = Total(f, V) + Total(f, U \ V)
    OBVIOUS
  <2>1. Total(f, U \ V) \in Int
    BY TotalInt, FS_Subset
  <2>2. CASE V = {}
    <3>1. U \ V = U
      BY <2>2
    <3>2. Total(f, V) = 0
      BY <2>2, TotalEmpty
    <3>3. Total(f, U \ V) = Total(f, U)
      BY <3>1
    <3> HIDE DEF Good
    <3>4. QED
      BY <2>1, <3>2, <3>3
  <2>3. CASE V # {}
    <3>1. PICK x \in V : TRUE
      BY <2>3
    <3>2. U \ {x} \in Good /\ V \ {x} \in SUBSET (U \ {x})
      BY <1>1, <3>1
    <3>3. Total(f, U \ {x}) = Total(f, V \ {x}) + Total(f, (U \ {x}) \ (V \ {x}))
      BY <3>2
    <3>4. (U \ {x}) \ (V \ {x}) = U \ V
      BY <3>1
    <3>5. /\ Total(f, U) = f[x] + Total(f, U \ {x})
          /\ Total(f, V) = f[x] + Total(f, V \ {x})
      BY <3>1, TotalPick, FS_Subset
    <3>6. f[x] \in Int /\ Total(f, V \ {x}) \in Int
      BY <3>1, TotalInt, FS_Subset
    <3>7. Total(f, (U \ {x}) \ (V \ {x})) = Total(f, U \ V)
      BY <3>4
    <3> HIDE DEF Good
    <3>8. QED
      BY ONLY <2>1, <3>3, <3>5, <3>6, <3>7
  <2>4. QED
    BY <2>2, <2>3
<1>2. SUBSET S \subseteq Good
  <2> HIDE DEF Good
  <2>1. QED
    BY <1>1, SubsetInduction
<1>3. QED
  BY <1>2

\* Of finitely many naturals one is the least.
LEMMA LeastOf ==
    ASSUME NEW S \in SUBSET Nat, IsFiniteSet(S), S # {}
    PROVE  \E m \in S : \A x \in S : m <= x
<1> DEFINE Good == {U \in SUBSET S : U # {} => \E m \in U : \A x \in U : m <= x}
<1>1. ASSUME NEW U \in SUBSET S, \A V \in SUBSET U : V # U => V \in Good
      PROVE  U \in Good
  <2> SUFFICES ASSUME U # {}
               PROVE  \E m \in U : \A x \in U : m <= x
    OBVIOUS
  <2>1. PICK y \in U : TRUE
    OBVIOUS
  <2>2. U \ {y} \in Good
    BY <1>1, <2>1
  <2>3. CASE U \ {y} = {}
    <3>1. \A x \in U : y <= x
      BY <2>1, <2>3
    <3>2. QED
      BY <2>1, <3>1
  <2>4. CASE U \ {y} # {}
    <3>1. PICK n \in U \ {y} : \A x \in U \ {y} : n <= x
      BY <2>2, <2>4
    <3>2. \A x \in U : x \in Nat
      OBVIOUS
    <3>3. CASE n <= y
      <4>1. \A x \in U : n <= x
        BY <3>1, <3>3
      <4>2. QED
        BY <4>1
    <3>4. CASE ~(n <= y)
      <4>1. n \in Nat /\ y \in Nat
        BY <2>1, <3>2
      <4>2. ASSUME NEW x \in U PROVE y <= x
        <5>1. CASE x = y
          BY <4>1, <5>1
        <5>2. CASE x # y
          <6>1. n <= x /\ x \in Nat
            BY <3>1, <3>2, <5>2
          <6>2. QED
            BY <3>4, <4>1, <6>1
        <5>3. QED
          BY <5>1, <5>2
      <4>3. QED
        BY <2>1, <4>2
    <3>5. QED
      BY <3>3, <3>4
  <2>5. QED
    BY <2>3, <2>4
<1>2. SUBSET S \subseteq Good
  <2> HIDE DEF Good
  <2>1. QED
    BY <1>1, SubsetInduction
<1>3. QED
  BY <1>2
=============================================================================
