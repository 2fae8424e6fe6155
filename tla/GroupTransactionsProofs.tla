----------------------- MODULE GroupTransactionsProofs -----------------------
(***************************************************************************)
(* Theorems about GroupTransactions, for any number of users, requests in  *)
(* flight, ids, amounts and clock bounds.                                  *)
(***************************************************************************)
EXTENDS GroupTransactions, FiniteSetTheorems, WellFoundedInduction, TLAPS

-----------------------------------------------------------------------------
(* Finite sums.  Total, Shares, Paid and SplitSum fold over a finite set;  *)
(* what such a fold computes is proved by induction over the subsets.      *)

\* Induction over the subsets of a finite set; F is the set of those that have a property.
LEMMA SubsetInduction ==
  ASSUME NEW S, IsFiniteSet(S), NEW F,
         \A T \in SUBSET S : (\A U \in SUBSET T : U # T => U \in F) => T \in F
  PROVE  \A T \in SUBSET S : T \in F
<1> DEFINE Bad == (SUBSET S) \ F
<1> SUFFICES ASSUME Bad # {} PROVE FALSE
  OBVIOUS
<1>1. IsWellFoundedOn(StrictSubsetOrdering(S), SUBSET S)
  <2>1. IsWellFoundedOn(StrictSubsetOrdering(S), FiniteSubsetsOf(S))
    BY FS_StrictSubsetOrderingWellFounded
  <2>2. FiniteSubsetsOf(S) = SUBSET S
    BY FS_FiniteSubsetsOfFinite
  <2>3. QED BY <2>1, <2>2
<1>2. Bad \subseteq SUBSET S
  OBVIOUS
<1>3. PICK T \in Bad : \A U \in Bad : <<U, T>> \notin StrictSubsetOrdering(S)
  <2> HIDE DEF Bad
  <2>1. QED BY <1>1, <1>2, WFMin
<1>4. ASSUME NEW U \in SUBSET T, U # T PROVE U \in F
  <2>1. <<U, T>> \in StrictSubsetOrdering(S)
    BY <1>3, <1>4 DEF StrictSubsetOrdering
  <2>2. QED BY <1>3, <1>4, <2>1
<1>5. QED BY <1>3, <1>4

\* The element of T that the fold takes next.
One(T) == CHOOSE x \in T : TRUE

\* The element that the fold takes next is one of the set.
LEMMA OneIn == ASSUME NEW T, T # {} PROVE One(T) \in T
BY DEF One

\* h gives the sum of f over each subset of S.
IsSum(f, S, h) ==
  h = [T \in SUBSET S |-> IF T = {} THEN 0 ELSE f[One(T)] + h[T \ {One(T)}]]

\* A sum of SumFunctionOnSet is the last value of the function its fold computes.
LEMMA SumIs ==
  ASSUME NEW f, NEW S 
  PROVE  SumFunctionOnSet(f, S) = (CHOOSE h : IsSum(f, S, h))[S]
BY DEF SumFunctionOnSet, FoldFunctionOnSet, MapThenFoldSet, IsSum, One

\* What such a function is at one subset.
LEMMA IsSumAt ==
  ASSUME NEW f, NEW S, NEW h, IsSum(f, S, h), NEW T \in SUBSET S
  PROVE  h[T] = IF T = {} THEN 0 ELSE f[One(T)] + h[T \ {One(T)}]
BY DEF IsSum

\* Functions that sum f agree where both are defined.
LEMMA SumUnique ==
  ASSUME NEW f, NEW S, IsFiniteSet(S), NEW h, NEW R, S \subseteq R, IsSum(f, S, h), NEW k, IsSum(f, R, k)
  PROVE  \A T \in SUBSET S : h[T] = k[T]
<1> DEFINE F == {T \in SUBSET S : h[T] = k[T]}
<1>1. ASSUME NEW T \in SUBSET S, \A U \in SUBSET T : U # T => U \in F
      PROVE  T \in F
  <2>1. CASE T = {}
    BY <2>1, IsSumAt
  <2>2. CASE T # {}
    <3>1. One(T) \in T
      BY <2>2, OneIn
    <3>2. h[T \ {One(T)}] = k[T \ {One(T)}]
      BY <1>1, <3>1
    <3>3. T \in SUBSET R
      OBVIOUS
    <3>3a. h[T] = f[One(T)] + h[T \ {One(T)}]
      BY <2>2, IsSumAt
    <3>3b. k[T] = f[One(T)] + k[T \ {One(T)}]
      BY <2>2, <3>3, IsSumAt
    <3>4. QED BY <3>2, <3>3a, <3>3b
  <2>3. QED BY <2>1, <2>2
<1> HIDE DEF F
<1>2. \A T \in SUBSET S : T \in F
  BY <1>1, SubsetInduction
<1>3. QED BY <1>2 DEF F

\* There is a function that sums f over the subsets of a finite set.
LEMMA SumExists ==
  ASSUME NEW f, NEW S, IsFiniteSet(S)
  PROVE  \E h : IsSum(f, S, h)
<1> DEFINE F == {T \in SUBSET S : \E h : IsSum(f, T, h)}
<1>1. ASSUME NEW T \in SUBSET S, \A U \in SUBSET T : U # T => U \in F
      PROVE  T \in F
  <2> DEFINE v(U) == (CHOOSE h : IsSum(f, U, h))[U]
             w(U) == IF U = {} THEN 0 ELSE f[One(U)] + v(U \ {One(U)})
             k == [U \in SUBSET T |-> w(U)]
  <2>1. ASSUME NEW U \in SUBSET T, U # T, U # {} PROVE v(U) = w(U)
    <3> DEFINE h == CHOOSE s : IsSum(f, U, s)
               V == U \ {One(U)}
               g == CHOOSE s : IsSum(f, V, s)
    <3>0. U \in F /\ V \in F
      BY <1>1, <2>1, OneIn
    <3>1. IsSum(f, U, h) /\ IsSum(f, V, g)
      BY <3>0
    <3>2. v(U) = h[U] /\ v(V) = g[V]
      OBVIOUS
    <3>3. IsFiniteSet(V) /\ V \subseteq U /\ V \in SUBSET V
      BY FS_Subset
    <3> HIDE DEF h, g, v
    <3>4. g[V] = h[V]
      BY <3>1, <3>3, SumUnique
    <3>5. h[U] = f[One(U)] + h[V]
      BY <3>1, <2>1, IsSumAt
    <3>6. QED BY <2>1, <3>2, <3>4, <3>5
  <2>2. \A U \in SUBSET T : k[U] = w(U)
    OBVIOUS
  <2>3. \A U \in SUBSET T : U # {} => k[U \ {One(U)}] = v(U \ {One(U)})
    <3> SUFFICES ASSUME NEW U \in SUBSET T, U # {}
                 PROVE k[U \ {One(U)}] = v(U \ {One(U)})
      OBVIOUS
    <3>1. U \ {One(U)} # T /\ U \ {One(U)} \in SUBSET T
      BY OneIn
    <3>2. CASE U \ {One(U)} = {}
      <4>1. IsSum(f, {}, [X \in SUBSET {} |-> 0])
        BY DEF IsSum
      <4>2. IsSum(f, {}, CHOOSE h : IsSum(f, {}, h))
        BY <4>1
      <4>3. v({}) = 0
        BY <4>2, IsSumAt
      <4> HIDE DEF v
      <4>4. QED BY <3>2, <4>3
    <3> HIDE DEF v, w, k
    <3>3. CASE U \ {One(U)} # {}
      BY <2>1, <2>2, <3>1, <3>3
    <3>4. QED BY <3>2, <3>3
  <2>4. IsSum(f, T, k)
    <3> HIDE DEF v
    <3>1. \A U \in SUBSET T : w(U) = IF U = {} THEN 0 ELSE f[One(U)] + k[U \ {One(U)}]
      <4> HIDE DEF k
      <4>1. QED BY <2>3
    <3>2. k = [U \in SUBSET T |-> IF U = {} THEN 0 ELSE f[One(U)] + k[U \ {One(U)}]]
      <4> HIDE DEF w
      <4>1. QED BY <3>1
    <3> HIDE DEF k
    <3>3. QED BY <3>2 DEF IsSum
  <2> HIDE DEF k
  <2>5. QED BY <2>4
<1>2. \A T \in SUBSET S : T \in F
  <2> HIDE DEF F
  <2>1. QED BY <1>1, SubsetInduction
<1>3. QED BY <1>2

\* A sum over a finite set is one term and the sum of the others.
LEMMA SumStep ==
  ASSUME NEW f, NEW S, IsFiniteSet(S)
  PROVE  SumFunctionOnSet(f, S)
           = IF S = {} THEN 0 ELSE f[One(S)] + SumFunctionOnSet(f, S \ {One(S)})
<1> DEFINE h == CHOOSE s : IsSum(f, S, s)
           V == S \ {One(S)}
           g == CHOOSE s : IsSum(f, V, s)
<1>1. IsFiniteSet(V) /\ V \subseteq S /\ V \in SUBSET V /\ S \in SUBSET S
  BY FS_Subset
<1>2. IsSum(f, S, h) /\ IsSum(f, V, g)
  <2> HIDE DEF V
  <2>1. QED BY <1>1, SumExists
<1>3. SumFunctionOnSet(f, S) = h[S] /\ SumFunctionOnSet(f, V) = g[V]
  <2> HIDE DEF V
  <2>1. QED BY SumIs
<1> HIDE DEF h, g
<1>4. g[V] = h[V]
  BY <1>1, <1>2, SumUnique
<1>5. h[S] = IF S = {} THEN 0 ELSE f[One(S)] + h[V]
  BY <1>1, <1>2, IsSumAt
<1>6. QED BY <1>3, <1>4, <1>5

\* A sum of no terms is 0.
LEMMA SumEmpty == ASSUME NEW f PROVE SumFunctionOnSet(f, {}) = 0
BY SumStep, FS_EmptySet

\* A sum of integers is an integer, and natural if its terms are.
LEMMA SumType ==
  ASSUME NEW S, IsFiniteSet(S), NEW f, \A x \in S : f[x] \in Int
  PROVE  /\ SumFunctionOnSet(f, S) \in Int
         /\ (\A x \in S : f[x] >= 0) => SumFunctionOnSet(f, S) >= 0
<1> DEFINE Good(T) == /\ SumFunctionOnSet(f, T) \in Int
                      /\ (\A x \in T : f[x] >= 0) => SumFunctionOnSet(f, T) >= 0
           F == {T \in SUBSET S : Good(T)}
<1>1. ASSUME NEW T \in SUBSET S, \A U \in SUBSET T : U # T => U \in F
      PROVE  T \in F
  <2>1. CASE T = {}
    BY <2>1, SumEmpty
  <2>2. CASE T # {}
    <3>1. One(T) \in T /\ T \ {One(T)} \in F /\ IsFiniteSet(T)
      BY <1>1, <2>2, OneIn, FS_Subset
    <3>2. SumFunctionOnSet(f, T) = f[One(T)] + SumFunctionOnSet(f, T \ {One(T)})
      BY <2>2, <3>1, SumStep
    <3>3. QED BY <3>1, <3>2
  <2>3. QED BY <2>1, <2>2
<1> HIDE DEF F
<1>2. S \in F
  BY <1>1, SubsetInduction
<1>3. QED BY <1>2 DEF F

\* Any element may be taken out of a sum, not only the one the fold takes.
LEMMA SumPick ==
  ASSUME NEW S, IsFiniteSet(S), NEW f, \A x \in S : f[x] \in Int, NEW y \in S
  PROVE  SumFunctionOnSet(f, S) = f[y] + SumFunctionOnSet(f, S \ {y})
<1> DEFINE Good(T) == \A x \in T :
                        SumFunctionOnSet(f, T) = f[x] + SumFunctionOnSet(f, T \ {x})
           F == {T \in SUBSET S : Good(T)}
<1>1. ASSUME NEW T \in SUBSET S, \A U \in SUBSET T : U # T => U \in F
      PROVE  T \in F
  <2> SUFFICES ASSUME NEW x \in T
               PROVE  SumFunctionOnSet(f, T) = f[x] + SumFunctionOnSet(f, T \ {x})
    OBVIOUS
  <2> DEFINE o == One(T)
  <2>1. o \in T /\ IsFiniteSet(T) /\ IsFiniteSet(T \ {o}) /\ IsFiniteSet(T \ {x})
    BY OneIn, FS_Subset
  <2>2. SumFunctionOnSet(f, T) = f[o] + SumFunctionOnSet(f, T \ {o})
    BY <2>1, SumStep
  <2>3. CASE x = o
    BY <2>2, <2>3
  <2>4. CASE x # o
    <3> HIDE DEF o
    <3>1. SumFunctionOnSet(f, T \ {o}) = f[x] + SumFunctionOnSet(f, (T \ {o}) \ {x})
      <4>1. T \ {o} \in F
        BY <1>1, <2>1
      <4>2. QED BY <4>1, <2>4
    <3>2. SumFunctionOnSet(f, T \ {x}) = f[o] + SumFunctionOnSet(f, (T \ {x}) \ {o})
      <4>1. T \ {x} \in F
        BY <1>1
      <4>2. QED BY <4>1, <2>1, <2>4
    <3> DEFINE V == (T \ {o}) \ {x}
    <3>3. (T \ {x}) \ {o} = V /\ IsFiniteSet(V) /\ V \subseteq S
      BY <2>1, FS_Subset
    <3>4. SumFunctionOnSet(f, V) \in Int /\ f[o] \in Int /\ f[x] \in Int
      BY <2>1, <3>3, SumType
    <3>5. SumFunctionOnSet(f, T \ {x}) = f[o] + SumFunctionOnSet(f, V)
      BY <3>2, <3>3
    <3>6. SumFunctionOnSet(f, T) = f[o] + (f[x] + SumFunctionOnSet(f, V))
      BY <2>2, <3>1
    <3> HIDE DEF V
    <3>7. QED BY <3>4, <3>5, <3>6
  <2>5. QED BY <2>3, <2>4
<1> HIDE DEF F
<1>2. S \in F
  BY <1>1, SubsetInduction
<1>3. QED BY <1>2 DEF F

\* A sum of larger terms is larger.
LEMMA SumCompare ==
  ASSUME NEW S, IsFiniteSet(S), NEW f, \A x \in S : f[x] \in Int,
         NEW g, \A x \in S : g[x] \in Int, \A x \in S : f[x] <= g[x]
  PROVE  SumFunctionOnSet(f, S) <= SumFunctionOnSet(g, S)
<1> DEFINE F == {T \in SUBSET S : SumFunctionOnSet(f, T) <= SumFunctionOnSet(g, T)}
<1>1. ASSUME NEW T \in SUBSET S, \A U \in SUBSET T : U # T => U \in F
      PROVE  T \in F
  <2>1. CASE T = {}
    BY <2>1, SumEmpty
  <2>2. CASE T # {}
    <3> DEFINE o == One(T)
               V == T \ {o}
    <3>1. o \in T /\ V \in F /\ IsFiniteSet(T) /\ IsFiniteSet(V) /\ V \subseteq S /\ V = T \ {o}
      BY <1>1, <2>2, OneIn, FS_Subset
    <3>2. /\ SumFunctionOnSet(f, T) = f[o] + SumFunctionOnSet(f, V)
          /\ SumFunctionOnSet(g, T) = g[o] + SumFunctionOnSet(g, V)
      BY <2>2, <3>1, SumStep
    <3> HIDE DEF o, V
    <3>3. SumFunctionOnSet(f, V) \in Int /\ SumFunctionOnSet(g, V) \in Int
      BY <3>1, SumType
    <3>4. QED BY <3>1, <3>2, <3>3
  <2>3. QED BY <2>1, <2>2
<1> HIDE DEF F
<1>2. S \in F
  BY <1>1, SubsetInduction
<1>3. QED BY <1>2 DEF F

\* Equal terms have equal sums.
LEMMA SumSame ==
  ASSUME NEW S, IsFiniteSet(S), NEW f, NEW g, \A x \in S : f[x] = g[x]
  PROVE  SumFunctionOnSet(f, S) = SumFunctionOnSet(g, S)
<1> DEFINE F == {T \in SUBSET S : SumFunctionOnSet(f, T) = SumFunctionOnSet(g, T)}
<1>1. ASSUME NEW T \in SUBSET S, \A U \in SUBSET T : U # T => U \in F
      PROVE  T \in F
  <2>1. CASE T = {}
    BY <2>1, SumEmpty
  <2>2. CASE T # {}
    <3>1. One(T) \in T /\ T \ {One(T)} \in F /\ IsFiniteSet(T)
      BY <1>1, <2>2, OneIn, FS_Subset
    <3>2. /\ SumFunctionOnSet(f, T) = f[One(T)] + SumFunctionOnSet(f, T \ {One(T)})
          /\ SumFunctionOnSet(g, T) = g[One(T)] + SumFunctionOnSet(g, T \ {One(T)})
      BY <2>2, <3>1, SumStep
    <3>3. QED BY <3>1, <3>2
  <2>3. QED BY <2>1, <2>2
<1> HIDE DEF F
<1>2. S \in F
  BY <1>1, SubsetInduction
<1>3. QED BY <1>2 DEF F

\* A sum of sums of two terms is the sum of the two sums.
LEMMA SumPlus ==
  ASSUME NEW S, IsFiniteSet(S), NEW f, \A x \in S : f[x] \in Int,
         NEW g, \A x \in S : g[x] \in Int, NEW h, \A x \in S : h[x] = f[x] + g[x]
  PROVE  SumFunctionOnSet(h, S) = SumFunctionOnSet(f, S) + SumFunctionOnSet(g, S)
<1> DEFINE F == {T \in SUBSET S :
                   SumFunctionOnSet(h, T) = SumFunctionOnSet(f, T) + SumFunctionOnSet(g, T)}
<1>1. ASSUME NEW T \in SUBSET S, \A U \in SUBSET T : U # T => U \in F
      PROVE  T \in F
  <2>1. CASE T = {}
    BY <2>1, SumEmpty
  <2>2. CASE T # {}
    <3> DEFINE o == One(T)
               V == T \ {o}
    <3>1. o \in T /\ V \in F /\ IsFiniteSet(T) /\ IsFiniteSet(V) /\ V \subseteq S /\ V = T \ {o}
      BY <1>1, <2>2, OneIn, FS_Subset
    <3>2. /\ SumFunctionOnSet(f, T) = f[o] + SumFunctionOnSet(f, V)
          /\ SumFunctionOnSet(g, T) = g[o] + SumFunctionOnSet(g, V)
          /\ SumFunctionOnSet(h, T) = h[o] + SumFunctionOnSet(h, V)
      BY <2>2, <3>1, SumStep
    <3> HIDE DEF o, V
    <3>3. SumFunctionOnSet(f, V) \in Int /\ SumFunctionOnSet(g, V) \in Int
      BY <3>1, SumType
    <3>4. QED BY <3>1, <3>2, <3>3
  <2>3. QED BY <2>1, <2>2
<1> HIDE DEF F
<1>2. S \in F
  BY <1>1, SubsetInduction
<1>3. QED BY <1>2 DEF F

\* A sum over two sets that are apart is the sum of the two sums.
LEMMA SumUnion ==
  ASSUME NEW S, IsFiniteSet(S), NEW R, IsFiniteSet(R), S \cap R = {},
         NEW f, \A x \in S \cup R : f[x] \in Int
  PROVE  SumFunctionOnSet(f, S \cup R) = SumFunctionOnSet(f, S) + SumFunctionOnSet(f, R)
<1> DEFINE F == {T \in SUBSET S :
                   SumFunctionOnSet(f, T \cup R) = SumFunctionOnSet(f, T) + SumFunctionOnSet(f, R)}
<1>0. SumFunctionOnSet(f, R) \in Int
  BY SumType
<1>1. ASSUME NEW T \in SUBSET S, \A U \in SUBSET T : U # T => U \in F
      PROVE  T \in F
  <2>1. CASE T = {}
    <3>1. T \cup R = R
      BY <2>1
    <3>2. QED BY <1>0, <2>1, <3>1, SumEmpty
  <2>2. CASE T # {}
    <3> DEFINE o == One(T)
               V == T \ {o}
    <3>1. o \in T /\ V \in F /\ IsFiniteSet(T) /\ IsFiniteSet(V) /\ V \subseteq S /\ V = T \ {o}
      BY <1>1, <2>2, OneIn, FS_Subset
    <3>2. SumFunctionOnSet(f, T) = f[o] + SumFunctionOnSet(f, V)
      BY <2>2, <3>1, SumStep
    <3> HIDE DEF o, V
    <3>3. IsFiniteSet(T \cup R) /\ (T \cup R) \ {o} = V \cup R
      BY <3>1, FS_Union
    <3>4. SumFunctionOnSet(f, T \cup R) = f[o] + SumFunctionOnSet(f, V \cup R)
      BY <3>1, <3>3, SumPick
    <3>5. SumFunctionOnSet(f, V) \in Int
      BY <3>1, SumType
    <3>6. QED BY <1>0, <3>1, <3>2, <3>4, <3>5
  <2>3. QED BY <2>1, <2>2
<1> HIDE DEF F
<1>2. S \in F
  BY <1>1, SubsetInduction
<1>3. QED BY <1>2 DEF F

\* The sum of the rows is the sum of the columns.
LEMMA SumSwap ==
  ASSUME NEW S, IsFiniteSet(S), NEW R, IsFiniteSet(R),
         NEW m, \A x \in S, y \in R : m[x][y] \in Int
  PROVE  SumFunctionOnSet([x \in S |-> SumFunctionOnSet(m[x], R)], S)
           = SumFunctionOnSet([y \in R |-> SumFunctionOnSet([x \in S |-> m[x][y]], S)], R)
<1> DEFINE row == [x \in S |-> SumFunctionOnSet(m[x], R)]
           col(T) == [y \in R |-> SumFunctionOnSet([x \in S |-> m[x][y]], T)]
           F == {T \in SUBSET S : SumFunctionOnSet(row, T) = SumFunctionOnSet(col(T), R)}
<1>1. ASSUME NEW T \in SUBSET S, \A U \in SUBSET T : U # T => U \in F
      PROVE  T \in F
  <2>1. CASE T = {}
    <3>1. \A y \in R : col(T)[y] = 0
      BY <2>1, SumEmpty
    <3> HIDE DEF col
    <3>2. SumFunctionOnSet(col(T), R) = 0
      <4>1. SumFunctionOnSet(col(T), R) <= 0 /\ SumFunctionOnSet(col(T), R) >= 0
        <5>1. SumFunctionOnSet(col(T), R) >= 0 /\ SumFunctionOnSet(col(T), R) \in Int
          BY <3>1, SumType
        <5>2. SumFunctionOnSet(col(T), R) = SumFunctionOnSet(col(T), R) + SumFunctionOnSet(col(T), R)
          BY <3>1, SumPlus
        <5>3. QED BY <5>1, <5>2
      <4>2. SumFunctionOnSet(col(T), R) \in Int
        BY <3>1, SumType
      <4>3. QED BY <4>1, <4>2
    <3>3. QED BY <2>1, <3>2, SumEmpty
  <2>2. CASE T # {}
    <3> DEFINE o == One(T)
               V == T \ {o}
    <3>1. o \in T /\ V \in F /\ IsFiniteSet(T) /\ IsFiniteSet(V) /\ V \subseteq S /\ V = T \ {o}
      BY <1>1, <2>2, OneIn, FS_Subset
    <3>2. SumFunctionOnSet(row, T) = row[o] + SumFunctionOnSet(row, V)
      BY <2>2, <3>1, SumStep
    <3>3. \A y \in R : col(T)[y] = m[o][y] + col(V)[y]
      <4> SUFFICES ASSUME NEW y \in R PROVE col(T)[y] = m[o][y] + col(V)[y]
        OBVIOUS
      <4> DEFINE c == [x \in S |-> m[x][y]]
      <4>1. SumFunctionOnSet(c, T) = c[o] + SumFunctionOnSet(c, V)
        <5> HIDE DEF c
        <5>1. QED BY <2>2, <3>1, SumStep
      <4>2. QED BY <3>1, <4>1
    <3>4. \A y \in R : col(V)[y] \in Int
      <4> SUFFICES ASSUME NEW y \in R PROVE col(V)[y] \in Int
        OBVIOUS
      <4> DEFINE c == [x \in S |-> m[x][y]]
      <4>1. \A x \in V : c[x] \in Int
        BY <3>1
      <4>2. SumFunctionOnSet(c, V) \in Int
        <5> HIDE DEF c, V
        <5>1. QED BY <3>1, <4>1, SumType
      <4>3. QED BY <4>2
    <3>5. row[o] = SumFunctionOnSet(m[o], R)
      BY <3>1
    <3> HIDE DEF o, V, row, col
    <3>6. SumFunctionOnSet(col(T), R) = SumFunctionOnSet(m[o], R) + SumFunctionOnSet(col(V), R)
      BY <3>1, <3>3, <3>4, SumPlus
    <3>7. QED BY <3>1, <3>2, <3>5, <3>6
  <2>3. QED BY <2>1, <2>2
<1> HIDE DEF F
<1>2. S \in F
  BY <1>1, SubsetInduction
<1>3. QED BY <1>2 DEF F

\* A sum of zeros is 0.
LEMMA SumZero ==
  ASSUME NEW S, IsFiniteSet(S), NEW f, \A x \in S : f[x] = 0
  PROVE  SumFunctionOnSet(f, S) = 0
<1> DEFINE n == SumFunctionOnSet(f, S)
<1>1. n \in Int
  BY SumType
<1>2. n = n + n
  BY SumPlus
<1> HIDE DEF n
<1>3. n = 0
  BY <1>1, <1>2
<1>4. QED BY <1>3 DEF n

\* A sum of differences is the difference of the two sums.
LEMMA SumMinus ==
  ASSUME NEW S, IsFiniteSet(S), NEW f, \A x \in S : f[x] \in Int,
         NEW g, \A x \in S : g[x] \in Int, NEW h, \A x \in S : h[x] = f[x] - g[x]
  PROVE  SumFunctionOnSet(h, S) = SumFunctionOnSet(f, S) - SumFunctionOnSet(g, S)
<1>1. \A x \in S : h[x] \in Int /\ f[x] = h[x] + g[x]
  OBVIOUS
<1>2. SumFunctionOnSet(f, S) = SumFunctionOnSet(h, S) + SumFunctionOnSet(g, S)
  BY <1>1, SumPlus
<1>3. SumFunctionOnSet(h, S) \in Int /\ SumFunctionOnSet(g, S) \in Int
  BY <1>1, SumType
<1>4. QED BY <1>2, <1>3

\* A sum does not depend on how its terms are named.
LEMMA SumRenamed ==
  ASSUME NEW S, IsFiniteSet(S), NEW f, \A x \in S : f[x] \in Int, NEW g, NEW b,
         \A x, y \in S : b[x] = b[y] => x = y, \A x \in S : f[x] = g[b[x]]
  PROVE  SumFunctionOnSet(f, S) = SumFunctionOnSet(g, {b[x] : x \in S})
<1> DEFINE Img(T) == {b[x] : x \in T}
           F == {T \in SUBSET S :
                   IsFiniteSet(Img(T)) /\ SumFunctionOnSet(f, T) = SumFunctionOnSet(g, Img(T))}
<1>1. ASSUME NEW T \in SUBSET S, \A U \in SUBSET T : U # T => U \in F
      PROVE  T \in F
  <2>1. CASE T = {}
    <3>1. Img(T) = {}
      BY <2>1
    <3> HIDE DEF Img
    <3>2. QED BY <2>1, <3>1, SumEmpty, FS_EmptySet
  <2>2. CASE T # {}
    <3> DEFINE o == One(T)
               V == T \ {o}
    <3>1. o \in T /\ V \in F /\ IsFiniteSet(T) /\ IsFiniteSet(V) /\ V \subseteq S /\ V = T \ {o}
      BY <1>1, <2>2, OneIn, FS_Subset
    <3>2. SumFunctionOnSet(f, T) = f[o] + SumFunctionOnSet(f, V)
      BY <2>2, <3>1, SumStep
    <3> HIDE DEF o, V
    <3>3. Img(T) \ {b[o]} = Img(V) /\ b[o] \in Img(T) /\ Img(T) = Img(V) \cup {b[o]}
      BY <3>1
    <3>4. \A y \in Img(T) : g[y] \in Int
      OBVIOUS
    <3> HIDE DEF Img
    <3>5. IsFiniteSet(Img(T))
      <4>1. IsFiniteSet(Img(V))
        BY <3>1
      <4>2. IsFiniteSet(Img(V) \cup {b[o]})
        BY <4>1, FS_AddElement
      <4>3. QED BY <3>3, <4>2
    <3>6. SumFunctionOnSet(g, Img(T)) = g[b[o]] + SumFunctionOnSet(g, Img(V))
      BY <3>3, <3>4, <3>5, SumPick
    <3>7. SumFunctionOnSet(f, V) = SumFunctionOnSet(g, Img(V))
      BY <3>1
    <3>8. QED BY <3>1, <3>2, <3>5, <3>6, <3>7
  <2>3. QED BY <2>1, <2>2
<1> HIDE DEF F
<1>2. S \in F
  BY <1>1, SubsetInduction
<1>3. QED BY <1>2 DEF F

\* Terms grouped by a key are the terms whose key is one of the keys.
LEMMA SumGrouped ==
  ASSUME NEW S, IsFiniteSet(S), NEW f, \A x \in S : f[x] \in Int,
         NEW K, IsFiniteSet(K), NEW key
  PROVE  SumFunctionOnSet([k \in K |-> SumFunctionOnSet(f, {x \in S : key[x] = k})], K)
           = SumFunctionOnSet(f, {x \in S : key[x] \in K})
<1> DEFINE h == [k \in K |-> SumFunctionOnSet(f, {x \in S : key[x] = k})]
           F == {T \in SUBSET K : SumFunctionOnSet(h, T)
                                    = SumFunctionOnSet(f, {x \in S : key[x] \in T})}
<1>1. ASSUME NEW T \in SUBSET K, \A U \in SUBSET T : U # T => U \in F
      PROVE  T \in F
  <2>1. CASE T = {}
    <3>1. {x \in S : key[x] \in T} = {}
      BY <2>1
    <3>2. QED BY <2>1, <3>1, SumEmpty
  <2>2. CASE T # {}
    <3> DEFINE o == One(T)
               V == T \ {o}
               A == {x \in S : key[x] = o}
               B == {x \in S : key[x] \in V}
    <3>1. o \in T /\ V \in F /\ IsFiniteSet(T) /\ V = T \ {o}
      BY <1>1, <2>2, OneIn, FS_Subset
    <3>2. SumFunctionOnSet(h, T) = h[o] + SumFunctionOnSet(h, V)
      <4> HIDE DEF h
      <4>1. QED BY <2>2, <3>1, SumStep
    <3>3. h[o] = SumFunctionOnSet(f, A)
      BY <3>1
    <3>4. A \cap B = {} /\ A \cup B = {x \in S : key[x] \in T}
      BY <3>1
    <3>5. IsFiniteSet(A) /\ IsFiniteSet(B) /\ A \subseteq S /\ B \subseteq S
      BY FS_Subset
    <3>6. SumFunctionOnSet(h, V) = SumFunctionOnSet(f, B)
      BY <3>1
    <3> HIDE DEF o, V, A, B, h
    <3>7. SumFunctionOnSet(f, A \cup B) = SumFunctionOnSet(f, A) + SumFunctionOnSet(f, B)
      BY <3>4, <3>5, SumUnion
    <3>8. QED BY <3>1, <3>2, <3>3, <3>4, <3>6, <3>7
  <2>3. QED BY <2>1, <2>2
<1> HIDE DEF F
<1>2. K \in F
  BY <1>1, SubsetInduction
<1>3. QED BY <1>2 DEF F

-----------------------------------------------------------------------------
(* What the helpers of applySplitsInPlace return.                          *)

\* A nonempty set of natural numbers below n has a largest element.
LEMMA LargestBelow ==
  ASSUME NEW n \in Nat, NEW S \in SUBSET (1 .. n), S # {}
  PROVE  \E i \in S : \A j \in S : j <= i
<1> DEFINE T == {n - i : i \in S}
<1>1. T \subseteq Nat /\ T # {}
  <2>1. \A i \in S : n - i \in Nat
    OBVIOUS
  <2> QED
    BY <2>1, Zenon
<1>2. PICK x \in T : \A y \in T : ~(<<y, x>> \in OpToRel(<, Nat))
  BY <1>1, WFMin, NatLessThanWellFounded
<1>3. PICK i \in S : x = n - i
  BY <1>2
<1>4. ASSUME NEW j \in S PROVE j <= i
  <2>1. n - j \in T /\ n - j \in Nat /\ x \in Nat
    BY <1>1, <1>2
  <2>2. ~(n - j < x)
    BY <1>2, <2>1 DEF OpToRel
  <2> QED
    BY <2>2, <1>3
<1> QED
  BY <1>3, <1>4

\* LastEntry is an entry of the user it is asked for.
LEMMA LastEntryOfUser ==
  ASSUME NEW s \in SplitLists, NEW u \in SplitUsers(s)
  PROVE  LastEntry(s, u) \in DOMAIN s /\ s[LastEntry(s, u)].user = u
<1> DEFINE S == {i \in DOMAIN s : s[i].user = u}
<1>1. s \in Seq([user: Users, amt: Amount])
  BY GtAssumptions
<1>2. Len(s) \in Nat /\ DOMAIN s = 1 .. Len(s)
  BY <1>1
<1>3. S \in SUBSET (1 .. Len(s)) /\ S # {}
  BY <1>2 DEF SplitUsers
<1>4. \E i \in S : \A j \in S : j <= i
  BY <1>2, <1>3, LargestBelow
<1>5. \E i \in DOMAIN s : s[i].user = u /\ \A j \in DOMAIN s : s[j].user = u => j <= i
  BY <1>4
<1> QED
  BY <1>5 DEF LastEntry

\* Rounding to cents never makes an amount negative.
LEMMA StoredNat == ASSUME NEW a \in Nat PROVE Stored(a) \in Nat
<1> DEFINE q == (2 * a + Unit) \div (2 * Unit)
<1>1. Unit \in Nat \ {0}
  BY StateAssumptions
<1>2. 2 * a + Unit \in Nat /\ 2 * Unit \in Nat \ {0}
  BY <1>1
<1>3. \A x \in Nat, y \in Nat \ {0} : x \div y \in Nat
  OBVIOUS
<1>4. q \in Nat
  BY <1>2, <1>3
<1>5. \A x, y \in Nat : x * y \in Nat
  OBVIOUS
<1> HIDE DEF q
<1> QED
  BY <1>1, <1>4, <1>5 DEF Stored, q

\* Division by a fixed number of units does not reverse an order.
LEMMA DivMonotone ==
  ASSUME NEW a \in Nat, NEW b \in Nat, NEW d \in Nat \ {0}, a <= b
  PROVE  a \div d \in Nat /\ b \div d \in Nat /\ a \div d <= b \div d
<1> DEFINE p == a \div d
           q == b \div d
<1>1. p \in Nat /\ q \in Nat
  OBVIOUS
<1>2. d * p <= a /\ b < d * (q + 1)
  OBVIOUS
<1> QED
  <2>1. SUFFICES ASSUME p > q PROVE FALSE
    BY <1>1
  <2> HIDE DEF p, q
  <2>2. \A x, y, z \in Nat : x <= y => z * x <= z * y
    OBVIOUS
  <2>3. d * (q + 1) <= d * p
    BY <1>1, <2>1, <2>2
  <2> QED
    BY <1>1, <1>2, <2>3

\* Rounding to cents keeps amounts natural and their order.
LEMMA StoredMonotone ==
  ASSUME NEW a \in Nat, NEW b \in Nat, a <= b
  PROVE  Stored(a) \in Nat /\ Stored(b) \in Nat /\ Stored(a) <= Stored(b)
<1> DEFINE p == (2 * a + Unit) \div (2 * Unit)
           q == (2 * b + Unit) \div (2 * Unit)
<1>1. Unit \in Nat \ {0}
  BY StateAssumptions
<1>2. 2 * a + Unit \in Nat /\ 2 * b + Unit \in Nat /\ 2 * Unit \in Nat \ {0}
      /\ 2 * a + Unit <= 2 * b + Unit
  BY <1>1
<1>3. p \in Nat /\ q \in Nat /\ p <= q
  BY <1>2, DivMonotone
<1>4. Stored(a) = p * Unit /\ Stored(b) = q * Unit
  BY DEF Stored
<1> HIDE DEF p, q
<1>5. \A x, y, z \in Nat : x <= y => x * z \in Nat /\ y * z \in Nat /\ x * z <= y * z
  OBVIOUS
<1> QED
  BY <1>1, <1>3, <1>4, <1>5

\* Whole cents, which is what DECIMAL(12,2) holds.
WholeCents(n) == \E k \in Int : n = k * Unit

\* Sums and differences of whole cents are whole cents.
LEMMA WholeSum ==
  ASSUME NEW a \in Int, NEW b \in Int, WholeCents(a), WholeCents(b)
  PROVE  WholeCents(a + b) /\ WholeCents(a - b)
<1>1. PICK k \in Int : a = k * Unit
  BY DEF WholeCents
<1>2. PICK l \in Int : b = l * Unit
  BY DEF WholeCents
<1>3. \A x, y, z \in Int : x * z + y * z = (x + y) * z /\ x * z - y * z = (x - y) * z
  OBVIOUS
<1>4. Unit \in Int /\ k + l \in Int /\ k - l \in Int
  BY StateAssumptions
<1>5. a + b = (k + l) * Unit /\ a - b = (k - l) * Unit
  BY <1>1, <1>2, <1>3, <1>4
<1> QED
  BY <1>4, <1>5 DEF WholeCents

\* Nothing is whole.
LEMMA WholeZero == WholeCents(0)
<1>1. 0 = 0 * Unit
  BY StateAssumptions
<1> QED
  BY <1>1 DEF WholeCents

\* A stored amount is whole.
LEMMA StoredWhole == ASSUME NEW a \in Nat PROVE WholeCents(Stored(a))
<1>1. (2 * a + Unit) \div (2 * Unit) \in Nat
  <2>1. Unit \in Nat \ {0}
    BY StateAssumptions
  <2>2. 2 * a + Unit \in Nat /\ 2 * Unit \in Nat \ {0}
    BY <2>1
  <2> QED
    BY <2>2, DivMonotone
<1> QED
  BY <1>1 DEF Stored, WholeCents

\* A whole number of divisors moves a quotient by that number.
LEMMA DivShift ==
  ASSUME NEW m \in Nat, NEW d \in Nat \ {0}, NEW k \in Nat, m - k * d \in Nat
  PROVE  (m - k * d) \div d = m \div d - k
<1> DEFINE p == (m - k * d) \div d
           q == m \div d
           n == m - k * d
<1>1. p \in Nat /\ q \in Nat
  BY DivMonotone
<1>2. d * p <= n /\ n < d * (p + 1)
  OBVIOUS
<1>3. d * q <= m /\ m < d * (q + 1)
  OBVIOUS
<1>4. \A x, y, z \in Int : x * (y + z) = x * y + x * z
  OBVIOUS
<1>5. k * d \in Nat /\ m = n + k * d /\ k * d = d * k /\ n \in Nat
  OBVIOUS
<1> HIDE DEF p, q, n
<1>6. d * (p + k) <= m /\ m < d * (p + k + 1)
  <2>1. d * (p + k) = d * p + d * k
    BY <1>1, <1>4
  <2>2. d * (p + k + 1) = d * (p + 1) + d * k
    <3>1. p + k + 1 = (p + 1) + k
      BY <1>1
    <3> QED
      BY <1>1, <1>4, <3>1
  <2>3. d * p \in Int /\ d * (p + 1) \in Int /\ d * k \in Int
    BY <1>1
  <2> QED
    BY <1>2, <1>5, <2>1, <2>2, <2>3
<1>7. \A x, y, z \in Nat : x <= y => z * x <= z * y
  OBVIOUS
<1>8. ~(q + 1 <= p + k)
  <2> SUFFICES ASSUME q + 1 <= p + k PROVE FALSE
    OBVIOUS
  <2>1. d * (q + 1) <= d * (p + k)
    BY <1>1, <1>7
  <2>2. d * (q + 1) \in Int /\ d * (p + k) \in Int
    BY <1>1
  <2> QED
    BY <1>3, <1>6, <2>1, <2>2
<1>9. ~(p + k + 1 <= q)
  <2> SUFFICES ASSUME p + k + 1 <= q PROVE FALSE
    OBVIOUS
  <2>1. d * (p + k + 1) <= d * q
    BY <1>1, <1>7
  <2>2. d * (p + k + 1) \in Int /\ d * q \in Int
    BY <1>1
  <2> QED
    BY <1>3, <1>6, <2>1, <2>2
<1>10. p + k = q
  BY <1>1, <1>8, <1>9
<1> QED
  BY <1>1, <1>10 DEF p, q, n

\* What is left after whole cents are taken off is rounded like the amount was.
LEMMA StoredShift ==
  ASSUME NEW a \in Nat, NEW d \in Nat, WholeCents(d), d <= a
  PROVE  Stored(a - d) = Stored(a) - d
<1>1. Unit \in Nat \ {0}
  BY StateAssumptions
<1>2. PICK k \in Int : d = k * Unit
  BY DEF WholeCents
<1>3. k \in Nat
  <2> SUFFICES ASSUME k < 0 PROVE FALSE
    BY <1>2
  <2>1. \A x, z \in Nat \ {0} : x * z > 0
    OBVIOUS
  <2>2. 0 - k \in Nat \ {0}
    OBVIOUS
  <2>3. (0 - k) * Unit = 0 - k * Unit
    BY <1>1
  <2> QED
    BY <1>1, <1>2, <2>1, <2>2, <2>3
<1> DEFINE m == 2 * a + Unit
           u == 2 * Unit
           q == m \div u
<1>4. m \in Nat /\ u \in Nat \ {0} /\ q \in Nat
  BY <1>1, DivMonotone
<1>5. 2 * (a - d) + Unit = m - k * u
  <2>1. k * (2 * Unit) = 2 * (k * Unit)
    BY <1>1, <1>3
  <2> QED
    BY <1>1, <1>2, <2>1
<1>6. m - k * u \in Nat
  BY <1>1, <1>5
<1> HIDE DEF m, u
<1>7. (m - k * u) \div u = q - k
  BY <1>3, <1>4, <1>6, DivShift
<1> HIDE DEF q
<1>8. Stored(a - d) = (q - k) * Unit
  BY <1>5, <1>7 DEF Stored, u
<1>9. Stored(a) = q * Unit
  BY DEF Stored, q, m, u
<1>10. \A x, y, z \in Int : x * z - y * z = (x - y) * z
  OBVIOUS
<1> QED
  BY <1>1, <1>2, <1>3, <1>4, <1>8, <1>9, <1>10

\* Whole cents are stored as they are.
LEMMA StoredKeepsWhole ==
  ASSUME NEW d \in Nat, WholeCents(d)
  PROVE  Stored(0) = 0 /\ Stored(d) = d
<1>1. Unit \in Nat \ {0}
  BY StateAssumptions
<1> DEFINE q == Unit \div (2 * Unit)
<1>2. \A x \in Nat \ {0} : x \div (2 * x) = 0
  <2> SUFFICES ASSUME NEW x \in Nat \ {0} PROVE x \div (2 * x) = 0
    OBVIOUS
  <2> DEFINE p == x \div (2 * x)
  <2>1. p \in Nat
    BY DivMonotone
  <2>2. (2 * x) * p <= x
    OBVIOUS
  <2>3. \A y, z \in Nat : y <= z => (2 * x) * y <= (2 * x) * z
    OBVIOUS
  <2> HIDE DEF p
  <2>4. ~(1 <= p)
    BY <2>1, <2>2, <2>3
  <2> QED
    BY <2>1, <2>4 DEF p
<1>3. q = 0
  BY <1>1, <1>2
<1>4. Stored(0) = q * Unit
  <2>1. 2 * 0 + Unit = Unit
    BY <1>1
  <2> QED
    BY <2>1 DEF Stored
<1> HIDE DEF q
<1>5. Stored(0) = 0
  BY <1>1, <1>3, <1>4
<1>6. Stored(d - d) = Stored(d) - d /\ d - d = 0 /\ Stored(d) \in Nat
  BY StoredShift, StoredNat
<1> QED
  BY <1>5, <1>6

\* A sum of whole cents is whole.
LEMMA WholeSums ==
  ASSUME NEW S, IsFiniteSet(S), NEW f, \A x \in S : f[x] \in Int /\ WholeCents(f[x])
  PROVE  WholeCents(SumFunctionOnSet(f, S))
<1> DEFINE F == {T \in SUBSET S : WholeCents(SumFunctionOnSet(f, T))}
<1>1. ASSUME NEW T \in SUBSET S, \A U \in SUBSET T : U # T => U \in F
      PROVE  T \in F
  <2>1. CASE T = {}
    BY <2>1, SumEmpty, WholeZero
  <2>2. CASE T # {}
    <3> DEFINE V == T \ {One(T)}
    <3>1. One(T) \in T /\ V \in F /\ IsFiniteSet(T) /\ IsFiniteSet(V) /\ V \subseteq S
      BY <1>1, <2>2, OneIn, FS_Subset
    <3>2. SumFunctionOnSet(f, T) = f[One(T)] + SumFunctionOnSet(f, V)
      BY <2>2, <3>1, SumStep
    <3>3. SumFunctionOnSet(f, V) \in Int /\ WholeCents(SumFunctionOnSet(f, V))
      BY <3>1, SumType
    <3> HIDE DEF V
    <3> QED
      BY <3>1, <3>2, <3>3, WholeSum
  <2>3. QED BY <2>1, <2>2
<1> HIDE DEF F
<1>2. S \in F
  BY <1>1, SubsetInduction
<1>3. QED BY <1>2 DEF F

\* An entry of a splits array names a user and an amount.
LEMMA EntryType ==
  ASSUME NEW s \in SplitLists, NEW i \in DOMAIN s
  PROVE  s[i] \in [user: Users, amt: Amount]
<1> DEFINE Entry == [user: Users, amt: Amount]
<1>1. s \in Seq(Entry)
  BY GtAssumptions
<1> HIDE DEF Entry
<1>2. s[i] \in Entry
  BY <1>1
<1> QED
  BY <1>2 DEF Entry

-----------------------------------------------------------------------------
(* applySplitsInPlace, row by row.                                         *)

\* What one run of applySplitsInPlace with new row ids "fresh" does to each
\* personal row: inserted, updated in place, soft-deleted or left alone.
SplitsApplied(g, s, m, fresh) ==
  /\ fresh \in [Inserted(g, s) -> UnusedRows]
  /\ \A i, j \in Inserted(g, s) : fresh[i] = fresh[j] => i = j
  /\ splits' = [splits EXCEPT ![g] = SplitsAfter(g, s, fresh)]
  /\ personal' \in [RowIds -> {personal'[t] : t \in RowIds}]
  /\ \A i \in Inserted(g, s) : personal'[fresh[i]] = InsertedRow(g, s[i], m)
  /\ \A u \in SplitUsers(s) : Bound(g, u) =>
       personal'[splits[g][u].row] =
         UpdatedPersonal(personal[splits[g][u].row], s[LastEntry(s, u)].amt, m)
  /\ \A u \in Users \ SplitUsers(s) : Bound(g, u) =>
       personal'[splits[g][u].row] =
         [personal[splits[g][u].row] EXCEPT !.deleted = TRUE]
  /\ \A t \in RowIds :
       (\A i \in Inserted(g, s) : fresh[i] # t) /\ (\A u \in Users : ~PointsAt(g, u, t))
         => personal'[t] = personal[t]

LEMMA ApplySplitsRows ==
  ASSUME TablesTypeOK, SplitsPointAtOwnRow,
         NEW g \in GtIds, NEW s \in SplitLists, NEW m, ApplySplits(g, s, m)
  PROVE  \E fresh : SplitsApplied(g, s, m, fresh)
<1>1. PICK fresh \in FreshRows(g, s) :
        /\ splits' = [splits EXCEPT ![g] = SplitsAfter(g, s, fresh)]
        /\ personal' = [t \in RowIds |-> RowAfter(g, s, m, fresh, t)]
  BY DEF ApplySplits
<1>2. /\ fresh \in [Inserted(g, s) -> UnusedRows]
      /\ \A i, j \in Inserted(g, s) : fresh[i] = fresh[j] => i = j
  BY <1>1, Zenon DEF FreshRows, Injection, IsInjective
<1>3. DOMAIN fresh = Inserted(g, s) /\ UnusedRows \subseteq RowIds
  BY <1>2 DEF UnusedRows
<1>4. SplitUsers(s) \subseteq Users
  BY EntryType DEF SplitUsers
\* A row a split points at is in use and has that split's user.
<1>5. ASSUME NEW u \in Users, Bound(g, u)
      PROVE  /\ splits[g][u].row \in RowIds /\ PointsAt(g, u, splits[g][u].row)
             /\ \A i \in Inserted(g, s) : fresh[i] # splits[g][u].row
             /\ \A v \in Users : PointsAt(g, v, splits[g][u].row) => v = u
  <2>1. splits[g][u].row \in RowIds
    BY <1>5 DEF TablesTypeOK, Bound, HasSplit, SplitRow
  <2>2. personal[splits[g][u].row] # NoRow /\ personal[splits[g][u].row].user = u
    BY <1>5 DEF SplitsPointAtOwnRow, Bound
  <2>3. \A v \in Users : PointsAt(g, v, splits[g][u].row) => v = u
    BY <2>2 DEF SplitsPointAtOwnRow, Bound, PointsAt
  <2>4. \A i \in Inserted(g, s) : fresh[i] # splits[g][u].row
    BY <1>2, <2>2 DEF UnusedRows
  <2> QED
    BY <1>5, <2>1, <2>3, <2>4 DEF PointsAt
<1>6. ASSUME NEW i \in Inserted(g, s)
      PROVE  personal'[fresh[i]] = InsertedRow(g, s[i], m)
  <2>1. fresh[i] \in RowIds
    BY <1>2, <1>3
  <2>2. EntryOfRow(fresh, fresh[i]) = i
    BY <1>2, <1>3 DEF EntryOfRow
  <2> QED
    BY <1>1, <1>3, <2>1, <2>2 DEF RowAfter
<1>7. ASSUME NEW u \in SplitUsers(s), Bound(g, u)
      PROVE  personal'[splits[g][u].row] =
               UpdatedPersonal(personal[splits[g][u].row], s[LastEntry(s, u)].amt, m)
  <2> DEFINE t == splits[g][u].row
  <2>1. u \in Users /\ t \in RowIds /\ PointsAt(g, u, t)
    BY <1>4, <1>5, <1>7
  <2>2. ~\E i \in DOMAIN fresh : fresh[i] = t
    BY <1>3, <1>5, <1>7, <2>1
  <2>3. UserOfRow(g, s, t) = u
    BY <1>4, <1>5, <1>7, <2>1 DEF UserOfRow
  <2>4. \E v \in SplitUsers(s) : Reused(g, v) /\ PointsAt(g, v, t)
    BY <1>7, <2>1 DEF Reused
  <2> HIDE DEF t
  <2>5. personal'[t] = UpdatedPersonal(personal[t], s[LastEntry(s, u)].amt, m)
    BY <1>1, <2>1, <2>2, <2>3, <2>4 DEF RowAfter
  <2> QED
    BY <2>5 DEF t
<1>8. ASSUME NEW u \in Users \ SplitUsers(s), Bound(g, u)
      PROVE  personal'[splits[g][u].row] = [personal[splits[g][u].row] EXCEPT !.deleted = TRUE]
  <2> DEFINE t == splits[g][u].row
  <2>1. t \in RowIds /\ PointsAt(g, u, t)
    BY <1>5, <1>8
  <2>2. ~\E i \in DOMAIN fresh : fresh[i] = t
    BY <1>3, <1>5, <1>8
  <2>3. ~\E v \in SplitUsers(s) : Reused(g, v) /\ PointsAt(g, v, t)
    BY <1>4, <1>5, <1>8
  <2> HIDE DEF t
  <2>4. personal'[t] = [personal[t] EXCEPT !.deleted = TRUE]
    BY <1>1, <2>1, <2>2, <2>3 DEF RowAfter
  <2> QED
    BY <2>4 DEF t
<1>9. ASSUME NEW t \in RowIds,
             \A i \in Inserted(g, s) : fresh[i] # t,
             \A u \in Users : ~PointsAt(g, u, t)
      PROVE  personal'[t] = personal[t]
  <2>1. ~\E i \in DOMAIN fresh : fresh[i] = t
    BY <1>3, <1>9
  <2>2. ~\E u \in SplitUsers(s) : Reused(g, u) /\ PointsAt(g, u, t)
    BY <1>4, <1>9
  <2>3. ~\E u \in Users \ SplitUsers(s) : PointsAt(g, u, t)
    BY <1>9
  <2> QED
    BY <1>1, <2>1, <2>2, <2>3 DEF RowAfter
<1>10. personal' \in [RowIds -> {personal'[t] : t \in RowIds}]
  BY <1>1
<1>11. SplitsApplied(g, s, m, fresh)
  BY <1>1, <1>2, <1>6, <1>7, <1>8, <1>9, <1>10, Zenon DEF SplitsApplied
<1> QED
  BY <1>11

\* The amounts it stores are positive: a zero would have failed a CHECK.
LEMMA StoredAmounts ==
  ASSUME NEW g, NEW s \in SplitLists, ~SplitsFail(g, s), NEW i \in DOMAIN s
  PROVE  Stored(s[i].amt) \in Amount
<1>1. s[i].amt \in Nat
  BY EntryType DEF Amount
<1>2. Stored(s[i].amt) \in Nat /\ Stored(s[i].amt) # 0
  BY <1>1, StoredNat DEF SplitsFail
<1> QED
  BY <1>2 DEF Amount

\* An update in place keeps a personal row well-formed, and whose it is.
LEMMA UpdatedPersonalType ==
  ASSUME NEW row \in PersonalRow, NEW a, Stored(a) \in Amount, NEW m \in Metas
  PROVE  /\ UpdatedPersonal(row, a, m) \in PersonalRow
         /\ UpdatedPersonal(row, a, m).user = row.user
         /\ UpdatedPersonal(row, a, m).gt = row.gt
         /\ UpdatedPersonal(row, a, m).kind = row.kind
         /\ UpdatedPersonal(row, a, m).amt = Stored(a)
         /\ UpdatedPersonal(row, a, m).meta = m
         /\ ~UpdatedPersonal(row, a, m).deleted
BY DEF UpdatedPersonal, PersonalRow

\* An inserted row is well-formed, live, the entry's user's and linked to g.
LEMMA InsertedRowType ==
  ASSUME NEW g \in GtIds, NEW e, e.user \in Users, Stored(e.amt) \in Amount, NEW m \in Metas
  PROVE  /\ InsertedRow(g, e, m) \in PersonalRow
         /\ InsertedRow(g, e, m).user = e.user
         /\ InsertedRow(g, e, m).gt = g
         /\ InsertedRow(g, e, m).kind = "expense"
         /\ InsertedRow(g, e, m).amt = Stored(e.amt)
         /\ InsertedRow(g, e, m).meta = m
         /\ ~InsertedRow(g, e, m).deleted
BY DEF InsertedRow, PersonalRow

\* The split row of a named user, and the row it points at.
LEMMA NewSplitType ==
  ASSUME TablesTypeOK, NEW g \in GtIds, NEW s \in SplitLists, ~SplitsFail(g, s),
         NEW m, NEW fresh, SplitsApplied(g, s, m, fresh), NEW u \in SplitUsers(s)
  PROVE  /\ NewSplit(g, s, u, fresh) \in SplitRow
         /\ NewSplit(g, s, u, fresh).row \in RowIds
         /\ ~Bound(g, u) => /\ LastEntry(s, u) \in Inserted(g, s)
                            /\ NewSplit(g, s, u, fresh).row = fresh[LastEntry(s, u)]
<1>1. LastEntry(s, u) \in DOMAIN s /\ s[LastEntry(s, u)].user = u
  BY LastEntryOfUser
<1>2. Stored(s[LastEntry(s, u)].amt) \in Amount
  BY <1>1, StoredAmounts
<1>3. u \in Users
  BY <1>1, EntryType
<1>4. ~Bound(g, u) => LastEntry(s, u) \in Inserted(g, s)
  BY <1>1 DEF Inserted, Reused
<1>5. ~Bound(g, u) => fresh[LastEntry(s, u)] \in RowIds
  BY <1>4 DEF SplitsApplied, UnusedRows
<1>6. Bound(g, u) => splits[g][u].row \in RowIds
  BY <1>3 DEF TablesTypeOK, Bound, HasSplit, SplitRow
<1> QED
  BY <1>2, <1>4, <1>5, <1>6 DEF NewSplit, Reused, SplitRow

LEMMA SplitsAppliedType ==
  ASSUME TablesTypeOK, SplitsPointAtOwnRow, NEW g \in GtIds, NEW s \in SplitLists,
         ~SplitsFail(g, s), NEW m \in Metas, NEW fresh, SplitsApplied(g, s, m, fresh)
  PROVE  /\ splits' \in [GtIds -> [Users -> SplitRow \cup {NoRow}]]
         /\ personal' \in [RowIds -> PersonalRow \cup {NoRow}]
<1>1. \A u \in SplitUsers(s) : NewSplit(g, s, u, fresh) \in SplitRow
  BY NewSplitType
<1>2. SplitsAfter(g, s, fresh) \in [Users -> SplitRow \cup {NoRow}]
  BY <1>1 DEF SplitsAfter
<1>3. splits' \in [GtIds -> [Users -> SplitRow \cup {NoRow}]]
  BY <1>2 DEF SplitsApplied, TablesTypeOK
<1>4. ASSUME NEW t \in RowIds PROVE personal'[t] \in PersonalRow \cup {NoRow}
  <2>1. CASE \E i \in Inserted(g, s) : fresh[i] = t
    <3>1. PICK i \in Inserted(g, s) : fresh[i] = t
      BY <2>1
    <3>2. i \in DOMAIN s /\ s[i].user \in Users /\ Stored(s[i].amt) \in Amount
      BY StoredAmounts, EntryType DEF Inserted
    <3> QED
      BY <3>1, <3>2, InsertedRowType DEF SplitsApplied
  <2>2. CASE \E u \in Users : PointsAt(g, u, t)
    <3>1. PICK u \in Users : PointsAt(g, u, t)
      BY <2>2
    <3>2. Bound(g, u) /\ splits[g][u].row = t /\ personal[t] \in PersonalRow
      BY <3>1 DEF PointsAt, Bound, SplitsPointAtOwnRow, TablesTypeOK
    <3>3. CASE u \in SplitUsers(s)
      <4>1. Stored(s[LastEntry(s, u)].amt) \in Amount
        BY <3>3, LastEntryOfUser, StoredAmounts
      <4>2. personal'[t] = UpdatedPersonal(personal[t], s[LastEntry(s, u)].amt, m)
        BY <3>2, <3>3 DEF SplitsApplied
      <4> QED
        BY <3>2, <4>1, <4>2, UpdatedPersonalType
    <3>4. CASE u \notin SplitUsers(s)
      <4>1. personal'[t] = [personal[t] EXCEPT !.deleted = TRUE]
        BY <3>2, <3>4 DEF SplitsApplied
      <4> QED
        BY <3>2, <4>1 DEF PersonalRow
    <3> QED
      BY <3>3, <3>4
  <2>3. CASE /\ \A i \in Inserted(g, s) : fresh[i] # t
             /\ \A u \in Users : ~PointsAt(g, u, t)
    BY <2>3 DEF SplitsApplied, TablesTypeOK
  <2> QED
    BY <2>1, <2>2, <2>3
<1>5. personal' \in [RowIds -> PersonalRow \cup {NoRow}]
  BY <1>4 DEF SplitsApplied
<1> QED
  BY <1>3, <1>5

\* A row that is in use and not linked to g is left alone.
LEMMA OtherRowsUntouched ==
  ASSUME SplitsPointAtOwnRow, NEW g \in GtIds, NEW s, NEW m, NEW fresh,
         SplitsApplied(g, s, m, fresh),
         NEW t \in RowIds, personal[t] # NoRow, personal[t].gt # g
  PROVE  personal'[t] = personal[t]
<1>1. \A i \in Inserted(g, s) : fresh[i] # t
  BY DEF SplitsApplied, UnusedRows
<1>2. \A u \in Users : ~PointsAt(g, u, t)
  BY DEF SplitsPointAtOwnRow, PointsAt, Bound
<1> QED
  BY <1>1, <1>2 DEF SplitsApplied

\* After applySplitsInPlace a named user's split points at a live expense row of
\* that user which shows the split's amount and the group transaction's metadata.
LEMMA NamedUserRow ==
  ASSUME TablesTypeOK, SplitsPointAtOwnRow, NEW g \in GtIds, NEW s \in SplitLists,
         ~SplitsFail(g, s), NEW m \in Metas, NEW fresh, SplitsApplied(g, s, m, fresh),
         NEW u \in SplitUsers(s)
  PROVE  LET row == personal'[splits'[g][u].row]
         IN  /\ splits'[g][u] = NewSplit(g, s, u, fresh)
             /\ row \in PersonalRow /\ row.user = u /\ row.gt = g /\ ~row.deleted
             /\ row.amt = splits'[g][u].amt /\ row.meta = m
             /\ (Bound(g, u) => row.kind = personal[splits[g][u].row].kind)
             /\ (~Bound(g, u) => row.kind = "expense")
<1> DEFINE last == LastEntry(s, u)
<1>1. last \in DOMAIN s /\ s[last].user = u /\ u \in Users
  BY LastEntryOfUser, EntryType
<1>2. Stored(s[last].amt) \in Amount
  BY <1>1, StoredAmounts
<1>3. splits'[g] = SplitsAfter(g, s, fresh)
  BY DEF SplitsApplied, TablesTypeOK
<1>4. splits'[g][u] = NewSplit(g, s, u, fresh)
  BY <1>1, <1>3 DEF SplitsAfter
<1>5. splits'[g][u].amt = Stored(s[last].amt)
  BY <1>4 DEF NewSplit
<1>6. CASE Bound(g, u)
  <2>1. splits'[g][u].row = splits[g][u].row
    BY <1>4, <1>6 DEF NewSplit, Reused
  <2>2. /\ personal[splits[g][u].row] \in PersonalRow
        /\ personal[splits[g][u].row].user = u
        /\ personal[splits[g][u].row].gt = g
    BY <1>1, <1>6 DEF SplitsPointAtOwnRow, Bound, HasSplit, TablesTypeOK, SplitRow
  <2>3. personal'[splits[g][u].row] = UpdatedPersonal(personal[splits[g][u].row], s[last].amt, m)
    BY <1>6 DEF SplitsApplied
  <2> HIDE DEF last
  <2> QED
    BY <1>2, <1>4, <1>5, <1>6, <2>1, <2>2, <2>3, UpdatedPersonalType
<1>7. CASE ~Bound(g, u)
  <2>1. last \in Inserted(g, s) /\ splits'[g][u].row = fresh[last]
    BY <1>4, <1>7, NewSplitType
  <2>2. personal'[fresh[last]] = InsertedRow(g, s[last], m)
    BY <2>1 DEF SplitsApplied
  <2> HIDE DEF last
  <2> QED
    BY <1>1, <1>2, <1>4, <1>5, <1>7, <2>1, <2>2, InsertedRowType
<1> QED
  BY <1>6, <1>7

\* applySplitsInPlace leaves every split pointing at a row of its own.
LEMMA SplitsAppliedBinding ==
  ASSUME TablesTypeOK, SplitsPointAtOwnRow, NEW g \in GtIds, NEW s \in SplitLists,
         ~SplitsFail(g, s), NEW m \in Metas, NEW fresh, SplitsApplied(g, s, m, fresh),
         gts'[g] # NoRow, \A h \in GtIds \ {g} : gts'[h] = gts[h]
  PROVE  SplitsPointAtOwnRow'
<1> SUFFICES ASSUME NEW h \in GtIds, NEW u \in Users, HasSplit(h, u)'
             PROVE  /\ gts'[h] # NoRow
                    /\ splits'[h][u].row # None =>
                         /\ personal'[splits'[h][u].row] # NoRow
                         /\ personal'[splits'[h][u].row].user = u
                         /\ personal'[splits'[h][u].row].gt = h
  BY DEF SplitsPointAtOwnRow
<1>0. splits'[h][u] # NoRow
  BY DEF HasSplit
<1>1. CASE h = g
  <2>1. u \in SplitUsers(s)
    BY <1>0, <1>1 DEF SplitsApplied, SplitsAfter, TablesTypeOK
  <2> QED
    BY <1>1, <2>1, NamedUserRow, StateAssumptions
<1>2. CASE h # g
  <2>1. splits'[h] = splits[h] /\ gts'[h] = gts[h]
    BY <1>2 DEF SplitsApplied, TablesTypeOK
  <2>2. HasSplit(h, u)
    BY <1>0, <2>1 DEF HasSplit
  <2>3. gts'[h] # NoRow
    BY <2>1, <2>2 DEF SplitsPointAtOwnRow
  <2>4. ASSUME splits[h][u].row # None
        PROVE  /\ splits[h][u].row \in RowIds
               /\ personal[splits[h][u].row] # NoRow
               /\ personal[splits[h][u].row].user = u
               /\ personal[splits[h][u].row].gt = h
    BY <2>2, <2>4 DEF SplitsPointAtOwnRow, TablesTypeOK, HasSplit, SplitRow
  <2>5. splits[h][u].row # None => personal'[splits[h][u].row] = personal[splits[h][u].row]
    BY <1>2, <2>4, OtherRowsUntouched
  <2> QED
    BY <2>1, <2>3, <2>4, <2>5
<1> QED
  BY <1>1, <1>2
-----------------------------------------------------------------------------
(* Type correctness, and no split pointing at someone else's row.          *)

\* Neither half is inductive alone: the binding of the rows needs their types,
\* and the type of an updated row needs the row to be there.
OwnRowInv == GtTypeOK /\ SplitsPointAtOwnRow

\* A request in flight has the shape its handler's checks let through.
LEMMA PendingType ==
  ASSUME GtTypeOK, NEW c \in Clients, pending[c] # None
  PROVE  /\ pending[c] \in Request
         /\ pending[c].op = "create" => pending[c] \in CreateRequest
         /\ pending[c].op = "update" => pending[c] \in UpdateRequest
         /\ pending[c].op = "hide" => pending[c] \in HideRequest
         /\ pending[c].op = "recat" => pending[c] \in RecatRequest
         /\ pending[c].op # "recat" => pending[c].gt \in GtIds
<1>1. pending[c] \in Request
  BY DEF GtTypeOK
<1> QED
  BY <1>1 DEF Request, CreateRequest, UpdateRequest, DeleteRequest, HideRequest, RecatRequest

\* What an accepted create stores.
LEMMA UpsertedRowType ==
  ASSUME NEW r \in CreateRequest, Stored(r.total) > 0
  PROVE  /\ UpsertedRow(r) \in GtRow /\ UpsertedRow(r).meta = r.meta
         /\ ~UpsertedRow(r).deleted
<1>1. r.total \in Nat /\ r.payer \in Users /\ r.meta \in Metas /\ r.stamp \in Nat
  BY GtAssumptions DEF CreateRequest, Amount
<1>2. Stored(r.total) \in Amount
  BY <1>1, StoredNat DEF Amount
<1> QED
  BY <1>1, <1>2 DEF UpsertedRow, GtRow

\* What an accepted update leaves stored.
LEMMA UpdatedRowType ==
  ASSUME TablesTypeOK, NEW r \in UpdateRequest, gts[r.gt] # NoRow, UpdatedRow(r).total > 0
  PROVE  /\ UpdatedRow(r) \in GtRow
         /\ UpdatedRow(r).meta = (IF r.meta = None THEN gts[r.gt].meta ELSE r.meta)
         /\ UpdatedRow(r).deleted = gts[r.gt].deleted
<1>1. /\ r.gt \in GtIds /\ r.payer \in Users \cup {None} /\ r.total \in Totals \cup {None}
      /\ r.meta \in Metas \cup {None} /\ r.stamp \in Nat
  BY DEF UpdateRequest
<1>2. gts[r.gt] \in GtRow
  BY <1>1 DEF TablesTypeOK
<1>3. r.total # None => Stored(r.total) \in Nat
  BY <1>1, StoredNat, GtAssumptions DEF Amount
<1>4. UpdatedRow(r).total \in Amount
  BY <1>2, <1>3 DEF UpdatedRow, GtRow, Amount
<1>5. /\ UpdatedRow(r).payer \in Users /\ UpdatedRow(r).meta \in Metas
      /\ UpdatedRow(r).deleted \in BOOLEAN /\ UpdatedRow(r).stamp \in Nat
  BY <1>1, <1>2 DEF UpdatedRow, GtRow
<1> QED
  BY <1>4, <1>5 DEF UpdatedRow, GtRow

\* A create, or an update with new splits, as one step: the new group transaction
\* row and one run of applySplitsInPlace.
SplitsWritten(c) ==
  LET r == pending[c]
      m == gts'[r.gt].meta
  IN  /\ pending[c] # None /\ r \in CreateRequest \cup UpdateRequest
      /\ r.gt \in GtIds /\ r.splits \in SplitLists /\ ~SplitsFail(r.gt, r.splits)
      /\ gts' \in [GtIds -> GtRow \cup {NoRow}] /\ gts'[r.gt] \in GtRow
      /\ \A h \in GtIds \ {r.gt} : gts'[h] = gts[h]
      /\ \E fresh : SplitsApplied(r.gt, r.splits, m, fresh)
      /\ Finish(c)
      /\ UNCHANGED <<clock, groupDeleted, members, setts, purging>>

LEMMA CreateWrites ==
  ASSUME OwnRowInv, NEW c \in Clients, CommitCreate(c)
  PROVE  SplitsWritten(c)
<1> DEFINE r == pending[c]
<1>1. r \in CreateRequest /\ r # None /\ r.gt \in GtIds
  BY PendingType DEF OwnRowInv, CommitCreate
<1>2. r.splits \in SplitLists /\ r.meta \in Metas
  BY <1>1 DEF CreateRequest
<1>3. UpsertedRow(r) \in GtRow /\ UpsertedRow(r).meta = r.meta
  BY <1>1, UpsertedRowType DEF CommitCreate
<1>4. /\ gts' = [gts EXCEPT ![r.gt] = UpsertedRow(r)]
      /\ ~SplitsFail(r.gt, r.splits) /\ ApplySplits(r.gt, r.splits, r.meta)
      /\ Finish(c) /\ UNCHANGED <<clock, groupDeleted, members, setts, purging>>
  BY DEF CommitCreate
<1> HIDE DEF r
<1>5. gts \in [GtIds -> GtRow \cup {NoRow}]
  BY DEF OwnRowInv, GtTypeOK, TablesTypeOK
<1>6. /\ gts' \in [GtIds -> GtRow \cup {NoRow}] /\ gts'[r.gt] = UpsertedRow(r)
      /\ \A h \in GtIds \ {r.gt} : gts'[h] = gts[h]
  BY <1>1, <1>3, <1>4, <1>5
<1>7. \E fresh : SplitsApplied(r.gt, r.splits, r.meta, fresh)
  BY <1>1, <1>2, <1>4, ApplySplitsRows DEF OwnRowInv, GtTypeOK
<1> QED
  BY <1>1, <1>2, <1>3, <1>4, <1>6, <1>7 DEF SplitsWritten, r

LEMMA UpdateWrites ==
  ASSUME OwnRowInv, NEW c \in Clients, CommitUpdate(c), pending[c].splits # <<>>
  PROVE  SplitsWritten(c)
<1> DEFINE r == pending[c]
<1>1. r \in UpdateRequest /\ r # None /\ r.gt \in GtIds
  BY PendingType DEF OwnRowInv, CommitUpdate
<1>2. r.splits \in SplitLists
  BY <1>1 DEF UpdateRequest
<1>3. /\ gts' = [gts EXCEPT ![r.gt] = UpdatedRow(r)]
      /\ gts[r.gt] # NoRow /\ UpdatedRow(r).total > 0
      /\ ~SplitsFail(r.gt, r.splits) /\ ApplySplits(r.gt, r.splits, UpdatedRow(r).meta)
      /\ Finish(c) /\ UNCHANGED <<clock, groupDeleted, members, setts, purging>>
  BY DEF CommitUpdate
<1> HIDE DEF r
<1>4. UpdatedRow(r) \in GtRow
  BY <1>1, <1>3, UpdatedRowType DEF OwnRowInv, GtTypeOK
<1>5. gts \in [GtIds -> GtRow \cup {NoRow}]
  BY DEF OwnRowInv, GtTypeOK, TablesTypeOK
<1>6. /\ gts' \in [GtIds -> GtRow \cup {NoRow}] /\ gts'[r.gt] = UpdatedRow(r)
      /\ \A h \in GtIds \ {r.gt} : gts'[h] = gts[h]
  BY <1>1, <1>3, <1>4, <1>5
<1>7. \E fresh : SplitsApplied(r.gt, r.splits, UpdatedRow(r).meta, fresh)
  BY <1>1, <1>2, <1>3, ApplySplitsRows DEF OwnRowInv, GtTypeOK
<1> QED
  BY <1>1, <1>2, <1>3, <1>4, <1>6, <1>7 DEF SplitsWritten, r

\* A step that writes the splits anew.
LEMMA SplitsWrittenKeepsOwnRow ==
  ASSUME OwnRowInv, NEW c \in Clients, SplitsWritten(c)
  PROVE  OwnRowInv'
<1> DEFINE r == pending[c]
<1> DEFINE m == gts'[r.gt].meta
<1>1. PICK fresh : SplitsApplied(r.gt, r.splits, m, fresh)
  BY DEF SplitsWritten
<1>2. /\ r.gt \in GtIds /\ r.splits \in SplitLists /\ ~SplitsFail(r.gt, r.splits)
      /\ gts' \in [GtIds -> GtRow \cup {NoRow}] /\ gts'[r.gt] \in GtRow
      /\ \A h \in GtIds \ {r.gt} : gts'[h] = gts[h]
  BY DEF SplitsWritten
<1>3. m \in Metas /\ gts'[r.gt] # NoRow
  BY <1>2, StateAssumptions DEF GtRow
<1>4. pending' \in [Clients -> Request \cup {None}]
  BY DEF SplitsWritten, Finish, OwnRowInv, GtTypeOK
<1>5. UNCHANGED <<clock, groupDeleted, members, setts, purging>>
  BY DEF SplitsWritten
<1> HIDE DEF r, m
<1>6. /\ splits' \in [GtIds -> [Users -> SplitRow \cup {NoRow}]]
      /\ personal' \in [RowIds -> PersonalRow \cup {NoRow}]
  BY <1>1, <1>2, <1>3, SplitsAppliedType DEF OwnRowInv, GtTypeOK
<1>7. SplitsPointAtOwnRow'
  BY <1>1, <1>2, <1>3, SplitsAppliedBinding DEF OwnRowInv, GtTypeOK
<1> QED
  BY <1>2, <1>4, <1>5, <1>6, <1>7 DEF OwnRowInv, GtTypeOK, TablesTypeOK

\* A step that only looks at the tables: a request's checks, or a snapshot of a transaction.
LooksOnly(c) ==
  \/ ReceiveCreate(c) \/ ReceiveUpdate(c) \/ ReceiveDelete(c) \/ HideRows(c)
  \/ ReceiveRecat(c) \/ RecatGroups(c)

\* Such a step changes nothing but "pending".
LEMMA ReceiveKeepsOwnRow ==
  ASSUME OwnRowInv, NEW c \in Clients, LooksOnly(c)
  PROVE  OwnRowInv' /\ UNCHANGED <<tables, purging>>
<1>1. members \subseteq Users /\ clock \in Nat
  BY DEF OwnRowInv, GtTypeOK, TablesTypeOK
<1>2. \A t \in Stamps : t \in Nat
  BY <1>1, GtAssumptions DEF Stamps
<1>3. /\ \E r \in Request : pending' = [pending EXCEPT ![c] = r]
      /\ UNCHANGED <<clock, tables, purging>>
  <2>1. CASE ReceiveCreate(c)
    BY <1>1, <1>2, <2>1 DEF ReceiveCreate, Receive, Request, CreateRequest
  <2>2. CASE ReceiveUpdate(c)
    <3>1. PICK r \in UpdateRequest : Receive(c, r)
      <4>1. ASSUME NEW g \in GtIds, NEW p \in Payers \cup {None},
                   NEW n \in Totals \cup {None}, NEW s \in SplitLists \cup {<<>>},
                   NEW m \in Metas \cup {None}, NEW t \in Stamps
            PROVE  [op |-> "update", gt |-> g, payer |-> p, total |-> n,
                    splits |-> s, meta |-> m, stamp |-> t] \in UpdateRequest
        <5>1. p \in Users \cup {None} /\ t \in Nat
          BY <1>2, GtAssumptions
        <5> QED
          BY <5>1 DEF UpdateRequest
      <4> QED
        BY <2>2, <4>1 DEF ReceiveUpdate
    <3> QED
      BY <3>1 DEF Receive, Request
  <2>3. CASE ReceiveDelete(c)
    BY <2>3 DEF ReceiveDelete, Receive, Request, DeleteRequest
  <2>4. CASE HideRows(c)
    <3>1. pending[c].gt \in GtIds
      BY <2>4, PendingType DEF OwnRowInv, HideRows
    <3> QED
      BY <1>1, <2>4, <3>1 DEF HideRows, Request, HideRequest
  <2>5. CASE ReceiveRecat(c)
    <3>1. PICK to \in Reassignments, owners \in {{u} : u \in Users} \cup {Users} :
            Receive(c, [op |-> "recat", to |-> to, owners |-> owners, next |-> "groups",
              gts |-> {},
              seen |-> {t \in RowIds : /\ personal[t] # NoRow /\ personal[t].user \in owners
                                      /\ Moves(to, personal[t].meta)}])
      BY <2>5 DEF ReceiveRecat
    <3> DEFINE seen == {t \in RowIds : /\ personal[t] # NoRow /\ personal[t].user \in owners
                                      /\ Moves(to, personal[t].meta)}
    <3>2. owners \in SUBSET Users /\ seen \in SUBSET RowIds /\ {} \in SUBSET GtIds
      OBVIOUS
    <3>3. [op |-> "recat", to |-> to, owners |-> owners, next |-> "groups",
           gts |-> {}, seen |-> seen] \in RecatRequest
      <4> DEFINE SU == SUBSET Users  SR == SUBSET RowIds  SG == SUBSET GtIds
      <4>1. owners \in SU /\ seen \in SR /\ {} \in SG
        BY <3>2
      <4>2. RecatRequest = [op: {"recat"}, to: Reassignments, owners: SU,
                            next: {"groups", "commit"}, seen: SR, gts: SG]
        BY DEF RecatRequest
      <4> HIDE DEF seen, SU, SR, SG
      <4> QED
        BY <4>1, <4>2
    <3> HIDE DEF RecatRequest
    <3> QED
      BY <3>1, <3>3 DEF Receive, Request
  <2>6. CASE RecatGroups(c)
    <3> DEFINE moved == {g \in GtIds : /\ gts[g] # NoRow /\ gts[g].payer \in pending[c].owners
                                      /\ Moves(pending[c].to, gts[g].meta)}
    <3>1. pending[c] \in RecatRequest
      BY <2>6, PendingType DEF OwnRowInv, RecatGroups
    <3>2. /\ pending' = [pending EXCEPT ![c] =
                          [pending[c] EXCEPT !.next = "commit", !.gts = moved]]
          /\ UNCHANGED <<clock, tables, purging>>
      <4>1. pending' = [pending EXCEPT ![c].next = "commit", ![c].gts = moved]
        BY <2>6 DEF RecatGroups
      <4>2. pending \in [Clients -> Request \cup {None}]
        BY DEF OwnRowInv, GtTypeOK
      <4> HIDE DEF moved
      <4> QED
        BY <2>6, <4>1, <4>2 DEF RecatGroups
    <3>3. [pending[c] EXCEPT !.next = "commit", !.gts = moved] \in RecatRequest
      <4> DEFINE SU == SUBSET Users  SR == SUBSET RowIds  SG == SUBSET GtIds
      <4>1. moved \in SG
        OBVIOUS
      <4>2. RecatRequest = [op: {"recat"}, to: Reassignments, owners: SU,
                            next: {"groups", "commit"}, seen: SR, gts: SG]
        BY DEF RecatRequest
      <4> HIDE DEF moved, SU, SR, SG
      <4> QED
        BY <3>1, <4>1, <4>2
    <3> QED
      BY <3>2, <3>3 DEF Request
  <2> QED
    BY <2>1, <2>2, <2>3, <2>4, <2>5, <2>6 DEF LooksOnly
<1>4. pending' \in [Clients -> Request \cup {None}]
  BY <1>3 DEF OwnRowInv, GtTypeOK
<1> QED
  BY <1>3, <1>4 DEF OwnRowInv, GtTypeOK, TablesTypeOK, SplitsPointAtOwnRow, HasSplit, tables

\* An update without new splits, a delete and a direct edit leave the splits alone,
\* and of every personal row its owner and its link.
LEMMA RowsEditedKeepsOwnRow ==
  ASSUME OwnRowInv, UNCHANGED <<splits, members, groupDeleted, setts>>,
         clock' \in Nat, purging' \in BOOLEAN,
         pending' \in [Clients -> Request \cup {None}],
         gts' \in [GtIds -> GtRow \cup {NoRow}],
         \A g \in GtIds : gts[g] # NoRow => gts'[g] # NoRow,
         personal' \in [RowIds -> PersonalRow \cup {NoRow}],
         \A t \in RowIds : personal[t] # NoRow =>
           personal'[t] # NoRow /\ personal'[t].user = personal[t].user
             /\ personal'[t].gt = personal[t].gt
  PROVE  OwnRowInv'
<1>1. GtTypeOK'
  BY DEF OwnRowInv, GtTypeOK, TablesTypeOK
<1>2. \A g \in GtIds, u \in Users : HasSplit(g, u) /\ splits[g][u].row # None =>
        splits[g][u].row \in RowIds
  BY DEF OwnRowInv, GtTypeOK, TablesTypeOK, HasSplit, SplitRow
<1>3. SplitsPointAtOwnRow'
  BY <1>2 DEF OwnRowInv, SplitsPointAtOwnRow, HasSplit
<1> QED
  BY <1>1, <1>3 DEF OwnRowInv

LEMMA PlainUpdateKeepsOwnRow ==
  ASSUME OwnRowInv, NEW c \in Clients, CommitUpdate(c), pending[c].splits = <<>>
  PROVE  OwnRowInv'
<1> DEFINE r == pending[c]
<1>1. r \in UpdateRequest /\ r.gt \in GtIds
  BY PendingType DEF OwnRowInv, CommitUpdate
<1>2. /\ gts' = [gts EXCEPT ![r.gt] = UpdatedRow(r)]
      /\ gts[r.gt] # NoRow /\ UpdatedRow(r).total > 0
      /\ SyncPersonal(r.gt, r.meta) /\ UNCHANGED splits /\ Finish(c)
      /\ UNCHANGED <<clock, groupDeleted, members, setts, purging>>
  BY DEF CommitUpdate
<1> HIDE DEF r
<1>3. UpdatedRow(r) \in GtRow
  BY <1>1, <1>2, UpdatedRowType DEF OwnRowInv, GtTypeOK
<1>4. /\ gts' \in [GtIds -> GtRow \cup {NoRow}]
      /\ \A g \in GtIds : gts[g] # NoRow => gts'[g] # NoRow
  BY <1>1, <1>2, <1>3, StateAssumptions DEF OwnRowInv, GtTypeOK, TablesTypeOK
<1>5. r.meta \in Metas \cup {None}
  BY <1>1 DEF UpdateRequest
<1>6. ASSUME NEW t \in RowIds
      PROVE  /\ personal'[t] \in PersonalRow \cup {NoRow}
             /\ personal[t] # NoRow =>
                  /\ personal'[t] # NoRow /\ personal'[t].user = personal[t].user
                  /\ personal'[t].gt = personal[t].gt
  <2>1. personal[t] \in PersonalRow \cup {NoRow}
    BY DEF OwnRowInv, GtTypeOK, TablesTypeOK
  <2>2. CASE r.meta # None /\ RowLive(t) /\ personal[t].gt = r.gt
    <3>1. personal'[t] = [personal[t] EXCEPT !.meta = r.meta] /\ personal[t] \in PersonalRow
      BY <1>2, <2>1, <2>2 DEF SyncPersonal, RowLive
    <3>2. personal'[t] \in PersonalRow
      BY <1>5, <2>2, <3>1 DEF PersonalRow
    <3> QED
      BY <3>1, <3>2, StateAssumptions DEF PersonalRow
  <2>3. CASE ~(r.meta # None /\ RowLive(t) /\ personal[t].gt = r.gt)
    BY <1>2, <2>1, <2>3 DEF SyncPersonal
  <2> QED
    BY <2>2, <2>3
<1>7. personal' \in [RowIds -> PersonalRow \cup {NoRow}]
  BY <1>2, <1>6 DEF SyncPersonal
<1>8. pending' \in [Clients -> Request \cup {None}] /\ clock' \in Nat /\ purging' \in BOOLEAN
  BY <1>2 DEF Finish, OwnRowInv, GtTypeOK, TablesTypeOK
<1> QED
  BY <1>2, <1>4, <1>6, <1>7, <1>8, RowsEditedKeepsOwnRow

LEMMA DeleteKeepsOwnRow ==
  ASSUME OwnRowInv, NEW c \in Clients, CommitDelete(c)
  PROVE  OwnRowInv'
<1> DEFINE r == pending[c]
<1>1. r \in HideRequest
  BY PendingType DEF OwnRowInv, CommitDelete
<1>2. r.gt \in GtIds /\ r.stamp \in Nat
  BY <1>1 DEF HideRequest
<1>3. /\ personal' = [t \in RowIds |-> HiddenRow(r, t)]
      /\ gts' = IF gts[r.gt] = NoRow THEN gts
                ELSE [gts EXCEPT ![r.gt].deleted = TRUE, ![r.gt].stamp = r.stamp]
      /\ Finish(c) /\ UNCHANGED <<clock, groupDeleted, members, splits, setts, purging>>
  BY DEF CommitDelete
<1> HIDE DEF r
<1>4. gts \in [GtIds -> GtRow \cup {NoRow}]
  BY DEF OwnRowInv, GtTypeOK, TablesTypeOK
<1>5. gts' \in [GtIds -> GtRow \cup {NoRow}] /\ \A g \in GtIds : gts[g] # NoRow => gts'[g] # NoRow
  <2>1. CASE gts[r.gt] = NoRow
    BY <1>3, <1>4, <2>1
  <2>2. CASE gts[r.gt] # NoRow
    <3> DEFINE row == [gts[r.gt] EXCEPT !.deleted = TRUE, !.stamp = r.stamp]
    <3>1. gts[r.gt] \in GtRow
      BY <1>2, <1>4, <2>2
    <3>2. row \in GtRow
      BY <1>2, <3>1 DEF GtRow
    <3>3. gts' = [gts EXCEPT ![r.gt] = row]
      BY <1>2, <1>3, <1>4, <2>2
    <3> HIDE DEF row
    <3> QED
      BY <1>2, <1>4, <3>2, <3>3, StateAssumptions
  <2> QED
    BY <2>1, <2>2
<1>6. ASSUME NEW t \in RowIds
      PROVE  /\ personal'[t] \in PersonalRow \cup {NoRow}
             /\ personal[t] # NoRow =>
                  /\ personal'[t] # NoRow /\ personal'[t].user = personal[t].user
                  /\ personal'[t].gt = personal[t].gt
  <2>1. personal[t] \in PersonalRow \cup {NoRow}
    BY DEF OwnRowInv, GtTypeOK, TablesTypeOK
  <2>2. personal[t] # NoRow => [personal[t] EXCEPT !.deleted = TRUE] \in PersonalRow
    BY <2>1 DEF PersonalRow
  <2> QED
    BY <1>3, <2>1, <2>2, StateAssumptions DEF HiddenRow, PersonalRow
<1>7. personal' \in [RowIds -> PersonalRow \cup {NoRow}]
  BY <1>3, <1>6
<1>8. pending' \in [Clients -> Request \cup {None}] /\ clock' \in Nat /\ purging' \in BOOLEAN
  BY <1>3 DEF Finish, OwnRowInv, GtTypeOK, TablesTypeOK
<1> QED
  BY <1>3, <1>5, <1>6, <1>7, <1>8, RowsEditedKeepsOwnRow

\* POST /transactions changes the kind, the amount and the metadata of a row.
LEMMA DirectEditKeepsOwnRow ==
  ASSUME OwnRowInv, UpsertTransaction
  PROVE  OwnRowInv'
<1>1. PICK t \in RowIds, kind \in {"expense", "income"}, a \in EditAmounts, m \in Metas :
        /\ personal[t] # NoRow
        /\ personal' = [personal EXCEPT ![t].kind = kind, ![t].amt = a, ![t].meta = m]
  BY DEF UpsertTransaction
<1>2. UNCHANGED <<clock, groupDeleted, members, gts, splits, setts, pending, purging>>
  BY DEF UpsertTransaction
<1>3. a \in Amount
  <2>1. PICK s \in SplitLists : \E i \in DOMAIN s : a = Stored(s[i].amt)
    BY DEF EditAmounts
  <2>2. PICK i \in DOMAIN s : a = Stored(s[i].amt)
    BY <2>1
  <2>3. s[i].amt \in Nat
    BY <2>2, EntryType DEF Amount
  <2>4. a # 0
    BY DEF EditAmounts
  <2> QED
    BY <2>2, <2>3, <2>4, StoredNat DEF Amount
<1>4. personal \in [RowIds -> PersonalRow \cup {NoRow}]
  BY DEF OwnRowInv, GtTypeOK, TablesTypeOK
<1> DEFINE row == [personal[t] EXCEPT !.kind = kind, !.amt = a, !.meta = m]
<1>5. row \in PersonalRow /\ row.user = personal[t].user /\ row.gt = personal[t].gt
  <2>1. personal[t] \in PersonalRow
    BY <1>1, <1>4
  <2> QED
    BY <1>3, <2>1 DEF PersonalRow
<1>6. personal' = [personal EXCEPT ![t] = row]
  BY <1>1, <1>4
<1> HIDE DEF row
<1>7. row # NoRow
  BY <1>5, StateAssumptions
<1>8. /\ personal' \in [RowIds -> PersonalRow \cup {NoRow}]
      /\ \A x \in RowIds : personal[x] # NoRow =>
           personal'[x] # NoRow /\ personal'[x].user = personal[x].user
             /\ personal'[x].gt = personal[x].gt
  BY <1>4, <1>5, <1>6, <1>7
<1> QED
  BY <1>2, <1>8, RowsEditedKeepsOwnRow DEF OwnRowInv, GtTypeOK, TablesTypeOK

\* The purge of soft-deleted personal rows clears the pointers to them.
LEMMA PurgeKeepsOwnRow ==
  ASSUME OwnRowInv, PurgeTransactions
  PROVE  OwnRowInv'
<1>1. PICK old \in SUBSET {t \in RowIds : personal[t] # NoRow /\ personal[t].deleted} :
        /\ personal' = [t \in RowIds |-> IF t \in old THEN NoRow ELSE personal[t]]
        /\ splits' = Unpointed(old)
  BY DEF PurgeTransactions
<1>2. purging' = TRUE /\ UNCHANGED <<clock, groupDeleted, members, gts, setts, pending>>
  BY DEF PurgeTransactions
<1>3. personal' \in [RowIds -> PersonalRow \cup {NoRow}]
  BY <1>1 DEF OwnRowInv, GtTypeOK, TablesTypeOK
<1>4. ASSUME NEW g \in GtIds, NEW u \in Users
      PROVE  /\ splits'[g][u] \in SplitRow \cup {NoRow}
             /\ splits'[g][u] # NoRow => splits[g][u] # NoRow
             /\ splits'[g][u] # NoRow /\ splits'[g][u].row # None =>
                  /\ splits'[g][u].row = splits[g][u].row
                  /\ splits[g][u].row \in RowIds \ old
  <2>1. splits[g][u] \in SplitRow \cup {NoRow}
    BY DEF OwnRowInv, GtTypeOK, TablesTypeOK
  <2>2. splits'[g][u] = IF Bound(g, u) /\ splits[g][u].row \in old
                        THEN [splits[g][u] EXCEPT !.row = None] ELSE splits[g][u]
    BY <1>1 DEF Unpointed
  <2>3. CASE Bound(g, u) /\ splits[g][u].row \in old
    <3>1. splits[g][u] \in SplitRow /\ splits'[g][u] = [splits[g][u] EXCEPT !.row = None]
      BY <2>1, <2>2, <2>3 DEF Bound, HasSplit
    <3> QED
      BY <2>3, <3>1 DEF SplitRow, Bound, HasSplit
  <2>4. CASE ~(Bound(g, u) /\ splits[g][u].row \in old)
    BY <2>1, <2>2, <2>4 DEF SplitRow, Bound, HasSplit
  <2> QED
    BY <2>3, <2>4
<1>5. splits' \in [GtIds -> [Users -> SplitRow \cup {NoRow}]]
  BY <1>1, <1>4 DEF Unpointed
<1>6. SplitsPointAtOwnRow'
  <2> SUFFICES ASSUME NEW g \in GtIds, NEW u \in Users, HasSplit(g, u)'
               PROVE  /\ gts'[g] # NoRow
                      /\ splits'[g][u].row # None =>
                           /\ personal'[splits'[g][u].row] # NoRow
                           /\ personal'[splits'[g][u].row].user = u
                           /\ personal'[splits'[g][u].row].gt = g
    BY DEF SplitsPointAtOwnRow
  <2>1. splits'[g][u] # NoRow /\ HasSplit(g, u)
    BY <1>4 DEF HasSplit
  <2>2. /\ gts[g] # NoRow
        /\ splits[g][u].row # None =>
             /\ personal[splits[g][u].row] # NoRow
             /\ personal[splits[g][u].row].user = u
             /\ personal[splits[g][u].row].gt = g
    BY <2>1 DEF OwnRowInv, SplitsPointAtOwnRow
  <2>3. splits'[g][u].row # None =>
          splits'[g][u].row = splits[g][u].row /\ splits[g][u].row \in RowIds \ old
    BY <1>4, <2>1
  <2>4. \A t \in RowIds \ old : personal'[t] = personal[t]
    BY <1>1
  <2> QED
    BY <1>2, <2>2, <2>3, <2>4
<1> QED
  BY <1>2, <1>3, <1>5, <1>6 DEF OwnRowInv, GtTypeOK, TablesTypeOK

\* The purge of soft-deleted group transactions takes their splits along.
LEMMA PurgeGtKeepsOwnRow ==
  ASSUME OwnRowInv, PurgeGroupTransactions
  PROVE  OwnRowInv'
<1>1. PICK old \in SUBSET {g \in GtIds : gts[g] # NoRow /\ gts[g].deleted} :
        /\ gts' = [g \in GtIds |-> IF g \in old THEN NoRow ELSE gts[g]]
        /\ splits' = [g \in GtIds |->
                        IF g \in old THEN [u \in Users |-> NoRow] ELSE splits[g]]
        /\ personal' = [t \in RowIds |->
                          IF personal[t] # NoRow /\ personal[t].gt \in old
                          THEN [personal[t] EXCEPT !.gt = None] ELSE personal[t]]
  BY DEF PurgeGroupTransactions
<1>2. purging' = FALSE /\ UNCHANGED <<clock, groupDeleted, members, setts, pending>>
  BY DEF PurgeGroupTransactions
<1>3. GtTypeOK
  BY DEF OwnRowInv
<1>4. /\ gts' \in [GtIds -> GtRow \cup {NoRow}]
      /\ splits' \in [GtIds -> [Users -> SplitRow \cup {NoRow}]]
  BY <1>1, <1>3 DEF GtTypeOK, TablesTypeOK
<1>5. ASSUME NEW t \in RowIds
      PROVE  personal'[t] \in PersonalRow \cup {NoRow}
    BY <1>1, <1>3 DEF GtTypeOK, TablesTypeOK, PersonalRow
<1>6. personal' \in [RowIds -> PersonalRow \cup {NoRow}]
  BY <1>1, <1>5
<1>7. SplitsPointAtOwnRow'
  <2> SUFFICES ASSUME NEW g \in GtIds, NEW u \in Users, HasSplit(g, u)'
               PROVE  /\ gts'[g] # NoRow
                      /\ splits'[g][u].row # None =>
                           /\ personal'[splits'[g][u].row] # NoRow
                           /\ personal'[splits'[g][u].row].user = u
                           /\ personal'[splits'[g][u].row].gt = g
    BY DEF SplitsPointAtOwnRow
  <2>1. g \notin old /\ splits'[g] = splits[g] /\ gts'[g] = gts[g] /\ HasSplit(g, u)
    BY <1>1 DEF HasSplit
  <2>2. /\ gts[g] # NoRow
        /\ splits[g][u].row # None =>
             /\ splits[g][u].row \in RowIds
             /\ personal[splits[g][u].row] # NoRow
             /\ personal[splits[g][u].row].user = u
             /\ personal[splits[g][u].row].gt = g
    BY <1>3, <2>1 DEF OwnRowInv, SplitsPointAtOwnRow, GtTypeOK, TablesTypeOK, HasSplit, SplitRow
  <2>3. \A t \in RowIds : personal[t] # NoRow /\ personal[t].gt \notin old => personal'[t] = personal[t]
    BY <1>1
  <2> QED
    BY <2>1, <2>2, <2>3
<1> QED
  BY <1>2, <1>4, <1>6, <1>7, <1>3 DEF OwnRowInv, GtTypeOK, TablesTypeOK

\* The deletion of a category changes the metadata of rows and of group transactions, and
\* nothing else.
MetasMoved ==
  /\ UNCHANGED <<clock, groupDeleted, members, splits, setts, purging>>
  /\ gts' \in [GtIds -> GtRow \cup {NoRow}]
  /\ personal' \in [RowIds -> PersonalRow \cup {NoRow}]
  /\ \A g \in GtIds :
       /\ gts'[g] = NoRow <=> gts[g] = NoRow
       /\ gts[g] # NoRow =>
            /\ gts'[g].payer = gts[g].payer /\ gts'[g].total = gts[g].total
            /\ gts'[g].deleted = gts[g].deleted /\ gts'[g].stamp = gts[g].stamp
  /\ \A t \in RowIds :
       /\ personal'[t] = NoRow <=> personal[t] = NoRow
       /\ personal[t] # NoRow =>
            /\ personal'[t].user = personal[t].user /\ personal'[t].kind = personal[t].kind
            /\ personal'[t].amt = personal[t].amt /\ personal'[t].gt = personal[t].gt
            /\ personal'[t].deleted = personal[t].deleted

LEMMA RecatMovesMetas ==
  ASSUME OwnRowInv, NEW c \in Clients, CommitRecat(c)
  PROVE  MetasMoved /\ Finish(c) /\ Reassignments # {}
<1> DEFINE r == pending[c]
<1>1. r \in RecatRequest
  BY PendingType DEF OwnRowInv, CommitRecat
<1>2. r.to \in [Metas -> Metas] /\ Reassignments # {}
  BY <1>1, GtAssumptions DEF RecatRequest
<1>3. /\ personal' = [t \in RowIds |-> RecatRow(r, t)]
      /\ gts' = [g \in GtIds |-> RecatGt(r, g)]
      /\ Finish(c) /\ UNCHANGED <<clock, groupDeleted, members, splits, setts, purging>>
  BY DEF CommitRecat
<1> HIDE DEF r
<1>4. ASSUME NEW g \in GtIds
      PROVE  /\ RecatGt(r, g) \in GtRow \cup {NoRow}
             /\ RecatGt(r, g) = NoRow <=> gts[g] = NoRow
             /\ gts[g] # NoRow =>
                  /\ RecatGt(r, g).payer = gts[g].payer /\ RecatGt(r, g).total = gts[g].total
                  /\ RecatGt(r, g).deleted = gts[g].deleted
                  /\ RecatGt(r, g).stamp = gts[g].stamp
  <2>1. gts[g] \in GtRow \cup {NoRow}
    BY DEF OwnRowInv, GtTypeOK, TablesTypeOK
  <2>2. CASE RecatGt(r, g) = gts[g]
    BY <2>1, <2>2
  <2>3. CASE gts[g] # NoRow /\ RecatGt(r, g) = [gts[g] EXCEPT !.meta = r.to[@]]
    <3>1. gts[g] \in GtRow /\ r.to[gts[g].meta] \in Metas
      BY <1>2, <2>1, <2>3 DEF GtRow
    <3>2. [gts[g] EXCEPT !.meta = r.to[@]] \in GtRow
      BY <3>1 DEF GtRow
    <3>3. NoRow \notin GtRow
      BY StateAssumptions
    <3> QED
      BY <2>3, <3>1, <3>2, <3>3 DEF GtRow
  <2> QED
    BY <2>2, <2>3 DEF RecatGt
<1>5. ASSUME NEW t \in RowIds
      PROVE  /\ RecatRow(r, t) \in PersonalRow \cup {NoRow}
             /\ RecatRow(r, t) = NoRow <=> personal[t] = NoRow
             /\ personal[t] # NoRow =>
                  /\ RecatRow(r, t).user = personal[t].user
                  /\ RecatRow(r, t).kind = personal[t].kind
                  /\ RecatRow(r, t).amt = personal[t].amt /\ RecatRow(r, t).gt = personal[t].gt
                  /\ RecatRow(r, t).deleted = personal[t].deleted
  <2>1. personal[t] \in PersonalRow \cup {NoRow}
    BY DEF OwnRowInv, GtTypeOK, TablesTypeOK
  <2>2. CASE RecatRow(r, t) = personal[t]
    BY <2>1, <2>2
  <2>3. CASE /\ personal[t] # NoRow /\ personal[t].meta # None
             /\ RecatRow(r, t) = [personal[t] EXCEPT !.meta = r.to[@]]
    <3>1. personal[t] \in PersonalRow /\ r.to[personal[t].meta] \in Metas
      BY <1>2, <2>1, <2>3 DEF PersonalRow
    <3>2. [personal[t] EXCEPT !.meta = r.to[@]] \in PersonalRow
      BY <3>1 DEF PersonalRow
    <3>3. NoRow \notin PersonalRow
      BY StateAssumptions
    <3> QED
      BY <2>3, <3>1, <3>2, <3>3 DEF PersonalRow
  <2> QED
    BY <2>2, <2>3 DEF RecatRow
<1> HIDE DEF RecatGt, RecatRow
<1>6. \A g \in GtIds : gts'[g] = RecatGt(r, g)
  BY <1>3
<1>7. \A t \in RowIds : personal'[t] = RecatRow(r, t)
  BY <1>3
<1> QED
  BY <1>2, <1>3, <1>4, <1>5, <1>6, <1>7 DEF MetasMoved

LEMMA RecatKeepsOwnRow ==
  ASSUME OwnRowInv, NEW c \in Clients, CommitRecat(c)
  PROVE  OwnRowInv'
<1>1. MetasMoved /\ Finish(c)
  BY RecatMovesMetas
<1>2. pending' \in [Clients -> Request \cup {None}] /\ clock' \in Nat /\ purging' \in BOOLEAN
  BY <1>1 DEF MetasMoved, Finish, OwnRowInv, GtTypeOK, TablesTypeOK
<1> QED
  BY <1>1, <1>2, RowsEditedKeepsOwnRow DEF MetasMoved

LEMMA OwnRowInit == GtInit => OwnRowInv
<1> SUFFICES ASSUME GtInit PROVE OwnRowInv
  OBVIOUS
<1>1. TablesTypeOK
  BY DEF GtInit, EmptyTables, TablesTypeOK
<1>2. SplitsPointAtOwnRow
  BY DEF GtInit, EmptyTables, SplitsPointAtOwnRow, HasSplit
<1> QED
  BY <1>1, <1>2 DEF GtInit, OwnRowInv, GtTypeOK

LEMMA OwnRowStep == OwnRowInv /\ [GtNext]_gtVars => OwnRowInv'
<1> SUFFICES ASSUME OwnRowInv, [GtNext]_gtVars PROVE OwnRowInv'
  OBVIOUS
<1>1. CASE UNCHANGED gtVars
  BY <1>1 DEF gtVars, tables, OwnRowInv, GtTypeOK, TablesTypeOK, SplitsPointAtOwnRow, HasSplit
<1>2. CASE Tick
  BY <1>2 DEF Tick, tables, OwnRowInv, GtTypeOK, TablesTypeOK, SplitsPointAtOwnRow, HasSplit
<1>3. ASSUME NEW c \in Clients, Abort(c) PROVE OwnRowInv'
  BY <1>3 DEF Abort, Finish, tables, OwnRowInv, GtTypeOK, TablesTypeOK, SplitsPointAtOwnRow,
              HasSplit
<1>4. ASSUME NEW c \in Clients, CommitUpdate(c) PROVE OwnRowInv'
  <2>1. CASE pending[c].splits = <<>>
    BY <1>4, <2>1, PlainUpdateKeepsOwnRow
  <2>2. CASE pending[c].splits # <<>>
    BY <1>4, <2>2, UpdateWrites, SplitsWrittenKeepsOwnRow
  <2> QED
    BY <2>1, <2>2
<1>5. ASSUME NEW c \in Clients, CommitCreate(c) PROVE OwnRowInv'
  BY <1>5, CreateWrites, SplitsWrittenKeepsOwnRow
<1> QED
  BY <1>1, <1>2, <1>3, <1>4, <1>5, ReceiveKeepsOwnRow, DeleteKeepsOwnRow,
     DirectEditKeepsOwnRow, PurgeKeepsOwnRow, PurgeGtKeepsOwnRow, RecatKeepsOwnRow
     DEF GtNext, LooksOnly

\* Every table holds rows of its type whatever requests, retries, purges and
\* aborts interleave: the handlers write no NULL and no zero amount.
THEOREM TypeCorrect == GtSpec => []GtTypeOK
<1>1. OwnRowInv => GtTypeOK
  BY DEF OwnRowInv
<1> QED
  BY <1>1, OwnRowInit, OwnRowStep, PTL DEF GtSpec

\* No split ever points at another user's personal row, at the row of another
\* group transaction or at a row that is gone, for any number of concurrent
\* requests, users named twice and direct edits included.
THEOREM OwnRows == GtSpec => []SplitsPointAtOwnRow
<1>1. OwnRowInv => SplitsPointAtOwnRow
  BY DEF OwnRowInv
<1> QED
  BY <1>1, OwnRowInit, OwnRowStep, PTL DEF GtSpec

-----------------------------------------------------------------------------
(* Every share of a live group transaction is in its user's dashboard.     *)

\* A personal row made for a share stays an expense.
LinkedRowsAreExpenses ==
  \A t \in RowIds : personal[t] # NoRow /\ personal[t].gt # None => personal[t].kind = "expense"

\* Reusing a row keeps the kind it has, so the kind of the linked rows is part of
\* the induction.
ShownInv == OwnRowInv /\ LinkedRowsAreExpenses /\ LiveSharesShown

LEMMA SplitsWrittenKeepsShown ==
  ASSUME ShownInv, NEW c \in Clients, SplitsWritten(c)
  PROVE  LinkedRowsAreExpenses' /\ LiveSharesShown'
<1> DEFINE g == pending[c].gt
<1> DEFINE s == pending[c].splits
<1> DEFINE m == gts'[g].meta
<1>1. PICK fresh : SplitsApplied(g, s, m, fresh)
  BY DEF SplitsWritten
<1>2. /\ g \in GtIds /\ s \in SplitLists /\ ~SplitsFail(g, s) /\ gts'[g] \in GtRow
      /\ \A h \in GtIds \ {g} : gts'[h] = gts[h]
  BY DEF SplitsWritten
<1>3. m \in Metas /\ g # None
  BY <1>2, StateAssumptions DEF GtRow
<1>4. OwnRowInv' /\ OwnRowInv
  BY SplitsWrittenKeepsOwnRow DEF ShownInv
<1>5. TablesTypeOK /\ SplitsPointAtOwnRow
  BY <1>4 DEF OwnRowInv, GtTypeOK
<1> HIDE DEF g, s, m
<1>6. ASSUME NEW u \in Users, Bound(g, u)
      PROVE  /\ splits[g][u].row \in RowIds
             /\ personal[splits[g][u].row] \in PersonalRow
             /\ personal[splits[g][u].row].gt = g
             /\ personal[splits[g][u].row].kind = "expense"
  <2>1. /\ splits[g][u].row \in RowIds /\ personal[splits[g][u].row] \in PersonalRow
        /\ personal[splits[g][u].row].gt = g
    BY <1>2, <1>5, <1>6 DEF Bound, HasSplit, SplitsPointAtOwnRow, TablesTypeOK, SplitRow
  <2> QED
    BY <1>3, <2>1, StateAssumptions DEF ShownInv, LinkedRowsAreExpenses
<1>7. ASSUME NEW t \in RowIds, personal'[t] # NoRow, personal'[t].gt # None
      PROVE  personal'[t].kind = "expense"
  <2>1. CASE \E i \in Inserted(g, s) : fresh[i] = t
    <3>1. PICK i \in Inserted(g, s) : fresh[i] = t
      BY <2>1
    <3>2. i \in DOMAIN s /\ s[i].user \in Users /\ Stored(s[i].amt) \in Amount
      BY <1>2, StoredAmounts, EntryType DEF Inserted
    <3> QED
      BY <1>1, <1>2, <1>3, <3>1, <3>2, InsertedRowType DEF SplitsApplied
  <2>2. CASE \E u \in Users : PointsAt(g, u, t)
    <3>1. PICK u \in Users : PointsAt(g, u, t)
      BY <2>2
    <3>2. Bound(g, u) /\ splits[g][u].row = t
      BY <3>1 DEF PointsAt
    <3>3. CASE u \in SplitUsers(s)
      <4>1. Stored(s[LastEntry(s, u)].amt) \in Amount
        BY <1>2, <3>3, LastEntryOfUser, StoredAmounts
      <4>2. personal'[t] = UpdatedPersonal(personal[t], s[LastEntry(s, u)].amt, m)
        BY <1>1, <3>2, <3>3 DEF SplitsApplied
      <4> QED
        BY <1>3, <1>6, <3>2, <4>1, <4>2, UpdatedPersonalType
    <3>4. CASE u \notin SplitUsers(s)
      <4>1. personal'[t] = [personal[t] EXCEPT !.deleted = TRUE]
        BY <1>1, <3>2, <3>4 DEF SplitsApplied
      <4> QED
        BY <1>6, <3>2, <4>1 DEF PersonalRow
    <3> QED
      BY <3>3, <3>4
  <2>3. CASE /\ \A i \in Inserted(g, s) : fresh[i] # t
             /\ \A u \in Users : ~PointsAt(g, u, t)
    <3>1. personal'[t] = personal[t]
      BY <1>1, <2>3 DEF SplitsApplied
    <3> QED
      BY <1>7, <3>1 DEF ShownInv, LinkedRowsAreExpenses
  <2> QED
    BY <2>1, <2>2, <2>3
<1>8. ASSUME NEW h \in GtIds, NEW u \in Users, GtLive(h)', HasSplit(h, u)'
      PROVE  /\ splits'[h][u].row # None
             /\ personal'[splits'[h][u].row] # NoRow
             /\ ~personal'[splits'[h][u].row].deleted
             /\ personal'[splits'[h][u].row].kind = "expense"
             /\ personal'[splits'[h][u].row].amt = splits'[h][u].amt
             /\ Reassignments = {} => personal'[splits'[h][u].row].meta = gts'[h].meta
  <2>0. splits'[h][u] # NoRow /\ gts'[h] # NoRow /\ ~gts'[h].deleted
    BY <1>8 DEF HasSplit, GtLive
  <2>1. CASE h = g
    <3>1. u \in SplitUsers(s)
      BY <1>1, <1>2, <1>5, <2>0, <2>1 DEF SplitsApplied, SplitsAfter, TablesTypeOK
    <3> DEFINE row == personal'[splits'[g][u].row]
    <3>2. /\ splits'[g][u] = NewSplit(g, s, u, fresh)
          /\ row \in PersonalRow /\ row.user = u /\ row.gt = g /\ ~row.deleted
          /\ row.amt = splits'[g][u].amt /\ row.meta = m
          /\ (Bound(g, u) => row.kind = personal[splits[g][u].row].kind)
          /\ (~Bound(g, u) => row.kind = "expense")
      BY <1>1, <1>2, <1>3, <1>5, <3>1, NamedUserRow
    <3>3. NewSplit(g, s, u, fresh).row \in RowIds
      BY <1>1, <1>2, <1>5, <3>1, NewSplitType
    <3> HIDE DEF row
    <3>4. row.kind = "expense" /\ row # NoRow /\ splits'[g][u].row # None
      BY <1>6, <3>2, <3>3, StateAssumptions
    <3> QED
      BY <2>1, <3>2, <3>4 DEF row, m
  <2>2. CASE h # g
    <3>1. splits'[h] = splits[h] /\ gts'[h] = gts[h]
      BY <1>1, <1>2, <1>5, <2>2 DEF SplitsApplied, TablesTypeOK
    <3>2. GtLive(h) /\ HasSplit(h, u)
      BY <2>0, <3>1 DEF GtLive, HasSplit
    <3>3. /\ splits[h][u].row # None
          /\ personal[splits[h][u].row] # NoRow
          /\ ~personal[splits[h][u].row].deleted
          /\ personal[splits[h][u].row].kind = "expense"
          /\ personal[splits[h][u].row].amt = splits[h][u].amt
          /\ Reassignments = {} => personal[splits[h][u].row].meta = gts[h].meta
      BY <3>2 DEF ShownInv, LiveSharesShown, Bound, RowLive
    <3>4. splits[h][u].row \in RowIds /\ personal[splits[h][u].row].gt = h
      BY <1>5, <3>2, <3>3 DEF SplitsPointAtOwnRow, TablesTypeOK, HasSplit, SplitRow
    <3>5. personal'[splits[h][u].row] = personal[splits[h][u].row]
      BY <1>1, <1>2, <1>5, <2>2, <3>3, <3>4, OtherRowsUntouched
    <3> QED
      BY <3>1, <3>3, <3>5
  <2> QED
    BY <2>1, <2>2
<1>9. LiveSharesShown'
  BY <1>8 DEF LiveSharesShown, Bound, RowLive, HasSplit
<1> QED
  BY <1>7, <1>9 DEF LinkedRowsAreExpenses

\* What LiveSharesShown says of one share, and where its row belongs.
LEMMA ShownRow ==
  ASSUME ShownInv, NEW g \in GtIds, NEW u \in Users, GtLive(g), HasSplit(g, u)
  PROVE  /\ splits[g][u].row \in RowIds
         /\ personal[splits[g][u].row] \in PersonalRow
         /\ personal[splits[g][u].row].gt = g
         /\ RowLive(splits[g][u].row)
         /\ personal[splits[g][u].row].kind = "expense"
         /\ personal[splits[g][u].row].amt = splits[g][u].amt
         /\ Reassignments = {} => personal[splits[g][u].row].meta = gts[g].meta
<1>1. Bound(g, u) /\ RowLive(splits[g][u].row)
  BY DEF ShownInv, LiveSharesShown
<1>2. splits[g][u].row # None /\ splits[g][u].row \in RowIds
  BY <1>1 DEF Bound, HasSplit, ShownInv, OwnRowInv, GtTypeOK, TablesTypeOK, SplitRow
<1>3. personal[splits[g][u].row] \in PersonalRow /\ personal[splits[g][u].row].gt = g
  BY <1>1, <1>2 DEF ShownInv, OwnRowInv, GtTypeOK, TablesTypeOK, SplitsPointAtOwnRow, RowLive
<1> QED
  BY <1>1, <1>2, <1>3 DEF ShownInv, LiveSharesShown

\* A step after which a live group transaction was live before, with the same
\* splits, whose linked rows are as before but for metadata that follows it.
LEMMA SameSharesKeepShown ==
  ASSUME ShownInv,
         \A t \in RowIds : personal'[t] # NoRow =>
           /\ personal[t] # NoRow /\ personal'[t].kind = personal[t].kind
           /\ personal'[t].gt \in {personal[t].gt, None},
         \A g \in GtIds : GtLive(g)' =>
           /\ GtLive(g)
           /\ splits'[g] = splits[g]
           /\ \A t \in RowIds : RowLive(t) /\ personal[t].gt = g =>
                /\ personal'[t] # NoRow /\ ~personal'[t].deleted
                /\ personal'[t].amt = personal[t].amt
                /\ personal'[t].kind = personal[t].kind
                /\ Reassignments = {} /\ personal[t].meta = gts[g].meta =>
                     personal'[t].meta = gts'[g].meta
  PROVE  LinkedRowsAreExpenses' /\ LiveSharesShown'
<1>1. LinkedRowsAreExpenses'
  BY DEF ShownInv, LinkedRowsAreExpenses
<1>2. ASSUME NEW g \in GtIds, NEW u \in Users, GtLive(g)', HasSplit(g, u)'
      PROVE  /\ splits'[g][u].row # None
             /\ personal'[splits'[g][u].row] # NoRow
             /\ ~personal'[splits'[g][u].row].deleted
             /\ personal'[splits'[g][u].row].kind = "expense"
             /\ personal'[splits'[g][u].row].amt = splits'[g][u].amt
             /\ Reassignments = {} => personal'[splits'[g][u].row].meta = gts'[g].meta
  <2>1. GtLive(g) /\ splits'[g] = splits[g] /\ HasSplit(g, u)
    BY <1>2 DEF HasSplit
  <2> DEFINE t == splits[g][u].row
  <2>2. /\ t \in RowIds /\ RowLive(t) /\ personal[t].gt = g /\ personal[t].kind = "expense"
        /\ personal[t].amt = splits[g][u].amt
        /\ Reassignments = {} => personal[t].meta = gts[g].meta
    BY <2>1, ShownRow
  <2>3. t # None
    BY <2>2, StateAssumptions
  <2> HIDE DEF t
  <2>4. /\ personal'[t] # NoRow /\ ~personal'[t].deleted
        /\ personal'[t].amt = personal[t].amt /\ personal'[t].kind = personal[t].kind
        /\ Reassignments = {} => personal'[t].meta = gts'[g].meta
    BY <1>2, <2>2
  <2> QED
    BY <2>1, <2>2, <2>3, <2>4 DEF t
<1>3. LiveSharesShown'
  BY <1>2 DEF LiveSharesShown, Bound, RowLive, HasSplit
<1> QED
  BY <1>1, <1>3

LEMMA PlainUpdateKeepsShown ==
  ASSUME ShownInv, NEW c \in Clients, CommitUpdate(c), pending[c].splits = <<>>
  PROVE  LinkedRowsAreExpenses' /\ LiveSharesShown'
<1> DEFINE r == pending[c]
<1>1. r \in UpdateRequest /\ r.gt \in GtIds
  BY PendingType DEF ShownInv, OwnRowInv, CommitUpdate
<1>2. /\ gts' = [gts EXCEPT ![r.gt] = UpdatedRow(r)]
      /\ gts[r.gt] # NoRow /\ UpdatedRow(r).total > 0
      /\ SyncPersonal(r.gt, r.meta) /\ UNCHANGED splits
  BY DEF CommitUpdate
<1> HIDE DEF r
<1>3. TablesTypeOK
  BY DEF ShownInv, OwnRowInv, GtTypeOK
<1>4. /\ UpdatedRow(r).meta = (IF r.meta = None THEN gts[r.gt].meta ELSE r.meta)
      /\ UpdatedRow(r).deleted = gts[r.gt].deleted
  BY <1>1, <1>2, <1>3, UpdatedRowType
<1>5. ASSUME NEW g \in GtIds
      PROVE  /\ GtLive(g)' => GtLive(g)
             /\ g # r.gt => gts'[g] = gts[g]
             /\ gts'[r.gt] = UpdatedRow(r)
  BY <1>1, <1>2, <1>3, <1>4 DEF GtLive, TablesTypeOK
<1>6. ASSUME NEW t \in RowIds, personal'[t] # NoRow
      PROVE  /\ personal[t] # NoRow /\ personal'[t].kind = personal[t].kind
             /\ personal'[t].gt = personal[t].gt /\ personal'[t].amt = personal[t].amt
             /\ personal'[t].deleted = personal[t].deleted
             /\ personal'[t].meta = IF r.meta # None /\ RowLive(t) /\ personal[t].gt = r.gt
                                    THEN r.meta ELSE personal[t].meta
  <2>1. personal'[t] = IF r.meta # None /\ RowLive(t) /\ personal[t].gt = r.gt
                       THEN [personal[t] EXCEPT !.meta = r.meta] ELSE personal[t]
    BY <1>2 DEF SyncPersonal
  <2>2. personal[t] \in PersonalRow
    BY <1>3, <1>6, <2>1 DEF TablesTypeOK, RowLive
  <2> QED
    BY <1>6, <2>1, <2>2, StateAssumptions DEF PersonalRow, RowLive
<1>7. ASSUME NEW t \in RowIds, RowLive(t) PROVE personal'[t] # NoRow
  <2>1. personal[t] \in PersonalRow /\ personal[t] # NoRow
    BY <1>3, <1>7 DEF TablesTypeOK, RowLive
  <2>2. personal'[t] = IF r.meta # None /\ RowLive(t) /\ personal[t].gt = r.gt
                       THEN [personal[t] EXCEPT !.meta = r.meta] ELSE personal[t]
    BY <1>2 DEF SyncPersonal
  <2>3. r.meta # None => [personal[t] EXCEPT !.meta = r.meta] \in PersonalRow
    BY <1>1, <2>1 DEF PersonalRow, UpdateRequest
  <2> QED
    BY <2>1, <2>2, <2>3, StateAssumptions
<1>8. ASSUME NEW g \in GtIds, NEW t \in RowIds, RowLive(t), personal[t].gt = g
      PROVE  /\ personal'[t] # NoRow /\ ~personal'[t].deleted
             /\ personal'[t].amt = personal[t].amt /\ personal'[t].kind = personal[t].kind
             /\ personal[t].meta = gts[g].meta => personal'[t].meta = gts'[g].meta
  BY <1>4, <1>5, <1>6, <1>7, <1>8 DEF RowLive
<1> QED
  BY <1>2, <1>5, <1>6, <1>8, SameSharesKeepShown

LEMMA DeleteKeepsShown ==
  ASSUME ShownInv, NEW c \in Clients, CommitDelete(c)
  PROVE  LinkedRowsAreExpenses' /\ LiveSharesShown'
<1> DEFINE r == pending[c]
<1>1. r \in HideRequest
  BY PendingType DEF ShownInv, OwnRowInv, CommitDelete
<1>2. r.gt \in GtIds
  BY <1>1 DEF HideRequest
<1>3. /\ personal' = [t \in RowIds |-> HiddenRow(r, t)]
      /\ gts' = IF gts[r.gt] = NoRow THEN gts
                ELSE [gts EXCEPT ![r.gt].deleted = TRUE, ![r.gt].stamp = r.stamp]
      /\ UNCHANGED splits
  BY DEF CommitDelete
<1>4. TablesTypeOK
  BY DEF ShownInv, OwnRowInv, GtTypeOK
<1> HIDE DEF r
<1>5. ASSUME NEW g \in GtIds, GtLive(g)'
      PROVE  GtLive(g) /\ g # r.gt /\ gts'[g] = gts[g]
  <2>1. CASE gts[r.gt] = NoRow
    BY <1>3, <1>5, <2>1 DEF GtLive
  <2>2. CASE gts[r.gt] # NoRow
    <3>1. gts[r.gt] \in GtRow
      BY <1>2, <1>4, <2>2 DEF TablesTypeOK
    <3>2. gts' = [gts EXCEPT ![r.gt] = [gts[r.gt] EXCEPT !.deleted = TRUE, !.stamp = r.stamp]]
      BY <1>2, <1>3, <1>4, <2>2 DEF TablesTypeOK
    <3>3. [gts[r.gt] EXCEPT !.deleted = TRUE, !.stamp = r.stamp].deleted = TRUE
      BY <3>1 DEF GtRow
    <3> QED
      BY <1>2, <1>4, <1>5, <3>2, <3>3 DEF GtLive, TablesTypeOK
  <2> QED
    BY <2>1, <2>2
<1>6. ASSUME NEW t \in RowIds, personal'[t] # NoRow
      PROVE  /\ personal[t] # NoRow /\ personal'[t].kind = personal[t].kind
             /\ personal'[t].gt = personal[t].gt
  <2>1. personal[t] # NoRow /\ personal[t] \in PersonalRow
    BY <1>3, <1>4, <1>6 DEF TablesTypeOK, HiddenRow
  <2> QED
    BY <1>3, <2>1 DEF PersonalRow, HiddenRow
<1>7. ASSUME NEW g \in GtIds \ {r.gt}, NEW t \in RowIds, RowLive(t), personal[t].gt = g
      PROVE  personal'[t] = personal[t]
  BY <1>3, <1>7 DEF HiddenRow
<1> QED
  BY <1>3, <1>5, <1>6, <1>7, SameSharesKeepShown DEF RowLive

LEMMA PurgeKeepsShown ==
  ASSUME ShownInv, PurgeTransactions
  PROVE  LinkedRowsAreExpenses' /\ LiveSharesShown'
<1>1. PICK old \in SUBSET {t \in RowIds : personal[t] # NoRow /\ personal[t].deleted} :
        /\ personal' = [t \in RowIds |-> IF t \in old THEN NoRow ELSE personal[t]]
        /\ splits' = Unpointed(old)
  BY DEF PurgeTransactions
<1>2. UNCHANGED gts
  BY DEF PurgeTransactions
<1>3. ASSUME NEW g \in GtIds, GtLive(g) PROVE splits'[g] = splits[g]
  <2>1. \A u \in Users : HasSplit(g, u) => splits[g][u].row \notin old
    BY <1>1, <1>3, ShownRow DEF RowLive
  <2>2. splits \in [GtIds -> [Users -> SplitRow \cup {NoRow}]]
    BY DEF ShownInv, OwnRowInv, GtTypeOK, TablesTypeOK
  <2>3. splits'[g] = [u \in Users |-> splits[g][u]]
    BY <1>1, <2>1 DEF Unpointed, Bound
  <2> QED
    BY <2>2, <2>3
<1>4. \A g \in GtIds : GtLive(g)' => GtLive(g)
  BY <1>2 DEF GtLive
<1>5. \A t \in RowIds : RowLive(t) => personal'[t] = personal[t] /\ personal[t] # NoRow
  BY <1>1 DEF RowLive
<1>6. \A t \in RowIds : personal'[t] # NoRow => personal'[t] = personal[t]
  BY <1>1
<1> QED
  BY <1>2, <1>3, <1>4, <1>5, <1>6, SameSharesKeepShown DEF RowLive

LEMMA PurgeGtKeepsShown ==
  ASSUME ShownInv, PurgeGroupTransactions
  PROVE  LinkedRowsAreExpenses' /\ LiveSharesShown'
<1>1. PICK old \in SUBSET {g \in GtIds : gts[g] # NoRow /\ gts[g].deleted} :
        /\ gts' = [g \in GtIds |-> IF g \in old THEN NoRow ELSE gts[g]]
        /\ splits' = [g \in GtIds |->
                        IF g \in old THEN [u \in Users |-> NoRow] ELSE splits[g]]
        /\ personal' = [t \in RowIds |->
                          IF personal[t] # NoRow /\ personal[t].gt \in old
                          THEN [personal[t] EXCEPT !.gt = None] ELSE personal[t]]
  BY DEF PurgeGroupTransactions
<1>2. ASSUME NEW g \in GtIds, GtLive(g)'
      PROVE  g \notin old /\ GtLive(g) /\ gts'[g] = gts[g] /\ splits'[g] = splits[g]
  BY <1>1, <1>2 DEF GtLive
<1>3. ASSUME NEW t \in RowIds, personal'[t] # NoRow
      PROVE  /\ personal[t] # NoRow /\ personal'[t].kind = personal[t].kind
             /\ personal'[t].gt \in {personal[t].gt, None}
  <2>1. personal[t] # NoRow /\ personal[t] \in PersonalRow
    BY <1>1, <1>3 DEF ShownInv, OwnRowInv, GtTypeOK, TablesTypeOK
  <2> QED
    BY <1>1, <2>1 DEF PersonalRow
<1>4. \A t \in RowIds : RowLive(t) /\ personal[t].gt \notin old => personal'[t] = personal[t]
  BY <1>1
<1> QED
  BY <1>2, <1>3, <1>4, SameSharesKeepShown DEF RowLive

LEMMA RecatKeepsShown ==
  ASSUME ShownInv, NEW c \in Clients, CommitRecat(c)
  PROVE  LinkedRowsAreExpenses' /\ LiveSharesShown'
<1>1. MetasMoved /\ Reassignments # {}
  BY RecatMovesMetas DEF ShownInv
<1> QED
  BY <1>1, SameSharesKeepShown DEF MetasMoved, GtLive, RowLive

LEMMA ShownInit == GtInit => ShownInv
<1> SUFFICES ASSUME GtInit PROVE ShownInv
  OBVIOUS
<1>1. OwnRowInv
  BY OwnRowInit
<1>2. LinkedRowsAreExpenses /\ LiveSharesShown
  BY DEF GtInit, EmptyTables, LinkedRowsAreExpenses, LiveSharesShown, GtLive
<1> QED
  BY <1>1, <1>2 DEF ShownInv

LEMMA ShownStep == DirectEdits = FALSE /\ ShownInv /\ [GtNext]_gtVars => ShownInv'
<1> SUFFICES ASSUME DirectEdits = FALSE, ShownInv, [GtNext]_gtVars PROVE ShownInv'
  OBVIOUS
<1>1. OwnRowInv'
  BY OwnRowStep DEF ShownInv
<1>2. ASSUME UNCHANGED tables PROVE LinkedRowsAreExpenses' /\ LiveSharesShown'
  BY <1>2 DEF tables, ShownInv, LinkedRowsAreExpenses, LiveSharesShown, GtLive, RowLive,
              HasSplit, Bound
<1>3. ASSUME UNCHANGED gtVars \/ Tick \/ \E c \in Clients : Abort(c)
      PROVE  LinkedRowsAreExpenses' /\ LiveSharesShown'
  <2>1. CASE UNCHANGED gtVars
    BY <1>2, <2>1 DEF gtVars
  <2>2. CASE Tick
    BY <1>2, <2>2 DEF Tick
  <2>3. CASE \E c \in Clients : Abort(c)
    BY <1>2, <2>3 DEF Abort
  <2> QED
    BY <1>3, <2>1, <2>2, <2>3
<1>4. ASSUME NEW c \in Clients, LooksOnly(c)
      PROVE  LinkedRowsAreExpenses' /\ LiveSharesShown'
  BY <1>2, <1>4, ReceiveKeepsOwnRow DEF ShownInv
<1>5. ASSUME NEW c \in Clients, CommitCreate(c) \/ CommitUpdate(c)
      PROVE  LinkedRowsAreExpenses' /\ LiveSharesShown'
  <2>1. CASE CommitCreate(c)
    BY <2>1, CreateWrites, SplitsWrittenKeepsShown DEF ShownInv
  <2>2. CASE CommitUpdate(c) /\ pending[c].splits = <<>>
    BY <2>2, PlainUpdateKeepsShown
  <2>3. CASE CommitUpdate(c) /\ pending[c].splits # <<>>
    BY <2>3, UpdateWrites, SplitsWrittenKeepsShown DEF ShownInv
  <2> QED
    BY <1>5, <2>1, <2>2, <2>3
<1>6. ~UpsertTransaction
  BY DEF UpsertTransaction
<1>7. LinkedRowsAreExpenses' /\ LiveSharesShown'
  BY <1>3, <1>4, <1>5, <1>6, DeleteKeepsShown, RecatKeepsShown, PurgeKeepsShown, PurgeGtKeepsShown
     DEF GtNext, LooksOnly
<1> QED
  BY <1>1, <1>7 DEF ShownInv

\* As long as no client reuses a linked row's id in POST /transactions, every share of a live
\* group transaction is in its user's dashboard, with the split's amount and, as long as no
\* category is deleted, the group transaction's metadata.
THEOREM SharesShown == DirectEdits = FALSE => (GtSpec => []LiveSharesShown)
<1> SUFFICES ASSUME DirectEdits = FALSE PROVE GtSpec => []LiveSharesShown
  OBVIOUS
<1>1. ShownInv => LiveSharesShown
  BY DEF ShownInv
<1>2. ShownInv /\ [GtNext]_gtVars => ShownInv'
  BY ShownStep
<1> QED
  BY <1>1, <1>2, ShownInit, PTL DEF GtSpec

-----------------------------------------------------------------------------
(* No share is counted twice.                                              *)

\* Clients name no user twice in one request.
NoRepeats == \A s \in SplitLists : ~Repeats(s)

\* A user named twice gets two rows only where a share has lost its row, which the
\* purge alone can do.
NoRepeatsOrNoPurge == NoRepeats \/ Purges = FALSE

\* Every share has a row.
AllBound == \A g \in GtIds, u \in Users : HasSplit(g, u) => Bound(g, u)

OneRowInv ==
  /\ OwnRowInv
  /\ Purges = FALSE => AllBound /\ ~purging
  /\ OneLiveRowPerShare

\* Each entry that inserts a row is the one its user's split ends up with.
LEMMA InsertedIsLast ==
  ASSUME NoRepeatsOrNoPurge, OneRowInv, NEW g \in GtIds, NEW s \in SplitLists, ~SplitsFail(g, s),
         NEW i \in Inserted(g, s)
  PROVE  LastEntry(s, s[i].user) = i
<1>1. i \in DOMAIN s /\ ~Bound(g, s[i].user) /\ s[i].user \in Users /\ s[i].user \in SplitUsers(s)
  BY EntryType DEF Inserted, Reused, SplitUsers
<1>2. LastEntry(s, s[i].user) \in DOMAIN s /\ s[LastEntry(s, s[i].user)].user = s[i].user
  BY <1>1, LastEntryOfUser
<1>3. CASE NoRepeats
  BY <1>1, <1>2, <1>3 DEF NoRepeats, Repeats
<1>4. CASE Purges = FALSE
  <2>1. ~HasSplit(g, s[i].user)
    BY <1>1, <1>4 DEF OneRowInv, AllBound
  <2> QED
    BY <1>1, <1>2, <2>1 DEF SplitsFail
<1> QED
  BY <1>3, <1>4 DEF NoRepeatsOrNoPurge

\* A share is written with a row, so a step that writes the splits leaves none without.
LEMMA SplitsWrittenKeepsBound ==
  ASSUME OneRowInv, AllBound, NEW c \in Clients, SplitsWritten(c)
  PROVE  AllBound'
<1> DEFINE g == pending[c].gt
<1> DEFINE s == pending[c].splits
<1> DEFINE m == gts'[g].meta
<1>1. PICK fresh : SplitsApplied(g, s, m, fresh)
  BY DEF SplitsWritten
<1>2. g \in GtIds /\ s \in SplitLists /\ ~SplitsFail(g, s) /\ TablesTypeOK
  BY DEF SplitsWritten, OneRowInv, OwnRowInv, GtTypeOK
<1> HIDE DEF g, s, m
<1>3. \A u \in SplitUsers(s) : NewSplit(g, s, u, fresh).row # None
  BY <1>1, <1>2, NewSplitType, StateAssumptions
<1>4. \A h \in GtIds, u \in Users : splits'[h][u] # NoRow => splits'[h][u].row # None
  BY <1>1, <1>2, <1>3 DEF SplitsApplied, SplitsAfter, TablesTypeOK, AllBound, Bound, HasSplit
<1> QED
  BY <1>4 DEF AllBound, Bound, HasSplit

LEMMA SplitsWrittenKeepsOneRow ==
  ASSUME NoRepeatsOrNoPurge, OneRowInv, NEW c \in Clients, SplitsWritten(c)
  PROVE  OneLiveRowPerShare'
<1> DEFINE g == pending[c].gt
<1> DEFINE s == pending[c].splits
<1> DEFINE m == gts'[g].meta
<1>1. PICK fresh : SplitsApplied(g, s, m, fresh)
  BY DEF SplitsWritten
<1>2. /\ g \in GtIds /\ s \in SplitLists /\ ~SplitsFail(g, s) /\ gts'[g] \in GtRow
  BY DEF SplitsWritten
<1>3. m \in Metas /\ g # None
  BY <1>2, StateAssumptions DEF GtRow
<1>4. TablesTypeOK /\ SplitsPointAtOwnRow /\ OwnRowInv'
  BY SplitsWrittenKeepsOwnRow DEF OneRowInv, OwnRowInv, GtTypeOK
<1> HIDE DEF g, s, m
<1>5. \A i \in Inserted(g, s) : LastEntry(s, s[i].user) = i
  BY <1>2, InsertedIsLast
<1>6. ASSUME NEW u \in SplitUsers(s)
      PROVE  /\ splits'[g][u] = NewSplit(g, s, u, fresh)
             /\ NewSplit(g, s, u, fresh).row \in RowIds
             /\ NewSplit(g, s, u, fresh) # NoRow
  BY <1>1, <1>2, <1>3, <1>4, NamedUserRow, NewSplitType, StateAssumptions
\* Named directly, so that the goal is about one row.
<1>7. ASSUME NEW t \in RowIds, personal'[t] # NoRow, ~personal'[t].deleted,
             personal'[t].gt # None
      PROVE  /\ splits'[personal'[t].gt][personal'[t].user] # NoRow
             /\ splits'[personal'[t].gt][personal'[t].user].row = t
  <2>1. CASE \E i \in Inserted(g, s) : fresh[i] = t
    <3>1. PICK i \in Inserted(g, s) : fresh[i] = t
      BY <2>1
    <3>2. i \in DOMAIN s /\ s[i].user \in Users /\ Stored(s[i].amt) \in Amount
          /\ s[i].user \in SplitUsers(s) /\ ~Bound(g, s[i].user)
      BY <1>2, <3>1, StoredAmounts, EntryType DEF Inserted, Reused, SplitUsers
    <3>3. personal'[t].gt = g /\ personal'[t].user = s[i].user
      BY <1>1, <1>2, <1>3, <3>1, <3>2, InsertedRowType DEF SplitsApplied
    <3>4. NewSplit(g, s, s[i].user, fresh).row = fresh[i]
      BY <1>5, <3>1, <3>2 DEF NewSplit, Reused
    <3> QED
      BY <1>6, <3>1, <3>2, <3>3, <3>4
  <2>2. CASE \E u \in Users : PointsAt(g, u, t)
    <3>1. PICK u \in Users : PointsAt(g, u, t)
      BY <2>2
    <3>2. /\ Bound(g, u) /\ splits[g][u].row = t /\ personal[t] \in PersonalRow
          /\ personal[t].user = u /\ personal[t].gt = g
      BY <1>2, <1>4, <3>1 DEF PointsAt, Bound, SplitsPointAtOwnRow, TablesTypeOK
    <3>3. CASE u \in SplitUsers(s)
      <4>1. Stored(s[LastEntry(s, u)].amt) \in Amount
        BY <1>2, <3>3, LastEntryOfUser, StoredAmounts
      <4>2. personal'[t] = UpdatedPersonal(personal[t], s[LastEntry(s, u)].amt, m)
        BY <1>1, <3>2, <3>3 DEF SplitsApplied
      <4>3. personal'[t].user = u /\ personal'[t].gt = g
        BY <1>3, <3>2, <4>1, <4>2, UpdatedPersonalType
      <4>4. NewSplit(g, s, u, fresh).row = t
        BY <3>2 DEF NewSplit, Reused
      <4> QED
        BY <1>6, <3>3, <4>3, <4>4
    <3>4. CASE u \notin SplitUsers(s)
      <4>1. personal'[t] = [personal[t] EXCEPT !.deleted = TRUE]
        BY <1>1, <3>2, <3>4 DEF SplitsApplied
      <4> QED
        BY <1>7, <3>2, <4>1 DEF PersonalRow
    <3> QED
      BY <3>3, <3>4
  <2>3. CASE /\ \A i \in Inserted(g, s) : fresh[i] # t
             /\ \A u \in Users : ~PointsAt(g, u, t)
    <3>1. personal'[t] = personal[t]
      BY <1>1, <2>3 DEF SplitsApplied
    <3>2. personal[t] \in PersonalRow /\ RowLive(t) /\ personal[t].gt # None
      BY <1>4, <1>7, <3>1 DEF TablesTypeOK, RowLive
    <3>3. Bound(personal[t].gt, personal[t].user)
          /\ splits[personal[t].gt][personal[t].user].row = t
      BY <3>2 DEF OneRowInv, OneLiveRowPerShare
    <3>4. personal[t].gt \in GtIds /\ personal[t].user \in Users
      BY <3>2 DEF PersonalRow
    <3>5. personal[t].gt # g
      BY <2>3, <3>3, <3>4 DEF PointsAt
    <3>6. splits'[personal[t].gt] = splits[personal[t].gt]
      BY <1>1, <1>4, <3>4, <3>5 DEF SplitsApplied, TablesTypeOK
    <3> QED
      BY <3>1, <3>3, <3>6 DEF Bound, HasSplit
  <2> QED
    BY <2>1, <2>2, <2>3
<1>8. OneLiveRowPerShare'
  BY <1>7, StateAssumptions DEF OneLiveRowPerShare, RowLive, Bound, HasSplit
<1> QED
  BY <1>8

\* A step that makes no row live, gives no row a new owner or link, and keeps what
\* the splits of the rows that stay live and linked point at.
LEMMA FewerLiveRowsKeepOneRow ==
  ASSUME OneRowInv,
         \A t \in RowIds : personal'[t] # NoRow /\ ~personal'[t].deleted /\ personal'[t].gt # None =>
           /\ RowLive(t)
           /\ personal'[t].user = personal[t].user /\ personal'[t].gt = personal[t].gt
           /\ \A u \in Users : PointsAt(personal[t].gt, u, t) =>
                splits'[personal[t].gt][u] = splits[personal[t].gt][u]
  PROVE  OneLiveRowPerShare'
<1>1. ASSUME NEW t \in RowIds, personal'[t] # NoRow, ~personal'[t].deleted,
             personal'[t].gt # None
      PROVE  /\ splits'[personal'[t].gt][personal'[t].user] # NoRow
             /\ splits'[personal'[t].gt][personal'[t].user].row # None
             /\ splits'[personal'[t].gt][personal'[t].user].row = t
  <2>1. /\ RowLive(t)
        /\ personal'[t].user = personal[t].user /\ personal'[t].gt = personal[t].gt
        /\ \A u \in Users : PointsAt(personal[t].gt, u, t) =>
             splits'[personal[t].gt][u] = splits[personal[t].gt][u]
    BY <1>1
  <2>2. personal[t].gt # None
    BY <1>1, <2>1
  <2>3. personal[t].user \in Users
    BY <2>1 DEF OneRowInv, OwnRowInv, GtTypeOK, TablesTypeOK, RowLive, PersonalRow
  <2>4. PointsAt(personal[t].gt, personal[t].user, t)
    BY <2>1, <2>2 DEF OneRowInv, OneLiveRowPerShare, PointsAt
  <2> QED
    BY <2>1, <2>3, <2>4 DEF PointsAt, Bound, HasSplit
<1> QED
  BY <1>1 DEF OneLiveRowPerShare, RowLive, Bound, HasSplit

LEMMA RowsEditedKeepOneRow ==
  ASSUME OneRowInv, NEW c,
         \/ CommitUpdate(c) /\ pending[c].splits = <<>>
         \/ CommitDelete(c)
         \/ UpsertTransaction
  PROVE  OneLiveRowPerShare'
<1>1. UNCHANGED splits
  BY DEF CommitUpdate, CommitDelete, UpsertTransaction
<1>2. ASSUME NEW t \in RowIds, personal'[t] # NoRow, ~personal'[t].deleted
      PROVE  RowLive(t) /\ personal'[t].user = personal[t].user /\ personal'[t].gt = personal[t].gt
  <2>0. personal \in [RowIds -> PersonalRow \cup {NoRow}]
    BY DEF OneRowInv, OwnRowInv, GtTypeOK, TablesTypeOK
  <2>1. CASE CommitUpdate(c) /\ pending[c].splits = <<>>
    <3>1. SyncPersonal(pending[c].gt, pending[c].meta)
      BY <2>1 DEF CommitUpdate
    <3>2. \/ personal'[t] = [personal[t] EXCEPT !.meta = pending[c].meta] /\ RowLive(t)
          \/ personal'[t] = personal[t]
      BY <3>1 DEF SyncPersonal
    <3> QED
      BY <1>2, <2>0, <3>2 DEF RowLive, PersonalRow
  <2>2. CASE CommitDelete(c)
    <3>1. \/ personal'[t] = [personal[t] EXCEPT !.deleted = TRUE] /\ personal[t] # NoRow
          \/ personal'[t] = personal[t]
      BY <2>2 DEF CommitDelete, HiddenRow
    <3> QED
      BY <1>2, <2>0, <3>1 DEF RowLive, PersonalRow
  <2>3. CASE UpsertTransaction
    <3>1. PICK x \in RowIds, kind \in {"expense", "income"}, a \in EditAmounts, m \in Metas :
            /\ personal[x] # NoRow
            /\ personal' = [personal EXCEPT ![x].kind = kind, ![x].amt = a, ![x].meta = m]
      BY <2>3 DEF UpsertTransaction
    <3>2. personal' = [personal EXCEPT ![x] = [personal[x] EXCEPT !.kind = kind, !.amt = a,
                                                                  !.meta = m]]
      BY <2>0, <3>1
    <3>3. \/ t = x /\ personal'[t] = [personal[t] EXCEPT !.kind = kind, !.amt = a, !.meta = m]
          \/ personal'[t] = personal[t]
      BY <2>0, <3>2
    <3> QED
      BY <1>2, <2>0, <3>1, <3>3 DEF RowLive, PersonalRow
  <2> QED
    BY <2>1, <2>2, <2>3
<1> QED
  BY <1>1, <1>2, FewerLiveRowsKeepOneRow

LEMMA RecatKeepsOneRow ==
  ASSUME OneRowInv, NEW c \in Clients, CommitRecat(c)
  PROVE  OneLiveRowPerShare'
<1>1. MetasMoved
  BY RecatMovesMetas DEF OneRowInv
<1> QED
  BY <1>1, FewerLiveRowsKeepOneRow DEF MetasMoved, RowLive

LEMMA PurgeKeepsOneRow ==
  ASSUME OneRowInv, PurgeTransactions
  PROVE  OneLiveRowPerShare'
<1>1. PICK old \in SUBSET {t \in RowIds : personal[t] # NoRow /\ personal[t].deleted} :
        /\ personal' = [t \in RowIds |-> IF t \in old THEN NoRow ELSE personal[t]]
        /\ splits' = Unpointed(old)
  BY DEF PurgeTransactions
<1>2. ASSUME NEW t \in RowIds, personal'[t] # NoRow, ~personal'[t].deleted, personal'[t].gt # None
      PROVE  /\ RowLive(t)
             /\ personal'[t].user = personal[t].user /\ personal'[t].gt = personal[t].gt
             /\ \A u \in Users : PointsAt(personal[t].gt, u, t) =>
                  splits'[personal[t].gt][u] = splits[personal[t].gt][u]
  <2>1. t \notin old /\ personal'[t] = personal[t]
    BY <1>1, <1>2
  <2>2. personal[t].gt \in GtIds
    BY <1>2, <2>1 DEF OneRowInv, OwnRowInv, GtTypeOK, TablesTypeOK, PersonalRow
  <2> QED
    BY <1>1, <1>2, <2>1, <2>2 DEF RowLive, Unpointed, PointsAt
<1> QED
  BY <1>2, FewerLiveRowsKeepOneRow

LEMMA PurgeGtKeepsOneRow ==
  ASSUME OneRowInv, PurgeGroupTransactions
  PROVE  OneLiveRowPerShare'
<1>1. PICK old \in SUBSET {g \in GtIds : gts[g] # NoRow /\ gts[g].deleted} :
        /\ splits' = [g \in GtIds |->
                        IF g \in old THEN [u \in Users |-> NoRow] ELSE splits[g]]
        /\ personal' = [t \in RowIds |->
                          IF personal[t] # NoRow /\ personal[t].gt \in old
                          THEN [personal[t] EXCEPT !.gt = None] ELSE personal[t]]
  BY DEF PurgeGroupTransactions
<1>2. ASSUME NEW t \in RowIds, personal'[t] # NoRow, ~personal'[t].deleted, personal'[t].gt # None
      PROVE  /\ RowLive(t)
             /\ personal'[t].user = personal[t].user /\ personal'[t].gt = personal[t].gt
             /\ \A u \in Users : PointsAt(personal[t].gt, u, t) =>
                  splits'[personal[t].gt][u] = splits[personal[t].gt][u]
  <2>1. personal[t] \in PersonalRow
    BY <1>1, <1>2 DEF OneRowInv, OwnRowInv, GtTypeOK, TablesTypeOK
  <2>2. personal[t].gt \notin old /\ personal'[t] = personal[t] /\ personal[t] # NoRow
    BY <1>1, <1>2, <2>1 DEF PersonalRow
  <2>3. personal[t].gt \in GtIds
    BY <1>2, <2>1, <2>2 DEF PersonalRow
  <2> QED
    BY <1>1, <1>2, <2>2, <2>3 DEF RowLive
<1> QED
  BY <1>2, FewerLiveRowsKeepOneRow

LEMMA OneRowStep == NoRepeatsOrNoPurge /\ OneRowInv /\ [GtNext]_gtVars => OneRowInv'
<1> SUFFICES ASSUME NoRepeatsOrNoPurge, OneRowInv, [GtNext]_gtVars PROVE OneRowInv'
  OBVIOUS
<1>1. OwnRowInv'
  BY OwnRowStep DEF OneRowInv
<1>2. ASSUME UNCHANGED tables PROVE OneLiveRowPerShare'
  BY <1>2 DEF tables, OneRowInv, OneLiveRowPerShare, RowLive, HasSplit, Bound
<1>3. ASSUME UNCHANGED gtVars \/ Tick \/ \E c \in Clients : Abort(c)
      PROVE  OneLiveRowPerShare'
  <2>1. CASE UNCHANGED gtVars
    BY <1>2, <2>1 DEF gtVars
  <2>2. CASE Tick
    BY <1>2, <2>2 DEF Tick
  <2>3. CASE \E c \in Clients : Abort(c)
    BY <1>2, <2>3 DEF Abort
  <2> QED
    BY <1>3, <2>1, <2>2, <2>3
<1>4. ASSUME NEW c \in Clients, LooksOnly(c)
      PROVE  OneLiveRowPerShare'
  BY <1>2, <1>4, ReceiveKeepsOwnRow DEF OneRowInv
<1>5. ASSUME NEW c \in Clients, CommitCreate(c) \/ CommitUpdate(c)
      PROVE  OneLiveRowPerShare'
  <2>1. CASE CommitCreate(c)
    BY <2>1, CreateWrites, SplitsWrittenKeepsOneRow DEF OneRowInv
  <2>2. CASE CommitUpdate(c) /\ pending[c].splits = <<>>
    BY <2>2, RowsEditedKeepOneRow
  <2>3. CASE CommitUpdate(c) /\ pending[c].splits # <<>>
    BY <2>3, UpdateWrites, SplitsWrittenKeepsOneRow DEF OneRowInv
  <2> QED
    BY <1>5, <2>1, <2>2, <2>3
<1>6. ASSUME UpsertTransaction PROVE OneLiveRowPerShare'
  BY <1>6, RowsEditedKeepOneRow
<1>7. OneLiveRowPerShare'
  BY <1>3, <1>4, <1>5, <1>6, RowsEditedKeepOneRow, RecatKeepsOneRow, PurgeKeepsOneRow,
     PurgeGtKeepsOneRow DEF GtNext, LooksOnly
\* Without the purge, nothing takes a share's row away.
<1>8. ASSUME Purges = FALSE PROVE AllBound' /\ ~purging'
  <2>1. AllBound /\ ~purging
    BY <1>8 DEF OneRowInv
  <2>2. ASSUME UNCHANGED <<splits, purging>> PROVE AllBound' /\ ~purging'
    BY <2>1, <2>2 DEF AllBound, Bound, HasSplit
  <2>3. ASSUME NEW c \in Clients, SplitsWritten(c) PROVE AllBound' /\ ~purging'
    BY <2>1, <2>3, SplitsWrittenKeepsBound DEF SplitsWritten
  <2>4. ASSUME NEW c \in Clients, CommitCreate(c) \/ CommitUpdate(c) PROVE AllBound' /\ ~purging'
    <3>1. CASE CommitCreate(c)
      BY <2>3, <3>1, CreateWrites DEF OneRowInv
    <3>2. CASE CommitUpdate(c) /\ pending[c].splits = <<>>
      BY <2>2, <3>2 DEF CommitUpdate
    <3>3. CASE CommitUpdate(c) /\ pending[c].splits # <<>>
      BY <2>3, <3>3, UpdateWrites DEF OneRowInv
    <3> QED
      BY <2>4, <3>1, <3>2, <3>3
  <2>5. ASSUME NEW c \in Clients, LooksOnly(c)
        PROVE  UNCHANGED <<splits, purging>>
    BY <2>5, ReceiveKeepsOwnRow DEF OneRowInv, tables
  <2>6. ASSUME NEW c \in Clients, CommitDelete(c) \/ CommitRecat(c) \/ Abort(c)
        PROVE  UNCHANGED <<splits, purging>>
    BY <2>6 DEF CommitDelete, CommitRecat, Abort, tables
  <2>7. ASSUME UpsertTransaction \/ Tick \/ UNCHANGED gtVars
        PROVE  UNCHANGED <<splits, purging>>
    BY <2>7 DEF UpsertTransaction, Tick, gtVars, tables
  <2>8. ~PurgeTransactions /\ ~PurgeGroupTransactions
    BY <1>8, <2>1 DEF PurgeTransactions, PurgeGroupTransactions
  <2> QED
    BY <2>2, <2>4, <2>5, <2>6, <2>7, <2>8 DEF GtNext, LooksOnly
<1> QED
  BY <1>1, <1>7, <1>8 DEF OneRowInv

\* As long as no request names a user twice, or nothing is purged, no share is counted
\* twice in a dashboard: a live personal row that is linked to a group transaction is
\* the one its user's split points at.
THEOREM OneRow == NoRepeatsOrNoPurge => (GtSpec => []OneLiveRowPerShare)
<1> SUFFICES ASSUME NoRepeatsOrNoPurge PROVE GtSpec => []OneLiveRowPerShare
  OBVIOUS
<1>1. OneRowInv => OneLiveRowPerShare
  BY DEF OneRowInv
<1>2. OneRowInv /\ [GtNext]_gtVars => OneRowInv'
  BY OneRowStep
<1>3. GtInit => OneRowInv
  BY OwnRowInit DEF OneRowInv, GtInit, EmptyTables, OneLiveRowPerShare, RowLive, AllBound, HasSplit
<1> QED
  BY <1>1, <1>2, <1>3, PTL DEF GtSpec

-----------------------------------------------------------------------------
(* What a step may never do.                                               *)

\* A share that stays keeps the id of its personal row until the purge removes the
\* row, whatever the edits, retries and deletes in between.
THEOREM RowIdsStable == GtSpec => RowIdsPreserved
<1> DEFINE Kept ==
      \A g \in GtIds, u \in Users :
        Bound(g, u) /\ HasSplit(g, u)' =>
          \/ splits'[g][u].row = splits[g][u].row
          \/ splits'[g][u].row = None /\ personal'[splits[g][u].row] = NoRow
<1>1. ASSUME OwnRowInv, [GtNext]_gtVars PROVE Kept
  <2>1. ASSUME UNCHANGED splits PROVE Kept
    BY <2>1
  <2>2. ASSUME NEW c \in Clients, SplitsWritten(c) PROVE Kept
    <3> DEFINE h == pending[c].gt
    <3> DEFINE s == pending[c].splits
    <3>1. PICK fresh : SplitsApplied(h, s, gts'[h].meta, fresh)
      BY <2>2 DEF SplitsWritten
    <3>2. splits' = [splits EXCEPT ![h] = SplitsAfter(h, s, fresh)]
      BY <3>1 DEF SplitsApplied
    <3>3. splits \in [GtIds -> [Users -> SplitRow \cup {NoRow}]] /\ h \in GtIds
      BY <1>1, <2>2 DEF OwnRowInv, GtTypeOK, TablesTypeOK, SplitsWritten
    <3> HIDE DEF h, s
    <3>4. ASSUME NEW g \in GtIds, NEW u \in Users, Bound(g, u), splits'[g][u] # NoRow
          PROVE  splits'[g][u].row = splits[g][u].row
      BY <3>2, <3>3, <3>4 DEF SplitsAfter, NewSplit, Reused
    <3> QED
      BY <3>4 DEF HasSplit
  <2>3. ASSUME PurgeTransactions PROVE Kept
    <3>1. PICK old \in SUBSET {t \in RowIds : personal[t] # NoRow /\ personal[t].deleted} :
            /\ personal' = [t \in RowIds |-> IF t \in old THEN NoRow ELSE personal[t]]
            /\ splits' = Unpointed(old)
      BY <2>3 DEF PurgeTransactions
    <3>2. ASSUME NEW g \in GtIds, NEW u \in Users, Bound(g, u)
          PROVE  \/ splits'[g][u].row = splits[g][u].row
                 \/ splits'[g][u].row = None /\ personal'[splits[g][u].row] = NoRow
      <4>1. splits[g][u] \in SplitRow
        BY <1>1, <3>2 DEF OwnRowInv, GtTypeOK, TablesTypeOK, Bound, HasSplit
      <4> QED
        BY <3>1, <3>2, <4>1 DEF Unpointed, SplitRow
    <3> QED
      BY <3>2
  <2>4. ASSUME PurgeGroupTransactions PROVE Kept
    BY <2>4 DEF PurgeGroupTransactions, HasSplit
  <2>5. ASSUME NEW c \in Clients, LooksOnly(c) \/ Abort(c)
        PROVE  UNCHANGED splits
    BY <1>1, <2>5, ReceiveKeepsOwnRow DEF Abort, tables
  <2>6. ASSUME NEW c \in Clients, CommitUpdate(c) PROVE Kept
    <3>1. CASE pending[c].splits = <<>>
      BY <2>1, <2>6, <3>1 DEF CommitUpdate
    <3>2. CASE pending[c].splits # <<>>
      BY <1>1, <2>2, <2>6, <3>2, UpdateWrites
    <3> QED
      BY <3>1, <3>2
  <2>7. ASSUME NEW c \in Clients, CommitCreate(c) PROVE Kept
    BY <1>1, <2>2, <2>7, CreateWrites
  <2>8. ASSUME Tick \/ UpsertTransaction \/ UNCHANGED gtVars PROVE UNCHANGED splits
    BY <2>8 DEF Tick, UpsertTransaction, gtVars, tables
  <2>9. ASSUME NEW c \in Clients, CommitDelete(c) \/ CommitRecat(c) PROVE UNCHANGED splits
    BY <2>9 DEF CommitDelete, CommitRecat
  <2> HIDE DEF Kept
  <2> QED
    BY <1>1, <2>1, <2>3, <2>4, <2>5, <2>6, <2>7, <2>8, <2>9 DEF GtNext, LooksOnly
<1>2. OwnRowInv /\ [GtNext]_gtVars => [Kept]_gtVars
  BY <1>1
<1> HIDE DEF Kept
<1>3. GtSpec => [][Kept]_gtVars
  BY <1>2, OwnRowInit, OwnRowStep, PTL DEF GtSpec
<1> QED
  BY <1>3 DEF RowIdsPreserved, Kept

\* Last write wins: what a group transaction and its splits hold is never replaced
\* by a write with an older stamp, as long as it is not deleted or purged.
THEOREM NewerWins == GtSpec => LastWriteWins
<1> DEFINE Wins ==
      \A g \in GtIds :
        /\ gts[g] # NoRow /\ gts'[g] # NoRow
        /\ ~(gts'[g].deleted /\ ~gts[g].deleted)
        /\ gts'[g].stamp < gts[g].stamp
        => /\ gts[g].deleted
           /\ gts'[g] = [gts[g] EXCEPT !.stamp = gts'[g].stamp]
           /\ splits'[g] = splits[g]
<1>1. ASSUME OwnRowInv, [GtNext]_gtVars PROVE Wins
  <2>0. ASSUME NEW g \in GtIds, gts[g] # NoRow PROVE gts[g] \in GtRow /\ gts[g].stamp \in Nat
    BY <1>1, <2>0 DEF OwnRowInv, GtTypeOK, TablesTypeOK, GtRow
  <2>1. ASSUME \A g \in GtIds : gts'[g] # gts[g] /\ gts[g] # NoRow /\ gts'[g] # NoRow =>
                 gts'[g].stamp \in Nat /\ gts'[g].stamp >= gts[g].stamp
        PROVE  Wins
    BY <2>0, <2>1
  <2>2. ASSUME UNCHANGED gts PROVE Wins
    BY <2>1, <2>2
  <2>3. ASSUME NEW c \in Clients, CommitCreate(c) PROVE Wins
    <3> DEFINE r == pending[c]
    <3>1. r.gt \in GtIds /\ r.stamp \in Nat
      BY <1>1, <2>3, PendingType DEF OwnRowInv, CommitCreate, CreateRequest
    <3>2. gts' = [gts EXCEPT ![r.gt] = UpsertedRow(r)] /\ ~Stale(r)
      BY <2>3 DEF CommitCreate
    <3> HIDE DEF r
    <3>3. UpsertedRow(r).stamp = r.stamp
      BY DEF UpsertedRow
    <3>4. gts[r.gt] # NoRow => r.stamp >= gts[r.gt].stamp
      BY <2>0, <3>1, <3>2 DEF Stale
    <3>5. \A g \in GtIds : gts'[g] # gts[g] => g = r.gt /\ gts'[g] = UpsertedRow(r)
      BY <1>1, <3>2 DEF OwnRowInv, GtTypeOK, TablesTypeOK
    <3> QED
      BY <2>1, <3>1, <3>3, <3>4, <3>5
  <2>4. ASSUME NEW c \in Clients, CommitUpdate(c) PROVE Wins
    <3> DEFINE r == pending[c]
    <3>1. r.gt \in GtIds /\ r.stamp \in Nat
      BY <1>1, <2>4, PendingType DEF OwnRowInv, CommitUpdate, UpdateRequest
    <3>2. gts' = [gts EXCEPT ![r.gt] = UpdatedRow(r)] /\ ~Stale(r)
      BY <2>4 DEF CommitUpdate
    <3> HIDE DEF r
    <3>3. UpdatedRow(r).stamp = r.stamp
      BY DEF UpdatedRow
    <3>4. gts[r.gt] # NoRow => r.stamp >= gts[r.gt].stamp
      BY <2>0, <3>1, <3>2 DEF Stale
    <3>5. \A g \in GtIds : gts'[g] # gts[g] => g = r.gt /\ gts'[g] = UpdatedRow(r)
      BY <1>1, <3>2 DEF OwnRowInv, GtTypeOK, TablesTypeOK
    <3> QED
      BY <2>1, <3>1, <3>3, <3>4, <3>5
  <2>5. ASSUME NEW c \in Clients, CommitDelete(c) PROVE Wins
    <3> DEFINE r == pending[c]
    <3>1. r.gt \in GtIds
      BY <1>1, <2>5, PendingType DEF OwnRowInv, CommitDelete
    <3>2. /\ UNCHANGED splits
          /\ gts' = IF gts[r.gt] = NoRow THEN gts
                    ELSE [gts EXCEPT ![r.gt].deleted = TRUE, ![r.gt].stamp = r.stamp]
      BY <2>5 DEF CommitDelete
    <3> HIDE DEF r
    <3>3. ASSUME NEW g \in GtIds, gts[g] # NoRow, gts[g].deleted
          PROVE  gts'[g] = [gts[g] EXCEPT !.stamp = gts'[g].stamp]
      <4>1. gts[g] \in GtRow
        BY <2>0, <3>3
      <4>2. \/ gts'[g] = gts[g]
            \/ gts'[g] = [gts[g] EXCEPT !.deleted = TRUE, !.stamp = r.stamp]
        BY <1>1, <3>1, <3>2 DEF OwnRowInv, GtTypeOK, TablesTypeOK
      <4> QED
        BY <3>3, <4>1, <4>2 DEF GtRow
    <3>4. ASSUME NEW g \in GtIds, gts[g] # NoRow, ~gts[g].deleted,
                 ~(gts'[g].deleted /\ ~gts[g].deleted)
          PROVE  gts'[g] = gts[g]
      <4>1. gts[g] \in GtRow
        BY <2>0, <3>4
      <4>2. \/ gts'[g] = gts[g]
            \/ gts'[g] = [gts[g] EXCEPT !.deleted = TRUE, !.stamp = r.stamp]
        BY <1>1, <3>1, <3>2 DEF OwnRowInv, GtTypeOK, TablesTypeOK
      <4> QED
        BY <3>4, <4>1, <4>2 DEF GtRow
    <3>5. ASSUME NEW g \in GtIds, gts[g] # NoRow, ~(gts'[g].deleted /\ ~gts[g].deleted),
                 gts'[g].stamp < gts[g].stamp
          PROVE  gts[g].deleted
      <4>1. CASE ~gts[g].deleted
        BY <2>0, <3>4, <3>5, <4>1
      <4> QED
        BY <4>1
    <3> QED
      BY <3>2, <3>3, <3>5
  <2>6. ASSUME PurgeGroupTransactions PROVE Wins
    <3>1. \A g \in GtIds : gts'[g] = gts[g] \/ gts'[g] = NoRow
      BY <2>6 DEF PurgeGroupTransactions
    <3> QED
      BY <2>1, <3>1
  <2>7. ASSUME NEW c \in Clients, LooksOnly(c) \/ Abort(c)
        PROVE  UNCHANGED gts
    BY <1>1, <2>7, ReceiveKeepsOwnRow DEF Abort, tables
  <2>8. ASSUME Tick \/ UpsertTransaction \/ PurgeTransactions \/ UNCHANGED gtVars
        PROVE  UNCHANGED gts
    BY <2>8 DEF Tick, UpsertTransaction, PurgeTransactions, gtVars, tables
  <2>9. ASSUME NEW c \in Clients, CommitRecat(c) PROVE Wins
    <3>1. MetasMoved
      BY <1>1, <2>9, RecatMovesMetas
    <3>2. \A g \in GtIds : gts[g] # NoRow => gts'[g].stamp = gts[g].stamp
      BY <3>1 DEF MetasMoved
    <3> QED
      BY <2>0, <2>1, <3>2
  <2> HIDE DEF Wins
  <2> QED
    BY <1>1, <2>2, <2>3, <2>4, <2>5, <2>6, <2>7, <2>8, <2>9 DEF GtNext, LooksOnly
<1>2. OwnRowInv /\ [GtNext]_gtVars => [Wins]_gtVars
  BY <1>1
<1> HIDE DEF Wins
<1>3. GtSpec => [][Wins]_gtVars
  BY <1>2, OwnRowInit, OwnRowStep, PTL DEF GtSpec
<1> QED
  BY <1>3 DEF LastWriteWins, Wins

-----------------------------------------------------------------------------
(* What shows a row of a deleted group transaction, and a create sent again. *)

\* What may show a row of deleted group transaction g.
MayShowDeleted(g) ==
  \E c \in Clients :
    /\ pending[c] # None /\ pending'[c] = None
    /\ pending[c].op \in {"update", "hide"} /\ pending[c].gt = g
    /\ \/ pending[c].op = "update" /\ pending[c].splits # <<>>
       \/ /\ pending[c].op = "hide"
          /\ \E u \in Users : Bound(g, u) /\ splits[g][u].row \notin pending[c].seen

\* A step that deletes no group transaction, and shows no more rows of one, revives none.
LEMMA FewerShown ==
  ASSUME NEW g, gts'[g] # NoRow /\ gts'[g].deleted => gts[g] # NoRow /\ gts[g].deleted,
         \A t \in RowIds : personal'[t] # NoRow /\ ~personal'[t].deleted /\ personal'[t].gt = g =>
           RowLive(t) /\ personal[t].gt = g,
         DeletedRowShown(g)'
  PROVE  DeletedRowShown(g)
BY DEF DeletedRowShown, RowLive

\* A create or an update with splits touches the rows of its own group transaction only.
LEMMA SplitsWrittenElsewhere ==
  ASSUME OwnRowInv, NEW c \in Clients, SplitsWritten(c),
         NEW g \in GtIds \ {pending[c].gt}, DeletedRowShown(g)'
  PROVE  DeletedRowShown(g)
<1> DEFINE h == pending[c].gt
<1> DEFINE s == pending[c].splits
<1> DEFINE m == gts'[h].meta
<1>1. PICK fresh : SplitsApplied(h, s, m, fresh)
  BY DEF SplitsWritten
<1>2. /\ h \in GtIds /\ s \in SplitLists /\ ~SplitsFail(h, s) /\ gts'[h] \in GtRow
      /\ gts'[g] = gts[g]
  BY DEF SplitsWritten
<1>3. m \in Metas /\ TablesTypeOK /\ SplitsPointAtOwnRow /\ g # h
  BY <1>2 DEF GtRow, OwnRowInv, GtTypeOK
<1> HIDE DEF h, s, m
<1>4. ASSUME NEW t \in RowIds, personal'[t] # NoRow, personal'[t].gt = g
      PROVE  personal'[t] = personal[t]
  <2>1. CASE \E i \in Inserted(h, s) : fresh[i] = t
    <3>1. PICK i \in Inserted(h, s) : fresh[i] = t
      BY <2>1
    <3>2. personal'[t] = InsertedRow(h, s[i], m)
      BY <1>1, <3>1 DEF SplitsApplied
    <3>3. personal'[t].gt = h
      BY <3>2 DEF InsertedRow
    <3> QED
      BY <1>3, <1>4, <3>3
  <2>2. CASE \E u \in Users : PointsAt(h, u, t)
    <3>1. PICK u \in Users : PointsAt(h, u, t)
      BY <2>2
    <3>2. /\ Bound(h, u) /\ splits[h][u].row = t
          /\ personal[t] \in PersonalRow /\ personal[t].gt = h
      BY <1>2, <1>3, <3>1 DEF PointsAt, Bound, SplitsPointAtOwnRow, TablesTypeOK
    <3>3. CASE u \in SplitUsers(s)
      <4>1. Stored(s[LastEntry(s, u)].amt) \in Amount
        BY <1>2, <3>3, LastEntryOfUser, StoredAmounts
      <4>2. personal'[t] = UpdatedPersonal(personal[t], s[LastEntry(s, u)].amt, m)
        BY <1>1, <3>2, <3>3 DEF SplitsApplied
      <4>3. personal'[t].gt = h
        BY <1>3, <3>2, <4>1, <4>2, UpdatedPersonalType
      <4> QED
        BY <1>3, <1>4, <4>3
    <3>4. CASE u \notin SplitUsers(s)
      <4>1. personal'[t] = [personal[t] EXCEPT !.deleted = TRUE]
        BY <1>1, <3>2, <3>4 DEF SplitsApplied
      <4>2. personal'[t].gt = h
        BY <3>2, <4>1 DEF PersonalRow
      <4> QED
        BY <1>3, <1>4, <4>2
    <3> QED
      BY <3>3, <3>4
  <2>3. CASE /\ \A i \in Inserted(h, s) : fresh[i] # t
             /\ \A u \in Users : ~PointsAt(h, u, t)
    BY <1>1, <2>3 DEF SplitsApplied
  <2> QED
    BY <2>1, <2>2, <2>3
<1> QED
  BY <1>2, <1>4, FewerShown DEF RowLive

\* A delete hides the linked rows that its first statement saw; one it did not see is the row
\* of a share.
LEMMA DeleteShows ==
  ASSUME OneRowInv, NEW c \in Clients, CommitDelete(c),
         NEW g \in GtIds, DeletedRowShown(g)'
  PROVE  DeletedRowShown(g) \/ MayShowDeleted(g)
<1> DEFINE r == pending[c]
<1>1. r \in HideRequest /\ r # None /\ pending'[c] = None
  BY PendingType DEF OneRowInv, OwnRowInv, GtTypeOK, CommitDelete, Finish
<1>2. r.gt \in GtIds /\ r.op = "hide"
  BY <1>1 DEF HideRequest
<1>3. /\ \A t \in RowIds : personal'[t] = HiddenRow(r, t)
      /\ gts' = IF gts[r.gt] = NoRow THEN gts
                ELSE [gts EXCEPT ![r.gt].deleted = TRUE, ![r.gt].stamp = r.stamp]
  BY DEF CommitDelete
<1>4. TablesTypeOK /\ personal \in [RowIds -> PersonalRow \cup {NoRow}]
      /\ gts \in [GtIds -> GtRow \cup {NoRow}]
  BY DEF OneRowInv, OwnRowInv, GtTypeOK, TablesTypeOK
<1>5. PICK t \in RowIds : personal'[t] # NoRow /\ ~personal'[t].deleted /\ personal'[t].gt = g
  BY DEF DeletedRowShown, RowLive
<1>6. ~(t \in r.seen /\ personal[t] # NoRow /\ personal[t].gt = r.gt)
  <2> SUFFICES ASSUME t \in r.seen, personal[t] # NoRow, personal[t].gt = r.gt PROVE FALSE
    OBVIOUS
  <2>1. personal'[t] = [personal[t] EXCEPT !.deleted = TRUE] /\ personal[t] \in PersonalRow
    BY <1>3, <1>4 DEF HiddenRow
  <2> QED
    BY <1>5, <2>1 DEF PersonalRow
<1>7. personal'[t] = personal[t]
  BY <1>3, <1>6 DEF HiddenRow
<1>8. RowLive(t) /\ personal[t].gt = g
  BY <1>5, <1>7 DEF RowLive
<1>9. CASE g # r.gt
  <2>1. gts'[g] = gts[g]
    BY <1>3, <1>4, <1>9
  <2> QED
    BY <1>8, <2>1 DEF DeletedRowShown
<1>10. CASE g = r.gt
  <2>1. t \notin r.seen
    BY <1>6, <1>8, <1>10 DEF RowLive
  <2>2. personal[t].user \in Users /\ personal[t].gt # None
    BY <1>4, <1>8, StateAssumptions DEF RowLive, PersonalRow
  <2>3. Bound(g, personal[t].user) /\ splits[g][personal[t].user].row = t
    BY <1>8, <2>2 DEF OneRowInv, OneLiveRowPerShare
  <2> QED
    BY <1>1, <1>2, <1>10, <2>1, <2>2, <2>3 DEF MayShowDeleted
<1> QED
  BY <1>9, <1>10

\* Plain edits, the deletion of a category and the purge show no row of a deleted group
\* transaction.
LEMMA EditsShowNone ==
  ASSUME OwnRowInv, NEW g \in GtIds, DeletedRowShown(g)',
         \/ \E c \in Clients : CommitUpdate(c) /\ pending[c].splits = <<>>
         \/ \E c \in Clients : CommitRecat(c)
         \/ UpsertTransaction \/ PurgeTransactions \/ PurgeGroupTransactions
         \/ UNCHANGED <<gts, personal>>
  PROVE  DeletedRowShown(g)
<1>1. TablesTypeOK /\ personal \in [RowIds -> PersonalRow \cup {NoRow}] /\ NoRow \notin PersonalRow
      /\ gts \in [GtIds -> GtRow \cup {NoRow}] /\ NoRow \notin GtRow /\ g # None
  BY StateAssumptions DEF OwnRowInv, GtTypeOK, TablesTypeOK
<1>2. ASSUME NEW c \in Clients, CommitUpdate(c), pending[c].splits = <<>>
      PROVE  DeletedRowShown(g)
  <2> DEFINE r == pending[c]
  <2>1. r \in UpdateRequest /\ r.gt \in GtIds
    BY <1>2, PendingType DEF OwnRowInv, CommitUpdate
  <2>2. gts' = [gts EXCEPT ![r.gt] = UpdatedRow(r)] /\ gts[r.gt] # NoRow
        /\ UpdatedRow(r).total > 0 /\ SyncPersonal(r.gt, r.meta)
    BY <1>2 DEF CommitUpdate
  <2> HIDE DEF r
  <2>3. UpdatedRow(r).deleted = gts[r.gt].deleted
    BY <1>1, <2>1, <2>2, UpdatedRowType
  <2>4. \A t \in RowIds : \/ personal'[t] = personal[t]
                          \/ RowLive(t) /\ personal'[t] = [personal[t] EXCEPT !.meta = r.meta]
    BY <2>2 DEF SyncPersonal
  <2>5. \A t \in RowIds : personal'[t] # NoRow =>
          /\ personal[t] # NoRow /\ personal'[t].gt = personal[t].gt
          /\ personal'[t].deleted = personal[t].deleted
    BY <1>1, <2>4 DEF PersonalRow, RowLive
  <2> QED
    BY <1>1, <2>1, <2>2, <2>3, <2>5, FewerShown DEF RowLive
<1>3. CASE UpsertTransaction
  <2>1. gts' = gts
    BY <1>3 DEF UpsertTransaction
  <2>2. \A t \in RowIds : personal'[t] # NoRow =>
          /\ personal[t] # NoRow /\ personal'[t].gt = personal[t].gt
          /\ personal'[t].deleted = personal[t].deleted
    <3>1. PICK x \in RowIds, kind \in {"expense", "income"}, a \in EditAmounts, m \in Metas :
            /\ personal[x] # NoRow
            /\ personal' = [personal EXCEPT ![x].kind = kind, ![x].amt = a, ![x].meta = m]
      BY <1>3 DEF UpsertTransaction
    <3>2. \A t \in RowIds :
            \/ personal'[t] = personal[t]
            \/ t = x /\ personal'[t] = [personal[t] EXCEPT !.kind = kind, !.amt = a, !.meta = m]
      BY <1>1, <3>1
    <3>3. personal[x] \in PersonalRow
      BY <1>1, <3>1
    <3>4. LET row == [personal[x] EXCEPT !.kind = kind, !.amt = a, !.meta = m]
          IN  row.gt = personal[x].gt /\ row.deleted = personal[x].deleted
      BY <3>3 DEF PersonalRow
    <3> QED
      BY <3>1, <3>2, <3>4
  <2> QED
    BY <2>1, <2>2, FewerShown DEF RowLive
<1>4. CASE PurgeTransactions
  <2>1. gts' = gts /\ \A t \in RowIds : personal'[t] \in {NoRow, personal[t]}
    BY <1>4 DEF PurgeTransactions
  <2> QED
    BY <2>1, FewerShown DEF RowLive
<1>5. CASE PurgeGroupTransactions
  <2>1. gts'[g] \in {NoRow, gts[g]}
    BY <1>5 DEF PurgeGroupTransactions
  <2>2. \A t \in RowIds : \/ personal'[t] = personal[t]
                          \/ personal[t] # NoRow /\ personal'[t] = [personal[t] EXCEPT !.gt = None]
    BY <1>5 DEF PurgeGroupTransactions
  <2>3. \A t \in RowIds : personal'[t] # NoRow /\ personal'[t].gt = g => personal'[t] = personal[t]
    BY <1>1, <2>2 DEF PersonalRow
  <2> QED
    BY <2>1, <2>3, FewerShown DEF RowLive
<1>6. CASE UNCHANGED <<gts, personal>>
  BY <1>6, FewerShown DEF RowLive
<1>7. ASSUME NEW c \in Clients, CommitRecat(c) PROVE DeletedRowShown(g)
  <2>1. MetasMoved
    BY <1>7, RecatMovesMetas
  <2> QED
    BY <2>1, FewerShown DEF MetasMoved, RowLive
<1> QED
  BY <1>2, <1>3, <1>4, <1>5, <1>6, <1>7

\* A deleted group transaction comes back in a dashboard only by the two known races, for any
\* number of users, requests in flight and versions, with direct edits and the purge.
THEOREM LateUpdateRevives == NoRepeatsOrNoPurge => (GtSpec => OnlyLateUpdateRevives)
<1> SUFFICES ASSUME NoRepeatsOrNoPurge PROVE GtSpec => OnlyLateUpdateRevives
  OBVIOUS
<1> DEFINE Kept == \A g \in GtIds : ~DeletedRowShown(g) /\ DeletedRowShown(g)' => MayShowDeleted(g)
<1>1. ASSUME OneRowInv, GtNext PROVE Kept
  <2> SUFFICES ASSUME NEW g \in GtIds, ~DeletedRowShown(g), DeletedRowShown(g)'
               PROVE  MayShowDeleted(g)
    OBVIOUS
  <2>0. OwnRowInv
    BY <1>1 DEF OneRowInv
  <2>1. ASSUME NEW c \in Clients, CommitCreate(c) PROVE FALSE
    <3> DEFINE r == pending[c]
    <3>1. r.gt \in GtIds
      BY <2>0, <2>1, PendingType DEF OwnRowInv, CommitCreate
    <3>2. gts' = [gts EXCEPT ![r.gt] = UpsertedRow(r)]
      BY <2>1 DEF CommitCreate
    <3>3. ~UpsertedRow(r).deleted
      BY DEF UpsertedRow
    <3> HIDE DEF r
    <3>4. g # r.gt
      BY <2>0, <3>1, <3>2, <3>3 DEF DeletedRowShown, OwnRowInv, GtTypeOK, TablesTypeOK
    <3> QED
      BY <2>0, <2>1, <3>4, CreateWrites, SplitsWrittenElsewhere DEF r
  <2>2. ASSUME NEW c \in Clients, CommitUpdate(c), pending[c].splits # <<>> PROVE MayShowDeleted(g)
    <3>1. SplitsWritten(c)
      BY <2>0, <2>2, UpdateWrites
    <3>2. g = pending[c].gt
      BY <2>0, <3>1, SplitsWrittenElsewhere
    <3>3. pending'[c] = None /\ pending[c] # None /\ pending[c].op = "update"
      BY <2>0, <2>2 DEF CommitUpdate, Finish, OwnRowInv, GtTypeOK
    <3> QED
      BY <2>2, <3>2, <3>3 DEF MayShowDeleted
  <2>3. ASSUME NEW c \in Clients, CommitDelete(c) PROVE MayShowDeleted(g)
    BY <1>1, <2>3, DeleteShows
  <2>4. ASSUME NEW c \in Clients, LooksOnly(c) \/ Abort(c)
        PROVE  UNCHANGED <<gts, personal>>
    BY <2>0, <2>4, ReceiveKeepsOwnRow DEF Abort, tables
  <2>5. Tick => UNCHANGED <<gts, personal>>
    BY DEF Tick, tables
  <2> QED
    BY <1>1, <2>0, <2>1, <2>2, <2>3, <2>4, <2>5, EditsShowNone DEF GtNext, LooksOnly
<1>2. OneRowInv /\ [GtNext]_gtVars => [Kept]_gtVars
  BY <1>1
<1>3. OneRowInv /\ [GtNext]_gtVars => OneRowInv'
  BY OneRowStep
<1>4. GtInit => OneRowInv
  BY OwnRowInit DEF OneRowInv, GtInit, EmptyTables, OneLiveRowPerShare, RowLive, AllBound, HasSplit
<1>5. GtSpec => [][Kept]_gtVars
  BY <1>2, <1>3, <1>4, PTL DEF GtSpec
<1> QED
  BY <1>5 DEF OnlyLateUpdateRevives, MayShowDeleted

\* A live row that already shows the amount and the metadata is updated to itself.
LEMMA UpdatedToItself ==
  ASSUME NEW row \in PersonalRow, ~row.deleted, NEW a, row.amt = Stored(a)
  PROVE  UpdatedPersonal(row, a, row.meta) = row
<1>1. row.deleted = FALSE
  BY DEF PersonalRow
<1>2. UpdatedPersonal(row, a, row.meta)
        = [row EXCEPT !.amt = row.amt, !.meta = row.meta, !.deleted = row.deleted]
  BY <1>1 DEF UpdatedPersonal
<1>3. [row EXCEPT !.amt = row.amt, !.meta = row.meta, !.deleted = row.deleted] = row
  BY DEF PersonalRow
<1> QED
  BY <1>2, <1>3

\* What a create writes when its group transaction and splits are already as it asks.
LEMMA AppliedAgain ==
  ASSUME Reassignments = {}, ShownInv, NEW c \in Clients, CommitCreate(c),
         AlreadyApplied(pending[c])
  PROVE  UNCHANGED tables
<1> DEFINE r == pending[c]
<1> DEFINE g == r.gt
<1> DEFINE s == r.splits
<1>1. r \in CreateRequest /\ g \in GtIds /\ s \in SplitLists /\ r.meta \in Metas
  BY PendingType DEF ShownInv, OwnRowInv, CommitCreate, CreateRequest
<1>2. /\ Stored(r.total) > 0 /\ ~SplitsFail(g, s)
      /\ gts' = [gts EXCEPT ![g] = UpsertedRow(r)]
      /\ ApplySplits(g, s, r.meta)
      /\ UNCHANGED <<groupDeleted, members, setts>>
  BY DEF CommitCreate
<1>3. /\ gts[g] = UpsertedRow(r)
      /\ \A u \in Users : IF u \in SplitUsers(s)
                          THEN SplitAmount(g, u) = Stored(s[LastEntry(s, u)].amt)
                          ELSE ~HasSplit(g, u)
  BY DEF AlreadyApplied
<1>4. TablesTypeOK /\ SplitsPointAtOwnRow
  BY DEF ShownInv, OwnRowInv, GtTypeOK
<1>5. UpsertedRow(r) \in GtRow /\ ~UpsertedRow(r).deleted /\ UpsertedRow(r).meta = r.meta
  BY <1>1, <1>2, UpsertedRowType
<1>6. GtLive(g) /\ gts[g].meta = r.meta
  BY <1>3, <1>5, StateAssumptions DEF GtLive
<1> HIDE DEF r, g, s
<1>7. gts' = gts
  BY <1>1, <1>2, <1>3, <1>4 DEF TablesTypeOK
<1>8. PICK fresh : SplitsApplied(g, s, r.meta, fresh)
  BY <1>1, <1>2, <1>4, ApplySplitsRows
<1>9. ASSUME NEW u \in SplitUsers(s)
      PROVE  /\ u \in Users /\ Bound(g, u) /\ HasSplit(g, u)
             /\ splits[g][u].amt = Stored(s[LastEntry(s, u)].amt)
  <2>1. LastEntry(s, u) \in DOMAIN s /\ u \in Users
    BY <1>1, LastEntryOfUser, EntryType
  <2>2. Stored(s[LastEntry(s, u)].amt) \in Amount
    BY <1>1, <1>2, <2>1, StoredAmounts
  <2>3. SplitAmount(g, u) = Stored(s[LastEntry(s, u)].amt)
    BY <1>3, <2>1
  <2>4. HasSplit(g, u) /\ splits[g][u].amt = Stored(s[LastEntry(s, u)].amt)
    BY <2>2, <2>3 DEF SplitAmount, Amount
  <2>5. Bound(g, u)
    BY <1>1, <1>6, <2>1, <2>4 DEF ShownInv, LiveSharesShown
  <2> QED
    BY <2>1, <2>4, <2>5
<1>10. splits' = splits
  <2>1. ASSUME NEW u \in Users PROVE SplitsAfter(g, s, fresh)[u] = splits[g][u]
    <3>1. CASE u \in SplitUsers(s)
      <4>1. splits[g][u] \in SplitRow
        BY <1>1, <1>4, <1>9, <3>1 DEF HasSplit, TablesTypeOK
      <4>2. NewSplit(g, s, u, fresh) = [amt |-> splits[g][u].amt, row |-> splits[g][u].row]
        BY <1>9, <3>1 DEF NewSplit, Reused
      <4> QED
        BY <3>1, <4>1, <4>2 DEF SplitsAfter, SplitRow
    <3>2. CASE u \notin SplitUsers(s)
      BY <1>3, <3>2 DEF SplitsAfter, HasSplit
    <3> QED
      BY <3>1, <3>2
  <2>2. SplitsAfter(g, s, fresh) = splits[g]
    BY <1>1, <1>4, <2>1 DEF SplitsAfter, TablesTypeOK
  <2> QED
    BY <1>1, <1>4, <1>8, <2>2 DEF SplitsApplied, TablesTypeOK
<1>11. Inserted(g, s) = {}
  BY <1>9 DEF Inserted, Reused, SplitUsers
<1>12. ASSUME NEW t \in RowIds PROVE personal'[t] = personal[t]
  <2>1. CASE \E u \in Users : PointsAt(g, u, t)
    <3>1. PICK u \in Users : PointsAt(g, u, t)
      BY <2>1
    <3>2. Bound(g, u) /\ splits[g][u].row = t /\ HasSplit(g, u)
      BY <3>1 DEF PointsAt, Bound
    <3>3. u \in SplitUsers(s)
      BY <1>3, <3>2
    <3>4. /\ personal[t] \in PersonalRow /\ ~personal[t].deleted
          /\ personal[t].amt = Stored(s[LastEntry(s, u)].amt) /\ personal[t].meta = r.meta
      BY <1>1, <1>6, <1>9, <3>2, <3>3, ShownRow DEF RowLive
    <3>5. personal'[t] = UpdatedPersonal(personal[t], s[LastEntry(s, u)].amt, r.meta)
      BY <1>8, <3>2, <3>3 DEF SplitsApplied
    <3> QED
      BY <3>4, <3>5, UpdatedToItself
  <2>2. CASE \A u \in Users : ~PointsAt(g, u, t)
    BY <1>8, <1>11, <2>2 DEF SplitsApplied
  <2> QED
    BY <2>1, <2>2
<1>13. personal' = personal
  BY <1>4, <1>8, <1>12 DEF SplitsApplied, TablesTypeOK
<1> QED
  BY <1>2, <1>7, <1>10, <1>13 DEF tables

\* Only a client's own step ends its request.
LEMMA CreateEnds ==
  ASSUME OwnRowInv, [GtNext]_gtVars, NEW c \in Clients, pending[c] # None, pending[c].op = "create",
         pending'[c] = None
  PROVE  CommitCreate(c) \/ UNCHANGED tables
<1>1. ASSUME NEW d \in Clients, CommitUpdate(d) \/ CommitDelete(d) \/ CommitRecat(d) PROVE FALSE
  <2>1. d # c /\ pending' = [pending EXCEPT ![d] = None]
    BY <1>1 DEF CommitUpdate, CommitDelete, CommitRecat, Finish
  <2> QED
    BY <2>1 DEF OwnRowInv, GtTypeOK
<1>2. ASSUME NEW d \in Clients, CommitCreate(d) PROVE d = c
  <2>1. pending' = [pending EXCEPT ![d] = None]
    BY <1>2 DEF CommitCreate, Finish
  <2> QED
    BY <2>1 DEF OwnRowInv, GtTypeOK
<1>3. ASSUME NEW d \in Clients, LooksOnly(d) \/ Abort(d)
      PROVE  UNCHANGED tables
  BY <1>3, ReceiveKeepsOwnRow DEF Abort
<1>4. ~UpsertTransaction /\ ~PurgeTransactions /\ ~PurgeGroupTransactions
  BY DEF UpsertTransaction, PurgeTransactions, PurgeGroupTransactions
<1>5. Tick \/ UNCHANGED gtVars => UNCHANGED tables
  BY DEF Tick, gtVars
<1> QED
  BY <1>1, <1>2, <1>3, <1>4, <1>5 DEF GtNext, LooksOnly

\* A create that is sent again changes no row of any table, as long as the rows are only
\* changed through the group's own handlers and no category is deleted.
THEOREM RetryIdempotent == DirectEdits = FALSE => (GtSpec => RetryChangesNothing)
<1> SUFFICES ASSUME DirectEdits = FALSE PROVE GtSpec => RetryChangesNothing
  OBVIOUS
<1> DEFINE Kept == \A c \in Clients :
             Reassignments = {} /\ pending[c] # None /\ pending[c].op = "create"
               /\ AlreadyApplied(pending[c]) /\ pending'[c] = None => UNCHANGED tables
<1>1. ShownInv /\ [GtNext]_gtVars => [Kept]_gtVars
  BY AppliedAgain, CreateEnds DEF ShownInv
<1>2. ShownInv /\ [GtNext]_gtVars => ShownInv'
  BY ShownStep
<1>3. GtSpec => [][Kept]_gtVars
  BY <1>1, <1>2, ShownInit, PTL DEF GtSpec
<1> QED
  BY <1>3 DEF RetryChangesNothing

-----------------------------------------------------------------------------
(* The sum of the splits.                                                  *)

\* Clients send shares in whole cents.
WholeEntries == \A s \in SplitLists : \A i \in DOMAIN s : WholeCents(s[i].amt)

\* The sum check of a request that carries its own total.
SumChecked(r) == r.op = "create" \/ (r.op = "update" /\ r.total # None) =>
                   r.splits # <<>> /\ SplitListSum(r.splits) = r.total

\* What the splits of a request have been checked against.
SumInv == OwnRowInv /\ \A c \in Clients : pending[c] # None => SumChecked(pending[c])

\* Shares in whole cents, of users that are named once, are stored with the sum they were sent with.
LEMMA StoredSum ==
  ASSUME WholeEntries, NEW s \in SplitLists, ~Repeats(s),
         NEW f, \A u \in Users : f[u] = IF u \in SplitUsers(s)
                                        THEN Stored(s[LastEntry(s, u)].amt) ELSE 0
  PROVE  /\ SumFunctionOnSet(f, Users) = SplitListSum(s)
         /\ SplitListSum(s) \in Nat /\ WholeCents(SplitListSum(s))
<1> DEFINE D == DOMAIN s
           V == SplitUsers(s)
           amt == [i \in D |-> s[i].amt]
           user == [i \in D |-> s[i].user]
<1>1. IsFiniteSet(D)
  <2>1. s \in Seq([user: Users, amt: Amount])
    BY GtAssumptions
  <2>2. Len(s) \in Nat /\ D = 1 .. Len(s)
    BY <2>1
  <2> QED
    BY <2>2, FS_Interval
<1>2. \A i \in D : s[i].user \in Users /\ s[i].amt \in Nat /\ WholeCents(s[i].amt)
  BY EntryType DEF Amount, WholeEntries
<1>3. SplitListSum(s) = SumFunctionOnSet(amt, D)
  BY DEF SplitListSum, SumFunction
<1>4. V = {user[i] : i \in D} /\ V \subseteq Users
  BY <1>2 DEF SplitUsers
<1>5. ASSUME NEW i \in D PROVE f[user[i]] = amt[i]
  <2>1. s[i].user \in V
    BY DEF SplitUsers
  <2>2. LastEntry(s, s[i].user) = i
    BY <2>1, LastEntryOfUser DEF Repeats
  <2>3. Stored(s[i].amt) = s[i].amt
    BY <1>2, StoredKeepsWhole
  <2> QED
    BY <1>2, <2>1, <2>2, <2>3
<1>6. /\ \A i \in D : amt[i] \in Int /\ amt[i] >= 0 /\ WholeCents(amt[i])
      /\ \A i, j \in D : user[i] = user[j] => i = j
  BY <1>2 DEF Repeats
<1> HIDE DEF D, V, amt, user
<1>7. SumFunctionOnSet(amt, D) = SumFunctionOnSet(f, V)
  <2>1. SumFunctionOnSet(amt, D) = SumFunctionOnSet(f, {user[i] : i \in D})
    BY <1>1, <1>5, <1>6, SumRenamed
  <2> QED
    BY <1>4, <2>1
<1>8. SumFunctionOnSet(amt, D) \in Nat /\ WholeCents(SumFunctionOnSet(amt, D))
  BY <1>1, <1>6, SumType, WholeSums
<1>9. SumFunctionOnSet(f, Users) = SumFunctionOnSet(f, V)
  <2> DEFINE W == Users \ V
  <2>1. IsFiniteSet(V) /\ IsFiniteSet(W) /\ V \cap W = {} /\ V \cup W = Users
    BY <1>4, StateAssumptions, FS_Subset
  <2>2. \A u \in V : f[u] \in Int
    BY <1>4, <1>5, <1>6
  <2>3. \A u \in W : f[u] = 0
    BY DEF V
  <2> HIDE DEF W
  <2>4. SumFunctionOnSet(f, V \cup W) = SumFunctionOnSet(f, V) + SumFunctionOnSet(f, W)
    BY <2>1, <2>2, <2>3, SumUnion
  <2>5. SumFunctionOnSet(f, W) = 0 /\ SumFunctionOnSet(f, V) \in Int
    BY <2>1, <2>2, <2>3, SumZero, SumType
  <2> QED
    BY <2>1, <2>4, <2>5
<1> QED
  BY <1>3, <1>7, <1>8, <1>9

\* A group transaction whose splits keep their amounts keeps their sum.
LEMMA SameSum ==
  ASSUME NEW g, \A u \in Users : SplitAmount(g, u)' = SplitAmount(g, u)
  PROVE  SplitSum(g)' = SplitSum(g)
<1>1. [u \in Users |-> SplitAmount(g, u)'] = [u \in Users |-> SplitAmount(g, u)]
  OBVIOUS
<1>2. SplitSum(g) = SumFunction([u \in Users |-> SplitAmount(g, u)])
  BY DEF SplitSum
<1>3. SplitSum(g)' = SumFunction([u \in Users |-> SplitAmount(g, u)'])
  BY DEF SplitSum
<1> QED
  BY <1>1, <1>2, <1>3

\* A request whose shares were checked against its own total, and which names no user twice,
\* stores a group transaction that adds up.
LEMMA WrittenAddsUp ==
  ASSUME WholeEntries, OwnRowInv, NEW c \in Clients, SplitsWritten(c),
         ~Repeats(pending[c].splits), SplitListSum(pending[c].splits) = pending[c].total,
         NEW g \in GtIds, g = pending[c].gt, gts'[g].total = Stored(pending[c].total)
  PROVE  Balanced(g)'
<1>1. PICK s \in SplitLists : s = pending[c].splits
  BY DEF SplitsWritten
<1>2. PICK fresh : SplitsApplied(g, s, gts'[g].meta, fresh)
  BY <1>1 DEF SplitsWritten
<1>3. splits'[g] = SplitsAfter(g, s, fresh)
  BY <1>1, <1>2 DEF SplitsApplied, OwnRowInv, GtTypeOK, TablesTypeOK
<1>4. PICK f : f = [u \in Users |-> SplitAmount(g, u)']
  OBVIOUS
<1>5. \A u \in Users : f[u] = IF u \in SplitUsers(s) THEN Stored(s[LastEntry(s, u)].amt) ELSE 0
  <2> SUFFICES ASSUME NEW u \in Users
               PROVE  f[u] = IF u \in SplitUsers(s) THEN Stored(s[LastEntry(s, u)].amt) ELSE 0
    OBVIOUS
  <2>1. CASE u \in SplitUsers(s)
    <3>1. splits'[g][u] = NewSplit(g, s, u, fresh)
      BY <1>3, <2>1 DEF SplitsAfter
    <3>2. NewSplit(g, s, u, fresh) # NoRow
      BY <1>1, <1>2, <2>1, NewSplitType, StateAssumptions DEF OwnRowInv, GtTypeOK, SplitsWritten
    <3>3. NewSplit(g, s, u, fresh).amt = Stored(s[LastEntry(s, u)].amt)
      BY DEF NewSplit
    <3> QED
      BY <1>4, <2>1, <3>1, <3>2, <3>3 DEF SplitAmount, HasSplit
  <2>2. CASE u \notin SplitUsers(s)
    BY <1>3, <1>4, <2>2 DEF SplitsAfter, SplitAmount, HasSplit
  <2> QED
    BY <2>1, <2>2
<1>6. SumFunctionOnSet(f, Users) = SplitListSum(s) /\ SplitListSum(s) \in Nat
      /\ WholeCents(SplitListSum(s))
  BY <1>1, <1>5, StoredSum
<1>7. SplitSum(g)' = SumFunctionOnSet(f, Users)
  <2>1. SplitSum(g)' = SumFunction(f) /\ DOMAIN f = Users
    BY <1>4 DEF SplitSum
  <2> QED
    BY <2>1 DEF SumFunction
<1>8. Stored(SplitListSum(s)) = SplitListSum(s)
  BY <1>6, StoredKeepsWhole
<1> QED
  BY <1>1, <1>6, <1>7, <1>8 DEF Balanced

\* What was checked stays checked: only the checks themselves put a request in flight.
LEMMA SumCheckedStep == SumInv /\ [GtNext]_gtVars => SumInv'
<1> SUFFICES ASSUME SumInv, [GtNext]_gtVars PROVE SumInv'
  OBVIOUS
<1>1. OwnRowInv' /\ pending \in [Clients -> Request \cup {None}]
  BY OwnRowStep DEF SumInv, OwnRowInv, GtTypeOK
<1>2. ASSUME NEW c \in Clients, NEW r, pending' = [pending EXCEPT ![c] = r],
             r = None \/ SumChecked(r)
      PROVE  SumInv'
  <2>1. ASSUME NEW d \in Clients, pending'[d] # None PROVE SumChecked(pending'[d])
    <3>1. CASE d = c
      BY <1>1, <1>2, <2>1, <3>1
    <3>2. CASE d # c
      BY <1>1, <1>2, <2>1, <3>2 DEF SumInv
    <3> QED
      BY <3>1, <3>2
  <2> QED
    BY <1>1, <2>1 DEF SumInv, SumChecked
<1>3. ASSUME NEW c \in Clients, Finish(c) PROVE SumInv'
  BY <1>2, <1>3 DEF Finish
<1>4. ASSUME NEW c \in Clients, ReceiveCreate(c) PROVE SumInv'
  <2>1. PICK p \in members \cap Payers, g \in GtIds, n \in Totals, s \in SplitLists, m \in Metas,
             t \in Stamps :
          /\ SplitListSum(s) = n
          /\ pending' = [pending EXCEPT ![c] =
               [op |-> "create", gt |-> g, payer |-> p, total |-> n,
                splits |-> s, meta |-> m, stamp |-> t]]
    BY <1>4 DEF ReceiveCreate, Receive
  <2> DEFINE r == [op |-> "create", gt |-> g, payer |-> p, total |-> n,
                   splits |-> s, meta |-> m, stamp |-> t]
  <2>2. s # <<>>
    BY GtAssumptions
  <2>3. SumChecked(r)
    BY <2>1, <2>2 DEF SumChecked
  <2> QED
    BY <1>2, <2>1, <2>3
<1>5. ASSUME NEW c \in Clients, ReceiveUpdate(c) PROVE SumInv'
  <2>1. PICK r : SumChecked(r) /\ Receive(c, r)
    BY <1>5 DEF ReceiveUpdate, UpdateChecked, SumChecked
  <2> QED
    BY <1>2, <2>1 DEF Receive
<1>6. ASSUME NEW c \in Clients, ReceiveDelete(c) PROVE SumInv'
  <2>1. PICK g \in GtIds : pending' = [pending EXCEPT ![c] = [op |-> "delete", gt |-> g]]
    BY <1>6 DEF ReceiveDelete, Receive
  <2>2. SumChecked([op |-> "delete", gt |-> g])
    BY DEF SumChecked
  <2> QED
    BY <1>2, <2>1, <2>2
<1>7. ASSUME NEW c \in Clients, HideRows(c) PROVE SumInv'
  <2>1. PICK r : r.op = "hide" /\ pending' = [pending EXCEPT ![c] = r]
    BY <1>7 DEF HideRows
  <2>2. SumChecked(r)
    BY <2>1 DEF SumChecked
  <2> QED
    BY <1>2, <2>1, <2>2
<1>8. ASSUME NEW c \in Clients,
             CommitCreate(c) \/ CommitUpdate(c) \/ CommitDelete(c) \/ CommitRecat(c) \/ Abort(c)
      PROVE  SumInv'
  BY <1>3, <1>8 DEF CommitCreate, CommitUpdate, CommitDelete, CommitRecat, Abort
<1>9. ASSUME UpsertTransaction \/ PurgeTransactions \/ PurgeGroupTransactions \/ Tick
             \/ UNCHANGED gtVars
      PROVE  SumInv'
  <2>1. UNCHANGED pending
    BY <1>9 DEF UpsertTransaction, PurgeTransactions, PurgeGroupTransactions, Tick, gtVars
  <2> QED
    BY <1>1, <2>1 DEF SumInv, SumChecked
<1>10. ASSUME NEW c \in Clients, ReceiveRecat(c) \/ RecatGroups(c) PROVE SumInv'
  <2>1. PICK r : r.op = "recat" /\ pending' = [pending EXCEPT ![c] = r]
    <3>1. CASE ReceiveRecat(c)
      BY <3>1 DEF ReceiveRecat, Receive
    <3>2. CASE RecatGroups(c)
      <4>1. pending[c] \in RecatRequest
        BY <3>2, PendingType DEF SumInv, OwnRowInv, RecatGroups
      <4>2. PICK moved : pending' = [pending EXCEPT ![c].next = "commit", ![c].gts = moved]
        BY <3>2 DEF RecatGroups
      <4>3. pending' = [pending EXCEPT ![c] = [pending[c] EXCEPT !.next = "commit", !.gts = moved]]
        BY <1>1, <4>2
      <4>4. [pending[c] EXCEPT !.next = "commit", !.gts = moved].op = "recat"
        BY <4>1 DEF RecatRequest
      <4> QED
        BY <4>3, <4>4
    <3> QED
      BY <1>10, <3>1, <3>2
  <2>2. SumChecked(r)
    BY <2>1 DEF SumChecked
  <2> QED
    BY <1>2, <2>1, <2>2
<1> QED
  BY <1>4, <1>5, <1>6, <1>7, <1>8, <1>9, <1>10 DEF GtNext

\* A group transaction that stays live with its total and its shares still adds up.
LEMMA StaysBalanced ==
  ASSUME NEW g, Balanced(g),
         GtLive(g)' => /\ GtLive(g) /\ gts'[g].total = gts[g].total
                       /\ \A u \in Users : SplitAmount(g, u)' = SplitAmount(g, u)
  PROVE  Balanced(g)'
BY SameSum DEF Balanced

\* If clients send shares in whole cents, the splits of a group transaction stop adding up to its
\* total only by a request that names a user twice, or by an update with splits and without a
\* total, whose shares were checked against the total of the time.
THEOREM ImbalanceKnown == WholeEntries => (GtSpec => OnlyKnownImbalance)
<1> SUFFICES ASSUME WholeEntries PROVE GtSpec => OnlyKnownImbalance
  OBVIOUS
<1> DEFINE Unchecked(c, g) ==
             /\ pending[c] # None /\ pending'[c] = None
             /\ pending[c].op \in {"create", "update"} /\ pending[c].gt = g
             /\ \/ Repeats(pending[c].splits)
                \/ pending[c].op = "update" /\ pending[c].total = None
           Known == \A g \in GtIds : Balanced(g) /\ ~Balanced(g)' => \E c \in Clients : Unchecked(c, g)
<1>1. ASSUME SumInv, [GtNext]_gtVars PROVE Known
  <2> SUFFICES ASSUME NEW g \in GtIds, Balanced(g), \A c \in Clients : ~Unchecked(c, g)
               PROVE  Balanced(g)'
    OBVIOUS
  <2>1. /\ OwnRowInv /\ pending \in [Clients -> Request \cup {None}]
        /\ gts \in [GtIds -> GtRow \cup {NoRow}]
        /\ splits \in [GtIds -> [Users -> SplitRow \cup {NoRow}]]
    BY <1>1 DEF SumInv, OwnRowInv, GtTypeOK, TablesTypeOK
  <2>2. ASSUME UNCHANGED <<gts, splits>> PROVE Balanced(g)'
    BY <2>2, StaysBalanced DEF GtLive, SplitAmount, HasSplit
  \* A request that writes the splits.
  <2>3. ASSUME NEW c \in Clients, SplitsWritten(c), pending[c].op \in {"create", "update"},
               pending[c].gt = g => gts'[g].total = IF pending[c].total = None THEN gts[g].total
                                                    ELSE Stored(pending[c].total),
               pending[c].op = "create" => pending[c].total # None
        PROVE  Balanced(g)'
    <3>1. CASE pending[c].gt # g
      <4>1. gts'[g] = gts[g]
        BY <2>3, <3>1 DEF SplitsWritten
      <4>2. PICK fresh, s :
              splits' = [splits EXCEPT ![pending[c].gt] = SplitsAfter(pending[c].gt, s, fresh)]
        BY <2>3 DEF SplitsWritten, SplitsApplied
      <4>3. splits'[g] = splits[g]
        BY <2>1, <3>1, <4>2
      <4> QED
        BY <4>1, <4>3, StaysBalanced DEF GtLive, SplitAmount, HasSplit
    <3>2. CASE pending[c].gt = g
      <4>1. pending[c] # None /\ pending'[c] = None
        BY <2>1, <2>3 DEF SplitsWritten, Finish
      <4>2. ~Repeats(pending[c].splits) /\ pending[c].total # None
        BY <2>3, <3>2, <4>1
      <4>3. SplitListSum(pending[c].splits) = pending[c].total
        BY <1>1, <2>3, <4>1, <4>2 DEF SumInv, SumChecked
      <4> QED
        BY <2>1, <2>3, <3>2, <4>2, <4>3, WrittenAddsUp
    <3> QED
      BY <3>1, <3>2
  <2>4. ASSUME NEW c \in Clients, CommitCreate(c) PROVE Balanced(g)'
    <3>1. pending[c].op = "create" /\ pending[c] \in CreateRequest /\ pending[c].gt \in GtIds
      BY <2>1, <2>4, PendingType DEF CommitCreate, OwnRowInv
    <3>2. pending[c].total # None
      BY <3>1, GtAssumptions DEF CreateRequest
    <3>3. gts'[pending[c].gt].total = Stored(pending[c].total)
      BY <2>1, <2>4, <3>1 DEF CommitCreate, UpsertedRow
    <3>4. SplitsWritten(c)
      BY <2>1, <2>4, CreateWrites
    <3> QED
      BY <2>3, <3>1, <3>2, <3>3, <3>4
  <2>5. ASSUME NEW c \in Clients, CommitUpdate(c) PROVE Balanced(g)'
    <3>1. /\ pending[c].op = "update" /\ pending[c] # None /\ pending[c].gt \in GtIds
          /\ gts[pending[c].gt] # NoRow
      BY <2>1, <2>5, PendingType DEF CommitUpdate, OwnRowInv
    <3>2. PICK h \in GtIds, r \in {pending[c]} :
                 r = pending[c] /\ h = r.gt /\ gts' = [gts EXCEPT ![h] = UpdatedRow(r)]
      BY <2>5, <3>1 DEF CommitUpdate
    <3>3. /\ UpdatedRow(r).deleted = gts[h].deleted
          /\ UpdatedRow(r).total = IF r.total = None THEN gts[h].total ELSE Stored(r.total)
      BY <3>2 DEF UpdatedRow
    <3>4. CASE r.splits = <<>>
      <4>1. r.total = None
        BY <1>1, <3>1, <3>2, <3>4 DEF SumInv, SumChecked
      <4>2. UNCHANGED splits
        BY <2>5, <3>2, <3>4 DEF CommitUpdate
      <4>3. gts[h] # NoRow /\ \A k \in GtIds \ {h} : gts'[k] = gts[k]
        BY <2>1, <3>1, <3>2
      <4>4. gts'[h].deleted = gts[h].deleted /\ gts'[h].total = gts[h].total
        BY <2>1, <3>2, <3>3, <4>1
      <4>5. GtLive(g)' => GtLive(g) /\ gts'[g].total = gts[g].total
        BY <4>3, <4>4 DEF GtLive
      <4> QED
        BY <4>2, <4>5, StaysBalanced DEF SplitAmount, HasSplit
    <3>5. CASE r.splits # <<>>
      <4>1. SplitsWritten(c)
        BY <2>1, <2>5, <3>2, <3>5, UpdateWrites
      <4>2. gts'[h].total = IF r.total = None THEN gts[h].total ELSE Stored(r.total)
        BY <2>1, <3>2, <3>3
      <4> QED
        BY <2>3, <3>1, <3>2, <4>1, <4>2
    <3> QED
      BY <3>4, <3>5
  <2>6. ASSUME NEW c \in Clients, CommitDelete(c) PROVE Balanced(g)'
    <3>1. UNCHANGED splits
      BY <2>6 DEF CommitDelete
    <3>2. gts'[g] = gts[g] \/ gts'[g].deleted
      <4>1. PICK r : gts' = IF gts[r.gt] = NoRow THEN gts
                            ELSE [gts EXCEPT ![r.gt].deleted = TRUE, ![r.gt].stamp = r.stamp]
        BY <2>6 DEF CommitDelete
      <4>2. CASE gts[r.gt] = NoRow
        BY <4>1, <4>2
      <4>3. CASE gts[r.gt] # NoRow /\ r.gt # g
        BY <2>1, <4>1, <4>3
      <4>4. CASE gts[r.gt] # NoRow /\ r.gt = g
        BY <2>1, <4>1, <4>4 DEF GtRow
      <4> QED
        BY <4>2, <4>3, <4>4
    <3> QED
      BY <3>1, <3>2, StaysBalanced DEF GtLive, SplitAmount, HasSplit
  <2>7. ASSUME PurgeTransactions PROVE Balanced(g)'
    <3>1. UNCHANGED gts
      BY <2>7 DEF PurgeTransactions
    <3>2. PICK old : splits' = Unpointed(old)
      BY <2>7 DEF PurgeTransactions
    <3>3. ASSUME NEW u \in Users PROVE SplitAmount(g, u)' = SplitAmount(g, u)
      <4>1. CASE Bound(g, u) /\ splits[g][u].row \in old
        <5>1. splits[g][u] \in SplitRow
          BY <2>1, <4>1 DEF Bound, HasSplit
        <5>2. splits'[g][u] = [splits[g][u] EXCEPT !.row = None]
          BY <3>2, <4>1 DEF Unpointed
        <5>3. splits'[g][u] \in SplitRow /\ splits'[g][u].amt = splits[g][u].amt
          BY <5>1, <5>2 DEF SplitRow
        <5> QED
          BY <5>1, <5>3, StateAssumptions DEF SplitAmount, HasSplit
      <4>2. CASE ~(Bound(g, u) /\ splits[g][u].row \in old)
        <5>1. splits'[g][u] = splits[g][u]
          BY <3>2, <4>2 DEF Unpointed
        <5> QED
          BY <5>1 DEF SplitAmount, HasSplit
      <4> QED
        BY <4>1, <4>2
    <3> QED
      BY <3>1, <3>3, StaysBalanced DEF GtLive
  <2>8. ASSUME PurgeGroupTransactions PROVE Balanced(g)'
    <3>1. PICK old : /\ gts' = [k \in GtIds |-> IF k \in old THEN NoRow ELSE gts[k]]
                     /\ splits' = [k \in GtIds |-> IF k \in old THEN [u \in Users |-> NoRow]
                                                   ELSE splits[k]]
      BY <2>8 DEF PurgeGroupTransactions
    <3>2. gts'[g] = NoRow \/ (gts'[g] = gts[g] /\ splits'[g] = splits[g])
      BY <3>1
    <3> QED
      BY <3>2, StaysBalanced DEF GtLive, SplitAmount, HasSplit
  <2>9. ASSUME NEW c \in Clients, LooksOnly(c) \/ Abort(c)
        PROVE  UNCHANGED <<gts, splits>>
    BY <2>1, <2>9, ReceiveKeepsOwnRow DEF Abort, tables
  <2>10. ASSUME UpsertTransaction \/ Tick \/ UNCHANGED gtVars PROVE UNCHANGED <<gts, splits>>
    BY <2>10 DEF UpsertTransaction, Tick, gtVars, tables
  <2>11. ASSUME NEW c \in Clients, CommitRecat(c) PROVE Balanced(g)'
    <3>1. MetasMoved
      BY <2>1, <2>11, RecatMovesMetas
    <3> QED
      BY <3>1, StaysBalanced DEF MetasMoved, GtLive, SplitAmount, HasSplit
  <2> QED
    BY <1>1, <2>2, <2>4, <2>5, <2>6, <2>7, <2>8, <2>9, <2>10, <2>11 DEF GtNext, LooksOnly
<1>2. SumInv /\ [GtNext]_gtVars => [Known]_gtVars
  BY <1>1
<1>3. SumInv /\ [GtNext]_gtVars => SumInv'
  BY SumCheckedStep
<1>4. GtInit => SumInv
  BY OwnRowInit DEF SumInv, GtInit
<1> HIDE DEF Known
<1>5. GtSpec => [][Known]_gtVars
  BY <1>2, <1>3, <1>4, PTL DEF GtSpec
<1> QED
  BY <1>5 DEF OnlyKnownImbalance, Known
=============================================================================
