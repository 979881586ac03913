--------------------------- MODULE HistogramProofs ---------------------------
(***************************************************************************)
(* What the histogram tells, for every number of workers, of buckets and   *)
(* of values recorded while it is read.                                    *)
(*                                                                         *)
(* PercentileBracketed is not inductive: it relates the end of a           *)
(* percentile to its start, through loads of which the model keeps only    *)
(* the sum.  Reading says that there were loads of the first pass which    *)
(* lie, bucket by bucket, between what was counted at the start and what   *)
(* is counted now; the second pass loads no less than they did, so that it *)
(* reaches the target (LastLoadReaches) at a bucket that brackets the      *)
(* percentile of either moment (BracketsHold).                             *)
(*                                                                         *)
(* A snapshot begun after the join reads buckets that stand still: the two *)
(* passes then find the percentile (SecondPassIsQuantile), and the jobs    *)
(* merged so far summarise each of them (Merging, TotalBetween).           *)
(*                                                                         *)
(* The theorems are about histograms whose buckets cover every latency     *)
(* (FullRange): Log2Histogram has 64 buckets for 64 bits wherever it is    *)
(* used, and one with fewer counts larger values in its last bucket, whose *)
(* bounds do not enclose them.                                             *)
(***************************************************************************)
EXTENDS Log2Histogram, FiniteSetTheorems, TLAPS

-----------------------------------------------------------------------------
(***************************************************************************)
(* Induction, stated over sets.                                            *)
(***************************************************************************)

\* A set of subsets that holds each one all of whose proper subsets it holds
\* holds all subsets of a finite set.
LEMMA SubsetInduction ==
  ASSUME NEW S, IsFiniteSet(S), NEW Good,
         \A T \in SUBSET S :
           (\A U \in SUBSET T : U # T => U \in Good) => T \in Good
  PROVE  SUBSET S \subseteq Good
<1> DEFINE F == FiniteSubsetsOf(S)
           R == StrictSubsetOrdering(S)
           Bad == {T \in F : T \notin Good}
<1>1. IsWellFoundedOn(R, F)
  BY FS_StrictSubsetOrderingWellFounded
<1>2. F = SUBSET S
  BY FS_FiniteSubsetsOfFinite
<1>3. SUFFICES ASSUME Bad # {} PROVE FALSE
  BY <1>2
<1>4. Bad \subseteq F
  OBVIOUS
<1> HIDE DEF F, R
<1>5. PICK T \in Bad : \A U \in Bad : ~(<<U, T>> \in R)
  <2> HIDE DEF Bad
  <2> QED
    BY <1>1, <1>3, <1>4, WFMin
<1> USE DEF R
<1>6. ASSUME NEW U \in SUBSET T, U # T PROVE U \in Good
  <2>1. U \in SUBSET S /\ T \in SUBSET S
    BY <1>2
  <2>2. <<U, T>> \in R
    BY <1>6, <2>1 DEF StrictSubsetOrdering
  <2>3. U \notin Bad
    BY <1>5, <2>2
  <2> QED
    BY <1>2, <2>1, <2>3
<1> QED
  BY <1>2, <1>6

\* A finite set of numbers has a smallest one.
LEMMA FiniteMin ==
  ASSUME NEW S, IsFiniteSet(S), S \subseteq Int, S # {}
  PROVE  \E m \in S : \A y \in S : m <= y
<1> DEFINE Good == {T \in SUBSET S : T = {} \/ \E m \in T : \A y \in T : m <= y}
<1>1. ASSUME NEW T \in SUBSET S, \A U \in SUBSET T : U # T => U \in Good
      PROVE  T \in Good
  <2>1. CASE T = {}
    BY <2>1
  <2>2. CASE T # {}
    <3>1. PICK x \in T : TRUE
      BY <2>2
    <3> DEFINE U == T \ {x}
    <3>2. U \in SUBSET T /\ U # T
      BY <3>1
    <3>3. U \in Good
      BY <1>1, <3>2
    <3>4. x \in Int /\ \A y \in T : y = x \/ y \in U
      BY <3>1, <3>2
    <3>5. CASE U = {}
      BY <3>1, <3>4, <3>5
    <3>6. CASE U # {}
      <4>1. PICK m \in U : \A y \in U : m <= y
        BY <3>3, <3>6
      <4>2. m \in Int /\ m \in T /\ U \subseteq Int
        BY <3>2, <4>1
      <4>3. CASE m <= x
        BY <3>4, <4>1, <4>2, <4>3
      <4>4. CASE ~(m <= x)
        <5>1. \A y \in T : x <= y
          BY <3>4, <4>1, <4>2, <4>4
        <5> QED
          BY <3>1, <5>1
      <4> QED
        BY <4>3, <4>4
    <3> QED
      BY <3>5, <3>6
  <2> QED
    BY <2>1, <2>2
<1>2. SUBSET S \subseteq Good
  <2> HIDE DEF Good
  <2> QED
    BY <1>1, SubsetInduction
<1> QED
  BY <1>2

\* Min of numbers between bounds.
LEMMA MinOfBounded ==
  ASSUME NEW a \in Int, NEW b \in Int, NEW S \in SUBSET (a .. b), S # {}
  PROVE  Min(S) \in S /\ \A y \in S : Min(S) <= y
<1>1. IsFiniteSet(S)
  <2>1. IsFiniteSet(a .. b)
    BY FS_Interval
  <2> QED
    BY <2>1, FS_Subset
<1>2. S \subseteq Int
  OBVIOUS
<1>3. \E m \in S : \A y \in S : m <= y
  BY <1>1, <1>2, FiniteMin
<1> QED
  BY <1>3 DEF Min

\* Max of numbers between bounds.
LEMMA MaxOfBounded ==
  ASSUME NEW a \in Int, NEW b \in Int, NEW S \in SUBSET (a .. b), S # {}
  PROVE  Max(S) \in S /\ \A y \in S : y <= Max(S)
<1> DEFINE T == {a + b - s : s \in S}
<1>1. \A s \in S : s \in Int /\ a + b - s \in a .. b
  OBVIOUS
<1>2. T \in SUBSET (a .. b) /\ T # {}
  BY <1>1
<1>3. PICK t \in T : \A u \in T : t <= u
  <2> HIDE DEF T
  <2> QED
    BY <1>2, MinOfBounded
<1>4. PICK m \in S : t = a + b - m
  BY <1>3
<1>5. ASSUME NEW y \in S PROVE m >= y
  <2>1. t <= a + b - y
    BY <1>3
  <2> QED
    BY <1>1, <1>4, <2>1
<1>6. \E x \in S : \A y \in S : x >= y
  BY <1>5
<1>7. Max(S) \in S /\ \A y \in S : Max(S) >= y
  BY <1>6 DEF Max
<1> QED
  BY <1>1, <1>7

\* A set that holds the first number of an interval, and with each the next
\* one, holds the interval.
LEMMA IntervalInduction ==
  ASSUME NEW a \in Int, NEW b \in Int, NEW Good,
         a <= b => a \in Good,
         \A n \in a .. b - 1 : n \in Good => n + 1 \in Good
  PROVE  a .. b \subseteq Good
<1> DEFINE Bad == {n \in a .. b : n \notin Good}
<1>1. SUFFICES ASSUME Bad # {} PROVE FALSE
  OBVIOUS
<1>2. PICK m \in Bad : \A y \in Bad : m <= y
  <2>1. Bad \in SUBSET (a .. b)
    OBVIOUS
  <2> HIDE DEF Bad
  <2> QED
    BY <1>1, <2>1, MinOfBounded
<1>3. m \in a .. b /\ m # a
  BY <1>2
<1>4. m - 1 \in a .. b - 1 /\ m - 1 \notin Bad
  BY <1>2, <1>3
<1>5. m - 1 \in Good /\ (m - 1) + 1 = m
  BY <1>3, <1>4
<1> QED
  BY <1>2, <1>4, <1>5

-----------------------------------------------------------------------------
(***************************************************************************)
(* Sums.  The order in which the library's fold takes its elements is that *)
(* of Any; SumRemove shows that it does not matter.                        *)
(***************************************************************************)

Any(S) == CHOOSE x \in S : TRUE

\* What the library's fold computes, as a function of the subsets in D.
IsFold(g, f, D) ==
  g = [s \in D |-> IF s = {} THEN 0 ELSE f[Any(s)] + g[s \ {Any(s)}]]

\* The sum is the value of such a function.
LEMMA SumIsFold ==
  ASSUME NEW f, NEW S
  PROVE  SumFunctionOnSet(f, S) = (CHOOSE g : IsFold(g, f, SUBSET S))[S]
BY Zenon DEF SumFunctionOnSet, FoldFunctionOnSet, MapThenFoldSet, IsFold, Any

\* Two such functions agree.
LEMMA FoldsAgree ==
  ASSUME NEW f, NEW S, IsFiniteSet(S), NEW g, NEW h,
         IsFold(g, f, SUBSET S), IsFold(h, f, SUBSET S)
  PROVE  \A T \in SUBSET S : g[T] = h[T]
<1> DEFINE Good == {T \in SUBSET S : g[T] = h[T]}
<1>1. ASSUME NEW T \in SUBSET S, \A U \in SUBSET T : U # T => U \in Good
      PROVE  T \in Good
  <2>1. CASE T = {}
    BY <2>1 DEF IsFold
  <2>2. CASE T # {}
    <3>1. PICK x \in T : x = Any(T)
      BY <2>2 DEF Any
    <3> DEFINE U == T \ {x}
    <3>2. U \in SUBSET T /\ U # T /\ U \in SUBSET S
      BY <3>1
    <3>3. g[U] = h[U]
      BY <1>1, <3>2
    <3>4. g[T] = f[x] + g[U]
      BY <2>2, <3>1, <3>2 DEF IsFold
    <3>5. h[T] = f[x] + h[U]
      BY <2>2, <3>1, <3>2 DEF IsFold
    <3> QED
      BY <3>3, <3>4, <3>5
  <2> QED
    BY <2>1, <2>2
<1>2. SUBSET S \subseteq Good
  <2> HIDE DEF Good
  <2> QED
    BY <1>1, SubsetInduction
<1> QED
  BY <1>2

\* The fold's own equation, at one set.
SumEquation(f, T) ==
  SumFunctionOnSet(f, T) =
    IF T = {} THEN 0 ELSE f[Any(T)] + SumFunctionOnSet(f, T \ {Any(T)})

\* It holds at a set when it holds at the set's proper subsets: from their
\* sums one obtains a function that is the fold, and so the fold exists.
LEMMA SumEquationStep ==
  ASSUME NEW f, NEW T, IsFiniteSet(T),
         \A U \in SUBSET T : U # T => SumEquation(f, U)
  PROVE  SumEquation(f, T)
<1> DEFINE Sum(s) == SumFunctionOnSet(f, s)
           g == [s \in SUBSET T |->
                   IF s = {} THEN 0 ELSE f[Any(s)] + Sum(s \ {Any(s)})]
<1>1. ASSUME NEW s \in SUBSET T, s # {}
      PROVE  g[s \ {Any(s)}] = Sum(s \ {Any(s)})
  <2>1. PICK x \in s : x = Any(s)
    BY <1>1 DEF Any
  <2> DEFINE U == s \ {x}
  <2>2. U \in SUBSET T /\ U # T
    BY <2>1
  <2>3. SumEquation(f, U)
    BY <2>2
  <2>4. g[U] = Sum(U)
    BY <2>2, <2>3 DEF SumEquation
  <2> QED
    BY <2>1, <2>2, <2>4
<1>2. IsFold(g, f, SUBSET T)
  BY <1>1 DEF IsFold
<1>3. PICK h : h = CHOOSE k : IsFold(k, f, SUBSET T)
  OBVIOUS
<1>4. IsFold(h, f, SUBSET T)
  <2> HIDE DEF g
  <2> QED
    BY <1>2, <1>3
<1>5. Sum(T) = h[T]
  BY <1>3, SumIsFold
<1>6. h[T] = g[T]
  <2> HIDE DEF g
  <2>1. T \in SUBSET T
    OBVIOUS
  <2> QED
    BY <1>2, <1>4, <2>1, FoldsAgree
<1>7. g[T] = IF T = {} THEN 0 ELSE f[Any(T)] + Sum(T \ {Any(T)})
  OBVIOUS
<1> QED
  BY <1>5, <1>6, <1>7 DEF SumEquation

\* The fold's own equation.
LEMMA SumIsEquation ==
  ASSUME NEW f, NEW S, IsFiniteSet(S)
  PROVE  SumEquation(f, S)
<1> DEFINE Good == {T \in SUBSET S : SumEquation(f, T)}
<1>1. ASSUME NEW T \in SUBSET S, \A U \in SUBSET T : U # T => U \in Good
      PROVE  T \in Good
  <2>1. IsFiniteSet(T)
    BY FS_Subset
  <2>2. \A U \in SUBSET T : U # T => SumEquation(f, U)
    BY <1>1
  <2> QED
    BY <2>1, <2>2, SumEquationStep
<1>2. SUBSET S \subseteq Good
  <2> HIDE DEF Good
  <2> QED
    BY <1>1, SubsetInduction
<1> QED
  BY <1>2

\* The sum over the empty set is 0; over any other it is Any's value and the
\* sum of the rest.
LEMMA SumOfAny ==
  ASSUME NEW f, NEW S, IsFiniteSet(S)
  PROVE  /\ S = {} => SumFunctionOnSet(f, S) = 0
         /\ S # {} => /\ Any(S) \in S
                      /\ SumFunctionOnSet(f, S)
                           = f[Any(S)] + SumFunctionOnSet(f, S \ {Any(S)})
<1>1. SumEquation(f, S)
  BY SumIsEquation
<1>2. S # {} => Any(S) \in S
  BY DEF Any
<1> QED
  BY <1>1, <1>2 DEF SumEquation

LEMMA SumEmpty == ASSUME NEW f PROVE SumFunctionOnSet(f, {}) = 0
BY SumOfAny, FS_EmptySet

\* A sum of naturals is one.
LEMMA SumType ==
  ASSUME NEW S, IsFiniteSet(S), NEW f, \A x \in S : f[x] \in Nat
  PROVE  SumFunctionOnSet(f, S) \in Nat
<1> DEFINE Sum(s) == SumFunctionOnSet(f, s)
           Good == {T \in SUBSET S : Sum(T) \in Nat}
<1>1. ASSUME NEW T \in SUBSET S, \A U \in SUBSET T : U # T => U \in Good
      PROVE  T \in Good
  <2>1. IsFiniteSet(T)
    BY FS_Subset
  <2>2. T = {} => Sum(T) = 0
    BY <2>1, SumOfAny
  <2>3. CASE T # {}
    <3>1. PICK x \in T : Sum(T) = f[x] + Sum(T \ {x})
      BY <2>1, <2>3, SumOfAny
    <3>2. (T \ {x}) \in SUBSET T /\ (T \ {x}) # T
      OBVIOUS
    <3>3. Sum(T \ {x}) \in Nat
      BY <1>1, <3>2
    <3> HIDE DEF Sum
    <3> QED
      BY <3>1, <3>3
  <2> QED
    BY <2>2, <2>3
<1>2. SUBSET S \subseteq Good
  <2> HIDE DEF Good
  <2> QED
    BY <1>1, SubsetInduction
<1> QED
  BY <1>2

\* Any member may be taken first.
LEMMA SumRemove ==
  ASSUME NEW S, IsFiniteSet(S), NEW f, \A x \in S : f[x] \in Nat, NEW e \in S
  PROVE  SumFunctionOnSet(f, S) = f[e] + SumFunctionOnSet(f, S \ {e})
<1> DEFINE Sum(s) == SumFunctionOnSet(f, s)
           Good == {T \in SUBSET S : \A x \in T : Sum(T) = f[x] + Sum(T \ {x})}
<1>1. \A T \in SUBSET S : Sum(T) \in Nat
  <2> SUFFICES ASSUME NEW T \in SUBSET S PROVE Sum(T) \in Nat
    OBVIOUS
  <2>1. IsFiniteSet(T) /\ \A x \in T : f[x] \in Nat
    BY FS_Subset
  <2> QED
    BY <2>1, SumType
<1>2. ASSUME NEW T \in SUBSET S, \A U \in SUBSET T : U # T => U \in Good
      PROVE  T \in Good
  <2> SUFFICES ASSUME NEW x \in T PROVE Sum(T) = f[x] + Sum(T \ {x})
    OBVIOUS
  <2>1. IsFiniteSet(T)
    BY FS_Subset
  <2>2. PICK y \in T : Sum(T) = f[y] + Sum(T \ {y})
    BY <2>1, SumOfAny
  <2>3. CASE x = y
    BY <2>2, <2>3
  <2>4. CASE x # y
    <3>1. /\ (T \ {x}) \in SUBSET T /\ (T \ {x}) # T
          /\ (T \ {y}) \in SUBSET T /\ (T \ {y}) # T
      OBVIOUS
    <3>2. (T \ {x}) \in Good /\ (T \ {y}) \in Good
      BY <1>2, <3>1
    <3>3. y \in T \ {x} /\ x \in T \ {y}
      BY <2>4
    <3>4. Sum(T \ {x}) = f[y] + Sum((T \ {x}) \ {y})
      BY <3>2, <3>3
    <3>5. Sum(T \ {y}) = f[x] + Sum((T \ {y}) \ {x})
      BY <3>2, <3>3
    <3>6. (T \ {x}) \ {y} = (T \ {y}) \ {x}
      OBVIOUS
    <3>7. Sum((T \ {y}) \ {x}) \in Nat
      BY <1>1
    <3>8. f[x] \in Nat /\ f[y] \in Nat
      OBVIOUS
    <3> HIDE DEF Sum, Good
    <3>9. Sum(T \ {x}) = f[y] + Sum((T \ {y}) \ {x})
      BY <3>4, <3>6
    <3> QED
      BY <2>2, <3>5, <3>7, <3>8, <3>9
  <2> QED
    BY <2>3, <2>4
<1>3. SUBSET S \subseteq Good
  <2> HIDE DEF Good
  <2> QED
    BY <1>2, SubsetInduction
<1>4. S \in Good
  BY <1>3
<1> QED
  BY <1>4

\* An element may be added.
LEMMA SumAdd ==
  ASSUME NEW S, IsFiniteSet(S), NEW e, e \notin S, NEW f,
         \A x \in S \cup {e} : f[x] \in Nat
  PROVE  SumFunctionOnSet(f, S \cup {e}) = SumFunctionOnSet(f, S) + f[e]
<1>1. PICK T : T = S \cup {e}
  OBVIOUS
<1>2. IsFiniteSet(T)
  BY <1>1, FS_AddElement
<1>3. e \in T /\ T \ {e} = S /\ \A x \in T : f[x] \in Nat
  BY <1>1
<1>4. SumFunctionOnSet(f, T) = f[e] + SumFunctionOnSet(f, T \ {e})
  BY <1>2, <1>3, SumRemove
<1>5. SumFunctionOnSet(f, S) \in Nat /\ f[e] \in Nat
  BY SumType
<1> QED
  BY <1>1, <1>3, <1>4, <1>5

\* Sums of the same values are the same, and grow with them.
LEMMA SumMonotone ==
  ASSUME NEW S, IsFiniteSet(S), NEW f, NEW g,
         \A x \in S : f[x] \in Nat /\ g[x] \in Nat /\ f[x] <= g[x]
  PROVE  SumFunctionOnSet(f, S) <= SumFunctionOnSet(g, S)
<1> DEFINE F(s) == SumFunctionOnSet(f, s)
           G(s) == SumFunctionOnSet(g, s)
           Good == {T \in SUBSET S : F(T) <= G(T)}
<1>1. ASSUME NEW T \in SUBSET S, \A U \in SUBSET T : U # T => U \in Good
      PROVE  T \in Good
  <2>1. IsFiniteSet(T)
    BY FS_Subset
  <2>2. CASE T = {}
    BY <2>2, SumEmpty
  <2>3. CASE T # {}
    <3>1. PICK x \in T : TRUE
      BY <2>3
    <3>2. PICK U : U = T \ {x}
      OBVIOUS
    <3>3. U \in SUBSET T /\ U # T /\ U \in SUBSET S
      BY <3>1, <3>2
    <3>4. IsFiniteSet(U)
      BY <3>3, FS_Subset
    <3>5. F(T) = f[x] + F(U) /\ F(U) \in Nat
      <4>1. \A y \in T : f[y] \in Nat
        OBVIOUS
      <4>2. F(T) = f[x] + F(T \ {x})
        BY <2>1, <4>1, SumRemove
      <4>3. F(U) \in Nat
        BY <3>3, <3>4, <4>1, SumType
      <4> QED
        BY <3>2, <4>2, <4>3
    <3>6. G(T) = g[x] + G(U) /\ G(U) \in Nat
      <4>1. \A y \in T : g[y] \in Nat
        OBVIOUS
      <4>2. G(T) = g[x] + G(T \ {x})
        BY <2>1, <4>1, SumRemove
      <4>3. G(U) \in Nat
        BY <3>3, <3>4, <4>1, SumType
      <4> QED
        BY <3>2, <4>2, <4>3
    <3>7. F(U) <= G(U)
      BY <1>1, <3>3
    <3>8. f[x] \in Nat /\ g[x] \in Nat /\ f[x] <= g[x]
      OBVIOUS
    <3> HIDE DEF F, G
    <3> QED
      BY <3>5, <3>6, <3>7, <3>8
  <2> QED
    BY <2>2, <2>3
<1>2. SUBSET S \subseteq Good
  <2> HIDE DEF Good
  <2> QED
    BY <1>1, SubsetInduction
<1> QED
  BY <1>2

LEMMA SumEqual ==
  ASSUME NEW S, IsFiniteSet(S), NEW f, NEW g,
         \A x \in S : f[x] \in Nat /\ g[x] = f[x]
  PROVE  SumFunctionOnSet(f, S) = SumFunctionOnSet(g, S)
<1>1. \A x \in S : /\ f[x] \in Nat /\ g[x] \in Nat
                   /\ f[x] <= g[x] /\ g[x] <= f[x]
  OBVIOUS
<1>2. SumFunctionOnSet(f, S) <= SumFunctionOnSet(g, S)
  BY <1>1, SumMonotone
<1>3. SumFunctionOnSet(g, S) <= SumFunctionOnSet(f, S)
  BY <1>1, SumMonotone
<1>4. SumFunctionOnSet(f, S) \in Nat /\ SumFunctionOnSet(g, S) \in Nat
  BY <1>1, SumType
<1> QED
  BY <1>2, <1>3, <1>4

\* A set may be taken in two parts.
LEMMA SumSplit ==
  ASSUME NEW S, IsFiniteSet(S), NEW f, \A x \in S : f[x] \in Nat,
         NEW A, NEW B, A \cup B = S, A \cap B = {}
  PROVE  SumFunctionOnSet(f, S)
           = SumFunctionOnSet(f, A) + SumFunctionOnSet(f, B)
<1> DEFINE Sum(s) == SumFunctionOnSet(f, s)
           Good == {T \in SUBSET S : Sum(T) = Sum(T \cap A) + Sum(T \cap B)}
<1>1. \A T \in SUBSET S : Sum(T) \in Nat
  <2> SUFFICES ASSUME NEW T \in SUBSET S PROVE Sum(T) \in Nat
    OBVIOUS
  <2>1. IsFiniteSet(T) /\ \A x \in T : f[x] \in Nat
    BY FS_Subset
  <2> QED
    BY <2>1, SumType
<1>2. \A T \in SUBSET S : \A x \in T : Sum(T) = f[x] + Sum(T \ {x})
  <2> SUFFICES ASSUME NEW T \in SUBSET S, NEW x \in T
               PROVE  Sum(T) = f[x] + Sum(T \ {x})
    OBVIOUS
  <2>1. IsFiniteSet(T) /\ \A y \in T : f[y] \in Nat
    BY FS_Subset
  <2> QED
    BY <2>1, SumRemove
<1>3. ASSUME NEW T \in SUBSET S, \A U \in SUBSET T : U # T => U \in Good
      PROVE  T \in Good
  <2>1. CASE T = {}
    <3>1. T \cap A = {} /\ T \cap B = {}
      BY <2>1
    <3> QED
      BY <2>1, <3>1, SumEmpty
  <2>2. CASE T # {}
    <3>1. PICK x \in T : TRUE
      BY <2>2
    <3>2. PICK U : U = T \ {x}
      OBVIOUS
    <3>3. U \in SUBSET T /\ U # T /\ U \in SUBSET S
      BY <3>1, <3>2
    <3>4. Sum(U) = Sum(U \cap A) + Sum(U \cap B)
      BY <1>3, <3>3
    <3>5. Sum(T) = f[x] + Sum(U) /\ f[x] \in Nat
      BY <1>2, <3>2
    <3>6. Sum(U) \in Nat /\ Sum(U \cap A) \in Nat /\ Sum(U \cap B) \in Nat
      BY <1>1, <3>3
    <3>7. CASE x \in A
      <4>1. T \cap B = U \cap B /\ U \cap A = (T \cap A) \ {x}
        BY <3>2, <3>7
      <4>2. Sum(T \cap A) = f[x] + Sum((T \cap A) \ {x})
        <5>1. (T \cap A) \in SUBSET S /\ x \in T \cap A
          BY <3>7
        <5> QED
          BY <1>2, <5>1
      <4>3. /\ Sum(T \cap A) = f[x] + Sum(U \cap A)
            /\ Sum(T \cap B) = Sum(U \cap B)
        BY <4>1, <4>2
      <4> HIDE DEF Sum
      <4> QED
        BY <3>4, <3>5, <3>6, <4>3
    <3>8. CASE x \in B
      <4>1. T \cap A = U \cap A /\ U \cap B = (T \cap B) \ {x}
        BY <3>2, <3>8
      <4>2. Sum(T \cap B) = f[x] + Sum((T \cap B) \ {x})
        <5>1. (T \cap B) \in SUBSET S /\ x \in T \cap B
          BY <3>8
        <5> QED
          BY <1>2, <5>1
      <4>3. /\ Sum(T \cap B) = f[x] + Sum(U \cap B)
            /\ Sum(T \cap A) = Sum(U \cap A)
        BY <4>1, <4>2
      <4> HIDE DEF Sum
      <4> QED
        BY <3>4, <3>5, <3>6, <4>3
    <3> QED
      BY <3>7, <3>8
  <2> QED
    BY <2>1, <2>2
<1>4. SUBSET S \subseteq Good
  <2> HIDE DEF Good
  <2> QED
    BY <1>3, SubsetInduction
<1>5. S \in Good /\ S \cap A = A /\ S \cap B = B
  BY <1>4
<1> QED
  BY <1>5

\* A part sums to no more than the whole.
LEMMA SumOfPart ==
  ASSUME NEW S, IsFiniteSet(S), NEW f, \A x \in S : f[x] \in Nat,
         NEW T \in SUBSET S
  PROVE  SumFunctionOnSet(f, T) <= SumFunctionOnSet(f, S)
<1>1. PICK B : B = S \ T
  OBVIOUS
<1>2. B \in SUBSET S /\ T \cup B = S /\ T \cap B = {}
  BY <1>1
<1>3. IsFiniteSet(T) /\ IsFiniteSet(B)
  BY <1>2, FS_Subset
<1>4. SumFunctionOnSet(f, T) \in Nat /\ SumFunctionOnSet(f, B) \in Nat
  BY <1>2, <1>3, SumType
<1>5. SumFunctionOnSet(f, S) = SumFunctionOnSet(f, T) + SumFunctionOnSet(f, B)
  BY <1>2, SumSplit
<1> QED
  BY <1>4, <1>5

\* No value exceeds the sum.
LEMMA SumBoundsValue ==
  ASSUME NEW S, IsFiniteSet(S), NEW f, \A x \in S : f[x] \in Nat, NEW e \in S
  PROVE  f[e] <= SumFunctionOnSet(f, S)
<1>1. SumFunctionOnSet(f, S) = f[e] + SumFunctionOnSet(f, S \ {e})
  BY SumRemove
<1>2. IsFiniteSet(S \ {e}) /\ \A x \in S \ {e} : f[x] \in Nat
  BY FS_RemoveElement
<1>3. SumFunctionOnSet(f, S \ {e}) \in Nat
  BY <1>2, SumType
<1> QED
  BY <1>1, <1>3

\* Zeroes sum to 0.
LEMMA SumOfZeroes ==
  ASSUME NEW S, IsFiniteSet(S), NEW f, \A x \in S : f[x] = 0
  PROVE  SumFunctionOnSet(f, S) = 0
<1> DEFINE Sum(s) == SumFunctionOnSet(f, s)
           Good == {T \in SUBSET S : Sum(T) = 0}
<1>1. ASSUME NEW T \in SUBSET S, \A U \in SUBSET T : U # T => U \in Good
      PROVE  T \in Good
  <2>1. IsFiniteSet(T)
    BY FS_Subset
  <2>2. T = {} => Sum(T) = 0
    BY SumEmpty
  <2>3. CASE T # {}
    <3>1. PICK x \in T : Sum(T) = f[x] + Sum(T \ {x})
      BY <2>1, <2>3, SumOfAny
    <3>2. (T \ {x}) \in SUBSET T /\ (T \ {x}) # T
      OBVIOUS
    <3>3. Sum(T \ {x}) = 0 /\ f[x] = 0
      BY <1>1, <3>2
    <3> HIDE DEF Sum
    <3> QED
      BY <3>1, <3>3
  <2> QED
    BY <2>2, <2>3
<1>2. SUBSET S \subseteq Good
  <2> HIDE DEF Good
  <2> QED
    BY <1>1, SubsetInduction
<1> QED
  BY <1>2

\* Sums add.
LEMMA SumPlus ==
  ASSUME NEW S, IsFiniteSet(S), NEW f, NEW g, NEW h,
         \A x \in S : f[x] \in Nat /\ g[x] \in Nat /\ h[x] = f[x] + g[x]
  PROVE  SumFunctionOnSet(h, S)
           = SumFunctionOnSet(f, S) + SumFunctionOnSet(g, S)
<1> DEFINE F(s) == SumFunctionOnSet(f, s)
           G(s) == SumFunctionOnSet(g, s)
           H(s) == SumFunctionOnSet(h, s)
           Good == {T \in SUBSET S : H(T) = F(T) + G(T)}
<1>1. ASSUME NEW T \in SUBSET S, \A U \in SUBSET T : U # T => U \in Good
      PROVE  T \in Good
  <2>1. IsFiniteSet(T)
    BY FS_Subset
  <2>2. CASE T = {}
    BY <2>2, SumEmpty
  <2>3. CASE T # {}
    <3>1. PICK x \in T : TRUE
      BY <2>3
    <3>2. PICK U : U = T \ {x}
      OBVIOUS
    <3>3. U \in SUBSET T /\ U # T /\ U \in SUBSET S
      BY <3>1, <3>2
    <3>4. IsFiniteSet(U)
      BY <3>3, FS_Subset
    <3>5. \A y \in T : f[y] \in Nat /\ g[y] \in Nat /\ h[y] \in Nat
      OBVIOUS
    <3>6. F(T) = f[x] + F(U)
      BY <2>1, <3>2, <3>5, SumRemove
    <3>7. G(T) = g[x] + G(U)
      BY <2>1, <3>2, <3>5, SumRemove
    <3>8. H(T) = h[x] + H(U)
      BY <2>1, <3>2, <3>5, SumRemove
    <3>9. F(U) \in Nat /\ G(U) \in Nat
      BY <3>3, <3>4, <3>5, SumType
    <3>10. H(U) = F(U) + G(U)
      BY <1>1, <3>3
    <3>11. f[x] \in Nat /\ g[x] \in Nat /\ h[x] = f[x] + g[x]
      OBVIOUS
    <3> HIDE DEF F, G, H
    <3> QED
      BY <3>6, <3>7, <3>8, <3>9, <3>10, <3>11
  <2> QED
    BY <2>2, <2>3
<1>2. SUBSET S \subseteq Good
  <2> HIDE DEF Good
  <2> QED
    BY <1>1, SubsetInduction
<1> QED
  BY <1>2

\* Raising one value by one raises the sums it is part of.
LEMMA SumRaised ==
  ASSUME NEW S, IsFiniteSet(S), NEW e, NEW f, NEW g,
         \A x \in S : /\ f[x] \in Nat
                      /\ g[x] = f[x] + (IF x = e THEN 1 ELSE 0)
  PROVE  SumFunctionOnSet(g, S)
           = SumFunctionOnSet(f, S) + (IF e \in S THEN 1 ELSE 0)
<1>1. /\ \A x \in S : f[x] \in Nat /\ g[x] \in Nat
      /\ \A x \in S \ {e} : f[x] = g[x]
      /\ e \in S => g[e] = f[e] + 1
  OBVIOUS
<1>2. CASE e \notin S
  <2>1. \A x \in S : f[x] \in Nat /\ g[x] = f[x]
    BY <1>1, <1>2
  <2>2. SumFunctionOnSet(f, S) = SumFunctionOnSet(g, S)
    BY <2>1, SumEqual
  <2>3. SumFunctionOnSet(f, S) \in Nat
    BY <2>1, SumType
  <2> QED
    BY <1>2, <2>2, <2>3
<1>3. CASE e \in S
  <2>1. IsFiniteSet(S \ {e})
    BY FS_RemoveElement
  <2>2. SumFunctionOnSet(f, S \ {e}) = SumFunctionOnSet(g, S \ {e})
    <3>1. \A x \in S \ {e} : f[x] \in Nat /\ g[x] = f[x]
      BY <1>1
    <3> QED
      BY <2>1, <3>1, SumEqual
  <2>3. SumFunctionOnSet(f, S \ {e}) \in Nat
    BY <1>1, <2>1, SumType
  <2>4. SumFunctionOnSet(f, S) = f[e] + SumFunctionOnSet(f, S \ {e})
    BY <1>1, <1>3, SumRemove
  <2>5. SumFunctionOnSet(g, S) = g[e] + SumFunctionOnSet(g, S \ {e})
    BY <1>1, <1>3, SumRemove
  <2>6. f[e] \in Nat /\ g[e] = f[e] + 1
    BY <1>1, <1>3
  <2> QED
    BY <1>3, <2>2, <2>3, <2>4, <2>5, <2>6
<1> QED
  BY <1>2, <1>3

-----------------------------------------------------------------------------
(***************************************************************************)
(* Buckets.  In every use of the template the last bucket ends where the   *)
(* latencies do; with fewer buckets it would also hold larger ones.        *)
(***************************************************************************)

FullRange == BucketCount = Width

\* Powers of two are numbers, and each is twice the last.
LEMMA PowerTypes ==
  /\ Width \in Nat \ {0}
  /\ \A k \in 0 .. Width : 2 ^ k \in Nat \ {0}
  /\ 2 ^ 0 = 1
  /\ \A k \in 0 .. Width - 1 : 2 ^ (k + 1) = 2 * 2 ^ k
<1>1. Width \in Nat \ {0}
  BY HistogramAssumption DEF HistogramAssumption
<1>2. \A k \in 0 .. Width : 2 ^ k \in Int
  BY <1>1
<1>3. \A k \in 0 .. Width : 2 ^ k > 0 /\ 2 ^ (k + 1) = 2 * 2 ^ k
  BY PowersOfTwo DEF PowersOfTwo
<1>4. 2 ^ 0 = 1
  OBVIOUS
<1> QED
  BY <1>1, <1>2, <1>3, <1>4

\* Powers of two are ordered as their exponents are.
LEMMA PowerOrder ==
  ASSUME NEW i \in 0 .. Width, NEW j \in i .. Width
  PROVE  2 ^ i <= 2 ^ j
<1> DEFINE Good == {n \in i .. Width : 2 ^ i <= 2 ^ n}
<1>1. Width \in Nat
  BY PowerTypes
<1>2. i <= Width => i \in Good
  <2>1. i \in Int /\ 2 ^ i \in Int
    BY <1>1, PowerTypes
  <2> QED
    BY <1>1, <2>1
<1>3. ASSUME NEW n \in i .. Width - 1, n \in Good PROVE n + 1 \in Good
  <2>1. 2 ^ n \in Nat /\ 2 ^ i \in Nat /\ 2 ^ (n + 1) = 2 * 2 ^ n
    <3>1. n \in 0 .. Width - 1 /\ n \in 0 .. Width /\ i \in 0 .. Width
      BY <1>1
    <3> QED
      BY <3>1, PowerTypes
  <2>2. 2 ^ i <= 2 ^ n
    BY <1>3
  <2>3. n + 1 \in i .. Width
    BY <1>1
  <2>4. 2 ^ i <= 2 ^ (n + 1)
    BY <2>1, <2>2
  <2> QED
    BY <2>3, <2>4
<1>4. i .. Width \subseteq Good
  <2> HIDE DEF Good
  <2>1. i \in Int /\ Width \in Int
    BY <1>1
  <2> QED
    BY <1>2, <1>3, <2>1, IntervalInduction
<1> QED
  BY <1>4

\* The constants.
LEMMA Sizes ==
  /\ BucketCount \in 1 .. Width /\ Width \in Nat \ {0}
  /\ kMaxBucket \in Indices /\ kMaxBucket \in Nat /\ 0 \in Indices
  /\ Indices = 0 .. kMaxBucket
  /\ JobCount \in Nat \ {0} /\ JobIds = 1 .. JobCount /\ 1 \in JobIds
  /\ Latencies \subseteq Nat /\ \A v \in Latencies : v <= 2 ^ Width - 1
<1>1. /\ BucketCount \in 1 .. Width /\ Width \in Nat \ {0}
      /\ JobCount \in Nat \ {0} /\ Latencies \subseteq 0 .. 2 ^ Width - 1
  BY HistogramAssumption DEF HistogramAssumption
<1>2. 2 ^ Width \in Nat
  BY PowerTypes
<1>3. Latencies \subseteq Nat /\ \A v \in Latencies : v <= 2 ^ Width - 1
  BY <1>1, <1>2
<1> QED
  BY <1>1, <1>3 DEF kMaxBucket, Indices, JobIds

\* All sets that are summed over are finite.
LEMMA FiniteDomains ==
  /\ IsFiniteSet(Latencies) /\ \A W : IsFiniteSet(Latencies \cap W)
  /\ IsFiniteSet(Indices) /\ \A i \in Int : IsFiniteSet(0 .. i)
<1>1. IsFiniteSet(0 .. 2 ^ Width - 1)
  <2>1. 2 ^ Width - 1 \in Int
    BY PowerTypes
  <2> QED
    BY <2>1, FS_Interval
<1>2. Latencies \subseteq 0 .. 2 ^ Width - 1
  BY HistogramAssumption DEF HistogramAssumption
<1>3. IsFiniteSet(Latencies)
  BY <1>1, <1>2, FS_Subset
<1>4. \A W : IsFiniteSet(Latencies \cap W)
  BY <1>3, FS_Intersection
<1>5. \A i \in Int : IsFiniteSet(0 .. i)
  BY FS_Interval
<1>6. IsFiniteSet(Indices)
  BY <1>5, Sizes
<1> QED
  BY <1>3, <1>4, <1>5, <1>6

\* Where a bucket begins and ends.
LEMMA BoundsAre ==
  ASSUME NEW i \in Indices
  PROVE  /\ BucketUpperBound(i) = 2 ^ (i + 1) - 1
         /\ BucketUpperBound(i) \in Nat \ {0}
         /\ BucketLowerBound(i) \in Nat
         /\ BucketLowerBound(i) <= BucketUpperBound(i)
         /\ i = 0 => BucketLowerBound(i) = 0 /\ BucketUpperBound(i) = 1
         /\ i # 0 => /\ BucketLowerBound(i) = 2 ^ i
                     /\ BucketUpperBound(i) = 2 * 2 ^ i - 1
                     /\ i - 1 \in Indices
                     /\ BucketLowerBound(i) = BucketUpperBound(i - 1) + 1
<1>1. /\ i \in 0 .. Width - 1 /\ i + 1 \in 0 .. Width /\ i \in Nat
      /\ Width \in Nat \ {0}
  BY Sizes DEF Indices
<1>2. BucketUpperBound(i) = 2 ^ (i + 1) - 1
  <2>1. i >= Width - 1 => i + 1 = Width
    BY <1>1
  <2> QED
    BY <2>1 DEF BucketUpperBound
<1>3. 2 ^ i \in Nat \ {0} /\ 2 ^ (i + 1) = 2 * 2 ^ i /\ 2 ^ 0 = 1
  <2>1. i \in 0 .. Width
    BY <1>1
  <2> QED
    BY <1>1, <2>1, PowerTypes
<1>4. BucketUpperBound(i) \in Nat \ {0}
  BY <1>2, <1>3
<1>5. CASE i = 0
  <2>1. BucketLowerBound(i) = 0
    BY <1>5 DEF BucketLowerBound
  <2>2. BucketUpperBound(i) = 1
    BY <1>2, <1>3, <1>5
  <2> QED
    BY <1>2, <1>4, <1>5, <2>1, <2>2
<1>6. CASE i # 0
  <2>1. BucketLowerBound(i) = 2 ^ i
    BY <1>6 DEF BucketLowerBound
  <2>2. BucketUpperBound(i) = 2 * 2 ^ i - 1
    BY <1>2, <1>3
  <2>3. i - 1 \in Indices /\ (i - 1) + 1 = i /\ ~(i - 1 >= Width - 1)
    BY <1>1, <1>6, Sizes DEF Indices
  <2>4. BucketUpperBound(i - 1) = 2 ^ i - 1
    BY <2>3 DEF BucketUpperBound
  <2>5. BucketLowerBound(i) = BucketUpperBound(i - 1) + 1
    BY <1>3, <2>1, <2>4
  <2>6. /\ BucketLowerBound(i) \in Nat
        /\ BucketLowerBound(i) <= BucketUpperBound(i)
    BY <1>3, <2>1, <2>2
  <2> QED
    BY <1>2, <1>4, <1>6, <2>1, <2>2, <2>3, <2>5, <2>6
<1> QED
  BY <1>5, <1>6

\* A later bucket ends and begins later.
LEMMA BoundsGrow ==
  ASSUME NEW i \in Indices, NEW j \in Indices, i <= j
  PROVE  /\ BucketUpperBound(i) <= BucketUpperBound(j)
         /\ i < j => BucketUpperBound(i) < BucketLowerBound(j)
<1>1. i \in Nat /\ j \in Nat /\ i < Width /\ j < Width /\ Width \in Nat
  BY Sizes DEF Indices
<1>2. /\ BucketUpperBound(i) = 2 ^ (i + 1) - 1
      /\ BucketUpperBound(j) = 2 ^ (j + 1) - 1
      /\ j # 0 => BucketLowerBound(j) = 2 ^ j
  BY BoundsAre
<1>3. 2 ^ (i + 1) \in Nat /\ 2 ^ (j + 1) \in Nat /\ 2 ^ j \in Nat
  <2>1. i + 1 \in 0 .. Width /\ j + 1 \in 0 .. Width /\ j \in 0 .. Width
    BY <1>1
  <2> QED
    BY <2>1, PowerTypes
<1>4. 2 ^ (i + 1) <= 2 ^ (j + 1)
  <2>1. i + 1 \in 0 .. Width /\ j + 1 \in i + 1 .. Width
    BY <1>1
  <2> QED
    BY <2>1, PowerOrder
<1>5. ASSUME i < j PROVE 2 ^ (i + 1) <= 2 ^ j /\ j # 0
  <2>1. i + 1 \in 0 .. Width /\ j \in i + 1 .. Width /\ j # 0
    BY <1>1, <1>5
  <2> QED
    BY <2>1, PowerOrder
<1> QED
  BY <1>2, <1>3, <1>4, <1>5

\* The latencies of a bucket.
Span(i) == BucketLowerBound(i) .. BucketUpperBound(i)

\* The highest bit of an odd number of Width bits.
LEMMA HighestBitIs ==
  ASSUME NEW odd \in Nat \ {0}, odd <= 2 ^ Width - 1
  PROVE  \E k \in 0 .. Width - 1 : odd \in 2 ^ k .. 2 ^ (k + 1) - 1
<1> DEFINE K == {k \in 0 .. Width - 1 : odd <= 2 ^ (k + 1) - 1}
<1>1. Width \in Nat \ {0} /\ 2 ^ 0 = 1
  BY PowerTypes
<1>2. \A k \in 0 .. Width - 1 : 2 ^ k \in Nat /\ 2 ^ (k + 1) \in Nat
  <2>1. \A k \in 0 .. Width - 1 : k \in 0 .. Width /\ k + 1 \in 0 .. Width
    BY <1>1
  <2> QED
    BY <2>1, PowerTypes
<1>3. K \in SUBSET (0 .. Width - 1) /\ Width - 1 \in K
  <2>1. Width - 1 \in 0 .. Width - 1 /\ (Width - 1) + 1 = Width
    BY <1>1
  <2> QED
    BY <2>1
<1>4. PICK k \in K : \A m \in K : k <= m
  <2> HIDE DEF K
  <2>1. K # {} /\ 0 \in Int /\ Width - 1 \in Int
    BY <1>1, <1>3
  <2> QED
    BY <1>3, <2>1, MinOfBounded
<1>5. k \in 0 .. Width - 1 /\ odd <= 2 ^ (k + 1) - 1
  OBVIOUS
<1>6. 2 ^ k <= odd
  <2>1. CASE k = 0
    BY <1>1, <2>1
  <2>2. CASE k # 0
    <3>1. k - 1 \in 0 .. Width - 1 /\ k - 1 \notin K /\ (k - 1) + 1 = k
      BY <1>1, <1>4, <2>2
    <3>2. ~(odd <= 2 ^ k - 1)
      BY <3>1
    <3> QED
      BY <1>2, <1>5, <3>2
  <2> QED
    BY <2>1, <2>2
<1>7. 2 ^ k \in Nat /\ 2 ^ (k + 1) \in Nat
  BY <1>2, <1>5
<1>8. odd \in 2 ^ k .. 2 ^ (k + 1) - 1
  BY <1>5, <1>6, <1>7
<1> QED
  BY <1>5, <1>8

\* The smaller of two numbers, and the larger.
LEMMA MinOfTwo ==
  ASSUME NEW a \in Int, NEW b \in Int
  PROVE  Min({a, b}) = IF a <= b THEN a ELSE b
<1>1. \A m : m = Min({a, b}) => m = IF a <= b THEN a ELSE b
  <2> SUFFICES ASSUME NEW m, m = Min({a, b}) PROVE m = IF a <= b THEN a ELSE b
    OBVIOUS
  <2>1. \E x \in {a, b} : \A y \in {a, b} : x <= y
    OBVIOUS
  <2>2. m \in {a, b} /\ \A y \in {a, b} : m <= y
    BY <2>1 DEF Min
  <2> QED
    BY <2>2
<1> QED
  BY <1>1

LEMMA MaxOfTwo ==
  ASSUME NEW a \in Int, NEW b \in Int
  PROVE  Max({a, b}) = IF a <= b THEN b ELSE a
<1>1. \A m : m = Max({a, b}) => m = IF a <= b THEN b ELSE a
  <2> SUFFICES ASSUME NEW m, m = Max({a, b}) PROVE m = IF a <= b THEN b ELSE a
    OBVIOUS
  <2>1. \E x \in {a, b} : \A y \in {a, b} : x >= y
    OBVIOUS
  <2>2. m \in {a, b} /\ \A y \in {a, b} : m >= y
    BY <2>1 DEF Max
  <2> QED
    BY <2>2
<1> QED
  BY <1>1

\* A latency lies in the span of its bucket.
LEMMA BucketOfIs ==
  ASSUME FullRange, NEW v \in Latencies
  PROVE  BucketOf(v) \in Indices /\ v \in Span(BucketOf(v))
<1>1. v \in Nat /\ v <= 2 ^ Width - 1 /\ Width \in Nat \ {0}
  BY Sizes
<1>2. PICK odd : odd = IF v % 2 = 0 THEN v + 1 ELSE v
  OBVIOUS
<1>3. /\ odd \in Nat \ {0} /\ v <= odd /\ odd <= v + 1
      /\ odd % 2 = 1 /\ (v # odd => v % 2 = 0)
  BY <1>1, <1>2
<1>4. odd <= 2 ^ Width - 1
  <2>1. Width - 1 \in 0 .. Width - 1 /\ (Width - 1) + 1 = Width
    BY <1>1
  <2>2. PICK h \in Nat : h = 2 ^ (Width - 1)
    <3>1. Width - 1 \in 0 .. Width
      BY <1>1
    <3> QED
      BY <3>1, PowerTypes
  <2>3. 2 ^ Width = 2 * h
    BY <2>1, <2>2, PowerTypes
  <2> QED
    BY <1>1, <1>3, <2>3
<1>5. PICK k : k = HighestBit(v)
  OBVIOUS
<1>6. k \in 0 .. Width - 1 /\ odd \in 2 ^ k .. 2 ^ (k + 1) - 1
  BY <1>2, <1>3, <1>4, <1>5, HighestBitIs DEF HighestBit
<1>7. k \in Indices /\ BucketOf(v) = k
  <2>1. k \in Int /\ k <= kMaxBucket /\ kMaxBucket \in Int
    BY <1>1, <1>6 DEF FullRange, kMaxBucket
  <2>2. Min({k, kMaxBucket}) = k
    BY <2>1, MinOfTwo
  <2> QED
    BY <1>5, <1>6, <2>2 DEF BucketOf, Indices, FullRange
<1>8. PICK t \in Nat \ {0} : t = 2 ^ k /\ 2 ^ (k + 1) = 2 * t
  <2>1. k \in 0 .. Width
    BY <1>1, <1>6
  <2> QED
    BY <1>6, <2>1, PowerTypes
<1>9. t <= odd /\ odd <= 2 * t - 1
  BY <1>3, <1>6, <1>8
<1>10. CASE k = 0
  <2>1. Span(k) = 0 .. 1 /\ t = 1
    BY <1>7, <1>8, <1>10, BoundsAre, PowerTypes DEF Span
  <2> QED
    BY <1>1, <1>3, <1>7, <1>9, <2>1
<1>11. CASE k # 0
  <2>1. Span(k) = t .. 2 * t - 1
    BY <1>7, <1>8, <1>11, BoundsAre DEF Span
  <2>2. PICK h \in Nat : t = 2 * h
    <3>1. k - 1 \in 0 .. Width - 1 /\ k - 1 \in 0 .. Width /\ (k - 1) + 1 = k
      BY <1>1, <1>6, <1>11
    <3>2. 2 ^ (k - 1) \in Nat /\ 2 ^ k = 2 * 2 ^ (k - 1)
      BY <3>1, PowerTypes
    <3> QED
      BY <1>8, <3>2
  <2>3. t <= v
    BY <1>1, <1>3, <1>9, <2>2
  <2> QED
    BY <1>1, <1>3, <1>7, <1>9, <2>1, <2>3
<1> QED
  BY <1>10, <1>11

\* Buckets do not overlap.
LEMMA SpansApart ==
  ASSUME NEW i \in Indices, NEW j \in Indices, NEW v \in Nat,
         v \in Span(i), v \in Span(j)
  PROVE  i = j
<1>1. i \in Int /\ j \in Int
  BY Sizes
<1>2. /\ BucketLowerBound(i) \in Nat /\ BucketUpperBound(i) \in Nat
      /\ BucketLowerBound(j) \in Nat /\ BucketUpperBound(j) \in Nat
  BY BoundsAre
<1>3. /\ BucketLowerBound(i) <= v /\ v <= BucketUpperBound(i)
      /\ BucketLowerBound(j) <= v /\ v <= BucketUpperBound(j)
  BY <1>2 DEF Span
<1>4. ~(i < j)
  <2>1. i < j => BucketUpperBound(i) < BucketLowerBound(j)
    BY <1>1, BoundsGrow
  <2> QED
    BY <1>2, <1>3, <2>1
<1>5. ~(j < i)
  <2>1. j < i => BucketUpperBound(j) < BucketLowerBound(i)
    BY <1>1, BoundsGrow
  <2> QED
    BY <1>2, <1>3, <2>1
<1> QED
  BY <1>1, <1>4, <1>5

-----------------------------------------------------------------------------
(***************************************************************************)
(* What the buckets count.                                                 *)
(***************************************************************************)

Bags == [Latencies -> Nat]
Counts == [Indices -> Nat]

\* The counts before a bucket, and with it.
Below(counts, i) == SumFunctionOnSet(counts, 0 .. i - 1)

LEMMA CountsType ==
  ASSUME NEW counts \in Counts, NEW i \in Indices
  PROVE  /\ counts[i] \in Nat /\ Below(counts, i) \in Nat
         /\ UpTo(counts, i) \in Nat
         /\ UpTo(counts, i) = Below(counts, i) + counts[i]
         /\ i = 0 => Below(counts, i) = 0
         /\ i # 0 => i - 1 \in Indices /\ Below(counts, i) = UpTo(counts, i - 1)
<1>1. i \in Nat /\ Indices = 0 .. kMaxBucket /\ kMaxBucket \in Nat
  BY Sizes
<1>2. PICK before_i : before_i = 0 .. i - 1
  OBVIOUS
<1>3. /\ before_i \cup {i} = 0 .. i /\ i \notin before_i
      /\ \A x \in before_i \cup {i} : x \in Indices
      /\ i = 0 => before_i = {}
  BY <1>1, <1>2
<1>4. IsFiniteSet(before_i)
  BY <1>1, <1>2, FS_Interval
<1>5. \A x \in before_i \cup {i} : counts[x] \in Nat
  BY <1>3 DEF Counts
<1>6. SumFunctionOnSet(counts, before_i \cup {i})
        = SumFunctionOnSet(counts, before_i) + counts[i]
  BY <1>3, <1>4, <1>5, SumAdd
<1>7. SumFunctionOnSet(counts, before_i) \in Nat /\ counts[i] \in Nat
  BY <1>4, <1>5, SumType
<1>8. UpTo(counts, i) = Below(counts, i) + counts[i]
  BY <1>2, <1>3, <1>6 DEF UpTo, Below
<1>9. Below(counts, i) \in Nat
  BY <1>2, <1>7 DEF Below
<1>10. i = 0 => Below(counts, i) = 0
  BY <1>2, <1>3, SumEmpty DEF Below
<1>11. i # 0 => i - 1 \in Indices /\ Below(counts, i) = UpTo(counts, i - 1)
  BY <1>1 DEF UpTo, Below
<1> QED
  BY <1>7, <1>8, <1>9, <1>10, <1>11

\* The counts up to the last bucket are all.
LEMMA SumOfCounts ==
  ASSUME NEW counts \in Counts
  PROVE  /\ SumFunction(counts) = UpTo(counts, kMaxBucket)
         /\ SumFunction(counts) = SumFunctionOnSet(counts, Indices)
         /\ SumFunction(counts) \in Nat
<1>1. DOMAIN counts = Indices
  BY DEF Counts
<1>2. SumFunction(counts) = SumFunctionOnSet(counts, Indices)
  BY <1>1 DEF SumFunction
<1>3. Indices = 0 .. kMaxBucket /\ kMaxBucket \in Indices
  BY Sizes
<1>4. SumFunction(counts) = UpTo(counts, kMaxBucket)
  BY <1>2, <1>3 DEF UpTo
<1> QED
  BY <1>2, <1>3, <1>4, CountsType

\* Prefixes grow along the buckets.
LEMMA UpToGrows ==
  ASSUME NEW counts \in Counts, NEW i \in Indices, NEW j \in Indices, i <= j
  PROVE  UpTo(counts, i) <= UpTo(counts, j)
<1>1. i \in Nat /\ j \in Nat /\ Indices = 0 .. kMaxBucket /\ kMaxBucket \in Nat
  BY Sizes
<1>2. PICK S : S = 0 .. j
  OBVIOUS
<1>3. PICK T : T = 0 .. i
  OBVIOUS
<1>4. IsFiniteSet(S) /\ T \in SUBSET S /\ \A x \in S : x \in Indices
  <2>1. IsFiniteSet(S)
    BY <1>1, <1>2, FS_Interval
  <2> QED
    BY <1>1, <1>2, <1>3, <2>1
<1>5. \A x \in S : counts[x] \in Nat
  BY <1>4 DEF Counts
<1>6. SumFunctionOnSet(counts, T) <= SumFunctionOnSet(counts, S)
  BY <1>4, <1>5, SumOfPart
<1> QED
  BY <1>2, <1>3, <1>6 DEF UpTo

\* Prefixes grow with the counts.
LEMMA UpToMonotone ==
  ASSUME NEW c \in Counts, NEW d \in Counts, \A i \in Indices : c[i] <= d[i],
         NEW i \in Indices
  PROVE  Below(c, i) <= Below(d, i) /\ UpTo(c, i) <= UpTo(d, i)
<1>1. i \in Nat /\ Indices = 0 .. kMaxBucket /\ kMaxBucket \in Nat
  BY Sizes
<1>2. PICK S : S = 0 .. i - 1
  OBVIOUS
<1>3. IsFiniteSet(S) /\ \A x \in S : x \in Indices
  <2>1. IsFiniteSet(S)
    BY <1>1, <1>2, FS_Interval
  <2> QED
    BY <1>1, <1>2, <2>1
<1>4. \A x \in S : c[x] \in Nat /\ d[x] \in Nat /\ c[x] <= d[x]
  BY <1>3 DEF Counts
<1>5. SumFunctionOnSet(c, S) <= SumFunctionOnSet(d, S)
  BY <1>3, <1>4, SumMonotone
<1>6. Below(c, i) <= Below(d, i)
  BY <1>2, <1>5 DEF Below
<1>7. /\ UpTo(c, i) = Below(c, i) + c[i] /\ Below(c, i) \in Nat /\ c[i] \in Nat
      /\ UpTo(d, i) = Below(d, i) + d[i] /\ Below(d, i) \in Nat /\ d[i] \in Nat
  BY CountsType
<1>8. c[i] <= d[i]
  OBVIOUS
<1> QED
  BY <1>6, <1>7, <1>8

\* Prefixes of a bucket-wise sum.
LEMMA UpToPlus ==
  ASSUME NEW c \in Counts, NEW d \in Counts, NEW e \in Counts,
         \A i \in Indices : e[i] = c[i] + d[i], NEW i \in Indices
  PROVE  UpTo(e, i) = UpTo(c, i) + UpTo(d, i)
<1>1. i \in Nat /\ Indices = 0 .. kMaxBucket /\ kMaxBucket \in Nat
  BY Sizes
<1>2. PICK S : S = 0 .. i
  OBVIOUS
<1>3. IsFiniteSet(S) /\ \A x \in S : x \in Indices
  <2>1. IsFiniteSet(S)
    BY <1>1, <1>2, FS_Interval
  <2> QED
    BY <1>1, <1>2, <2>1
<1>4. \A x \in S : c[x] \in Nat /\ d[x] \in Nat /\ e[x] = c[x] + d[x]
  BY <1>3 DEF Counts
<1>5. SumFunctionOnSet(e, S) = SumFunctionOnSet(c, S) + SumFunctionOnSet(d, S)
  BY <1>3, <1>4, SumPlus
<1> QED
  BY <1>2, <1>5 DEF UpTo

\* How a bag of latencies is counted: every latency in its bucket.
Bucketed(bag) == [i \in Indices |-> Count(bag, Span(i))]

LEMMA CountType ==
  ASSUME NEW bag \in Bags, NEW W PROVE Count(bag, W) \in Nat
<1>1. IsFiniteSet(Latencies \cap W)
  BY FiniteDomains
<1>2. \A x \in Latencies \cap W : bag[x] \in Nat
  BY DEF Bags
<1> QED
  BY <1>1, <1>2, SumType DEF Count

LEMMA BucketedType == ASSUME NEW bag \in Bags PROVE Bucketed(bag) \in Counts
BY CountType DEF Bucketed, Counts

\* Counting in two parts.
LEMMA CountSplit ==
  ASSUME NEW bag \in Bags, NEW W, NEW A, NEW B, A \cup B = W, A \cap B = {}
  PROVE  Count(bag, W) = Count(bag, A) + Count(bag, B)
<1>1. PICK S : S = Latencies \cap W
  OBVIOUS
<1>2. PICK P : P = Latencies \cap A
  OBVIOUS
<1>3. PICK Q : Q = Latencies \cap B
  OBVIOUS
<1>4. IsFiniteSet(S) /\ P \cup Q = S /\ P \cap Q = {}
  BY <1>1, <1>2, <1>3, FiniteDomains
<1>5. \A x \in S : bag[x] \in Nat
  BY <1>1 DEF Bags
<1>6. SumFunctionOnSet(bag, S)
        = SumFunctionOnSet(bag, P) + SumFunctionOnSet(bag, Q)
  BY <1>4, <1>5, SumSplit
<1> QED
  BY <1>1, <1>2, <1>3, <1>6 DEF Count

\* The buckets up to the i-th count the latencies up to its upper bound.
LEMMA BucketedUpTo ==
  ASSUME NEW bag \in Bags
  PROVE  \A i \in Indices :
           UpTo(Bucketed(bag), i) = Count(bag, 0 .. BucketUpperBound(i))
<1> DEFINE Good == {i \in Indices : UpTo(Bucketed(bag), i)
                                      = Count(bag, 0 .. BucketUpperBound(i))}
<1>1. Indices = 0 .. kMaxBucket /\ kMaxBucket \in Nat /\ 0 \in Indices
  BY Sizes
<1>2. PICK c \in Counts : c = Bucketed(bag)
  BY BucketedType
<1>3. \A i \in Indices : c[i] = Count(bag, Span(i))
  BY <1>2 DEF Bucketed
<1>4. 0 \in Good
  <2>1. Span(0) = 0 .. BucketUpperBound(0)
    BY <1>1, BoundsAre DEF Span
  <2>2. UpTo(c, 0) = c[0]
    <3>1. UpTo(c, 0) = Below(c, 0) + c[0] /\ Below(c, 0) = 0 /\ c[0] \in Nat
      BY <1>1, CountsType
    <3> QED
      BY <3>1
  <2> QED
    BY <1>1, <1>2, <1>3, <2>1, <2>2
<1>5. ASSUME NEW n \in 0 .. kMaxBucket - 1, n \in Good PROVE n + 1 \in Good
  <2>1. PICK m \in Indices : m = n + 1 /\ m # 0 /\ m - 1 = n /\ n \in Indices
    BY <1>1
  <2>2. /\ UpTo(c, m) = Below(c, m) + c[m]
        /\ Below(c, m) = UpTo(c, m - 1)
    BY <2>1, CountsType
  <2>3. UpTo(c, n) = Count(bag, 0 .. BucketUpperBound(n))
    BY <1>2, <1>5
  <2>4. /\ BucketLowerBound(m) = BucketUpperBound(n) + 1
        /\ BucketUpperBound(n) \in Nat /\ BucketUpperBound(m) \in Nat
        /\ BucketLowerBound(m) <= BucketUpperBound(m)
        /\ BucketLowerBound(m) \in Nat
    BY <2>1, BoundsAre
  <2>5. PICK A : A = 0 .. BucketUpperBound(n)
    OBVIOUS
  <2>6. PICK W : W = 0 .. BucketUpperBound(m)
    OBVIOUS
  <2>7. A \cup Span(m) = W /\ A \cap Span(m) = {}
    BY <2>4, <2>5, <2>6 DEF Span
  <2>8. Count(bag, W) = Count(bag, A) + Count(bag, Span(m))
    BY <2>7, CountSplit
  <2>9. UpTo(c, m) = Count(bag, W)
    BY <1>3, <2>1, <2>2, <2>3, <2>5, <2>8
  <2> QED
    BY <1>2, <2>1, <2>6, <2>9
<1>6. 0 .. kMaxBucket \subseteq Good
  <2> HIDE DEF Good
  <2> QED
    BY <1>1, <1>4, <1>5, IntervalInduction
<1> QED
  BY <1>1, <1>6

\* Together they count all.
LEMMA BucketedAll ==
  ASSUME FullRange, NEW bag \in Bags
  PROVE  /\ SumFunction(Bucketed(bag)) = SumFunction(bag)
         /\ SumFunction(bag) \in Nat
<1>1. PICK c \in Counts : c = Bucketed(bag)
  BY BucketedType
<1>2. SumFunction(c) = Count(bag, 0 .. BucketUpperBound(kMaxBucket))
  BY <1>1, BucketedUpTo, SumOfCounts, Sizes
<1>3. BucketUpperBound(kMaxBucket) = 2 ^ Width - 1 /\ 2 ^ Width \in Nat
  <2>1. kMaxBucket \in Indices /\ kMaxBucket + 1 = Width
    BY Sizes DEF FullRange, kMaxBucket
  <2> QED
    BY <2>1, BoundsAre, PowerTypes
<1>4. Latencies \cap (0 .. BucketUpperBound(kMaxBucket)) = Latencies
  <2>1. PICK top \in Nat : top = 2 ^ Width
    BY <1>3
  <2>2. \A v \in Latencies : v \in Nat /\ v <= top - 1
    BY <2>1, Sizes
  <2>3. \A v \in Latencies : v \in 0 .. top - 1
    BY <2>2
  <2>4. BucketUpperBound(kMaxBucket) = top - 1
    BY <1>3, <2>1
  <2> QED
    BY <2>3, <2>4
<1>5. SumFunction(bag) = SumFunctionOnSet(bag, Latencies)
  <2>1. DOMAIN bag = Latencies
    BY DEF Bags
  <2> QED
    BY <2>1 DEF SumFunction
<1>6. SumFunction(c) = SumFunction(bag)
  BY <1>2, <1>4, <1>5 DEF Count
<1> QED
  BY <1>1, <1>6, SumOfCounts

\* Recording a latency raises the count of its bucket.
LEMMA BucketedRecord ==
  ASSUME FullRange, NEW bag \in Bags, NEW v \in Latencies
  PROVE  Bucketed([bag EXCEPT ![v] = @ + 1])
           = [Bucketed(bag) EXCEPT ![BucketOf(v)] = @ + 1]
<1>1. bag \in [Latencies -> Nat]
  BY DEF Bags
<1>2. PICK new \in Bags : new = [bag EXCEPT ![v] = @ + 1]
  <2>1. [bag EXCEPT ![v] = @ + 1] \in [Latencies -> Nat]
    BY <1>1
  <2> QED
    BY <2>1 DEF Bags
<1>3. PICK b \in Indices : b = BucketOf(v) /\ v \in Span(b)
  BY BucketOfIs
<1>4. PICK c \in Counts : c = Bucketed(bag)
  BY BucketedType
<1>5. ASSUME NEW i \in Indices
      PROVE  Count(new, Span(i))
               = Count(bag, Span(i)) + (IF i = b THEN 1 ELSE 0)
  <2>1. PICK S : S = Latencies \cap Span(i)
    OBVIOUS
  <2>2. S \in SUBSET Latencies /\ IsFiniteSet(S)
    BY <2>1, FiniteDomains
  <2>3. SumFunctionOnSet(new, S)
          = SumFunctionOnSet(bag, S) + (IF v \in S THEN 1 ELSE 0)
    <3>1. \A x \in S : /\ bag[x] \in Nat
                       /\ new[x] = bag[x] + (IF x = v THEN 1 ELSE 0)
      BY <1>1, <1>2, <2>2
    <3> QED
      BY <2>2, <3>1, SumRaised
  <2>4. v \in S <=> i = b
    <3>1. v \in Nat
      BY Sizes
    <3>2. v \in Span(i) => i = b
      BY <1>3, <3>1, SpansApart
    <3> QED
      BY <1>3, <2>1, <3>2
  <2> QED
    BY <2>1, <2>3, <2>4 DEF Count
<1>6. \A i \in Indices : Bucketed(new)[i] = c[i] + (IF i = b THEN 1 ELSE 0)
  BY <1>4, <1>5 DEF Bucketed
<1>7. Bucketed(new) \in Counts
  BY <1>2, BucketedType
<1>8. Bucketed(new) = [c EXCEPT ![b] = @ + 1]
  <2>1. PICK d \in Counts : d = Bucketed(new)
    BY <1>7
  <2>2. \A i \in Indices : d[i] = IF i = b THEN c[i] + 1 ELSE c[i]
    <3>1. \A i \in Indices : c[i] \in Nat
      BY DEF Counts
    <3> QED
      BY <1>6, <2>1, <3>1
  <2>3. d = [c EXCEPT ![b] = @ + 1]
    BY <2>2 DEF Counts
  <2> QED
    BY <2>1, <2>3
<1> QED
  BY <1>2, <1>3, <1>4, <1>8

\* Larger bags give larger counts.
LEMMA BucketedMonotone ==
  ASSUME NEW bag \in Bags, NEW new \in Bags,
         \A v \in Latencies : bag[v] <= new[v]
  PROVE  \A i \in Indices : Bucketed(bag)[i] <= Bucketed(new)[i]
<1> SUFFICES ASSUME NEW i \in Indices
             PROVE  Bucketed(bag)[i] <= Bucketed(new)[i]
  OBVIOUS
<1>1. PICK S : S = Latencies \cap Span(i)
  OBVIOUS
<1>2. IsFiniteSet(S)
  BY <1>1, FiniteDomains
<1>3. \A x \in S : bag[x] \in Nat /\ new[x] \in Nat /\ bag[x] <= new[x]
  BY <1>1 DEF Bags
<1>4. SumFunctionOnSet(bag, S) <= SumFunctionOnSet(new, S)
  BY <1>2, <1>3, SumMonotone
<1> QED
  BY <1>1, <1>4 DEF Bucketed, Count

\* Nothing recorded, nothing counted.
LEMMA BucketedNone ==
  /\ NoLatency \in Bags /\ Zeroes \in Counts
  /\ Bucketed(NoLatency) = Zeroes
<1>1. ASSUME NEW i \in Indices PROVE Count(NoLatency, Span(i)) = 0
  <2>1. PICK S : S = Latencies \cap Span(i)
    OBVIOUS
  <2>2. IsFiniteSet(S) /\ \A x \in S : NoLatency[x] = 0
    BY <2>1, FiniteDomains DEF NoLatency
  <2>3. SumFunctionOnSet(NoLatency, S) = 0
    BY <2>2, SumOfZeroes
  <2> QED
    BY <2>1, <2>3 DEF Count
<1>2. Bucketed(NoLatency) = Zeroes
  BY <1>1 DEF Bucketed, Zeroes
<1> QED
  BY <1>2 DEF NoLatency, Zeroes, Bags, Counts

-----------------------------------------------------------------------------
(***************************************************************************)
(* Percentiles.                                                            *)
(***************************************************************************)

\* Products of naturals are naturals, and are ordered as their factors are.
LEMMA Products ==
  ASSUME NEW p \in Nat, NEW n \in Nat
  PROVE  /\ p * n \in Nat
         /\ p > 0 /\ n > 0 => p * n > 0
         /\ n = 0 => p * n = 0
OBVIOUS

LEMMA ProductOrder ==
  ASSUME NEW p \in Nat, NEW r \in Nat, NEW n \in Nat, p <= r
  PROVE  p * n <= r * n
OBVIOUS

LEMMA ProductPlus ==
  ASSUME NEW p \in Nat, NEW a \in Nat, NEW b \in Nat
  PROVE  p * (a + b) = p * a + p * b
OBVIOUS

LEMMA ProductMonotone ==
  ASSUME NEW p \in Nat, NEW a \in Nat, NEW b \in Nat, a <= b
  PROVE  p * a <= p * b
OBVIOUS

\* A count reaches the target when it is p percent of the total.
LEMMA TargetIs ==
  ASSUME NEW p \in 1 .. 100, NEW n \in Nat \ {0}
  PROVE  /\ Target(p, n) \in Nat /\ 1 <= Target(p, n) /\ Target(p, n) <= n
         /\ \A s \in Nat : s >= Target(p, n) <=> 100 * s >= p * n
<1>1. PICK m \in Nat : m = p * n
  BY Products
<1>2. 1 <= m
  BY <1>1, Products
<1>3. m <= 100 * n
  BY <1>1, ProductOrder
<1>4. PICK t \in Int : t = (m + 99) \div 100
  OBVIOUS
<1>5. 100 * t >= m /\ 100 * t <= m + 99
  BY <1>4
<1>6. 1 <= t /\ t <= n
  BY <1>2, <1>3, <1>5
<1>7. Max({1, t}) = t
  BY <1>6, MaxOfTwo
<1>8. Min({n, t}) = t
  BY <1>6, MinOfTwo
<1>9. Target(p, n) = t
  BY <1>1, <1>4, <1>7, <1>8 DEF Target
<1>10. \A s \in Nat : s >= t <=> 100 * s >= m
  BY <1>5
<1> QED
  BY <1>1, <1>6, <1>9, <1>10

\* The bucket where p percent of what is counted are reached.
IsQuantile(counts, p, i) ==
  /\ 100 * UpTo(counts, i) >= p * SumFunction(counts)
  /\ 100 * Below(counts, i) < p * SumFunction(counts)

\* There is no other, and a larger percentage has a later one.
LEMMA QuantileOrder ==
  ASSUME NEW counts \in Counts, NEW p \in 1 .. 100, NEW r \in 1 .. 100, p <= r,
         NEW i \in Indices, NEW j \in Indices,
         IsQuantile(counts, p, i), IsQuantile(counts, r, j)
  PROVE  i <= j
<1>1. SUFFICES ASSUME j < i PROVE FALSE
  <2>1. i \in Int /\ j \in Int
    BY Sizes
  <2> QED
    BY <2>1
<1>2. i \in Nat /\ j \in Nat /\ i # 0
  BY <1>1, Sizes
<1>3. i - 1 \in Indices /\ Below(counts, i) = UpTo(counts, i - 1)
  BY <1>2, CountsType
<1>4. UpTo(counts, j) <= UpTo(counts, i - 1)
  BY <1>1, <1>2, <1>3, UpToGrows
<1>5. PICK n \in Nat : n = SumFunction(counts)
  BY SumOfCounts
<1>6. p * n <= r * n /\ p * n \in Nat /\ r * n \in Nat
  BY ProductOrder, Products
<1>7. UpTo(counts, j) \in Nat /\ Below(counts, i) \in Nat
  BY CountsType
<1>8. 100 * UpTo(counts, j) >= r * n /\ 100 * Below(counts, i) < p * n
  BY <1>5 DEF IsQuantile
<1> QED
  BY <1>3, <1>4, <1>6, <1>7, <1>8

LEMMA QuantileUnique ==
  ASSUME NEW counts \in Counts, NEW p \in 1 .. 100,
         NEW i \in Indices, NEW j \in Indices,
         IsQuantile(counts, p, i), IsQuantile(counts, p, j)
  PROVE  i = j
<1>1. p <= p
  OBVIOUS
<1>2. i <= j /\ j <= i
  BY <1>1, QuantileOrder
<1> QED
  BY <1>2, Sizes

\* Percentile returns the upper bound of that bucket, or 0 of nothing.
LEMMA PercentileIs ==
  ASSUME NEW counts \in Counts, NEW p \in 1 .. 100
  PROVE  /\ SumFunction(counts) = 0 => Percentile(counts, p) = 0
         /\ SumFunction(counts) # 0 =>
              \E i \in Indices : /\ IsQuantile(counts, p, i)
                                 /\ Percentile(counts, p) = BucketUpperBound(i)
<1>1. PICK n \in Nat : n = SumFunction(counts)
  BY SumOfCounts
<1>2. ASSUME n = 0 PROVE Percentile(counts, p) = 0
  BY <1>1, <1>2 DEF Percentile
<1>3. ASSUME n # 0
      PROVE  \E i \in Indices : /\ IsQuantile(counts, p, i)
                                /\ Percentile(counts, p) = BucketUpperBound(i)
  <2>1. PICK t : t = Target(p, n)
    OBVIOUS
  <2>2. /\ t \in Nat /\ t <= n /\ 1 <= t
        /\ \A s \in Nat : s >= t <=> 100 * s >= p * n
    BY <1>3, <2>1, TargetIs
  <2>3. PICK reached : reached = {i \in Indices : UpTo(counts, i) >= t}
    OBVIOUS
  <2>4. /\ Indices = 0 .. kMaxBucket
        /\ kMaxBucket \in Indices /\ kMaxBucket \in Nat
    BY Sizes
  <2>5. kMaxBucket \in reached
    BY <1>1, <2>2, <2>3, <2>4, SumOfCounts
  <2>6. PICK i : i = Min(reached)
    OBVIOUS
  <2>7. i \in reached /\ \A j \in reached : i <= j
    <3>1. reached \in SUBSET (0 .. kMaxBucket) /\ reached # {}
      BY <2>3, <2>4, <2>5
    <3>2. 0 \in Int /\ kMaxBucket \in Int
      BY <2>4
    <3> QED
      BY <2>6, <3>1, <3>2, MinOfBounded
  <2>8. i \in Indices /\ UpTo(counts, i) >= t /\ UpTo(counts, i) \in Nat
    BY <2>3, <2>7, CountsType
  <2>9. Below(counts, i) < t /\ Below(counts, i) \in Nat
    <3>1. CASE i = 0
      BY <2>2, <2>8, <3>1, CountsType
    <3>2. CASE i # 0
      <4>1. i - 1 \in Indices /\ Below(counts, i) = UpTo(counts, i - 1)
        BY <2>8, <3>2, CountsType
      <4>2. i - 1 \notin reached
        BY <2>4, <2>7, <2>8
      <4>3. ~(UpTo(counts, i - 1) >= t)
        BY <2>3, <4>1, <4>2
      <4>4. Below(counts, i) \in Nat
        BY <2>8, CountsType
      <4> QED
        BY <2>2, <4>1, <4>3, <4>4
    <3> QED
      BY <3>1, <3>2
  <2>10. IsQuantile(counts, p, i)
    <3>1. 100 * UpTo(counts, i) >= p * n
      BY <2>2, <2>8
    <3>2. ~(100 * Below(counts, i) >= p * n)
      BY <2>2, <2>9
    <3>3. p * n \in Nat
      BY Products
    <3> QED
      BY <1>1, <2>9, <3>1, <3>2, <3>3 DEF IsQuantile
  <2>11. Percentile(counts, p) = BucketUpperBound(i)
    BY <1>1, <1>3, <2>1, <2>3, <2>6 DEF Percentile
  <2> QED
    BY <2>8, <2>10, <2>11
<1> QED
  BY <1>1, <1>2, <1>3

\* A bucket where p percent are reached is the one Percentile returns.
LEMMA QuantileIsPercentile ==
  ASSUME NEW counts \in Counts, NEW p \in 1 .. 100, NEW i \in Indices,
         IsQuantile(counts, p, i)
  PROVE  /\ SumFunction(counts) # 0
         /\ Percentile(counts, p) = BucketUpperBound(i)
<1>1. PICK n \in Nat : n = SumFunction(counts)
  BY SumOfCounts
<1>2. n # 0
  <2>1. 100 * Below(counts, i) < p * n /\ Below(counts, i) \in Nat
    BY <1>1, CountsType DEF IsQuantile
  <2>2. n = 0 => p * n = 0
    BY Products
  <2> QED
    BY <2>1, <2>2
<1>3. PICK j \in Indices : /\ IsQuantile(counts, p, j)
                           /\ Percentile(counts, p) = BucketUpperBound(j)
  BY <1>1, <1>2, PercentileIs
<1> QED
  BY <1>1, <1>2, <1>3, QuantileUnique

\* The values a job has recorded lie between what MinValue and MaxValue say,
\* and so does every percentile.
LEMMA ExtremesAre ==
  ASSUME NEW counts \in Counts
  PROVE  /\ SumFunction(counts) = 0
              => MinValue(counts) = 0 /\ MaxValue(counts) = 0
         /\ SumFunction(counts) # 0 =>
              \E lo \in Indices, hi \in Indices :
                /\ MinValue(counts) = BucketLowerBound(lo)
                /\ MaxValue(counts) = BucketUpperBound(hi)
                /\ lo <= hi
                /\ Below(counts, lo) = 0
                /\ UpTo(counts, hi) = SumFunction(counts)
<1>1. PICK n \in Nat : /\ n = SumFunction(counts)
                       /\ n = SumFunctionOnSet(counts, Indices)
  BY SumOfCounts
<1>2. PICK E : E = NonEmpty(counts)
  OBVIOUS
<1>3. \A i \in Indices : counts[i] \in Nat /\ (i \in E <=> counts[i] # 0)
  BY <1>2 DEF NonEmpty, Counts
<1>4. Indices = 0 .. kMaxBucket /\ kMaxBucket \in Nat /\ IsFiniteSet(Indices)
  BY Sizes, FiniteDomains
<1>5. E \in SUBSET Indices
  BY <1>2 DEF NonEmpty
<1>6. ASSUME n = 0 PROVE MinValue(counts) = 0 /\ MaxValue(counts) = 0
  <2>1. ASSUME NEW i \in Indices PROVE counts[i] = 0
    <3>1. counts[i] <= SumFunctionOnSet(counts, Indices)
      BY <1>3, <1>4, SumBoundsValue
    <3> QED
      BY <1>1, <1>3, <1>6, <3>1
  <2>2. E = {}
    BY <1>3, <1>5, <2>1
  <2> QED
    BY <1>2, <2>2 DEF MinValue, MaxValue
<1>7. ASSUME n # 0
      PROVE  \E lo \in Indices, hi \in Indices :
                /\ MinValue(counts) = BucketLowerBound(lo)
                /\ MaxValue(counts) = BucketUpperBound(hi)
                /\ lo <= hi
                /\ Below(counts, lo) = 0
                /\ UpTo(counts, hi) = n
  <2>1. E # {}
    <3>1. SUFFICES ASSUME E = {} PROVE FALSE
      OBVIOUS
    <3>2. \A i \in Indices : counts[i] = 0
      BY <1>3, <3>1
    <3>3. SumFunctionOnSet(counts, Indices) = 0
      BY <1>4, <3>2, SumOfZeroes
    <3> QED
      BY <1>1, <1>7, <3>3
  <2>2. E \in SUBSET (0 .. kMaxBucket) /\ 0 \in Int /\ kMaxBucket \in Int
    BY <1>4, <1>5
  <2>3. PICK lo \in Indices : lo = Min(E) /\ lo \in E /\ \A i \in E : lo <= i
    BY <1>5, <2>1, <2>2, MinOfBounded
  <2>4. PICK hi \in Indices : hi = Max(E) /\ hi \in E /\ \A i \in E : i <= hi
    BY <1>5, <2>1, <2>2, MaxOfBounded
  <2>5. /\ lo \in Nat /\ hi \in Nat /\ lo <= hi
        /\ hi <= kMaxBucket /\ lo <= kMaxBucket
    BY <1>4, <2>3, <2>4
  <2>6. Below(counts, lo) = 0
    <3>1. PICK S : S = 0 .. lo - 1
      OBVIOUS
    <3>2. \A i \in S : i \in Indices /\ i \notin E
      BY <1>4, <2>3, <2>5, <3>1
    <3>3. \A i \in S : counts[i] = 0
      BY <1>3, <3>2
    <3>4. IsFiniteSet(S)
      BY <2>5, <3>1, FS_Interval
    <3> QED
      BY <3>1, <3>3, <3>4, SumOfZeroes DEF Below
  <2>7. UpTo(counts, hi) = n
    <3>1. PICK A : A = 0 .. hi
      OBVIOUS
    <3>2. PICK B : B = hi + 1 .. kMaxBucket
      OBVIOUS
    <3>3. A \cup B = Indices /\ A \cap B = {}
      BY <1>4, <2>5, <3>1, <3>2
    <3>4. SumFunctionOnSet(counts, Indices)
            = SumFunctionOnSet(counts, A) + SumFunctionOnSet(counts, B)
      BY <1>3, <1>4, <3>3, SumSplit
    <3>5. \A i \in B : counts[i] = 0
      <4>1. \A i \in B : i \in Indices /\ i \notin E
        BY <1>4, <2>4, <2>5, <3>2
      <4> QED
        BY <1>3, <4>1
    <3>6. IsFiniteSet(B)
      BY <1>4, <2>5, <3>2, FS_Interval
    <3>7. SumFunctionOnSet(counts, B) = 0
      BY <3>5, <3>6, SumOfZeroes
    <3>8. UpTo(counts, hi) \in Nat
      BY CountsType
    <3>9. SumFunctionOnSet(counts, A) = UpTo(counts, hi)
      BY <3>1 DEF UpTo
    <3> QED
      BY <1>1, <3>4, <3>7, <3>8, <3>9
  <2>8. MinValue(counts) = BucketLowerBound(lo)
    BY <1>2, <2>1, <2>3 DEF MinValue
  <2>9. MaxValue(counts) = BucketUpperBound(hi)
    BY <1>2, <2>1, <2>4 DEF MaxValue
  <2> QED
    BY <2>5, <2>6, <2>7, <2>8, <2>9
<1> QED
  BY <1>1, <1>6, <1>7

\* No percentile is reached outside of them.
LEMMA QuantileBetweenExtremes ==
  ASSUME NEW counts \in Counts, NEW p \in 1 .. 100, NEW i \in Indices,
         IsQuantile(counts, p, i), NEW lo \in Indices, NEW hi \in Indices,
         Below(counts, lo) = 0, UpTo(counts, hi) = SumFunction(counts)
  PROVE  lo <= i /\ i <= hi
<1>1. PICK n \in Nat : n = SumFunction(counts)
  BY SumOfCounts
<1>2. /\ p * n \in Nat /\ p * n <= 100 * n
      /\ 100 * UpTo(counts, i) >= p * n /\ 100 * Below(counts, i) < p * n
      /\ UpTo(counts, i) \in Nat /\ Below(counts, i) \in Nat
  BY <1>1, Products, ProductOrder, CountsType DEF IsQuantile
<1>3. i \in Nat /\ lo \in Nat /\ hi \in Nat
  BY Sizes
<1>4. ASSUME i < lo PROVE FALSE
  <2>1. lo - 1 \in Indices /\ Below(counts, lo) = UpTo(counts, lo - 1)
    BY <1>3, <1>4, CountsType
  <2>2. UpTo(counts, i) <= UpTo(counts, lo - 1)
    BY <1>3, <1>4, <2>1, UpToGrows
  <2> QED
    BY <1>2, <2>1, <2>2
<1>5. ASSUME hi < i PROVE FALSE
  <2>1. i - 1 \in Indices /\ Below(counts, i) = UpTo(counts, i - 1)
    BY <1>3, <1>5, CountsType
  <2>2. UpTo(counts, hi) <= UpTo(counts, i - 1)
    BY <1>3, <1>5, <2>1, UpToGrows
  <2> QED
    BY <1>1, <1>2, <2>1, <2>2
<1> QED
  BY <1>3, <1>4, <1>5

LEMMA QuantilesAre ==
  /\ DOMAIN Quantiles = 1 .. 3 /\ Len(Quantiles) = 3
  /\ \A n \in 1 .. 3 : Quantiles[n] \in 1 .. 100
  /\ Quantiles[1] <= Quantiles[2] /\ Quantiles[2] <= Quantiles[3]
BY HistogramAssumption DEF HistogramAssumption, Quantiles

\* What BuildResults computes for a job.
Summary(counts) ==
  [min |-> MinValue(counts), max |-> MaxValue(counts),
   p |-> [n \in DOMAIN Quantiles |-> Percentile(counts, Quantiles[n])]]

\* It is ordered, and encloses all values.
LEMMA SummaryOrdered ==
  ASSUME FullRange, NEW bag \in Bags, NEW r, r = Summary(Bucketed(bag))
  PROVE  /\ r.min <= r.p[1] /\ r.p[1] <= r.p[2]
         /\ r.p[2] <= r.p[3] /\ r.p[3] <= r.max
         /\ Count(bag, r.min .. r.max) = SumFunction(bag)
<1>1. PICK c \in Counts : c = Bucketed(bag)
  BY BucketedType
<1>2. PICK n \in Nat : n = SumFunction(c) /\ n = SumFunction(bag)
  BY <1>1, BucketedAll
<1>3. /\ r.min = MinValue(c) /\ r.max = MaxValue(c)
      /\ r.p = [k \in DOMAIN Quantiles |-> Percentile(c, Quantiles[k])]
  BY <1>1 DEF Summary
<1>4. \A k \in 1 .. 3 : r.p[k] = Percentile(c, Quantiles[k])
  BY <1>3, QuantilesAre
<1>5. CASE n = 0
  <2>1. r.min = 0 /\ r.max = 0
    BY <1>2, <1>3, <1>5, ExtremesAre
  <2>2. \A k \in 1 .. 3 : r.p[k] = 0
    BY <1>2, <1>4, <1>5, PercentileIs, QuantilesAre
  <2>3. Count(bag, r.min .. r.max) = 0
    <3>1. PICK S : S = Latencies \cap (r.min .. r.max)
      OBVIOUS
    <3>2. S \in SUBSET Latencies /\ IsFiniteSet(Latencies) /\ IsFiniteSet(S)
      BY <3>1, FiniteDomains
    <3>3. \A x \in Latencies : bag[x] \in Nat
      BY DEF Bags
    <3>4. SumFunctionOnSet(bag, S) <= SumFunctionOnSet(bag, Latencies)
      BY <3>2, <3>3, SumOfPart
    <3>5. SumFunctionOnSet(bag, S) \in Nat
      BY <3>2, <3>3, SumType
    <3>6. SumFunctionOnSet(bag, Latencies) = n
      <4>1. DOMAIN bag = Latencies
        BY DEF Bags
      <4> QED
        BY <1>2, <4>1 DEF SumFunction
    <3> QED
      BY <1>5, <3>1, <3>4, <3>5, <3>6 DEF Count
  <2> QED
    BY <1>2, <1>5, <2>1, <2>2, <2>3
<1>6. CASE n # 0
  <2>1. PICK lo \in Indices, hi \in Indices :
          /\ MinValue(c) = BucketLowerBound(lo)
          /\ MaxValue(c) = BucketUpperBound(hi)
          /\ lo <= hi
          /\ Below(c, lo) = 0 /\ UpTo(c, hi) = SumFunction(c)
    BY <1>2, <1>6, ExtremesAre
  <2>2. ASSUME NEW k \in 1 .. 3
        PROVE  \E i \in Indices : /\ IsQuantile(c, Quantiles[k], i)
                                  /\ r.p[k] = BucketUpperBound(i)
    BY <1>2, <1>4, <1>6, PercentileIs, QuantilesAre
  <2>3. PICK i1 \in Indices : /\ IsQuantile(c, Quantiles[1], i1)
                              /\ r.p[1] = BucketUpperBound(i1)
    BY <2>2
  <2>4. PICK i2 \in Indices : /\ IsQuantile(c, Quantiles[2], i2)
                              /\ r.p[2] = BucketUpperBound(i2)
    BY <2>2
  <2>5. PICK i3 \in Indices : /\ IsQuantile(c, Quantiles[3], i3)
                              /\ r.p[3] = BucketUpperBound(i3)
    BY <2>2
  <2>6. lo <= i1
    BY <2>1, <2>3, QuantileBetweenExtremes, QuantilesAre
  <2>7. i3 <= hi
    BY <2>1, <2>5, QuantileBetweenExtremes, QuantilesAre
  <2>8. i1 <= i2
    <3>1. /\ Quantiles[1] \in 1 .. 100 /\ Quantiles[2] \in 1 .. 100
          /\ Quantiles[1] <= Quantiles[2]
      BY QuantilesAre
    <3> QED
      BY <2>3, <2>4, <3>1, QuantileOrder
  <2>9. i2 <= i3
    <3>1. /\ Quantiles[2] \in 1 .. 100 /\ Quantiles[3] \in 1 .. 100
          /\ Quantiles[2] <= Quantiles[3]
      BY QuantilesAre
    <3> QED
      BY <2>4, <2>5, <3>1, QuantileOrder
  <2>10. r.min <= r.p[1]
    <3>1. BucketUpperBound(lo) <= BucketUpperBound(i1)
      BY <2>6, BoundsGrow
    <3>2. /\ BucketLowerBound(lo) <= BucketUpperBound(lo)
          /\ BucketLowerBound(lo) \in Nat /\ BucketUpperBound(lo) \in Nat
          /\ BucketUpperBound(i1) \in Nat
      BY BoundsAre
    <3> QED
      BY <1>3, <2>1, <2>3, <3>1, <3>2
  <2>11. r.p[1] <= r.p[2] /\ r.p[2] <= r.p[3]
    BY <2>3, <2>4, <2>5, <2>8, <2>9, BoundsGrow
  <2>12. r.p[3] <= r.max
    BY <1>3, <2>1, <2>5, <2>7, BoundsGrow
  <2>13. Count(bag, r.min .. r.max) = SumFunction(bag)
    <3>1. PICK top \in Nat : top = r.max
      BY <1>3, <2>1, BoundsAre
    <3>2. PICK low \in Nat : low = r.min /\ low <= top + 1
      <4>1. BucketUpperBound(lo) <= BucketUpperBound(hi)
        BY <2>1, BoundsGrow
      <4>2. /\ BucketLowerBound(lo) <= BucketUpperBound(lo)
            /\ BucketLowerBound(lo) \in Nat /\ BucketUpperBound(lo) \in Nat
        BY BoundsAre
      <4> QED
        BY <1>3, <2>1, <3>1, <4>1, <4>2
    <3>3. PICK W : W = 0 .. top
      OBVIOUS
    <3>4. PICK A : A = 0 .. low - 1
      OBVIOUS
    <3>5. PICK B : B = low .. top
      OBVIOUS
    <3>6. A \cup B = W /\ A \cap B = {}
      BY <3>1, <3>2, <3>3, <3>4, <3>5
    <3>7. Count(bag, W) = Count(bag, A) + Count(bag, B)
      BY <3>6, CountSplit
    <3>8. Count(bag, W) = n
      BY <1>1, <1>2, <1>3, <2>1, <3>1, <3>3, BucketedUpTo
    <3>9. Count(bag, A) = 0
      <4>1. CASE lo = 0
        <5>1. A = {}
          <6>1. low = 0
            BY <1>3, <2>1, <3>2, <4>1, BoundsAre
          <6> QED
            BY <3>4, <6>1
        <5>2. Latencies \cap A = {}
          BY <5>1
        <5> QED
          BY <5>2, SumEmpty DEF Count
      <4>2. CASE lo # 0
        <5>1. /\ lo - 1 \in Indices
              /\ BucketLowerBound(lo) = BucketUpperBound(lo - 1) + 1
          BY <4>2, BoundsAre
        <5>2. BucketUpperBound(lo - 1) \in Nat
          BY <5>1, BoundsAre
        <5>3. A = 0 .. BucketUpperBound(lo - 1)
          BY <1>3, <2>1, <3>2, <3>4, <5>1, <5>2
        <5>4. UpTo(c, lo - 1) = 0
          BY <2>1, <4>2, CountsType
        <5> QED
          BY <1>1, <5>1, <5>3, <5>4, BucketedUpTo
      <4> QED
        BY <4>1, <4>2
    <3>10. Count(bag, B) \in Nat
      BY CountType
    <3> QED
      BY <1>2, <3>1, <3>2, <3>5, <3>7, <3>8, <3>9, <3>10
  <2> QED
    BY <2>10, <2>11, <2>12, <2>13
<1> QED
  BY <1>5, <1>6

\* p percent of what is counted lie in the buckets up to the i-th.
Reaches(counts, p, i) == 100 * UpTo(counts, i) >= p * SumFunction(counts)

\* From the percentile's bucket on they do, and before it they do not.
LEMMA QuantileReaches ==
  ASSUME NEW counts \in Counts, NEW p \in 1 .. 100, NEW i \in Indices,
         IsQuantile(counts, p, i), NEW k \in Indices
  PROVE  Reaches(counts, p, k) <=> i <= k
<1>1. i \in Nat /\ k \in Nat
  BY Sizes
<1>2. PICK n \in Nat : n = SumFunction(counts)
  BY SumOfCounts
<1>3. p * n \in Nat /\ UpTo(counts, k) \in Nat /\ UpTo(counts, i) \in Nat
  BY Products, CountsType
<1>4. ASSUME i <= k PROVE Reaches(counts, p, k)
  <2>1. UpTo(counts, i) <= UpTo(counts, k)
    BY <1>4, UpToGrows
  <2>2. 100 * UpTo(counts, i) >= p * n
    BY <1>2 DEF IsQuantile
  <2>3. 100 * UpTo(counts, k) >= p * n
    BY <1>3, <2>1, <2>2
  <2> QED
    BY <1>2, <2>3 DEF Reaches
<1>5. ASSUME k < i PROVE ~Reaches(counts, p, k)
  <2>1. i - 1 \in Indices /\ Below(counts, i) = UpTo(counts, i - 1)
    BY <1>1, <1>5, CountsType
  <2>2. UpTo(counts, k) <= UpTo(counts, i - 1)
    BY <1>1, <1>5, <2>1, UpToGrows
  <2>3. 100 * Below(counts, i) < p * n /\ Below(counts, i) \in Nat
    BY <1>2, CountsType DEF IsQuantile
  <2>4. ~(100 * UpTo(counts, k) >= p * n)
    BY <1>3, <2>1, <2>2, <2>3
  <2> QED
    BY <1>2, <2>4 DEF Reaches
<1> QED
  BY <1>1, <1>4, <1>5

-----------------------------------------------------------------------------
(***************************************************************************)
(* The total.                                                              *)
(***************************************************************************)

\* What the merged counts say of the first k jobs: they are empty if the jobs
\* are; they reach a percentage where all jobs do, and do not where no job
\* that did any I/O does.
Summarises(bs, counts, k) ==
  /\ SumFunction(counts) = 0 <=> \A j \in 1 .. k : SumFunction(bs[j]) = 0
  /\ \A p \in 1 .. 100, i \in Indices :
       /\ (\A j \in 1 .. k : Reaches(bs[j], p, i)) => Reaches(counts, p, i)
       /\ SumFunction(counts) # 0
            /\ (\A j \in 1 .. k :
                  SumFunction(bs[j]) # 0 => ~Reaches(bs[j], p, i))
          => ~Reaches(counts, p, i)

\* Nothing merged yet.
LEMMA SummarisesNone ==
  ASSUME NEW bs PROVE Summarises(bs, Zeroes, 0)
<1>1. Zeroes \in Counts
  BY BucketedNone
<1>2. SumFunction(Zeroes) = 0
  <2>1. \A i \in Indices : Zeroes[i] = 0
    BY DEF Zeroes
  <2>2. SumFunctionOnSet(Zeroes, Indices) = 0
    BY <2>1, FiniteDomains, SumOfZeroes
  <2> QED
    BY <1>1, <2>2, SumOfCounts
<1>3. ASSUME NEW p \in 1 .. 100, NEW i \in Indices PROVE Reaches(Zeroes, p, i)
  <2>1. p * 0 = 0 /\ UpTo(Zeroes, i) \in Nat
    BY <1>1, CountsType
  <2> QED
    BY <1>2, <2>1 DEF Reaches
<1> QED
  BY <1>2, <1>3 DEF Summarises

\* One more job merged.
LEMMA SummarisesNext ==
  ASSUME NEW bs \in [JobIds -> Counts], NEW c \in Counts, NEW k \in Nat,
         NEW m \in JobIds, m = k + 1, Summarises(bs, c, k), NEW e \in Counts,
         \A i \in Indices : e[i] = c[i] + bs[m][i]
  PROVE  Summarises(bs, e, m)
<1>1. PICK d \in Counts : d = bs[m]
  OBVIOUS
<1>2. PICK nc \in Nat : nc = SumFunction(c)
  BY SumOfCounts
<1>3. PICK nd \in Nat : nd = SumFunction(d)
  BY SumOfCounts
<1>4. \A i \in Indices : UpTo(e, i) = UpTo(c, i) + UpTo(d, i)
  <2>1. \A i \in Indices : e[i] = c[i] + d[i]
    BY <1>1
  <2> QED
    BY <2>1, UpToPlus
<1>5. SumFunction(e) = nc + nd
  BY <1>2, <1>3, <1>4, Sizes, SumOfCounts
<1>6. m \in Nat /\ \A j \in 1 .. m : j \in 1 .. k \/ j = m
  BY Sizes
<1>7. \A j \in 1 .. k : j \in 1 .. m
  BY <1>6
<1>8. m \in 1 .. m
  BY <1>6
<1>9. SumFunction(e) = 0 <=> \A j \in 1 .. m : SumFunction(bs[j]) = 0
  <2>1. nc = 0 <=> \A j \in 1 .. k : SumFunction(bs[j]) = 0
    BY <1>2 DEF Summarises
  <2>2. nc + nd = 0 <=> nc = 0 /\ nd = 0
    OBVIOUS
  <2> QED
    BY <1>1, <1>3, <1>5, <1>6, <1>7, <1>8, <2>1, <2>2
<1>10. ASSUME NEW p \in 1 .. 100, NEW i \in Indices
       PROVE  /\ (\A j \in 1 .. m : Reaches(bs[j], p, i)) => Reaches(e, p, i)
              /\ SumFunction(e) # 0
                   /\ (\A j \in 1 .. m : SumFunction(bs[j]) # 0
                                           => ~Reaches(bs[j], p, i))
                 => ~Reaches(e, p, i)
  <2>1. PICK uc \in Nat : uc = UpTo(c, i)
    BY CountsType
  <2>2. PICK ud \in Nat : ud = UpTo(d, i)
    BY CountsType
  <2>3. PICK pc_ \in Nat : pc_ = p * nc
    BY Products
  <2>4. PICK pd \in Nat : pd = p * nd
    BY Products
  <2>5. /\ Reaches(c, p, i) <=> 100 * uc >= pc_
        /\ Reaches(d, p, i) <=> 100 * ud >= pd
    BY <1>2, <1>3, <2>1, <2>2, <2>3, <2>4 DEF Reaches
  <2>6. Reaches(e, p, i) <=> 100 * (uc + ud) >= pc_ + pd
    <3>1. p * (nc + nd) = pc_ + pd
      BY <2>3, <2>4, ProductPlus
    <3> QED
      BY <1>4, <1>5, <2>1, <2>2, <3>1 DEF Reaches
  <2>7. (nc = 0 => uc = 0 /\ pc_ = 0) /\ (nd = 0 => ud = 0 /\ pd = 0)
    <3>1. kMaxBucket \in Indices /\ i <= kMaxBucket
      BY Sizes
    <3>2. uc <= nc
      BY <1>2, <2>1, <3>1, SumOfCounts, UpToGrows
    <3>3. ud <= nd
      BY <1>3, <2>2, <3>1, SumOfCounts, UpToGrows
    <3> QED
      BY <2>3, <2>4, <3>2, <3>3
  <2>8. (\A j \in 1 .. m : Reaches(bs[j], p, i)) => Reaches(e, p, i)
    <3>1. SUFFICES ASSUME \A j \in 1 .. m : Reaches(bs[j], p, i)
                   PROVE  Reaches(e, p, i)
      OBVIOUS
    <3>2. Reaches(c, p, i)
      BY <1>7, <3>1 DEF Summarises
    <3>3. Reaches(d, p, i)
      BY <1>1, <1>8, <3>1
    <3> QED
      BY <2>5, <2>6, <3>2, <3>3
  <2>9. SumFunction(e) # 0
          /\ (\A j \in 1 .. m : SumFunction(bs[j]) # 0 => ~Reaches(bs[j], p, i))
        => ~Reaches(e, p, i)
    <3>1. SUFFICES ASSUME nc + nd # 0,
                          \A j \in 1 .. m : SumFunction(bs[j]) # 0
                                              => ~Reaches(bs[j], p, i)
                   PROVE  ~Reaches(e, p, i)
      BY <1>5
    <3>2. nc # 0 => ~Reaches(c, p, i)
      BY <1>2, <1>7, <3>1 DEF Summarises
    <3>3. nd # 0 => ~Reaches(d, p, i)
      BY <1>1, <1>3, <1>8, <3>1
    <3>4. nc # 0 => 100 * uc < pc_
      BY <2>5, <3>2
    <3>5. nd # 0 => 100 * ud < pd
      BY <2>5, <3>3
    <3> QED
      BY <2>6, <2>7, <3>1, <3>4, <3>5
  <2> QED
    BY <2>8, <2>9
<1> QED
  BY <1>9, <1>10 DEF Summarises

\* A percentile of the total lies between the smallest and the largest of the
\* jobs that did any I/O.
LEMMA TotalBetween ==
  ASSUME NEW bs \in [JobIds -> Counts], NEW c \in Counts,
         Summarises(bs, c, JobCount), NEW p \in 1 .. 100, NEW P,
         P = {Percentile(bs[j], p) : j \in JobIds} \ {0}
  PROVE  IF P = {} THEN Percentile(c, p) = 0
         ELSE Percentile(c, p) \in Min(P) .. Max(P)
<1> DEFINE n(j) == SumFunction(bs[j])
<1>1. JobIds = 1 .. JobCount
  BY Sizes
<1>2. ASSUME NEW j \in JobIds, n(j) = 0 PROVE Percentile(bs[j], p) = 0
  BY <1>2, PercentileIs
<1>3. ASSUME NEW j \in JobIds, n(j) # 0
      PROVE  \E i \in Indices : /\ IsQuantile(bs[j], p, i)
                                /\ Percentile(bs[j], p) = BucketUpperBound(i)
  BY <1>3, PercentileIs
<1>4. \A j \in JobIds : n(j) # 0 => Percentile(bs[j], p) \in P
  BY <1>3, BoundsAre
<1>5. \A x \in P : \E j \in JobIds : n(j) # 0 /\ x = Percentile(bs[j], p)
  BY <1>2
<1>6. SumFunction(c) = 0 <=> \A j \in JobIds : n(j) = 0
  BY <1>1 DEF Summarises
<1>7. CASE P = {}
  <2>1. SumFunction(c) = 0
    BY <1>4, <1>6, <1>7
  <2> QED
    BY <1>7, <2>1, PercentileIs
<1>8. CASE P # {}
  <2>1. SumFunction(c) # 0
    BY <1>5, <1>6, <1>8
  <2>2. PICK I \in Indices : /\ IsQuantile(c, p, I)
                             /\ Percentile(c, p) = BucketUpperBound(I)
    BY <2>1, PercentileIs
  <2>3. /\ Min(P) \in P /\ \A x \in P : Min(P) <= x
        /\ Max(P) \in P /\ \A x \in P : x <= Max(P)
    <3>1. PICK top \in Int : top = BucketUpperBound(kMaxBucket)
      BY Sizes, BoundsAre
    <3>2. ASSUME NEW x \in P PROVE x \in 0 .. top
      <4>1. PICK i \in Indices : x = BucketUpperBound(i)
        BY <1>3, <1>5
      <4>2. i <= kMaxBucket /\ kMaxBucket \in Indices
        BY Sizes
      <4>3. x <= top /\ x \in Nat
        BY <3>1, <4>1, <4>2, BoundsGrow, BoundsAre
      <4> QED
        BY <4>3
    <3>3. P \in SUBSET (0 .. top) /\ 0 \in Int
      BY <3>2
    <3>4. Min(P) \in P /\ \A x \in P : Min(P) <= x
      BY <1>8, <3>3, MinOfBounded
    <3>5. Max(P) \in P /\ \A x \in P : x <= Max(P)
      BY <1>8, <3>3, MaxOfBounded
    <3> QED
      BY <3>4, <3>5
  <2> HIDE DEF n
  <2>4. \A x \in P : \E i \in Indices : x = BucketUpperBound(i)
    BY <1>3, <1>5
  <2>5. PICK lo \in Indices : Min(P) = BucketUpperBound(lo)
    BY <2>3, <2>4
  <2>6. PICK hi \in Indices : Max(P) = BucketUpperBound(hi)
    BY <2>3, <2>4
  <2> USE DEF n
  <2>7. I \in Int /\ lo \in Int /\ hi \in Int
    BY Sizes
  <2>8. ASSUME NEW j \in JobIds, n(j) # 0, NEW i \in Indices,
               IsQuantile(bs[j], p, i)
        PROVE  lo <= i /\ i <= hi
    <3>1. Percentile(bs[j], p) = BucketUpperBound(i)
      BY <2>8, QuantileIsPercentile
    <3>2. /\ BucketUpperBound(lo) <= BucketUpperBound(i)
          /\ BucketUpperBound(i) <= BucketUpperBound(hi)
      BY <1>4, <2>3, <2>5, <2>6, <2>8, <3>1
    <3>3. i \in Int
      BY Sizes
    <3>4. /\ BucketUpperBound(i) \in Nat /\ BucketUpperBound(lo) \in Nat
          /\ BucketUpperBound(hi) \in Nat
          /\ BucketLowerBound(lo) \in Nat /\ BucketLowerBound(i) \in Nat
          /\ BucketLowerBound(lo) <= BucketUpperBound(lo)
          /\ BucketLowerBound(i) <= BucketUpperBound(i)
      BY BoundsAre
    <3>5. i < lo => BucketUpperBound(i) < BucketLowerBound(lo)
      BY <2>7, <3>3, BoundsGrow
    <3>6. hi < i => BucketUpperBound(hi) < BucketLowerBound(i)
      BY <2>7, <3>3, BoundsGrow
    <3> QED
      BY <2>7, <3>2, <3>3, <3>4, <3>5, <3>6
  <2>9. lo <= I
    <3>1. SUFFICES ASSUME I < lo PROVE FALSE
      BY <2>7
    <3>2. ASSUME NEW j \in JobIds, n(j) # 0 PROVE ~Reaches(bs[j], p, I)
      <4>1. PICK i \in Indices : IsQuantile(bs[j], p, i)
        BY <1>3, <3>2
      <4>2. lo <= i /\ i \in Int
        BY <2>8, <3>2, <4>1, Sizes
      <4>3. ~(i <= I)
        BY <2>7, <3>1, <4>2
      <4> QED
        BY <4>1, <4>3, QuantileReaches
    <3>3. ~Reaches(c, p, I)
      BY <1>1, <2>1, <3>2 DEF Summarises
    <3>4. Reaches(c, p, I) <=> I <= I
      BY <2>2, QuantileReaches
    <3> QED
      BY <2>7, <3>3, <3>4
  <2>10. I <= hi
    <3>1. ASSUME NEW j \in JobIds PROVE Reaches(bs[j], p, hi)
      <4>1. CASE n(j) # 0
        <5>1. PICK i \in Indices : IsQuantile(bs[j], p, i)
          BY <1>3, <4>1
        <5>2. i <= hi
          BY <2>8, <4>1, <5>1
        <5> QED
          BY <5>1, <5>2, QuantileReaches
      <4>2. CASE n(j) = 0
        <5>1. UpTo(bs[j], hi) \in Nat /\ p * 0 = 0
          BY CountsType
        <5> QED
          BY <4>2, <5>1 DEF Reaches
      <4> QED
        BY <4>1, <4>2
    <3>2. Reaches(c, p, hi)
      BY <1>1, <3>1 DEF Summarises
    <3> QED
      BY <2>2, <3>2, QuantileReaches
  <2>11. /\ BucketUpperBound(lo) <= BucketUpperBound(I)
         /\ BucketUpperBound(I) <= BucketUpperBound(hi)
    BY <2>9, <2>10, BoundsGrow
  <2>12. /\ BucketUpperBound(lo) \in Nat /\ BucketUpperBound(I) \in Nat
         /\ BucketUpperBound(hi) \in Nat
    BY BoundsAre
  <2> QED
    BY <1>8, <2>2, <2>5, <2>6, <2>11, <2>12
<1> QED
  BY <1>7, <1>8

-----------------------------------------------------------------------------
(***************************************************************************)
(* The inductive invariant.                                                *)
(***************************************************************************)

HistogramType ==
  /\ buckets \in [JobIds -> Counts] /\ recorded \in [JobIds -> Bags]
  /\ joined \in BOOLEAN /\ final \in BOOLEAN
  /\ reader_pc \in {"idle", "total", "scan", "merge", "built"}
  /\ job \in JobIds /\ q \in 1 .. 3 /\ index \in Indices
  /\ total \in Nat /\ cumulative \in Nat
  /\ before \in Bags /\ global \in Counts
  /\ answers \in [JobIds -> [1 .. 3 -> Nat]]

\* The buckets count what was recorded.
Counted == \A j \in JobIds : buckets[j] = Bucketed(recorded[j])

\* What the first pass of a percentile has loaded, or will have: no less than
\* was counted when it began, and no more than is counted now.  The second
\* pass loads no less than the first has.
Loads(loads) ==
  /\ \A i \in Indices : /\ Bucketed(before)[i] <= loads[i]
                        /\ loads[i] <= buckets[job][i]
  /\ reader_pc = "total" => total = Below(loads, index)
  /\ reader_pc = "scan" => /\ total = SumFunction(loads) /\ total # 0
                    /\ Below(loads, index) <= cumulative
                    /\ cumulative <= Below(buckets[job], index)
                    /\ cumulative < Target(Quantiles[q], total)
  /\ final => loads = buckets[job]

Reading ==
  reader_pc \in {"total", "scan"} =>
    /\ reader_pc = "total" => cumulative = 0
    /\ \A v \in Latencies : before[v] <= recorded[job][v]
    /\ \E loads \in Counts : Loads(loads)

\* The snapshot in progress has answered for the n-th percentile of job j.
Answered(j, n) == \/ reader_pc \in {"idle", "built"}
                  \/ j < job
                  \/ j = job /\ (n < q \/ reader_pc = "merge")

\* The jobs merged so far, without the part of the job being merged.
Merging(merged) ==
  /\ reader_pc \in {"total", "scan", "merge"} =>
       /\ Summarises(buckets, merged, job - 1)
       /\ \A i \in Indices :
            global[i] = merged[i] + (IF reader_pc = "merge" /\ i < index
                                     THEN buckets[job][i] ELSE 0)
  /\ reader_pc \in {"idle", "built"} =>
       /\ Summarises(buckets, merged, JobCount)
       /\ totals = [n \in DOMAIN Quantiles |-> Percentile(merged, Quantiles[n])]

\* A snapshot begun after the join reads what nobody changes.
Final ==
  final =>
    /\ joined
    /\ \A j \in JobIds, n \in 1 .. 3 :
         Answered(j, n) => answers[j][n] = Percentile(buckets[j], Quantiles[n])
    /\ \E merged \in Counts : Merging(merged)

Built ==
  reader_pc = "built" => /\ final
                  /\ results = [j \in JobIds |-> Summary(buckets[j])]

IInv == HistogramType /\ Counted /\ Reading /\ Final /\ Built

\* One bag and one set of counts grow.
LEMMA RecordIs ==
  ASSUME FullRange, HistogramType, Counted,
         NEW j \in JobIds, NEW v \in Latencies, Record(j, v)
  PROVE  /\ buckets' \in [JobIds -> Counts] /\ recorded' \in [JobIds -> Bags]
         /\ \A k \in JobIds : buckets'[k] = Bucketed(recorded'[k])
         /\ \A k \in JobIds, w \in Latencies : recorded[k][w] <= recorded'[k][w]
         /\ \A k \in JobIds, i \in Indices : buckets[k][i] <= buckets'[k][i]
<1>1. PICK bag \in Bags : bag = recorded[j]
  BY DEF HistogramType
<1>2. PICK c \in Counts : c = buckets[j] /\ c = Bucketed(bag)
  BY <1>1 DEF HistogramType, Counted
<1>3. PICK b \in Indices : b = BucketOf(v)
  BY BucketOfIs
<1>4. bag \in [Latencies -> Nat] /\ c \in [Indices -> Nat]
  BY DEF Bags, Counts
<1>5. PICK new \in [Latencies -> Nat] : new = [bag EXCEPT ![v] = @ + 1]
  <2>1. [bag EXCEPT ![v] = @ + 1] \in [Latencies -> Nat]
    BY <1>4
  <2> QED
    BY <2>1
<1>6. PICK d \in [Indices -> Nat] : d = [c EXCEPT ![b] = @ + 1]
  <2>1. [c EXCEPT ![b] = @ + 1] \in [Indices -> Nat]
    BY <1>4
  <2> QED
    BY <2>1
<1>7. new \in Bags /\ d \in Counts
  BY <1>5, <1>6 DEF Bags, Counts
<1>8. d = Bucketed(new)
  BY <1>2, <1>3, <1>5, <1>6, BucketedRecord
<1>9. recorded' = [recorded EXCEPT ![j] = new]
  BY <1>1, <1>5 DEF Record, HistogramType
<1>10. buckets' = [buckets EXCEPT ![j] = d]
  BY <1>2, <1>3, <1>6 DEF Record, HistogramType
<1>11. recorded' \in [JobIds -> Bags] /\ buckets' \in [JobIds -> Counts]
  BY <1>7, <1>9, <1>10 DEF HistogramType
<1>12. ASSUME NEW k \in JobIds
       PROVE  /\ buckets'[k] = Bucketed(recorded'[k])
              /\ \A w \in Latencies : recorded[k][w] <= recorded'[k][w]
              /\ \A i \in Indices : buckets[k][i] <= buckets'[k][i]
  <2>1. CASE k = j
    <3>1. recorded'[k] = new /\ buckets'[k] = d
      BY <1>9, <1>10, <2>1 DEF HistogramType
    <3>2. \A w \in Latencies : bag[w] <= new[w]
      BY <1>4, <1>5
    <3>3. \A i \in Indices : c[i] <= d[i]
      BY <1>4, <1>6
    <3> QED
      BY <1>1, <1>2, <1>8, <2>1, <3>1, <3>2, <3>3
  <2>2. CASE k # j
    <3>1. recorded'[k] = recorded[k] /\ buckets'[k] = buckets[k]
      BY <1>9, <1>10, <2>2 DEF HistogramType
    <3>2. \A w \in Latencies : recorded[k][w] <= recorded[k][w]
      <4>1. \A w \in Latencies : recorded[k][w] \in Nat
        BY DEF HistogramType, Bags
      <4> QED
        BY <4>1
    <3>3. \A i \in Indices : buckets[k][i] <= buckets[k][i]
      <4>1. \A i \in Indices : buckets[k][i] \in Nat
        BY DEF HistogramType, Counts
      <4> QED
        BY <4>1
    <3> QED
      BY <3>1, <3>2, <3>3 DEF Counted
  <2> QED
    BY <2>1, <2>2
<1> QED
  BY <1>11, <1>12

LEMMA RecordKeeps ==
  ASSUME FullRange, IInv, NEW j \in JobIds, NEW v \in Latencies, Record(j, v)
  PROVE  IInv'
<1> USE DEF IInv
<1>1. /\ buckets' \in [JobIds -> Counts] /\ recorded' \in [JobIds -> Bags]
      /\ \A k \in JobIds : buckets'[k] = Bucketed(recorded'[k])
      /\ \A k \in JobIds, w \in Latencies : recorded[k][w] <= recorded'[k][w]
      /\ \A k \in JobIds, i \in Indices : buckets[k][i] <= buckets'[k][i]
  BY RecordIs
<1>2. ~final /\ reader_pc # "built" /\ ~joined
  BY DEF Record, Final, Built
<1>3. /\ joined' = joined /\ reader_pc' = reader_pc /\ job' = job /\ q' = q /\ index' = index
      /\ total' = total /\ cumulative' = cumulative /\ before' = before
      /\ global' = global /\ answers' = answers /\ totals' = totals
      /\ final' = final /\ results' = results
  BY DEF Record, reading, shown
<1>4. HistogramType'
  BY <1>1, <1>3 DEF HistogramType
<1>5. Counted'
  BY <1>1 DEF Counted
<1>6. Final' /\ Built'
  BY <1>2, <1>3 DEF Final, Built
<1>7. Reading'
  <2>1. SUFFICES ASSUME reader_pc \in {"total", "scan"} PROVE Reading'
    BY <1>3 DEF Reading
  <2>2. PICK loads \in Counts : Loads(loads)
    BY <2>1 DEF Reading
  <2>3. job \in JobIds /\ before \in Bags
    BY DEF HistogramType
  <2>4. \A w \in Latencies : before[w] <= recorded'[job][w]
    <3> SUFFICES ASSUME NEW w \in Latencies PROVE before[w] <= recorded'[job][w]
      OBVIOUS
    <3>1. before[w] <= recorded[job][w] /\ recorded[job][w] <= recorded'[job][w]
      BY <1>1, <2>1, <2>3 DEF Reading
    <3>2. /\ before[w] \in Nat /\ recorded[job][w] \in Nat
          /\ recorded'[job][w] \in Nat
      BY <1>1, <2>3 DEF HistogramType, Bags
    <3> QED
      BY <3>1, <3>2
  <2>5. PICK c \in Counts : c = buckets[job]
    BY <2>3 DEF HistogramType
  <2>6. PICK d \in Counts : d = buckets'[job]
    BY <1>1, <2>3
  <2>7. PICK i \in Indices : i = index
    BY DEF HistogramType
  <2>8. \A k \in Indices : c[k] <= d[k]
    BY <1>1, <2>3, <2>5, <2>6
  <2>9. Below(c, i) <= Below(d, i) /\ Below(c, i) \in Nat /\ Below(d, i) \in Nat
    BY <2>8, UpToMonotone, CountsType
  <2>10. \A k \in Indices : loads[k] <= d[k]
    <3> SUFFICES ASSUME NEW k \in Indices PROVE loads[k] <= d[k]
      OBVIOUS
    <3>1. loads[k] <= c[k] /\ c[k] <= d[k]
      BY <2>2, <2>5, <2>8 DEF Loads
    <3>2. loads[k] \in Nat /\ c[k] \in Nat /\ d[k] \in Nat
      BY CountsType
    <3> QED
      BY <3>1, <3>2
  <2>11. reader_pc = "scan" => cumulative <= Below(d, i)
    <3>1. reader_pc = "scan" => cumulative <= Below(c, i)
      BY <2>2, <2>5, <2>7 DEF Loads
    <3>2. cumulative \in Nat
      BY DEF HistogramType
    <3> QED
      BY <2>9, <3>1, <3>2
  <2>12. Loads(loads)'
    BY <1>2, <1>3, <2>2, <2>6, <2>7, <2>10, <2>11 DEF Loads
  <2> QED
    BY <1>3, <2>1, <2>4, <2>12 DEF Reading
<1> QED
  BY <1>4, <1>5, <1>6, <1>7

\* Nobody reads a final snapshot before the join.
LEMMA JoinKeeps == ASSUME IInv, JoinWorkers PROVE IInv'
<1>1. /\ buckets' = buckets /\ recorded' = recorded /\ joined' = TRUE
      /\ reader_pc' = reader_pc /\ job' = job /\ q' = q /\ index' = index
      /\ total' = total /\ cumulative' = cumulative /\ before' = before
      /\ global' = global /\ answers' = answers /\ totals' = totals
      /\ final' = final /\ results' = results
  BY DEF JoinWorkers, reading, shown
<1>2. ~final /\ reader_pc # "built"
  BY DEF JoinWorkers, IInv, Final, Built
<1>3. HistogramType' /\ Counted'
  BY <1>1 DEF IInv, HistogramType, Counted
<1>4. Reading'
  BY <1>1 DEF IInv, Reading, Loads
<1>5. Final' /\ Built'
  BY <1>1, <1>2 DEF Final, Built
<1> QED
  BY <1>3, <1>4, <1>5 DEF IInv

\* A percentile begins with what is counted at that moment.
LEMMA EnterReads ==
  ASSUME HistogramType, Counted, NEW j \in JobIds, NEW n \in 1 .. 3,
         Enter(j, n), buckets' = buckets, recorded' = recorded
  PROVE  /\ Reading'
         /\ reader_pc' = "total" /\ job' = j /\ q' = n /\ index' = 0
         /\ index' \in Indices /\ total' \in Nat /\ cumulative' \in Nat
         /\ before' \in Bags
<1>1. /\ reader_pc' = "total" /\ job' = j /\ q' = n /\ index' = 0 /\ total' = 0
      /\ cumulative' = 0 /\ before' = recorded[j]
  BY DEF Enter
<1>2. PICK bag \in Bags : bag = recorded[j]
  BY DEF HistogramType
<1>3. PICK c \in Counts : c = buckets[j] /\ c = Bucketed(bag)
  BY <1>2 DEF HistogramType, Counted
<1>4. \A v \in Latencies : bag[v] <= bag[v]
  BY DEF Bags
<1>5. \A i \in Indices : c[i] <= c[i]
  <2>1. \A i \in Indices : c[i] \in Nat
    BY DEF Counts
  <2> QED
    BY <2>1
<1>6. Below(c, 0) = 0 /\ 0 \in Indices
  BY Sizes, CountsType
<1>7. Loads(c)'
  BY <1>1, <1>2, <1>3, <1>5, <1>6 DEF Loads
<1>8. Reading'
  BY <1>1, <1>2, <1>4, <1>7 DEF Reading
<1> QED
  BY <1>1, <1>2, <1>6, <1>8

LEMMA BeginKeeps == ASSUME IInv, BeginSnapshot PROVE IInv'
<1>1. /\ buckets' = buckets /\ recorded' = recorded /\ joined' = joined
      /\ answers' = answers /\ totals' = totals /\ results' = results
      /\ global' = Zeroes /\ final' = joined /\ Enter(1, 1)
  BY DEF BeginSnapshot
<1>2. 1 \in JobIds /\ 1 \in 1 .. 3 /\ Zeroes \in Counts
  BY Sizes, BucketedNone
<1>3. /\ Reading' /\ reader_pc' = "total" /\ job' = 1 /\ q' = 1 /\ index' = 0
      /\ index' \in Indices /\ total' \in Nat /\ cumulative' \in Nat
      /\ before' \in Bags
  BY <1>1, <1>2, EnterReads DEF IInv
<1>4. HistogramType'
  BY <1>1, <1>2, <1>3 DEF IInv, HistogramType
<1>5. Counted' /\ Built'
  BY <1>1, <1>3 DEF IInv, Counted, Built
<1>6. Final'
  <2>1. \A j \in JobIds, n \in 1 .. 3 : ~Answered(j, n)'
    <3>1. \A j \in JobIds, n \in 1 .. 3 : ~(j < 1) /\ ~(n < 1)
      BY Sizes
    <3> QED
      BY <1>3, <3>1 DEF Answered
  <2>2. PICK bs : bs = buckets
    OBVIOUS
  <2>3. Summarises(bs, Zeroes, 0)
    BY SummarisesNone
  <2>4. \A i \in Indices : Zeroes[i] = Zeroes[i] + 0
    BY DEF Zeroes
  <2>5. Merging(Zeroes)'
    BY <1>1, <1>3, <2>2, <2>3, <2>4 DEF Merging
  <2> QED
    BY <1>1, <1>2, <2>1, <2>5 DEF Final
<1> QED
  BY <1>3, <1>4, <1>5, <1>6 DEF IInv

\* A percentile returns: it is one of the buckets if they stand still.
LEMMA ReturnKeeps ==
  ASSUME IInv, reader_pc \in {"total", "scan"}, NEW value \in Nat, Return(value),
         final => value = Percentile(buckets[job], Quantiles[q]),
         buckets' = buckets, recorded' = recorded, joined' = joined,
         global' = global, totals' = totals, final' = final, results' = results
  PROVE  IInv'
<1> USE DEF IInv
<1>1. answers' = [answers EXCEPT ![job][q] = value]
  BY DEF Return
<1>2. job \in JobIds /\ q \in 1 .. 3 /\ answers \in [JobIds -> [1 .. 3 -> Nat]]
  BY DEF HistogramType
<1>3. answers' \in [JobIds -> [1 .. 3 -> Nat]]
  BY <1>1, <1>2
<1>4. \A j \in JobIds, n \in 1 .. 3 :
        answers'[j][n] = IF j = job /\ n = q THEN value ELSE answers[j][n]
  BY <1>1, <1>2
<1>5. /\ job' = job /\ index' = 0
      /\ \/ /\ reader_pc' = "total" /\ q' = q + 1 /\ q # 3
         \/ /\ reader_pc' = "merge" /\ q' = q /\ q = 3
  <2>1. Len(Quantiles) = 3
    BY QuantilesAre
  <2> QED
    BY <1>2, <2>1 DEF Return, Enter
<1>6. /\ Reading' /\ total' \in Nat /\ cumulative' \in Nat /\ before' \in Bags
      /\ index' \in Indices /\ q' \in 1 .. 3
  <2>1. CASE q # 3
    <3>1. q + 1 \in 1 .. 3 /\ Enter(job, q + 1)
      BY <1>2, <2>1, QuantilesAre DEF Return
    <3>2. PICK j \in JobIds : j = job
      BY <1>2
    <3>3. PICK n \in 1 .. 3 : n = q + 1
      BY <3>1
    <3>4. Enter(j, n)
      BY <3>1, <3>2, <3>3
    <3> QED
      BY <3>3, <3>4, EnterReads
  <2>2. CASE q = 3
    <3>1. /\ reader_pc' = "merge" /\ index' = 0 /\ q' = q
          /\ total' = 0 /\ cumulative' = 0 /\ before' = NoLatency
      BY <2>2, QuantilesAre DEF Return
    <3> QED
      BY <1>2, <3>1, BucketedNone, Sizes DEF Reading
  <2> QED
    BY <2>1, <2>2
<1>7. HistogramType'
  BY <1>2, <1>3, <1>5, <1>6 DEF HistogramType
<1>8. Counted' /\ Built'
  BY <1>5 DEF Counted, Built
<1>9. Final'
  <2>1. SUFFICES ASSUME final PROVE Final'
    BY DEF Final
  <2>2. ASSUME NEW j \in JobIds, NEW n \in 1 .. 3, Answered(j, n)'
        PROVE  answers'[j][n] = Percentile(buckets[j], Quantiles[n])
    <3>1. CASE j = job /\ n = q
      BY <1>4, <2>1, <3>1
    <3>2. CASE ~(j = job /\ n = q)
      <4>1. j \in Int /\ job \in Int
        BY <1>2, Sizes
      <4>2. Answered(j, n)
        BY <1>2, <1>5, <2>2, <3>2, <4>1 DEF Answered
      <4> QED
        BY <1>4, <2>1, <3>2, <4>2 DEF Final
    <3> QED
      BY <3>1, <3>2
  <2>3. PICK merged \in Counts : Merging(merged)
    BY <2>1 DEF Final
  <2>4. \A i \in Indices : ~(i < 0) /\ merged[i] + 0 = merged[i]
    BY Sizes DEF Counts
  <2>5. \A i \in Indices : global[i] = merged[i]
    BY <2>3, <2>4 DEF Merging
  <2>6. Merging(merged)'
    BY <1>5, <2>3, <2>4, <2>5 DEF Merging
  <2>7. joined
    BY <2>1 DEF Final
  <2> QED
    BY <2>2, <2>6, <2>7 DEF Final
<1> QED
  BY <1>6, <1>7, <1>8, <1>9

\* A load of the first pass: what it has loaded stays between what was
\* counted before and what is counted now.
LEMMA FirstLoad ==
  ASSUME NEW old \in Counts, NEW counts \in Counts, NEW loads \in Counts,
         NEW i \in Indices,
         \A k \in Indices : old[k] <= loads[k] /\ loads[k] <= counts[k]
  PROVE  \E new \in Counts :
           /\ \A k \in Indices : old[k] <= new[k] /\ new[k] <= counts[k]
           /\ UpTo(new, i) = Below(loads, i) + counts[i]
           /\ loads = counts => new = counts
<1>1. PICK new \in Counts : new = [k \in Indices |-> IF k = i THEN counts[k]
                                                     ELSE loads[k]]
  <2>1. \A k \in Indices : (IF k = i THEN counts[k] ELSE loads[k]) \in Nat
    BY DEF Counts
  <2> QED
    BY <2>1 DEF Counts
<1>2. \A k \in Indices : old[k] <= new[k] /\ new[k] <= counts[k]
  <2> SUFFICES ASSUME NEW k \in Indices
               PROVE  old[k] <= new[k] /\ new[k] <= counts[k]
    OBVIOUS
  <2>1. old[k] \in Nat /\ loads[k] \in Nat /\ counts[k] \in Nat
    BY DEF Counts
  <2>2. old[k] <= loads[k] /\ loads[k] <= counts[k]
    OBVIOUS
  <2>3. new[k] = IF k = i THEN counts[k] ELSE loads[k]
    BY <1>1
  <2> QED
    BY <2>1, <2>2, <2>3
<1>3. Below(new, i) = Below(loads, i)
  <2>1. PICK S : S = 0 .. i - 1
    OBVIOUS
  <2>2. i \in Nat /\ Indices = 0 .. kMaxBucket /\ kMaxBucket \in Nat
    BY Sizes
  <2>3. IsFiniteSet(S) /\ \A k \in S : k \in Indices /\ k # i
    <3>1. IsFiniteSet(S)
      BY <2>1, <2>2, FS_Interval
    <3> QED
      BY <2>1, <2>2, <3>1
  <2>4. \A k \in S : loads[k] \in Nat /\ new[k] = loads[k]
    BY <1>1, <2>3 DEF Counts
  <2>5. SumFunctionOnSet(loads, S) = SumFunctionOnSet(new, S)
    BY <2>3, <2>4, SumEqual
  <2> QED
    BY <2>1, <2>5 DEF Below
<1>4. new[i] = counts[i] /\ UpTo(new, i) = Below(new, i) + new[i]
  BY <1>1, CountsType
<1>5. ASSUME loads = counts PROVE new = counts
  <2>1. \A k \in Indices : new[k] = counts[k]
    BY <1>1, <1>5
  <2> QED
    BY <2>1 DEF Counts
<1> QED
  BY <1>2, <1>3, <1>4, <1>5

LEMMA LoadForTotalKeeps == ASSUME FullRange, IInv, LoadForTotal PROVE IInv'
<1> USE DEF IInv
<1>1. /\ reader_pc = "total"
      /\ buckets' = buckets /\ recorded' = recorded /\ joined' = joined
      /\ global' = global /\ totals' = totals /\ final' = final
      /\ results' = results
  BY DEF LoadForTotal
<1>2. /\ job \in JobIds /\ q \in 1 .. 3 /\ before \in Bags /\ total \in Nat
      /\ reader_pc # "built" /\ reader_pc # "idle" /\ reader_pc # "scan" /\ reader_pc # "merge"
  BY <1>1 DEF HistogramType
<1>3. PICK i \in Indices : i = index
  BY DEF HistogramType
<1>4. PICK c \in Counts : c = buckets[job]
  BY <1>2 DEF HistogramType
<1>5. PICK old \in Counts : old = Bucketed(before)
  <2>1. PICK bag \in Bags : bag = before
    BY <1>2
  <2> QED
    BY <2>1, BucketedType
<1>6. PICK loads \in Counts : Loads(loads)
  BY <1>1 DEF Reading
<1>7. PICK new \in Counts :
        /\ \A k \in Indices : old[k] <= new[k] /\ new[k] <= c[k]
        /\ UpTo(new, i) = Below(loads, i) + c[i]
        /\ loads = c => new = c
  <2>1. \A k \in Indices : old[k] <= loads[k] /\ loads[k] <= c[k]
    BY <1>4, <1>5, <1>6 DEF Loads
  <2> QED
    BY <2>1, FirstLoad
<1>8. PICK sum \in Nat : sum = total + buckets[job][index] /\ sum = UpTo(new, i)
  <2>1. total = Below(loads, i) /\ c[i] \in Nat
    BY <1>1, <1>3, <1>6, CountsType DEF Loads
  <2> QED
    BY <1>2, <1>3, <1>4, <1>7, <2>1
<1>9. final => new = c
  BY <1>4, <1>6, <1>7 DEF Loads
<1>10. cumulative = 0 /\ \A v \in Latencies : before[v] <= recorded[job][v]
  BY <1>1 DEF Reading
<1>11. i \in Nat /\ Indices = 0 .. kMaxBucket /\ kMaxBucket \in Nat
  BY Sizes
<1>12. CASE index < kMaxBucket /\ ~(index = kMaxBucket)
  <2>1. /\ index' = index + 1 /\ total' = sum /\ reader_pc' = reader_pc /\ job' = job
        /\ q' = q /\ cumulative' = cumulative /\ before' = before
        /\ answers' = answers
    BY <1>8, <1>12 DEF LoadForTotal
  <2>2. PICK m \in Indices : m = i + 1 /\ index' = m
    BY <1>3, <1>11, <1>12, <2>1
  <2>3. Below(new, m) = sum
    BY <1>8, <1>11, <2>2, CountsType
  <2>4. HistogramType'
    BY <1>1, <2>1, <2>2 DEF HistogramType
  <2>5. Counted' /\ Built'
    BY <1>1, <1>2, <2>1 DEF Counted, Built
  <2>6. Final'
    BY <1>1, <1>2, <2>1 DEF Final, Answered, Merging
  <2>7. Loads(new)'
    BY <1>1, <1>2, <1>4, <1>5, <1>7, <1>9, <2>1, <2>2, <2>3 DEF Loads
  <2>8. Reading'
    BY <1>1, <1>10, <2>1, <2>7 DEF Reading
  <2> QED
    BY <2>4, <2>5, <2>6, <2>8
<1>13. CASE index = kMaxBucket
  <2>1. sum = SumFunction(new)
    BY <1>3, <1>8, <1>13, SumOfCounts
  <2>2. CASE sum > 0
    <3>1. /\ reader_pc' = "scan" /\ index' = 0 /\ total' = sum /\ job' = job
          /\ q' = q /\ cumulative' = cumulative /\ before' = before
          /\ answers' = answers
      BY <1>3, <1>8, <1>11, <1>13, <2>2 DEF LoadForTotal
    <3>2. 0 \in Indices /\ Below(new, 0) = 0 /\ Below(c, 0) = 0
      BY Sizes, CountsType
    <3>3. 0 < Target(Quantiles[q], sum)
      <4>1. PICK p \in 1 .. 100 : p = Quantiles[q]
        BY <1>2, QuantilesAre
      <4>2. Target(p, sum) \in Nat /\ 1 <= Target(p, sum)
        <5>1. sum \in Nat \ {0}
          BY <2>2
        <5> QED
          BY <5>1, TargetIs
      <4> QED
        BY <4>1, <4>2
    <3>4. HistogramType'
      BY <1>1, <3>1, <3>2 DEF HistogramType
    <3>5. Counted' /\ Built'
      BY <1>1, <1>2, <3>1 DEF Counted, Built
    <3>6. Final'
      BY <1>1, <1>2, <3>1 DEF Final, Answered, Merging
    <3>7. Loads(new)'
      BY <1>1, <1>4, <1>5, <1>7, <1>9, <1>10, <2>1, <2>2, <3>1, <3>2, <3>3
      DEF Loads
    <3>8. Reading'
      BY <1>1, <1>10, <3>1, <3>7 DEF Reading
    <3> QED
      BY <3>4, <3>5, <3>6, <3>8
  <2>3. CASE sum = 0
    <3>1. Return(0)
      BY <1>3, <1>8, <1>11, <1>13, <2>3 DEF LoadForTotal
    <3>2. final => 0 = Percentile(buckets[job], Quantiles[q])
      <4>1. PICK p \in 1 .. 100 : p = Quantiles[q]
        BY <1>2, QuantilesAre
      <4> QED
        BY <1>4, <1>9, <2>1, <2>3, <4>1, PercentileIs
    <3>3. 0 \in Nat
      OBVIOUS
    <3> QED
      BY <1>1, <3>1, <3>2, <3>3, ReturnKeeps
  <2> QED
    BY <2>2, <2>3
<1>14. index \in Nat /\ index <= kMaxBucket
  BY <1>3, <1>11
<1> QED
  BY <1>11, <1>12, <1>13, <1>14

\* The second pass reaches the target no later than the last bucket, since it
\* has loaded no less than the first pass.
LEMMA LastLoadReaches ==
  ASSUME NEW counts \in Counts, NEW loads \in Counts,
         \A k \in Indices : loads[k] <= counts[k],
         NEW p \in 1 .. 100, SumFunction(loads) # 0,
         NEW sum \in Nat, NEW c \in Nat,
         Below(loads, kMaxBucket) <= c, sum = c + counts[kMaxBucket]
  PROVE  sum >= Target(p, SumFunction(loads))
<1>1. PICK n \in Nat \ {0} : n = SumFunction(loads)
  BY SumOfCounts
<1>2. n = Below(loads, kMaxBucket) + loads[kMaxBucket]
  BY <1>1, SumOfCounts, Sizes, CountsType
<1>3. /\ loads[kMaxBucket] \in Nat /\ Below(loads, kMaxBucket) \in Nat
      /\ counts[kMaxBucket] \in Nat /\ loads[kMaxBucket] <= counts[kMaxBucket]
  BY Sizes, CountsType
<1>4. n <= sum
  BY <1>2, <1>3
<1>5. Target(p, n) \in Nat /\ Target(p, n) <= n
  BY TargetIs
<1> QED
  BY <1>1, <1>4, <1>5

\* Both passes of buckets that stand still find the percentile.
LEMMA SecondPassIsQuantile ==
  ASSUME NEW counts \in Counts, NEW p \in 1 .. 100, NEW i \in Indices,
         SumFunction(counts) # 0,
         Below(counts, i) < Target(p, SumFunction(counts)),
         UpTo(counts, i) >= Target(p, SumFunction(counts))
  PROVE  IsQuantile(counts, p, i)
<1>1. PICK n \in Nat \ {0} : n = SumFunction(counts)
  BY SumOfCounts
<1>2. /\ Target(p, n) \in Nat
      /\ \A s \in Nat : s >= Target(p, n) <=> 100 * s >= p * n
  BY TargetIs
<1>3. Below(counts, i) \in Nat /\ UpTo(counts, i) \in Nat /\ p * n \in Nat
  BY CountsType, Products
<1>4. 100 * UpTo(counts, i) >= p * n
  BY <1>1, <1>2, <1>3
<1>5. ~(Below(counts, i) >= Target(p, n))
  BY <1>1, <1>2, <1>3
<1>6. ~(100 * Below(counts, i) >= p * n)
  BY <1>2, <1>3, <1>5
<1> QED
  BY <1>1, <1>3, <1>4, <1>6 DEF IsQuantile

LEMMA LoadForScanKeeps == ASSUME IInv, LoadForScan PROVE IInv'
<1> USE DEF IInv
<1>1. /\ reader_pc = "scan"
      /\ buckets' = buckets /\ recorded' = recorded /\ joined' = joined
      /\ global' = global /\ totals' = totals /\ final' = final
      /\ results' = results
  BY DEF LoadForScan
<1>2. /\ job \in JobIds /\ q \in 1 .. 3 /\ before \in Bags
      /\ cumulative \in Nat /\ total \in Nat
      /\ reader_pc # "built" /\ reader_pc # "idle" /\ reader_pc # "total" /\ reader_pc # "merge"
  BY <1>1 DEF HistogramType
<1>3. PICK i \in Indices : i = index
  BY DEF HistogramType
<1>4. PICK c \in Counts : c = buckets[job]
  BY <1>2 DEF HistogramType
<1>5. PICK loads \in Counts : Loads(loads)
  BY <1>1 DEF Reading
<1>6. /\ \A k \in Indices : loads[k] <= c[k]
      /\ total = SumFunction(loads) /\ total # 0
      /\ Below(loads, i) <= cumulative /\ cumulative <= Below(c, i)
      /\ final => loads = c
  BY <1>1, <1>3, <1>4, <1>5 DEF Loads
<1>7. /\ c[i] \in Nat /\ loads[i] \in Nat /\ loads[i] <= c[i]
      /\ Below(c, i) \in Nat /\ Below(loads, i) \in Nat
      /\ UpTo(c, i) = Below(c, i) + c[i]
      /\ UpTo(loads, i) = Below(loads, i) + loads[i]
  BY <1>6, CountsType
<1>8. PICK sum \in Nat : sum = cumulative + c[i]
                         /\ sum = cumulative + buckets[job][index]
  BY <1>2, <1>3, <1>4, <1>7
<1>9. UpTo(loads, i) <= sum /\ sum <= UpTo(c, i)
  BY <1>2, <1>6, <1>7, <1>8
<1>10. PICK p \in 1 .. 100 : p = Quantiles[q]
  BY <1>2, QuantilesAre
<1>11. i \in Nat /\ Indices = 0 .. kMaxBucket /\ kMaxBucket \in Nat
  BY Sizes
<1>12. CASE ~(AtTarget(sum) \/ index = kMaxBucket)
  <2>1. /\ index' = index + 1 /\ cumulative' = sum /\ reader_pc' = reader_pc /\ job' = job
        /\ q' = q /\ total' = total /\ before' = before /\ answers' = answers
    BY <1>8, <1>12 DEF LoadForScan
  <2>2. PICK m \in Indices : m = i + 1 /\ index' = m
    BY <1>3, <1>11, <1>12, <2>1
  <2>3. Below(loads, m) = UpTo(loads, i) /\ Below(c, m) = UpTo(c, i)
    BY <1>11, <2>2, CountsType
  <2>4. sum < Target(Quantiles[q], total)
    <3>1. total \in Nat \ {0}
      BY <1>2, <1>6
    <3>2. Target(p, total) \in Nat
      BY <3>1, TargetIs
    <3> QED
      BY <1>10, <1>12, <3>2 DEF AtTarget
  <2>5. HistogramType'
    BY <1>1, <2>1, <2>2 DEF HistogramType
  <2>6. Counted' /\ Built'
    BY <1>1, <1>2, <2>1 DEF Counted, Built
  <2>7. Final'
    BY <1>1, <1>2, <2>1 DEF Final, Answered, Merging
  <2>8. Loads(loads)'
    BY <1>1, <1>2, <1>4, <1>5, <1>6, <1>9, <2>1, <2>2, <2>3, <2>4 DEF Loads
  <2>9. Reading'
    BY <1>1, <1>2, <2>1, <2>8 DEF Reading
  <2> QED
    BY <2>5, <2>6, <2>7, <2>9
<1>13. CASE AtTarget(sum) \/ index = kMaxBucket
  <2>1. Return(BucketUpperBound(i))
    BY <1>3, <1>8, <1>13 DEF LoadForScan
  <2>2. sum >= Target(p, total)
    <3>1. index = kMaxBucket => sum >= Target(p, total)
      BY <1>2, <1>3, <1>6, <1>8, LastLoadReaches
    <3> QED
      BY <1>10, <1>13, <3>1 DEF AtTarget
  <2>3. ASSUME final
        PROVE  BucketUpperBound(i) = Percentile(buckets[job], Quantiles[q])
    <3>1. loads = c /\ cumulative = Below(c, i) /\ sum = UpTo(c, i)
      BY <1>2, <1>6, <1>7, <1>8, <2>3
    <3>2. cumulative < Target(p, total)
      BY <1>1, <1>5, <1>10 DEF Loads
    <3>3. IsQuantile(c, p, i)
      BY <1>6, <2>2, <3>1, <3>2, SecondPassIsQuantile
    <3> QED
      BY <1>4, <1>10, <3>3, QuantileIsPercentile
  <2>4. BucketUpperBound(i) \in Nat
    BY BoundsAre
  <2> QED
    BY <1>1, <2>1, <2>3, <2>4, ReturnKeeps
<1> QED
  BY <1>12, <1>13

LEMMA MergeBucketKeeps == ASSUME IInv, MergeBucket PROVE IInv'
<1> USE DEF IInv
<1>1. /\ reader_pc = "merge"
      /\ buckets' = buckets /\ recorded' = recorded /\ joined' = joined
      /\ answers' = answers /\ final' = final /\ results' = results
      /\ global' = [global EXCEPT ![index] = Merged(index)]
  BY DEF MergeBucket
<1>2. /\ job \in JobIds /\ q \in 1 .. 3 /\ before \in Bags /\ total \in Nat
      /\ cumulative \in Nat /\ global \in Counts
      /\ buckets \in [JobIds -> Counts]
      /\ answers \in [JobIds -> [1 .. 3 -> Nat]]
      /\ reader_pc # "built" /\ reader_pc # "idle" /\ reader_pc # "total" /\ reader_pc # "scan"
  BY <1>1 DEF HistogramType
<1>3. PICK i \in Indices : i = index
  BY DEF HistogramType
<1>4. PICK c \in Counts : c = buckets[job]
  BY <1>2
<1>5. c[i] \in Nat /\ global[i] \in Nat
  BY <1>2, CountsType DEF Counts
<1>6. PICK e \in Counts :
        /\ global' = e
        /\ \A k \in Indices :
             e[k] = IF k = i THEN global[i] + c[i] ELSE global[k]
  <2>1. global' = [global EXCEPT ![i] = global[i] + c[i]]
    BY <1>1, <1>3, <1>4 DEF Merged
  <2>2. global \in [Indices -> Nat]
    BY <1>2 DEF Counts
  <2>3. global' \in [Indices -> Nat]
    BY <1>5, <2>1, <2>2
  <2> QED
    BY <2>1, <2>2, <2>3 DEF Counts
<1>7. i \in Nat /\ Indices = 0 .. kMaxBucket /\ kMaxBucket \in Nat
  BY Sizes
<1>8. job \in Nat /\ JobIds = 1 .. JobCount /\ JobCount \in Nat
  BY <1>2, Sizes
<1>9. \A j \in JobIds, n \in 1 .. 3 :
        final /\ j <= job
          => answers[j][n] = Percentile(buckets[j], Quantiles[n])
  <2>1. \A j \in JobIds, n \in 1 .. 3 : j <= job => Answered(j, n)
    BY <1>1, <1>8 DEF Answered
  <2> QED
    BY <2>1 DEF Final
<1>10. final => joined
  BY DEF Final
<1>11. ASSUME final
       PROVE  \E merged \in Counts :
                /\ Summarises(buckets, merged, job - 1)
                /\ \A k \in Indices :
                     e[k] = merged[k] + (IF k < i + 1 THEN c[k] ELSE 0)
  <2>1. PICK merged \in Counts : Merging(merged)
    BY <1>11 DEF Final
  <2>2. \A k \in Indices :
          global[k] = merged[k] + (IF k < i THEN c[k] ELSE 0)
    BY <1>1, <1>3, <1>4, <2>1 DEF Merging
  <2>3. ASSUME NEW k \in Indices
        PROVE  e[k] = merged[k] + (IF k < i + 1 THEN c[k] ELSE 0)
    <3>0. k \in Int
      BY <1>7
    <3>1. k \in Int /\ merged[k] \in Nat /\ c[k] \in Nat
      BY <3>0 DEF Counts
    <3>2. CASE k = i
      <4>1. global[k] = merged[k]
        BY <1>7, <2>2, <3>1, <3>2
      <4> QED
        BY <1>6, <1>7, <3>1, <3>2, <4>1
    <3>3. CASE k # i
      BY <1>6, <1>7, <2>2, <3>1, <3>3
    <3> QED
      BY <3>2, <3>3
  <2>4. Summarises(buckets, merged, job - 1)
    BY <1>1, <2>1 DEF Merging
  <2> QED
    BY <2>3, <2>4
<1>12. CASE index < kMaxBucket /\ ~(index = kMaxBucket)
  <2>1. /\ index' = index + 1 /\ reader_pc' = reader_pc /\ job' = job /\ q' = q
        /\ total' = total /\ cumulative' = cumulative /\ before' = before
        /\ totals' = totals
    BY <1>12 DEF MergeBucket
  <2>2. PICK m \in Indices : m = i + 1 /\ index' = m
    BY <1>3, <1>7, <1>12, <2>1
  <2>3. HistogramType'
    BY <1>1, <1>6, <2>1, <2>2 DEF HistogramType
  <2>4. Counted' /\ Built' /\ Reading'
    BY <1>1, <1>2, <2>1 DEF Counted, Built, Reading
  <2>5. Final'
    <3>1. SUFFICES ASSUME final PROVE Final'
      BY <1>1 DEF Final
    <3>2. PICK merged \in Counts :
            /\ Summarises(buckets, merged, job - 1)
            /\ \A k \in Indices :
                 e[k] = merged[k] + (IF k < i + 1 THEN c[k] ELSE 0)
      BY <1>11, <3>1
    <3>3. Merging(merged)'
      BY <1>1, <1>2, <1>4, <1>6, <2>1, <2>2, <3>2 DEF Merging
    <3>4. \A j \in JobIds, n \in 1 .. 3 :
            Answered(j, n)'
              => answers'[j][n] = Percentile(buckets[j], Quantiles[n])
      BY <1>1, <2>1, <3>1 DEF Final, Answered
    <3> QED
      BY <1>1, <1>10, <3>1, <3>3, <3>4 DEF Final
  <2> QED
    BY <2>3, <2>4, <2>5
<1>13. ASSUME index = kMaxBucket, final
       PROVE  Summarises(buckets, e, job)
  <2>1. PICK merged \in Counts :
          /\ Summarises(buckets, merged, job - 1)
          /\ \A k \in Indices :
               e[k] = merged[k] + (IF k < i + 1 THEN c[k] ELSE 0)
    BY <1>11, <1>13
  <2>2. PICK bs \in [JobIds -> Counts] : bs = buckets
    BY <1>2
  <2>3. PICK m \in JobIds : m = job
    BY <1>2
  <2>4. PICK k \in Nat : k = job - 1 /\ m = k + 1
    BY <1>8, <2>3
  <2>5. \A x \in Indices : e[x] = merged[x] + bs[m][x]
    <3>1. \A x \in Indices : x < i + 1
      BY <1>3, <1>7, <1>13
    <3> QED
      BY <1>4, <2>1, <2>2, <2>3, <3>1
  <2>6. Summarises(bs, merged, k)
    BY <2>1, <2>2, <2>4
  <2>7. Summarises(bs, e, m)
    BY <2>4, <2>5, <2>6, SummarisesNext
  <2> QED
    BY <2>2, <2>3, <2>7
<1>14. CASE index = kMaxBucket /\ job < JobCount
  <2>1. Enter(job + 1, 1) /\ totals' = totals
    BY <1>3, <1>7, <1>8, <1>14 DEF MergeBucket
  <2>2. PICK m \in JobIds : m = job + 1
    BY <1>8, <1>14
  <2>3. 1 \in 1 .. 3 /\ Enter(m, 1)
    BY <2>1, <2>2
  <2>4. /\ Reading' /\ reader_pc' = "total" /\ job' = m /\ q' = 1 /\ index' = 0
        /\ index' \in Indices /\ total' \in Nat /\ cumulative' \in Nat
        /\ before' \in Bags
    BY <1>1, <2>3, EnterReads
  <2>5. HistogramType'
    <3>1. /\ q' \in 1 .. 3 /\ job' \in JobIds
          /\ reader_pc' \in {"idle", "total", "scan", "merge", "built"}
      BY <2>3, <2>4
    <3>2. global' \in Counts
      BY <1>6
    <3>3. /\ buckets' \in [JobIds -> Counts] /\ recorded' \in [JobIds -> Bags]
          /\ joined' \in BOOLEAN /\ final' \in BOOLEAN
          /\ answers' \in [JobIds -> [1 .. 3 -> Nat]]
      BY <1>1 DEF HistogramType
    <3> QED
      BY <2>4, <3>1, <3>2, <3>3 DEF HistogramType
  <2>6. Counted' /\ Built'
    BY <1>1, <2>4 DEF Counted, Built
  <2>7. Final'
    <3>1. SUFFICES ASSUME final PROVE Final'
      BY <1>1 DEF Final
    <3>2. ASSUME NEW j \in JobIds, NEW n \in 1 .. 3, Answered(j, n)'
          PROVE  answers'[j][n] = Percentile(buckets[j], Quantiles[n])
      <4>1. j < m \/ (j = m /\ n < 1)
        BY <2>4, <3>2 DEF Answered
      <4>2. j <= job
        BY <1>8, <2>2, <4>1
      <4> QED
        BY <1>1, <1>9, <3>1, <4>2
    <3>3. Merging(e)'
      <4>1. Summarises(buckets, e, m - 1)
        <5>1. m - 1 = job
          BY <1>8, <2>2
        <5> QED
          BY <1>13, <1>14, <3>1, <5>1
      <4>2. \A k \in Indices : e[k] = e[k] + 0
        BY CountsType
      <4> QED
        BY <1>1, <1>6, <2>4, <4>1, <4>2 DEF Merging
    <3> QED
      BY <1>1, <1>10, <3>1, <3>2, <3>3 DEF Final
  <2> QED
    BY <2>4, <2>5, <2>6, <2>7
<1>15. CASE index = kMaxBucket /\ job = JobCount
  <2>1. /\ reader_pc' = "idle" /\ job' = 1 /\ q' = 1 /\ index' = 0
        /\ totals' = [n \in DOMAIN Quantiles |->
                        Percentile(global', Quantiles[n])]
        /\ total' = total /\ cumulative' = cumulative /\ before' = before
    <3>1. ~(index < kMaxBucket) /\ ~(job < JobCount)
      BY <1>7, <1>8, <1>15
    <3> QED
      BY <3>1 DEF MergeBucket
  <2>2. 1 \in JobIds /\ 1 \in 1 .. 3 /\ 0 \in Indices
    BY Sizes
  <2>3. HistogramType'
    BY <1>1, <1>6, <2>1, <2>2 DEF HistogramType
  <2>4. Counted' /\ Built' /\ Reading'
    BY <1>1, <2>1 DEF Counted, Built, Reading
  <2>5. Final'
    <3>1. SUFFICES ASSUME final PROVE Final'
      BY <1>1 DEF Final
    <3>2. \A j \in JobIds, n \in 1 .. 3 :
            answers'[j][n] = Percentile(buckets[j], Quantiles[n])
      BY <1>1, <1>8, <1>9, <1>15, <3>1
    <3>3. Merging(e)'
      <4>1. Summarises(buckets, e, JobCount)
        BY <1>13, <1>15, <3>1
      <4> QED
        BY <1>1, <1>6, <2>1, <4>1 DEF Merging
    <3> QED
      BY <1>1, <1>10, <3>1, <3>2, <3>3 DEF Final
  <2> QED
    BY <2>3, <2>4, <2>5
<1>16. index \in Nat /\ index <= kMaxBucket /\ job <= JobCount
  BY <1>2, <1>3, <1>7, <1>8
<1> QED
  BY <1>7, <1>8, <1>12, <1>14, <1>15, <1>16

LEMMA BuildResultsKeeps == ASSUME IInv, BuildResults PROVE IInv'
<1>1. /\ reader_pc = "idle" /\ final /\ reader_pc' = "built"
      /\ buckets' = buckets /\ recorded' = recorded /\ joined' = joined
      /\ job' = job /\ q' = q /\ index' = index
      /\ total' = total /\ cumulative' = cumulative /\ before' = before
      /\ global' = global /\ answers' = answers /\ totals' = totals
      /\ final' = final
      /\ results' = [j \in JobIds |-> Summary(buckets[j])]
  BY DEF BuildResults, Summary
<1>2. HistogramType' /\ Counted' /\ Built' /\ Reading'
  BY <1>1 DEF IInv, HistogramType, Counted, Built, Reading
<1>3. Final'
  BY <1>1 DEF IInv, Final, Answered, Merging
<1> QED
  BY <1>2, <1>3 DEF IInv

LEMMA StutterKeeps == ASSUME IInv, UNCHANGED histogramVars PROVE IInv'
<1>1. /\ buckets' = buckets /\ recorded' = recorded /\ joined' = joined
      /\ reader_pc' = reader_pc /\ job' = job /\ q' = q /\ index' = index
      /\ total' = total /\ cumulative' = cumulative /\ before' = before
      /\ global' = global /\ answers' = answers /\ totals' = totals
      /\ final' = final /\ results' = results
  BY DEF histogramVars, reading, shown
<1>2. HistogramType' /\ Counted' /\ Built'
  BY <1>1 DEF IInv, HistogramType, Counted, Built
<1>3. Reading'
  BY <1>1 DEF IInv, Reading, Loads
<1>4. Final'
  BY <1>1 DEF IInv, Final, Answered, Merging
<1> QED
  BY <1>2, <1>3, <1>4 DEF IInv

LEMMA InitIInv == HistogramInit => IInv
<1> SUFFICES ASSUME HistogramInit PROVE IInv
  OBVIOUS
<1>1. /\ buckets = [j \in JobIds |-> Zeroes]
      /\ recorded = [j \in JobIds |-> NoLatency]
      /\ joined = FALSE /\ final = FALSE /\ reader_pc = "idle" /\ job = 1 /\ q = 1
      /\ index = 0 /\ total = 0 /\ cumulative = 0 /\ before = NoLatency
      /\ global = Zeroes /\ answers = [j \in JobIds |-> <<0, 0, 0>>]
  BY DEF HistogramInit
<1>2. /\ NoLatency \in Bags /\ Zeroes \in Counts
      /\ Bucketed(NoLatency) = Zeroes
  BY BucketedNone
<1>3. 1 \in JobIds /\ 1 \in 1 .. 3 /\ 0 \in Indices
  BY Sizes
<1>4. answers \in [JobIds -> [1 .. 3 -> Nat]]
  <2>1. <<0, 0, 0>> \in [1 .. 3 -> Nat]
    OBVIOUS
  <2> QED
    BY <1>1, <2>1
<1>5. HistogramType
  BY <1>1, <1>2, <1>3, <1>4 DEF HistogramType
<1>6. Counted
  BY <1>1, <1>2 DEF Counted
<1>7. Reading /\ Final /\ Built
  BY <1>1 DEF Reading, Final, Built
<1> QED
  BY <1>5, <1>6, <1>7 DEF IInv

LEMMA NextIInv == ASSUME FullRange, IInv, [HistogramNext]_histogramVars PROVE IInv'
<1>1. CASE \E j \in JobIds, v \in Latencies : Record(j, v)
  BY <1>1, RecordKeeps
<1>2. CASE JoinWorkers
  BY <1>2, JoinKeeps
<1>3. CASE BeginSnapshot
  BY <1>3, BeginKeeps
<1>4. CASE LoadForTotal
  BY <1>4, LoadForTotalKeeps
<1>5. CASE LoadForScan
  BY <1>5, LoadForScanKeeps
<1>6. CASE MergeBucket
  BY <1>6, MergeBucketKeeps
<1>7. CASE BuildResults
  BY <1>7, BuildResultsKeeps
<1>8. CASE UNCHANGED histogramVars
  BY <1>8, StutterKeeps
<1> QED
  BY <1>1, <1>2, <1>3, <1>4, <1>5, <1>6, <1>7, <1>8 DEF HistogramNext, HistogramDone

\* The inductive invariant holds throughout.
THEOREM Invariance == ASSUME FullRange PROVE HistogramSpec => []IInv
<1>1. HistogramInit => IInv
  BY InitIInv
<1>2. IInv /\ [HistogramNext]_histogramVars => IInv'
  BY NextIInv
<1> QED
  BY <1>1, <1>2, PTL DEF HistogramSpec

-----------------------------------------------------------------------------
(***************************************************************************)
(* What BuildResults reports, and the total of the last snapshot.          *)
(***************************************************************************)

LEMMA OrderedBySnapshot ==
  ASSUME FullRange, IInv PROVE ResultsOrdered
<1> SUFFICES ASSUME reader_pc = "built" PROVE ResultsOrdered
  BY DEF ResultsOrdered
<1> USE DEF IInv
<1>1. /\ results = [j \in JobIds |-> Summary(buckets[j])]
      /\ \A j \in JobIds, n \in 1 .. 3 :
           answers[j][n] = Percentile(buckets[j], Quantiles[n])
      /\ \E merged \in Counts : Merging(merged)
  BY DEF Built, Final, Answered
<1>2. /\ buckets \in [JobIds -> Counts] /\ recorded \in [JobIds -> Bags]
      /\ answers \in [JobIds -> [1 .. 3 -> Nat]]
  BY DEF HistogramType
<1>3. /\ DOMAIN Quantiles = 1 .. 3
      /\ \A n \in 1 .. 3 : Quantiles[n] \in 1 .. 100
  BY QuantilesAre
<1>4. ASSUME NEW j \in JobIds
      PROVE  LET r == results[j]
             IN  /\ r.min <= r.p[1] /\ r.p[1] <= r.p[2]
                 /\ r.p[2] <= r.p[3] /\ r.p[3] <= r.max
                 /\ Count(recorded[j], r.min .. r.max)
                      = SumFunction(recorded[j])
                 /\ r.p = answers[j]
  <2>1. PICK bag \in Bags : bag = recorded[j]
    BY <1>2
  <2>2. buckets[j] = Bucketed(bag)
    BY <2>1 DEF Counted
  <2>3. PICK r : r = results[j]
    OBVIOUS
  <2>4. r = Summary(Bucketed(bag))
    BY <1>1, <2>2, <2>3
  <2>5. /\ r.min <= r.p[1] /\ r.p[1] <= r.p[2]
        /\ r.p[2] <= r.p[3] /\ r.p[3] <= r.max
        /\ Count(bag, r.min .. r.max) = SumFunction(bag)
    BY <2>4, SummaryOrdered
  <2>6. r.p = [n \in 1 .. 3 |-> Percentile(buckets[j], Quantiles[n])]
    BY <1>3, <2>2, <2>4 DEF Summary
  <2>7. PICK shown_j \in [1 .. 3 -> Nat] : shown_j = answers[j]
    BY <1>2
  <2>8. \A n \in 1 .. 3 : shown_j[n] = Percentile(buckets[j], Quantiles[n])
    BY <1>1, <2>7
  <2>9. r.p = shown_j
    BY <2>6, <2>8
  <2> QED
    BY <2>1, <2>3, <2>5, <2>7, <2>9
<1>5. ASSUME NEW n \in DOMAIN Quantiles
      PROVE  LET p == {answers[j][n] : j \in JobIds} \ {0}
             IN  IF p = {} THEN totals[n] = 0
                 ELSE totals[n] \in Min(p) .. Max(p)
  <2>1. PICK merged \in Counts :
          /\ Summarises(buckets, merged, JobCount)
          /\ totals[n] = Percentile(merged, Quantiles[n])
    BY <1>1 DEF Merging
  <2>2. PICK bs \in [JobIds -> Counts] : bs = buckets
    BY <1>2
  <2>3. PICK percent \in 1 .. 100 : percent = Quantiles[n]
    BY <1>3
  <2>4. PICK P : P = {answers[j][n] : j \in JobIds} \ {0}
    OBVIOUS
  <2>5. \A j \in JobIds : answers[j][n] = Percentile(bs[j], percent)
    BY <1>1, <1>3, <2>2, <2>3
  <2>6. P = {Percentile(bs[j], percent) : j \in JobIds} \ {0}
    BY <2>4, <2>5
  <2>7. IF P = {} THEN Percentile(merged, percent) = 0
        ELSE Percentile(merged, percent) \in Min(P) .. Max(P)
    BY <2>1, <2>2, <2>6, TotalBetween
  <2> QED
    BY <2>1, <2>3, <2>4, <2>7
<1> QED
  BY <1>4, <1>5 DEF ResultsOrdered

\* test_metrics_aggregator.cpp:324: BuildResults reports min <= p50 <= p95 <=
\* p99 <= max, bounds that enclose every recorded value and the percentiles
\* the last snapshot has shown, and each percentile of that snapshot's total
\* lies between the smallest and the largest of the jobs that did any I/O.
THEOREM ResultsAreOrdered == ASSUME FullRange PROVE HistogramSpec => []ResultsOrdered
<1>1. HistogramSpec => []IInv
  BY Invariance
<1>2. IInv => ResultsOrdered
  BY OrderedBySnapshot
<1> QED
  BY <1>1, <1>2, PTL

-----------------------------------------------------------------------------
(***************************************************************************)
(* What a percentile returns while values are recorded.                    *)
(***************************************************************************)

\* The smallest value of a bucket, from its largest, is its lower bound.
LEMMA LeastIs ==
  ASSUME NEW i \in Indices, NEW v \in Nat, v = BucketUpperBound(i)
  PROVE  /\ v # 0
         /\ (IF v = 1 THEN 0 ELSE (v + 1) \div 2) = BucketLowerBound(i)
<1>1. /\ v # 0
      /\ i = 0 => BucketLowerBound(i) = 0 /\ v = 1
      /\ i # 0 => BucketLowerBound(i) = 2 ^ i /\ v = 2 * 2 ^ i - 1
  BY BoundsAre
<1>2. CASE i = 0
  BY <1>1, <1>2
<1>3. CASE i # 0
  <2>1. i \in 1 .. Width - 1
    <3>1. /\ i \in 0 .. kMaxBucket /\ BucketCount \in 1 .. Width
          /\ Width \in Nat
      BY Sizes
    <3> QED
      BY <1>3, <3>1 DEF kMaxBucket
  <2>2. PICK x \in Nat : x = 2 ^ i /\ x # 1
    <3>1. i - 1 \in 0 .. Width - 1 /\ i \in 0 .. Width /\ (i - 1) + 1 = i
      BY <2>1, Sizes
    <3>2. 2 ^ (i - 1) \in Nat \ {0}
      BY <3>1, Sizes, PowerTypes
    <3>3. 2 ^ i = 2 * 2 ^ (i - 1)
      BY <3>1, PowerTypes
    <3> QED
      BY <3>2, <3>3
  <2>3. v = 2 * x - 1 /\ v # 1 /\ (v + 1) \div 2 = x
    BY <1>1, <1>3, <2>2
  <2> QED
    BY <1>1, <1>3, <2>2, <2>3
<1> QED
  BY <1>2, <1>3

\* The values below a bucket are those of the buckets before it.
LEMMA CountBelow ==
  ASSUME NEW bag \in Bags, NEW i \in Indices
  PROVE  Count(bag, 0 .. BucketLowerBound(i) - 1) = Below(Bucketed(bag), i)
<1>1. PICK c \in Counts : c = Bucketed(bag)
  BY BucketedType
<1>2. CASE i = 0
  <2>1. 0 .. BucketLowerBound(i) - 1 = {}
    BY <1>2, BoundsAre
  <2>2. Count(bag, {}) = 0
    <3>1. PICK S : S = Latencies \cap {}
      OBVIOUS
    <3>2. IsFiniteSet(S) /\ \A x \in S : bag[x] = 0
      BY <3>1, FiniteDomains
    <3> QED
      BY <3>1, <3>2, SumOfZeroes DEF Count
  <2> QED
    BY <1>1, <1>2, <2>1, <2>2, CountsType
<1>3. CASE i # 0
  <2>1. PICK k \in Indices : k = i - 1 /\ Below(c, i) = UpTo(c, k)
    BY <1>3, CountsType
  <2>2. BucketUpperBound(k) = BucketLowerBound(i) - 1
    <3>1. k + 1 = i
      BY <2>1, Sizes
    <3>2. BucketUpperBound(k) = 2 ^ i - 1
      BY <3>1, BoundsAre
    <3> QED
      BY <1>3, <3>2, BoundsAre
  <2> QED
    BY <1>1, <2>1, <2>2, BucketedUpTo
<1> QED
  BY <1>2, <1>3

\* Whatever the first pass has loaded in between, the bucket at which the
\* second one reaches its target brackets the percentile.
LEMMA BracketsHold ==
  ASSUME FullRange, NEW old \in Bags, NEW new \in Bags, NEW loads \in Counts,
         \A k \in Indices : /\ Bucketed(old)[k] <= loads[k]
                            /\ loads[k] <= Bucketed(new)[k],
         NEW p \in 1 .. 100, NEW i \in Indices, SumFunction(loads) # 0,
         NEW c \in Nat, Below(loads, i) <= c, c <= Below(Bucketed(new), i),
         c < Target(p, SumFunction(loads)),
         c + Bucketed(new)[i] >= Target(p, SumFunction(loads)),
         NEW v \in Nat, v = BucketUpperBound(i)
  PROVE  v # 0 /\ Brackets(v, p, old, new)
<1>1. PICK a \in Counts : a = Bucketed(old)
  BY BucketedType
<1>2. PICK d \in Counts : d = Bucketed(new)
  BY BucketedType
<1>3. \A k \in Indices : a[k] <= loads[k] /\ loads[k] <= d[k]
  BY <1>1, <1>2
<1>4. PICK n \in Nat \ {0} : n = SumFunction(loads)
  BY SumOfCounts
<1>5. PICK na \in Nat : na = SumFunction(a) /\ na = SumFunction(old)
  BY <1>1, BucketedAll
<1>6. PICK nd \in Nat : nd = SumFunction(d) /\ nd = SumFunction(new)
  BY <1>2, BucketedAll
<1>7. na <= n /\ n <= nd
  <2>1. kMaxBucket \in Indices
    BY Sizes
  <2>2. UpTo(a, kMaxBucket) <= UpTo(loads, kMaxBucket)
    BY <1>3, <2>1, UpToMonotone
  <2>3. UpTo(loads, kMaxBucket) <= UpTo(d, kMaxBucket)
    BY <1>3, <2>1, UpToMonotone
  <2> QED
    BY <1>4, <1>5, <1>6, <2>2, <2>3, SumOfCounts
<1>8. PICK t \in Nat : /\ t = Target(p, n)
                       /\ \A s \in Nat : s >= t <=> 100 * s >= p * n
  BY TargetIs
<1>9. p \in Nat /\ p * na \in Nat /\ p * n \in Nat /\ p * nd \in Nat
  BY Products
<1>10. p * na <= p * n /\ p * n <= p * nd
  BY <1>7, <1>9, ProductMonotone
<1>11. PICK least \in Nat : /\ least = BucketLowerBound(i)
                            /\ least = IF v = 1 THEN 0 ELSE (v + 1) \div 2
  BY LeastIs, BoundsAre
<1>12. 100 * Count(new, 0 .. v) >= p * SumFunction(old)
  <2>1. PICK u \in Nat : u = UpTo(d, i) /\ u = Count(new, 0 .. v)
    BY <1>2, BucketedUpTo, CountsType
  <2>2. u = Below(d, i) + d[i] /\ Below(d, i) \in Nat /\ d[i] \in Nat
    BY <2>1, CountsType
  <2>3. PICK s \in Nat : s = c + d[i] /\ s <= u
    BY <1>2, <2>1, <2>2
  <2>4. s >= t
    <3>1. c + d[i] >= t
      BY <1>2, <1>4, <1>8
    <3> QED
      BY <2>3, <3>1
  <2>5. 100 * s >= p * n
    BY <1>8, <2>3, <2>4
  <2>6. 100 * u >= p * na
    <3>1. PICK x \in Nat : x = p * na
      BY <1>9
    <3>2. PICK y \in Nat : y = p * n
      BY <1>9
    <3>3. x <= y /\ 100 * s >= y /\ s <= u
      BY <1>10, <2>3, <2>5, <3>1, <3>2
    <3> QED
      BY <3>1, <3>3
  <2> QED
    BY <1>5, <2>1, <2>6
<1>13. 100 * Count(old, 0 .. least - 1) < p * SumFunction(new)
  <2>1. PICK b \in Nat : b = Below(a, i) /\ b = Count(old, 0 .. least - 1)
    <3>1. Count(old, 0 .. least - 1) = Below(a, i)
      BY <1>1, <1>11, CountBelow
    <3>2. Below(a, i) \in Nat
      BY CountsType
    <3> QED
      BY <3>1, <3>2
  <2>2. b <= Below(loads, i) /\ Below(loads, i) \in Nat
    BY <1>3, <2>1, UpToMonotone, CountsType
  <2>3. b <= c /\ ~(c >= t)
    BY <1>4, <1>8, <2>1, <2>2
  <2>4. ~(100 * c >= p * n)
    BY <1>8, <2>3
  <2>5. 100 * b < p * nd
    BY <1>9, <1>10, <2>1, <2>3, <2>4
  <2> QED
    BY <1>6, <2>1, <2>5
<1>14. Count(new, least .. v) > 0
  <2>1. Count(new, least .. v) = d[i]
    BY <1>2, <1>11 DEF Bucketed, Span
  <2>2. d[i] \in Nat /\ c < t /\ c + d[i] >= t
    BY <1>2, <1>4, <1>8, CountsType
  <2> QED
    BY <1>8, <2>1, <2>2
<1>15. v # 0
  BY BoundsAre
<1> QED
  BY <1>11, <1>12, <1>13, <1>14, <1>15 DEF Brackets

LEMMA AnswerIs ==
  ASSUME HistogramType, NEW value \in Nat, Return(value)
  PROVE  answers'[job][q] = value
<1>1. answers' = [answers EXCEPT ![job][q] = value]
  BY DEF Return
<1>2. job \in JobIds /\ q \in 1 .. 3 /\ answers \in [JobIds -> [1 .. 3 -> Nat]]
  BY DEF HistogramType
<1> QED
  BY <1>1, <1>2

\* Without any values in the first pass, there were none at the start.
LEMMA NoneLoaded ==
  ASSUME FullRange, IInv, LoadForTotal, index = kMaxBucket,
         total + buckets[job][index] = 0
  PROVE  SumFunction(before) = 0
<1> USE DEF IInv
<1>1. reader_pc = "total"
  BY DEF LoadForTotal
<1>2. PICK loads \in Counts : Loads(loads)
  BY <1>1 DEF Reading
<1>3. PICK bag \in Bags : bag = before
  BY DEF HistogramType
<1>4. PICK old \in Counts : old = Bucketed(bag)
  BY BucketedType
<1>5. PICK c \in Counts : c = buckets[job]
  BY DEF HistogramType
<1>6. PICK i \in Indices : i = index /\ i = kMaxBucket
  BY DEF HistogramType
<1>7. \A k \in Indices : old[k] <= loads[k] /\ loads[k] <= c[k]
  BY <1>2, <1>3, <1>4, <1>5 DEF Loads
<1>8. PICK new \in Counts :
        /\ \A k \in Indices : old[k] <= new[k] /\ new[k] <= c[k]
        /\ UpTo(new, i) = Below(loads, i) + c[i]
  BY <1>7, FirstLoad
<1>9. UpTo(new, i) = 0
  BY <1>1, <1>2, <1>5, <1>6, <1>8 DEF Loads
<1>10. UpTo(old, i) <= UpTo(new, i) /\ UpTo(old, i) \in Nat
  BY <1>8, UpToMonotone, CountsType
<1>11. SumFunction(old) = 0
  BY <1>6, <1>9, <1>10, SumOfCounts
<1> QED
  BY <1>3, <1>4, <1>11, BucketedAll

\* The second pass returns the bound of the bucket at which it ends.
LEMMA ScanBrackets ==
  ASSUME FullRange, IInv, LoadForScan, <<reader_pc, q>>' # <<reader_pc, q>>
  PROVE  /\ answers'[job][q] # 0
         /\ Brackets(answers'[job][q], Quantiles[q], before, recorded[job])
<1> USE DEF IInv
<1>1. reader_pc = "scan"
  BY DEF LoadForScan
<1>2. /\ job \in JobIds /\ q \in 1 .. 3 /\ cumulative \in Nat /\ total \in Nat
  BY DEF HistogramType
<1>3. PICK i \in Indices : i = index
  BY DEF HistogramType
<1>4. PICK old \in Bags : old = before
  BY DEF HistogramType
<1>5. PICK new \in Bags : new = recorded[job]
  BY <1>2 DEF HistogramType
<1>6. PICK d \in Counts : d = buckets[job] /\ d = Bucketed(new)
  BY <1>2, <1>5 DEF HistogramType, Counted
<1>7. PICK loads \in Counts : Loads(loads)
  BY <1>1 DEF Reading
<1>8. PICK p \in 1 .. 100 : p = Quantiles[q]
  BY <1>2, QuantilesAre
<1>9. PICK c \in Nat : c = cumulative
  BY <1>2
<1>10. /\ \A k \in Indices : Bucketed(old)[k] <= loads[k] /\ loads[k] <= d[k]
       /\ total = SumFunction(loads) /\ SumFunction(loads) # 0
       /\ Below(loads, i) <= c /\ c <= Below(d, i)
       /\ c < Target(p, SumFunction(loads))
  BY <1>1, <1>3, <1>4, <1>6, <1>7, <1>8, <1>9 DEF Loads
<1>11. PICK sum \in Nat : /\ sum = c + d[i]
                          /\ sum = cumulative + buckets[job][index]
  <2>1. d[i] \in Nat
    BY CountsType
  <2> QED
    BY <1>3, <1>6, <1>9, <2>1
<1>12. (AtTarget(sum) \/ index = kMaxBucket) /\ Return(BucketUpperBound(i))
  BY <1>3, <1>11 DEF LoadForScan
<1>13. sum >= Target(p, SumFunction(loads))
  <2>1. CASE AtTarget(sum)
    BY <1>8, <1>10, <2>1 DEF AtTarget
  <2>2. CASE index = kMaxBucket
    <3>1. \A k \in Indices : loads[k] <= d[k]
      BY <1>10
    <3>2. Below(loads, kMaxBucket) <= c /\ sum = c + d[kMaxBucket]
      BY <1>3, <1>10, <1>11, <2>2
    <3> QED
      BY <1>10, <3>1, <3>2, LastLoadReaches
  <2> QED
    BY <1>12, <2>1, <2>2
<1>14. PICK v \in Nat : v = BucketUpperBound(i)
  BY BoundsAre
<1>15. answers'[job][q] = v
  BY <1>12, <1>14, AnswerIs
<1>16. v # 0 /\ Brackets(v, p, old, new)
  BY <1>6, <1>10, <1>11, <1>13, <1>14, BracketsHold
<1> QED
  BY <1>4, <1>5, <1>8, <1>15, <1>16

\* Whatever is recorded during the two passes of a percentile, what it returns
\* is the bound of a bucket that holds a value, and a percentile of the values
\* recorded at its start and at its end up to those recorded in between
\* (Log2Histogram::Percentile, read while the workers record).
THEOREM PercentilesAreBracketed ==
  ASSUME FullRange PROVE HistogramSpec => PercentileBracketed
<1> DEFINE Told(j, n) ==
             reader_pc \in {"total", "scan"} /\ job = j /\ q = n
               /\ <<reader_pc, q>>' # <<reader_pc, q>> /\ reader_pc' # "scan"
             => LET v == answers'[j][n]
                IN  IF v = 0 THEN SumFunction(before) = 0
                    ELSE Brackets(v, Quantiles[n], before, recorded[j])
<1>1. ASSUME IInv, [HistogramNext]_histogramVars, NEW j \in JobIds, NEW n \in DOMAIN Quantiles
      PROVE  Told(j, n)
  <2> SUFFICES ASSUME reader_pc \in {"total", "scan"}, job = j, q = n,
                      <<reader_pc, q>>' # <<reader_pc, q>>, reader_pc' # "scan"
               PROVE  IF answers'[j][n] = 0 THEN SumFunction(before) = 0
                      ELSE Brackets(answers'[j][n], Quantiles[n], before,
                                    recorded[j])
    OBVIOUS
  <2>1. CASE LoadForTotal
    <3>1. PICK sum : sum = total + buckets[job][index]
      OBVIOUS
    <3>2. index = kMaxBucket /\ sum = 0 /\ Return(0)
      BY <2>1, <3>1 DEF LoadForTotal
    <3>3. 0 \in Nat /\ HistogramType
      BY <1>1 DEF IInv
    <3>4. answers'[job][q] = 0
      BY <3>2, <3>3, AnswerIs
    <3> QED
      BY <1>1, <2>1, <3>1, <3>2, <3>4, NoneLoaded
  <2>2. CASE LoadForScan
    BY <1>1, <2>2, ScanBrackets
  <2>3. LoadForTotal \/ LoadForScan
    <3>1. ~UNCHANGED <<reader_pc, q>>
      OBVIOUS
    <3> QED
      BY <1>1, <3>1 DEF HistogramNext, Record, JoinWorkers, BeginSnapshot, MergeBucket,
                        BuildResults, HistogramDone, histogramVars, reading
  <2> QED
    BY <2>1, <2>2, <2>3
<1>2. IInv /\ [HistogramNext]_histogramVars
        => [\A j \in JobIds, n \in DOMAIN Quantiles : Told(j, n)]_histogramVars
  BY <1>1
<1>3. HistogramSpec => []IInv
  BY Invariance
<1> QED
  BY <1>2, <1>3, PTL DEF HistogramSpec, PercentileBracketed
=============================================================================
