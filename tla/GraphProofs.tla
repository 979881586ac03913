----------------------------- MODULE GraphProofs -----------------------------
(***************************************************************************)
(* Every sub plot can be read, for every set of rows whose values have a   *)
(* step (with MaxPower = 38, any 64-bit values), every size of a drawn     *)
(* unit and every power of ten that stands for 1.0: both axes are round,   *)
(* close to the data, complete and without a repeated text                 *)
(* (AxesAreReadable), and the curves stay in the plot, in the order of     *)
(* time and of values (CurvesStayInPlot).                                  *)
(*                                                                         *)
(* The widget's invariant is short: it shows the rows it was given last.   *)
(* The argument is in the operators: a step is 1, 2 or 5 times the largest *)
(* power of ten that leaves at least five of it (NiceTickStepIs), so at    *)
(* most five steps reach the value (AxisScaleIs); a step below one drawn   *)
(* unit divides it and becomes it (FineScaleIs), any other is a number of  *)
(* units (CoarseStepIsWhole), so ticks are whole units and differ.         *)
(***************************************************************************)
EXTENDS QtGraphWidget, SequenceTheorems, FiniteSetTheorems, TLAPS

-----------------------------------------------------------------------------
(***************************************************************************)
(* The largest and the smallest number of a set.                           *)
(***************************************************************************)

\* A finite set of numbers has a largest one: a smallest set without one
\* would, less any of its members, be a smaller such set.
LEMMA FiniteMax ==
  ASSUME NEW S, IsFiniteSet(S), S \subseteq Int, S # {}
  PROVE  \E m \in S : \A y \in S : y <= m
<1> DEFINE F == FiniteSubsetsOf(Int)
           R == StrictSubsetOrdering(Int)
           Bad == {A \in F : A # {} /\ ~\E m \in A : \A y \in A : y <= m}
<1>1. IsWellFoundedOn(R, F)
  BY FS_StrictSubsetOrderingWellFounded
<1>2. SUFFICES ASSUME Bad # {} PROVE FALSE
  <2>1. S \in F
    BY DEF FiniteSubsetsOf
  <2> QED
    BY <2>1, <1>2
<1>3. Bad \subseteq F
  OBVIOUS
<1> HIDE DEF F, R
<1>4. PICK A \in Bad : \A B \in Bad : ~(<<B, A>> \in R)
  <2> HIDE DEF Bad
  <2> QED
    BY <1>1, <1>2, <1>3, WFMin
<1> USE DEF F, R
<1>5. /\ A \subseteq Int /\ IsFiniteSet(A) /\ A # {}
      /\ ~\E m \in A : \A y \in A : y <= m
  BY <1>4 DEF FiniteSubsetsOf
<1>6. PICK x \in A : TRUE
  BY <1>5
<1>7. PICK B : B = A \ {x}
  OBVIOUS
<1>8. IsFiniteSet(B) /\ B \subseteq Int /\ B \in F
  BY <1>5, <1>6, <1>7, FS_RemoveElement DEF FiniteSubsetsOf
<1>9. <<B, A>> \in R
  BY <1>5, <1>6, <1>7, <1>8 DEF StrictSubsetOrdering
<1>10. B \notin Bad
  BY <1>4, <1>9
<1>11. CASE B = {}
  <2>1. A = {x}
    BY <1>6, <1>7, <1>11
  <2>2. \A y \in A : y <= x
    BY <1>5, <2>1
  <2> QED
    BY <1>5, <1>6, <2>2
<1>12. CASE B # {}
  <2>1. PICK m \in B : \A y \in B : y <= m
    BY <1>8, <1>10, <1>12
  <2>2. m \in Int /\ x \in Int /\ m \in A
    BY <1>5, <1>6, <1>7, <1>8, <2>1
  <2>3. \A y \in A : y = x \/ y \in B
    BY <1>7
  <2>4. CASE x <= m
    <3>1. \A y \in A : y <= m
      BY <2>1, <2>3, <2>4
    <3> QED
      BY <1>5, <2>2, <3>1
  <2>5. CASE ~(x <= m)
    <3>1. \A y \in A : y <= x
      <4> SUFFICES ASSUME NEW y \in A PROVE y <= x
        OBVIOUS
      <4>1. y \in Int
        BY <1>5
      <4> QED
        BY <2>1, <2>2, <2>3, <2>5, <4>1
    <3> QED
      BY <1>5, <1>6, <3>1
  <2> QED
    BY <2>4, <2>5
<1> QED
  BY <1>11, <1>12

\* Max of naturals below a bound.
LEMMA MaxOfBounded ==
  ASSUME NEW S, S \subseteq Nat, S # {}, NEW n \in Nat, \A s \in S : s <= n
  PROVE  /\ Max(S) \in S /\ Max(S) \in Nat /\ Max(S) <= n
         /\ \A y \in S : y <= Max(S)
<1>1. IsFiniteSet(S)
  BY FS_BoundedSetOfNaturals
<1>2. PICK m \in S : \A y \in S : y <= m
  <2>1. S \subseteq Int
    OBVIOUS
  <2> QED
    BY <1>1, <2>1, FiniteMax
<1>3. \E x \in S : \A y \in S : x >= y
  BY <1>2
<1>4. Max(S) \in S /\ \A y \in S : Max(S) >= y
  BY <1>3 DEF Max
<1> QED
  BY <1>4

\* Min of naturals below a bound.
LEMMA MinOfBounded ==
  ASSUME NEW S, S \subseteq Nat, S # {}, NEW n \in Nat, \A s \in S : s <= n
  PROVE  /\ Min(S) \in S /\ Min(S) \in Nat
         /\ \A y \in S : Min(S) <= y
<1> DEFINE T == {n - s : s \in S}
<1>1. T \subseteq Nat /\ T # {} /\ \A t \in T : t <= n
  <2>1. \A s \in S : n - s \in Nat /\ n - s <= n
    OBVIOUS
  <2> QED
    BY <2>1
<1>2. IsFiniteSet(T)
  BY <1>1, FS_BoundedSetOfNaturals
<1>3. PICK t \in T : \A y \in T : y <= t
  <2> HIDE DEF T
  <2>1. T \subseteq Int
    BY <1>1
  <2> QED
    BY <1>1, <1>2, <2>1, FiniteMax
<1>4. PICK m \in S : t = n - m
  OBVIOUS
<1>5. \A s \in S : m <= s
  <2> SUFFICES ASSUME NEW s \in S PROVE m <= s
    OBVIOUS
  <2>1. n - s <= t
    BY <1>3
  <2>2. s \in Nat /\ m \in Nat
    OBVIOUS
  <2> QED
    BY <1>4, <2>1, <2>2
<1>6. \E x \in S : \A y \in S : x =< y
  BY <1>5
<1>7. Min(S) \in S /\ \A y \in S : Min(S) =< y
  BY <1>6 DEF Min
<1> QED
  BY <1>7

\* Of two numbers.
LEMMA MaxOfTwo ==
  ASSUME NEW a \in Int, NEW b \in Int
  PROVE  Max({a, b}) = IF a >= b THEN a ELSE b
<1>1. \E x \in {a, b} : \A y \in {a, b} : x >= y
  <2>1. a >= b \/ b >= a
    OBVIOUS
  <2> QED
    BY <2>1
<1>2. /\ Max({a, b}) \in {a, b}
      /\ \A y \in {a, b} : Max({a, b}) >= y
  BY <1>1 DEF Max
<1> QED
  BY <1>2

\* Of two numbers.
LEMMA MinOfTwo ==
  ASSUME NEW a \in Int, NEW b \in Int
  PROVE  Min({a, b}) = IF a <= b THEN a ELSE b
<1>1. \E x \in {a, b} : \A y \in {a, b} : x =< y
  <2>1. a <= b \/ b <= a
    OBVIOUS
  <2> QED
    BY <2>1
<1>2. /\ Min({a, b}) \in {a, b}
      /\ \A y \in {a, b} : Min({a, b}) =< y
  BY <1>1 DEF Min
<1> QED
  BY <1>2

-----------------------------------------------------------------------------
(***************************************************************************)
(* Rounding.                                                               *)
(***************************************************************************)

\* A product of naturals is one, and no smaller than a factor times one.
LEMMA Products ==
  ASSUME NEW a \in Nat, NEW b \in Nat
  PROVE  a * b \in Nat /\ (b > 0 => a * b >= a) /\ (a > 0 /\ b > 0 => a * b > 0)
OBVIOUS

\* Dividing a multiple gives the factor back.
LEMMA ExactQuotient ==
  ASSUME NEW q \in Nat, NEW m \in Nat \ {0}
  PROVE  (q * m) \div m = q
OBVIOUS

\* Factors of the same number are ordered as the products are.
LEMMA ProductOrder ==
  ASSUME NEW a \in Nat, NEW b \in Nat, NEW m \in Nat \ {0}
  PROVE  (a <= b <=> a * m <= b * m) /\ (a < b <=> a * m < b * m)
OBVIOUS

\* A quotient and its remainder.
LEMMA Quotients ==
  ASSUME NEW a \in Nat, NEW m \in Nat \ {0}
  PROVE  /\ a \div m \in Nat
         /\ (a \div m) * m \in Nat /\ (a \div m) * m <= a
         /\ a < (a \div m) * m + m
         /\ a % m = 0 => a = (a \div m) * m
OBVIOUS

\* The floor of zero.
LEMMA FloorOfZero == ASSUME NEW step \in Nat \ {0} PROVE FloorTo(0, step) = 0
BY DEF FloorTo

\* The ceiling is the first multiple that is not below.
LEMMA Ceiling ==
  ASSUME NEW v \in Nat, NEW step \in Nat \ {0}
  PROVE  \E q \in Nat : /\ CeilTo(v, step) = q * step
                        /\ v <= q * step /\ q * step < v + step
                        /\ v > 0 => q > 0
<1>1. PICK d \in Int : d = (-v) \div step
  OBVIOUS
<1>2. d * step <= -v /\ -v < d * step + step
  BY <1>1
<1>3. PICK q \in Int : q = -d
  OBVIOUS
<1>4. q * step = -(d * step) /\ v <= q * step /\ q * step < v + step
  BY <1>2, <1>3
<1>5. q >= 0
  <2> SUFFICES ASSUME q < 0 PROVE FALSE
    OBVIOUS
  <2>1. q + 1 <= 0
    OBVIOUS
  <2>2. (q + 1) * step <= 0
    BY <2>1
  <2>3. q * step + step <= 0
    BY <2>2
  <2> QED
    BY <1>4, <2>3
<1>6. CeilTo(v, step) = q * step
  BY <1>1, <1>4 DEF CeilTo, FloorTo
<1>7. v > 0 => q > 0
  <2>1. q = 0 => q * step = 0
    OBVIOUS
  <2> QED
    BY <1>4, <1>5, <2>1
<1> QED
  BY <1>4, <1>5, <1>6, <1>7

-----------------------------------------------------------------------------
(***************************************************************************)
(* Powers of ten.                                                          *)
(***************************************************************************)

Exponents == 0 .. MaxPower + 1

\* Powers are numbers, the first is one, and each is ten times the last.
LEMMA PowerTypes ==
  /\ MaxPower \in Nat
  /\ \A n \in Exponents : 10 ^ n \in Nat \ {0}
  /\ 10 ^ 0 = 1
  /\ \A n \in 0 .. MaxPower : 10 ^ (n + 1) = 10 * 10 ^ n
<1>1. MaxPower \in Nat
  BY ChartAssumption DEF ChartAssumption
<1>2. \A n \in 0 .. MaxPower : 10 ^ (n + 1) = 10 * 10 ^ n /\ 10 ^ n > 0
  BY PowersOfTen DEF PowersOfTen
<1>3. \A n \in Exponents : 10 ^ n \in Int
  BY <1>1 DEF Exponents
<1>4. ASSUME NEW n \in Exponents PROVE 10 ^ n > 0
  <2>1. CASE n \in 0 .. MaxPower
    BY <1>2, <2>1
  <2>2. CASE n = MaxPower + 1
    <3>1. MaxPower \in 0 .. MaxPower
      BY <1>1
    <3>2. 10 ^ MaxPower \in Int /\ 10 ^ MaxPower > 0
      BY <1>1, <1>2, <3>1
    <3>3. 10 ^ (MaxPower + 1) = 10 * 10 ^ MaxPower
      BY <1>2, <3>1
    <3> QED
      BY <2>2, <3>2, <3>3
  <2> QED
    BY <1>1, <2>1, <2>2 DEF Exponents
<1>5. 10 ^ 0 = 1
  OBVIOUS
<1> QED
  BY <1>1, <1>2, <1>3, <1>4, <1>5

\* A smaller power divides a larger one: the smallest power that it does not
\* divide would be ten times one that it does.
LEMMA PowersDivide ==
  ASSUME NEW p \in Exponents, NEW n \in Exponents, p <= n
  PROVE  \E q \in Nat \ {0} : 10 ^ n = q * 10 ^ p
<1> DEFINE Bad == {m \in p .. MaxPower + 1 :
                     ~\E q \in Nat \ {0} : 10 ^ m = q * 10 ^ p}
<1>1. SUFFICES ASSUME Bad # {} PROVE FALSE
  <2>1. n \in p .. MaxPower + 1
    BY PowerTypes DEF Exponents
  <2> QED
    BY <1>1, <2>1
<1>2. p \in Nat /\ MaxPower + 1 \in Nat
  BY PowerTypes DEF Exponents
<1>3. Bad \subseteq Nat /\ \A m \in Bad : m <= MaxPower + 1
  BY <1>2
<1>4. PICK m \in Bad : \A y \in Bad : m <= y
  <2> HIDE DEF Bad
  <2> QED
    BY <1>1, <1>2, <1>3, MinOfBounded
<1>5. m \in p .. MaxPower + 1 /\ ~\E q \in Nat \ {0} : 10 ^ m = q * 10 ^ p
  BY <1>4
<1>6. PICK t \in Nat \ {0} : t = 10 ^ p
  BY PowerTypes
<1>7. m # p
  <2>1. t = 1 * t
    OBVIOUS
  <2> QED
    BY <1>5, <1>6, <2>1
<1>8. PICK k \in Nat : m = k + 1 /\ k \in p .. MaxPower + 1 /\ k \in 0 .. MaxPower
  <2>1. PICK N \in Nat : N = MaxPower + 1
    BY <1>2
  <2>2. MaxPower \in Nat
    BY PowerTypes
  <2>3. m \in Nat /\ p <= m /\ m <= N
    BY <1>2, <1>5, <2>1
  <2>4. PICK k \in Nat : k = m - 1
    BY <1>2, <1>7, <2>3
  <2>5. m = k + 1 /\ p <= k /\ k <= N /\ k <= MaxPower
    BY <1>2, <1>7, <2>1, <2>2, <2>3, <2>4
  <2>6. k \in p .. N /\ k \in 0 .. MaxPower
    BY <1>2, <2>2, <2>5
  <2> QED
    BY <2>1, <2>5, <2>6
<1>9. k \notin Bad
  BY <1>4, <1>8
<1>10. PICK q \in Nat \ {0} : 10 ^ k = q * t
  BY <1>6, <1>8, <1>9
<1>11. 10 ^ m = 10 * 10 ^ k
  BY <1>8, PowerTypes
<1>12. 10 ^ m = (10 * q) * t /\ 10 * q \in Nat \ {0}
  BY <1>10, <1>11
<1> QED
  BY <1>5, <1>6, <1>12

\* Of two different powers, the larger is a multiple of ten times the other.
LEMMA PowersApart ==
  ASSUME NEW p \in Exponents, NEW n \in Exponents, p < n
  PROVE  \E q \in Nat \ {0} : 10 ^ n = q * (10 * 10 ^ p)
<1>1. p + 1 \in Exponents /\ p + 1 <= n /\ p \in 0 .. MaxPower
  BY PowerTypes DEF Exponents
<1>2. PICK q \in Nat \ {0} : 10 ^ n = q * 10 ^ (p + 1)
  BY <1>1, PowersDivide
<1>3. 10 ^ (p + 1) = 10 * 10 ^ p
  BY <1>1, PowerTypes
<1> QED
  BY <1>2, <1>3


-----------------------------------------------------------------------------
(***************************************************************************)
(* Steps.                                                                  *)
(***************************************************************************)

\* A range that gets a step: not below five, as ranges are multiples of one
\* drawn unit, nor above the largest.
Ranges == {r \in Nat : kDefaultTickCount <= r /\ r <= LargestRange}

\* PowerBelow is the largest power with at least five steps in the range.
LEMMA PowerBelowIs ==
  ASSUME NEW r \in Ranges
  PROVE  \E n \in 0 .. MaxPower :
           /\ PowerBelow(r) = 10 ^ n
           /\ 5 * 10 ^ n <= r
           /\ n < MaxPower => r < 50 * 10 ^ n
<1> DEFINE S == {p \in {10 ^ n : n \in 0 .. MaxPower} :
                   kDefaultTickCount * p <= r}
<1>1. r \in Nat /\ 5 <= r
  BY DEF Ranges, kDefaultTickCount
<1>2. S \subseteq Nat /\ \A s \in S : s <= r
  <2> SUFFICES ASSUME NEW s \in S PROVE s \in Nat /\ s <= r
    OBVIOUS
  <2>1. PICK n \in 0 .. MaxPower : s = 10 ^ n
    OBVIOUS
  <2>2. n \in Exponents
    BY PowerTypes DEF Exponents
  <2>3. s \in Nat
    BY <2>1, <2>2, PowerTypes
  <2>4. 5 * s <= r
    BY DEF kDefaultTickCount
  <2> QED
    BY <1>1, <2>3, <2>4
<1>3. 1 \in S
  <2>1. 0 \in 0 .. MaxPower /\ 10 ^ 0 = 1
    BY PowerTypes
  <2>2. 1 \in {10 ^ n : n \in 0 .. MaxPower}
    BY <2>1, Zenon
  <2>3. kDefaultTickCount * 1 <= r
    BY <1>1 DEF kDefaultTickCount
  <2> QED
    BY <2>2, <2>3
<1>4. /\ PowerBelow(r) \in S /\ PowerBelow(r) \in Nat
      /\ \A y \in S : y <= PowerBelow(r)
  <2>1. PowerBelow(r) = Max(S)
    BY DEF PowerBelow
  <2> HIDE DEF S
  <2> QED
    BY <1>1, <1>2, <1>3, <2>1, MaxOfBounded
<1>5. PICK n \in 0 .. MaxPower :
        PowerBelow(r) = 10 ^ n /\ kDefaultTickCount * 10 ^ n <= r
  BY <1>4
<1>6. ASSUME n < MaxPower, r >= 50 * 10 ^ n PROVE FALSE
  <2>1. n + 1 \in 0 .. MaxPower
    BY <1>6, PowerTypes
  <2>2. 10 ^ (n + 1) = 10 * 10 ^ n
    BY PowerTypes
  <2>3. PICK t \in Nat \ {0} : t = 10 ^ n
    BY PowerTypes DEF Exponents
  <2>4. kDefaultTickCount * 10 ^ (n + 1) <= r
    BY <1>1, <1>6, <2>2, <2>3 DEF kDefaultTickCount
  <2>5. 10 ^ (n + 1) \in S
    BY <2>1, <2>4
  <2>6. 10 ^ (n + 1) <= 10 ^ n
    BY <1>4, <1>5, <2>5
  <2> QED
    BY <2>2, <2>3, <2>6
<1>7. PICK t \in Nat \ {0} : t = 10 ^ n
  BY PowerTypes DEF Exponents
<1> QED
  BY <1>1, <1>5, <1>6, <1>7 DEF kDefaultTickCount

\* What a step is for a range: round, at most five of them fill the range, no
\* finer round step has that property, and it is at most half of the range.
IsStepFor(step, r) ==
  /\ step \in NiceSteps /\ step \in Nat \ {0}
  /\ r <= 5 * step /\ 2 * step <= r
  /\ \A finer \in NiceSteps : finer < step => 5 * finer < r

\* The members of NiceSteps are numbers.
LEMMA NiceStepTypes ==
  ASSUME NEW s \in NiceSteps
  PROVE  \E d \in {1, 2, 5}, p \in 0 .. MaxPower :
           s = d * 10 ^ p /\ s \in Nat \ {0} /\ 10 ^ p \in Nat \ {0}
<1>1. PICK d \in {1, 2, 5}, p \in 0 .. MaxPower : s = d * 10 ^ p
  BY DEF NiceSteps
<1>2. PICK t \in Nat \ {0} : t = 10 ^ p
  BY PowerTypes DEF Exponents
<1> QED
  BY <1>1, <1>2

\* NiceTickStep keeps at most five intervals with the least round step.
LEMMA NiceTickStepIs ==
  ASSUME NEW r \in Ranges
  PROVE  IsStepFor(NiceTickStep(r), r)
<1>1. r \in Nat /\ 5 <= r /\ r <= LargestRange
  BY DEF Ranges, kDefaultTickCount
<1>2. PICK n \in 0 .. MaxPower :
           /\ PowerBelow(r) = 10 ^ n
           /\ 5 * 10 ^ n <= r
           /\ n < MaxPower => r < 50 * 10 ^ n
  BY PowerBelowIs
<1>3. PICK t \in Nat \ {0} : t = 10 ^ n
  BY PowerTypes DEF Exponents
<1>4. 5 * t <= r /\ (n < MaxPower => r < 50 * t) /\ (n = MaxPower => r <= 25 * t)
  BY <1>1, <1>2, <1>3 DEF LargestRange
<1> DEFINE nice == {c \in {1, 2, 5, 10} : r <= kDefaultTickCount * c * t}
<1>5. nice \subseteq Nat /\ \A c \in nice : c <= 10
  OBVIOUS
<1>6. nice # {} /\ (n = MaxPower => 5 \in nice)
  <2>1. n = MaxPower => 5 \in nice
    BY <1>1, <1>4 DEF kDefaultTickCount
  <2>2. n < MaxPower => 10 \in nice
    BY <1>1, <1>4 DEF kDefaultTickCount
  <2>3. n = MaxPower \/ n < MaxPower
    BY PowerTypes
  <2> QED
    BY <2>1, <2>2, <2>3
<1>7. PICK c \in nice : c = Min(nice) /\ \A y \in nice : c <= y
  <2> HIDE DEF nice
  <2> QED
    BY <1>5, <1>6, MinOfBounded
<1>8. /\ c \in {1, 2, 5, 10} /\ r <= 5 * c * t
      /\ \A d \in {1, 2, 5, 10} : d < c => r > 5 * d * t
  <2>1. c \in {1, 2, 5, 10} /\ r <= 5 * c * t
    BY <1>7 DEF kDefaultTickCount
  <2>2. ASSUME NEW d \in {1, 2, 5, 10}, d < c PROVE r > 5 * d * t
    <3>1. d \notin nice
      BY <1>7, <2>1, <2>2
    <3>2. ~(r <= 5 * d * t)
      BY <3>1 DEF kDefaultTickCount
    <3>3. 5 * d * t \in Nat
      OBVIOUS
    <3> QED
      BY <1>1, <3>2, <3>3
  <2> QED
    BY <2>1, <2>2
<1>9. PICK step \in Nat \ {0} : step = c * t
  BY <1>8
<1>10. NiceTickStep(r) = step
  <2>1. NiceTickStep(r) = Min(nice) * t
    BY <1>1, <1>2, <1>3 DEF NiceTickStep
  <2> QED
    BY <1>7, <1>9, <2>1
<1>11. r <= 5 * step
  BY <1>8, <1>9
<1>12. 2 * step <= r
  <2>1. CASE c = 1
    BY <1>1, <1>4, <1>9, <2>1
  <2>2. CASE c = 2
    <3>1. r > 5 * 1 * t
      BY <1>8, <2>2
    <3> QED
      BY <1>1, <1>9, <2>2, <3>1
  <2>3. CASE c = 5
    <3>1. r > 5 * 2 * t
      BY <1>8, <2>3
    <3> QED
      BY <1>1, <1>9, <2>3, <3>1
  <2>4. CASE c = 10
    <3>1. r > 5 * 5 * t
      BY <1>8, <2>4
    <3> QED
      BY <1>1, <1>9, <2>4, <3>1
  <2> QED
    BY <1>8, <2>1, <2>2, <2>3, <2>4
<1>13. step \in NiceSteps
  <2>1. CASE c \in {1, 2, 5}
    BY <1>3, <1>9, <2>1 DEF NiceSteps
  <2>2. CASE c = 10
    <3>1. n < MaxPower
      <4>1. n # MaxPower
        <5> HIDE DEF nice
        <5>1. 5 \in nice => c <= 5
          BY <1>7
        <5> QED
          BY <1>6, <2>2, <5>1
      <4> QED
        BY <4>1, PowerTypes
    <3>2. n + 1 \in 0 .. MaxPower /\ 10 ^ (n + 1) = 10 * 10 ^ n
      BY <3>1, PowerTypes
    <3>3. step = 1 * 10 ^ (n + 1)
      BY <1>3, <1>9, <2>2, <3>2
    <3> QED
      BY <3>2, <3>3 DEF NiceSteps
  <2> QED
    BY <1>8, <2>1, <2>2
<1>14. ASSUME NEW finer \in NiceSteps, finer < step PROVE 5 * finer < r
  <2>1. PICK d \in {1, 2, 5}, p \in 0 .. MaxPower : finer = d * 10 ^ p
    BY DEF NiceSteps
  <2>2. PICK u \in Nat \ {0} : u = 10 ^ p
    BY PowerTypes DEF Exponents
  <2>3. p \in Exponents /\ n \in Exponents /\ p \in Nat /\ n \in Nat
    BY PowerTypes DEF Exponents
  <2>4. CASE p = n
    <3>1. d * t < c * t
      BY <1>3, <1>9, <1>14, <2>1, <2>4
    <3>2. d < c
      BY <1>8, <3>1
    <3>3. r > 5 * d * t
      BY <1>8, <3>2
    <3> QED
      BY <1>3, <2>1, <2>4, <3>3
  <2>5. CASE p < n
    <3>1. PICK q \in Nat \ {0} : 10 ^ n = q * (10 * 10 ^ p)
      BY <2>3, <2>5, PowersApart
    <3>2. t = q * (10 * u)
      BY <1>3, <2>2, <3>1
    <3>3. 10 * u <= t
      BY <3>2
    <3>4. finer <= 5 * u
      BY <2>1, <2>2
    <3> QED
      BY <1>1, <1>4, <2>1, <2>2, <3>3, <3>4
  <2>6. CASE p > n
    <3>1. PICK q \in Nat \ {0} : 10 ^ p = q * (10 * 10 ^ n)
      BY <2>3, <2>6, PowersApart
    <3>2. u = q * (10 * t)
      BY <1>3, <2>2, <3>1
    <3>3. 10 * t <= u
      BY <3>2
    <3>4. finer >= 10 * t
      BY <2>1, <2>2, <3>3
    <3>5. step <= 10 * t
      BY <1>8, <1>9
    <3>6. finer \in Nat
      BY <2>1, <2>2
    <3> QED
      BY <1>14, <3>4, <3>5, <3>6
  <2> QED
    BY <2>3, <2>4, <2>5, <2>6
<1> QED
  BY <1>10, <1>11, <1>12, <1>13, <1>14 DEF IsStepFor

\* 1.0 is a power of ten that a step may be, and divides into whole units.
LEMMA OneIs ==
  /\ One \in Nat \ {0} /\ One \in Ranges /\ One \in NiceSteps
  /\ \E k \in 1 .. MaxPower : One = 10 ^ k
<1>1. PICK k \in 1 .. MaxPower : One = 10 ^ k
  BY ChartAssumption DEF ChartAssumption
<1>2. k \in 0 .. MaxPower /\ k \in Exponents /\ 0 \in Exponents
      /\ MaxPower \in Exponents /\ k <= MaxPower /\ 0 < k
  BY PowerTypes DEF Exponents
<1>3. PICK t \in Nat \ {0} : t = 10 ^ k
  BY <1>2, PowerTypes
<1>4. PICK q \in Nat \ {0} : 10 ^ k = q * (10 * 10 ^ 0)
  BY <1>2, PowersApart
<1>5. t >= 10
  <2>1. t = q * (10 * 1)
    BY <1>3, <1>4, PowerTypes
  <2> QED
    BY <2>1
<1>6. PICK u \in Nat \ {0} : u = 10 ^ MaxPower
  BY <1>2, PowerTypes
<1>7. PICK z \in Nat \ {0} : 10 ^ MaxPower = z * 10 ^ k
  BY <1>2, PowersDivide
<1>8. t <= u
  BY <1>3, <1>6, <1>7
<1>9. t = 1 * 10 ^ k
  BY <1>3
<1>10. t \in NiceSteps
  BY <1>2, <1>9 DEF NiceSteps
<1>11. t <= 25 * u
  BY <1>8
<1>12. t \in Ranges
  BY <1>5, <1>6, <1>11 DEF Ranges, kDefaultTickCount, LargestRange
<1> QED
  BY <1>1, <1>3, <1>10, <1>12

\* A round step below one drawn unit divides it, at least in two.
LEMMA FineStepDividesOne ==
  ASSUME NEW s \in NiceSteps, s < One
  PROVE  \E q \in Nat : q >= 2 /\ One = q * s
<1>1. PICK k \in 1 .. MaxPower : One = 10 ^ k
  BY OneIs
<1>2. PICK d \in {1, 2, 5}, p \in 0 .. MaxPower : s = d * 10 ^ p
  BY DEF NiceSteps
<1>3. p \in Exponents /\ k \in Exponents /\ p \in Nat /\ k \in Nat
  BY PowerTypes DEF Exponents
<1>4. PICK t \in Nat \ {0} : t = 10 ^ p
  BY <1>3, PowerTypes
<1>5. CASE k <= p
  <2>1. PICK q \in Nat \ {0} : 10 ^ p = q * 10 ^ k
    BY <1>3, <1>5, PowersDivide
  <2>2. t >= One
    BY <1>1, <1>4, <2>1, OneIs
  <2>3. s >= t
    BY <1>2, <1>4
  <2> QED
    BY <1>2, <1>4, <2>2, <2>3, OneIs
<1>6. CASE p < k
  <2>1. PICK q \in Nat \ {0} : 10 ^ k = q * (10 * 10 ^ p)
    BY <1>3, <1>6, PowersApart
  <2>2. One = q * (10 * t)
    BY <1>1, <1>4, <2>1
  <2>3. CASE d = 1
    <3>1. One = (10 * q) * s
      BY <1>2, <1>4, <2>2, <2>3
    <3> QED
      BY <3>1
  <2>4. CASE d = 2
    <3>1. One = (5 * q) * s
      BY <1>2, <1>4, <2>2, <2>4
    <3> QED
      BY <3>1
  <2>5. CASE d = 5
    <3>1. One = (2 * q) * s
      BY <1>2, <1>4, <2>2, <2>5
    <3> QED
      BY <3>1
  <2> QED
    BY <2>3, <2>4, <2>5
<1> QED
  BY <1>3, <1>5, <1>6

\* Any other is a number of whole units.
LEMMA CoarseStepIsWhole ==
  ASSUME NEW s \in NiceSteps, s >= One
  PROVE  \E q \in Nat \ {0} : s = q * One
<1>1. PICK k \in 1 .. MaxPower : One = 10 ^ k
  BY OneIs
<1>2. PICK d \in {1, 2, 5}, p \in 0 .. MaxPower : s = d * 10 ^ p
  BY DEF NiceSteps
<1>3. p \in Exponents /\ k \in Exponents /\ p \in Nat /\ k \in Nat
  BY PowerTypes DEF Exponents
<1>4. PICK t \in Nat \ {0} : t = 10 ^ p
  BY <1>3, PowerTypes
<1>5. CASE p < k
  <2>1. PICK q \in Nat \ {0} : 10 ^ k = q * (10 * 10 ^ p)
    BY <1>3, <1>5, PowersApart
  <2>2. One = q * (10 * t)
    BY <1>1, <1>4, <2>1
  <2>3. One >= 10 * t
    BY <2>2
  <2>4. s <= 5 * t
    BY <1>2, <1>4
  <2> QED
    BY <1>2, <1>4, <2>3, <2>4, OneIs
<1>6. CASE k <= p
  <2>1. PICK q \in Nat \ {0} : 10 ^ p = q * 10 ^ k
    BY <1>3, <1>6, PowersDivide
  <2>2. s = (d * q) * One
    <3>1. PICK o \in Nat \ {0} : o = One
      BY OneIs
    <3>2. s = d * (q * o)
      BY <1>1, <1>2, <2>1, <3>1
    <3> QED
      BY <3>1, <3>2
  <2> QED
    BY <2>2
<1> QED
  BY <1>3, <1>5, <1>6

-----------------------------------------------------------------------------
(***************************************************************************)
(* Scales from zero to a value.                                            *)
(***************************************************************************)

\* The range a scale to v is made for: an empty one becomes one unit.
RangeOf(v) == IF v = 0 THEN One ELSE v

\* MakeAxisScale(0, v) is at most five steps of the range, and the first whole
\* number of steps that is not below it.
LEMMA AxisScaleIs ==
  ASSUME NEW v \in Nat, RangeOf(v) \in Ranges
  PROVE  \E step \in Nat \ {0}, q \in 1 .. 5 :
           /\ MakeAxisScale(0, v) = [min |-> 0, tick_step |-> step,
                                     max |-> q * step]
           /\ IsStepFor(step, RangeOf(v))
           /\ RangeOf(v) <= q * step /\ q * step < RangeOf(v) + step
<1>1. PICK r \in Ranges : r = RangeOf(v)
  OBVIOUS
<1>2. r \in Nat /\ 5 <= r
  BY DEF Ranges, kDefaultTickCount
<1>3. PICK step \in Nat \ {0} : step = NiceTickStep(r) /\ IsStepFor(step, r)
  BY NiceTickStepIs DEF IsStepFor
<1>4. r <= 5 * step
  BY <1>3 DEF IsStepFor
<1>5. PICK q \in Nat : /\ CeilTo(r, step) = q * step
                       /\ r <= q * step /\ q * step < r + step
                       /\ r > 0 => q > 0
  BY <1>2, Ceiling
<1>6. q \in 1 .. 5
  <2>1. q > 0
    BY <1>2, <1>5
  <2>2. ASSUME q >= 6 PROVE FALSE
    <3>1. q * step >= 6 * step
      BY <2>2, ProductOrder
    <3> QED
      BY <1>2, <1>4, <1>5, <3>1
  <2> QED
    BY <2>1, <2>2
<1>7. PICK top \in Nat : top = q * step /\ top >= step
  <2>1. q * step \in Nat /\ q * step >= 1 * step
    BY <1>6, ProductOrder
  <2> QED
    BY <2>1
<1>8. Min({0, v}) = 0 /\ Max({0, v}) = v
  BY MinOfTwo, MaxOfTwo
<1>9. Min({0, 0}) = 0
  BY MinOfTwo
<1>10. Max({top, 0 + step}) = top
  BY <1>7, MaxOfTwo
<1>11. FloorTo(0, step) = 0
  BY FloorOfZero
<1>12. MakeAxisScale(0, v) = [min |-> 0, tick_step |-> step, max |-> top]
  <2>1. CASE v = 0
    <3>1. r = One /\ r - 0 = One /\ One - 0 = One
      BY <1>1, <1>2, <2>1 DEF RangeOf
    <3>2. CeilTo(One, step) = top /\ NiceTickStep(One - 0) = step
      BY <1>3, <1>5, <1>7, <3>1
    <3>3. Max({0, v}) <= Min({0, v}) /\ Max({0, v}) <= 0
      BY <1>8, <2>1
    <3>4. Min({Min({0, v}), 0}) = 0
      BY <1>8, <1>9
    <3>5. PICK scale : scale = MakeAxisScale(0, v)
      OBVIOUS
    <3>6. scale = [min |-> FloorTo(0, NiceTickStep(One - 0)),
                   tick_step |-> NiceTickStep(One - 0),
                   max |-> Max({CeilTo(One, NiceTickStep(One - 0)),
                                FloorTo(0, NiceTickStep(One - 0))
                                  + NiceTickStep(One - 0)})]
      BY <3>3, <3>4, <3>5 DEF MakeAxisScale
    <3> QED
      BY <1>10, <1>11, <3>2, <3>5, <3>6
  <2>2. CASE v # 0
    <3>1. r = v /\ v - 0 = v /\ ~(v <= 0)
      BY <1>1, <1>2, <2>2 DEF RangeOf
    <3>2. CeilTo(v, step) = top /\ NiceTickStep(v - 0) = step
      BY <1>3, <1>5, <1>7, <3>1
    <3> QED
      BY <1>8, <1>10, <1>11, <3>1, <3>2 DEF MakeAxisScale
  <2> QED
    BY <2>1, <2>2
<1> QED
  BY <1>1, <1>3, <1>5, <1>6, <1>7, <1>12

\* A unit divides 1.0, in at least five.
LEMMA UnitIs ==
  ASSUME NEW k \in Kinds
  PROVE  /\ UnitOf(k) \in Nat \ {0}
         /\ \E z \in Nat : One = z * UnitOf(k) /\ z >= 5
<1>1. One \in Nat \ {0} /\ 5 <= One
  BY OneIs DEF Ranges, kDefaultTickCount
<1>2. /\ BytesPerMiB \in Nat \ {0} /\ NsPerUs \in Nat \ {0}
      /\ One % BytesPerMiB = 0 /\ One \div BytesPerMiB >= 5
      /\ One % NsPerUs = 0 /\ One \div NsPerUs >= 5
  BY ChartAssumption DEF ChartAssumption, kDefaultTickCount
<1>3. CASE k = "iops"
  <2>1. UnitOf(k) = 1
    BY <1>3 DEF UnitOf
  <2>2. One = One * 1
    BY <1>1
  <2> QED
    BY <1>1, <2>1, <2>2
<1>4. CASE k = "bandwidth"
  <2>1. UnitOf(k) = BytesPerMiB
    BY <1>4 DEF UnitOf
  <2>2. One \div BytesPerMiB \in Nat /\ One = (One \div BytesPerMiB) * BytesPerMiB
    BY <1>1, <1>2, Quotients
  <2> QED
    BY <1>2, <2>1, <2>2
<1>5. CASE k = "latency"
  <2>1. UnitOf(k) = NsPerUs
    BY <1>5 DEF UnitOf
  <2>2. One \div NsPerUs \in Nat /\ One = (One \div NsPerUs) * NsPerUs
    BY <1>1, <1>2, Quotients
  <2> QED
    BY <1>2, <2>1, <2>2
<1> QED
  BY <1>3, <1>4, <1>5 DEF Kinds

\* The scale's end as a whole number of units: the first one not below r.
LEMMA FineScaleIs ==
  ASSUME NEW r \in Ranges, NEW step \in NiceSteps, NEW q \in 1 .. 5,
         step < One, r <= q * step, q * step < r + step
  PROVE  \E j \in 1 .. 5 : /\ Max({CeilTo(q * step, One), 0 + One}) = j * One
                           /\ r <= j * One /\ j * One < r + One
<1>1. r \in Nat /\ 5 <= r /\ step \in Nat \ {0} /\ One \in Nat \ {0}
  BY NiceStepTypes, OneIs DEF Ranges, kDefaultTickCount
<1>2. PICK z \in Nat : z >= 2 /\ One = z * step
  BY FineStepDividesOne
<1>3. PICK top \in Nat : top = q * step
  BY <1>1
<1>4. PICK j \in Nat : /\ CeilTo(top, One) = j * One
                       /\ top <= j * One /\ j * One < top + One
                       /\ top > 0 => j > 0
  BY <1>1, Ceiling
<1>5. top > 0 /\ j > 0
  BY <1>1, <1>3, <1>4
<1>6. PICK i \in Nat : j = i + 1
  <2>1. j - 1 \in Nat
    BY <1>5
  <2> QED
    BY <2>1
<1>7. j * One = i * One + One
  BY <1>1, <1>6
<1>8. j * One < r + One
  <2> SUFFICES ASSUME r <= i * One PROVE FALSE
    <3>1. i * One \in Nat
      BY <1>1
    <3> QED
      BY <1>1, <1>7, <3>1
  <2>1. PICK y \in Nat : y = i * z
    OBVIOUS
  <2>2. i * One = y * step
    BY <1>1, <1>2, <2>1
  <2>3. q * step < (y + 1) * step
    BY <1>1, <2>2
  <2>4. q < y + 1
    BY <1>1, <2>3, ProductOrder
  <2>5. q <= y
    BY <2>4
  <2>6. q * step <= y * step
    BY <1>1, <2>5, ProductOrder
  <2> QED
    BY <1>1, <1>3, <1>4, <1>7, <2>2, <2>6
<1>9. j <= 5
  <2> SUFFICES ASSUME i >= 5 PROVE FALSE
    BY <1>6
  <2>1. i * One >= 5 * One
    BY <1>1, ProductOrder
  <2>2. q * step <= 5 * step
    BY <1>1, ProductOrder
  <2> QED
    BY <1>1, <1>3, <1>4, <1>7, <2>1, <2>2
<1>10. Max({CeilTo(top, One), 0 + One}) = j * One
  <2>1. PICK e \in Nat : e = j * One /\ e >= One
    BY <1>1, <1>7
  <2>2. Max({e, 0 + One}) = e
    BY <1>1, <2>1, MaxOfTwo
  <2> QED
    BY <1>4, <2>1, <2>2
<1>11. r <= j * One
  <2>1. j * One \in Nat
    BY <1>1
  <2> QED
    BY <1>1, <1>3, <1>4, <2>1
<1>12. j \in 1 .. 5
  BY <1>5, <1>9
<1>13. Max({CeilTo(q * step, One), 0 + One}) = j * One
  BY <1>3, <1>10
<1> QED
  BY <1>8, <1>11, <1>12, <1>13

\* A scale from zero to top in q steps of s units: round, close to top, and as
\* fine as five steps and whole units allow.
IsScale(scale, top, unit, s, q) ==
  /\ s \in NiceSteps /\ s \in Nat \ {0}
  /\ scale = [min |-> 0, tick_step |-> s * unit, max |-> q * (s * unit)]
  /\ top <= q * (s * unit)
  /\ top > 0 => q * (s * unit) < top + s * unit
  /\ \A finer \in NiceSteps :
       finer < s => 5 * finer * unit < top \/ s <= One
  /\ q * s < 2 * LargestRange

\* MakeUnitAxisScale(kind, 0, top) for a top of whole units: the step is a
\* whole number of drawn units.
LEMMA UnitAxisScaleIs ==
  ASSUME NEW k \in Kinds, NEW w \in Nat, w * One <= LargestRange
  PROVE  \E s \in NiceSteps, q \in 1 .. 5 :
           /\ IsScale(MakeUnitAxisScale(k, 0, w * One), w * One, UnitOf(k), s, q)
           /\ s >= One
<1>1. PICK u \in Nat \ {0} : u = UnitOf(k)
  BY UnitIs
<1>2. PICK z \in Nat : One = z * u /\ z >= 5
  BY <1>1, UnitIs
<1>3. One \in Nat \ {0} /\ One \in Ranges /\ One <= LargestRange
  BY OneIs DEF Ranges
<1>4. PICK top \in Nat : top = w * One
  BY <1>3
<1>5. PICK v \in Nat : v = w * z
  BY <1>2
<1>6. top = v * u
  BY <1>1, <1>2, <1>4, <1>5
<1>7. top \div u = v /\ 0 \div u = 0
  <2>1. top \div u = v
    BY <1>6, ExactQuotient
  <2>2. (0 * u) \div u = 0
    BY ExactQuotient
  <2> QED
    BY <2>1, <2>2
<1>8. PICK r \in Ranges : r = RangeOf(v)
  <2>1. CASE v = 0
    BY <1>3, <2>1 DEF RangeOf
  <2>2. CASE v # 0
    <3>1. w > 0
      BY <1>2, <1>5, <2>2
    <3>2. v >= z
      BY <1>2, <1>5, <3>1
    <3>3. LargestRange \in Int
      <4>1. 10 ^ MaxPower \in Nat
        BY PowerTypes DEF Exponents
      <4> QED
        BY <4>1 DEF LargestRange
    <3>4. v <= LargestRange
      <4>1. v <= top
        BY <1>6
      <4> QED
        BY <1>4, <3>3, <4>1
    <3> QED
      BY <1>2, <2>2, <3>2, <3>4 DEF RangeOf, Ranges, kDefaultTickCount
  <2> QED
    BY <2>1, <2>2
<1>9. PICK step \in Nat \ {0}, q \in 1 .. 5 :
           /\ MakeAxisScale(0, v) = [min |-> 0, tick_step |-> step,
                                     max |-> q * step]
           /\ IsStepFor(step, r)
           /\ r <= q * step /\ q * step < r + step
  BY <1>8, AxisScaleIs
<1>10. /\ step \in NiceSteps /\ 2 * step <= r
       /\ \A finer \in NiceSteps : finer < step => 5 * finer < r
  BY <1>9 DEF IsStepFor
<1>11. PICK large \in Nat : large = LargestRange /\ r <= large /\ One <= large
  <2>1. 10 ^ MaxPower \in Nat
    BY PowerTypes DEF Exponents
  <2>2. LargestRange \in Nat
    BY <2>1 DEF LargestRange
  <2> QED
    BY <1>3, <2>2 DEF Ranges
<1>12. r \in Nat /\ FloorTo(0, One) = 0
  BY <1>3, FloorOfZero DEF Ranges
<1> DEFINE scale == MakeAxisScale(0, v)
           whole == [min |-> FloorTo(scale.min, One), tick_step |-> One,
                     max |-> Max({CeilTo(scale.max, One),
                                  FloorTo(scale.min, One) + One})]
<1>13. MakeUnitAxisScale(k, 0, top)
         = Scaled(IF scale.tick_step < One THEN whole ELSE scale, u)
  BY <1>1, <1>7 DEF MakeUnitAxisScale
<1>14. scale = [min |-> 0, tick_step |-> step, max |-> q * step]
  BY <1>9
<1> HIDE DEF scale
<1>15. CASE step < One
  <2>1. PICK j \in 1 .. 5 : /\ Max({CeilTo(q * step, One), 0 + One}) = j * One
                            /\ r <= j * One /\ j * One < r + One
    BY <1>9, <1>10, <1>15, FineScaleIs
  <2>2. whole = [min |-> 0, tick_step |-> One, max |-> j * One]
    BY <1>12, <1>14, <2>1
  <2>3. PICK m \in Nat : m = j * One
    BY <1>3
  <2>4. m * u = j * (One * u) /\ 0 * u = 0 /\ One * u \in Nat
    BY <1>3, <2>3
  <2> HIDE DEF whole
  <2>5. MakeUnitAxisScale(k, 0, top)
          = [min |-> 0, tick_step |-> One * u, max |-> j * (One * u)]
    <3>1. MakeUnitAxisScale(k, 0, top) = Scaled(whole, u)
      BY <1>13, <1>14, <1>15
    <3> QED
      BY <2>2, <2>3, <2>4, <3>1 DEF Scaled
  <2>6. top <= j * (One * u)
    <3>1. v <= m
      BY <1>8, <1>12, <2>1, <2>3 DEF RangeOf
    <3>2. v * u <= m * u
      BY <3>1, ProductOrder
    <3> QED
      BY <1>6, <2>4, <3>2
  <2>7. top > 0 => j * (One * u) < top + One * u
    <3> SUFFICES ASSUME top > 0 PROVE j * (One * u) < top + One * u
      OBVIOUS
    <3>1. v # 0
      BY <1>6
    <3>2. m < v + One
      BY <1>8, <2>1, <2>3, <3>1 DEF RangeOf
    <3>3. m * u < (v + One) * u
      BY <1>3, <2>3, <3>2, ProductOrder
    <3> QED
      BY <1>3, <1>6, <2>4, <3>3
  <2>8. j * One < 2 * LargestRange
    BY <1>3, <1>11, <1>12, <2>1, <2>3
  <2>9. One \in NiceSteps /\ One <= One
    BY <1>3, OneIs
  <2>10. IsScale(MakeUnitAxisScale(k, 0, top), top, u, One, j)
    BY <1>3, <2>5, <2>6, <2>7, <2>8, <2>9 DEF IsScale
  <2> QED
    BY <1>1, <1>4, <2>9, <2>10
<1>16. CASE ~(step < One)
  <2>1. v # 0 /\ r = v
    <3>1. ASSUME v = 0 PROVE FALSE
      <4>1. r = One
        BY <1>8, <3>1 DEF RangeOf
      <4> QED
        BY <1>3, <1>10, <1>16, <4>1
    <3> QED
      BY <1>8, <3>1 DEF RangeOf
  <2>2. PICK m \in Nat : m = q * step
    OBVIOUS
  <2>3. m * u = q * (step * u) /\ 0 * u = 0 /\ step * u \in Nat
    BY <2>2
  <2>4. MakeUnitAxisScale(k, 0, top)
          = [min |-> 0, tick_step |-> step * u, max |-> q * (step * u)]
    <3>1. MakeUnitAxisScale(k, 0, top) = Scaled(scale, u)
      BY <1>13, <1>14, <1>16
    <3> QED
      BY <1>14, <2>2, <2>3, <3>1 DEF Scaled
  <2>5. top <= q * (step * u)
    <3>1. v * u <= m * u
      BY <1>9, <2>1, <2>2, ProductOrder
    <3> QED
      BY <1>6, <2>3, <3>1
  <2>6. q * (step * u) < top + step * u
    <3>1. m < v + step
      BY <1>9, <2>1, <2>2
    <3>2. m * u < (v + step) * u
      BY <2>2, <3>1, ProductOrder
    <3> QED
      BY <1>6, <2>3, <3>2
  <2>7. ASSUME NEW finer \in NiceSteps, finer < step PROVE 5 * finer * u < top
    <3>1. finer \in Nat /\ 5 * finer < v
      BY <1>10, <2>1, <2>7, NiceStepTypes
    <3>2. PICK f \in Nat : f = 5 * finer
      BY <3>1
    <3>3. f * u < v * u
      BY <3>1, <3>2, ProductOrder
    <3> QED
      BY <1>6, <3>2, <3>3
  <2>8. q * step < 2 * LargestRange
    BY <1>9, <1>10, <1>11, <1>12, <2>2
  <2>9. step >= One
    BY <1>3, <1>16
  <2>10. IsScale(MakeUnitAxisScale(k, 0, top), top, u, step, q)
    BY <1>10, <2>4, <2>5, <2>6, <2>7, <2>8 DEF IsScale
  <2> QED
    BY <1>1, <1>4, <1>10, <2>9, <2>10
<1> QED
  BY <1>15, <1>16

\* The time axis: from three units on its steps are whole ones, too.
LEMMA TimeScaleIs ==
  ASSUME NEW w \in Nat, w * One <= LargestRange
  PROVE  \E s \in NiceSteps, q \in 1 .. 5 :
           /\ IsScale(MakeAxisScale(0, w * One), w * One, 1, s, q)
           /\ w >= 3 => s >= One
<1>1. One \in Nat \ {0} /\ One \in Ranges /\ One <= LargestRange
  BY OneIs DEF Ranges
<1>2. PICK v \in Nat : v = w * One
  BY <1>1
<1>3. PICK large \in Nat : large = LargestRange /\ One <= large /\ v <= large
  <2>1. 10 ^ MaxPower \in Nat
    BY PowerTypes DEF Exponents
  <2>2. LargestRange \in Nat
    BY <2>1 DEF LargestRange
  <2> QED
    BY <1>1, <1>2, <2>2
<1>4. w > 0 => v >= One
  BY <1>1, <1>2
<1>5. PICK r \in Ranges : r = RangeOf(v)
  <2>1. v # 0 => w > 0
    BY <1>1, <1>2
  <2>2. v # 0 => v \in Ranges
    BY <1>1, <1>3, <1>4, <2>1 DEF Ranges, kDefaultTickCount
  <2> QED
    BY <1>1, <2>2 DEF RangeOf
<1>6. PICK step \in Nat \ {0}, q \in 1 .. 5 :
           /\ MakeAxisScale(0, v) = [min |-> 0, tick_step |-> step,
                                     max |-> q * step]
           /\ IsStepFor(step, r)
           /\ r <= q * step /\ q * step < r + step
  BY <1>5, AxisScaleIs
<1>7. /\ step \in NiceSteps /\ 2 * step <= r /\ r <= 5 * step
      /\ \A finer \in NiceSteps : finer < step => 5 * finer < r
  BY <1>6 DEF IsStepFor
<1>8. r \in Nat /\ r <= large
  BY <1>3 DEF Ranges
<1>9. v <= r /\ (v > 0 => r = v) /\ (v = 0 => r = One)
  BY <1>1, <1>5 DEF RangeOf
<1>10. PICK top \in Nat : top = q * step
  OBVIOUS
<1>11. step * 1 = step /\ q * (step * 1) = top
  BY <1>10
<1>12. ASSUME NEW finer \in NiceSteps, finer < step
       PROVE  5 * finer * 1 < v \/ step <= One
  <2>1. finer \in Nat /\ 5 * finer < r
    BY <1>7, <1>12, NiceStepTypes
  <2>2. CASE v > 0
    BY <1>9, <2>1, <2>2
  <2>3. CASE v = 0
    BY <1>1, <1>7, <1>9, <2>3
  <2> QED
    BY <2>2, <2>3
<1>13. top < 2 * large
  BY <1>6, <1>7, <1>8, <1>10
<1>14. IsScale(MakeAxisScale(0, v), v, 1, step, q)
  <2>1. MakeAxisScale(0, v) = [min |-> 0, tick_step |-> step * 1,
                               max |-> q * (step * 1)]
    BY <1>6, <1>10, <1>11
  <2>2. v <= q * (step * 1)
    BY <1>6, <1>8, <1>9, <1>10, <1>11
  <2>3. v > 0 => q * (step * 1) < v + step * 1
    BY <1>6, <1>8, <1>9, <1>10, <1>11
  <2>4. q * step < 2 * LargestRange
    BY <1>3, <1>10, <1>13
  <2> QED
    BY <1>7, <1>12, <2>1, <2>2, <2>3, <2>4 DEF IsScale
<1>15. ASSUME w >= 3, step < One PROVE FALSE
  <2>1. PICK z \in Nat : z >= 2 /\ One = z * step
    BY <1>7, <1>15, FineStepDividesOne
  <2>2. One >= 2 * step
    BY <2>1
  <2>3. v >= 3 * One
    BY <1>1, <1>2, <1>15, ProductOrder
  <2> QED
    BY <1>1, <1>7, <1>8, <1>9, <2>2, <2>3
<1>16. w >= 3 => step >= One
  BY <1>1, <1>15
<1> QED
  BY <1>2, <1>7, <1>14, <1>16

-----------------------------------------------------------------------------
(***************************************************************************)
(* Ticks and their texts.                                                  *)
(***************************************************************************)

\* A scale of q steps has q + 1 ticks.
LEMMA TicksAre ==
  ASSUME NEW t \in Nat \ {0}, NEW q \in 1 .. 5, NEW scale,
         scale = [min |-> 0, tick_step |-> t, max |-> q * t]
  PROVE  AxisTicks(scale) = [i \in 1 .. q + 1 |-> (i - 1) * t]
<1>1. PICK top \in Nat : top = q * t /\ top > 0
  BY Products
<1>2. scale.min = 0 /\ scale.tick_step = t /\ scale.max = top
  BY <1>1
<1>3. (top - 0) \div t = q
  BY <1>1, ExactQuotient
<1>4. Min({q, 64}) = q
  BY MinOfTwo
<1>5. AxisTicks(scale)
        = [i \in 1 .. Min({q, 64}) + 1 |-> 0 + (i - 1) * t]
  <2>1. ~(scale.tick_step <= 0 \/ scale.max < scale.min)
    BY <1>1, <1>2
  <2>2. (scale.max - scale.min) \div scale.tick_step = q
    BY <1>2, <1>3
  <2> QED
    BY <1>2, <2>1, <2>2, Zenon DEF AxisTicks, kMaxTicks
<1>6. \A i \in 1 .. q + 1 : 0 + (i - 1) * t = (i - 1) * t
  OBVIOUS
<1> QED
  BY <1>4, <1>5, <1>6

\* The ticks of q steps.
AreTicks(ticks, q, step) ==
  /\ DOMAIN ticks = 1 .. q + 1 /\ Len(ticks) = q + 1
  /\ \A i \in 1 .. q + 1 : ticks[i] = (i - 1) * step

\* Such a scale fits.
LEMMA ScaleFits ==
  ASSUME NEW u \in Nat \ {0}, NEW s \in NiceSteps, NEW q \in 1 .. 5,
         NEW top \in Nat, NEW scale, IsScale(scale, top, u, s, q)
  PROVE  /\ Fits(scale, AxisTicks(scale), top, u)
         /\ AreTicks(AxisTicks(scale), q, s * u)
<1>1. s \in Nat \ {0} /\ One \in Nat \ {0}
  BY OneIs DEF IsScale
<1>2. PICK t \in Nat \ {0} : t = s * u
  BY <1>1, Products
<1>3. PICK m \in Nat : m = q * t
  BY <1>2
<1>4. scale = [min |-> 0, tick_step |-> t, max |-> q * t]
  BY <1>2 DEF IsScale
<1>5. scale.min = 0 /\ scale.tick_step = t /\ scale.max = m
  BY <1>3, <1>4
<1>6. AxisTicks(scale) = [i \in 1 .. q + 1 |-> (i - 1) * t]
  BY <1>4, TicksAre
<1>7. PICK ticks : ticks = AxisTicks(scale)
  OBVIOUS
<1>8. ticks \in Seq(Int) /\ Len(ticks) = q + 1
  <2>1. ticks \in [1 .. q + 1 -> Int]
    BY <1>6, <1>7
  <2>2. q + 1 \in Nat
    OBVIOUS
  <2> QED
    BY <2>1, <2>2, SeqDef, LenProperties
<1>9. ticks[1] = 0 /\ ticks[q + 1] = m
  <2>1. 1 \in 1 .. q + 1 /\ q + 1 \in 1 .. q + 1
    OBVIOUS
  <2>2. ticks[1] = (1 - 1) * t /\ ticks[q + 1] = (q + 1 - 1) * t
    BY <1>6, <1>7, <2>1
  <2>3. (1 - 1) * t = 0 /\ (q + 1 - 1) * t = q * t
    OBVIOUS
  <2> QED
    BY <1>3, <2>2, <2>3
<1>10. Last(ticks) = m /\ Len(ticks) \in 2 .. 5 + 1
  BY <1>8, <1>9 DEF Last
<1>11. \E step \in NiceSteps : t = step * u
  BY <1>2
<1>12. ASSUME NEW step \in NiceSteps, step * u < t
       PROVE  5 * step * u < top \/ t <= One * u
  <2>1. step \in Nat \ {0}
    BY NiceStepTypes
  <2>2. step < s
    BY <1>1, <1>2, <1>12, <2>1, ProductOrder
  <2>3. 5 * step * u < top \/ s <= One
    BY <2>2 DEF IsScale
  <2>4. s <= One => s * u <= One * u
    BY <1>1, ProductOrder
  <2> QED
    BY <1>2, <2>3, <2>4
<1>13. top <= m /\ (top > 0 => m - top < t)
  BY <1>2, <1>3 DEF IsScale
<1>14. Fits(scale, AxisTicks(scale), top, u)
  BY <1>2, <1>5, <1>7, <1>9, <1>10, <1>11, <1>12, <1>13
     DEF Fits, kDefaultTickCount
<1>15. AreTicks(AxisTicks(scale), q, s * u)
  BY <1>2, <1>6, <1>7, <1>8 DEF AreTicks
<1> QED
  BY <1>14, <1>15

\* A whole number of units rounds to that number.
LEMMA RoundWhole == ASSUME NEW w \in Nat PROVE Round(w * One) = w
<1>1. PICK o \in Nat \ {0} : o = One
  BY OneIs
<1>2. PICK d \in Nat \ {0} : d = 2 * o
  OBVIOUS
<1>3. (2 * (w * o) + o) \div d = w
  <2>1. 2 * (w * o) = w * d
    BY <1>2
  <2>2. PICK a \in Nat : a = w * d
    OBVIOUS
  <2>3. PICK b \in Nat : b = a + o
    OBVIOUS
  <2>4. w * d <= b /\ b < w * d + d
    BY <1>2, <2>2, <2>3
  <2>5. b \div d = w
    BY <2>4
  <2> QED
    BY <2>1, <2>2, <2>3, <2>5
<1> QED
  BY <1>1, <1>2, <1>3 DEF Round

\* Rounding is to the nearest unit, and keeps order.
LEMMA RoundIs ==
  ASSUME NEW a \in Nat
  PROVE  /\ Round(a) \in Nat
         /\ 2 * (Round(a) * One) <= 2 * a + One
         /\ 2 * a < 2 * (Round(a) * One) + One
<1>1. PICK o \in Nat \ {0} : o = One
  BY OneIs
<1>2. PICK d \in Nat \ {0} : d = 2 * o
  OBVIOUS
<1>3. PICK b \in Nat : b = 2 * a + o
  OBVIOUS
<1>4. PICK r \in Nat : r = b \div d /\ r * d <= b /\ b < r * d + d
  BY Quotients
<1>5. Round(a) = r
  BY <1>1, <1>2, <1>3, <1>4 DEF Round
<1>6. r * d = 2 * (r * o)
  BY <1>2
<1>7. PICK p \in Nat : p = r * o
  OBVIOUS
<1> QED
  BY <1>1, <1>2, <1>3, <1>4, <1>5, <1>6, <1>7

LEMMA RoundMonotone ==
  ASSUME NEW a \in Nat, NEW b \in Nat, a <= b
  PROVE  Round(a) <= Round(b)
<1>1. PICK o \in Nat \ {0} : o = One
  BY OneIs
<1>2. PICK q \in Nat, r \in Nat : /\ q = Round(a) /\ r = Round(b)
                                  /\ 2 * (q * o) <= 2 * a + o
                                  /\ 2 * b < 2 * (r * o) + o
  BY <1>1, RoundIs
<1>3. SUFFICES ASSUME r + 1 <= q PROVE FALSE
  BY <1>2
<1>4. (r + 1) * o <= q * o
  BY <1>3, ProductOrder
<1>5. (r + 1) * o = r * o + o
  OBVIOUS
<1>6. PICK x \in Nat, y \in Nat : x = q * o /\ y = r * o
  OBVIOUS
<1> QED
  BY <1>2, <1>4, <1>5, <1>6

\* The text of a value of whole units is how many these are.
LEMMA AxisTextIs ==
  ASSUME NEW k \in Kinds, NEW w \in Nat
  PROVE  FormatAxisTick(k, w * (One * UnitOf(k))) = w
<1>1. PICK o \in Nat \ {0}, u \in Nat \ {0} : o = One /\ u = UnitOf(k)
  BY OneIs, UnitIs
<1>2. PICK n \in Nat : n = w * u
  OBVIOUS
<1>3. PICK value \in Nat : value = w * (o * u)
  OBVIOUS
<1>4. value = n * o
  BY <1>2, <1>3
<1>5. Round(n * One) = n
  BY RoundWhole
<1>6. Max({value, 0}) = value
  BY MaxOfTwo
<1>7. n \div u = w
  BY <1>2, ExactQuotient
<1>8. Round(Max({value, 0})) \div u = w
  BY <1>1, <1>4, <1>5, <1>6, <1>7
<1> QED
  BY <1>1, <1>3, <1>8 DEF FormatAxisTick

\* A duration in minutes and seconds is the rounded one.
Shown(text) == 60 * text[1] + text[2]

LEMMA TimeTextIs ==
  ASSUME NEW t \in Nat
  PROVE  Shown(FormatTimeTick(t)) = Round(t)
<1>1. PICK n \in Nat : n = Round(t)
  BY RoundIs
<1>2. Max({t, 0}) = t
  BY MaxOfTwo
<1>3. FormatTimeTick(t) = <<n \div 60, n % 60>>
  BY <1>1, <1>2 DEF FormatTimeTick
<1>4. 60 * (n \div 60) + (n % 60) = n
  OBVIOUS
<1> QED
  BY <1>1, <1>3, <1>4 DEF Shown

\* A label's digits are counted, and are as few as a power above it says.
LEMMA DigitsAre ==
  ASSUME NEW n \in Nat, n < 10 ^ (MaxPower + 1)
  PROVE  /\ Digits(n) \in 1 .. MaxPower + 1
         /\ \A d \in Nat \ {0} : n < 10 ^ d => Digits(n) <= d
<1> DEFINE S == {d \in 1 .. MaxPower + 1 : n < 10 ^ d}
<1>1. PICK m \in Nat \ {0} : m = MaxPower + 1
  BY PowerTypes
<1>2. S \subseteq Nat /\ m \in S /\ \A d \in S : d <= m
  <2>1. S \subseteq 1 .. m
    BY <1>1
  <2>2. m \in 1 .. MaxPower + 1 /\ n < 10 ^ m
    BY <1>1
  <2>3. m \in S
    BY <2>2, Zenon
  <2> HIDE DEF S
  <2> QED
    BY <1>1, <2>1, <2>3
<1>3. Digits(n) \in S /\ \A d \in S : Digits(n) <= d
  <2>1. Digits(n) = Min(S)
    BY DEF Digits
  <2> HIDE DEF S
  <2> QED
    BY <1>1, <1>2, <2>1, MinOfBounded
<1>4. ASSUME NEW d \in Nat \ {0}, n < 10 ^ d PROVE Digits(n) <= d
  <2>1. CASE d <= m
    <3>1. d \in 1 .. MaxPower + 1
      BY <1>1, <2>1
    <3>2. d \in S
      BY <1>4, <3>1, Zenon
    <3> QED
      BY <1>3, <3>2, Zenon
  <2>2. CASE ~(d <= m)
    <3>1. Digits(n) \in Nat /\ Digits(n) <= m
      <4> HIDE DEF S
      <4> QED
        BY <1>2, <1>3
    <3> QED
      BY <1>1, <2>2, <3>1
  <2> QED
    BY <2>1, <2>2
<1> QED
  BY <1>3, <1>4

\* The width of a label; one of at most nine digits leaves room.
LEMMA TextFits ==
  ASSUME NEW n \in Nat, n < 10 ^ (MaxPower + 1), kind \in Kinds
  PROVE  TextWidth(n) \in Nat /\ (n < 10 ^ 9 => TextWidth(n) <= 224)
<1>1. PICK digits \in Nat \ {0} :
        digits = Digits(n) /\ (n < 10 ^ 9 => digits <= 9)
  <2>1. Digits(n) \in Nat \ {0}
    BY DigitsAre, PowerTypes
  <2>2. 9 \in Nat \ {0}
    OBVIOUS
  <2>3. n < 10 ^ 9 => Digits(n) <= 9
    BY <2>2, DigitsAre
  <2> QED
    BY <2>1, <2>3
<1>2. PICK c \in Nat : c = digits + Extra(digits) /\ (digits <= 9 => c <= 14)
  <2>1. PICK e \in Nat : e = (digits - 1) \div 3 /\ (digits <= 9 => e <= 2)
    OBVIOUS
  <2>2. Extra(digits) \in {e, 5, 3}
    BY <2>1 DEF Extra, Kinds
  <2> QED
    BY <2>1, <2>2
<1>3. PICK w \in 1 .. 16 : w = CharWidth
  BY GraphAssumption DEF GraphAssumption
<1>4. TextWidth(n) = w * c
  BY <1>1, <1>2, <1>3 DEF TextWidth
<1>5. w * c \in Nat /\ w * c <= 16 * c
  OBVIOUS
<1>6. n < 10 ^ 9 => 16 * c <= 224
  BY <1>1, <1>2
<1> QED
  BY <1>4, <1>5, <1>6

\* The width of a time; one of at most five digits of minutes leaves room.
LEMMA TimeFits ==
  ASSUME NEW text, text[1] \in Nat, text[1] < 10 ^ (MaxPower + 1)
  PROVE  TimeWidth(text) \in Nat /\ (text[1] < 10 ^ 5 => TimeWidth(text) <= 128)
<1>1. PICK n \in Nat : n = text[1]
  OBVIOUS
<1>2. PICK digits \in Nat \ {0} :
        digits = Digits(n) /\ (n < 10 ^ 5 => digits <= 5)
  <2>1. Digits(n) \in Nat \ {0}
    BY <1>1, DigitsAre, PowerTypes
  <2>2. 5 \in Nat \ {0}
    OBVIOUS
  <2>3. n < 10 ^ 5 => Digits(n) <= 5
    BY <1>1, <2>2, DigitsAre
  <2> QED
    BY <2>1, <2>3
<1>3. PICK c \in Nat : c = 3 + Max({2, digits}) /\ (digits <= 5 => c <= 8)
  <2>1. Max({2, digits}) = IF 2 >= digits THEN 2 ELSE digits
    BY MaxOfTwo
  <2> QED
    BY <2>1
<1>4. PICK w \in 1 .. 16 : w = CharWidth
  BY GraphAssumption DEF GraphAssumption
<1>5. TimeWidth(text) = w * c
  BY <1>1, <1>2, <1>3, <1>4 DEF TimeWidth
<1>6. w * c \in Nat /\ w * c <= 16 * c
  OBVIOUS
<1>7. n < 10 ^ 5 => 16 * c <= 128
  BY <1>2, <1>3
<1> QED
  BY <1>1, <1>5, <1>6, <1>7

\* The number on an axis has fewer digits than the largest of its scale.
LEMMA LabelsAreShort ==
  ASSUME NEW n \in Nat, n * One < 2 * LargestRange + One
  PROVE  n < 10 ^ (MaxPower + 1)
<1>1. PICK p \in Nat \ {0} :
        p = 10 ^ MaxPower /\ 10 ^ (MaxPower + 1) = 10 * p
  <2>1. MaxPower \in 0 .. MaxPower /\ MaxPower \in Exponents
    BY PowerTypes DEF Exponents
  <2> QED
    BY <2>1, PowerTypes
<1>2. PICK o \in Nat : o = One /\ o >= 10
  <2>1. PICK k \in 1 .. MaxPower : One = 10 ^ k
    BY OneIs
  <2>2. 0 \in Exponents /\ k \in Exponents /\ 0 < k
    BY PowerTypes DEF Exponents
  <2>3. PICK q \in Nat \ {0} : 10 ^ k = q * (10 * 10 ^ 0)
    BY <2>2, PowersApart
  <2>4. One = q * (10 * 1)
    BY <2>1, <2>3, PowerTypes
  <2> QED
    BY <2>4
<1>3. SUFFICES ASSUME n >= 10 * p PROVE FALSE
  BY <1>1
<1>4. n * o < 50 * p + o
  BY <1>1, <1>2 DEF LargestRange
<1>5. PICK m \in Nat : n = m + 1
  <2>1. n - 1 \in Nat
    BY <1>1, <1>3
  <2> QED
    BY <2>1
<1>6. n * o = m * o + o
  BY <1>5
<1>7. m * o < 50 * p
  <2>1. PICK x \in Nat : x = m * o
    BY <1>2
  <2> QED
    BY <1>1, <1>2, <1>4, <1>6, <2>1
<1>8. m * 10 <= m * o
  BY <1>2
<1>9. PICK x \in Nat : x = m * o
  BY <1>2
<1> QED
  BY <1>1, <1>3, <1>5, <1>7, <1>8, <1>9

-----------------------------------------------------------------------------
(***************************************************************************)
(* Series.                                                                 *)
(***************************************************************************)

\* The rows of a run come in the order of time.
InOrder(rows) == \A i, j \in DOMAIN rows :
                   i < j => rows[i].elapsed <= rows[j].elapsed

Points == [x : Nat, y : Nat]

\* What GraphAssumption says of a row.
LEMMA RowIs ==
  ASSUME NEW k \in Kinds, NEW row \in Rows(k), NEW i \in DOMAIN ChartKindMetrics(k)
  PROVE  /\ row.elapsed \in Nat /\ row.elapsed + One <= LargestRange
         /\ row[ChartKindMetrics(k)[i]] \in Nat
         /\ row[ChartKindMetrics(k)[i]] * One <= LargestRange
BY GraphAssumption DEF GraphAssumption

\* The samples of a metric: as many as rows, maybe led by a zero, in the order
\* of time, from zero to the last row's time, in whole units.
LEMMA SeriesIs ==
  ASSUME NEW k \in Kinds, NEW rows \in Seq(Rows(k)), rows # <<>>, InOrder(rows),
         NEW c \in DOMAIN ChartKindMetrics(k),
         NEW points, points = ExtractSeries(rows, ChartKindMetrics(k)[c])
  PROVE  /\ points \in Seq(Points) /\ Len(points) >= Len(rows)
         /\ points[1].x = 0
         /\ \A m \in DOMAIN points :
              /\ points[m].x <= rows[Len(rows)].elapsed
              /\ \E w \in Nat : points[m].y = w * One /\ w * One <= LargestRange
              /\ \A n \in DOMAIN points : m < n => points[m].x <= points[n].x
<1> DEFINE metric == ChartKindMetrics(k)[c]
           samples == [i \in DOMAIN rows |-> [x |-> rows[i].elapsed,
                                              y |-> rows[i][metric] * One]]
<1>1. PICK len \in Nat : len = Len(rows) /\ len > 0 /\ DOMAIN rows = 1 .. len
  BY LenProperties, EmptySeq
<1>2. PICK o \in Nat \ {0} : o = One
  BY OneIs
<1>3. \A i \in 1 .. len :
        /\ rows[i].elapsed \in Nat
        /\ rows[i][metric] \in Nat /\ rows[i][metric] * One <= LargestRange
        /\ rows[i].elapsed <= rows[len].elapsed
  <2> SUFFICES ASSUME NEW i \in 1 .. len
               PROVE  /\ rows[i].elapsed \in Nat
                      /\ rows[i][metric] \in Nat
                      /\ rows[i][metric] * One <= LargestRange
                      /\ rows[i].elapsed <= rows[len].elapsed
    OBVIOUS
  <2>1. rows[i] \in Rows(k)
    BY <1>1, ElementOfSeq
  <2>2. /\ rows[i].elapsed \in Nat
        /\ rows[i][metric] \in Nat /\ rows[i][metric] * One <= LargestRange
    BY <2>1, RowIs
  <2>3. len \in DOMAIN rows /\ (i < len \/ i = len)
    BY <1>1
  <2>4. rows[i].elapsed <= rows[len].elapsed
    BY <1>1, <2>2, <2>3 DEF InOrder
  <2> QED
    BY <2>2, <2>4
<1>4. \A i \in 1 .. len :
        /\ samples[i] \in Points
        /\ samples[i].x = rows[i].elapsed
        /\ \E w \in Nat : samples[i].y = w * One /\ w * One <= LargestRange
  <2> SUFFICES ASSUME NEW i \in 1 .. len
               PROVE  /\ samples[i] \in Points
                      /\ samples[i].x = rows[i].elapsed
                      /\ \E w \in Nat : samples[i].y = w * One
                                          /\ w * One <= LargestRange
    OBVIOUS
  <2>1. PICK w \in Nat : w = rows[i][metric] /\ w * One <= LargestRange
    BY <1>3
  <2>2. samples[i] = [x |-> rows[i].elapsed, y |-> w * One]
    BY <1>1, <2>1
  <2>3. w * One \in Nat /\ rows[i].elapsed \in Nat
    BY <1>2, <1>3
  <2> HIDE DEF samples
  <2> QED
    BY <2>1, <2>2, <2>3 DEF Points
<1>5. samples \in Seq(Points) /\ Len(samples) = len /\ DOMAIN samples = 1 .. len
  <2>1. samples \in [1 .. len -> Points]
    <3>1. DOMAIN samples = 1 .. len /\ samples = [i \in 1 .. len |-> samples[i]]
      BY <1>1
    <3> HIDE DEF samples
    <3> QED
      BY <1>4, <3>1
  <2> HIDE DEF samples
  <2>2. samples \in Seq(Points)
    BY <2>1, SeqDef
  <2> QED
    BY <2>1, <2>2, LenProperties
<1>6. ASSUME NEW i \in 1 .. len, NEW j \in 1 .. len, i < j
      PROVE  samples[i].x <= samples[j].x
  <2>1. rows[i].elapsed <= rows[j].elapsed
    BY <1>1, <1>6 DEF InOrder
  <2> HIDE DEF samples
  <2> QED
    BY <1>4, <2>1
<1>7. rows[len].elapsed \in Nat /\ rows[1].elapsed \in Nat /\ Head(rows) = rows[1]
  <2>1. 1 \in 1 .. len /\ len \in 1 .. len
    BY <1>1
  <2> QED
    BY <1>1, <1>3, <2>1
<1>8. points = (IF rows[1].elapsed > 0 THEN <<[x |-> 0, y |-> 0]>> ELSE <<>>)
                 \o samples
  BY <1>7 DEF ExtractSeries
<1> HIDE DEF samples
<1>9. CASE rows[1].elapsed > 0
  <2>1. PICK zero \in Points : zero = [x |-> 0, y |-> 0]
    BY DEF Points
  <2>2. zero.x = 0 /\ zero.y = 0
    BY <2>1
  <2>3. points = <<zero>> \o samples
    BY <1>8, <1>9, <2>1
  <2>4. <<zero>> \in Seq(Points) /\ Len(<<zero>>) = 1 /\ <<zero>>[1] = zero
    OBVIOUS
  <2>5. /\ points \in Seq(Points) /\ Len(points) = len + 1
        /\ \A i \in 1 .. len + 1 :
             points[i] = IF i <= 1 THEN <<zero>>[i] ELSE samples[i - 1]
    <3>1. 1 + len = len + 1
      OBVIOUS
    <3> QED
      BY <1>5, <2>3, <2>4, <3>1, ConcatProperties
  <2>6. DOMAIN points = 1 .. len + 1
    BY <2>5, LenProperties
  <2>7. points[1] = zero
    <3>1. 1 \in 1 .. len + 1
      OBVIOUS
    <3> QED
      BY <2>4, <2>5, <3>1
  <2>8. \A i \in 1 .. len : points[i + 1] = samples[i]
    <3> SUFFICES ASSUME NEW i \in 1 .. len PROVE points[i + 1] = samples[i]
      OBVIOUS
    <3>1. i + 1 \in 1 .. len + 1 /\ ~(i + 1 <= 1) /\ (i + 1) - 1 = i
      OBVIOUS
    <3> QED
      BY <2>5, <3>1
  <2>9. \A m \in DOMAIN points : m = 1 \/ \E i \in 1 .. len : m = i + 1
    <3> SUFFICES ASSUME NEW m \in 1 .. len + 1, m # 1
                 PROVE  \E i \in 1 .. len : m = i + 1
      BY <2>6
    <3>1. m - 1 \in 1 .. len /\ m = (m - 1) + 1
      OBVIOUS
    <3> QED
      BY <3>1
  <2>10. ASSUME NEW m \in DOMAIN points
         PROVE  /\ points[m].x <= rows[len].elapsed
                /\ \E w \in Nat : points[m].y = w * One /\ w * One <= LargestRange
    <3>1. CASE m = 1
      <4>1. points[m].x = 0 /\ points[m].y = 0
        BY <2>2, <2>7, <3>1
      <4>2. 0 * One = 0 /\ 0 <= LargestRange
        <5>1. One <= LargestRange
          BY OneIs DEF Ranges
        <5>2. LargestRange \in Int
          <6>1. 10 ^ MaxPower \in Nat
            BY PowerTypes DEF Exponents
          <6> QED
            BY <6>1 DEF LargestRange
        <5> QED
          BY <1>2, <5>1, <5>2
      <4> QED
        BY <1>7, <4>1, <4>2
    <3>2. CASE m # 1
      <4>1. PICK i \in 1 .. len : m = i + 1
        BY <2>9, <3>2
      <4>2. points[m] = samples[i]
        BY <2>8, <4>1
      <4> QED
        BY <1>3, <1>4, <4>2
    <3> QED
      BY <3>1, <3>2
  <2>11. ASSUME NEW m \in DOMAIN points, NEW n \in DOMAIN points, m < n
         PROVE  points[m].x <= points[n].x
    <3>1. m \in 1 .. len + 1 /\ n \in 1 .. len + 1
      BY <2>6
    <3>2. PICK j \in 1 .. len : n = j + 1
      BY <2>9, <2>11, <3>1
    <3>3. points[n] = samples[j]
      BY <2>8, <3>2
    <3>4. CASE m = 1
      BY <1>3, <1>4, <2>2, <2>7, <3>3, <3>4
    <3>5. CASE m # 1
      <4>1. PICK i \in 1 .. len : m = i + 1
        BY <2>9, <3>5
      <4>2. points[m] = samples[i] /\ i < j
        BY <2>8, <2>11, <3>2, <4>1
      <4> QED
        BY <1>6, <3>3, <4>2
    <3> QED
      BY <3>4, <3>5
  <2> QED
    BY <1>1, <2>2, <2>5, <2>7, <2>10, <2>11
<1>10. CASE ~(rows[1].elapsed > 0)
  <2>1. points = samples
    <3>1. points = <<>> \o samples
      BY <1>8, <1>10
    <3> QED
      BY <1>5, <3>1, ConcatEmptySeq
  <2>2. points[1].x = 0
    <3>1. 1 \in 1 .. len
      BY <1>1
    <3> QED
      BY <1>3, <1>4, <1>10, <2>1, <3>1
  <2>3. ASSUME NEW m \in DOMAIN points
        PROVE  /\ points[m].x <= rows[len].elapsed
               /\ \E w \in Nat : points[m].y = w * One /\ w * One <= LargestRange
    BY <1>3, <1>4, <1>5, <2>1
  <2>4. ASSUME NEW m \in DOMAIN points, NEW n \in DOMAIN points, m < n
        PROVE  points[m].x <= points[n].x
    BY <1>5, <1>6, <2>1, <2>4
  <2> QED
    BY <1>1, <1>5, <2>1, <2>2, <2>3, <2>4
<1> QED
  BY <1>9, <1>10

\* A set of curves as SetSeries makes them.
SeriesOf(k, rows) == [i \in DOMAIN ChartKindMetrics(k) |->
                        ExtractSeries(rows, ChartKindMetrics(k)[i])]

\* MaxY is a whole number of units, and no value is above it.
LEMMA MaxYIs ==
  ASSUME NEW k \in Kinds, NEW rows \in Seq(Rows(k)), rows # <<>>, InOrder(rows),
         NEW curves, curves = SeriesOf(k, rows)
  PROVE  /\ \E w \in Nat : MaxY(curves) = w * One /\ w * One <= LargestRange
         /\ \A c \in DOMAIN curves : \A m \in DOMAIN curves[c] :
              curves[c][m].y <= MaxY(curves)
<1> DEFINE S == {0} \cup UNION {{p.y : p \in ToSet(points)} :
                                  points \in ToSet(curves)}
<1>1. PICK o \in Nat \ {0}, large \in Nat : o = One /\ large = LargestRange
  <2>1. 10 ^ MaxPower \in Nat
    BY PowerTypes DEF Exponents
  <2>2. LargestRange \in Nat
    BY <2>1 DEF LargestRange
  <2> QED
    BY <2>2, OneIs
<1>2. ASSUME NEW y \in S PROVE \E w \in Nat : y = w * o /\ w * o <= large
  <2>1. CASE y = 0
    <3>1. 0 = 0 * o /\ 0 * o <= large
      OBVIOUS
    <3> QED
      BY <2>1, <3>1
  <2>2. CASE y # 0
    <3>1. PICK c \in DOMAIN curves : \E m \in DOMAIN curves[c] : y = curves[c][m].y
      BY <2>2 DEF ToSet
    <3>4. PICK m \in DOMAIN curves[c] : y = curves[c][m].y
      BY <3>1
    <3>2. c \in DOMAIN ChartKindMetrics(k)
          /\ curves[c] = ExtractSeries(rows, ChartKindMetrics(k)[c])
      BY DEF SeriesOf
    <3>3. PICK w \in Nat : curves[c][m].y = w * One /\ w * One <= LargestRange
      BY <3>2, SeriesIs
    <3> QED
      BY <1>1, <3>3, <3>4
  <2> QED
    BY <2>1, <2>2
<1>3. \A c \in DOMAIN curves : \A m \in DOMAIN curves[c] : curves[c][m].y \in S
  BY DEF ToSet
<1>4. 0 \in S /\ MaxY(curves) = Max(S)
  BY DEF MaxY
<1> HIDE DEF S
<1>5. S \subseteq Nat /\ \A s \in S : s <= large
  <2> SUFFICES ASSUME NEW s \in S PROVE s \in Nat /\ s <= large
    OBVIOUS
  <2>1. PICK w \in Nat : s = w * o /\ w * o <= large
    BY <1>2
  <2> QED
    BY <2>1
<1>6. Max(S) \in S /\ \A y \in S : y <= Max(S)
  BY <1>4, <1>5, MaxOfBounded
<1>7. PICK w \in Nat : Max(S) = w * o /\ w * o <= large
  BY <1>2, <1>6
<1> QED
  BY <1>1, <1>3, <1>4, <1>6, <1>7

\* The time axis is made for a whole number of seconds, at most half a second
\* from the last row.
LEMMA DurationIs ==
  ASSUME NEW k \in Kinds, NEW rows \in Seq(Rows(k)), rows # <<>>
  PROVE  \E w \in Nat, last \in Nat :
           /\ SeriesDurationSeconds(rows) = w * One /\ w * One <= LargestRange
           /\ last = rows[Len(rows)].elapsed /\ w = Round(last)
           /\ Last(rows) = rows[Len(rows)]
           /\ 2 * (last - w * One) <= One
<1>1. PICK o \in Nat \ {0}, large \in Nat : o = One /\ large = LargestRange
  <2>1. 10 ^ MaxPower \in Nat
    BY PowerTypes DEF Exponents
  <2>2. LargestRange \in Nat
    BY <2>1 DEF LargestRange
  <2> QED
    BY <2>2, OneIs
<1>2. Len(rows) \in Nat \ {0} /\ Last(rows) = rows[Len(rows)]
  BY EmptySeq DEF Last
<1>3. rows[Len(rows)] \in Rows(k)
  BY <1>2, ElementOfSeq
<1>4. 1 \in DOMAIN ChartKindMetrics(k)
  BY DEF Kinds, ChartKindMetrics
<1>5. PICK last \in Nat : last = rows[Len(rows)].elapsed /\ last + o <= large
  BY <1>1, <1>3, <1>4, RowIs
<1>6. PICK w \in Nat : w = Round(last) /\ 2 * (w * o) <= 2 * last + o
                       /\ 2 * last < 2 * (w * o) + o
  BY <1>1, RoundIs
<1>7. PICK d \in Nat : d = w * o
  OBVIOUS
<1>8. Max({d, 0}) = d
  BY MaxOfTwo
<1>9. SeriesDurationSeconds(rows) = d
  BY <1>1, <1>2, <1>5, <1>6, <1>7, <1>8 DEF SeriesDurationSeconds
<1>10. d <= large /\ 2 * (last - d) <= o
  <2>1. 2 * d <= 2 * last + o /\ 2 * last < 2 * d + o
    BY <1>6, <1>7
  <2>2. 2 * (last - d) = 2 * last - 2 * d
    OBVIOUS
  <2>3. 2 * d <= 2 * large
    BY <1>5, <2>1
  <2>4. d <= large
    BY <2>3
  <2>5. 2 * (last - d) <= o
    BY <2>1, <2>2
  <2> QED
    BY <2>4, <2>5
<1> QED
  BY <1>1, <1>2, <1>5, <1>6, <1>7, <1>9, <1>10

-----------------------------------------------------------------------------
(***************************************************************************)
(* The widget.                                                             *)
(***************************************************************************)

\* Curves and scales are those of the rows the window gave last.
ShownInv ==
  history # <<>> =>
    /\ series = SeriesOf(kind, history)
    /\ x_scale = MakeAxisScale(0, SeriesDurationSeconds(history))
    /\ y_scale = MakeUnitAxisScale(kind, 0, MaxY(series))

HistoryInv == /\ kind \in Kinds /\ size \in Sizes
              /\ history \in Seq(Rows(kind)) /\ Len(history) <= MaxRows
              /\ InOrder(history)

IInv == HistoryInv /\ ShownInv

LEMMA InitIInv == GraphInit => IInv
<1> SUFFICES ASSUME GraphInit PROVE IInv
  OBVIOUS
<1>1. kind \in Kinds /\ size \in Sizes /\ history = <<>>
  BY DEF GraphInit
<1>2. history \in Seq(Rows(kind)) /\ Len(history) = 0
  BY <1>1, EmptySeq
<1>3. Len(history) <= MaxRows
  BY <1>2, GraphAssumption DEF GraphAssumption
<1>4. InOrder(history)
  BY <1>2, LenProperties DEF InOrder
<1> QED
  BY <1>1, <1>2, <1>3, <1>4 DEF IInv, HistoryInv, ShownInv

\* A row is not before the last one, so it is before none.
LEMMA SetSeriesKeeps ==
  ASSUME IInv, SetSeries
  PROVE  IInv'
<1>1. /\ kind' = kind /\ size' = size
      /\ series' = SeriesOf(kind', history')
      /\ x_scale' = MakeAxisScale(0, SeriesDurationSeconds(history'))
      /\ y_scale' = MakeUnitAxisScale(kind', 0, MaxY(series'))
  BY DEF SetSeries, SeriesOf
<1>2. ShownInv'
  BY <1>1 DEF ShownInv
<1>3. PICK row \in Rows(kind) :
        /\ history # <<>> => Last(history).elapsed <= row.elapsed
        /\ history' = Append(history, row)
  BY DEF SetSeries
<1>4. kind \in Kinds /\ history \in Seq(Rows(kind)) /\ InOrder(history)
  BY DEF IInv, HistoryInv
<1>5. PICK len \in Nat : len = Len(history) /\ DOMAIN history = 1 .. len
  BY <1>4, LenProperties
<1>6. /\ history' \in Seq(Rows(kind)) /\ Len(history') = len + 1
      /\ \A i \in 1 .. len : history'[i] = history[i]
      /\ history'[len + 1] = row
  BY <1>3, <1>4, <1>5, AppendProperties
<1>7. DOMAIN history' = 1 .. len + 1
  BY <1>6, LenProperties
<1>8. len + 1 <= MaxRows
  <2>1. len < MaxRows /\ MaxRows \in Nat
    BY <1>5, GraphAssumption DEF GraphAssumption, SetSeries
  <2> QED
    BY <2>1
<1>9. \A i \in 1 .. len : history[i].elapsed \in Nat
  <2>1. 1 \in DOMAIN ChartKindMetrics(kind)
    BY <1>4 DEF Kinds, ChartKindMetrics
  <2>2. \A i \in 1 .. len : history[i] \in Rows(kind)
    BY <1>4, <1>5, ElementOfSeq
  <2> QED
    BY <1>4, <2>1, <2>2, RowIs
<1>10. row.elapsed \in Nat
  <2>1. 1 \in DOMAIN ChartKindMetrics(kind)
    BY <1>4 DEF Kinds, ChartKindMetrics
  <2> QED
    BY <1>4, <2>1, RowIs
<1>11. \A i \in 1 .. len : history[i].elapsed <= row.elapsed
  <2> SUFFICES ASSUME NEW i \in 1 .. len
               PROVE  history[i].elapsed <= row.elapsed
    OBVIOUS
  <2>1. history # <<>> /\ Last(history) = history[len] /\ len \in 1 .. len
    <3>1. history # <<>>
      BY <1>4, <1>5, EmptySeq
    <3> QED
      BY <1>5, <3>1 DEF Last
  <2>2. history[len].elapsed <= row.elapsed
    BY <1>3, <2>1
  <2>3. i < len \/ i = len
    BY <2>1
  <2>4. history[i].elapsed <= history[len].elapsed
    BY <1>4, <1>5, <1>9, <2>1, <2>3 DEF InOrder
  <2> QED
    BY <1>9, <1>10, <2>1, <2>2, <2>4
<1>12. ASSUME NEW i \in 1 .. len + 1, NEW j \in 1 .. len + 1, i < j
       PROVE  history'[i].elapsed <= history'[j].elapsed
  <2>1. i \in 1 .. len /\ (j = len + 1 \/ j \in 1 .. len)
    BY <1>12
  <2>2. CASE j = len + 1
    BY <1>6, <1>11, <2>1, <2>2
  <2>3. CASE j \in 1 .. len
    BY <1>4, <1>5, <1>6, <1>12, <2>1, <2>3 DEF InOrder
  <2> QED
    BY <2>1, <2>2, <2>3
<1>13. InOrder(history)'
  BY <1>7, <1>12 DEF InOrder
<1>14. HistoryInv'
  BY <1>1, <1>6, <1>8, <1>13 DEF IInv, HistoryInv
<1> QED
  BY <1>2, <1>14 DEF IInv

LEMMA NextIInv == IInv /\ [GraphNext]_graphVars => IInv'
<1> SUFFICES ASSUME IInv, [GraphNext]_graphVars PROVE IInv'
  OBVIOUS
<1>1. CASE SetSeries
  BY <1>1, SetSeriesKeeps
<1>2. CASE Resize
  BY <1>2 DEF Resize, IInv, HistoryInv, ShownInv, SeriesOf
<1>3. CASE UNCHANGED graphVars
  BY <1>3 DEF graphVars, IInv, HistoryInv, ShownInv, SeriesOf
<1> QED
  BY <1>1, <1>2, <1>3 DEF GraphNext

\* What the widget shows is what the window gave it last, and the rows are in
\* the order of time, for every set of rows and sizes.
THEOREM Invariance == GraphSpec => []IInv
<1>1. GraphInit => IInv
  BY InitIInv
<1>2. IInv /\ [GraphNext]_graphVars => IInv'
  BY NextIInv
<1> QED
  BY <1>1, <1>2, PTL DEF GraphSpec

-----------------------------------------------------------------------------
(***************************************************************************)
(* Both axes.                                                              *)
(***************************************************************************)

\* The vertical axis is a scale to the largest value, in whole units.
LEMMA YScaleIs ==
  ASSUME IInv, history # <<>>
  PROVE  \E s \in NiceSteps, q \in 1 .. 5, top \in Nat :
           /\ top = MaxY(series) /\ s >= One
           /\ IsScale(y_scale, top, UnitOf(kind), s, q)
<1>1. /\ kind \in Kinds /\ history \in Seq(Rows(kind)) /\ InOrder(history)
      /\ series = SeriesOf(kind, history)
      /\ y_scale = MakeUnitAxisScale(kind, 0, MaxY(series))
  BY DEF IInv, HistoryInv, ShownInv
<1>2. PICK w \in Nat : MaxY(series) = w * One /\ w * One <= LargestRange
  BY <1>1, MaxYIs
<1>3. PICK s \in NiceSteps, q \in 1 .. 5 :
           /\ IsScale(MakeUnitAxisScale(kind, 0, w * One), w * One,
                      UnitOf(kind), s, q)
           /\ s >= One
  BY <1>1, <1>2, UnitAxisScaleIs
<1>4. PICK top \in Nat : top = w * One
  BY OneIs
<1> QED
  BY <1>1, <1>2, <1>3, <1>4

\* The time axis is one to the rounded time of the last row.
LEMMA XScaleIs ==
  ASSUME IInv, history # <<>>
  PROVE  \E s \in NiceSteps, q \in 1 .. 5, top \in Nat, last \in Nat :
           /\ top = SeriesDurationSeconds(history)
           /\ IsScale(x_scale, top, 1, s, q)
           /\ last = Last(history).elapsed /\ Last(history) = history[Len(history)]
           /\ 2 * (last - top) <= One
           /\ last >= 3 * One => s >= One
<1>1. /\ kind \in Kinds /\ history \in Seq(Rows(kind))
      /\ x_scale = MakeAxisScale(0, SeriesDurationSeconds(history))
  BY DEF IInv, HistoryInv, ShownInv
<1>2. PICK w \in Nat, last \in Nat :
           /\ SeriesDurationSeconds(history) = w * One /\ w * One <= LargestRange
           /\ last = history[Len(history)].elapsed /\ w = Round(last)
           /\ Last(history) = history[Len(history)]
           /\ 2 * (last - w * One) <= One
  BY <1>1, DurationIs
<1>3. PICK s \in NiceSteps, q \in 1 .. 5 :
           /\ IsScale(MakeAxisScale(0, w * One), w * One, 1, s, q)
           /\ w >= 3 => s >= One
  BY <1>2, TimeScaleIs
<1>4. PICK top \in Nat : top = w * One
  BY OneIs
<1>5. last >= 3 * One => w >= 3
  <2>1. 3 * One \in Nat
    BY OneIs
  <2>2. 3 * One <= last => Round(3 * One) <= Round(last)
    BY <2>1, RoundMonotone
  <2>3. Round(3 * One) = 3
    BY RoundWhole
  <2> QED
    BY <1>2, <2>1, <2>2, <2>3
<1> QED
  BY <1>1, <1>2, <1>3, <1>4, <1>5

\* The texts of the vertical axis are the ticks' whole units.
LEMMA YLabelsAre ==
  ASSUME IInv, history # <<>>
  PROVE  \E q \in 1 .. 5, c \in Nat \ {0} :
           /\ DOMAIN YTicks = 1 .. q + 1 /\ Len(YTicks) = q + 1
           /\ YLabels = [i \in 1 .. q + 1 |-> (i - 1) * c]
           /\ q * c < 10 ^ (MaxPower + 1)
           /\ Fits(y_scale, YTicks, MaxY(series), UnitOf(kind))
<1>1. kind \in Kinds
  BY DEF IInv, HistoryInv
<1>2. PICK s \in NiceSteps, q \in 1 .. 5, top \in Nat :
           /\ top = MaxY(series) /\ s >= One
           /\ IsScale(y_scale, top, UnitOf(kind), s, q)
  BY YScaleIs
<1>3. PICK u \in Nat \ {0}, o \in Nat \ {0} : u = UnitOf(kind) /\ o = One
  BY <1>1, UnitIs, OneIs
<1>4. PICK c \in Nat \ {0} : s = c * o
  BY <1>2, <1>3, CoarseStepIsWhole
<1>5. /\ Fits(y_scale, YTicks, top, u)
      /\ DOMAIN YTicks = 1 .. q + 1 /\ Len(YTicks) = q + 1
      /\ \A i \in 1 .. q + 1 : YTicks[i] = (i - 1) * (s * u)
  <2>1. IsScale(y_scale, top, u, s, q)
    BY <1>2, <1>3
  <2>2. PICK scale : scale = y_scale
    OBVIOUS
  <2>3. IsScale(scale, top, u, s, q)
    BY <2>1, <2>2
  <2>4. Fits(scale, AxisTicks(scale), top, u) /\ AreTicks(AxisTicks(scale), q, s * u)
    BY <2>3, ScaleFits
  <2> QED
    BY <2>2, <2>4 DEF YTicks, AreTicks
<1>7. ASSUME NEW i \in 1 .. q + 1
      PROVE  FormatAxisTick(kind, YTicks[i]) = (i - 1) * c
  <2>1. PICK j \in Nat : j = i - 1
    OBVIOUS
  <2>2. YTicks[i] = j * (s * u)
    BY <1>5, <2>1
  <2>3. PICK n \in Nat : n = j * c
    OBVIOUS
  <2>4. j * (s * u) = n * (o * u)
    <3>1. s * u = c * (o * u)
      BY <1>4
    <3>2. PICK e \in Nat : e = o * u
      OBVIOUS
    <3>3. j * (c * e) = n * e
      BY <2>3
    <3> QED
      BY <3>1, <3>2, <3>3
  <2>5. FormatAxisTick(kind, n * (One * UnitOf(kind))) = n
    BY <1>1, AxisTextIs
  <2> QED
    BY <1>3, <2>1, <2>2, <2>3, <2>4, <2>5
<1>8. YLabels = [i \in 1 .. q + 1 |-> (i - 1) * c]
  BY <1>5, <1>7 DEF YLabels
<1>9. q * c < 10 ^ (MaxPower + 1)
  <2>1. PICK n \in Nat : n = q * c
    OBVIOUS
  <2>2. q * s = n * o
    BY <1>4, <2>1
  <2>3. PICK large \in Nat : large = 2 * LargestRange
    <3>1. 10 ^ MaxPower \in Nat
      BY PowerTypes DEF Exponents
    <3> QED
      BY <3>1 DEF LargestRange
  <2>4. n * o < large
    BY <1>2, <2>2, <2>3 DEF IsScale
  <2>5. n * One < 2 * LargestRange + One
    <3>1. PICK x \in Nat : x = n * o
      OBVIOUS
    <3> QED
      BY <1>3, <2>3, <2>4, <3>1
  <2> QED
    BY <2>1, <2>5, LabelsAreShort
<1> QED
  BY <1>2, <1>3, <1>5, <1>8, <1>9

\* For every run and every scale of units: both axes are round, close to the
\* data and complete, and no text is there twice (qt_chart_geometry.cpp:116).
LEMMA ReadableAxes == IInv => AxisReadable
<1> SUFFICES ASSUME IInv, history # <<>> PROVE AxisReadable
  BY DEF AxisReadable
<1>1. PICK q \in 1 .. 5, c \in Nat \ {0} :
           /\ DOMAIN YTicks = 1 .. q + 1 /\ Len(YTicks) = q + 1
           /\ YLabels = [i \in 1 .. q + 1 |-> (i - 1) * c]
           /\ q * c < 10 ^ (MaxPower + 1)
           /\ Fits(y_scale, YTicks, MaxY(series), UnitOf(kind))
  BY YLabelsAre
<1>2. \A i \in 1 .. Len(YTicks) - 1 : YLabels[i] < YLabels[i + 1]
  <2> SUFFICES ASSUME NEW i \in 1 .. q PROVE YLabels[i] < YLabels[i + 1]
    <3>1. q + 1 - 1 = q
      OBVIOUS
    <3> QED
      BY <1>1, <3>1
  <2>1. i \in 1 .. q + 1 /\ i + 1 \in 1 .. q + 1
    OBVIOUS
  <2>2. YLabels[i] = (i - 1) * c /\ YLabels[i + 1] = (i + 1 - 1) * c
    BY <1>1, <2>1
  <2>3. (i - 1) * c < i * c
    OBVIOUS
  <2>4. i + 1 - 1 = i
    OBVIOUS
  <2> QED
    BY <2>2, <2>3, <2>4
<1>3. PICK s \in NiceSteps, p \in 1 .. 5, top \in Nat, last \in Nat :
           /\ top = SeriesDurationSeconds(history)
           /\ IsScale(x_scale, top, 1, s, p)
           /\ last = Last(history).elapsed
           /\ last >= 3 * One => s >= One
  BY XScaleIs
<1>4. s \in Nat \ {0}
  BY NiceStepTypes
<1>5. /\ Fits(x_scale, XTicks, top, 1)
      /\ DOMAIN XTicks = 1 .. p + 1 /\ Len(XTicks) = p + 1
      /\ \A i \in 1 .. p + 1 : XTicks[i] = (i - 1) * (s * 1)
  <2>1. IsScale(x_scale, top, 1, s, p) /\ 1 \in Nat \ {0}
    BY <1>3
  <2>2. PICK scale : scale = x_scale
    OBVIOUS
  <2>3. IsScale(scale, top, 1, s, p)
    BY <2>1, <2>2
  <2>4. Fits(scale, AxisTicks(scale), top, 1) /\ AreTicks(AxisTicks(scale), p, s * 1)
    BY <2>1, <2>3, ScaleFits
  <2> QED
    BY <2>2, <2>4 DEF XTicks, AreTicks
<1>7. ASSUME NEW i \in 1 .. p + 1
      PROVE  (i - 1) * s \in Nat /\ Shown(XLabels[i]) = Round((i - 1) * s)
  <2>1. PICK t \in Nat : t = (i - 1) * s
    BY <1>4
  <2>2. XTicks[i] = t
    BY <1>4, <1>5, <2>1
  <2>3. XLabels[i] = FormatTimeTick(t)
    BY <1>5, <2>2 DEF XLabels
  <2> QED
    BY <2>1, <2>3, TimeTextIs
<1>8. ASSUME NEW i \in 1 .. p
      PROVE  IF last >= 3 * One THEN Shown(XLabels[i]) < Shown(XLabels[i + 1])
                                ELSE Shown(XLabels[i]) <= Shown(XLabels[i + 1])
  <2>1. i \in 1 .. p + 1 /\ i + 1 \in 1 .. p + 1 /\ (i + 1) - 1 = i
    OBVIOUS
  <2>2. PICK j \in Nat : j = i - 1
    OBVIOUS
  <2>3. PICK a \in Nat, b \in Nat : a = j * s /\ b = i * s
    BY <1>4
  <2>4. Shown(XLabels[i]) = Round(a)
    BY <1>7, <2>1, <2>2, <2>3
  <2>5. Shown(XLabels[i + 1]) = Round(b)
    BY <1>7, <2>1, <2>3
  <2>6. a <= b
    BY <1>4, <2>2, <2>3, ProductOrder
  <2>7. Round(a) <= Round(b)
    BY <2>6, RoundMonotone
  <2>8. ASSUME last >= 3 * One PROVE Round(a) < Round(b)
    <3>1. PICK o \in Nat \ {0} : o = One
      BY OneIs
    <3>2. PICK z \in Nat \ {0} : s = z * o
      BY <1>3, <2>8, <3>1, CoarseStepIsWhole
    <3>3. PICK m \in Nat, n \in Nat : m = j * z /\ n = i * z
      OBVIOUS
    <3>4. a = m * o /\ b = n * o
      BY <2>3, <3>2, <3>3
    <3>5. Round(a) = m /\ Round(b) = n
      BY <3>1, <3>4, RoundWhole
    <3>6. m < n
      BY <2>2, <3>3, ProductOrder
    <3> QED
      BY <3>5, <3>6
  <2> QED
    BY <2>4, <2>5, <2>7, <2>8
<1>9. \A i \in 1 .. Len(XTicks) - 1 :
         LET now == 60 * XLabels[i][1] + XLabels[i][2]
             next == 60 * XLabels[i + 1][1] + XLabels[i + 1][2]
         IN  IF Last(history).elapsed >= 3 * One THEN now < next
                                                 ELSE now <= next
  <2>1. Len(XTicks) - 1 = p
    BY <1>5
  <2> QED
    BY <1>3, <1>8, <2>1 DEF Shown
<1> QED
  BY <1>1, <1>2, <1>3, <1>5, <1>9 DEF AxisReadable

-----------------------------------------------------------------------------
(***************************************************************************)
(* The plot and the curves in it.                                          *)
(***************************************************************************)

\* The last text of the time axis is the rounded time of the scale's end.
LEMMA LastTimeIs ==
  ASSUME IInv, history # <<>>
  PROVE  /\ Len(XTicks) \in DOMAIN XLabels
         /\ XLabels[Len(XTicks)][1] \in Nat
         /\ XLabels[Len(XTicks)][1] < 10 ^ (MaxPower + 1)
<1>1. PICK s \in NiceSteps, p \in 1 .. 5, top \in Nat :
        IsScale(x_scale, top, 1, s, p)
  BY XScaleIs
<1>2. s \in Nat \ {0}
  BY NiceStepTypes
<1>3. DOMAIN XTicks = 1 .. p + 1 /\ Len(XTicks) = p + 1
      /\ XTicks[p + 1] = p * s
  <2>1. PICK scale : scale = x_scale
    OBVIOUS
  <2>2. IsScale(scale, top, 1, s, p) /\ 1 \in Nat \ {0}
    BY <1>1, <2>1
  <2>3. AreTicks(AxisTicks(scale), p, s * 1)
    BY <2>2, ScaleFits
  <2>4. XTicks[p + 1] = (p + 1 - 1) * (s * 1)
    <3>1. p + 1 \in 1 .. p + 1
      OBVIOUS
    <3> QED
      BY <2>1, <2>3, <3>1 DEF AreTicks, XTicks
  <2>5. (p + 1 - 1) * (s * 1) = p * s
    BY <1>2
  <2> QED
    BY <2>1, <2>3, <2>4, <2>5 DEF AreTicks, XTicks
<1>4. PICK t \in Nat : t = p * s /\ t < 2 * LargestRange
  BY <1>1, <1>2 DEF IsScale
<1>5. PICK r \in Nat : r = Round(t) /\ 2 * (r * One) <= 2 * t + One
  BY RoundIs
<1>6. r < 10 ^ (MaxPower + 1)
  <2>1. PICK o \in Nat \ {0}, large \in Nat : o = One /\ large = LargestRange
    <3>1. 10 ^ MaxPower \in Nat
      BY PowerTypes DEF Exponents
    <3>2. LargestRange \in Nat
      BY <3>1 DEF LargestRange
    <3> QED
      BY <3>2, OneIs
  <2>2. PICK x \in Nat : x = r * o
    OBVIOUS
  <2>3. x < 2 * large + o
    BY <1>4, <1>5, <2>1, <2>2
  <2> QED
    BY <2>1, <2>2, <2>3, LabelsAreShort
<1>7. p + 1 \in DOMAIN XTicks
  BY <1>3
<1>8. XLabels[p + 1] = <<r \div 60, r % 60>>
  <2>1. Max({t, 0}) = t
    BY MaxOfTwo
  <2>2. FormatTimeTick(t) = <<r \div 60, r % 60>>
    BY <1>5, <2>1 DEF FormatTimeTick
  <2> QED
    BY <1>3, <1>4, <1>7, <2>2 DEF XLabels
<1>9. PICK m \in Nat : m = r \div 60 /\ m <= r
  OBVIOUS
<1>10. XLabels[p + 1][1] = m
  BY <1>8, <1>9
<1>11. 10 ^ (MaxPower + 1) \in Nat
  BY PowerTypes DEF Exponents
<1> QED
  BY <1>3, <1>6, <1>7, <1>9, <1>10, <1>11 DEF XLabels

\* The margins are numbers, and beside short labels small enough for a widget
\* of the least size.
LEMMA MarginsAre ==
  ASSUME IInv, history # <<>>
  PROVE  /\ Margins.left \in Nat /\ Margins.right \in Nat
         /\ ShortLabels => Margins.left + Margins.right <= 306
         /\ Margins.top \in Nat /\ Margins.bottom \in Nat
         /\ Margins.top + Margins.bottom <= 131
<1>1. PICK q \in 1 .. 5, c \in Nat \ {0} :
           /\ DOMAIN YTicks = 1 .. q + 1
           /\ YLabels = [i \in 1 .. q + 1 |-> (i - 1) * c]
           /\ q * c < 10 ^ (MaxPower + 1)
  BY YLabelsAre
<1> DEFINE W == {TextWidth(YLabels[i]) : i \in DOMAIN YLabels}
<1>2. DOMAIN YLabels = 1 .. q + 1
  BY <1>1
<1>3. ASSUME NEW i \in DOMAIN YLabels
      PROVE  /\ TextWidth(YLabels[i]) \in Nat
             /\ YLabels[i] < 10 ^ 9 => TextWidth(YLabels[i]) <= 224
  <2>1. PICK n \in Nat : n = (i - 1) * c
    BY <1>2
  <2>2. n <= q * c /\ q * c \in Nat
    BY <1>2, <2>1, ProductOrder
  <2>3. 10 ^ (MaxPower + 1) \in Nat
    BY PowerTypes DEF Exponents
  <2>4. n < 10 ^ (MaxPower + 1)
    BY <1>1, <2>2, <2>3
  <2>5. YLabels[i] = n
    BY <1>1, <1>2, <2>1
  <2>6. kind \in Kinds
    BY DEF IInv, HistoryInv
  <2> QED
    BY <2>4, <2>5, <2>6, TextFits
<1>4. W \subseteq Nat /\ W # {} /\ IsFiniteSet(W)
      /\ (ShortLabels => \A w \in W : w <= 224)
  <2>1. W \subseteq Nat
    BY <1>3
  <2>2. W # {}
    BY <1>2
  <2>3. IsFiniteSet(W)
    <3>1. IsFiniteSet(DOMAIN YLabels)
      BY <1>2, FS_Interval
    <3>2. PICK f : f = [i \in DOMAIN YLabels |-> TextWidth(YLabels[i])]
      OBVIOUS
    <3>3. f \in Surjection(DOMAIN YLabels, W)
      BY <3>2 DEF Surjection
    <3> HIDE DEF W
    <3> QED
      BY <3>1, <3>3, FS_Surjection
  <2>4. ASSUME ShortLabels, NEW w \in W PROVE w <= 224
    <3>1. PICK i \in DOMAIN YLabels : w = TextWidth(YLabels[i])
      OBVIOUS
    <3>2. YLabels[i] < 10 ^ 9
      BY <2>4 DEF ShortLabels
    <3> QED
      BY <1>3, <3>1, <3>2
  <2> HIDE DEF W
  <2> QED
    BY <2>1, <2>2, <2>3, <2>4
<1> HIDE DEF W
<1>5. PICK width \in Nat : width = Max(W) /\ (ShortLabels => width <= 224)
  <2>1. PICK m \in W : \A y \in W : y <= m
    <3>1. W \subseteq Int
      BY <1>4
    <3> QED
      BY <1>4, <3>1, FiniteMax
  <2>2. Max(W) \in W
    <3>1. \E x \in W : \A y \in W : x >= y
      BY <2>1
    <3> QED
      BY <3>1 DEF Max
  <2> QED
    BY <1>4, <2>2
<1> USE DEF W
<1>6. PICK time \in Nat : /\ time = TimeWidth(XLabels[Len(XTicks)])
                          /\ ShortLabels => time <= 128
  <2>1. PICK text : text = XLabels[Len(XTicks)]
    OBVIOUS
  <2>2. /\ text[1] \in Nat /\ text[1] < 10 ^ (MaxPower + 1)
        /\ ShortLabels => text[1] < 10 ^ 5
    BY <2>1, LastTimeIs DEF ShortLabels
  <2>3. TimeWidth(text) \in Nat /\ (text[1] < 10 ^ 5 => TimeWidth(text) <= 128)
    BY <2>2, TimeFits
  <2> QED
    BY <2>1, <2>2, <2>3
<1>7. PICK half \in Nat : half = time \div 2 + 6 /\ (time <= 128 => half <= 70)
  OBVIOUS
<1>8. PICK right \in Nat : /\ right = Max({12, half})
                           /\ time <= 128 => right <= 70
  <2>1. Max({12, half}) = IF 12 >= half THEN 12 ELSE half
    BY MaxOfTwo
  <2> QED
    BY <1>7, <2>1
<1>9. PICK left \in Nat : left = width + 2 * 6
  OBVIOUS
<1>10. PICK ch \in 1 .. 35 : ch = CharHeight
  BY GraphAssumption DEF GraphAssumption
<1>11. PICK bottom \in 0 .. 47 : bottom = ch + 2 * 6
  OBVIOUS
<1>12. PICK top \in 0 .. 84 :
         top = ch + 6 + 4 + (IF Len(series) > 1 THEN ch + 4 ELSE 0)
  <2>1. ch + 6 + 4 + (ch + 4) \in 0 .. 84 /\ ch + 6 + 4 + 0 \in 0 .. 84
    OBVIOUS
  <2> QED
    BY <2>1
<1>13. Margins = [left |-> left, top |-> top, right |-> right, bottom |-> bottom]
  BY <1>5, <1>6, <1>7, <1>8, <1>9, <1>10, <1>11, <1>12
     DEF Margins, kLabelPadding, kTitleGap, kRightMargin
<1>14. /\ ShortLabels => left + right <= 306
       /\ top \in Nat /\ bottom \in Nat /\ top + bottom <= 131
  <2>1. width <= 224 /\ time <= 128 => left + right <= 306
    BY <1>8, <1>9
  <2>2. top \in Nat /\ bottom \in Nat /\ top + bottom <= 131
    OBVIOUS
  <2> QED
    BY <1>5, <1>6, <2>1, <2>2
<1>15. /\ Margins.left = left /\ Margins.top = top
       /\ Margins.right = right /\ Margins.bottom = bottom
  BY <1>13, Zenon
<1> QED
  BY <1>14, <1>15

\* The plot is at least a pixel each way, and beside short labels what the
\* margins leave of a widget of the least size.
LEMMA PlotIs ==
  ASSUME IInv, history # <<>>
  PROVE  \E left, top \in Nat, width, height \in Nat \ {0} :
           /\ Plot = [left |-> left, top |-> top, width |-> width, height |-> height]
           /\ size.width >= kMinWidth /\ size.height >= kMinHeight /\ ShortLabels =>
                /\ left + width + Margins.right = size.width
                /\ top + height + Margins.bottom = size.height
<1>1. PICK left \in Nat, right \in Nat :
        /\ Margins.left = left /\ Margins.right = right
        /\ ShortLabels => left + right <= 306
  BY MarginsAre
<1>2. PICK top \in Nat, bottom \in Nat :
        Margins.top = top /\ Margins.bottom = bottom /\ top + bottom <= 131
  BY MarginsAre
<1>3. PICK w \in Nat, h \in Nat : w = size.width /\ h = size.height
  BY GraphAssumption DEF GraphAssumption, IInv, HistoryInv
<1>4. PICK width \in Nat \ {0} :
        /\ width = Max({w - left - right, 1})
        /\ w >= 320 /\ ShortLabels => width = w - left - right
  <2>1. PICK n \in Int : n = w - left - right
    OBVIOUS
  <2>2. Max({n, 1}) = IF n >= 1 THEN n ELSE 1
    BY MaxOfTwo
  <2>3. w >= 320 /\ ShortLabels => n >= 1
    BY <1>1, <2>1
  <2> QED
    BY <2>1, <2>2, <2>3
<1>5. PICK height \in Nat \ {0} : /\ height = Max({h - top - bottom, 1})
                                  /\ h >= 140 => height = h - top - bottom
  <2>1. PICK n \in Int : n = h - top - bottom
    OBVIOUS
  <2>2. Max({n, 1}) = IF n >= 1 THEN n ELSE 1
    BY MaxOfTwo
  <2>3. h >= 140 => n >= 1
    BY <1>2, <2>1
  <2> QED
    BY <2>1, <2>2, <2>3
<1>6. Plot = [left |-> left, top |-> top, width |-> width, height |-> height]
  BY <1>1, <1>2, <1>3, <1>4, <1>5 DEF Plot, ComputePlotRect
<1>7. size.width >= kMinWidth /\ size.height >= kMinHeight /\ ShortLabels =>
        /\ left + width + Margins.right = size.width
        /\ top + height + Margins.bottom = size.height
  <2>1. size.width >= kMinWidth /\ ShortLabels => left + width + right = w
    BY <1>3, <1>4 DEF kMinWidth
  <2>2. size.height >= kMinHeight => top + height + bottom = h
    BY <1>3, <1>5 DEF kMinHeight
  <2> QED
    BY <1>1, <1>2, <1>3, <2>1, <2>2
<1> QED
  BY <1>6, <1>7

\* Values are clamped to the scale.
LEMMA AlongIs ==
  ASSUME NEW v \in Nat, NEW end \in Nat, NEW scale, scale.min = 0, scale.max = end
  PROVE  /\ Span(scale) = end
         /\ Along(v, scale) = IF v <= end THEN v ELSE end
<1>1. Span(scale) = end
  BY DEF Span
<1>2. Min({v, end}) = IF v <= end THEN v ELSE end
  BY MinOfTwo
<1>3. PICK m \in Nat : m = Min({v, end})
  BY <1>2
<1>4. Max({0, m}) = m
  BY MaxOfTwo
<1>5. v - scale.min = v
  OBVIOUS
<1> QED
  BY <1>1, <1>2, <1>3, <1>4, <1>5 DEF Along

\* Every sample is drawn in the plot, in the order of time and of values, and
\* the plot has room in a widget of the least size.
LEMMA DrawnInPlot == IInv => PointsInPlot
<1> SUFFICES ASSUME IInv, history # <<>> PROVE PointsInPlot
  BY DEF PointsInPlot
<1>1. PICK left \in Nat, top \in Nat, width \in Nat \ {0}, height \in Nat \ {0} :
        /\ Plot = [left |-> left, top |-> top, width |-> width, height |-> height]
        /\ size.width >= kMinWidth /\ size.height >= kMinHeight /\ ShortLabels =>
             /\ left + width + Margins.right = size.width
             /\ top + height + Margins.bottom = size.height
  BY PlotIs
<1>2. /\ Plot.left = left /\ Plot.top = top
      /\ Plot.width = width /\ Plot.height = height
  BY <1>1
<1>3. /\ kind \in Kinds /\ history \in Seq(Rows(kind)) /\ InOrder(history)
      /\ series = SeriesOf(kind, history)
  BY DEF IInv, HistoryInv, ShownInv
<1>4. PICK xs : xs = x_scale
  OBVIOUS
<1>5. PICK ys : ys = y_scale
  OBVIOUS
<1>6. PICK xmax \in Nat, last \in Nat :
        /\ xs.min = 0 /\ xs.max = xmax
        /\ last = history[Len(history)].elapsed /\ 2 * (last - xmax) <= One
  <2>1. PICK s \in NiceSteps, q \in 1 .. 5, t \in Nat, last \in Nat :
           /\ IsScale(x_scale, t, 1, s, q)
           /\ last = Last(history).elapsed /\ Last(history) = history[Len(history)]
           /\ 2 * (last - t) <= One
    BY XScaleIs
  <2>2. PICK step \in Nat \ {0} : step = s * 1
    BY NiceStepTypes
  <2>3. PICK e \in Nat : e = q * step
    OBVIOUS
  <2>4. xs.min = 0 /\ xs.max = e /\ t <= e
    BY <1>4, <2>1, <2>2, <2>3 DEF IsScale
  <2>5. 2 * (last - e) <= One
    <3>1. PICK o \in Nat : o = One
      BY OneIs
    <3>2. 2 * (last - e) <= 2 * (last - t)
      BY <2>4
    <3> QED
      BY <2>1, <3>1, <3>2
  <2> QED
    BY <2>1, <2>4, <2>5
<1>7. PICK ymax \in Nat, most \in Nat :
        /\ ys.min = 0 /\ ys.max = ymax /\ most = MaxY(series) /\ most <= ymax
  <2>1. PICK s \in NiceSteps, q \in 1 .. 5, t \in Nat :
           t = MaxY(series) /\ IsScale(y_scale, t, UnitOf(kind), s, q)
    BY YScaleIs
  <2>2. PICK u \in Nat \ {0} : u = UnitOf(kind)
    BY <1>3, UnitIs
  <2>3. PICK step \in Nat \ {0} : step = s * u
    BY NiceStepTypes, Products
  <2>4. PICK e \in Nat : e = q * step
    OBVIOUS
  <2>5. ys.min = 0 /\ ys.max = e /\ t <= e
    BY <1>5, <2>1, <2>2, <2>3, <2>4 DEF IsScale
  <2> QED
    BY <2>1, <2>5
<1>8. ASSUME NEW i \in DOMAIN series, NEW points, points = series[i],
             NEW line, line = Line(points)
      PROVE  /\ Len(line) >= Len(history) /\ points[1].x = 0
             /\ \A m \in DOMAIN line :
                  /\ y_scale.min <= points[m].y /\ points[m].y <= y_scale.max
                  /\ 2 * (points[m].x - x_scale.max) <= One
                  /\ line[m].x >= Plot.left * Span(x_scale)
                  /\ line[m].x <= (Plot.left + Plot.width) * Span(x_scale)
                  /\ \A n \in DOMAIN line :
                       /\ m < n => line[m].x <= line[n].x
                       /\ points[m].y < points[n].y => line[m].y > line[n].y
  <2>1. /\ i \in DOMAIN ChartKindMetrics(kind)
        /\ points = ExtractSeries(history, ChartKindMetrics(kind)[i])
    BY <1>3, <1>8 DEF SeriesOf
  <2>2. /\ points \in Seq(Points) /\ Len(points) >= Len(history)
        /\ points[1].x = 0
        /\ \A m \in DOMAIN points :
              /\ points[m].x <= last
              /\ \A n \in DOMAIN points : m < n => points[m].x <= points[n].x
    BY <1>3, <1>6, <2>1, SeriesIs
  <2>3. \A m \in DOMAIN points : points[m].y <= most
    BY <1>3, <1>7, <1>8, MaxYIs
  <2>4. PICK len \in Nat : len = Len(points) /\ DOMAIN points = 1 .. len
    BY <2>2, LenProperties
  <2>5. \A m \in 1 .. len : points[m].x \in Nat /\ points[m].y \in Nat
    <3>1. \A m \in 1 .. len : points[m] \in Points
      BY <2>2, <2>4, ElementOfSeq
    <3> QED
      BY <3>1 DEF Points
  <2>6. line = [m \in 1 .. len |-> [x |-> MapX(points[m].x, xs, Plot),
                                    y |-> MapY(points[m].y, ys, Plot)]]
    BY <1>4, <1>5, <1>8, <2>4 DEF Line, MapPoints
  <2>7. DOMAIN line = 1 .. len /\ Len(line) = len
    BY <2>6
  <2>8. Span(x_scale) = xmax
    BY <1>4, <1>6 DEF Span
  <2>9. ASSUME NEW m \in 1 .. len
        PROVE  \E a \in 0 .. xmax, b \in 0 .. ymax :
                 /\ a = IF points[m].x <= xmax THEN points[m].x ELSE xmax
                 /\ b = points[m].y
                 /\ line[m].x = left * xmax + a * width
                 /\ line[m].y = (top + height) * ymax - b * height
    <3>1. PICK x \in Nat, y \in Nat : x = points[m].x /\ y = points[m].y
      BY <2>5
    <3>2. y <= ymax
      BY <1>7, <2>3, <2>4, <3>1
    <3>10. xs.min = 0 /\ xs.max = xmax
      BY <1>6
    <3>3. /\ Span(xs) = xmax
          /\ Along(x, xs) = IF x <= xmax THEN x ELSE xmax
      BY <3>10, AlongIs
    <3>4. Span(ys) = ymax /\ Along(y, ys) = y
      BY <1>7, <3>2, AlongIs
    <3>5. PICK a \in 0 .. xmax : a = IF x <= xmax THEN x ELSE xmax
      OBVIOUS
    <3>6. line[m].x = MapX(x, xs, Plot) /\ line[m].y = MapY(y, ys, Plot)
      BY <2>6, <3>1
    <3>7. line[m].x = left * xmax + a * width
      BY <1>2, <3>3, <3>5, <3>6 DEF MapX
    <3>8. line[m].y = (top + height) * ymax - y * height
      BY <1>2, <3>4, <3>6 DEF MapY
    <3>9. y \in 0 .. ymax
      BY <3>2
    <3> QED
      BY <3>1, <3>5, <3>7, <3>8, <3>9
  <2>10. Len(line) >= Len(history)
    BY <2>2, <2>4, <2>7
  <2>11. ASSUME NEW m \in 1 .. len
         PROVE  /\ y_scale.min <= points[m].y /\ points[m].y <= y_scale.max
                /\ 2 * (points[m].x - x_scale.max) <= One
                /\ line[m].x >= Plot.left * Span(x_scale)
                /\ line[m].x <= (Plot.left + Plot.width) * Span(x_scale)
    <3>1. PICK a \in 0 .. xmax, b \in 0 .. ymax :
                 /\ b = points[m].y
                 /\ line[m].x = left * xmax + a * width
      BY <2>9
    <3>2. y_scale.min <= points[m].y /\ points[m].y <= y_scale.max
      BY <1>5, <1>7, <3>1
    <3>3. 2 * (points[m].x - x_scale.max) <= One
      <4>1. PICK x \in Nat : x = points[m].x /\ x <= last
        BY <2>2, <2>4, <2>5
      <4>2. PICK o \in Nat : o = One
        BY OneIs
      <4>3. 2 * (x - xmax) <= 2 * (last - xmax)
        BY <4>1
      <4>4. 2 * (x - xmax) <= o
        BY <1>6, <4>2, <4>3
      <4> QED
        BY <1>4, <1>6, <4>1, <4>2, <4>4
    <3>4. a * width >= 0 /\ a * width <= xmax * width
      BY ProductOrder
    <3>5. PICK l \in Nat, p \in Nat, r \in Nat :
            l = left * xmax /\ p = a * width /\ r = xmax * width
      OBVIOUS
    <3>6. (left + width) * xmax = l + r
      BY <3>5
    <3> QED
      BY <1>2, <2>8, <3>1, <3>2, <3>3, <3>4, <3>5, <3>6
  <2>12. ASSUME NEW m \in 1 .. len, NEW n \in 1 .. len
         PROVE  /\ m < n => line[m].x <= line[n].x
                /\ points[m].y < points[n].y => line[m].y > line[n].y
    <3>1. PICK a \in 0 .. xmax, b \in 0 .. ymax :
                 /\ a = IF points[m].x <= xmax THEN points[m].x ELSE xmax
                 /\ b = points[m].y
                 /\ line[m].x = left * xmax + a * width
                 /\ line[m].y = (top + height) * ymax - b * height
      BY <2>9
    <3>2. PICK c \in 0 .. xmax, d \in 0 .. ymax :
                 /\ c = IF points[n].x <= xmax THEN points[n].x ELSE xmax
                 /\ d = points[n].y
                 /\ line[n].x = left * xmax + c * width
                 /\ line[n].y = (top + height) * ymax - d * height
      BY <2>9
    <3>3. PICK l \in Nat, h \in Nat : l = left * xmax /\ h = (top + height) * ymax
      OBVIOUS
    <3>4. ASSUME m < n PROVE line[m].x <= line[n].x
      <4>1. points[m].x <= points[n].x
        BY <2>2, <2>4, <3>4
      <4>2. a <= c
        <5>1. PICK x \in Nat, y \in Nat : x = points[m].x /\ y = points[n].x
          BY <2>5
        <5>2. x <= y
          BY <4>1, <5>1
        <5>3. a = (IF x <= xmax THEN x ELSE xmax) /\ c = IF y <= xmax THEN y ELSE xmax
          BY <3>1, <3>2, <5>1
        <5> QED
          BY <5>2, <5>3
      <4>3. PICK p \in Nat, r \in Nat : p = a * width /\ r = c * width /\ p <= r
        BY <4>2, ProductOrder
      <4>4. line[m].x = l + p /\ line[n].x = l + r
        BY <3>1, <3>2, <3>3, <4>3
      <4>5. l + p <= l + r
        BY <4>3
      <4> QED
        BY <4>4, <4>5
    <3>5. ASSUME points[m].y < points[n].y PROVE line[m].y > line[n].y
      <4>1. b < d
        BY <3>1, <3>2, <3>5
      <4>2. PICK p \in Nat, r \in Nat : p = b * height /\ r = d * height /\ p < r
        BY <4>1, ProductOrder
      <4>3. line[m].y = h - p /\ line[n].y = h - r
        BY <3>1, <3>2, <3>3, <4>2
      <4>4. h - p > h - r
        BY <4>2
      <4> QED
        BY <4>3, <4>4
    <3> QED
      BY <3>4, <3>5
  <2> QED
    BY <2>2, <2>7, <2>10, <2>11, <2>12
<1>9. size.width >= kMinWidth /\ size.height >= kMinHeight /\ ShortLabels =>
         /\ Plot.left + Plot.width + Margins.right = size.width
         /\ Plot.top + Plot.height + Margins.bottom = size.height
  BY <1>1, <1>2
<1> QED
  BY <1>8, <1>9 DEF PointsInPlot

\* qt_chart_geometry.cpp:116: for every set of rows, every power of ten a unit
\* may be and every unit that divides it, both axes are round, close to the
\* data and complete, and no two ticks have the same text.
THEOREM AxesAreReadable == GraphSpec => []AxisReadable
BY Invariance, ReadableAxes, PTL

\* No curve leaves its plot or runs backwards, and a larger value is never drawn
\* lower, for every set of rows, every scale and every size of the widget.
THEOREM CurvesStayInPlot == GraphSpec => []PointsInPlot
BY Invariance, DrawnInPlot, PTL
=============================================================================
