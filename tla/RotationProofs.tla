--------------------------- MODULE RotationProofs ---------------------------
(***************************************************************************)
(* How long a model may have to wait for its bucket, for every pool, every *)
(* number of buckets that fits into a year and every sequence of years;    *)
(* and that what a plan announces for a day is what that day brings.       *)
(***************************************************************************)
EXTENDS Planner, DataLemmas, FiniteSetTheorems, FunctionTheorems, TLAPS

(* Facts about the remainder, which is all the calendar is built on.       *)
LEMMA ModRange ==
    ASSUME NEW a \in Nat, NEW n \in Nat \ {0}
    PROVE  a % n \in 0 .. n - 1 /\ a % n <= a /\ (a < n => a % n = a)
OBVIOUS

(* The defining property of quotient and remainder.                        *)
LEMMA DivMod ==
    ASSUME NEW a \in Nat, NEW n \in Nat \ {0}
    PROVE  a = n * (a \div n) + (a % n) /\ a \div n \in Nat
OBVIOUS

(* A larger factor makes the product larger by n at least.                 *)
LEMMA ProductGrows ==
    ASSUME NEW n \in Nat \ {0}, NEW x \in Nat, NEW y \in Nat, x < y
    PROVE  n * x + n <= n * y
<1>1. PICK d \in Nat : y = x + 1 + d
  <2>1. y - x - 1 \in Nat /\ y = x + 1 + (y - x - 1)
    OBVIOUS
  <2> QED  BY <2>1
<1>2. n * y = n * x + n + n * d
  BY <1>1
<1>3. n * d >= 0 /\ n * d \in Int /\ n * x \in Int
  OBVIOUS
<1> QED  BY <1>2, <1>3

(* Quotient and remainder are determined by their defining property.       *)
LEMMA ModUnique ==
    ASSUME NEW a \in Nat, NEW n \in Nat \ {0}, NEW q \in Nat, NEW r \in 0 .. n - 1,
           a = n * q + r
    PROVE  a % n = r
<1> DEFINE p == a \div n
<1>1. a = n * p + (a % n) /\ p \in Nat /\ a % n \in 0 .. n - 1
  BY DivMod, ModRange
<1> HIDE DEF p
<1>2. ASSUME p < q PROVE FALSE
  <2>1. n * p + n <= n * q
    BY <1>1, <1>2, ProductGrows
  <2> QED  BY <1>1, <2>1
<1>3. ASSUME q < p PROVE FALSE
  <2>1. n * q + n <= n * p
    BY <1>1, <1>3, ProductGrows
  <2> QED  BY <1>1, <2>1
<1>4. p = q
  BY <1>1, <1>2, <1>3
<1> QED  BY <1>1, <1>4

(* The remainder of the next number.                                       *)
LEMMA ModSucc ==
    ASSUME NEW a \in Nat, NEW n \in Nat \ {0}
    PROVE  (a + 1) % n = IF (a % n) + 1 = n THEN 0 ELSE (a % n) + 1
<1> DEFINE q == a \div n
           r == a % n
<1>1. a = n * q + r /\ q \in Nat /\ r \in 0 .. n - 1
  BY DivMod, ModRange
<1> HIDE DEF q, r
<1>2. CASE r + 1 = n
  <2>1. a + 1 = n * (q + 1) + 0
    BY <1>1, <1>2
  <2>2. (a + 1) % n = 0
    BY <1>1, <2>1, ModUnique
  <2> QED  BY <1>2, <2>2 DEF r
<1>3. CASE r + 1 # n
  <2>1. a + 1 = n * q + (r + 1) /\ r + 1 \in 0 .. n - 1
    BY <1>1, <1>3
  <2>2. (a + 1) % n = r + 1
    BY <1>1, <2>1, ModUnique
  <2> QED  BY <1>3, <2>2 DEF r
<1> QED  BY <1>2, <1>3

(* The remainder d steps further on, as long as that is no full round.     *)
LEMMA ModShift ==
    ASSUME NEW a \in Nat, NEW n \in Nat \ {0}, NEW d \in Int,
           (a % n) + d \in 0 .. n - 1
    PROVE  a + d \in Nat /\ (a + d) % n = (a % n) + d
<1> DEFINE q == a \div n
           r == a % n
<1>1. a = n * q + r /\ q \in Nat /\ r \in 0 .. n - 1
  BY DivMod, ModRange
<1>2. r + d \in 0 .. n - 1
  OBVIOUS
<1> HIDE DEF q, r
<1>3. a + d = n * q + (r + d) /\ n * q \in Nat
  BY <1>1
<1>4. a + d \in Nat
  BY <1>2, <1>3
<1>5. (a + d) % n = r + d
  BY <1>1, <1>2, <1>3, <1>4, ModUnique
<1> QED  BY <1>4, <1>5 DEF r

(* Two numbers with one remainder are n apart at least.                    *)
LEMMA ModGap ==
    ASSUME NEW a \in Nat, NEW b \in Nat, NEW n \in Nat \ {0}, a < b, a % n = b % n
    PROVE  a + n <= b
<1> DEFINE p == a \div n
           q == b \div n
           r == a % n
<1>1. a = n * p + r /\ b = n * q + r /\ p \in Nat /\ q \in Nat /\ r \in 0 .. n - 1
  BY DivMod, ModRange
<1> HIDE DEF p, q, r
<1>2. ASSUME q <= p PROVE FALSE
  <2>1. q < p => n * q + n <= n * p
    BY <1>1, ProductGrows
  <2> QED  BY <1>1, <1>2, <2>1
<1>3. n * p + n <= n * q
  BY <1>1, <1>2, ProductGrows
<1> QED  BY <1>1, <1>3

(* Each remainder occurs once among n numbers in a row.                    *)
LEMMA ResidueOnce ==
    ASSUME NEW a \in Nat, NEW n \in Nat \ {0}, NEW r \in 0 .. n - 1
    PROVE  \E k \in 0 .. n - 1 :
              /\ (a + k) % n = r
              /\ \A j \in 0 .. n - 1 : (a + j) % n = r => j = k
<1> DEFINE x == a % n
<1>1. x \in 0 .. n - 1
  BY ModRange
<1>2. \E k \in 0 .. n - 1 : (a + k) % n = r
  <2>1. CASE x <= r
    <3>1. r - x \in 0 .. n - 1 /\ r - x \in Int /\ x + (r - x) = r
      BY <1>1, <2>1
    <3>2. (a + (r - x)) % n = r
      BY <3>1, ModShift
    <3> QED  BY <3>1, <3>2
  <2>2. CASE r < x
    <3>1. r - x \in Int /\ x + (r - x) = r /\ r - x + n \in 0 .. n - 1
      BY <1>1, <2>2
    <3> DEFINE q == a \div n
               k == r - x + n
    <3>2. a = n * q + x /\ q \in Nat
      BY DivMod
    <3> HIDE DEF q, x
    <3>3. a + k = n * (q + 1) + r /\ a + k \in Nat /\ q + 1 \in Nat
      BY <1>1, <3>1, <3>2
    <3>4. k \in 0 .. n - 1
      BY <3>1
    <3> HIDE DEF k
    <3>5. (a + k) % n = r
      BY <3>3, ModUnique
    <3> QED  BY <3>4, <3>5
  <2> QED  BY <1>1, <2>1, <2>2
<1>3. ASSUME NEW j \in 0 .. n - 1, NEW k \in 0 .. n - 1, (a + j) % n = r, (a + k) % n = r
      PROVE  ~(j < k)
  <2>1. a + j \in Nat /\ a + k \in Nat
    OBVIOUS
  <2>2. a + j < a + k => (a + j) + n <= a + k
    BY <1>3, <2>1, ModGap
  <2>3. k < j + n /\ j \in Int /\ k \in Int
    OBVIOUS
  <2>4. SUFFICES ASSUME j < k PROVE FALSE
    OBVIOUS
  <2>5. a + j < a + k /\ ~((a + j) + n <= a + k)
    BY <2>3, <2>4
  <2> QED  BY <2>2, <2>5
<1>4. PICK k \in 0 .. n - 1 : (a + k) % n = r
  BY <1>2
<1>5. \A j \in 0 .. n - 1 : (a + j) % n = r => j = k
  <2> SUFFICES ASSUME NEW j \in 0 .. n - 1, (a + j) % n = r PROVE j = k
    OBVIOUS
  <2>1. ~(j < k) /\ ~(k < j)
    BY <1>3, <1>4
  <2> QED  BY <2>1
<1> QED  BY <1>4, <1>5

-----------------------------------------------------------------------------
USE DEF Models

(* What bucket_for checks before it divides.                               *)
LEMMA BucketCountPositive == BucketCount \in Nat /\ BucketCount # 0
BY CalendarAssumption

(* The phase of the rotation on a day of the year, and on the next day.    *)
LEMMA PhaseType ==
    ASSUME NEW d \in Nat, d # 0
    PROVE  /\ d - 1 \in Nat
           /\ (d - 1) % BucketCount \in 0 .. BucketCount - 1
           /\ d - 1 < BucketCount => (d - 1) % BucketCount = d - 1
<1>1. d - 1 \in Nat
  OBVIOUS
<1> QED  BY <1>1, BucketCountPositive, ModRange

(* The bucket of the next day of the year.                                 *)
LEMMA PhaseSucc ==
    ASSUME NEW d \in Nat, d # 0
    PROVE  ((d + 1) - 1) % BucketCount =
              IF ((d - 1) % BucketCount) + 1 = BucketCount
              THEN 0 ELSE ((d - 1) % BucketCount) + 1
<1>1. d - 1 \in Nat /\ (d + 1) - 1 = (d - 1) + 1
  OBVIOUS
<1>2. ((d - 1) + 1) % BucketCount =
         IF ((d - 1) % BucketCount) + 1 = BucketCount
         THEN 0 ELSE ((d - 1) % BucketCount) + 1
  BY <1>1, BucketCountPositive, ModSucc
<1> QED  BY <1>1, <1>2

IndexIn(S, m) == Index(S, m) % BucketCount

(* Every model has a bucket.                                               *)
LEMMA IndexType ==
    ASSUME NEW S \in SUBSET Models, NEW m
    PROVE  IndexIn(S, m) \in 0 .. BucketCount - 1
<1>1. IsFiniteSet(1 .. NumModels)
  BY CalendarAssumption, FS_Interval
<1>2. IsFiniteSet({k \in S : k < m})
  BY <1>1, FS_Subset
<1>3. Index(S, m) \in Nat
  BY <1>2, FS_CardinalityType DEF Index
<1>4. Index(S, m) % BucketCount \in 0 .. BucketCount - 1
  BY <1>3, BucketCountPositive, ModRange
<1> QED  BY <1>4 DEF IndexIn

(* The index of a model counts the models before it ...                    *)
LEMMA IndexProperties ==
    ASSUME NEW S \in SUBSET Models
    PROVE  /\ IsFiniteSet(S) /\ Cardinality(S) \in Nat
           /\ \A m \in S : Index(S, m) \in 0 .. Cardinality(S) - 1
           /\ \A m, k \in S : k < m => Index(S, k) < Index(S, m)
<1> DEFINE Before(m) == {k \in S : k < m}
<1>1. IsFiniteSet(S) /\ Cardinality(S) \in Nat
  <2>1. IsFiniteSet(1 .. NumModels)
    BY CalendarAssumption, FS_Interval
  <2> QED  BY <2>1, FS_Subset, FS_CardinalityType
<1>2. ASSUME NEW m \in S, NEW T, IsFiniteSet(T), Before(m) \in SUBSET T, m \in T
      PROVE  /\ Cardinality(Before(m)) \in Nat /\ Cardinality(T) \in Nat
             /\ Cardinality(Before(m)) < Cardinality(T)
  <2>1. /\ IsFiniteSet(Before(m)) /\ Cardinality(Before(m)) <= Cardinality(T)
        /\ Cardinality(T) = Cardinality(Before(m)) => T = Before(m)
    BY <1>2, FS_Subset
  <2>2. T # Before(m)
    <3>1. m \in Int
      BY CalendarAssumption
    <3> QED  BY <1>2, <3>1
  <2>3. Cardinality(Before(m)) \in Nat /\ Cardinality(T) \in Nat
    BY <1>2, <2>1, FS_CardinalityType
  <2> QED  BY <2>1, <2>2, <2>3
<1>3. ASSUME NEW m \in S
      PROVE  Index(S, m) \in 0 .. Cardinality(S) - 1
  <2>1. Cardinality(Before(m)) \in Nat /\ Cardinality(Before(m)) < Cardinality(S)
    BY <1>1, <1>2
  <2> HIDE DEF Before
  <2>2. Cardinality(Before(m)) \in 0 .. Cardinality(S) - 1
    BY <1>1, <2>1
  <2> QED  BY <2>2 DEF Index, Before
<1>4. ASSUME NEW m \in S, NEW k \in S, k < m
      PROVE  Index(S, k) < Index(S, m)
  <2>1. Before(k) \in SUBSET Before(m) /\ k \in Before(m) /\ IsFiniteSet(Before(m))
    <3>1. IsFiniteSet(Before(m))
      BY <1>1, FS_Subset
    <3>2. \A x \in S : x \in Int
      BY CalendarAssumption
    <3>3. \A x \in S : x < k => x < m
      BY <1>4, <3>2
    <3>4. Before(k) \subseteq Before(m) /\ k \in Before(m)
      BY <1>4, <3>3
    <3> QED  BY <3>1, <3>4
  <2>2. Cardinality(Before(k)) < Cardinality(Before(m))
    BY <1>2, <2>1
  <2> QED  BY <2>2 DEF Index
<1> QED  BY <1>1, <1>3, <1>4

(* ... and takes each value below their number once.                       *)
LEMMA IndexBijective ==
    ASSUME NEW S \in SUBSET Models
    PROVE  /\ \A m, k \in S : Index(S, m) = Index(S, k) => m = k
           /\ \A i \in 0 .. Cardinality(S) - 1 : \E m \in S : Index(S, m) = i
<1> DEFINE f == [m \in S |-> Index(S, m)]
           T == 0 .. Cardinality(S) - 1
<1>1. IsFiniteSet(S) /\ Cardinality(S) \in Nat
  BY IndexProperties
<1>2. f \in [S -> T]
  BY IndexProperties
<1>3. ASSUME NEW m \in S, NEW k \in S, Index(S, m) = Index(S, k)
      PROVE  m = k
  <2>1. Index(S, m) \in Int /\ m \in Int /\ k \in Int
    BY IndexProperties, CalendarAssumption
  <2>2. ~(k < m) /\ ~(m < k)
    BY <1>3, <2>1, IndexProperties
  <2> QED  BY <2>1, <2>2
<1>4. f \in Injection(S, T)
  BY <1>2, <1>3, Fun_IsInj
<1>5. IsFiniteSet(T) /\ Cardinality(T) = Cardinality(S)
  <2>1. /\ IsFiniteSet(0 .. Cardinality(S) - 1)
        /\ Cardinality(0 .. Cardinality(S) - 1) =
              IF 0 > Cardinality(S) - 1 THEN 0 ELSE (Cardinality(S) - 1) - 0 + 1
    BY <1>1, FS_Interval
  <2> QED  BY <1>1, <2>1
<1> HIDE DEF f, T
<1>6. f \in Surjection(S, T)
  BY <1>4, <1>5, FS_Injection
<1>7. \A i \in T : \E m \in S : f[m] = i
  BY <1>6, Fun_SurjectionProperties
<1> QED  BY <1>3, <1>7 DEF f, T

(* A set of models whose indices, moved by d, are those of models of       *)
(* another set is not larger than that.                                    *)
LEMMA MovedIndices ==
    ASSUME NEW S \in SUBSET Models, NEW A \in SUBSET S, NEW B \in SUBSET S, NEW d \in Int,
           \A m \in A : \E k \in B : Index(S, k) = Index(S, m) + d
    PROVE  Cardinality(A) <= Cardinality(B)
<1> DEFINE moved(m) == CHOOSE k \in B : Index(S, k) = Index(S, m) + d
           f == [m \in A |-> moved(m)]
<1>1. \A m \in A : moved(m) \in B /\ Index(S, moved(m)) = Index(S, m) + d
  OBVIOUS
<1> HIDE DEF moved
<1>2. f \in [A -> B]
  BY <1>1
<1>3. ASSUME NEW m \in A, NEW k \in A, f[m] = f[k]
      PROVE  m = k
  <2>1. moved(m) = moved(k)
    BY <1>3
  <2>2. Index(S, m) + d = Index(S, k) + d
    BY <1>1, <2>1
  <2>3. Index(S, m) \in Int /\ Index(S, k) \in Int
    BY IndexProperties
  <2>4. Index(S, m) = Index(S, k)
    BY <2>2, <2>3
  <2> QED  BY <2>4, IndexBijective
<1>4. f \in Injection(A, B)
  BY <1>2, <1>3, Fun_IsInj
<1>5. IsFiniteSet(B)
  BY IndexProperties, FS_Subset
<1> HIDE DEF f
<1> QED  BY <1>4, <1>5, FS_Injection

InBucket(S, r) == {m \in S : IndexIn(S, m) = r}

(* Two buckets differ by one model at most.                                *)
LEMMA BucketSizes ==
    ASSUME NEW S \in SUBSET Models,
           NEW r \in 0 .. BucketCount - 1, NEW q \in 0 .. BucketCount - 1
    PROVE  Cardinality(InBucket(S, r)) <= Cardinality(InBucket(S, q)) + 1
<1> DEFINE A == InBucket(S, r)
           B == InBucket(S, q)
           N == Cardinality(S)
           d == q - r
<1>1. /\ N \in Nat /\ d \in Int
      /\ IsFiniteSet(A) /\ Cardinality(A) \in Nat
      /\ IsFiniteSet(B) /\ Cardinality(B) \in Nat
  <2>1. IsFiniteSet(S) /\ Cardinality(S) \in Nat
    BY IndexProperties
  <2>2. A \in SUBSET S /\ B \in SUBSET S
    BY DEF InBucket
  <2> HIDE DEF A, B
  <2>3. IsFiniteSet(A) /\ IsFiniteSet(B)
    BY <2>1, <2>2, FS_Subset
  <2> QED  BY <2>1, <2>3, FS_CardinalityType
<1>2. ASSUME NEW m \in A, Index(S, m) + d <= N - 1
      PROVE  \E k \in B : Index(S, k) = Index(S, m) + d
  <2>1. m \in S /\ Index(S, m) \in Nat /\ Index(S, m) % BucketCount = r
    <3>1. m \in S /\ Index(S, m) % BucketCount = r
      BY DEF InBucket, IndexIn
    <3>2. Index(S, m) \in 0 .. N - 1
      BY <3>1, IndexProperties
    <3> HIDE DEF N
    <3> QED  BY <1>1, <3>1, <3>2
  <2>2. Index(S, m) + d \in Nat /\ (Index(S, m) + d) % BucketCount = q
    <3>1. (Index(S, m) % BucketCount) + d \in 0 .. BucketCount - 1
      BY <2>1, CalendarAssumption
    <3>2. /\ Index(S, m) + d \in Nat
          /\ (Index(S, m) + d) % BucketCount = (Index(S, m) % BucketCount) + d
      BY <1>1, <2>1, <3>1, BucketCountPositive, ModShift
    <3>3. r + d = q
      BY CalendarAssumption
    <3> QED  BY <2>1, <3>2, <3>3
  <2>3. Index(S, m) + d \in 0 .. N - 1
    BY <1>1, <1>2, <2>2
  <2>4. PICK k \in S : Index(S, k) = Index(S, m) + d
    BY <2>3, IndexBijective
  <2> QED  BY <2>2, <2>4 DEF InBucket, IndexIn
<1>3. CASE q <= r
  <2>1. \A m \in A : Index(S, m) + d <= N - 1
    <3> SUFFICES ASSUME NEW m \in A PROVE Index(S, m) + d <= N - 1
      OBVIOUS
    <3>1. Index(S, m) \in 0 .. N - 1
      BY IndexProperties DEF InBucket
    <3>2. d <= 0
      BY <1>3, CalendarAssumption
    <3> HIDE DEF d, N
    <3> QED  BY <1>1, <3>1, <3>2
  <2>2. \A m \in A : \E k \in B : Index(S, k) = Index(S, m) + d
    BY <1>2, <2>1
  <2>3. Cardinality(A) <= Cardinality(B)
    <3>1. A \in SUBSET S /\ B \in SUBSET S
      BY DEF InBucket
    <3> HIDE DEF A, B, d
    <3> QED  BY <1>1, <2>2, <3>1, MovedIndices
  <2> HIDE DEF A, B
  <2> QED  BY <1>1, <2>3 DEF A, B
<1>4. CASE r < q
  <2>1. CASE A = {}
    <3>1. Cardinality(A) = 0
      BY <2>1, FS_EmptySet
    <3> HIDE DEF A, B
    <3> QED  BY <1>1, <3>1 DEF A, B
  <2>2. CASE A # {}
    <3>1. PICK t \in A : \A m \in A : m <= t
      <4>1. A \subseteq 0 .. NumModels /\ NumModels \in Nat
        <5>1. A \subseteq Models /\ NumModels \in Nat
          BY CalendarAssumption DEF InBucket
        <5> HIDE DEF A
        <5> QED  BY <5>1
      <4> HIDE DEF A
      <4> QED  BY <2>2, <4>1, MaxExists
    <3>2. ASSUME NEW m \in A \ {t}
          PROVE  \E k \in B : Index(S, k) = Index(S, m) + d
      <4>1. /\ m \in S /\ t \in S /\ m < t
            /\ Index(S, m) % BucketCount = Index(S, t) % BucketCount
        BY <3>1, <3>2, CalendarAssumption DEF InBucket, IndexIn
      <4>2. /\ Index(S, m) \in Nat /\ Index(S, t) \in 0 .. N - 1
            /\ Index(S, m) < Index(S, t)
        <5>1. /\ Index(S, m) \in 0 .. N - 1 /\ Index(S, t) \in 0 .. N - 1
              /\ Index(S, m) < Index(S, t)
          BY <4>1, IndexProperties
        <5> HIDE DEF N
        <5> QED  BY <1>1, <5>1
      <4>3. Index(S, m) + BucketCount <= Index(S, t)
        BY <4>1, <4>2, BucketCountPositive, ModGap
      <4>4. d <= BucketCount
        BY CalendarAssumption
      <4>5. Index(S, m) + d <= N - 1
        <5> HIDE DEF d, N
        <5> QED  BY <1>1, <4>2, <4>3, <4>4, CalendarAssumption
      <4> QED  BY <1>2, <4>5
    <3>3. Cardinality(A \ {t}) <= Cardinality(B)
      <4>1. A \ {t} \in SUBSET S /\ B \in SUBSET S
        BY DEF InBucket
      <4> HIDE DEF A, B, d
      <4> QED  BY <1>1, <3>2, <4>1, MovedIndices
    <3>4. Cardinality(A \ {t}) = Cardinality(A) - 1
      <4> HIDE DEF A
      <4> QED  BY <1>1, <3>1, FS_RemoveElement
    <3> HIDE DEF A, B
    <3> QED  BY <1>1, <3>3, <3>4 DEF A, B
  <2> QED  BY <2>1, <2>2
<1> QED  BY <1>3, <1>4, CalendarAssumption

(* The strengthening: on day d of the year, in phase x of the rotation,    *)
(* the wait of a model whose bucket is b is the distance from b back to x, *)
(* unless b has not come up yet this year.                                 *)
WaitAllowed(d, w, b) ==
    LET x == (d - 1) % BucketCount IN
    IF d - 1 < b THEN w <= BucketCount - 1 + d
    ELSE IF x < b THEN w <= BucketCount + x - b
    ELSE w <= x - b

WaitsAllowed ==
    \A m \in enabled : WaitAllowed(yday, wait[m], IndexIn(enabled, m))

IInv == TypeOK /\ WaitsAllowed

(* A model that has just been in the bucket of the day waits for nothing.  *)
LEMMA ZeroAllowed ==
    ASSUME NEW d \in Nat \ {0}, NEW b \in 0 .. BucketCount - 1
    PROVE  WaitAllowed(d, 0, b)
<1>1. (d - 1) % BucketCount \in 0 .. BucketCount - 1
  BY CalendarAssumption, ModRange
<1> QED  BY <1>1, CalendarAssumption DEF WaitAllowed

(* One day of a year: the model is in the bucket of the day, or its wait   *)
(* grows by one and is still allowed.                                      *)
LEMMA AllowedNextDay ==
    ASSUME NEW d \in Nat \ {0}, NEW w \in Nat, NEW b \in 0 .. BucketCount - 1,
           WaitAllowed(d, w, b), ((d + 1) - 1) % BucketCount # b
    PROVE  WaitAllowed(d + 1, w + 1, b)
<1> DEFINE x == (d - 1) % BucketCount
           y == ((d + 1) - 1) % BucketCount
<1>1. x \in 0 .. BucketCount - 1 /\ (d - 1 < BucketCount => x = d - 1)
  BY PhaseType
<1>2. y = IF x + 1 = BucketCount THEN 0 ELSE x + 1
  BY PhaseSucc
<1>3. y # b /\ BucketCount \in Nat \ {0}
  BY CalendarAssumption
<1>4. IF d - 1 < b THEN w <= BucketCount - 1 + d
      ELSE IF x < b THEN w <= BucketCount + x - b
      ELSE w <= x - b
  BY DEF WaitAllowed
<1>5. IF (d + 1) - 1 < b THEN w + 1 <= BucketCount - 1 + (d + 1)
      ELSE IF y < b THEN w + 1 <= BucketCount + y - b
      ELSE w + 1 <= y - b
  <2> HIDE DEF x, y
  <2>1. CASE d - 1 < b
    BY <1>1, <1>2, <1>3, <1>4, <2>1
  <2>2. CASE d - 1 >= b
    BY <1>1, <1>2, <1>3, <1>4, <2>2
  <2> QED  BY <2>1, <2>2
<1> QED  BY <1>5 DEF WaitAllowed

(* The first of January.                                                   *)
LEMMA AllowedNewYear ==
    ASSUME NEW d \in Nat \ {0}, NEW w \in Nat, NEW b \in 0 .. BucketCount - 1,
           WaitAllowed(d, w, b), BucketCount <= d, (1 - 1) % BucketCount # b
    PROVE  WaitAllowed(1, w + 1, b)
<1> DEFINE x == (d - 1) % BucketCount
<1>1. x \in 0 .. BucketCount - 1 /\ (1 - 1) % BucketCount = 0
  BY PhaseType, BucketCountPositive
<1>2. w <= BucketCount - 1
  <2>1. IF d - 1 < b THEN w <= BucketCount - 1 + d
        ELSE IF x < b THEN w <= BucketCount + x - b
        ELSE w <= x - b
    BY DEF WaitAllowed
  <2> HIDE DEF x
  <2> QED  BY <1>1, <2>1, CalendarAssumption
<1> QED  BY <1>1, <1>2, CalendarAssumption DEF WaitAllowed

-----------------------------------------------------------------------------
(* On the first day nobody has waited.                                     *)
LEMMA InitIInv == Init => IInv
<1> SUFFICES ASSUME Init PROVE IInv
  OBVIOUS
<1>1. TypeOK
  BY CalendarAssumption DEF Init, TypeOK, MaxWait
<1>2. yday \in Nat \ {0}
  BY CalendarAssumption DEF Init
<1>3. WaitsAllowed
  BY <1>2, IndexType, ZeroAllowed DEF Init, WaitsAllowed
<1> QED  BY <1>1, <1>3 DEF IInv

(* A new day keeps the types.                                              *)
LEMMA TypeNewDay ==
    ASSUME TypeOK, NewDay
    PROVE  TypeOK'
<1>1. yearLength' \in YearLengths /\ yday' \in 1 .. yearLength'
  <2>1. yearLength \in Nat /\ yday \in 1 .. yearLength /\ yearLength \in YearLengths
    BY CalendarAssumption DEF TypeOK
  <2>2. CASE yday < yearLength /\ yday' = yday + 1 /\ yearLength' = yearLength
    BY <2>1, <2>2
  <2>3. CASE yday' = 1 /\ yearLength' \in YearLengths
    <3>1. yearLength' \in Nat /\ yearLength' # 0
      BY <2>3, CalendarAssumption
    <3> QED  BY <2>3, <3>1
  <2> QED  BY <2>2, <2>3 DEF NewDay, NextDay
<1>2. \A m \in Models :
        (IF m \notin enabled \ Today' THEN 0
         ELSE IF wait[m] < MaxWait THEN wait[m] + 1 ELSE MaxWait) \in 0 .. MaxWait
  BY CalendarAssumption DEF TypeOK, MaxWait
<1>3. wait' \in [Models -> 0 .. MaxWait]
  BY <1>2 DEF NewDay
<1> QED  BY <1>1, <1>3 DEF TypeOK, NewDay

(* A day that passes inside a year moves the bucket on by one; the first   *)
(* day of a year starts again at bucket 0, and the last year was long      *)
(* enough.                                                                 *)
LEMMA AllowedNewDay ==
    ASSUME IInv, NewDay, \A L \in YearLengths : BucketCount <= L
    PROVE  WaitsAllowed'
<1> SUFFICES ASSUME NEW m \in enabled
             PROVE  WaitAllowed(yday', wait'[m], IndexIn(enabled, m))
  BY DEF NewDay, WaitsAllowed
<1> DEFINE b == IndexIn(enabled, m)
<1>1. /\ b \in 0 .. BucketCount - 1
      /\ yday \in Nat \ {0} /\ yday' \in Nat \ {0}
      /\ wait[m] \in Nat /\ wait[m] <= MaxWait /\ MaxWait \in Nat
  <2>1. TypeOK' /\ m \in Models
    BY TypeNewDay DEF IInv, TypeOK
  <2> QED  BY <2>1, IndexType, CalendarAssumption DEF IInv, TypeOK, MaxWait
<1>2. WaitAllowed(yday, wait[m], b)
  BY DEF IInv, WaitsAllowed
<1>3. wait'[m] = IF m \notin enabled \ Today' THEN 0
                 ELSE IF wait[m] < MaxWait THEN wait[m] + 1 ELSE MaxWait
  BY DEF NewDay, IInv, TypeOK
<1>4. m \in Today' <=> b = (yday' - 1) % BucketCount
  BY DEF NewDay, Today, BucketFor, BucketIndex, IndexIn
<1>5. CASE m \in Today'
  BY <1>1, <1>3, <1>5, ZeroAllowed
<1>6. CASE m \notin Today'
  <2>1. wait'[m] <= wait[m] + 1 /\ wait'[m] \in Nat
    BY <1>1, <1>3, <1>6
  <2>2. WaitAllowed(yday', wait[m] + 1, b)
    <3>1. CASE yday < yearLength /\ yday' = yday + 1
      BY <1>1, <1>2, <1>4, <1>6, <3>1, AllowedNextDay
    <3>2. CASE yday = yearLength /\ yday' = 1
      <4>1. BucketCount <= yday
        BY <3>2 DEF IInv, TypeOK
      <4> QED  BY <1>1, <1>2, <1>4, <1>6, <3>2, <4>1, AllowedNewYear
    <3> QED  BY <3>1, <3>2 DEF NewDay, NextDay
  <2>3. (yday' - 1) % BucketCount \in 0 .. BucketCount - 1
    BY <1>1, PhaseType
  <2> QED  BY <1>1, <2>1, <2>2, <2>3, CalendarAssumption DEF WaitAllowed
<1> QED  BY <1>5, <1>6

(* One case per action of Next.                                            *)
LEMMA NextIInv ==
    ASSUME IInv, [Next]_vars, \A L \in YearLengths : BucketCount <= L
    PROVE  IInv'
<1>1. CASE NewDay
  BY <1>1, TypeNewDay, AllowedNewDay DEF IInv
<1>2. CASE Sync
  <2>1. TypeOK'
    BY <1>2, CalendarAssumption DEF Sync, IInv, TypeOK, MaxWait
  <2>2. yday' \in Nat \ {0}
    BY <1>2, CalendarAssumption DEF Sync, IInv, TypeOK
  <2>3. \A m \in enabled' : wait'[m] = 0 /\ IndexIn(enabled', m) \in 0 .. BucketCount - 1
    BY <1>2, IndexType DEF Sync
  <2>4. WaitsAllowed'
    BY <2>2, <2>3, ZeroAllowed DEF WaitsAllowed
  <2> QED  BY <2>1, <2>4 DEF IInv
<1>3. CASE UNCHANGED vars
  BY <1>3 DEF vars, IInv, TypeOK, WaitsAllowed
<1> QED  BY <1>1, <1>2, <1>3 DEF Next

(* An allowed wait is short enough.                                        *)
LEMMA AllowedIsBounded == IInv => WaitIsBounded
<1> SUFFICES ASSUME IInv, NEW m \in enabled
             PROVE  wait[m] <= 2 * BucketCount - 2
  BY DEF WaitIsBounded
<1> DEFINE x == (yday - 1) % BucketCount
           b == IndexIn(enabled, m)
<1>1. yday \in Nat \ {0} /\ wait[m] \in Nat /\ b \in 0 .. BucketCount - 1
  BY IndexType, CalendarAssumption DEF IInv, TypeOK, MaxWait
<1>2. x \in 0 .. BucketCount - 1
  BY <1>1, CalendarAssumption, ModRange
<1>3. IF yday - 1 < b THEN wait[m] <= BucketCount - 1 + yday
      ELSE IF x < b THEN wait[m] <= BucketCount + x - b
      ELSE wait[m] <= x - b
  BY DEF IInv, WaitsAllowed, WaitAllowed
<1> HIDE DEF x, b
<1> QED  BY <1>1, <1>2, <1>3, CalendarAssumption

(* bucket_for never makes an enabled model wait longer than the rest of    *)
(* one rotation and most of the next, provided a rotation fits into every  *)
(* year; without that condition EveryModelComesUp and this bound fail.     *)
THEOREM RotationWaitIsBounded ==
    ASSUME \A L \in YearLengths : BucketCount <= L
    PROVE  Spec => []WaitIsBounded
<1>1. IInv /\ [Next]_vars => IInv'
  BY NextIInv
<1> QED  BY <1>1, InitIInv, AllowedIsBounded, PTL DEF Spec

-----------------------------------------------------------------------------
(* Plans and runs leave the rotation alone.                                *)
LEMMA PlannerStep == [PlannerNext]_plannerVars => [Next]_vars
BY DEF PlannerNext, Plan, Run, DayPasses, PoolChanges, plannerVars, Next

(* Planning implements the rotation: a plan reads the pool and the         *)
(* calendar and never moves them, a run writes last_run_at only, so that   *)
(* whatever is proved of the rotation holds while it is planned for.       *)
THEOREM PlannerImplementsRotation == PlannerSpec => Spec
<1>1. PlannerInit => Init
  BY DEF PlannerInit
<1> QED  BY <1>1, PlannerStep, PTL DEF PlannerSpec, Spec

(* The same bound for a rotation that is run and planned for: a plan does  *)
(* not delay anybody.                                                      *)
THEOREM PlannerWaitIsBounded ==
    ASSUME \A L \in YearLengths : BucketCount <= L
    PROVE  PlannerSpec => []WaitIsBounded
<1>1. Spec => []WaitIsBounded
  BY RotationWaitIsBounded
<1> QED  BY <1>1, PlannerImplementsRotation, PTL

(* The date of a plan's k-th day, in days from today; the days left of it. *)
Planned(k) == plan.day[k].models \cup plan.day[k].skipped
Rested(m) == age[m] = Never \/ age[m] > Cooldown
Until(k) == plan.start + k - ahead
Left == {k \in 0 .. plan.days - 1 : Until(k) >= 0}

PlanShape ==
    /\ plan.buckets \in Nat
    /\ plan.buckets # 0 =>
          /\ plan.days \in Days
          /\ plan.start \in Starts
          /\ DOMAIN plan.day = 0 .. plan.days - 1

(* The strengthening: what is left of a plan fits the calendar from today  *)
(* on, and who is announced and was not run has not become less ready.     *)
PlanFits ==
    plan.buckets # 0 =>
      /\ \A k \in Left : Planned(k) = BucketFor(enabled, YdayIn(Until(k), 0), plan.buckets)
      /\ \A k \in Left : \A m \in plan.day[k].models : m \in ran \/ Rested(m)

PlanInv == /\ TypeOK
           /\ age \in [Models -> 0 .. Never]
           /\ ahead \in Nat
           /\ PlanShape
           /\ PlanFits

LEMMA StartType ==
    ASSUME PlanInv, plan.buckets # 0
    PROVE  plan.start \in Int
<1>1. plan.start \in Starts
  BY DEF PlanInv, PlanShape
<1> QED  BY <1>1, PlannerAssumption

(* From today on, the length of last year does not matter.                 *)
LEMMA LastIsOver ==
    ASSUME TypeOK, NEW k \in Int, k >= 0, NEW last
    PROVE  YdayIn(k, last) = YdayIn(k, 0)
<1>1. yday \in Int /\ yday >= 1
  BY CalendarAssumption DEF TypeOK
<1>2. ~(yday + k < 1)
  BY <1>1
<1> QED  BY <1>2 DEF YdayIn

(* What one day of a plan is made of.                                      *)
LEMMA DayPlanFits ==
    ASSUME NEW d, NEW buckets, NEW cache
    PROVE  LET p == BuildDayPlan(d, buckets, cache) IN
           /\ p.models \cup p.skipped = BucketFor(enabled, d, buckets)
           /\ \A m \in p.models : Rested(m)
BY DEF BuildDayPlan, Ready, Rested

(* A new plan fits.                                                        *)
LEMMA PlanPlanInv ==
    ASSUME PlanInv, NEW start \in Starts, NEW days \in Days, NEW probe \in BOOLEAN,
           Plan(start, days, probe)
    PROVE  PlanInv'
<1>1. PICK cache : \E last \in YearLengths : plan' = RunPlan(start, days, last, cache)
  BY DEF Plan
<1>2. PICK last \in YearLengths : plan' = RunPlan(start, days, last, cache)
  BY <1>1
<1> DEFINE buckets == IF days <= 1 THEN BucketCount ELSE days
<1>3. /\ plan'.buckets = buckets /\ plan'.days = days /\ plan'.start = start
      /\ plan'.day = [k \in 0 .. days - 1 |->
                        BuildDayPlan(YdayIn(start + k, last), buckets, cache)]
  BY <1>2 DEF RunPlan
<1>4. days \in Nat \ {0} /\ start \in Int
  BY PlannerAssumption
<1> HIDE DEF buckets
<1>5. ahead' = 0 /\ UNCHANGED <<yday, yearLength, enabled, wait, syncs, age>>
  BY DEF Plan, vars
<1>6. TypeOK' /\ age' \in [Models -> 0 .. Never] /\ ahead' \in Nat
  BY <1>5 DEF PlanInv, TypeOK
<1>7. plan'.buckets \in Nat
  BY <1>3, <1>4, CalendarAssumption DEF buckets
<1>8. PlanShape'
  BY <1>3, <1>4, <1>7 DEF PlanShape
<1>9. ASSUME NEW k \in Left'
      PROVE  /\ Planned(k)' = BucketFor(enabled, YdayIn(Until(k), 0), plan.buckets)'
             /\ \A m \in plan'.day[k].models : Rested(m)'
  <2>1. k \in 0 .. days - 1 /\ Until(k)' = start + k /\ start + k \in Int /\ start + k >= 0
    BY <1>3, <1>4, <1>5 DEF Left, Until
  <2>2. plan'.day[k] = BuildDayPlan(YdayIn(start + k, last), buckets, cache)
    BY <1>3, <2>1
  <2>3. YdayIn(start + k, last) = YdayIn(start + k, 0)
    BY <2>1, LastIsOver DEF PlanInv
  <2>4. YdayIn(Until(k), 0)' = YdayIn(start + k, 0) /\ \A m : Rested(m)' <=> Rested(m)
    BY <1>5, <2>1 DEF YdayIn, Rested
  <2>5. BucketFor(enabled, YdayIn(Until(k), 0), plan.buckets)'
           = BucketFor(enabled, YdayIn(start + k, 0), buckets)
    BY <1>3, <1>5, <2>4 DEF BucketFor
  <2> QED  BY <2>2, <2>3, <2>4, <2>5, DayPlanFits DEF Planned
<1> QED  BY <1>6, <1>8, <1>9 DEF PlanInv, PlanFits

(* A run only makes the models it takes less ready.                        *)
LEMMA RunPlanInv ==
    ASSUME PlanInv, Run
    PROVE  PlanInv'
<1>1. PICK some : /\ age' = [m \in Models |-> IF m \in some THEN 0 ELSE age[m]]
                  /\ ran' = IF plan = NoPlan THEN {} ELSE ran \cup some
  BY DEF Run
<1>2. UNCHANGED <<yday, yearLength, enabled, wait, syncs, plan, ahead>>
  BY DEF Run, vars
<1>3. TypeOK' /\ ahead' \in Nat /\ PlanShape'
  BY <1>2 DEF PlanInv, TypeOK, PlanShape
<1>4. age' \in [Models -> 0 .. Never]
  BY <1>1, PlannerAssumption DEF PlanInv, Never
<1>5. ASSUME plan.buckets # 0, NEW k \in Left, NEW m \in plan.day[k].models
      PROVE  m \in ran' \/ Rested(m)'
  <2>1. plan # NoPlan
    BY <1>5 DEF NoPlan
  <2>2. m \in ran \/ Rested(m)
    BY <1>5 DEF PlanInv, PlanFits
  <2>3. CASE m \in ran \cup some
    BY <1>1, <2>1, <2>3
  <2>4. CASE m \notin ran \cup some
    <3>1. m \in Planned(k) /\ Planned(k) \subseteq Models
      BY <1>5 DEF PlanInv, PlanFits, Planned, BucketFor, TypeOK
    <3>2. age'[m] = age[m]
      BY <1>1, <2>4, <3>1
    <3> QED  BY <2>2, <2>4, <3>2 DEF Rested
  <2> QED  BY <2>3, <2>4
<1>6. PlanFits'
  BY <1>2, <1>5 DEF PlanInv, PlanFits, Planned, Left, Until, YdayIn, BucketFor
<1> QED  BY <1>3, <1>4, <1>6 DEF PlanInv

(* A day passes: the date of day k is a day nearer and is in the same year *)
(* as before, also on 1 January, if the plan ends within a year.           *)
LEMMA DayPlanInv ==
    ASSUME PlanInv, DayPasses,
           \A L \in YearLengths : \A d \in Days : \A s \in Starts : s + d <= L
    PROVE  PlanInv'
<1>1. TypeOK'
  BY TypeNewDay DEF PlanInv, DayPasses
<1>2. /\ age' = [m \in Models |-> IF age[m] = Never THEN Never ELSE age[m] + 1]
      /\ age' \in [Models -> 0 .. Never]
      /\ \A m \in Models : Rested(m) => Rested(m)'
  BY PlannerAssumption DEF PlanInv, DayPasses, Never, Rested
<1>3. CASE Drop
  BY <1>1, <1>2, <1>3 DEF Drop, NoPlan, PlanInv, PlanShape, PlanFits
<1>4. CASE ahead' = ahead + 1 /\ UNCHANGED <<plan, ran>>
  <2>1. ahead' \in Nat /\ PlanShape'
    BY <1>4 DEF PlanInv, PlanShape
  <2>2. SUFFICES ASSUME plan.buckets # 0 PROVE PlanFits'
    BY <1>1, <1>2, <1>4, <2>1 DEF PlanInv, PlanFits
  <2>3. /\ plan.days \in Days /\ plan.start \in Starts
        /\ enabled' = enabled /\ ahead \in Nat
    BY <2>2 DEF PlanInv, PlanShape, DayPasses, NewDay
  <2>4. plan.days \in Nat /\ plan.start \in Int
    BY <2>3, PlannerAssumption
  <2>5. ASSUME NEW k \in Left'
        PROVE  k \in Left /\ YdayIn(Until(k), 0)' = YdayIn(Until(k), 0)
    <3>1. k \in 0 .. plan.days - 1 /\ Until(k)' = Until(k) - 1
          /\ Until(k) \in Int /\ Until(k) >= 1
      BY <1>4, <2>3, <2>4 DEF Left, Until
    <3>2. k \in Left
      BY <3>1 DEF Left
    <3>3. yday \in 1 .. yearLength /\ yearLength \in Nat /\ yearLength' \in Nat
          /\ plan.start + plan.days <= yearLength'
      BY <1>1, <2>3, CalendarAssumption DEF PlanInv, TypeOK
    <3>4. Until(k) <= yearLength'
      BY <3>1, <3>3, <2>3, <2>4 DEF Until
    <3>5. \/ yday < yearLength /\ yday' = yday + 1 /\ yearLength' = yearLength
          \/ yday = yearLength /\ yday' = 1
      BY DEF DayPasses, NewDay, NextDay
    <3>6. YdayIn(Until(k), 0)' = IF yday' + (Until(k) - 1) <= yearLength'
                                 THEN yday' + (Until(k) - 1)
                                 ELSE yday' + (Until(k) - 1) - yearLength'
      <4>1. ~(yday' + (Until(k) - 1) < 1)
        BY <3>1, <3>3, <3>5
      <4> QED  BY <3>1, <4>1 DEF YdayIn
    <3>7. YdayIn(Until(k), 0) = IF yday + Until(k) <= yearLength
                                THEN yday + Until(k)
                                ELSE yday + Until(k) - yearLength
      <4>1. ~(yday + Until(k) < 1)
        BY <3>1, <3>3
      <4> QED  BY <4>1 DEF YdayIn
    <3> HIDE DEF Until
    <3>8. YdayIn(Until(k), 0)' = YdayIn(Until(k), 0)
      BY <3>1, <3>3, <3>4, <3>5, <3>6, <3>7
    <3> QED  BY <3>2, <3>8
  <2>6. ASSUME NEW k \in Left'
        PROVE  /\ Planned(k)' = BucketFor(enabled, YdayIn(Until(k), 0), plan.buckets)'
               /\ \A m \in plan'.day[k].models : m \in ran' \/ Rested(m)'
    <3>1. /\ Planned(k) = BucketFor(enabled, YdayIn(Until(k), 0), plan.buckets)
          /\ \A m \in plan.day[k].models : m \in ran \/ Rested(m)
      BY <2>2, <2>5, <2>6 DEF PlanInv, PlanFits
    <3>2. BucketFor(enabled, YdayIn(Until(k), 0), plan.buckets)'
             = BucketFor(enabled, YdayIn(Until(k), 0), plan.buckets)
      BY <1>4, <2>3, <2>5, <2>6 DEF BucketFor
    <3>3. \A m \in plan.day[k].models : m \in Models
      BY <3>1 DEF Planned, BucketFor, PlanInv, TypeOK
    <3> QED  BY <3>1, <3>2, <3>3, <1>2, <1>4 DEF Planned
  <2> QED  BY <2>6 DEF PlanFits
<1> QED  BY <1>3, <1>4 DEF DayPasses

(* One case per action.                                                    *)
LEMMA NextPlanInv ==
    ASSUME PlanInv, [PlannerNext]_plannerVars,
           \A L \in YearLengths : \A d \in Days : \A s \in Starts : s + d <= L
    PROVE  PlanInv'
<1>1. CASE \E start \in Starts, days \in Days, probe \in BOOLEAN : Plan(start, days, probe)
  BY <1>1, PlanPlanInv
<1>2. CASE Run
  BY <1>2, RunPlanInv
<1>3. CASE DayPasses
  BY <1>3, DayPlanInv
<1>4. CASE PoolChanges
  BY <1>4, CalendarAssumption
  DEF PoolChanges, Sync, Drop, NoPlan, PlanInv, TypeOK, PlanShape, PlanFits, MaxWait
<1>5. CASE UNCHANGED plannerVars
  BY <1>5 DEF plannerVars, vars, PlanInv, TypeOK, PlanShape, PlanFits, Planned,
              Left, Until, Rested, YdayIn, BucketFor
<1> QED  BY <1>1, <1>2, <1>3, <1>4, <1>5 DEF PlannerNext

(* Before the first plan there is none to be kept.                         *)
LEMMA InitPlanInv == PlannerInit => PlanInv
BY CalendarAssumption, PlannerAssumption
DEF PlannerInit, Init, NoPlan, PlanInv, TypeOK, PlanShape, PlanFits, Never, MaxWait

(* The first half of PlanComesTrue: the bucket a plan with the buckets of  *)
(* the settings announces for a date is the bucket run-incremental is      *)
(* offered on that UTC date, and a model it announces is ready then unless *)
(* it was run since.                                                       *)
LEMMA PlannedDayComes ==
    ASSUME PlanInv, plan.buckets = BucketCount, NEW k \in DOMAIN plan.day,
           k = ahead - plan.start
    PROVE  /\ Planned(k) = Today
           /\ plan.day[k].models \ Ready(Today, age, Cooldown, Never) \subseteq ran
<1>1. plan.buckets # 0
  BY CalendarAssumption
<1>2. /\ DOMAIN plan.day = 0 .. plan.days - 1
      /\ ahead \in Nat /\ plan.start \in Int
  BY <1>1, PlannerAssumption DEF PlanInv, PlanShape
<1>3. k \in Left /\ Until(k) = 0
  BY <1>2 DEF Left, Until
<1>4. YdayIn(0, 0) = yday
  BY CalendarAssumption DEF PlanInv, TypeOK, YdayIn
<1>5. Planned(k) = Today
  BY <1>1, <1>3, <1>4 DEF PlanInv, PlanFits, Today
<1>6. plan.day[k].models \ Ready(Today, age, Cooldown, Never) \subseteq ran
  BY <1>1, <1>3, <1>5 DEF PlanInv, PlanFits, Planned, Ready, Rested
<1> QED  BY <1>5, <1>6

-----------------------------------------------------------------------------
(* The second half of PlanComesTrue.  A plan made this year is right about *)
(* all its dates of this year, those that have passed included, and its    *)
(* two counts are those of the pairs of a day and a model.                 *)
DateOf(k) == yday - ahead + plan.start + k

PlanYear ==
    plan.buckets # 0 /\ yday > ahead =>
        \A k \in 0 .. plan.days - 1 :
            1 <= DateOf(k) /\ DateOf(k) <= yearLength =>
                Planned(k) = BucketFor(enabled, DateOf(k), plan.buckets)

Announced == {x \in (0 .. plan.days - 1) \X enabled : x[2] \in plan.day[x[1]].models}

PlanCounts ==
    plan.buckets # 0 =>
        plan.measured_models + plan.fallback_models = Cardinality(Announced)

LEMMA PlanYearInv ==
    ASSUME PlanInv, PlanYear, [PlannerNext]_plannerVars
    PROVE  PlanYear'
<1>1. ASSUME NEW start \in Starts, NEW days \in Days, NEW probe \in BOOLEAN,
             Plan(start, days, probe)
      PROVE  PlanYear'
  <2>1. PICK cache : \E last \in YearLengths : plan' = RunPlan(start, days, last, cache)
    BY <1>1 DEF Plan
  <2>2. PICK last \in YearLengths : plan' = RunPlan(start, days, last, cache)
    BY <2>1
  <2> DEFINE buckets == IF days <= 1 THEN BucketCount ELSE days
  <2>3. /\ plan'.buckets = buckets /\ plan'.days = days /\ plan'.start = start
        /\ plan'.day = [k \in 0 .. days - 1 |->
                          BuildDayPlan(YdayIn(start + k, last), buckets, cache)]
    BY <2>2 DEF RunPlan
  <2> HIDE DEF buckets
  <2>4. ahead' = 0 /\ UNCHANGED <<yday, yearLength, enabled>>
    BY <1>1 DEF Plan, vars
  <2>5. yday \in Int /\ yearLength \in Int /\ start \in Int
    BY CalendarAssumption, PlannerAssumption DEF PlanInv, TypeOK
  <2>6. ASSUME NEW k \in 0 .. days - 1, 1 <= DateOf(k)', (DateOf(k) <= yearLength)'
        PROVE  Planned(k)' = BucketFor(enabled, DateOf(k), plan.buckets)'
    <3>1. DateOf(k)' = yday + (start + k) /\ k \in Int
      BY <2>3, <2>4, <2>5 DEF DateOf
    <3>2. YdayIn(start + k, last) = DateOf(k)'
      BY <2>4, <2>5, <2>6, <3>1 DEF YdayIn
    <3>3. plan'.day[k] = BuildDayPlan(DateOf(k)', buckets, cache)
      BY <2>3, <3>2
    <3> QED  BY <2>3, <2>4, <3>3, DayPlanFits DEF Planned, BucketFor
  <2> QED  BY <2>3, <2>6 DEF PlanYear
<1>2. CASE UNCHANGED <<plan, ahead, yday, yearLength, enabled>>
  BY <1>2 DEF PlanYear, Planned, BucketFor, DateOf
<1>3. CASE DayPasses
  <2>1. CASE Drop
    BY <2>1 DEF Drop, NoPlan, PlanYear
  <2>2. CASE ahead' = ahead + 1 /\ UNCHANGED plan
    <3>1. /\ yday \in Nat /\ ahead \in Nat /\ enabled' = enabled
          /\ \/ yday' = yday + 1 /\ yearLength' = yearLength
             \/ yday' = 1
      BY <1>3, CalendarAssumption DEF DayPasses, NewDay, NextDay, PlanInv, TypeOK
    <3>2. CASE yday' = 1
      BY <2>2, <3>1, <3>2 DEF PlanYear
    <3>3. CASE yday' = yday + 1 /\ yearLength' = yearLength
      <4>1. yday' > ahead' <=> yday > ahead
        BY <2>2, <3>1, <3>3
      <4>2. yday' - ahead' = yday - ahead
        BY <2>2, <3>1, <3>3
      <4>3. \A k : DateOf(k)' = DateOf(k)
        BY <2>2, <4>2 DEF DateOf
      <4> QED  BY <2>2, <3>1, <3>3, <4>1, <4>3 DEF PlanYear, Planned, BucketFor
    <3> QED  BY <3>1, <3>2, <3>3
  <2> QED  BY <1>3, <2>1, <2>2 DEF DayPasses
<1>4. CASE PoolChanges
  BY <1>4 DEF PoolChanges, Drop, NoPlan, PlanYear
<1>5. CASE Run \/ UNCHANGED plannerVars
  BY <1>2, <1>5 DEF Run, plannerVars, vars
<1> QED  BY <1>1, <1>3, <1>4, <1>5 DEF PlannerNext

(* Every model announced is measured or estimated.                         *)
LEMMA RunPlanCounts ==
    ASSUME TypeOK, NEW start \in Int, NEW days \in Nat, NEW last, NEW cache
    PROVE  LET p == RunPlan(start, days, last, cache) IN
           p.measured_models + p.fallback_models =
              Cardinality({x \in (0 .. days - 1) \X enabled : x[2] \in p.day[x[1]].models})
<1> DEFINE p == RunPlan(start, days, last, cache)
           P == (0 .. days - 1) \X enabled
           A == {x \in P : x[2] \in p.day[x[1]].measured}
           B == {x \in P : x[2] \in p.day[x[1]].models \ p.day[x[1]].measured}
           C == {x \in P : x[2] \in p.day[x[1]].models}
<1>1. p.measured_models = Cardinality(A) /\ p.fallback_models = Cardinality(B)
  BY DEF RunPlan
<1>2. \A k \in 0 .. days - 1 : p.day[k].measured \subseteq p.day[k].models
  BY DEF RunPlan, BuildDayPlan
<1>3. IsFiniteSet(P)
  <2>1. IsFiniteSet(0 .. days - 1)
    BY FS_Interval
  <2>2. IsFiniteSet(enabled)
    BY IndexProperties DEF TypeOK
  <2> QED  BY <2>1, <2>2, FS_Product
<1>4. A \in SUBSET P /\ B \in SUBSET P /\ C = A \cup B /\ A \cap B = {}
  <2> HIDE DEF p
  <2> QED  BY <1>2
<1> HIDE DEF A, B, C, P, p
<1>5. /\ IsFiniteSet(A) /\ Cardinality(A) \in Nat
      /\ IsFiniteSet(B) /\ Cardinality(B) \in Nat
  BY <1>3, <1>4, FS_Subset, FS_CardinalityType
<1>6. Cardinality(A \cup B) = Cardinality(A) + Cardinality(B) - Cardinality(A \cap B)
  BY <1>5, FS_Union
<1>7. Cardinality(A \cap B) = 0
  BY <1>4, FS_EmptySet
<1>8. Cardinality(A) + Cardinality(B) = Cardinality(C)
  BY <1>4, <1>5, <1>6, <1>7
<1> QED  BY <1>1, <1>8 DEF C, P, p

LEMMA PlanCountsInv ==
    ASSUME PlanInv, PlanCounts, [PlannerNext]_plannerVars
    PROVE  PlanCounts'
<1>1. ASSUME NEW start \in Starts, NEW days \in Days, NEW probe \in BOOLEAN,
             Plan(start, days, probe)
      PROVE  PlanCounts'
  <2>0. PICK cache : \E last \in YearLengths : plan' = RunPlan(start, days, last, cache)
    BY <1>1 DEF Plan
  <2>1. PICK last \in YearLengths : plan' = RunPlan(start, days, last, cache)
    BY <2>0
  <2>2. /\ days \in Nat /\ start \in Int
        /\ plan'.days = days /\ enabled' = enabled
    BY <1>1, <2>1, PlannerAssumption DEF Plan, vars, RunPlan
  <2>3. plan'.measured_models + plan'.fallback_models =
           Cardinality({x \in (0 .. days - 1) \X enabled : x[2] \in plan'.day[x[1]].models})
    BY <2>1, <2>2, RunPlanCounts DEF PlanInv
  <2> QED  BY <2>2, <2>3 DEF PlanCounts, Announced
<1>2. CASE UNCHANGED <<plan, enabled>>
  BY <1>2 DEF PlanCounts, Announced
<1>3. CASE plan' = NoPlan
  BY <1>3 DEF PlanCounts, NoPlan
<1> QED  BY <1>1, <1>2, <1>3
         DEF PlannerNext, Run, DayPasses, NewDay, PoolChanges, Drop, plannerVars, vars

(* Who is announced on one day only is counted once.                       *)
LEMMA AnnouncedOnce ==
    ASSUME PlanInv, plan.buckets # 0,
           \A k \in 0 .. plan.days - 1 : plan.day[k].models \subseteq enabled,
           \A j, k \in 0 .. plan.days - 1 :
              \A m \in plan.day[j].models \cap plan.day[k].models : j = k
    PROVE  Cardinality(Announced) =
              Cardinality(UNION {plan.day[k].models : k \in DOMAIN plan.day})
<1> DEFINE D == 0 .. plan.days - 1
           U == UNION {plan.day[k].models : k \in DOMAIN plan.day}
           f == [x \in Announced |-> x[2]]
<1>1. DOMAIN plan.day = D /\ plan.days \in Nat
  BY PlannerAssumption DEF PlanInv, PlanShape
<1>2. IsFiniteSet(Announced)
  <2>1. IsFiniteSet(D)
    BY <1>1, FS_Interval
  <2>2. IsFiniteSet(enabled)
    BY IndexProperties DEF PlanInv, TypeOK
  <2>3. IsFiniteSet(D \X enabled)
    BY <2>1, <2>2, FS_Product
  <2>4. Announced \in SUBSET (D \X enabled)
    BY DEF Announced
  <2> QED  BY <2>3, <2>4, FS_Subset
<1>3. f \in [Announced -> U]
  <2>1. ASSUME NEW x \in Announced PROVE x[2] \in U
    <3>1. x[1] \in D /\ x[2] \in plan.day[x[1]].models
      BY DEF Announced
    <3> QED  BY <1>1, <3>1
  <2> QED  BY <2>1
<1>4. \A u \in U : \E x \in Announced : f[x] = u
  <2> SUFFICES ASSUME NEW u \in U PROVE \E x \in Announced : x[2] = u
    OBVIOUS
  <2>1. PICK k \in D : u \in plan.day[k].models
    BY <1>1
  <2>2. <<k, u>> \in Announced
    BY <2>1 DEF Announced
  <2> QED  BY <2>2
<1>5. \A x, y \in Announced : f[x] = f[y] => x = y
  <2> SUFFICES ASSUME NEW x \in Announced, NEW y \in Announced, x[2] = y[2]
               PROVE  x = y
    OBVIOUS
  <2>1. /\ x \in D \X enabled /\ x[2] \in plan.day[x[1]].models
        /\ y \in D \X enabled /\ y[2] \in plan.day[y[1]].models
    BY DEF Announced
  <2>2. x[1] = y[1]
    BY <2>1
  <2> QED  BY <2>1, <2>2
<1> HIDE DEF f, U
<1>6. f \in Surjection(Announced, U)
  BY <1>3, <1>4, Fun_IsSurj
<1>7. f \in Injection(Announced, U)
  BY <1>3, <1>5, Fun_IsInj
<1>8. Cardinality(U) = Cardinality(Announced)
  BY <1>2, <1>6, <1>7, FS_Surjection
<1> QED  BY <1>8 DEF U

(* The plan of one rotation inside a year.                                 *)
LEMMA WholeRotation ==
    ASSUME PlanInv, PlanYear, PlanCounts, plan.buckets = BucketCount,
           plan.days = BucketCount, yday > ahead,
           1 <= DateOf(0), DateOf(0) + BucketCount - 1 <= yearLength
    PROVE  /\ \A m \in enabled : \E k \in DOMAIN plan.day :
                 m \in Planned(k) /\ \A j \in DOMAIN plan.day \ {k} : m \notin Planned(j)
           /\ \A j, k \in DOMAIN plan.day :
                 Cardinality(Planned(j)) <= Cardinality(Planned(k)) + 1
           /\ plan.measured_models + plan.fallback_models =
                 Cardinality(UNION {plan.day[k].models : k \in DOMAIN plan.day})
<1> DEFINE start == DateOf(0) - 1
           D == 0 .. BucketCount - 1
           R(k) == (start + k) % BucketCount
<1>1. /\ DOMAIN plan.day = D /\ plan.buckets # 0
      /\ BucketCount \in Nat /\ yearLength \in Nat
      /\ yday \in Nat /\ ahead \in Nat /\ enabled \in SUBSET Models
  BY CalendarAssumption DEF PlanInv, PlanShape, TypeOK
<1>10. plan.start \in Int
  BY <1>1, StartType
<1>11. DateOf(0) \in Int /\ start \in Nat
  BY <1>1, <1>10 DEF DateOf
<1>2. ASSUME NEW k \in D
      PROVE  R(k) \in D /\ Planned(k) = InBucket(enabled, R(k))
  <2>1. DateOf(k) = DateOf(0) + k
    BY <1>1, <1>10 DEF DateOf
  <2>2. /\ 1 <= DateOf(k) /\ DateOf(k) <= yearLength
        /\ DateOf(k) - 1 = start + k /\ start + k \in Nat
    BY <1>1, <1>11, <2>1
  <2>3. Planned(k) = BucketFor(enabled, DateOf(k), BucketCount)
    BY <1>1, <2>2 DEF PlanYear
  <2>4. R(k) \in D
    BY <2>2, BucketCountPositive, ModRange
  <2> QED  BY <2>2, <2>3, <2>4 DEF BucketFor, BucketIndex, InBucket, IndexIn
<1> HIDE DEF start
<1>3. ASSUME NEW r \in D
      PROVE  \E k \in D : R(k) = r /\ \A j \in D : R(j) = r => j = k
  BY <1>1, <1>11, BucketCountPositive, ResidueOnce
<1> HIDE DEF R
<1>4. ASSUME NEW m \in enabled
      PROVE  \E k \in D : m \in Planned(k) /\ \A j \in D \ {k} : m \notin Planned(j)
  <2>1. IndexIn(enabled, m) \in D
    BY <1>1, IndexType
  <2>2. PICK k \in D : /\ R(k) = IndexIn(enabled, m)
                       /\ \A j \in D : R(j) = IndexIn(enabled, m) => j = k
    BY <1>3, <2>1
  <2>3. \A j \in D : m \in Planned(j) <=> R(j) = IndexIn(enabled, m)
    BY <1>2 DEF InBucket
  <2> QED  BY <2>2, <2>3
<1>5. ASSUME NEW j \in D, NEW k \in D
      PROVE  Cardinality(Planned(j)) <= Cardinality(Planned(k)) + 1
  BY <1>1, <1>2, BucketSizes
<1>6. Cardinality(Announced) =
         Cardinality(UNION {plan.day[k].models : k \in DOMAIN plan.day})
  <2>1. \A k \in D : plan.day[k].models \subseteq Planned(k) /\ Planned(k) \subseteq enabled
    BY <1>2 DEF Planned, InBucket
  <2>2. \A k \in D : plan.day[k].models \subseteq enabled
    BY <2>1
  <2>3. ASSUME NEW j \in D, NEW k \in D, NEW m \in plan.day[j].models \cap plan.day[k].models
        PROVE  j = k
    <3>1. m \in enabled /\ m \in Planned(j) /\ m \in Planned(k)
      BY <2>1
    <3> QED  BY <1>4, <3>1
  <2> QED  BY <1>1, <2>2, <2>3, AnnouncedOnce
<1>7. plan.measured_models + plan.fallback_models = Cardinality(Announced)
  BY <1>1 DEF PlanCounts
<1> QED  BY <1>1, <1>4, <1>5, <1>6, <1>7

(* A plan with the buckets of the settings comes true, date by date (UTC)  *)
(* and as a whole (plan.py:216-252), for every pool and calendar in which  *)
(* each plan ends less than a year after it is made.                       *)
THEOREM PlanComes ==
    ASSUME \A L \in YearLengths : \A d \in Days : \A s \in Starts : s + d <= L
    PROVE  PlannerSpec => []PlanComesTrue
<1> DEFINE FullInv == PlanInv /\ PlanYear /\ PlanCounts
<1>1. PlannerInit => FullInv
  BY InitPlanInv DEF PlannerInit, NoPlan, PlanYear, PlanCounts
<1>2. FullInv /\ [PlannerNext]_plannerVars => FullInv'
  BY NextPlanInv, PlanYearInv, PlanCountsInv
<1>3. FullInv => PlanComesTrue
  <2> SUFFICES ASSUME FullInv, plan.buckets = BucketCount
               PROVE  PlanComesTrue
    BY DEF PlanComesTrue
  <2>1. ASSUME ahead - plan.start \in DOMAIN plan.day
        PROVE  /\ Planned(ahead - plan.start) = Today
               /\ plan.day[ahead - plan.start].models
                     \ Ready(Today, age, Cooldown, Never) \subseteq ran
    BY <2>1, PlannedDayComes
  <2>2. DateOf(0) = yday - (ahead - plan.start)
    <3>1. plan.buckets # 0
      BY CalendarAssumption
    <3>2. yday \in Int /\ ahead \in Int /\ plan.start \in Int
      BY <3>1, StartType, CalendarAssumption DEF PlanInv, TypeOK
    <3> QED  BY <3>2 DEF DateOf
  <2> QED  BY <2>1, <2>2, WholeRotation DEF PlanComesTrue, Planned
<1> HIDE DEF FullInv
<1> QED  BY <1>1, <1>2, <1>3, PTL DEF PlannerSpec
=============================================================================
