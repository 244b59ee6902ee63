----------------------------- MODULE DataLemmas -----------------------------
(* Facts about the data of several modules: least and greatest elements of *)
(* sets of natural numbers, induction over an interval, what a list        *)
(* comprehension picks, and a sequence without one of its elements.        *)
EXTENDS Lists, SequencesExt, SequenceTheorems, WellFoundedInduction, TLAPS

LessThan == OpToRel(<, Nat)

(* The natural numbers are well-founded under <.                           *)
LEMMA LessThanWellFounded ==
    /\ IsWellFoundedOn(LessThan, Nat)
    /\ \A x, y \in Nat : <<x, y>> \in LessThan <=> x < y
<1>1. IsWellFoundedOn(LessThan, Nat)
  BY NatLessThanWellFounded, Zenon DEF LessThan
<1>2. LessThan = {ss \in Nat \X Nat : ss[1] < ss[2]}
  BY Zenon DEF LessThan, OpToRel
<1>3. \A x, y \in Nat : <<x, y>> \in LessThan <=> x < y
  BY <1>2
<1> QED  BY <1>1, <1>3

(* A non-empty bounded set of ids has a largest element.                   *)
LEMMA MaxExists ==
    ASSUME NEW N \in Nat, NEW S, S \subseteq 0 .. N, S # {}
    PROVE  \E m \in S : \A x \in S : x <= m
<1> DEFINE T == {N - x : x \in S}
<1>1. T \subseteq Nat
  <2>1. ASSUME NEW x \in S PROVE N - x \in Nat
    OBVIOUS
  <2> QED  BY <2>1
<1>2. T # {}
  OBVIOUS
<1>3. PICK t \in T : \A y \in T : ~(<<y, t>> \in LessThan)
  <2>1. IsWellFoundedOn(LessThan, Nat)
    BY LessThanWellFounded
  <2> HIDE DEF T
  <2> QED  BY <1>1, <1>2, <2>1, WFMin, Zenon
<1>4. PICK m \in S : t = N - m
  OBVIOUS
<1>5. ASSUME NEW x \in S PROVE x <= m
  <2>1. N - x \in T /\ N - x \in Nat /\ N - m \in Nat
    OBVIOUS
  <2>2. ~(N - x < N - m)
    BY <2>1, <1>3, <1>4, LessThanWellFounded
  <2>3. x \in Int /\ m \in Int
    OBVIOUS
  <2> QED  BY <2>2, <2>3
<1> QED  BY <1>5

(* A non-empty set of numbers has a smallest element.                      *)
LEMMA MinExists ==
    ASSUME NEW S, S \subseteq Nat, S # {}
    PROVE  \E m \in S : \A x \in S : m <= x
<1>1. PICK m \in S : \A x \in S : ~(<<x, m>> \in LessThan)
  <2>1. IsWellFoundedOn(LessThan, Nat)
    BY LessThanWellFounded
  <2> QED  BY <2>1, WFMin, Zenon
<1>2. \A x \in S : x \in Nat /\ m \in Nat
  OBVIOUS
<1>3. ASSUME NEW x \in S PROVE ~(x < m)
  BY <1>1, <1>2, LessThanWellFounded
<1>4. ASSUME NEW x \in S PROVE m <= x
  BY <1>2, <1>3
<1> QED  BY <1>4

-----------------------------------------------------------------------------
(* Induction over 0 .. N, for a set instead of a predicate.                *)
LEMMA UpTo ==
    ASSUME NEW N \in Nat, NEW S, 0 \in S, \A n \in 1 .. N : n - 1 \in S => n \in S
    PROVE  \A n \in 0 .. N : n \in S
<1> DEFINE Missing == (0 .. N) \ S
<1> SUFFICES ASSUME Missing # {} PROVE FALSE
  OBVIOUS
<1>1. PICK m \in Missing : \A x \in Missing : m <= x
  <2>1. Missing \subseteq Nat
    OBVIOUS
  <2> HIDE DEF Missing
  <2> QED  BY <2>1, MinExists
<1>2. m \in 1 .. N /\ m - 1 \in 0 .. N /\ ~(m <= m - 1)
  OBVIOUS
<1> QED  BY <1>1, <1>2

(* A recursive function over 0 .. N exists if its steps stay in a set.     *)
Stays(step, D, N) == \A x \in D, n \in 1 .. N : step[<<x, n>>] \in D

Recursive(f, base, step, D, N) ==
    /\ f \in [0 .. N -> D]
    /\ f[0] = base
    /\ \A n \in 1 .. N : f[n] = step[<<f[n - 1], n>>]

LEMMA RecursionExists ==
    ASSUME NEW N \in Nat, NEW D, NEW base \in D, NEW step, Stays(step, D, N)
    PROVE  \E f : Recursive(f, base, step, D, N)
<1> DEFINE S == {m \in 0 .. N : \E f : Recursive(f, base, step, D, m)}
<1>1. 0 \in S
  <2> DEFINE f == [n \in 0 .. 0 |-> base]
  <2>1. Recursive(f, base, step, D, 0)
    BY DEF Recursive
  <2> HIDE DEF f
  <2> QED  BY <2>1
<1>2. ASSUME NEW m \in 1 .. N, m - 1 \in S PROVE m \in S
  <2>1. PICK f : Recursive(f, base, step, D, m - 1)
    BY <1>2
  <2> DEFINE g == [n \in 0 .. m |-> IF n < m THEN f[n] ELSE step[<<f[m - 1], m>>]]
  <2>2. m - 1 \in 0 .. m - 1 /\ m \in 0 .. m /\ 0 < m /\ 0 \in 0 .. m - 1
    OBVIOUS
  <2>3. step[<<f[m - 1], m>>] \in D
    BY <2>1, <2>2 DEF Recursive, Stays
  <2>4. g \in [0 .. m -> D]
    <3>1. ASSUME NEW n \in 0 .. m, n < m PROVE n \in 0 .. m - 1
      BY <3>1
    <3> QED  BY <2>1, <2>3, <3>1 DEF Recursive
  <2>5. g[0] = base
    BY <2>1, <2>2 DEF Recursive
  <2>6. ASSUME NEW n \in 1 .. m PROVE g[n] = step[<<g[n - 1], n>>]
    <3>1. n - 1 \in 0 .. m /\ n \in 0 .. m /\ n - 1 < m /\ (n < m => n \in 1 .. m - 1)
      OBVIOUS
    <3>2. g[n - 1] = f[n - 1]
      BY <3>1
    <3>3. CASE n < m
      BY <2>1, <3>1, <3>2, <3>3 DEF Recursive
    <3>4. CASE n = m
      BY <3>1, <3>2, <3>4
    <3> QED  BY <3>3, <3>4
  <2>7. Recursive(g, base, step, D, m)
    BY <2>4, <2>5, <2>6 DEF Recursive
  <2> HIDE DEF g
  <2> QED  BY <2>7
<1> HIDE DEF S
<1>3. N \in S
  BY <1>1, <1>2, UpTo
<1> QED  BY <1>3 DEF S

-----------------------------------------------------------------------------
(* What Only picks: r is made of the elements at the positions I of s, in  *)
(* their order.                                                            *)
Picks(s, r, w, I) ==
    /\ w \in [1 .. Len(r) -> I]
    /\ \A i, j \in 1 .. Len(r) : i < j => w[i] < w[j]
    /\ \A k \in I : \E j \in 1 .. Len(r) : w[j] = k
    /\ \A j \in 1 .. Len(r) : r[j] = s[w[j]]

OnlyStep(s, S, before, n) == IF s[n] \in S THEN Append(before, s[n]) ELSE before

OnlyUpTo(s, S, f) ==
    f = [n \in 0 .. Len(s) |-> IF n = 0 THEN <<>> ELSE OnlyStep(s, S, f[n - 1], n)]

(* Only is what it is defined by: the recursive function exists.           *)
LEMMA OnlyIsRecursive ==
    ASSUME NEW E, NEW s \in Seq(E), NEW S
    PROVE  \E f : OnlyUpTo(s, S, f) /\ Only(s, S) = f[Len(s)]
<1> DEFINE N == Len(s)
           step == [x \in Seq(E) \X (1 .. N) |-> OnlyStep(s, S, x[1], x[2])]
<1>1. N \in Nat /\ <<>> \in Seq(E)
  OBVIOUS
<1>2. \A x \in Seq(E), n \in 1 .. N : OnlyStep(s, S, x, n) \in Seq(E)
  BY DEF OnlyStep
<1>3. \A x \in Seq(E), n \in 1 .. N : step[<<x, n>>] = OnlyStep(s, S, x, n)
  OBVIOUS
<1> HIDE DEF step
<1>4. PICK f : Recursive(f, <<>>, step, Seq(E), N)
  <2>1. Stays(step, Seq(E), N)
    BY <1>2, <1>3 DEF Stays
  <2> QED  BY <1>1, <2>1, RecursionExists
<1>5. /\ f \in [0 .. N -> Seq(E)] /\ f[0] = <<>>
      /\ \A n \in 1 .. N : f[n] = step[<<f[n - 1], n>>]
  BY <1>4 DEF Recursive
<1>6. ASSUME NEW n \in 0 .. N
      PROVE  f[n] = IF n = 0 THEN <<>> ELSE OnlyStep(s, S, f[n - 1], n)
  <2>1. n # 0 => n \in 1 .. N /\ f[n - 1] \in Seq(E)
    BY <1>5
  <2> QED  BY <1>3, <1>5, <2>1
<1>7. OnlyUpTo(s, S, f)
  <2>1. f = [n \in 0 .. N |-> f[n]]
    BY <1>5
  <2> QED  BY <1>6, <2>1 DEF OnlyUpTo
<1> DEFINE F == CHOOSE g : OnlyUpTo(s, S, g)
<1>8. Only(s, S) = F[N]
  BY DEF Only, OnlyUpTo, OnlyStep
<1>9. OnlyUpTo(s, S, F)
  BY <1>7
<1> QED  BY <1>8, <1>9

(* One element more is picked if it is in S.                               *)
LEMMA OneMorePicked ==
    ASSUME NEW E, NEW s \in Seq(E), NEW S, NEW n \in 1 .. Len(s), NEW I, NEW J,
           I = {k \in 1 .. n - 1 : s[k] \in S}, J = {k \in 1 .. n : s[k] \in S},
           NEW r \in Seq(E), \E w : Picks(s, r, w, I)
    PROVE  \E w : Picks(s, OnlyStep(s, S, r, n), w, J)
<1>1. n \in Nat /\ Len(s) \in Nat /\ Len(r) \in Nat /\ I \subseteq 1 .. n - 1
  OBVIOUS
<1>2. PICK w : Picks(s, r, w, I)
  OBVIOUS
<1>3. CASE s[n] \in S
  <2> DEFINE t == Append(r, s[n])
             v == [j \in 1 .. Len(r) + 1 |-> IF j <= Len(r) THEN w[j] ELSE n]
  <2>1. J = I \cup {n}
    BY <1>1, <1>3
  <2>2. /\ t \in Seq(E) /\ Len(t) = Len(r) + 1
        /\ \A j \in 1 .. Len(r) : t[j] = r[j]
        /\ t[Len(r) + 1] = s[n]
    OBVIOUS
  <2>3. /\ \A j \in 1 .. Len(r) : v[j] = w[j] /\ w[j] \in I
        /\ v[Len(r) + 1] = n
    BY <1>1, <1>2 DEF Picks
  <2>4. \A j \in 1 .. Len(t) : j \in 1 .. Len(r) \/ j = Len(r) + 1
    BY <1>1, <2>2
  <2>5. v \in [1 .. Len(t) -> J]
    <3>1. DOMAIN v = 1 .. Len(t) /\ v = [j \in 1 .. Len(t) |-> v[j]]
      BY <2>2
    <3> HIDE DEF t, v
    <3> QED  BY <2>1, <2>3, <2>4, <3>1
  <2> HIDE DEF t, v
  <2>6. ASSUME NEW i \in 1 .. Len(t), NEW j \in 1 .. Len(t), i < j PROVE v[i] < v[j]
    <3>1. i \in 1 .. Len(r)
      BY <1>1, <2>2, <2>6
    <3>2. v[i] \in 1 .. n - 1 /\ v[i] = w[i]
      BY <1>1, <2>3, <3>1
    <3>3. CASE j \in 1 .. Len(r)
      BY <1>2, <2>3, <2>6, <3>1, <3>3 DEF Picks
    <3>4. CASE j = Len(r) + 1
      BY <1>1, <2>3, <3>2, <3>4
    <3> QED  BY <2>4, <3>3, <3>4
  <2>7. ASSUME NEW k \in J PROVE \E j \in 1 .. Len(t) : v[j] = k
    <3>1. CASE k = n
      <4>1. Len(r) + 1 \in 1 .. Len(t)
        BY <1>1, <2>2
      <4> QED  BY <2>3, <3>1, <4>1
    <3>2. CASE k \in I
      <4>1. PICK j \in 1 .. Len(r) : w[j] = k
        BY <1>2, <3>2 DEF Picks
      <4>2. j \in 1 .. Len(t)
        BY <1>1, <2>2
      <4> QED  BY <2>3, <4>1, <4>2
    <3> QED  BY <2>1, <3>1, <3>2
  <2>8. ASSUME NEW j \in 1 .. Len(t) PROVE t[j] = s[v[j]]
    BY <1>2, <2>2, <2>3, <2>4 DEF Picks
  <2>9. Picks(s, t, v, J)
    BY <2>5, <2>6, <2>7, <2>8 DEF Picks
  <2>10. OnlyStep(s, S, r, n) = t
    BY <1>3 DEF OnlyStep, t
  <2> QED  BY <2>9, <2>10
<1>4. CASE s[n] \notin S
  <2>1. J = I
    BY <1>1, <1>4
  <2>2. OnlyStep(s, S, r, n) = r
    BY <1>4 DEF OnlyStep
  <2> QED  BY <1>2, <2>1, <2>2
<1> QED  BY <1>3, <1>4

(* Only(s, S) has every element of s that is in S, once and in order.      *)
LEMMA OnlyPicks ==
    ASSUME NEW E, NEW s \in Seq(E), NEW S
    PROVE  /\ Only(s, S) \in Seq(E)
           /\ \E w : Picks(s, Only(s, S), w, {k \in 1 .. Len(s) : s[k] \in S})
<1> DEFINE N == Len(s)
           I(n) == {k \in 1 .. n : s[k] \in S}
           Good(r, n) == r \in Seq(E) /\ \E w : Picks(s, r, w, I(n))
<1>1. N \in Nat
  OBVIOUS
<1>2. PICK f : OnlyUpTo(s, S, f) /\ Only(s, S) = f[N]
  BY OnlyIsRecursive
<1>3. f[0] = <<>> /\ \A n \in 1 .. N : f[n] = OnlyStep(s, S, f[n - 1], n)
  BY <1>1, <1>2 DEF OnlyUpTo
<1> DEFINE G == {n \in 0 .. N : Good(f[n], n)}
<1>4. 0 \in G
  <2>1. Picks(s, <<>>, <<>>, I(0))
    BY DEF Picks
  <2>2. Good(<<>>, 0)
    BY <2>1
  <2> HIDE DEF Good
  <2> QED  BY <1>1, <1>3, <2>2
<1>5. ASSUME NEW n \in 1 .. N, n - 1 \in G PROVE n \in G
  <2>1. Good(f[n - 1], n - 1)
    BY <1>5
  <2>2. \E w : Picks(s, OnlyStep(s, S, f[n - 1], n), w, I(n))
    BY <2>1, OneMorePicked
  <2>3. OnlyStep(s, S, f[n - 1], n) \in Seq(E)
    BY <2>1 DEF OnlyStep
  <2>4. Good(f[n], n)
    BY <1>3, <2>2, <2>3
  <2> HIDE DEF Good
  <2> QED  BY <2>4
<1> HIDE DEF G
<1>6. N \in G
  BY <1>1, <1>4, <1>5, UpTo
<1> QED  BY <1>2, <1>6 DEF G

(* As a set: the elements of s that are in S.                              *)
LEMMA OnlyRange ==
    ASSUME NEW E, NEW s \in Seq(E), NEW S
    PROVE  Only(s, S) \in Seq(E \cap S) /\ Range(Only(s, S)) = Range(s) \cap S
<1> DEFINE r == Only(s, S)
           I == {k \in 1 .. Len(s) : s[k] \in S}
<1>1. r \in Seq(E) /\ DOMAIN r = 1 .. Len(r) /\ DOMAIN s = 1 .. Len(s)
  BY OnlyPicks
<1>2. PICK w : Picks(s, r, w, I)
  BY OnlyPicks
<1> HIDE DEF r
<1>3. \A j \in 1 .. Len(r) : w[j] \in 1 .. Len(s) /\ r[j] = s[w[j]] /\ s[w[j]] \in S
  BY <1>2 DEF Picks
<1>4. \A k \in 1 .. Len(s) : s[k] \in S => \E j \in 1 .. Len(r) : r[j] = s[k]
  BY <1>2 DEF Picks
<1>5. Range(r) = Range(s) \cap S
  <2>1. \A x \in Range(r) : x \in Range(s) \cap S
    BY <1>1, <1>3 DEF Range
  <2>2. \A x \in Range(s) \cap S : x \in Range(r)
    BY <1>1, <1>4 DEF Range
  <2> QED  BY <2>1, <2>2
<1>6. r \in Seq(E \cap S)
  <2>1. \A j \in 1 .. Len(r) : r[j] \in E \cap S
    BY <1>1, <1>3
  <2> QED  BY <1>1, <2>1
<1> QED  BY <1>5, <1>6 DEF r

-----------------------------------------------------------------------------
(* The least element of a set of numbers that has one.                     *)
LEMMA MinOfSet ==
    ASSUME NEW I, NEW p \in I, I \subseteq Nat, \A x \in I : p <= x
    PROVE  Min(I) = p
<1>1. \A q \in I : (\A x \in I : q <= x) => q = p
  OBVIOUS
<1> QED  BY <1>1 DEF Min

(* Which element RemoveFirst takes out.                                    *)
LEMMA RemoveFirstIsRemoveAt ==
    ASSUME NEW S, NEW s \in Seq(S), IsInjective(s), NEW p \in 1 .. Len(s)
    PROVE  RemoveFirst(s, s[p]) = SubSeq(s, 1, p - 1) \o SubSeq(s, p + 1, Len(s))
<1> DEFINE I == {i \in 1 .. Len(s) : s[i] = s[p]}
<1>1. I = {p}
  BY DEF IsInjective
<1>2. I # {} /\ Min(I) = p
  <2>1. p \in I /\ I \subseteq Nat /\ \A x \in I : p <= x
    BY <1>1
  <2> HIDE DEF I
  <2>2. Min(I) = p
    BY <2>1, MinOfSet
  <2> QED  BY <2>1, <2>2
<1>3. SelectInSeq(s, LAMBDA v : v = s[p]) = p
  BY <1>2 DEF SelectInSeq
<1> QED  BY <1>3 DEF RemoveFirst, RemoveAt

(* The elements behind p move up by one.                                   *)
LEMMA RemoveFirstElements ==
    ASSUME NEW S, NEW s \in Seq(S), IsInjective(s), NEW p \in 1 .. Len(s)
    PROVE  LET r == RemoveFirst(s, s[p]) IN
           /\ r \in Seq(S)
           /\ Len(r) = Len(s) - 1
           /\ \A j \in 1 .. Len(s) - 1 : r[j] = IF j < p THEN s[j] ELSE s[j + 1]
<1> DEFINE a == SubSeq(s, 1, p - 1)
           b == SubSeq(s, p + 1, Len(s))
<1>1. /\ a \in Seq(S) /\ Len(a) = p - 1
      /\ \A i \in 1 .. p - 1 : a[i] = s[i]
  <2>1. \A i \in 1 .. p - 1 : s[i] \in S
    OBVIOUS
  <2>2. /\ SubSeq(s, 1, p - 1) \in Seq(S)
        /\ Len(SubSeq(s, 1, p - 1)) = IF 1 <= p - 1 THEN (p - 1) - 1 + 1 ELSE 0
        /\ \A i \in 1 .. (p - 1) - 1 + 1 : SubSeq(s, 1, p - 1)[i] = s[1 + i - 1]
    BY <2>1, SubSeqProperties
  <2> QED  BY <2>2
<1>2. /\ b \in Seq(S) /\ Len(b) = Len(s) - p
      /\ \A i \in 1 .. Len(s) - p : b[i] = s[p + i]
  <2>1. \A i \in p + 1 .. Len(s) : s[i] \in S
    OBVIOUS
  <2>2. /\ SubSeq(s, p + 1, Len(s)) \in Seq(S)
        /\ Len(SubSeq(s, p + 1, Len(s))) =
             IF p + 1 <= Len(s) THEN Len(s) - (p + 1) + 1 ELSE 0
        /\ \A i \in 1 .. Len(s) - (p + 1) + 1 :
             SubSeq(s, p + 1, Len(s))[i] = s[(p + 1) + i - 1]
    BY <2>1, SubSeqProperties
  <2> QED  BY <2>2
<1>3. /\ a \o b \in Seq(S)
      /\ Len(a \o b) = Len(a) + Len(b)
      /\ \A i \in 1 .. Len(a) + Len(b) :
            (a \o b)[i] = IF i <= Len(a) THEN a[i] ELSE b[i - Len(a)]
  BY <1>1, <1>2, ConcatProperties
<1>4. RemoveFirst(s, s[p]) = a \o b
  BY RemoveFirstIsRemoveAt
<1> HIDE DEF a, b
<1>5. ASSUME NEW j \in 1 .. Len(s) - 1
      PROVE  (a \o b)[j] = IF j < p THEN s[j] ELSE s[j + 1]
  BY <1>1, <1>2, <1>3
<1>6. a \o b \in Seq(S) /\ Len(a \o b) = Len(s) - 1
  BY <1>1, <1>2, <1>3
<1> QED  BY <1>4, <1>5, <1>6

(* A list without e: e is gone, the others are in the order they were in.  *)
LEMMA RemoveFirstProperties ==
    ASSUME NEW S, NEW s \in Seq(S), IsInjective(s), NEW e
    PROVE  LET r == RemoveFirst(s, e) IN
           /\ r \in Seq(S) /\ IsInjective(r)
           /\ Range(r) = Range(s) \ {e}
           /\ Len(r) = IF e \in Range(s) THEN Len(s) - 1 ELSE Len(s)
           /\ \A j, k \in 1 .. Len(r) :
                 j < k => \E a, b \in 1 .. Len(s) :
                             a < b /\ s[a] = r[j] /\ s[b] = r[k]
           /\ \A a, b \in 1 .. Len(s) :
                 a < b /\ s[a] # e /\ s[b] # e =>
                    \E j, k \in 1 .. Len(r) : j < k /\ r[j] = s[a] /\ r[k] = s[b]
<1> DEFINE r == RemoveFirst(s, e)
<1>1. CASE e \notin Range(s)
  <2>1. r = s
    BY <1>1 DEF RemoveFirst, Range
  <2>2. Range(s) \ {e} = Range(s)
    BY <1>1
  <2> QED  BY <2>1, <2>2
<1>2. CASE e \in Range(s)
  <2>1. PICK p \in 1 .. Len(s) : s[p] = e
    BY <1>2 DEF Range
  <2>2. /\ r \in Seq(S)
        /\ Len(r) = Len(s) - 1
        /\ \A j \in 1 .. Len(s) - 1 : r[j] = IF j < p THEN s[j] ELSE s[j + 1]
    BY <2>1, RemoveFirstElements
  <2> DEFINE From(j) == IF j < p THEN j ELSE j + 1
  <2> HIDE DEF r
  <2>3. \A j \in 1 .. Len(r) : /\ From(j) \in 1 .. Len(s) /\ From(j) # p
                               /\ r[j] = s[From(j)]
    BY <2>2
  <2>4. \A j, k \in 1 .. Len(r) : j < k => From(j) < From(k)
    BY <2>2
  <2>5. \A i \in 1 .. Len(s) : i # p => \E j \in 1 .. Len(r) : From(j) = i
    <3> SUFFICES ASSUME NEW i \in 1 .. Len(s), i # p
                 PROVE  \E j \in 1 .. Len(r) : From(j) = i
      OBVIOUS
    <3>1. CASE i < p
      <4>1. i \in 1 .. Len(r) /\ From(i) = i
        BY <2>2, <3>1
      <4> QED  BY <4>1
    <3>2. CASE i > p
      <4>1. i - 1 \in 1 .. Len(r) /\ From(i - 1) = i
        BY <2>2, <3>2
      <4> QED  BY <4>1
    <3> QED  BY <3>1, <3>2
  <2>6. DOMAIN r = 1 .. Len(r) /\ DOMAIN s = 1 .. Len(s)
    BY <2>2
  <2> HIDE DEF From
  <2>7. Range(r) = Range(s) \ {e}
    <3>1. \A j \in 1 .. Len(r) : r[j] \in Range(s) \ {e}
      BY <2>1, <2>3, <2>6 DEF Range, IsInjective
    <3>2. \A i \in 1 .. Len(s) : s[i] # e => s[i] \in Range(r)
      BY <2>1, <2>3, <2>5, <2>6 DEF Range
    <3> QED  BY <3>1, <3>2, <2>6 DEF Range
  <2>8. IsInjective(r)
    <3> SUFFICES ASSUME NEW j \in 1 .. Len(r), NEW k \in 1 .. Len(r), r[j] = r[k]
                 PROVE  j = k
      BY <2>6 DEF IsInjective
    <3>1. From(j) = From(k)
      BY <2>3, <2>6 DEF IsInjective
    <3>2. ~(j < k) /\ ~(k < j)
      BY <2>3, <2>4, <3>1
    <3> QED  BY <3>2
  <2>9. ASSUME NEW a \in 1 .. Len(s), NEW b \in 1 .. Len(s), a < b, s[a] # e, s[b] # e
        PROVE  \E j, k \in 1 .. Len(r) : j < k /\ r[j] = s[a] /\ r[k] = s[b]
    <3>1. a # p /\ b # p
      BY <2>1, <2>9
    <3>2. PICK j \in 1 .. Len(r), k \in 1 .. Len(r) : From(j) = a /\ From(k) = b
      BY <2>5, <3>1
    <3>3. j # k /\ ~(k < j)
      BY <2>4, <2>9, <3>2
    <3>4. j < k
      BY <3>3
    <3> QED  BY <2>3, <3>2, <3>4
  <2>10. \A j, k \in 1 .. Len(r) :
            j < k => \E a, b \in 1 .. Len(s) : a < b /\ s[a] = r[j] /\ s[b] = r[k]
    BY <2>3, <2>4
  <2> QED  BY <1>2, <2>2, <2>7, <2>8, <2>9, <2>10 DEF r
<1> QED  BY <1>1, <1>2

-----------------------------------------------------------------------------
(* A sequence over a set is one over every larger set.                     *)
LEMMA SeqSubset ==
    ASSUME NEW S, NEW T, S \subseteq T, NEW s \in Seq(S)
    PROVE  s \in Seq(T)
OBVIOUS

(* t stands in s from position k on.                                       *)
StandsAt(s, k, t) ==
    /\ k \in Nat \ {0}
    /\ k + Len(t) <= Len(s) + 1
    /\ \A i \in 1 .. Len(t) : s[k + i - 1] = t[i]

(* Where the two parts of a concatenation stand.                           *)
LEMMA ConcatAt ==
    ASSUME NEW S, NEW u \in Seq(S), NEW v \in Seq(S)
    PROVE  /\ u \o v \in Seq(S) /\ Len(u \o v) = Len(u) + Len(v)
           /\ StandsAt(u \o v, 1, u) /\ StandsAt(u \o v, Len(u) + 1, v)
<1>1. /\ Len(u) \in Nat /\ Len(v) \in Nat
      /\ u \o v \in Seq(S) /\ Len(u \o v) = Len(u) + Len(v)
      /\ \A i \in 1 .. Len(u) + Len(v) :
            (u \o v)[i] = IF i <= Len(u) THEN u[i] ELSE v[i - Len(u)]
  BY ConcatProperties
<1>2. ASSUME NEW i \in 1 .. Len(u) PROVE (u \o v)[1 + i - 1] = u[i]
  <2>1. 1 + i - 1 = i /\ i \in 1 .. Len(u) + Len(v) /\ i <= Len(u)
    BY <1>1
  <2> QED  BY <1>1, <2>1
<1>3. ASSUME NEW i \in 1 .. Len(v) PROVE (u \o v)[(Len(u) + 1) + i - 1] = v[i]
  <2>1. PICK j \in Nat : /\ j = (Len(u) + 1) + i - 1
                         /\ j \in 1 .. Len(u) + Len(v) /\ ~(j <= Len(u)) /\ j - Len(u) = i
    BY <1>1
  <2> QED  BY <1>1, <2>1
<1>4. StandsAt(u \o v, 1, u)
  BY <1>1, <1>2 DEF StandsAt
<1>5. StandsAt(u \o v, Len(u) + 1, v)
  <2>1. Len(u) + 1 \in Nat \ {0} /\ (Len(u) + 1) + Len(v) <= Len(u \o v) + 1
    BY <1>1
  <2> QED  BY <1>3, <2>1 DEF StandsAt
<1> QED  BY <1>1, <1>4, <1>5

(* What stands in a part stands in the whole.                              *)
LEMMA StandsAtWithin ==
    ASSUME NEW S, NEW s \in Seq(S), NEW t \in Seq(S), NEW r \in Seq(S),
           NEW k, StandsAt(s, k, t), NEW j, StandsAt(t, j, r)
    PROVE  StandsAt(s, k + j - 1, r)
<1>1. /\ k \in Nat \ {0} /\ j \in Nat \ {0}
      /\ Len(s) \in Nat /\ Len(t) \in Nat /\ Len(r) \in Nat
      /\ k + Len(t) <= Len(s) + 1 /\ j + Len(r) <= Len(t) + 1
  BY DEF StandsAt
<1>2. k + j - 1 \in Nat \ {0} /\ (k + j - 1) + Len(r) <= Len(s) + 1
  BY <1>1
<1>3. ASSUME NEW i \in 1 .. Len(r) PROVE s[(k + j - 1) + i - 1] = r[i]
  <2>1. PICK n \in Nat : /\ n = j + i - 1 /\ n \in 1 .. Len(t)
                         /\ k + n - 1 = (k + j - 1) + i - 1
    BY <1>1
  <2>2. s[k + n - 1] = t[n]
    BY <2>1 DEF StandsAt
  <2>3. t[j + i - 1] = r[i]
    BY DEF StandsAt
  <2> QED  BY <2>1, <2>2, <2>3
<1> QED  BY <1>2, <1>3 DEF StandsAt

(* The one element of a sequence that stands at k.                         *)
LEMMA StandsAtOne ==
    ASSUME NEW s, NEW k \in Nat, NEW a, StandsAt(s, k, <<a>>)
    PROVE  s[k] = a
<1>1. Len(<<a>>) = 1 /\ <<a>>[1] = a /\ 1 \in 1 .. 1 /\ k + 1 - 1 = k
  OBVIOUS
<1>2. s[k + 1 - 1] = <<a>>[1]
  BY <1>1 DEF StandsAt
<1> QED  BY <1>1, <1>2

(* SubSeq cuts out what stands there.                                      *)
LEMMA SubSeqAt ==
    ASSUME NEW S, NEW s \in Seq(S), NEW t \in Seq(S), NEW k, StandsAt(s, k, t), Len(t) > 0
    PROVE  SubSeq(s, k, k + Len(t) - 1) = t
<1>1. /\ k \in Nat \ {0} /\ Len(t) \in Nat \ {0} /\ Len(s) \in Nat
      /\ k + Len(t) <= Len(s) + 1
      /\ \A i \in 1 .. Len(t) : s[k + i - 1] = t[i]
  BY DEF StandsAt
<1>2. PICK m \in Nat : m = k + Len(t) - 1 /\ k <= m /\ m <= Len(s) /\ m - k + 1 = Len(t)
  BY <1>1
<1>3. \A i \in k .. m : s[i] \in S
  BY <1>1, <1>2, ElementOfSeq
<1>4. /\ SubSeq(s, k, m) \in Seq(S)
      /\ Len(SubSeq(s, k, m)) = Len(t)
      /\ \A i \in 1 .. Len(t) : SubSeq(s, k, m)[i] = s[k + i - 1]
  BY <1>1, <1>2, <1>3, SubSeqProperties
<1>5. SubSeq(s, k, m) = t
  BY <1>1, <1>4, SeqEqual
<1> QED  BY <1>2, <1>5

(* SubSeq of either half of a sequence of four.                            *)
LEMMA SubSeqOfTwo ==
    ASSUME NEW S, NEW s \in Seq(S), Len(s) = 4, NEW k \in {1, 3}
    PROVE  LET r == SubSeq(s, k, k + 1) IN
           r \in Seq(S) /\ Len(r) = 2 /\ r[1] = s[k] /\ r[2] = s[k + 1]
<1>1. \A i \in 1 .. 4 : s[i] \in S
  BY ElementOfSeq
<1>2. /\ SubSeq(s, 1, 2) \in Seq(S)
      /\ Len(SubSeq(s, 1, 2)) = IF 1 <= 2 THEN 2 - 1 + 1 ELSE 0
      /\ \A i \in 1 .. 2 - 1 + 1 : SubSeq(s, 1, 2)[i] = s[1 + i - 1]
  BY <1>1, SubSeqProperties
<1>3. /\ SubSeq(s, 3, 4) \in Seq(S)
      /\ Len(SubSeq(s, 3, 4)) = IF 3 <= 4 THEN 4 - 3 + 1 ELSE 0
      /\ \A i \in 1 .. 4 - 3 + 1 : SubSeq(s, 3, 4)[i] = s[3 + i - 1]
  BY <1>1, SubSeqProperties
<1>4. SubSeq(s, 1, 2)[1] = s[1] /\ SubSeq(s, 1, 2)[2] = s[2]
  BY <1>2
<1>5. SubSeq(s, 3, 4)[1] = s[3] /\ SubSeq(s, 3, 4)[2] = s[4]
  BY <1>3
<1>6. CASE k = 1
  BY <1>2, <1>4, <1>6
<1>7. CASE k = 3
  BY <1>3, <1>5, <1>7
<1> QED  BY <1>6, <1>7
=============================================================================
