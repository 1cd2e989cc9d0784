---------------------------- MODULE SequenceFacts ----------------------------
(***************************************************************************)
(* What the queues, histories and numbers of the models have in common:    *)
(* where the elements of a sequence are once it was read from, added to or *)
(* joined with another; the least and the greatest of a finite set of      *)
(* integers, and the list of its elements; the sequence that a strict      *)
(* order makes of a finite set; and induction over the natural numbers,    *)
(* stated of a set of them.                                                *)
(***************************************************************************)
EXTENDS Integers, Sequences, SequencesExt, Listing, SequenceTheorems, FiniteSetTheorems, TLAPS

\* What is left of a sequence without its first element.
LEMMA TailOf ==
  ASSUME NEW S, NEW s \in Seq(S), s # <<>>
  PROVE  /\ Tail(s) \in Seq(S) /\ Head(s) = s[1] /\ 1 \in DOMAIN s /\ s[1] \in S
         /\ Len(Tail(s)) = Len(s) - 1
         /\ \A k \in DOMAIN Tail(s) : k + 1 \in DOMAIN s /\ Tail(s)[k] = s[k + 1]
         /\ \A k \in DOMAIN s : k = 1 \/ (k - 1 \in DOMAIN Tail(s) /\ Tail(s)[k - 1] = s[k])
<1>1. Len(s) \in Nat /\ Len(s) > 0
  BY EmptySeq, LenProperties
<1> QED BY <1>1, HeadTailProperties, ElementOfSeq, LenProperties

\* A sequence and one more element.
LEMMA AppendOf ==
  ASSUME NEW S, NEW s \in Seq(S), NEW e \in S
  PROVE  /\ Append(s, e) \in Seq(S) /\ DOMAIN s \subseteq DOMAIN Append(s, e)
         /\ Len(Append(s, e)) = Len(s) + 1 /\ Len(s) + 1 \in DOMAIN Append(s, e)
         /\ Append(s, e)[Len(s) + 1] = e
         /\ \A k \in DOMAIN s : Append(s, e)[k] = s[k]
         /\ \A k \in DOMAIN Append(s, e) : k \in DOMAIN s \/ k = Len(s) + 1
  BY AppendProperties, LenProperties

\* A sequence without the element at one position.
LEMMA RemoveAtOf ==
  ASSUME NEW S, NEW s \in Seq(S), NEW i \in 1..Len(s)
  PROVE  /\ RemoveAt(s, i) \in Seq(S) /\ Len(RemoveAt(s, i)) = Len(s) - 1
         /\ \A k \in 1..(Len(s) - 1) : RemoveAt(s, i)[k] = IF k < i THEN s[k] ELSE s[k + 1]
<1>1. Len(s) \in Nat /\ i - 1 \in 0..Len(s) /\ i + 1 \in 1..(Len(s) + 1) /\ i \in Nat
  BY LenProperties
<1>2. /\ SubSeq(s, 1, i - 1) \in Seq(S) /\ Len(SubSeq(s, 1, i - 1)) = i - 1
      /\ \A k \in 1..(i - 1) : SubSeq(s, 1, i - 1)[k] = s[k]
  <2>1. \A k \in 1..(i - 1) : s[k] \in S
    BY <1>1, ElementOfSeq
  <2> QED BY <1>1, <2>1, SubSeqProperties
<1>3. /\ SubSeq(s, i + 1, Len(s)) \in Seq(S) /\ Len(SubSeq(s, i + 1, Len(s))) = Len(s) - i
      /\ \A k \in 1..(Len(s) - i) : SubSeq(s, i + 1, Len(s))[k] = s[k + i]
  <2>1. \A k \in (i + 1)..Len(s) : s[k] \in S
    BY <1>1, ElementOfSeq
  <2> QED BY <1>1, <2>1, SubSeqProperties
<1> DEFINE a == SubSeq(s, 1, i - 1)
           b == SubSeq(s, i + 1, Len(s))
<1>a. a \in Seq(S) /\ Len(a) = i - 1 /\ \A k \in 1..(i - 1) : a[k] = s[k]
  BY <1>2
<1>b. b \in Seq(S) /\ Len(b) = Len(s) - i /\ \A k \in 1..(Len(s) - i) : b[k] = s[k + i]
  BY <1>3
<1> HIDE DEF a, b
<1>4. /\ a \o b \in Seq(S) /\ Len(a \o b) = Len(s) - 1
      /\ \A k \in 1..(Len(s) - 1) : (a \o b)[k] = IF k <= i - 1 THEN a[k] ELSE b[k - (i - 1)]
  <2>1. Len(a) + Len(b) = Len(s) - 1
    BY <1>1, <1>a, <1>b
  <2>2. /\ a \o b \in Seq(S) /\ Len(a \o b) = Len(a) + Len(b)
        /\ \A k \in 1..(Len(a) + Len(b)) : (a \o b)[k] = IF k <= Len(a) THEN a[k] ELSE b[k - Len(a)]
    BY <1>a, <1>b, ConcatProperties
  <2> QED BY <1>a, <2>1, <2>2
<1>5. ASSUME NEW k \in 1..(Len(s) - 1)
      PROVE  (a \o b)[k] = IF k < i THEN s[k] ELSE s[k + 1]
  <2>1. CASE k < i
    <3>1. k <= i - 1 /\ k \in 1..(i - 1)
      BY <1>1, <2>1
    <3> QED BY <1>a, <1>4, <2>1, <3>1
  <2>2. CASE ~(k < i)
    <3>1. k - (i - 1) \in 1..(Len(s) - i) /\ k - (i - 1) + i = k + 1 /\ ~(k <= i - 1)
      BY <1>1, <2>2
    <3> QED BY <1>b, <1>4, <2>2, <3>1
  <2> QED BY <2>1, <2>2
<1> QED BY <1>4, <1>5 DEF RemoveAt, a, b

-----------------------------------------------------------------------------
\* How many of a set come up to an element.
Rank(S, u) == Cardinality({v \in S : v <= u})

\* The elements of a finite set of integers have the ranks from 1 to their number.
LEMMA RankOf ==
    ASSUME NEW S \in SUBSET Int, IsFiniteSet(S)
    PROVE  /\ Cardinality(S) \in Nat
           /\ \A u \in S : Rank(S, u) \in 1..Cardinality(S)
           /\ \A u, w \in S : Rank(S, u) = Rank(S, w) => u = w
           /\ \A i \in 1..Cardinality(S) : \E u \in S : Rank(S, u) = i
<1> DEFINE n == Cardinality(S)
           upTo(u) == {v \in S : v <= u}
<1>1. n \in Nat
  BY FS_CardinalityType
<1>2. \A u \in S : upTo(u) \in SUBSET S /\ IsFiniteSet(upTo(u)) /\ Cardinality(upTo(u)) \in 1..n
  <2> SUFFICES ASSUME NEW u \in S
               PROVE  upTo(u) \in SUBSET S /\ IsFiniteSet(upTo(u)) /\ Cardinality(upTo(u)) \in 1..n
    OBVIOUS
  <2>1. upTo(u) \in SUBSET S /\ u \in upTo(u)
    OBVIOUS
  <2>2. IsFiniteSet(upTo(u)) /\ Cardinality(upTo(u)) <= n /\ Cardinality(upTo(u)) \in Nat
    BY <2>1, FS_Subset, FS_CardinalityType
  <2>3. Cardinality(upTo(u)) # 0
    BY <2>1, <2>2, FS_EmptySet
  <2> HIDE DEF n, upTo
  <2> QED BY <1>1, <2>1, <2>2, <2>3
<1>3. ASSUME NEW u \in S, NEW w \in S, Rank(S, u) = Rank(S, w), u < w PROVE FALSE
  <2>1. upTo(u) \in SUBSET upTo(w) /\ w \in upTo(w) /\ w \notin upTo(u)
    <3>1. u \in Int /\ w \in Int /\ \A v \in S : v \in Int
      OBVIOUS
    <3>2. \A v \in S : v <= u => v <= w
      BY <1>3, <3>1
    <3>3. w <= w /\ ~(w <= u)
      BY <1>3, <3>1
    <3> QED BY <3>2, <3>3
  <2>2. upTo(u) = upTo(w)
    BY <1>2, <1>3, <2>1, FS_Subset DEF Rank
  <2> QED BY <2>1, <2>2
<1>4. \A u, w \in S : Rank(S, u) = Rank(S, w) => u = w
  BY <1>3
<1>5. \A i \in 1..n : \E u \in S : Rank(S, u) = i
  <2> DEFINE f == [u \in S |-> Rank(S, u)]
  <2>1. f \in [S -> 1..n] /\ \A u \in S : f[u] = Rank(S, u)
    BY <1>2 DEF Rank
  <2>2. f \in Injection(S, 1..n)
    BY <1>4, <2>1 DEF Injection, IsInjective
  <2>3. IsFiniteSet(1..n) /\ Cardinality(1..n) = n
    BY <1>1, FS_Interval
  <2> HIDE DEF f, n
  <2>4. Cardinality(S) = Cardinality(1..n)
    BY <2>3 DEF n
  <2>5. f \in Surjection(S, 1..n)
    BY <2>2, <2>3, <2>4, FS_Injection
  <2> QED BY <2>1, <2>5 DEF Surjection
<1> QED BY <1>1, <1>2, <1>4, <1>5 DEF Rank

\* A finite set of integers has a least and a greatest element.
LEMMA LeastAndGreatest ==
    ASSUME NEW S \in SUBSET Int, IsFiniteSet(S), S # {}
    PROVE  /\ \E x \in S : \A y \in S : x <= y
           /\ \E x \in S : \A y \in S : y <= x
           /\ Min(S) \in S /\ \A y \in S : Min(S) <= y
           /\ Max(S) \in S /\ \A y \in S : y <= Max(S)
<1> DEFINE n == Cardinality(S)
<1>1. n \in Nat /\ n # 0 /\ 1 \in 1..n /\ n \in 1..n
  BY FS_CardinalityType, FS_EmptySet
<1>2. PICK x \in S : Rank(S, x) = 1
  BY <1>1, RankOf
<1>3. PICK z \in S : Rank(S, z) = n
  BY <1>1, RankOf
<1>4. \A y \in S : x <= y
  <2> SUFFICES ASSUME NEW y \in S, y < x PROVE FALSE
    OBVIOUS
  <2> DEFINE below == {v \in S : v <= x}
  <2>1. x \in below /\ y \in below /\ below \in SUBSET S
    OBVIOUS
  <2>2. IsFiniteSet(below) /\ Cardinality(below) = 1
    BY <1>2, <2>1, FS_Subset DEF Rank
  <2> HIDE DEF below
  <2> QED BY <2>1, <2>2, FS_Singleton
<1>5. \A y \in S : y <= z
  <2> DEFINE below == {v \in S : v <= z}
  <2>1. below \in SUBSET S /\ Cardinality(below) = Cardinality(S)
    BY <1>3 DEF Rank
  <2>2. below = S
    <3> HIDE DEF below
    <3> QED BY <2>1, FS_Subset
  <2> QED BY <2>2
<1> QED BY <1>4, <1>5 DEF Min, Max

\* The least of some positions of a sequence.
LEMMA FirstAmong ==
    ASSUME NEW n \in Nat, NEW T \in SUBSET (1..n), T # {}
    PROVE  Min(T) \in T /\ Min(T) \in 1..n /\ \A y \in T : Min(T) <= y
<1>1. IsFiniteSet(1..n)
  BY FS_Interval
<1>2. IsFiniteSet(T)
  BY <1>1, FS_Subset
<1>3. T \in SUBSET Int
  OBVIOUS
<1> QED BY <1>2, <1>3, LeastAndGreatest

\* Induction: what holds of 0 and of the successor of each number it holds of.
LEMMA InductionOverNat ==
    ASSUME NEW K, 0 \in K, \A k \in K \cap Nat : k + 1 \in K
    PROVE  Nat \subseteq K
<1> SUFFICES ASSUME NEW m \in Nat, m \notin K PROVE FALSE
  OBVIOUS
<1> DEFINE bad == {i \in 0..m : i \notin K}
<1>1. bad \in SUBSET (0..m) /\ m \in bad
  OBVIOUS
<1>2. IsFiniteSet(bad) /\ bad \in SUBSET Int
  <2>1. IsFiniteSet(0..m)
    BY FS_Interval
  <2>2. bad \in SUBSET Int
    OBVIOUS
  <2> HIDE DEF bad
  <2>3. IsFiniteSet(bad)
    BY <1>1, <2>1, FS_Subset
  <2> QED BY <2>2, <2>3
<1>3. PICK b \in bad : \A y \in bad : b <= y
  BY <1>1, <1>2, LeastAndGreatest
<1>4. b \in 0..m /\ b # 0 /\ b - 1 \in 0..m /\ b - 1 \in Nat /\ b \notin K
  OBVIOUS
<1>5. b - 1 \in K
  BY <1>3, <1>4
<1>6. (b - 1) + 1 \in K /\ (b - 1) + 1 = b
  BY <1>4, <1>5
<1> QED BY <1>4, <1>6

\* Some natural numbers, if there are any, have a least one.
LEMMA LeastNatural ==
    ASSUME NEW S \in SUBSET Nat, S # {}
    PROVE  Min(S) \in S /\ \A y \in S : Min(S) <= y
<1>1. PICK s \in S : TRUE
  OBVIOUS
<1> DEFINE T == {x \in S : x <= s}
<1>2. T \in SUBSET (0..s) /\ s \in T /\ T \in SUBSET Int
  <2>a. \A x \in S : x \in Nat
    OBVIOUS
  <2>1. ASSUME NEW x \in T PROVE x \in 0..s /\ x \in Int
    <3>1. x \in S /\ x <= s
      OBVIOUS
    <3>2. x \in Nat /\ s \in Nat
      BY <2>a, <3>1
    <3> QED BY <3>1, <3>2
  <2>2. s \in T
    BY <2>a
  <2>3. T \in SUBSET (0..s) /\ T \in SUBSET Int
    <3> HIDE DEF T
    <3> QED BY <2>1
  <2> QED BY <2>2, <2>3
<1>3. IsFiniteSet(0..s)
  BY FS_Interval
<1>4. T \in SUBSET S /\ \A x \in S : x \in T \/ s < x
  OBVIOUS
<1> HIDE DEF T
<1>5. IsFiniteSet(T)
  BY <1>2, <1>3, FS_Subset
<1>6. PICK x \in T : \A y \in T : x <= y
  BY <1>2, <1>5, LeastAndGreatest
<1>7. \A y \in S : x <= y
  <2>1. x \in Nat /\ x <= s
    BY <1>2, <1>4, <1>6
  <2> QED BY <1>4, <1>6, <2>1
<1> QED BY <1>4, <1>7 DEF Min

\* One of finitely many numbers is the greatest.
LEMMA GreatestOf ==
    ASSUME NEW n \in Nat \ {0}, NEW f \in [1..n -> Int]
    PROVE  \E m \in 1..n : \A j \in 1..n : f[j] <= f[m]
<1> DEFINE Peak(k) == \E m \in 1..k : \A j \in 1..k : f[j] <= f[m]
           K == {k \in Nat : k + 1 <= n => Peak(k + 1)}
<1>1. 0 \in K
  <2>1. Peak(1)
    OBVIOUS
  <2> HIDE DEF Peak
  <2> QED BY <2>1
<1>2. ASSUME NEW k \in K \cap Nat PROVE k + 1 \in K
  <2>a. k \in Nat /\ k + 1 \in Nat /\ (k + 1 <= n => Peak(k + 1))
    <3> HIDE DEF Peak
    <3> QED OBVIOUS
  <2> SUFFICES ASSUME (k + 1) + 1 <= n PROVE Peak((k + 1) + 1)
    <3> HIDE DEF Peak
    <3> QED BY <2>a
  <2>b. k + 1 <= n
    BY <2>a
  <2>1. PICK m \in 1..(k + 1) : \A j \in 1..(k + 1) : f[j] <= f[m]
    BY <2>a, <2>b
  <2> DEFINE top == (k + 1) + 1
  <2>2. top \in 1..top /\ m \in 1..top /\ f[m] \in Int /\ f[top] \in Int
    BY <2>a, <2>b
  <2>3. \A j \in 1..top : (j \in 1..(k + 1) \/ j = top) /\ f[j] \in Int
    BY <2>a
  <2>4. CASE f[m] <= f[top]
    <3>1. \A j \in 1..top : f[j] <= f[top]
      BY <2>1, <2>2, <2>3, <2>4
    <3> QED BY <2>2, <3>1
  <2>5. CASE f[top] <= f[m]
    <3>1. \A j \in 1..top : f[j] <= f[m]
      BY <2>1, <2>2, <2>3, <2>5
    <3> QED BY <2>2, <3>1
  <2> QED BY <2>2, <2>4, <2>5
<1>3. n - 1 \in K
  <2> HIDE DEF K
  <2>1. n - 1 \in Nat
    OBVIOUS
  <2> QED BY <1>1, <1>2, <2>1, InductionOverNat
<1>4. (n - 1) + 1 = n
  OBVIOUS
<1>5. Peak(n)
  <2> HIDE DEF Peak
  <2> QED BY <1>3, <1>4
<1> QED BY <1>5

\* The end of a sequence, from a position on.
LEMMA EndOf ==
    ASSUME NEW S, NEW s \in Seq(S), NEW i \in 1..Len(s)
    PROVE  /\ SubSeq(s, i, Len(s)) \in Seq(S) /\ Len(SubSeq(s, i, Len(s))) = Len(s) - i + 1
           /\ \A k \in 1..(Len(s) - i + 1) : SubSeq(s, i, Len(s))[k] = s[i + k - 1]
<1>1. Len(s) \in Nat /\ i \in Int /\ Len(s) \in Int /\ i <= Len(s)
  BY LenProperties
<1>2. \A k \in i..Len(s) : s[k] \in S
  BY <1>1, ElementOfSeq
<1> QED BY <1>1, <1>2, SubSeqProperties

\* A sequence with one more element at a position.
LEMMA InsertAtOf ==
  ASSUME NEW S, NEW s \in Seq(S), NEW i \in 1..(Len(s) + 1), NEW e \in S
  PROVE  /\ InsertAt(s, i, e) \in Seq(S) /\ Len(InsertAt(s, i, e)) = Len(s) + 1
         /\ \A k \in 1..(Len(s) + 1) :
               InsertAt(s, i, e)[k] = IF k < i THEN s[k] ELSE IF k = i THEN e ELSE s[k - 1]
<1> DEFINE n == Len(s)
           a == SubSeq(s, 1, i - 1)
           m == <<e>>
           b == SubSeq(s, i, n)
<1>1. n \in Nat /\ i \in Nat /\ i - 1 \in Nat /\ \A k \in 1..n : s[k] \in S
  BY LenProperties, ElementOfSeq
<1>2. a \in Seq(S) /\ Len(a) = i - 1 /\ \A k \in 1..(i - 1) : a[k] = s[k]
  <2>1. \A k \in 1..(i - 1) : s[k] \in S
    BY <1>1
  <2> QED BY <1>1, <2>1, SubSeqProperties
<1>3. b \in Seq(S) /\ Len(b) = n - i + 1 /\ \A k \in 1..(n - i + 1) : b[k] = s[k + i - 1]
  <2>1. \A k \in i..n : s[k] \in S
    BY <1>1
  <2> QED BY <1>1, <2>1, SubSeqProperties
<1>4. m \in Seq(S) /\ Len(m) = 1 /\ m[1] = e
  OBVIOUS
<1>5. InsertAt(s, i, e) = (a \o m) \o b
  BY DEF InsertAt
<1> HIDE DEF a, b, m, n
<1>6. /\ a \o m \in Seq(S) /\ Len(a \o m) = i
      /\ \A k \in 1..i : (a \o m)[k] = IF k <= i - 1 THEN a[k] ELSE m[k - (i - 1)]
  <2>1. Len(a) + Len(m) = i
    BY <1>1, <1>2, <1>4
  <2>2. /\ a \o m \in Seq(S) /\ Len(a \o m) = Len(a) + Len(m)
        /\ \A k \in 1..(Len(a) + Len(m)) : (a \o m)[k] = IF k <= Len(a) THEN a[k] ELSE m[k - Len(a)]
    BY <1>2, <1>4, ConcatProperties
  <2> QED BY <1>2, <2>1, <2>2
<1> DEFINE c == a \o m
<1>7. c \in Seq(S) /\ Len(c) = i /\ \A k \in 1..i : c[k] = IF k < i THEN s[k] ELSE e
  <2>1. \A k \in 1..i : k <= i - 1 => k \in 1..(i - 1)
    BY <1>1
  <2>2. \A k \in 1..i : ~(k <= i - 1) => k = i /\ k - (i - 1) = 1
    BY <1>1
  <2>3. \A k \in 1..i : k <= i - 1 <=> k < i
    BY <1>1
  <2> QED BY <1>2, <1>4, <1>6, <2>1, <2>2, <2>3
<1> HIDE DEF c
<1>8. /\ c \o b \in Seq(S) /\ Len(c \o b) = n + 1
      /\ \A k \in 1..(n + 1) : (c \o b)[k] = IF k <= i THEN c[k] ELSE b[k - i]
  <2>1. Len(c) + Len(b) = n + 1
    BY <1>1, <1>3, <1>7
  <2>2. /\ c \o b \in Seq(S) /\ Len(c \o b) = Len(c) + Len(b)
        /\ \A k \in 1..(Len(c) + Len(b)) : (c \o b)[k] = IF k <= Len(c) THEN c[k] ELSE b[k - Len(c)]
    BY <1>3, <1>7, ConcatProperties
  <2> QED BY <1>7, <2>1, <2>2
<1>9. ASSUME NEW k \in 1..(n + 1)
      PROVE  (c \o b)[k] = IF k < i THEN s[k] ELSE IF k = i THEN e ELSE s[k - 1]
  <2>1. CASE k <= i
    BY <1>1, <1>7, <1>8, <2>1
  <2>2. CASE k > i
    <3>1. k - i \in 1..(n - i + 1) /\ (k - i) + i - 1 = k - 1 /\ ~(k <= i)
      BY <1>1, <2>2
    <3>2. b[k - i] = s[k - 1]
      BY <1>3, <3>1
    <3> QED BY <1>1, <1>8, <2>2, <3>1, <3>2
  <2>3. k <= i \/ k > i
    BY <1>1
  <2> QED BY <2>1, <2>2, <2>3
<1> QED BY <1>5, <1>8, <1>9 DEF c, n

-----------------------------------------------------------------------------
\* A strict total order of a set, as the set of its pairs, and what is below an element.
StrictOrder(R, S) ==
    /\ \A p \in S : <<p, p>> \notin R
    /\ \A p, q \in S : p = q \/ <<p, q>> \in R \/ <<q, p>> \in R
    /\ \A p, q, r \in S : <<p, q>> \in R /\ <<q, r>> \in R => <<p, r>> \in R
Below(R, S, p) == {q \in S : <<q, p>> \in R}

\* In a finite set each element has another number of elements below it.
LEMMA OrderRanks ==
    ASSUME NEW S, IsFiniteSet(S), NEW R, StrictOrder(R, S)
    PROVE  /\ Cardinality(S) \in Nat
           /\ \A p \in S : Cardinality(Below(R, S, p)) \in 0..(Cardinality(S) - 1)
           /\ \A p, q \in S : <<p, q>> \in R => Cardinality(Below(R, S, p)) < Cardinality(Below(R, S, q))
           /\ \A i \in 1..Cardinality(S) : \E p \in S : Cardinality(Below(R, S, p)) = i - 1
<1> DEFINE n == Cardinality(S)
           rank(p) == Cardinality(Below(R, S, p))
<1>1. n \in Nat
  BY FS_CardinalityType
<1>2. \A p \in S : Below(R, S, p) \in SUBSET S /\ IsFiniteSet(Below(R, S, p)) /\ rank(p) \in 0..(n - 1)
  <2> SUFFICES ASSUME NEW p \in S
               PROVE  Below(R, S, p) \in SUBSET S /\ IsFiniteSet(Below(R, S, p)) /\ rank(p) \in 0..(n - 1)
    OBVIOUS
  <2>1. Below(R, S, p) \in SUBSET S /\ p \notin Below(R, S, p)
    BY DEF Below, StrictOrder
  <2>2. IsFiniteSet(Below(R, S, p)) /\ rank(p) <= n /\ rank(p) \in Nat
    BY <2>1, FS_Subset, FS_CardinalityType
  <2>3. rank(p) # n
    BY <2>1, FS_Subset
  <2> HIDE DEF n, rank
  <2> QED BY <1>1, <2>1, <2>2, <2>3
<1>3. \A p, q \in S : <<p, q>> \in R => rank(p) < rank(q)
  <2> SUFFICES ASSUME NEW p \in S, NEW q \in S, <<p, q>> \in R PROVE rank(p) < rank(q)
    OBVIOUS
  <2>1. Below(R, S, p) \in SUBSET Below(R, S, q) /\ p \in Below(R, S, q) /\ p \notin Below(R, S, p)
    BY DEF Below, StrictOrder
  <2>2. rank(p) <= rank(q) /\ rank(p) # rank(q)
    BY <1>2, <2>1, FS_Subset
  <2>3. rank(p) \in Nat /\ rank(q) \in Nat
    BY <1>2, FS_CardinalityType
  <2> HIDE DEF rank
  <2> QED BY <2>2, <2>3
<1>4. \A i \in 1..n : \E p \in S : rank(p) = i - 1
  <2> DEFINE f == [p \in S |-> rank(p) + 1]
  <2>1. f \in [S -> 1..n] /\ \A p \in S : f[p] = rank(p) + 1
    <3>1. \A k \in 0..(n - 1) : k + 1 \in 1..n
      BY <1>1
    <3> HIDE DEF n, rank
    <3> QED BY <1>2, <3>1
  <2>2. f \in Injection(S, 1..n)
    <3>1. \A a, b \in 0..(n - 1) : (a + 1 = b + 1 => a = b) /\ ~(a < a)
      BY <1>1
    <3>2. ASSUME NEW p \in S, NEW q \in S, f[p] = f[q] PROVE p = q
      <4> HIDE DEF n, rank, f
      <4>1. rank(p) = rank(q) /\ ~(rank(p) < rank(p))
        BY <1>2, <2>1, <3>1, <3>2
      <4> QED BY <1>3, <4>1 DEF StrictOrder
    <3> HIDE DEF f
    <3> QED BY <2>1, <3>2 DEF Injection, IsInjective
  <2>3. IsFiniteSet(1..n) /\ Cardinality(1..n) = n
    BY <1>1, FS_Interval
  <2> HIDE DEF f, n
  <2>4. Cardinality(S) = Cardinality(1..n)
    BY <2>3 DEF n
  <2>5. f \in Surjection(S, 1..n)
    BY <2>2, <2>3, <2>4, FS_Injection
  <2>6. ASSUME NEW i \in 1..n PROVE \E p \in S : rank(p) = i - 1
    <3>1. PICK p \in S : f[p] = i
      BY <2>5 DEF Surjection
    <3>2. rank(p) \in Int
      <4>1. \A k \in 0..(n - 1) : k \in Int
        BY <1>1
      <4> HIDE DEF rank
      <4> QED BY <1>2, <4>1
    <3> HIDE DEF rank
    <3> QED BY <1>1, <2>1, <3>1, <3>2
  <2> QED BY <2>6
<1> HIDE DEF n
<1> QED BY <1>1, <1>2, <1>3, <1>4 DEF n

\* So it can be sorted.
LEMMA SortingExists ==
    ASSUME NEW S, IsFiniteSet(S), NEW R, StrictOrder(R, S)
    PROVE  \E s \in [1..Cardinality(S) -> S] : \A i, j \in 1..Cardinality(S) : i < j => <<s[i], s[j]>> \in R
<1> DEFINE n == Cardinality(S)
           rank(p) == Cardinality(Below(R, S, p))
           s == [i \in 1..n |-> CHOOSE p \in S : rank(p) = i - 1]
<1>1. /\ n \in Nat /\ \A p \in S : rank(p) \in 0..(n - 1)
      /\ \A p, q \in S : <<p, q>> \in R => rank(p) < rank(q)
      /\ \A i \in 1..n : \E p \in S : rank(p) = i - 1
  BY OrderRanks
<1> HIDE DEF n, rank
<1>2. \A i \in 1..n : s[i] \in S /\ rank(s[i]) = i - 1
  BY <1>1
<1>3. s \in [1..n -> S]
  BY <1>2
<1> HIDE DEF s
<1>4. ASSUME NEW i \in 1..n, NEW j \in 1..n, i < j PROVE <<s[i], s[j]>> \in R
  <2>1. s[i] \in S /\ s[j] \in S /\ rank(s[i]) = i - 1 /\ rank(s[j]) = j - 1 /\ i \in Int /\ j \in Int
    BY <1>1, <1>2
  <2>2. ~(rank(s[j]) < rank(s[i])) /\ rank(s[i]) # rank(s[j])
    BY <1>4, <2>1
  <2>3. s[i] # s[j] /\ <<s[j], s[i]>> \notin R
    BY <1>1, <2>1, <2>2
  <2> QED BY <2>1, <2>3 DEF StrictOrder
<1> QED BY <1>3, <1>4 DEF n

\* A sorted enumeration has every element, the one at i with i - 1 below it.
LEMMA SortedHas ==
    ASSUME NEW S, IsFiniteSet(S), NEW R, StrictOrder(R, S),
           NEW s \in [1..Cardinality(S) -> S],
           \A i, j \in 1..Cardinality(S) : i < j => <<s[i], s[j]>> \in R
    PROVE  /\ \A p \in S : \E i \in 1..Cardinality(S) : s[i] = p
           /\ \A i \in 1..Cardinality(S) : Cardinality(Below(R, S, s[i])) = i - 1
<1> DEFINE n == Cardinality(S)
<1>1. n \in Nat /\ IsFiniteSet(1..n) /\ Cardinality(1..n) = n
  BY FS_CardinalityType, FS_Interval
<1>2. s \in [1..n -> S] /\ \A i, j \in 1..n : i < j => <<s[i], s[j]>> \in R
  OBVIOUS
<1>0. Cardinality(S) = Cardinality(1..n)
  BY <1>1
<1> HIDE DEF n
<1>3. \A i, j \in 1..n : s[i] = s[j] => i = j
  <2> SUFFICES ASSUME NEW i \in 1..n, NEW j \in 1..n, s[i] = s[j], i # j PROVE FALSE
    OBVIOUS
  <2>1. i < j \/ j < i
    BY <1>1
  <2>2. s[i] \in S
    BY <1>2
  <2> QED BY <1>2, <2>1, <2>2 DEF StrictOrder
<1>4. s \in Injection(1..n, S)
  BY <1>2, <1>3 DEF Injection, IsInjective
<1>5. s \in Surjection(1..n, S)
  BY <1>0, <1>4, FS_Injection
<1>6. \A p \in S : \E i \in 1..n : s[i] = p
  BY <1>5 DEF Surjection
<1>7. ASSUME NEW i \in 1..n PROVE Cardinality(Below(R, S, s[i])) = i - 1
  <2> DEFINE T == Below(R, S, s[i])
             f == [k \in 1..(i - 1) |-> s[k]]
  <2>1. \A k \in 1..(i - 1) : k \in 1..n /\ k < i
    BY <1>1
  <2>2. \A k \in 1..(i - 1) : s[k] \in T
    BY <1>2, <2>1 DEF Below
  <2>3. ASSUME NEW q \in T PROVE \E k \in 1..(i - 1) : s[k] = q
    <3>1. q \in S /\ <<q, s[i]>> \in R
      BY DEF Below
    <3>2. PICK k \in 1..n : s[k] = q
      BY <1>6, <3>1
    <3>3. ~(i < k) /\ k # i
      <4>1. s[i] \in S
        BY <1>2
      <4>2. <<q, q>> \notin R /\ <<s[i], q>> \notin R
        BY <3>1, <4>1 DEF StrictOrder
      <4> QED BY <1>2, <3>1, <3>2, <4>2
    <3>4. k \in 1..(i - 1)
      BY <1>1, <3>3
    <3> QED BY <3>2, <3>4
  <2> HIDE DEF T
  <2>4. f \in [1..(i - 1) -> T]
    BY <2>2
  <2>5. \A k \in 1..(i - 1) : f[k] = s[k]
    OBVIOUS
  <2> HIDE DEF f
  <2>6. f \in Surjection(1..(i - 1), T)
    BY <2>3, <2>4, <2>5 DEF Surjection
  <2>7. f \in Injection(1..(i - 1), T)
    BY <1>3, <2>1, <2>4, <2>5 DEF Injection, IsInjective
  <2>8. f \in Bijection(1..(i - 1), T)
    BY <2>6, <2>7 DEF Bijection
  <2>9. i - 1 \in Nat /\ i \in Int
    BY <1>1
  <2>10. IsFiniteSet(1..(i - 1)) /\ Cardinality(1..(i - 1)) = i - 1
    <3>1. 1 \in Int /\ i - 1 \in Int /\ (1 > i - 1 => i - 1 = 0) /\ (1 <= i - 1 => (i - 1) - 1 + 1 = i - 1)
      BY <2>9
    <3> QED BY <3>1, FS_Interval
  <2>11. ExistsBijection(1..(i - 1), T)
    BY <2>8 DEF ExistsBijection
  <2>12. Cardinality(T) = Cardinality(1..(i - 1))
    BY <2>10, <2>11, FS_Bijection
  <2> QED BY <2>10, <2>12 DEF T
<1> QED BY <1>6, <1>7 DEF n

\* A finite set of integers can be listed from the least to the greatest, and what is
\* listed at i has the rank i.
LEMMA IncreasingOf ==
    ASSUME NEW S \in SUBSET Int, IsFiniteSet(S)
    PROVE  /\ Cardinality(S) \in Nat
           /\ \E s \in [1..Cardinality(S) -> S] : \A i, j \in 1..Cardinality(S) : i < j => s[i] < s[j]
           /\ \A s \in [1..Cardinality(S) -> S] :
                (\A i, j \in 1..Cardinality(S) : i < j => s[i] < s[j])
                => /\ \A u \in S : \E i \in 1..Cardinality(S) : s[i] = u
                   /\ \A i \in 1..Cardinality(S) : Rank(S, s[i]) = i
<1> DEFINE n == Cardinality(S)
           R == {e \in S \X S : e[1] < e[2]}
<1>1. n \in Nat
  BY FS_CardinalityType
<1>2. \A a, b \in S : <<a, b>> \in R <=> a < b
  OBVIOUS
<1>3. \A a \in S : a \in Int
  OBVIOUS
<1> HIDE DEF R
<1>4. StrictOrder(R, S)
  <2>1. \A a \in S : ~(a < a)
    BY <1>3
  <2>2. \A a, b \in S : a = b \/ a < b \/ b < a
    BY <1>3
  <2>3. \A a, b, c \in S : a < b /\ b < c => a < c
    BY <1>3
  <2> QED BY <1>2, <2>1, <2>2, <2>3 DEF StrictOrder
<1>5. \E s \in [1..n -> S] : \A i, j \in 1..n : i < j => s[i] < s[j]
  <2>1. PICK s \in [1..n -> S] : \A i, j \in 1..n : i < j => <<s[i], s[j]>> \in R
    BY <1>4, SortingExists
  <2>2. \A i \in 1..n : s[i] \in S
    BY <2>1
  <2> HIDE DEF n
  <2> QED BY <1>2, <2>1, <2>2
<1>6. ASSUME NEW s \in [1..n -> S], \A i, j \in 1..n : i < j => s[i] < s[j]
      PROVE  (\A u \in S : \E i \in 1..n : s[i] = u) /\ \A i \in 1..n : Rank(S, s[i]) = i
  <2>1. \A i, j \in 1..n : i < j => <<s[i], s[j]>> \in R
    <3>1. \A i \in 1..n : s[i] \in S
      BY <1>6
    <3> HIDE DEF n
    <3> QED BY <1>2, <1>6, <3>1
  <2>2. (\A u \in S : \E i \in 1..n : s[i] = u) /\ \A i \in 1..n : Cardinality(Below(R, S, s[i])) = i - 1
    <3>1. \A u \in S : \E i \in 1..n : s[i] = u
      BY <1>4, <2>1, SortedHas
    <3>2. \A i \in 1..n : Cardinality(Below(R, S, s[i])) = i - 1
      BY <1>1, <1>4, <2>1, SortedHas
    <3> QED BY <3>1, <3>2
  <2>3. ASSUME NEW i \in 1..n PROVE Rank(S, s[i]) = i
    <3> DEFINE u == s[i]
               B == Below(R, S, u)
    <3>1. u \in S /\ u \in Int
      BY <1>3, <1>6
    <3> HIDE DEF u, n
    <3>2. B \in SUBSET S /\ u \notin B
      BY <1>4, <3>1 DEF Below, StrictOrder
    <3>3. {v \in S : v <= u} = B \cup {u}
      <4>1. \A v \in S : v <= u <=> v < u \/ v = u
        BY <1>3, <3>1
      <4> QED BY <1>2, <3>1, <4>1 DEF Below
    <3>4. IsFiniteSet(B)
      BY <3>2, FS_Subset
    <3>5. Cardinality(B \cup {u}) = Cardinality(B) + 1
      BY <3>2, <3>4, FS_AddElement
    <3>6. Cardinality(B) = i - 1 /\ i \in Int
      BY <1>1, <2>2 DEF u
    <3>7. Rank(S, u) = Cardinality(B) + 1
      BY <3>3, <3>5 DEF Rank
    <3> HIDE DEF B
    <3> QED BY <3>6, <3>7 DEF u
  <2> QED BY <2>2, <2>3
<1> HIDE DEF n
<1>7. \A s \in [1..n -> S] : (\A i, j \in 1..n : i < j => s[i] < s[j])
                => (\A u \in S : \E i \in 1..n : s[i] = u) /\ \A i \in 1..n : Rank(S, s[i]) = i
  BY <1>6
<1> QED BY <1>1, <1>5, <1>7 DEF n


\* That list, as Ascending has it.
LEMMA AscendingOf ==
    ASSUME NEW S \in SUBSET Int, IsFiniteSet(S)
    PROVE  /\ Cardinality(S) \in Nat
           /\ Ascending(S) \in [1..Cardinality(S) -> S]
           /\ \A i, j \in 1..Cardinality(S) : i < j => Ascending(S)[i] < Ascending(S)[j]
           /\ \A i \in 1..Cardinality(S) : Rank(S, Ascending(S)[i]) = i
           /\ \A u \in S : \E i \in 1..Cardinality(S) : Ascending(S)[i] = u
<1> DEFINE n == Cardinality(S)
           Rising(s) == \A i, j \in 1..n : i < j => s[i] < s[j]
<1>1. /\ n \in Nat /\ \E s \in [1..n -> S] : Rising(s)
      /\ \A s \in [1..n -> S] : Rising(s) => /\ \A u \in S : \E i \in 1..n : s[i] = u
                                             /\ \A i \in 1..n : Rank(S, s[i]) = i
  BY IncreasingOf
<1>2. Ascending(S) = CHOOSE s \in [1..n -> S] : Rising(s)
  BY DEF Ascending
<1> HIDE DEF n, Rising
<1>3. Ascending(S) \in [1..n -> S] /\ Rising(Ascending(S))
  BY <1>1, <1>2
<1> QED BY <1>1, <1>3 DEF n, Rising

\* Two sequences, one after the other.
LEMMA JoinOf ==
    ASSUME NEW A, NEW x \in Seq(A), NEW y \in Seq(A)
    PROVE  /\ x \o y \in Seq(A) /\ Len(x \o y) = Len(x) + Len(y) /\ Len(x) \in Nat /\ Len(y) \in Nat
           /\ \A k \in 1..Len(x) : (x \o y)[k] = x[k]
           /\ \A k \in 1..Len(y) : (x \o y)[Len(x) + k] = y[k]
<1> DEFINE z == x \o y
           n == Len(x)
           m == Len(y)
<1>3. /\ z \in Seq(A) /\ Len(z) = n + m /\ n \in Nat /\ m \in Nat
      /\ \A k \in 1..(n + m) : z[k] = IF k <= n THEN x[k] ELSE y[k - n]
  BY ConcatProperties, LenProperties
<1> HIDE DEF z, n, m
<1>5. ASSUME NEW k \in 1..n PROVE z[k] = x[k]
  <2>1. k \in 1..(n + m) /\ k <= n
    BY <1>3
  <2> QED BY <1>3, <2>1
<1>6. ASSUME NEW k \in 1..m PROVE z[n + k] = y[k]
  <2>1. n + k \in 1..(n + m) /\ ~(n + k <= n) /\ (n + k) - n = k
    BY <1>3
  <2> QED BY <1>3, <2>1
<1> QED BY <1>3, <1>5, <1>6 DEF z, n, m

\* The numbers from 1.
LEMMA FromOne == \A m \in Nat : IsFiniteSet(1..m) /\ Cardinality(1..m) = m
<1> TAKE m \in Nat
<1>1. m \in Int /\ (IF 1 > m THEN 0 ELSE m - 1 + 1) = m
  OBVIOUS
<1> QED BY <1>1, FS_Interval
=============================================================================
