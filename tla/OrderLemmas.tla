------------------------------ MODULE OrderLemmas ------------------------------
(***************************************************************************)
(* What the proofs about lists and plans need of the library: the least    *)
(* number of a set, counting up to a bound, and the sequences that SubSeq, *)
(* \o, RemoveAt and InsertAt stand for, element by element.                *)
(***************************************************************************)
EXTENDS SequencesExt, SequenceTheorems, FiniteSetTheorems, WellFoundedInduction, TLAPS

\* Every set of numbers that is not empty has a least one: the intervals 0 .. n are
\* ordered as the numbers are.
LEMMA LeastNat ==
  ASSUME NEW S \in SUBSET Nat, S # {}
  PROVE  \E n \in S : \A m \in S : n <= m
<1> DEFINE Downs == {0 .. n : n \in S}
<1>1. Downs \subseteq FiniteSubsetsOf(Nat) /\ Downs # {}
  <2>1. \A n \in S : 0 .. n \in SUBSET Nat /\ IsFiniteSet(0 .. n)
    BY FS_Interval
  <2> QED
    BY <2>1 DEF FiniteSubsetsOf
<1>2. PICK x \in Downs : \A y \in Downs : <<y, x>> \notin StrictSubsetOrdering(Nat)
  <2> HIDE DEF Downs
  <2> QED
    BY <1>1, FS_StrictSubsetOrderingWellFounded, WFMin
<1>3. PICK n \in S : x = 0 .. n
  OBVIOUS
<1>4. ASSUME NEW m \in S, m < n PROVE FALSE
  <2>1. 0 .. m \subseteq 0 .. n /\ n \in 0 .. n /\ n \notin 0 .. m
    BY <1>4
  <2>2. <<0 .. m, 0 .. n>> \in StrictSubsetOrdering(Nat)
    BY <2>1 DEF StrictSubsetOrdering
  <2> QED
    BY <1>2, <1>3, <2>2
<1> QED
  BY <1>4

\* What holds of 0, and of a number's successor with it, holds up to the bound.
LEMMA UpTo ==
  ASSUME NEW n \in Nat, NEW S,
         0 \in S,
         \A k \in 1 .. n : k - 1 \in S => k \in S
  PROVE  \A k \in 0 .. n : k \in S
<1> SUFFICES ASSUME NEW j \in 0 .. n, j \notin S PROVE FALSE
  OBVIOUS
<1> DEFINE Out == {k \in 0 .. n : k \notin S}
<1>1. Out \in SUBSET Nat /\ Out # {}
  OBVIOUS
<1>2. PICK k \in Out : \A m \in Out : k <= m
  <2> HIDE DEF Out
  <2> QED
    BY <1>1, LeastNat
<1>3. k \in 1 .. n /\ k - 1 \notin Out
  BY <1>2
<1> QED
  BY <1>3

-------------------------------------------------------------------------------
\* A concatenation is the sequence that has its elements.
LEMMA ConcatIs ==
  ASSUME NEW S, NEW a \in Seq(S), NEW b \in Seq(S)
  PROVE  \A f : 
        /\ f \in [1 .. Len(a) + Len(b) -> S]
        /\ \A k \in 1 .. Len(a) : f[k] = a[k]
        /\ \A k \in Len(a) + 1 .. Len(a) + Len(b) : f[k] = b[k - Len(a)]
        => a \o b = f
<1>1. a \o b \in Seq(S) /\ Len(a \o b) = Len(a) + Len(b)
  BY ConcatProperties
<1> DEFINE q == a \o b
<1>2. q \in [1 .. Len(a) + Len(b) -> S]
  BY <1>1, LenProperties
<1>3. \A k \in 1 .. Len(a) + Len(b) : q[k] = IF k <= Len(a) THEN a[k] ELSE b[k - Len(a)]
  BY ConcatProperties
<1>4. PICK m \in Nat : m = Len(a)
  OBVIOUS
<1>5. PICK n \in Nat : n = Len(a) + Len(b)
  OBVIOUS
<1> HIDE DEF q
<1>6. ASSUME NEW f \in [1 .. n -> S], \A k \in 1 .. m : f[k] = a[k], \A k \in m + 1 .. n : f[k] = b[k - m]
      PROVE q = f
  <2>1. ASSUME NEW k \in 1 .. n, k <= m PROVE q[k] = f[k]
    <3>1. k \in 1 .. m
      BY <2>1
    <3> QED
    BY <1>3, <1>4, <1>5, <1>6, <2>1, <3>1
  <2>2. ASSUME NEW k \in 1 .. n, ~(k <= m) PROVE q[k] = f[k]
    <3>1. k \in m + 1 .. n
      BY <2>2
    <3>2. f[k] = b[k - m]
      BY <3>1, <1>6
    <3>3. q[k] = b[k - m]
      BY <1>3, <1>4, <1>5, <2>2
    <3> QED
      BY <3>2, <3>3
  <2> QED
    BY <1>2, <1>5, <2>1, <2>2
<1> QED
  BY <1>4, <1>5, <1>6 DEF q

\* Part of a sequence.
LEMMA SubSeqIs ==
  ASSUME NEW S, NEW s \in Seq(S), NEW m \in 1 .. Len(s) + 1, NEW n \in 0 .. Len(s), m <= n + 1
  PROVE  /\ SubSeq(s, m, n) \in Seq(S)
         /\ Len(SubSeq(s, m, n)) = n + 1 - m
         /\ \A k \in 1 .. n + 1 - m : SubSeq(s, m, n)[k] = s[m + k - 1]
<1>1. \A k \in m .. n : s[k] \in S
  OBVIOUS
<1> QED
  BY <1>1, SubSeqProperties

\* A sequence without its element at i.
LEMMA RemoveAtIs ==
  ASSUME NEW S, NEW s \in Seq(S), NEW i \in 1 .. Len(s)
  PROVE  /\ RemoveAt(s, i) \in Seq(S)
         /\ Len(RemoveAt(s, i)) = Len(s) - 1
         /\ \A k \in 1 .. Len(s) - 1 :
              RemoveAt(s, i)[k] = IF k < i THEN s[k] ELSE s[k + 1]
<1> DEFINE a == SubSeq(s, 1, i - 1)
           b == SubSeq(s, i + 1, Len(s))
           n == Len(s)
           f == [k \in 1 .. n - 1 |-> IF k < i THEN s[k] ELSE s[k + 1]]
<1>0. n \in Nat /\ i \in 1 .. n
  OBVIOUS
<1>1. a \in Seq(S) /\ Len(a) = i - 1 /\ \A k \in 1 .. i - 1 : a[k] = s[k]
  <2>1. 1 \in 1 .. Len(s) + 1 /\ i - 1 \in 0 .. Len(s) /\ 1 <= (i - 1) + 1
    BY <1>0
  <2> QED
    BY <1>0, <2>1, SubSeqIs
<1>2. b \in Seq(S) /\ Len(b) = n - i /\ \A k \in 1 .. n - i : b[k] = s[k + i]
  <2>1. i + 1 \in 1 .. Len(s) + 1 /\ Len(s) \in 0 .. Len(s) /\ i + 1 <= Len(s) + 1
    BY <1>0
  <2> QED
    BY <1>0, <2>1, SubSeqIs
<1>3. RemoveAt(s, i) = a \o b
  BY DEF RemoveAt
<1> HIDE DEF a, b, n
<1>4. i - 1 \in Nat /\ n - 1 \in Nat /\ n - i = (n - 1) - (i - 1) /\ i - 1 <= n - 1
  BY <1>0
<1>5. \A k \in 1 .. i - 1 : f[k] = a[k]
  BY <1>0, <1>1
<1>6. ASSUME NEW k \in (i - 1) + 1 .. n - 1 PROVE f[k] = b[k - (i - 1)]
  <2>1. k - (i - 1) \in 1 .. n - i /\ k - (i - 1) + i = k + 1 /\ ~(k < i)
    BY <1>0
  <2> QED
    BY <1>0, <1>2, <2>1
<1>7. f \in [1 .. n - 1 -> S]
  BY <1>0 DEF n
<1> HIDE DEF f
<1>8. a \o b = f
  <2>1. Len(a) = i - 1 /\ Len(a) + Len(b) = n - 1
    BY <1>0, <1>1, <1>2
  <2>2. f \in [1 .. Len(a) + Len(b) -> S]
    BY <2>1, <1>7
  <2>3. \A k \in 1 .. Len(a) : f[k] = a[k]
    BY <2>1, <1>5
  <2>4. \A k \in Len(a) + 1 .. Len(a) + Len(b) : f[k] = b[k - Len(a)]
    BY <2>1, <1>6
  <2>5. a \in Seq(S) /\ b \in Seq(S)
    BY <1>1, <1>2
  <2> QED
    BY <2>2, <2>3, <2>4, <2>5, ConcatIs
<1>9. f \in Seq(S) /\ Len(f) = n - 1
  BY <1>4, <1>7
<1> QED
  BY <1>3, <1>8, <1>9 DEF n, f

\* A sequence with one element more, at i.
LEMMA InsertAtIs ==
  ASSUME NEW S, NEW s \in Seq(S), NEW i \in 1 .. Len(s) + 1, NEW e \in S
  PROVE  /\ InsertAt(s, i, e) \in Seq(S)
         /\ Len(InsertAt(s, i, e)) = Len(s) + 1
         /\ \A k \in 1 .. Len(s) + 1 :
              InsertAt(s, i, e)[k] = IF k < i THEN s[k] ELSE IF k = i THEN e ELSE s[k - 1]
<1> DEFINE a == SubSeq(s, 1, i - 1)
           b == SubSeq(s, i, Len(s))
           d == <<e>>
           m == a \o d
           n == Len(s)
           f == [k \in 1 .. n + 1 |-> IF k < i THEN s[k] ELSE IF k = i THEN e ELSE s[k - 1]]
           g == [k \in 1 .. i |-> IF k < i THEN s[k] ELSE e]
<1>0. n \in Nat /\ i \in 1 .. n + 1
  OBVIOUS
<1>1. a \in Seq(S) /\ Len(a) = i - 1 /\ \A k \in 1 .. i - 1 : a[k] = s[k]
  <2>1. 1 \in 1 .. Len(s) + 1 /\ i - 1 \in 0 .. Len(s) /\ 1 <= (i - 1) + 1
    BY <1>0
  <2> QED
    BY <1>0, <2>1, SubSeqIs
<1>2. b \in Seq(S) /\ Len(b) = n + 1 - i /\ \A k \in 1 .. n + 1 - i : b[k] = s[k + i - 1]
  <2>1. i \in 1 .. Len(s) + 1 /\ Len(s) \in 0 .. Len(s) /\ i <= Len(s) + 1
    BY <1>0
  <2>2. /\ Len(b) = Len(s) + 1 - i
        /\ \A k \in 1 .. Len(s) + 1 - i : b[k] = s[i + k - 1]
        /\ b \in Seq(S)
    BY <2>1, SubSeqIs
  <2> QED
    BY <1>0, <2>2
<1>3. d \in Seq(S) /\ Len(d) = 1 /\ d[1] = e
  OBVIOUS
<1>4. InsertAt(s, i, e) = m \o b
  BY DEF InsertAt
<1>5. g \in [1 .. i -> S] /\ f \in [1 .. n + 1 -> S]
  BY <1>0
<1> HIDE DEF a, b, d, n
<1>6. m = g
  <2>1. i - 1 \in Nat /\ i \in Nat /\ 1 = i - (i - 1) /\ i - 1 <= i
    BY <1>0
  <2>2. \A k \in 1 .. i - 1 : g[k] = a[k]
    BY <1>0, <1>1
  <2>3. \A k \in (i - 1) + 1 .. i : g[k] = d[k - (i - 1)]
    BY <1>0, <1>3
  <2> HIDE DEF g
  <2>4. PICK h \in Nat : h = i - 1
    BY <2>1
  <2>5. Len(a) = h /\ Len(d) = i - h /\ h <= i
    BY <1>1, <1>3, <2>1, <2>4
  <2>6. (\A k \in 1 .. h : g[k] = a[k]) /\ (\A k \in h + 1 .. i : g[k] = d[k - h])
    BY <2>2, <2>3, <2>4
  <2>7. Len(a) + Len(d) = i
    BY <2>4, <2>5
  <2> QED
    BY <1>1, <1>3, <1>5, <2>1, <2>5, <2>6, <2>7, ConcatIs
<1>7. m \in Seq(S) /\ Len(m) = i
  <2>1. m \in Seq(S) /\ Len(m) = Len(a) + Len(d)
    BY <1>1, <1>3, ConcatProperties
  <2> QED
    BY <1>0, <1>1, <1>3, <2>1
<1> HIDE DEF m
<1>8. \A k \in 1 .. i : f[k] = m[k]
  BY <1>0, <1>6
<1>9. ASSUME NEW k \in i + 1 .. n + 1 PROVE f[k] = b[k - i]
  <2>1. k - i \in 1 .. n + 1 - i /\ k - i + i - 1 = k - 1 /\ ~(k < i) /\ k # i
    BY <1>0
  <2>2. f[k] = s[k - 1]
    BY <1>0, <2>1
  <2> QED
    BY <1>2, <2>1, <2>2
<1>10. i \in Nat /\ n + 1 \in Nat /\ n + 1 - i = (n + 1) - i /\ i <= n + 1
  BY <1>0
<1> HIDE DEF f
<1>11. m \o b = f
  <2>1. Len(m) = i /\ Len(m) + Len(b) = n + 1
    BY <1>0, <1>2, <1>7
  <2>2. f \in [1 .. Len(m) + Len(b) -> S]
    BY <2>1, <1>5
  <2>3. \A k \in 1 .. Len(m) : f[k] = m[k]
    BY <2>1, <1>8
  <2>4. \A k \in Len(m) + 1 .. Len(m) + Len(b) : f[k] = b[k - Len(m)]
    BY <2>1, <1>9
  <2>5. m \in Seq(S) /\ b \in Seq(S)
    BY <1>2, <1>7
  <2> QED
    BY <2>2, <2>3, <2>4, <2>5, ConcatIs
<1>12. f \in Seq(S) /\ Len(f) = n + 1
  BY <1>5, <1>10
<1> QED
  BY <1>4, <1>11, <1>12 DEF n, f
===============================================================================
