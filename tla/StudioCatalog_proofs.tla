-------------------------- MODULE StudioCatalog_proofs --------------------------
(***************************************************************************)
(* The pages of a listing, for every folder and every list of plugins.     *)
(*                                                                         *)
(* The plugin keeps nothing between two pages, so all rests on the order   *)
(* of the keys: a page has the entries behind its cursor, and the next     *)
(* cursor is the last of them.                                             *)
(***************************************************************************)
EXTENDS StudioCatalog, OrderLemmas

(***************************************************************************)
(* The order of paths.                                                     *)
(***************************************************************************)

\* The two cases of Before as one: up to n the paths agree, and there the first one
\* is at its end or has the smaller name.
BeforeAt(a, b, n) ==
  /\ n \in 1 .. Len(b) /\ n <= Len(a) + 1
  /\ \A m \in 1 .. n - 1 : a[m] = b[m]
  /\ n = Len(a) + 1 \/ a[n] < b[n]

LEMMA PrefixIs ==
  ASSUME NEW a \in Seq(Nat), NEW b \in Seq(Nat)
  PROVE  IsStrictPrefix(a, b) <=> Len(a) < Len(b) /\ \A m \in 1 .. Len(a) : a[m] = b[m]
<1> DEFINE n == Len(a)
<1>1. n \in Nat /\ Len(b) \in Nat
  OBVIOUS
<1>2. SubSeq(a, 1, n) \in Seq(Nat) /\ Len(SubSeq(a, 1, n)) = n /\ \A k \in 1 .. n : SubSeq(a, 1, n)[k] = a[k]
  <2>1. 1 \in 1 .. Len(a) + 1 /\ n \in 0 .. Len(a) /\ 1 <= n + 1
    BY <1>1
  <2> QED
    BY <2>1, SubSeqIs
<1>3. ASSUME n <= Len(b)
      PROVE  /\ SubSeq(b, 1, n) \in Seq(Nat) /\ Len(SubSeq(b, 1, n)) = n
             /\ \A k \in 1 .. n : SubSeq(b, 1, n)[k] = b[k]
  <2>1. 1 \in 1 .. Len(b) + 1 /\ n \in 0 .. Len(b) /\ 1 <= n + 1
    BY <1>1, <1>3
  <2> QED
    BY <2>1, SubSeqIs
<1>4. ASSUME IsStrictPrefix(a, b) PROVE n < Len(b) /\ \A m \in 1 .. n : a[m] = b[m]
  <2>1. n <= Len(b) /\ SubSeq(a, 1, n) = SubSeq(b, 1, n) /\ a # b
    BY <1>4 DEF IsStrictPrefix, IsPrefix
  <2>2. \A m \in 1 .. n : a[m] = b[m]
    BY <1>2, <1>3, <2>1
  <2>3. n # Len(b)
    BY <2>1, <2>2, SeqEqual
  <2> QED
    BY <1>1, <2>1, <2>2, <2>3
<1>5. ASSUME n < Len(b), \A m \in 1 .. n : a[m] = b[m] PROVE IsStrictPrefix(a, b)
  <2>1. SubSeq(a, 1, n) = SubSeq(b, 1, n)
    BY <1>1, <1>2, <1>3, <1>5, SeqEqual
  <2> QED
    BY <1>1, <1>5, <2>1 DEF IsStrictPrefix, IsPrefix
<1> QED
  BY <1>4, <1>5

LEMMA BeforeIs ==
  ASSUME NEW a \in Seq(Nat), NEW b \in Seq(Nat)
  PROVE  Before(a, b) <=> \E n \in Nat : BeforeAt(a, b, n)
<1>1. Len(a) \in Nat /\ Len(b) \in Nat
  OBVIOUS
<1>2. ASSUME IsStrictPrefix(a, b) PROVE BeforeAt(a, b, Len(a) + 1)
  <2>1. Len(a) < Len(b) /\ \A m \in 1 .. Len(a) : a[m] = b[m]
    BY <1>2, PrefixIs
  <2> QED
    BY <1>1, <2>1 DEF BeforeAt
<1>3. ASSUME NEW n \in 1 .. Len(a) \cap 1 .. Len(b), a[n] < b[n], \A m \in 1 .. n - 1 : a[m] = b[m]
      PROVE  n \in Nat /\ BeforeAt(a, b, n)
  BY <1>1, <1>3 DEF BeforeAt
<1>4. ASSUME NEW n \in Nat, BeforeAt(a, b, n) PROVE Before(a, b)
  <2>1. CASE n = Len(a) + 1
    <3>1. Len(a) < Len(b) /\ \A m \in 1 .. Len(a) : a[m] = b[m]
      BY <1>1, <1>4, <2>1 DEF BeforeAt
    <3> QED
      BY <3>1, PrefixIs DEF Before
  <2>2. CASE n # Len(a) + 1
    <3>1. n \in 1 .. Len(a) \cap 1 .. Len(b)
      BY <1>1, <1>4, <2>2 DEF BeforeAt
    <3> QED
      BY <1>4, <2>2, <3>1 DEF Before, BeforeAt
  <2> QED
    BY <2>1, <2>2
<1> QED
  BY <1>1, <1>2, <1>3, <1>4 DEF Before

LEMMA BeforeIrreflexive ==
  ASSUME NEW a \in Seq(Nat)
  PROVE  ~Before(a, a)
<1> SUFFICES ASSUME NEW n \in Nat, BeforeAt(a, a, n) PROVE FALSE
  BY BeforeIs
<1>1. n \in 1 .. Len(a) /\ a[n] < a[n]
  BY DEF BeforeAt
<1> QED
  BY <1>1

LEMMA BeforeTransitive ==
  ASSUME NEW a \in Seq(Nat), NEW b \in Seq(Nat), NEW c \in Seq(Nat), Before(a, b), Before(b, c)
  PROVE  Before(a, c)
<1>1. PICK n \in Nat : BeforeAt(a, b, n)
  BY BeforeIs
<1>2. PICK m \in Nat : BeforeAt(b, c, m)
  BY BeforeIs
<1>3. \A k \in 1 .. Len(a) : a[k] \in Nat
  OBVIOUS
<1>4. \A k \in 1 .. Len(b) : b[k] \in Nat
  OBVIOUS
<1>5. \A k \in 1 .. Len(c) : c[k] \in Nat
  OBVIOUS
<1>6. Len(a) \in Nat /\ Len(b) \in Nat /\ Len(c) \in Nat
  OBVIOUS
<1>7. CASE n <= m
  <2>1. BeforeAt(a, c, n)
    <3>1. n \in 1 .. Len(c) /\ n <= Len(a) + 1
      BY <1>1, <1>2, <1>6, <1>7 DEF BeforeAt
    <3>2. \A k \in 1 .. n - 1 : a[k] = c[k]
      <4>1. \A k \in 1 .. n - 1 : k \in 1 .. m - 1
        BY <1>7
      <4> QED
        BY <1>1, <1>2, <4>1 DEF BeforeAt
    <3>3. n # Len(a) + 1 => a[n] < c[n]
      <4>1. ASSUME n # Len(a) + 1 PROVE a[n] < b[n] /\ n \in 1 .. Len(a) /\ n \in 1 .. Len(b)
        BY <1>1, <1>6, <4>1 DEF BeforeAt
      <4>2. n \in 1 .. Len(b) => b[n] <= c[n]
        <5>1. CASE n = m
          BY <1>2, <1>4, <1>5, <1>6, <5>1, <3>1 DEF BeforeAt
        <5>2. CASE n < m
          BY <1>1, <1>2, <1>4, <1>6, <5>2, <3>1 DEF BeforeAt
        <5> QED
          BY <1>7, <5>1, <5>2
      <4> QED
        BY <1>3, <1>4, <1>5, <3>1, <4>1, <4>2, SMTT(30)
    <3> QED
      BY <3>1, <3>2, <3>3 DEF BeforeAt
  <2> QED
    BY <2>1, BeforeIs
<1>8. CASE m < n
  <2>1. m \in 1 .. Len(a) /\ m \in 1 .. Len(b) /\ m \in 1 .. n - 1
    BY <1>1, <1>2, <1>6, <1>8, SMTT(30) DEF BeforeAt
  <2>2. a[m] = b[m] /\ b[m] < c[m]
    BY <1>1, <1>2, <1>6, <2>1 DEF BeforeAt
  <2>3. \A k \in 1 .. m - 1 : k \in 1 .. n - 1
    BY <1>8
  <2>4. \A k \in 1 .. m - 1 : a[k] = c[k]
    BY <1>1, <1>2, <2>3 DEF BeforeAt
  <2>5. BeforeAt(a, c, m)
    BY <1>2, <1>6, <2>1, <2>2, <2>4 DEF BeforeAt
  <2> QED
    BY <2>5, BeforeIs
<1> QED
  BY <1>7, <1>8

LEMMA BeforeTotal ==
  ASSUME NEW a \in Seq(Nat), NEW b \in Seq(Nat)
  PROVE  a = b \/ Before(a, b) \/ Before(b, a)
<1> DEFINE Parts == {n \in Nat \ {0} : n = Len(a) + 1 \/ n = Len(b) + 1 \/ a[n] # b[n]}
<1>1. Len(a) \in Nat /\ Len(b) \in Nat
  OBVIOUS
<1>2. Parts \in SUBSET Nat /\ Parts # {}
  <2>1. Len(a) + 1 \in Parts
    BY <1>1
  <2> QED
    BY <2>1
<1>3. PICK n \in Parts : \A m \in Parts : n <= m
  <2> HIDE DEF Parts
  <2> QED
    BY <1>2, LeastNat
<1>4. n <= Len(a) + 1 /\ n <= Len(b) + 1 /\ n \in Nat /\ n >= 1
  <2>1. Len(a) + 1 \in Parts /\ Len(b) + 1 \in Parts
    BY <1>1
  <2> QED
    BY <1>3, <2>1
<1>5. \A k \in 1 .. n - 1 : a[k] = b[k]
  <2>1. \A k \in 1 .. n - 1 : k < n /\ ~(n <= k) /\ k \in Nat \ {0}
    BY <1>4
  <2>2. \A k \in 1 .. n - 1 : k \notin Parts
    <3> HIDE DEF Parts
    <3> QED
      BY <1>3, <2>1
  <2> QED
    BY <2>1, <2>2
<1>6. CASE n = Len(a) + 1 /\ n = Len(b) + 1
  <2>1. Len(a) = Len(b) /\ n - 1 = Len(a)
    BY <1>1, <1>6
  <2>2. \A k \in 1 .. Len(a) : a[k] = b[k]
    BY <1>5, <2>1
  <2> HIDE DEF Parts
  <2>3. a = b
    BY <2>1, <2>2, SeqEqual
  <2> QED
    BY <2>3
<1>7. CASE n = Len(a) + 1 /\ n # Len(b) + 1
  <2>1. BeforeAt(a, b, n)
    BY <1>1, <1>4, <1>5, <1>7 DEF BeforeAt
  <2> QED
    BY <1>4, <2>1, BeforeIs
<1>8. CASE n # Len(a) + 1 /\ n = Len(b) + 1
  <2>1. BeforeAt(b, a, n)
    BY <1>1, <1>4, <1>5, <1>8 DEF BeforeAt
  <2> QED
    BY <1>4, <2>1, BeforeIs
<1>9. CASE n # Len(a) + 1 /\ n # Len(b) + 1
  <2>1. n \in 1 .. Len(a) /\ n \in 1 .. Len(b) /\ a[n] # b[n] /\ a[n] \in Nat /\ b[n] \in Nat
    BY <1>1, <1>3, <1>4, <1>9
  <2>2. BeforeAt(a, b, n) \/ BeforeAt(b, a, n)
    BY <1>1, <1>5, <2>1 DEF BeforeAt
  <2> QED
    BY <1>4, <2>2, BeforeIs
<1> QED
  BY <1>6, <1>7, <1>8, <1>9

-------------------------------------------------------------------------------
(***************************************************************************)
(* Sorted sets.                                                            *)
(***************************************************************************)

\* "before" is a strict order of all of S.
IsOrder(S, before) ==
  /\ before = [x \in S |-> before[x]]
  /\ \A x \in S : before[x] \subseteq S /\ x \notin before[x]
  /\ \A x, y \in S : x \in before[y] => before[x] \subseteq before[y]
  /\ \A x, y \in S : x = y \/ x \in before[y] \/ y \in before[x]

Rising(s, before) == \A j, k \in 1 .. Len(s) : j < k => s[j] \in before[s[k]]

\* The sequence s has the elements of A, each of them once and in its place.
Sorts(s, A, before) ==
  s \in Seq(A) /\ Rising(s, before) /\ \A x \in A : \E k \in 1 .. Len(s) : s[k] = x

\* An element has as many before it as it has places before its own.
LEMMA SortedIs ==
  ASSUME NEW S, IsFiniteSet(S), NEW before, IsOrder(S, before)
  PROVE  Sorts(Sorted(S, before), S, before) /\ Len(Sorted(S, before)) = Cardinality(S)
<1> DEFINE n == Cardinality(S)
           rank == [x \in S |-> Cardinality(before[x]) + 1]
           s == Sorted(S, before)
<1>1. n \in Nat
  BY FS_CardinalityType
<1>2. ASSUME NEW x \in S PROVE IsFiniteSet(before[x]) /\ Cardinality(before[x]) \in Nat /\ rank[x] \in 1 .. n
  <2>1. IsFiniteSet(S \ {x}) /\ Cardinality(S \ {x}) = n - 1
    BY FS_RemoveElement
  <2>2. before[x] \in SUBSET (S \ {x})
    BY DEF IsOrder
  <2>3. IsFiniteSet(before[x]) /\ Cardinality(before[x]) <= n - 1
    BY <2>1, <2>2, FS_Subset
  <2>4. Cardinality(before[x]) \in Nat
    BY <2>3, FS_CardinalityType
  <2> QED
    BY <1>1, <2>3, <2>4
<1>3. ASSUME NEW x \in S, NEW y \in S, x \in before[y] PROVE rank[x] < rank[y]
  <2>1. Cardinality(before[x] \cup {x}) = Cardinality(before[x]) + 1
    <3>1. x \notin before[x]
      BY DEF IsOrder
    <3> QED
      BY <1>2, <3>1, FS_AddElement
  <2>2. before[x] \cup {x} \in SUBSET before[y]
    BY <1>3 DEF IsOrder
  <2>3. Cardinality(before[x] \cup {x}) <= Cardinality(before[y])
    BY <1>2, <2>2, FS_Subset
  <2> QED
    BY <1>2, <2>1, <2>3
<1>4. ASSUME NEW x \in S, NEW y \in S, rank[x] = rank[y] PROVE x = y
  <2>1. ~(rank[x] < rank[y]) /\ ~(rank[y] < rank[x])
    BY <1>2, <1>4
  <2> HIDE DEF rank
  <2>2. x \notin before[y] /\ y \notin before[x]
    BY <1>3, <2>1
  <2> QED
    BY <2>2 DEF IsOrder
<1>5. \A k \in 1 .. n : \E x \in S : rank[x] = k
  <2>1. IsFiniteSet(1 .. n) /\ Cardinality(1 .. n) = n
    <3>1. 1 \in Int /\ n \in Int /\ (1 > n => n = 0)
      BY <1>1
    <3>2. IsFiniteSet(1 .. n) /\ Cardinality(1 .. n) = IF 1 > n THEN 0 ELSE n - 1 + 1
      BY <3>1, FS_Interval
    <3> QED
      BY <1>1, <3>1, <3>2
  <2>2. rank \in [S -> 1 .. n] /\ DOMAIN rank = S
    BY <1>2
  <2> HIDE DEF rank
  <2>3. rank \in Injection(S, 1 .. n)
    BY <1>4, <2>2 DEF Injection, IsInjective
  <2>4. rank \in Surjection(S, 1 .. n)
    BY <2>1, <2>3, FS_Injection
  <2> QED
    BY <2>4 DEF Surjection
<1>6. ASSUME NEW k \in 1 .. n PROVE s[k] \in S /\ rank[s[k]] = k
  <2>1. s[k] = CHOOSE x \in S : Cardinality(before[x]) = k - 1
    BY DEF Sorted
  <2>2. PICK x \in S : rank[x] = k
    BY <1>5
  <2>3. Cardinality(before[x]) = k - 1
    BY <1>2, <2>2
  <2>4. s[k] \in S /\ Cardinality(before[s[k]]) = k - 1
    <3> HIDE DEF s
    <3> QED
      BY <2>1, <2>3
  <2> QED
    BY <2>4
<1>7. s = [k \in 1 .. n |-> s[k]]
  BY DEF Sorted
<1> HIDE DEF s, rank, n
<1>8. s \in Seq(S) /\ Len(s) = n
  <2>1. s \in [1 .. n -> S]
    BY <1>6, <1>7
  <2> QED
    BY <1>1, <2>1
<1>9. ASSUME NEW j \in 1 .. n, NEW k \in 1 .. n, j < k PROVE s[j] \in before[s[k]]
  <2>1. s[j] # s[k] /\ ~(rank[s[k]] < rank[s[j]])
    BY <1>1, <1>6, <1>9
  <2>2. s[k] \notin before[s[j]]
    BY <1>3, <1>6, <2>1
  <2> QED
    BY <1>6, <2>1, <2>2 DEF IsOrder
<1>10. ASSUME NEW x \in S PROVE \E k \in 1 .. n : s[k] = x
  <2>1. rank[x] \in 1 .. n
    BY <1>2
  <2>2. rank[s[rank[x]]] = rank[x] /\ s[rank[x]] \in S
    BY <1>6, <2>1
  <2>3. s[rank[x]] = x
    BY <1>4, <2>2
  <2> QED
    BY <2>1, <2>3
<1> QED
  BY <1>8, <1>9, <1>10 DEF s, n, Sorts, Rising

LEMMA SortsIn ==
  ASSUME NEW S, NEW A \in SUBSET S, NEW before, NEW s, Sorts(s, A, before)
  PROVE  s \in Seq(S) /\ Len(s) \in Nat /\ \A k \in 1 .. Len(s) : s[k] \in A /\ s[k] \in S
<1>1. Len(s) \in Nat /\ s = [k \in 1 .. Len(s) |-> s[k]] /\ \A k \in 1 .. Len(s) : s[k] \in A
  BY DEF Sorts
<1>2. s \in [1 .. Len(s) -> S]
  BY <1>1
<1> QED
  BY <1>1, <1>2

\* There is one way to sort.
LEMMA SortsUnique ==
  ASSUME NEW S, NEW before, IsOrder(S, before), NEW A \in SUBSET S,
         NEW s, Sorts(s, A, before), NEW t, Sorts(t, A, before)
  PROVE  s = t
<1>a. s \in Seq(S) /\ t \in Seq(S) /\ Rising(s, before) /\ Rising(t, before)
  <2>1. s \in Seq(S) /\ t \in Seq(S)
    BY SortsIn
  <2> QED
    BY <2>1 DEF Sorts
<1>b. (\A j \in 1 .. Len(s) : s[j] \in A) /\ (\A j \in 1 .. Len(t) : t[j] \in A)
  <2>1. \A j \in 1 .. Len(s) : s[j] \in A
    BY SortsIn
  <2>2. \A j \in 1 .. Len(t) : t[j] \in A
    BY SortsIn
  <2> QED
    BY <2>1, <2>2
<1>c. \A j \in 1 .. Len(s) : \E k \in 1 .. Len(t) : t[k] = s[j]
  BY <1>b DEF Sorts
<1>d. \A j \in 1 .. Len(t) : \E k \in 1 .. Len(s) : s[k] = t[j]
  BY <1>b DEF Sorts
<1> DEFINE Parts == {n \in Nat \ {0} : n > Len(s) \/ n > Len(t) \/ s[n] # t[n]}
<1>1. Len(s) \in Nat /\ Len(t) \in Nat
  BY <1>a
<1>2. Parts \in SUBSET Nat /\ Parts # {}
  <2>1. Len(s) + 1 \in Parts
    BY <1>1
  <2> QED
    BY <2>1
<1>3. PICK n \in Parts : \A m \in Parts : n <= m
  <2> HIDE DEF Parts
  <2> QED
    BY <1>2, LeastNat
<1>4. n \in Nat \ {0} /\ (n > Len(s) \/ n > Len(t) \/ s[n] # t[n])
  OBVIOUS
<1>5. \A k \in 1 .. n - 1 : k <= Len(s) /\ k <= Len(t) /\ s[k] = t[k]
  <2>1. \A k \in 1 .. n - 1 : ~(n <= k) /\ k \in Nat \ {0}
    BY <1>4
  <2>2. \A k \in 1 .. n - 1 : k \notin Parts
    <3> HIDE DEF Parts
    <3> QED
      BY <1>3, <2>1
  <2> QED
    BY <1>1, <2>1, <2>2
<1> HIDE DEF Parts
<1>6. ASSUME NEW k \in 1 .. Len(s) PROVE s[k] \in S /\ s[k] \notin before[s[k]]
  BY <1>a DEF IsOrder
<1>7. ASSUME NEW k \in 1 .. Len(t) PROVE t[k] \in S /\ t[k] \notin before[t[k]]
  BY <1>a DEF IsOrder
<1>8. ASSUME n <= Len(s) PROVE n <= Len(t) /\ (s[n] = t[n] \/ t[n] \in before[s[n]])
  <2>1. PICK k \in 1 .. Len(t) : t[k] = s[n]
    BY <1>1, <1>4, <1>8, <1>c
  <2>2. ASSUME k < n PROVE FALSE
    <3>1. k \in 1 .. Len(s) /\ n \in 1 .. Len(s) /\ s[k] = t[k]
      BY <1>1, <1>4, <1>5, <1>8, <2>2
    <3>2. s[k] \in before[s[n]]
      BY <1>a, <2>2, <3>1 DEF Rising
    <3> QED
      BY <1>6, <2>1, <3>1, <3>2
  <2>3. n <= Len(t) /\ n \in 1 .. Len(t) /\ (n = k \/ n < k)
    BY <1>1, <1>4, <2>1, <2>2
  <2> QED
    BY <1>a, <2>1, <2>3 DEF Rising
<1>9. ASSUME n <= Len(t) PROVE n <= Len(s) /\ (s[n] = t[n] \/ s[n] \in before[t[n]])
  <2>1. PICK k \in 1 .. Len(s) : s[k] = t[n]
    BY <1>1, <1>4, <1>9, <1>d
  <2>2. ASSUME k < n PROVE FALSE
    <3>1. k \in 1 .. Len(t) /\ n \in 1 .. Len(t) /\ s[k] = t[k]
      BY <1>1, <1>4, <1>5, <1>9, <2>2
    <3>2. t[k] \in before[t[n]]
      BY <1>a, <2>2, <3>1 DEF Rising
    <3> QED
      BY <1>7, <2>1, <3>1, <3>2
  <2>3. n <= Len(s) /\ n \in 1 .. Len(s) /\ (n = k \/ n < k)
    BY <1>1, <1>4, <2>1, <2>2
  <2> QED
    BY <1>a, <2>1, <2>3 DEF Rising
<1>10. n > Len(s) /\ n > Len(t)
  <2> SUFFICES ASSUME n <= Len(s), n <= Len(t) PROVE FALSE
    BY <1>1, <1>4, <1>8, <1>9
  <2>1. n \in 1 .. Len(s) /\ n \in 1 .. Len(t) /\ s[n] # t[n]
    BY <1>1, <1>4
  <2>2. t[n] \in before[s[n]] /\ s[n] \in before[t[n]]
    BY <1>8, <1>9, <2>1
  <2> QED
    BY <1>6, <1>7, <2>1, <2>2 DEF IsOrder
<1>11. Len(s) = Len(t) /\ \A k \in 1 .. Len(s) : s[k] = t[k]
  <2>1. n - 1 = Len(s) \/ n - 1 < Len(s) \/ n - 1 > Len(s)
    BY <1>1, <1>4
  <2>2. n >= 2 => n - 1 \in 1 .. n - 1
    BY <1>4
  <2>3. n - 1 <= Len(s) /\ n - 1 <= Len(t)
    BY <1>1, <1>4, <1>5, <2>2
  <2>4. Len(s) = n - 1 /\ Len(t) = n - 1
    BY <1>1, <1>4, <1>10, <2>3
  <2> QED
    BY <1>5, <2>4
<1> QED
  BY <1>a, <1>11, SeqEqual

After(S, before, e) == {x \in S : e \in before[x]}

\* What lies behind an element is the rest of the sequence.
LEMMA RestIs ==
  ASSUME NEW S, NEW before, IsOrder(S, before), NEW s, Sorts(s, S, before),
         NEW j \in 1 .. Len(s), NEW t, Sorts(t, After(S, before, s[j]), before)
  PROVE  t = SubSeq(s, j + 1, Len(s))
<1> DEFINE B == After(S, before, s[j])
           r == SubSeq(s, j + 1, Len(s))
           n == Len(s)
<1>a. /\ s \in Seq(S) /\ Rising(s, before)
      /\ \A k \in 1 .. Len(s) : s[k] \in S
  <2>1. s \in Seq(S) /\ \A k \in 1 .. Len(s) : s[k] \in S
    BY DEF Sorts
  <2> QED
    BY <2>1 DEF Sorts
<1>1. n \in Nat /\ Len(t) \in Nat /\ j \in 1 .. n
  BY DEF Sorts
<1>2. r \in Seq(S) /\ Len(r) = n - j /\ \A k \in 1 .. n - j : r[k] = s[j + k]
  <2>1. j + 1 \in 1 .. Len(s) + 1 /\ n \in 0 .. Len(s) /\ j + 1 <= n + 1
    BY <1>1
  <2>2. r \in Seq(S) /\ Len(r) = n + 1 - (j + 1) /\ \A k \in 1 .. n + 1 - (j + 1) : r[k] = s[j + 1 + k - 1]
    BY <1>a, <2>1, SubSeqIs
  <2> HIDE DEF r, n, B
  <2>3. n + 1 - (j + 1) = n - j /\ \A k \in 1 .. n - j : j + 1 + k - 1 = j + k
    BY <1>1
  <2> QED
    BY <2>2, <2>3
<1>b. B \in SUBSET S /\ Sorts(t, B, before) /\ \A x \in S : x \in B <=> s[j] \in before[x]
  BY DEF After
<1> HIDE DEF r, B
<1>3. Rising(r, before)
  <2> HIDE DEF n
  <2>1. ASSUME NEW k \in 1 .. n - j, NEW m \in 1 .. n - j, k < m PROVE s[j + k] \in before[s[j + m]]
    <3>1. j + k \in 1 .. n /\ j + m \in 1 .. n /\ j + k < j + m
      BY <1>1, <2>1
    <3> QED
      BY <1>a, <3>1 DEF Rising, n
  <2> QED
    BY <1>2, <2>1 DEF Rising
<1>4. \A k \in 1 .. Len(r) : r[k] \in B
  <2> SUFFICES ASSUME NEW k \in 1 .. n - j PROVE s[j + k] \in B
    BY <1>2
  <2>1. j + k \in 1 .. n /\ j < j + k
    BY <1>1
  <2>2. s[j] \in before[s[j + k]] /\ s[j + k] \in S
    BY <1>1, <1>a, <2>1 DEF Rising
  <2> QED
    BY <1>b, <2>2
<1>5. ASSUME NEW x \in B PROVE \E m \in 1 .. Len(r) : r[m] = x
  <2>1. x \in S /\ s[j] \in before[x]
    BY <1>b
  <2>2. PICK m \in 1 .. n : s[m] = x
    BY <2>1 DEF Sorts
  <2>3. ASSUME m <= j PROVE FALSE
    <3>1. s[m] = s[j] \/ s[m] \in before[s[j]]
      BY <1>1, <1>a, <2>3 DEF Rising
    <3>2. s[j] \in S
      BY <1>1, <1>a
    <3>3. x \notin before[x] /\ s[j] \notin before[s[j]]
      BY <2>1, <3>2 DEF IsOrder
    <3>4. before[s[j]] \subseteq before[x]
      BY <2>1, <3>2 DEF IsOrder
    <3> QED
      BY <2>1, <2>2, <3>1, <3>3, <3>4
  <2>4. m - j \in 1 .. n - j /\ j + (m - j) = m
    BY <1>1, <2>3
  <2> HIDE DEF n
  <2>5. r[m - j] = x /\ m - j \in 1 .. Len(r)
    BY <1>2, <2>2, <2>4
  <2> QED
    BY <2>5
<1>6. Sorts(r, B, before)
  <2>1. r = [k \in 1 .. Len(r) |-> r[k]] /\ Len(r) \in Nat
    BY <1>2
  <2>2. r \in [1 .. Len(r) -> B]
    BY <1>4, <2>1
  <2>3. r \in Seq(B)
    BY <2>1, <2>2
  <2> QED
    BY <1>3, <1>5, <2>3 DEF Sorts
<1>7. r = t
  BY <1>6, <1>b, SortsUnique
<1> QED
  BY <1>7 DEF n, r

-------------------------------------------------------------------------------
(***************************************************************************)
(* Totals.                                                                 *)
(***************************************************************************)

IsSum(f, s) ==
  /\ f = [n \in 0 .. Len(s) |-> f[n]]
  /\ f[0] = 0
  /\ \A n \in 1 .. Len(s) : f[n] = f[n - 1] + s[n]

LEMMA SumExists ==
  ASSUME NEW s \in Seq(Nat)
  PROVE  \E f : IsSum(f, s)
<1> DEFINE SumTo(f, m) == /\ f = [n \in 0 .. m |-> f[n]] /\ f[0] = 0
                          /\ \A n \in 1 .. m : f[n] = f[n - 1] + s[n]
           Able == {m \in 0 .. Len(s) : \E f : SumTo(f, m)}
<1>0. Len(s) \in Nat
  OBVIOUS
<1>1. 0 \in Able
  <2> DEFINE f == [n \in 0 .. 0 |-> 0]
  <2>1. SumTo(f, 0)
    OBVIOUS
  <2> HIDE DEF f, SumTo
  <2> QED
    BY <2>1
<1>2. ASSUME NEW m \in 1 .. Len(s), m - 1 \in Able PROVE m \in Able
  <2>1. PICK g : SumTo(g, m - 1)
    BY <1>2
  <2> DEFINE f == [n \in 0 .. m |-> IF n = m THEN g[m - 1] + s[m] ELSE g[n]]
  <2>2. f = [n \in 0 .. m |-> f[n]] /\ f[0] = 0
    BY <2>1
  <2>3. ASSUME NEW n \in 1 .. m PROVE f[n] = f[n - 1] + s[n]
    <3>1. CASE n = m
      <4>1. f[n] = g[m - 1] + s[m] /\ f[n - 1] = g[m - 1]
        BY <3>1
      <4> QED
        BY <3>1, <4>1
    <3>2. CASE n # m
      <4>1. n \in 1 .. m - 1 /\ f[n] = g[n] /\ f[n - 1] = g[n - 1]
        BY <3>2
      <4> QED
        BY <2>1, <4>1
    <3> QED
      BY <3>1, <3>2
  <2> HIDE DEF f
  <2>4. SumTo(f, m)
    BY <2>2, <2>3
  <2> HIDE DEF SumTo
  <2> QED
    BY <2>4
<1>3. Len(s) \in Able
  <2>1. \A m \in 0 .. Len(s) : m \in Able
    <3> HIDE DEF Able
    <3> QED
      BY <1>0, <1>1, <1>2, UpTo
  <2>2. Len(s) \in 0 .. Len(s)
    OBVIOUS
  <2> QED
    BY <2>1, <2>2
<1>4. PICK f : SumTo(f, Len(s))
  BY <1>3
<1> QED
  BY <1>4 DEF IsSum

LEMMA SumNat ==
  ASSUME NEW s \in Seq(Nat), NEW f, IsSum(f, s)
  PROVE  \A n \in 0 .. Len(s) : f[n] \in Nat
<1> DEFINE Able == {m \in 0 .. Len(s) : f[m] \in Nat}
<1>0. Len(s) \in Nat
  OBVIOUS
<1>1. 0 \in Able
  BY DEF IsSum
<1>2. ASSUME NEW m \in 1 .. Len(s), m - 1 \in Able PROVE m \in Able
  <2>1. f[m] = f[m - 1] + s[m] /\ s[m] \in Nat /\ f[m - 1] \in Nat
    BY <1>2 DEF IsSum
  <2> QED
    BY <2>1
<1>3. \A m \in 0 .. Len(s) : m \in Able
  <2> HIDE DEF Able
  <2> QED
    BY <1>0, <1>1, <1>2, UpTo
<1> QED
  BY <1>3

LEMMA TotalIs ==
  ASSUME NEW s \in Seq(Nat)
  PROVE  \E f : IsSum(f, s) /\ Total(s) = f[Len(s)]
<1> DEFINE n == Len(s)
           Body(f) == [k \in 0 .. n |-> IF k = 0 THEN 0 ELSE f[k - 1] + s[k]]
           upTo == CHOOSE f : f = Body(f)
<1>1. n \in Nat
  OBVIOUS
<1>2. Total(s) = upTo[n]
  BY DEF Total
<1> HIDE DEF n
<1>3. PICK f : IsSum(f, s)
  BY SumExists
<1>4. f = Body(f)
  <2>1. ASSUME NEW k \in 0 .. n PROVE f[k] = IF k = 0 THEN 0 ELSE f[k - 1] + s[k]
    <3>1. k # 0 => k \in 1 .. n
      BY <1>1
    <3> QED
      BY <1>3, <3>1 DEF IsSum, n
  <2>2. f = [k \in 0 .. n |-> f[k]]
    BY <1>3 DEF IsSum, n
  <2> QED
    BY <2>1, <2>2
<1>5. upTo = Body(upTo)
  <2> HIDE DEF Body
  <2> QED
    BY <1>4
<1> HIDE DEF upTo
<1>6. IsSum(upTo, s)
  <2>1. upTo = [k \in 0 .. n |-> upTo[k]]
    BY <1>5
  <2>2. upTo[0] = 0
    <3>1. 0 \in 0 .. n
      BY <1>1
    <3> QED
      BY <1>5, <3>1
  <2>3. ASSUME NEW k \in 1 .. n PROVE upTo[k] = upTo[k - 1] + s[k]
    <3>1. k \in 0 .. n /\ k # 0
      BY <1>1
    <3>2. Body(upTo)[k] = upTo[k - 1] + s[k]
      BY <3>1
    <3> QED
      BY <1>5, <3>2
  <2> QED
    BY <2>1, <2>2, <2>3 DEF IsSum, n
<1> QED
  BY <1>2, <1>6 DEF n

LEMMA TotalNat ==
  ASSUME NEW s \in Seq(Nat)
  PROVE  Total(s) \in Nat
<1>1. PICK f : IsSum(f, s) /\ Total(s) = f[Len(s)]
  BY TotalIs
<1>2. Len(s) \in 0 .. Len(s)
  OBVIOUS
<1> QED
  BY <1>1, <1>2, SumNat

\* The total of a sequence is that of its first part and that of the rest.
LEMMA TotalSplits ==
  ASSUME NEW s \in Seq(Nat), NEW a \in Seq(Nat), NEW b \in Seq(Nat), Len(s) = Len(a) + Len(b),
         \A k \in 1 .. Len(a) : s[k] = a[k],
         \A k \in 1 .. Len(b) : s[Len(a) + k] = b[k]
  PROVE  Total(s) = Total(a) + Total(b)
<1>1. PICK f : IsSum(f, s) /\ Total(s) = f[Len(s)]
  BY TotalIs
<1>2. PICK g : IsSum(g, a) /\ Total(a) = g[Len(a)]
  BY TotalIs
<1>3. PICK h : IsSum(h, b) /\ Total(b) = h[Len(b)]
  BY TotalIs
<1>4. PICK m \in Nat, n \in Nat : m = Len(a) /\ n = Len(b)
  OBVIOUS
<1>5. (\A k \in 0 .. m : g[k] \in Nat) /\ (\A k \in 0 .. n : h[k] \in Nat)
  BY <1>2, <1>3, <1>4, SumNat
<1>6. (\A k \in 1 .. m : a[k] \in Nat) /\ (\A k \in 1 .. n : b[k] \in Nat)
  BY <1>4, SMTT(30)
<1>7. \A k \in 0 .. m : f[k] = g[k]
  <2> DEFINE Able == {k \in 0 .. m : f[k] = g[k]}
  <2>1. 0 \in Able
    BY <1>1, <1>2 DEF IsSum
  <2>2. ASSUME NEW k \in 1 .. m, k - 1 \in Able PROVE k \in Able
    <3>1. k \in 1 .. Len(s) /\ s[k] = a[k]
      BY <1>4
    <3>2. f[k] = f[k - 1] + s[k] /\ g[k] = g[k - 1] + a[k]
      BY <1>1, <1>2, <1>4, <3>1 DEF IsSum
    <3> QED
      BY <2>2, <3>1, <3>2
  <2>3. \A k \in 0 .. m : k \in Able
    <3> HIDE DEF Able
    <3> QED
      BY <2>1, <2>2, UpTo
  <2> QED
    BY <2>3
<1>8. \A k \in 0 .. n : f[m + k] = g[m] + h[k]
  <2> DEFINE Able == {k \in 0 .. n : f[m + k] = g[m] + h[k]}
  <2>1. 0 \in Able
    <3>1. f[m] = g[m] /\ h[0] = 0 /\ g[m] \in Nat /\ m + 0 = m
      BY <1>3, <1>5, <1>7 DEF IsSum
    <3> QED
      BY <3>1
  <2>2. ASSUME NEW k \in 1 .. n, k - 1 \in Able PROVE k \in Able
    <3>1. m + k \in 1 .. Len(s) /\ s[m + k] = b[k] /\ m + k - 1 = m + (k - 1)
      BY <1>4
    <3>2. f[m + k] = f[m + (k - 1)] + b[k]
      <4>1. \A x \in 1 .. Len(s) : f[x] = f[x - 1] + s[x]
        BY <1>1 DEF IsSum
      <4>2. PICK x \in 1 .. Len(s) : x = m + k
        BY <3>1
      <4>3. f[x] = f[x - 1] + s[x] /\ s[x] = b[k] /\ x - 1 = m + (k - 1)
        BY <3>1, <4>1, <4>2
      <4> QED
        BY <4>2, <4>3
    <3>5. h[k] = h[k - 1] + b[k]
      BY <1>3, <1>4 DEF IsSum
    <3>3. f[m + (k - 1)] = g[m] + h[k - 1] /\ k - 1 \in 0 .. n
      BY <2>2
    <3>4. g[m] \in Nat /\ h[k - 1] \in Nat /\ b[k] \in Nat
      BY <1>5, <1>6, <3>3
    <3>6. g[m] + h[k - 1] + b[k] = g[m] + (h[k - 1] + b[k])
      BY <3>4, SMTT(30)
    <3> QED
      BY <3>2, <3>3, <3>5, <3>6
  <2>3. \A k \in 0 .. n : k \in Able
    <3> HIDE DEF Able
    <3> QED
      BY <2>1, <2>2, UpTo
  <2> QED
    BY <2>3
<1>9. f[m + n] = g[m] + h[n] /\ Len(s) = m + n
  BY <1>4, <1>8
<1> QED
  BY <1>1, <1>2, <1>3, <1>4, <1>9

-------------------------------------------------------------------------------
(***************************************************************************)
(* Pages.                                                                  *)
(***************************************************************************)

FoundSet ==
  [key : Seq(Nat), entry : BOOLEAN, visited : Nat, reason : Reasons, skipped : Nat]

\* A walk finds entries, each of them once and in their order, and other things.
IsWalk(found) ==
  /\ found \in Seq(FoundSet)
  /\ \A i \in 1 .. Len(found) : found[i].entry => found[i].key \in Seq(Names) \ {Top}
  /\ \A i, j \in 1 .. Len(found) :
       i < j /\ found[i].entry /\ found[j].entry => Before(found[i].key, found[j].key)

Increasing(keys) == \A j, k \in 1 .. Len(keys) : j < k => Before(keys[j], keys[k])

LEMMA NamesAreNat == Seq(Names) \subseteq Seq(Nat)
<1> SUFFICES ASSUME NEW s \in Seq(Names) PROVE s \in Seq(Nat)
  OBVIOUS
<1>1. Names \subseteq Nat
  BY StudioPagesAssumption
<1>2. Len(s) \in Nat /\ s = [k \in 1 .. Len(s) |-> s[k]] /\ \A k \in 1 .. Len(s) : s[k] \in Names
  OBVIOUS
<1>3. s \in [1 .. Len(s) -> Nat]
  BY <1>1, <1>2
<1> QED
  BY <1>2, <1>3

LEMMA EntryOrderIs ==
  ASSUME NEW found \in Seq(FoundSet)
  PROVE  LET indexes == EntryIndexes(found)
             order   == EntryOrder(found)
         IN  /\ IsFiniteSet(indexes) /\ indexes \subseteq 1 .. Len(found)
             /\ order \in Seq(indexes) /\ Len(order) = Cardinality(indexes)
             /\ \A j, k \in 1 .. Len(order) : j < k => order[j] < order[k]
             /\ \A i \in indexes : \E k \in 1 .. Len(order) : order[k] = i
<1> DEFINE indexes == EntryIndexes(found)
           before  == [i \in indexes |-> indexes \cap 1 .. i - 1]
<1>1. indexes \subseteq 1 .. Len(found) /\ Len(found) \in Nat
  BY DEF EntryIndexes
<1>2. IsFiniteSet(indexes)
  <2>1. IsFiniteSet(1 .. Len(found))
    BY <1>1, FS_Interval
  <2> QED
    BY <1>1, <2>1, FS_Subset
<1>3. EntryOrder(found) = Sorted(indexes, before)
  BY DEF EntryOrder
<1> HIDE DEF indexes
<1>4. indexes \subseteq Nat \ {0}
  BY <1>1
<1>5. ASSUME NEW i \in indexes PROVE before[i] = {j \in indexes : j < i}
  <2>1. before[i] = indexes \cap 1 .. i - 1
    OBVIOUS
  <2>2. \A j \in indexes : j \in 1 .. i - 1 <=> j < i
    BY <1>4
  <2> QED
    BY <2>1, <2>2
<1>6. before = [i \in indexes |-> before[i]]
  OBVIOUS
<1> HIDE DEF before
<1>7. IsOrder(indexes, before)
  <2>1. \A i \in indexes : before[i] \subseteq indexes /\ i \notin before[i]
    BY <1>4, <1>5
  <2>2. ASSUME NEW i \in indexes, NEW j \in indexes, i \in before[j] PROVE before[i] \subseteq before[j]
    <3>1. i < j /\ before[i] = {k \in indexes : k < i} /\ before[j] = {k \in indexes : k < j}
      BY <1>5, <2>2
    <3>2. \A k \in indexes : k < i => k < j
      BY <1>4, <3>1
    <3> QED
      BY <3>1, <3>2
  <2>3. \A i, j \in indexes : i = j \/ i \in before[j] \/ j \in before[i]
    BY <1>4, <1>5
  <2> QED
    BY <1>6, <2>1, <2>2, <2>3 DEF IsOrder
<1>8. Sorts(EntryOrder(found), indexes, before) /\ Len(EntryOrder(found)) = Cardinality(indexes)
  BY <1>2, <1>3, <1>7, SortedIs
<1>9. \A j, k \in 1 .. Len(EntryOrder(found)) : j < k => EntryOrder(found)[j] < EntryOrder(found)[k]
  <2>1. \A k \in 1 .. Len(EntryOrder(found)) : EntryOrder(found)[k] \in indexes
    BY <1>8 DEF Sorts
  <2> QED
    BY <1>5, <1>8, <2>1 DEF Sorts, Rising
<1> QED
  BY <1>1, <1>2, <1>8, <1>9 DEF indexes, Sorts

\* The keys of the entries, in their order.
LEMMA EntriesAre ==
  ASSUME NEW found, IsWalk(found)
  PROVE  /\ Entries(found) \in Seq(Seq(Names))
         /\ Len(Entries(found)) = Cardinality(EntryIndexes(found))
         /\ Increasing(Entries(found))
         /\ \A i \in EntryIndexes(found) : \E k \in 1 .. Len(Entries(found)) : Entries(found)[k] = found[i].key
         /\ \A k \in 1 .. Len(Entries(found)) : \E i \in EntryIndexes(found) : Entries(found)[k] = found[i].key
<1> DEFINE indexes == EntryIndexes(found)
           order   == EntryOrder(found)
           keys    == Entries(found)
<1>1. found \in Seq(FoundSet)
  BY DEF IsWalk
<1>2. /\ IsFiniteSet(indexes) /\ indexes \subseteq 1 .. Len(found)
      /\ order \in Seq(indexes) /\ Len(order) = Cardinality(indexes)
      /\ \A j, k \in 1 .. Len(order) : j < k => order[j] < order[k]
      /\ \A i \in indexes : \E k \in 1 .. Len(order) : order[k] = i
  BY <1>1, EntryOrderIs
<1>3. \A i \in indexes : found[i].entry /\ i \in 1 .. Len(found) /\ found[i].key \in Seq(Names)
  <2>1. \A i \in indexes : found[i].entry
    BY DEF EntryIndexes
  <2> QED
    BY <1>2, <2>1 DEF IsWalk
<1>4. keys = [n \in 1 .. Len(order) |-> found[order[n]].key]
  BY <1>2 DEF Entries
<1> HIDE DEF indexes, order, keys
<1>5. \A n \in 1 .. Len(order) : order[n] \in indexes /\ keys[n] = found[order[n]].key
  BY <1>2, <1>4
<1>6. keys \in Seq(Seq(Names)) /\ Len(keys) = Len(order)
  <2>1. Len(order) \in Nat
    BY <1>2
  <2>2. \A n \in 1 .. Len(order) : keys[n] \in Seq(Names)
    BY <1>3, <1>5
  <2>3. keys = [n \in 1 .. Len(order) |-> keys[n]]
    BY <1>4
  <2>4. keys \in [1 .. Len(order) -> Seq(Names)]
    BY <2>2, <2>3
  <2> QED
    BY <2>1, <2>4
<1>7. Increasing(keys)
  <2> SUFFICES ASSUME NEW j \in 1 .. Len(order), NEW k \in 1 .. Len(order), j < k
               PROVE  Before(keys[j], keys[k])
    BY <1>6 DEF Increasing
  <2>1. order[j] < order[k]
    BY <1>2
  <2>2. order[j] \in 1 .. Len(found) /\ order[k] \in 1 .. Len(found) /\ found[order[j]].entry /\ found[order[k]].entry
    BY <1>3, <1>5
  <2>3. Before(found[order[j]].key, found[order[k]].key)
    BY <2>1, <2>2 DEF IsWalk
  <2> QED
    BY <1>5, <2>3
<1>8. ASSUME NEW i \in indexes PROVE \E k \in 1 .. Len(keys) : keys[k] = found[i].key
  <2>1. PICK k \in 1 .. Len(order) : order[k] = i
    BY <1>2
  <2>2. k \in 1 .. Len(keys) /\ keys[k] = found[i].key
    BY <1>5, <1>6, <2>1
  <2> QED
    BY <2>2
<1>9. \A k \in 1 .. Len(keys) : \E i \in indexes : keys[k] = found[i].key
  BY <1>5, <1>6
<1> QED
  BY <1>2, <1>6, <1>7, <1>8, <1>9 DEF indexes, order, keys

LEMMA PartIs ==
  ASSUME NEW found \in Seq(FoundSet), NEW n \in 0 .. Len(found)
  PROVE  /\ SubSeq(found, 1, n) \in Seq(FoundSet) /\ Len(SubSeq(found, 1, n)) = n
         /\ \A k \in 1 .. n : SubSeq(found, 1, n)[k] = found[k]
         /\ SubSeq(found, n + 1, Len(found)) \in Seq(FoundSet)
         /\ Len(SubSeq(found, n + 1, Len(found))) = Len(found) - n
         /\ \A k \in 1 .. Len(found) - n : SubSeq(found, n + 1, Len(found))[k] = found[n + k]
<1>1. Len(found) \in Nat
  OBVIOUS
<1>2. 1 \in 1 .. Len(found) + 1 /\ n \in 0 .. Len(found) /\ 1 <= n + 1 /\ n + 1 - 1 = n
  BY <1>1
<1>3. /\ SubSeq(found, 1, n) \in Seq(FoundSet) /\ Len(SubSeq(found, 1, n)) = n + 1 - 1
      /\ \A k \in 1 .. n + 1 - 1 : SubSeq(found, 1, n)[k] = found[1 + k - 1]
  BY <1>2, SubSeqIs
<1>4. n + 1 \in 1 .. Len(found) + 1 /\ Len(found) \in 0 .. Len(found) /\ n + 1 <= Len(found) + 1
  BY <1>1
<1>5. /\ SubSeq(found, n + 1, Len(found)) \in Seq(FoundSet)
      /\ Len(SubSeq(found, n + 1, Len(found))) = Len(found) + 1 - (n + 1)
      /\ \A k \in 1 .. Len(found) + 1 - (n + 1) : SubSeq(found, n + 1, Len(found))[k] = found[n + 1 + k - 1]
  BY <1>4, SubSeqIs
<1>6. Len(found) + 1 - (n + 1) = Len(found) - n /\ \A k \in Nat : n + 1 + k - 1 = n + k /\ 1 + k - 1 = k
  BY <1>1
<1>7. \A k \in 1 .. n : SubSeq(found, 1, n)[k] = found[k]
  BY <1>2, <1>3, <1>6
<1>8. \A k \in 1 .. Len(found) - n : SubSeq(found, n + 1, Len(found))[k] = found[n + k]
  BY <1>5, <1>6
<1> QED
  BY <1>2, <1>3, <1>5, <1>6, <1>7, <1>8

LEMMA FieldsOf ==
  ASSUME NEW f \in FoundSet
  PROVE  /\ f.key \in Seq(Nat) /\ f.entry \in BOOLEAN /\ f.visited \in Nat /\ f.reason \in Reasons
         /\ f.skipped \in Nat
BY DEF FoundSet

\* What is counted of a walk.
LEMMA CountsAre ==
  ASSUME NEW found \in Seq(FoundSet)
  PROVE  /\ Visits(found) \in Nat
         /\ Skips(found) \in [Reasons -> Nat]
<1> DEFINE visits   == [i \in 1 .. Len(found) |-> found[i].visited]
           skips(r) == [i \in 1 .. Len(found) |-> IF found[i].reason = r THEN found[i].skipped ELSE 0]
<1>1. Len(found) \in Nat /\ DOMAIN found = 1 .. Len(found)
  OBVIOUS
<1>2. \A i \in 1 .. Len(found) : found[i].visited \in Nat /\ found[i].skipped \in Nat
  BY FieldsOf
<1>3. Visits(found) \in Nat
  <2>1. visits \in Seq(Nat)
    BY <1>1, <1>2
  <2>2. Visits(found) = Total(visits)
    BY <1>1 DEF Visits
  <2> QED
    BY <2>1, <2>2, TotalNat
<1>4. ASSUME NEW r \in Reasons PROVE Total(skips(r)) \in Nat
  <2>1. skips(r) \in Seq(Nat)
    BY <1>1, <1>2
  <2> QED
    BY <2>1, TotalNat
<1>5. Skips(found) = [r \in Reasons |-> Total(skips(r))]
  BY <1>1 DEF Skips
<1> HIDE DEF skips
<1> QED
  BY <1>3, <1>4, <1>5

\* "Ori can sum the counts": those of a walk's first part and of the rest are its own.
LEMMA CountsSplit ==
  ASSUME NEW found \in Seq(FoundSet), NEW a \in Seq(FoundSet), NEW b \in Seq(FoundSet),
         Len(found) = Len(a) + Len(b),
         \A k \in 1 .. Len(a) : found[k] = a[k],
         \A k \in 1 .. Len(b) : found[Len(a) + k] = b[k]
  PROVE  /\ Visits(found) = Visits(a) + Visits(b)
         /\ \A r \in Reasons : Skips(found)[r] = Skips(a)[r] + Skips(b)[r]
<1> DEFINE visits(w)   == [i \in 1 .. Len(w) |-> w[i].visited]
           skips(w, r) == [i \in 1 .. Len(w) |-> IF w[i].reason = r THEN w[i].skipped ELSE 0]
<1>1. PICK l \in Nat, m \in Nat, n \in Nat : l = Len(found) /\ m = Len(a) /\ n = Len(b)
  OBVIOUS
<1>2. ASSUME NEW w \in Seq(FoundSet)
      PROVE  /\ visits(w) \in Seq(Nat) /\ Len(visits(w)) = Len(w) /\ Visits(w) = Total(visits(w))
             /\ \A r \in Reasons :
                  skips(w, r) \in Seq(Nat) /\ Len(skips(w, r)) = Len(w) /\ Skips(w)[r] = Total(skips(w, r))
  <2>1. Len(w) \in Nat /\ DOMAIN w = 1 .. Len(w)
    OBVIOUS
  <2>2. \A i \in 1 .. Len(w) : w[i].visited \in Nat /\ w[i].skipped \in Nat
    BY FieldsOf
  <2>3. visits(w) \in Seq(Nat) /\ Len(visits(w)) = Len(w)
    BY <2>1, <2>2
  <2>4. ASSUME NEW r \in Reasons PROVE skips(w, r) \in Seq(Nat) /\ Len(skips(w, r)) = Len(w)
    BY <2>1, <2>2
  <2>5. Visits(w) = Total(visits(w)) /\ \A r \in Reasons : Skips(w)[r] = Total(skips(w, r))
    BY <2>1 DEF Visits, Skips
  <2> QED
    BY <2>3, <2>4, <2>5
<1>3. Visits(found) = Visits(a) + Visits(b)
  <2>1. \A k \in 1 .. m : visits(found)[k] = visits(a)[k]
    BY <1>1
  <2>2. \A k \in 1 .. n : visits(found)[m + k] = visits(b)[k]
    BY <1>1
  <2> HIDE DEF visits, skips
  <2>3. Total(visits(found)) = Total(visits(a)) + Total(visits(b))
    <3>1. visits(found) \in Seq(Nat) /\ visits(a) \in Seq(Nat) /\ visits(b) \in Seq(Nat)
      BY <1>2
    <3>2. Len(visits(found)) = l /\ Len(visits(a)) = m /\ Len(visits(b)) = n /\ l = m + n
      BY <1>1, <1>2
    <3>3. Len(visits(found)) = Len(visits(a)) + Len(visits(b))
      BY <3>2
    <3>4. \A k \in 1 .. Len(visits(a)) : visits(found)[k] = visits(a)[k]
      BY <2>1, <3>2
    <3>5. \A k \in 1 .. Len(visits(b)) : visits(found)[Len(visits(a)) + k] = visits(b)[k]
      BY <2>2, <3>2
    <3> QED
      BY <3>1, <3>3, <3>4, <3>5, TotalSplits
  <2> QED
    BY <1>2, <2>3
<1>4. ASSUME NEW r \in Reasons PROVE Skips(found)[r] = Skips(a)[r] + Skips(b)[r]
  <2>1. \A k \in 1 .. m : skips(found, r)[k] = skips(a, r)[k]
    BY <1>1
  <2>2. \A k \in 1 .. n : skips(found, r)[m + k] = skips(b, r)[k]
    BY <1>1
  <2> HIDE DEF visits, skips
  <2>3. Total(skips(found, r)) = Total(skips(a, r)) + Total(skips(b, r))
    <3>1. skips(found, r) \in Seq(Nat) /\ skips(a, r) \in Seq(Nat) /\ skips(b, r) \in Seq(Nat)
      BY <1>2
    <3>2. Len(skips(found, r)) = l /\ Len(skips(a, r)) = m /\ Len(skips(b, r)) = n /\ l = m + n
      BY <1>1, <1>2
    <3>3. Len(skips(found, r)) = Len(skips(a, r)) + Len(skips(b, r))
      BY <3>2
    <3>4. \A k \in 1 .. Len(skips(a, r)) : skips(found, r)[k] = skips(a, r)[k]
      BY <2>1, <3>2
    <3>5. \A k \in 1 .. Len(skips(b, r)) : skips(found, r)[Len(skips(a, r)) + k] = skips(b, r)[k]
      BY <2>2, <3>2
    <3> QED
      BY <3>1, <3>3, <3>4, <3>5, TotalSplits
  <2> QED
    BY <1>2, <2>3
<1> QED
  BY <1>3, <1>4

\* A part of a walk up to n, and whether that is all of it.
IsPart(page, found, n) ==
  /\ page.entries \in Seq(Seq(Names)) /\ Increasing(page.entries)
  /\ \A i \in 1 .. n : found[i].entry => \E k \in 1 .. Len(page.entries) : page.entries[k] = found[i].key
  /\ \A k \in 1 .. Len(page.entries) :
       \E i \in 1 .. n : found[i].entry /\ page.entries[k] = found[i].key
  /\ page.visited = Visits(SubSeq(found, 1, n))
  /\ page.skips = Skips(SubSeq(found, 1, n))

\* A page covers the walk up to its last entry, which is the next cursor, or all of it.
LEMMA PageIs ==
  ASSUME NEW found, IsWalk(found), NEW room \in Nat \ {0}
  PROVE  \/ /\ ~IsFull(found, room)
            /\ Page(found, room).next = Top
            /\ IsPart(Page(found, room), found, Len(found))
            /\ Page(found, room).visited = Visits(found)
            /\ Page(found, room).skips = Skips(found)
            /\ Page(found, room).entries = Entries(found)
         \/ /\ IsFull(found, room)
            /\ \E n \in 1 .. Len(found) :
                 /\ found[n].entry /\ Page(found, room).next = found[n].key
                 /\ IsPart(Page(found, room), found, n)
<1> DEFINE covered == Covered(found, room)
           keys    == Entries(covered)
           page    == Page(found, room)
<1>1. found \in Seq(FoundSet) /\ Len(found) \in Nat
  BY DEF IsWalk
<1>2. /\ page.entries = keys /\ page.visited = Visits(covered) /\ page.skips = Skips(covered)
      /\ page.next = IF IsFull(found, room) THEN keys[Len(keys)] ELSE Top
  BY DEF Page
<1> HIDE DEF page, keys
<1>3. CASE ~IsFull(found, room)
  <2>1. covered = found
    BY <1>3 DEF Covered
  <2>2. SubSeq(found, 1, Len(found)) = found
    <3>1. Len(found) \in 0 .. Len(found)
      BY <1>1
    <3>2. /\ SubSeq(found, 1, Len(found)) \in Seq(FoundSet) /\ Len(SubSeq(found, 1, Len(found))) = Len(found)
          /\ \A k \in 1 .. Len(found) : SubSeq(found, 1, Len(found))[k] = found[k]
      BY <1>1, <3>1, PartIs
    <3> QED
      BY <1>1, <3>2, SeqEqual
  <2>3. keys = Entries(found)
    BY <2>1 DEF keys
  <2>4. \A i \in 1 .. Len(found) : found[i].entry <=> i \in EntryIndexes(found)
    BY <1>1 DEF EntryIndexes
  <2>5. EntryIndexes(found) \subseteq 1 .. Len(found)
    BY <1>1 DEF EntryIndexes
  <2> HIDE DEF covered
  <2>6. IsPart(page, found, Len(found))
    <3>1. /\ keys \in Seq(Seq(Names)) /\ Increasing(keys)
          /\ \A i \in EntryIndexes(found) : \E k \in 1 .. Len(keys) : keys[k] = found[i].key
          /\ \A k \in 1 .. Len(keys) : \E i \in EntryIndexes(found) : keys[k] = found[i].key
      BY <2>3, EntriesAre
    <3>2. \A i \in 1 .. Len(found) : found[i].entry => \E k \in 1 .. Len(keys) : keys[k] = found[i].key
      BY <2>4, <3>1
    <3>3. \A k \in 1 .. Len(keys) : \E i \in 1 .. Len(found) : found[i].entry /\ keys[k] = found[i].key
      BY <2>4, <2>5, <3>1
    <3> QED
      BY <1>2, <2>1, <2>2, <3>1, <3>2, <3>3 DEF IsPart
  <2> QED
    BY <1>2, <1>3, <2>1, <2>3, <2>6 DEF page
<1>4. CASE IsFull(found, room)
  <2> DEFINE order == EntryOrder(found)
             n == order[room]
  <2>1. room \in 1 .. Len(order) /\ n \in EntryIndexes(found) /\ n \in 1 .. Len(found) /\ found[n].entry
    <3>1. /\ IsFiniteSet(EntryIndexes(found)) /\ EntryIndexes(found) \subseteq 1 .. Len(found)
          /\ order \in Seq(EntryIndexes(found)) /\ Len(order) = Cardinality(EntryIndexes(found))
      BY <1>1, EntryOrderIs
    <3>2. room < Len(order) /\ Len(order) \in Nat
      <4>1. room < Cardinality(EntryIndexes(found)) /\ Cardinality(EntryIndexes(found)) \in Nat
        BY <1>4, <3>1, FS_CardinalityType DEF IsFull
      <4> QED
        BY <3>1, <4>1
    <3>3. room \in 1 .. Len(order)
      BY <3>2
    <3>4. n \in EntryIndexes(found)
      BY <3>1, <3>3
    <3> QED
      BY <3>1, <3>3, <3>4 DEF EntryIndexes
  <2>2. covered = SubSeq(found, 1, n)
    BY <1>4 DEF Covered, LastIndex
  <2> HIDE DEF order, n, covered
  <2>3. covered \in Seq(FoundSet) /\ Len(covered) = n /\ \A k \in 1 .. n : covered[k] = found[k]
    <3>1. n \in 0 .. Len(found)
      BY <2>1
    <3> QED
      BY <1>1, <2>2, <3>1, PartIs
  <2>4. IsWalk(covered)
    <3>1. \A i \in 1 .. n : i \in 1 .. Len(found)
      BY <1>1, <2>1
    <3> QED
      BY <2>3, <3>1 DEF IsWalk
  <2>5. /\ keys \in Seq(Seq(Names)) /\ Increasing(keys)
        /\ \A i \in EntryIndexes(covered) : \E k \in 1 .. Len(keys) : keys[k] = covered[i].key
        /\ \A k \in 1 .. Len(keys) : \E i \in EntryIndexes(covered) : keys[k] = covered[i].key
    BY <2>4, EntriesAre DEF keys
  <2>6. DOMAIN covered = 1 .. n /\ n \in 1 .. n
    BY <2>1, <2>3
  <2>7. \A i \in 1 .. n : i \in EntryIndexes(covered) <=> found[i].entry
    BY <2>3, <2>6 DEF EntryIndexes
  <2>8. EntryIndexes(covered) \subseteq 1 .. n
    BY <2>6 DEF EntryIndexes
  <2>9. IsPart(page, found, n)
    <3>1. \A i \in 1 .. n : found[i].entry => \E k \in 1 .. Len(keys) : keys[k] = found[i].key
      BY <2>3, <2>5, <2>7
    <3>2. \A k \in 1 .. Len(keys) : \E i \in 1 .. n : found[i].entry /\ keys[k] = found[i].key
      BY <2>3, <2>5, <2>7, <2>8
    <3> QED
      BY <1>2, <2>2, <2>5, <3>1, <3>2 DEF IsPart
  <2>10. keys[Len(keys)] = found[n].key
    <3>1. PICK k \in 1 .. Len(keys) : keys[k] = found[n].key
      BY <2>1, <2>3, <2>5, <2>6, <2>7
    <3>2. Len(keys) \in Nat /\ Len(keys) \in 1 .. Len(keys)
      BY <2>5, <3>1
    <3>3. PICK i \in 1 .. n : found[i].entry /\ keys[Len(keys)] = found[i].key
      BY <2>3, <2>5, <2>7, <2>8, <3>2
    <3>4. i \in 1 .. Len(found) /\ found[i].key \in Seq(Nat) /\ found[n].key \in Seq(Nat)
      BY <1>1, <2>1, <3>3, NamesAreNat DEF IsWalk
    <3>5. ASSUME k # Len(keys) PROVE FALSE
      <4>1. Before(found[n].key, found[i].key)
        BY <2>5, <3>1, <3>2, <3>3, <3>5 DEF Increasing
      <4>2. i < n => Before(found[i].key, found[n].key)
        BY <2>1, <3>3, <3>4 DEF IsWalk
      <4>3. Before(found[n].key, found[n].key)
        <5>1. CASE i = n
          BY <4>1, <5>1
        <5>2. CASE i # n
          BY <2>6, <3>3, <3>4, <4>1, <4>2, <5>2, BeforeTransitive
        <5> QED
          BY <5>1, <5>2
      <4> QED
        BY <3>4, <4>3, BeforeIrreflexive
    <3> QED
      BY <3>1, <3>5
  <2> QED
    BY <1>2, <1>4, <2>1, <2>9, <2>10 DEF page
<1> QED
  BY <1>3, <1>4

-------------------------------------------------------------------------------
(***************************************************************************)
(* A source shows what is found at its places, in their order.             *)
(***************************************************************************)

\* Two entries have different keys, and no other thing has the key of an entry.
IsSource(K, before, fnd) ==
  /\ IsFiniteSet(K) /\ IsOrder(K, before) /\ fnd \in [K -> FoundSet]
  /\ \A x \in K : fnd[x].entry => fnd[x].key \in Seq(Names) \ {Top}
  /\ \A x, y \in K :
       x \in before[y] /\ (fnd[x].entry \/ fnd[y].entry) => Before(fnd[x].key, fnd[y].key)

Shown(K, before, fnd) ==
  LET order == Sorted(K, before) IN [n \in DOMAIN order |-> fnd[order[n]]]

LEMMA ShownIs ==
  ASSUME NEW K, NEW before, NEW fnd, IsSource(K, before, fnd)
  PROVE  /\ IsWalk(Shown(K, before, fnd))
         /\ Len(Shown(K, before, fnd)) = Cardinality(K)
         /\ \A n \in 1 .. Len(Shown(K, before, fnd)) : \E x \in K : Shown(K, before, fnd)[n] = fnd[x]
         /\ \A x \in K : \E n \in 1 .. Len(Shown(K, before, fnd)) : Shown(K, before, fnd)[n] = fnd[x]
<1> DEFINE order == Sorted(K, before)
           found == Shown(K, before, fnd)
<1>1. /\ order \in Seq(K) /\ Len(order) = Cardinality(K)
      /\ \A j, k \in 1 .. Len(order) : j < k => order[j] \in before[order[k]]
      /\ \A x \in K : \E k \in 1 .. Len(order) : order[k] = x
  <2>1. IsFiniteSet(K) /\ IsOrder(K, before)
    BY DEF IsSource
  <2>2. Sorts(order, K, before) /\ Len(order) = Cardinality(K)
    BY <2>1, SortedIs
  <2> QED
    BY <2>2 DEF Sorts, Rising
<1>2. found = [n \in 1 .. Len(order) |-> fnd[order[n]]]
  BY <1>1 DEF Shown
<1> HIDE DEF order, found
<1>3. \A n \in 1 .. Len(order) : order[n] \in K /\ found[n] = fnd[order[n]] /\ found[n] \in FoundSet
  <2>1. \A n \in 1 .. Len(order) : order[n] \in K /\ found[n] = fnd[order[n]]
    BY <1>1, <1>2
  <2> QED
    BY <2>1 DEF IsSource
<1>4. found \in Seq(FoundSet) /\ Len(found) = Len(order)
  <2>1. Len(order) \in Nat
    BY <1>1
  <2>2. found = [n \in 1 .. Len(order) |-> found[n]]
    BY <1>2
  <2>3. found \in [1 .. Len(order) -> FoundSet]
    BY <1>3, <2>2
  <2> QED
    BY <2>1, <2>3
<1>5. IsWalk(found)
  <2>1. \A i \in 1 .. Len(found) : found[i].entry => found[i].key \in Seq(Names) \ {Top}
    BY <1>3, <1>4 DEF IsSource
  <2>2. ASSUME NEW i \in 1 .. Len(found), NEW j \in 1 .. Len(found), i < j, found[i].entry, found[j].entry
        PROVE  Before(found[i].key, found[j].key)
    <3>1. order[i] \in before[order[j]] /\ order[i] \in K /\ order[j] \in K
      BY <1>1, <1>3, <1>4, <2>2
    <3> QED
      BY <1>3, <1>4, <2>2, <3>1 DEF IsSource
  <2> QED
    BY <1>4, <2>1, <2>2 DEF IsWalk
<1>6. \A n \in 1 .. Len(found) : \E x \in K : found[n] = fnd[x]
  BY <1>3, <1>4
<1>7. \A x \in K : \E n \in 1 .. Len(found) : found[n] = fnd[x]
  <2> SUFFICES ASSUME NEW x \in K PROVE \E n \in 1 .. Len(found) : found[n] = fnd[x]
    OBVIOUS
  <2>1. PICK k \in 1 .. Len(order) : order[k] = x
    BY <1>1
  <2> QED
    BY <1>3, <1>4, <2>1
<1> QED
  BY <1>1, <1>4, <1>5, <1>6, <1>7 DEF found

\* The order of some of the places.
Among(before, L) == [x \in L |-> before[x] \cap L]

LEMMA AmongIs ==
  ASSUME NEW K, NEW before, IsOrder(K, before), NEW L \in SUBSET K
  PROVE  IsOrder(L, Among(before, L))
<1>1. \A x \in L : Among(before, L)[x] = before[x] \cap L
  BY DEF Among
<1>2. Among(before, L) = [x \in L |-> Among(before, L)[x]]
  BY DEF Among
<1>3. \A x \in L : Among(before, L)[x] \subseteq L /\ x \notin Among(before, L)[x]
  BY <1>1 DEF IsOrder
<1>4. ASSUME NEW x \in L, NEW y \in L, x \in Among(before, L)[y]
      PROVE  Among(before, L)[x] \subseteq Among(before, L)[y]
  <2>1. before[x] \subseteq before[y]
    BY <1>1, <1>4 DEF IsOrder
  <2> QED
    BY <1>1, <2>1
<1>5. \A x, y \in L : x = y \/ x \in Among(before, L)[y] \/ y \in Among(before, L)[x]
  <2> SUFFICES ASSUME NEW x \in L, NEW y \in L
               PROVE  x = y \/ x \in Among(before, L)[y] \/ y \in Among(before, L)[x]
    OBVIOUS
  <2>1. x = y \/ x \in before[y] \/ y \in before[x]
    BY DEF IsOrder
  <2> QED
    BY <1>1, <2>1
<1> QED
  BY <1>2, <1>3, <1>4, <1>5 DEF IsOrder

LEMMA SortedAmong ==
  ASSUME NEW K, IsFiniteSet(K), NEW before, IsOrder(K, before), NEW L \in SUBSET K
  PROVE  Sorts(Sorted(L, Among(before, L)), L, before)
<1> DEFINE b == Among(before, L)
           t == Sorted(L, b)
<1>1. IsOrder(L, b) /\ IsFiniteSet(L)
  BY AmongIs, FS_Subset
<1>2. \A x \in L : b[x] \subseteq before[x]
  BY DEF Among
<1> HIDE DEF b
<1>3. Sorts(t, L, b)
  BY <1>1, SortedIs
<1> HIDE DEF t
<1>4. \A k \in 1 .. Len(t) : t[k] \in L
  BY <1>3 DEF Sorts
<1>5. Sorts(t, L, before)
  BY <1>2, <1>3, <1>4 DEF Sorts, Rising
<1> QED
  BY <1>5 DEF t, b

Onward(K, fnd, cursor) == {y \in K : Before(cursor, fnd[y].key)}

\* A source from the key of one of its entries on is the rest of what it shows.
LEMMA ShownRest ==
  ASSUME NEW K, NEW before, NEW fnd, IsSource(K, before, fnd),
         NEW j \in 1 .. Len(Shown(K, before, fnd)), Shown(K, before, fnd)[j].entry,
         NEW L, L = Onward(K, fnd, Shown(K, before, fnd)[j].key)
  PROVE  Shown(L, Among(before, L), fnd)
           = SubSeq(Shown(K, before, fnd), j + 1, Len(Shown(K, before, fnd)))
<1> DEFINE s == Sorted(K, before)
           t == Sorted(L, Among(before, L))
           found == Shown(K, before, fnd)
           rest == Shown(L, Among(before, L), fnd)
<1>1. s \in Seq(K) /\ Sorts(s, K, before)
  <2>1. IsFiniteSet(K) /\ IsOrder(K, before)
    BY DEF IsSource
  <2>2. Sorts(s, K, before)
    BY <2>1, SortedIs
  <2> QED
    BY <2>2 DEF Sorts
<1>2. IsOrder(K, before) /\ L \in SUBSET K /\ IsFiniteSet(K)
  <2>1. L \in SUBSET K
    BY DEF Onward
  <2> QED
    BY <2>1 DEF IsSource
<1>3. t \in Seq(L) /\ Sorts(t, L, before)
  <2>1. Sorts(t, L, before)
    BY <1>2, SortedAmong
  <2> QED
    BY <2>1 DEF Sorts
<1>4. found = [n \in 1 .. Len(s) |-> fnd[s[n]]] /\ rest = [n \in 1 .. Len(t) |-> fnd[t[n]]]
  BY <1>1, <1>3 DEF Shown
<1>5. Len(found) = Len(s) /\ Len(rest) = Len(t) /\ Len(s) \in Nat /\ Len(t) \in Nat
  <2>1. Len(s) \in Nat /\ Len(t) \in Nat
    BY <1>1, <1>3
  <2> HIDE DEF s, t, found, rest
  <2> QED
    BY <1>4, <2>1
<1> HIDE DEF s, t, found, rest
<1>6. j \in 1 .. Len(s) /\ fnd[s[j]].entry /\ s[j] \in K /\ L = {y \in K : Before(fnd[s[j]].key, fnd[y].key)}
  <2>1. j \in 1 .. Len(s)
    BY <1>5 DEF found
  <2>2. found[j] = fnd[s[j]] /\ s[j] \in K
    BY <1>1, <1>4, <2>1
  <2> QED
    BY <2>1, <2>2 DEF found, Onward
<1>7. \A x \in K : fnd[x].key \in Seq(Nat)
  BY FieldsOf DEF IsSource
<1>8. ASSUME NEW y \in K PROVE y \in L <=> s[j] \in before[y]
  <2>1. ASSUME s[j] \in before[y] PROVE y \in L
    BY <1>6, <2>1 DEF IsSource
  <2>2. ASSUME y \in L PROVE s[j] \in before[y]
    <3>1. Before(fnd[s[j]].key, fnd[y].key)
      BY <1>6, <2>2
    <3>2. s[j] # y
      BY <1>6, <1>7, <3>1, BeforeIrreflexive
    <3>3. y \notin before[s[j]]
      <4> SUFFICES ASSUME y \in before[s[j]] PROVE FALSE
        OBVIOUS
      <4>1. Before(fnd[y].key, fnd[s[j]].key)
        BY <1>6 DEF IsSource
      <4>2. Before(fnd[y].key, fnd[y].key)
        BY <1>6, <1>7, <3>1, <4>1, BeforeTransitive
      <4> QED
        BY <1>7, <4>2, BeforeIrreflexive
    <3> QED
      BY <1>2, <1>6, <3>2, <3>3 DEF IsOrder
  <2> QED
    BY <2>1, <2>2
<1>9. Len(t) = Len(s) - j /\ \A k \in 1 .. Len(t) : t[k] = s[j + k]
  <2>1. L = After(K, before, s[j])
    BY <1>2, <1>8 DEF After
  <2>2. t = SubSeq(s, j + 1, Len(s))
    BY <1>1, <1>2, <1>3, <1>6, <2>1, RestIs
  <2>3. j + 1 \in 1 .. Len(s) + 1 /\ Len(s) \in 0 .. Len(s) /\ j + 1 <= Len(s) + 1
    BY <1>5, <1>6
  <2>4. Len(t) = Len(s) + 1 - (j + 1) /\ \A k \in 1 .. Len(s) + 1 - (j + 1) : t[k] = s[j + 1 + k - 1]
    BY <1>1, <2>2, <2>3, SubSeqIs
  <2>5. Len(s) + 1 - (j + 1) = Len(s) - j /\ \A k \in Nat : j + 1 + k - 1 = j + k
    BY <1>5, <1>6
  <2> QED
    BY <2>4, <2>5
<1>10. \A k \in 1 .. Len(t) : t[k] \in L
  BY <1>3
<1>11. \A k \in 1 .. Len(t) : rest[k] = found[j + k]
  <2> SUFFICES ASSUME NEW k \in 1 .. Len(t) PROVE rest[k] = found[j + k]
    OBVIOUS
  <2>1. j + k \in 1 .. Len(s)
    BY <1>5, <1>6, <1>9
  <2>2. rest[k] = fnd[t[k]]
    BY <1>4
  <2>3. found[j + k] = fnd[s[j + k]]
    BY <1>4, <2>1
  <2> QED
    BY <1>9, <2>2, <2>3
<1>12. found \in Seq(FoundSet) /\ rest \in Seq(FoundSet)
  <2>1. found \in Seq(FoundSet)
    BY ShownIs DEF found, IsWalk
  <2>2. \A k \in 1 .. Len(t) : j + k \in 1 .. Len(found)
    BY <1>5, <1>6, <1>9
  <2>3. \A k \in 1 .. Len(t) : rest[k] \in FoundSet
    BY <1>11, <2>1, <2>2
  <2>4. rest = [k \in 1 .. Len(t) |-> rest[k]]
    BY <1>4
  <2>5. rest \in [1 .. Len(t) -> FoundSet]
    BY <2>3, <2>4
  <2> QED
    BY <1>5, <2>1, <2>5
<1>13. j \in 0 .. Len(found) /\ Len(found) - j = Len(rest)
  BY <1>5, <1>6, <1>9
<1>14. /\ SubSeq(found, j + 1, Len(found)) \in Seq(FoundSet)
       /\ Len(SubSeq(found, j + 1, Len(found))) = Len(found) - j
       /\ \A k \in 1 .. Len(found) - j : SubSeq(found, j + 1, Len(found))[k] = found[j + k]
  BY <1>12, <1>13, PartIs
<1>15. rest = SubSeq(found, j + 1, Len(found))
  BY <1>5, <1>11, <1>12, <1>13, <1>14, SeqEqual
<1> QED
  BY <1>15 DEF found, rest

\* What is shown depends only on what is found at the places.
LEMMA ShownSame ==
  ASSUME NEW K, IsFiniteSet(K), NEW before, IsOrder(K, before), NEW f, NEW g,
         \A x \in K : f[x] = g[x]
  PROVE  Shown(K, before, f) = Shown(K, before, g)
<1> DEFINE s == Sorted(K, before)
<1>1. Sorts(s, K, before)
  BY SortedIs
<1> HIDE DEF s
<1>2. DOMAIN s = 1 .. Len(s) /\ \A k \in 1 .. Len(s) : s[k] \in K
  BY <1>1 DEF Sorts
<1>3. [n \in DOMAIN s |-> f[s[n]]] = [n \in DOMAIN s |-> g[s[n]]]
  BY <1>2
<1> QED
  BY <1>3 DEF Shown, s

-------------------------------------------------------------------------------
(***************************************************************************)
(* Sets of paths.                                                          *)
(***************************************************************************)

BeforeIn(paths) == [p \in paths |-> {q \in paths : Before(q, p)}]

LEMMA PathsAreOrdered ==
  ASSUME NEW paths \in SUBSET Seq(Nat)
  PROVE  IsOrder(paths, BeforeIn(paths))
<1> DEFINE before == BeforeIn(paths)
<1>1. before = [p \in paths |-> before[p]] /\ \A p \in paths : before[p] = {q \in paths : Before(q, p)}
  BY DEF BeforeIn
<1> HIDE DEF before
<1>2. \A p \in paths : before[p] \subseteq paths /\ p \notin before[p]
  BY <1>1, BeforeIrreflexive
<1>3. ASSUME NEW p \in paths, NEW q \in paths, p \in before[q] PROVE before[p] \subseteq before[q]
  <2>1. Before(p, q)
    BY <1>1, <1>3
  <2>2. \A r \in paths : Before(r, p) => Before(r, q)
    BY <2>1, BeforeTransitive
  <2> QED
    BY <1>1, <2>2
<1>4. ASSUME NEW p \in paths, NEW q \in paths PROVE p = q \/ p \in before[q] \/ q \in before[p]
  BY <1>1, BeforeTotal
<1>5. IsOrder(paths, before)
  BY <1>1, <1>2, <1>3, <1>4 DEF IsOrder
<1> QED
  BY <1>5 DEF before

LEMMA PathOrderIs ==
  ASSUME NEW paths \in SUBSET Seq(Nat), IsFiniteSet(paths)
  PROVE  /\ Sorts(PathOrder(paths), paths, BeforeIn(paths))
         /\ Len(PathOrder(paths)) = Cardinality(paths)
         /\ PathOrder(paths) = Sorted(paths, BeforeIn(paths))
<1>1. PathOrder(paths) = Sorted(paths, BeforeIn(paths))
  BY DEF PathOrder, BeforeIn
<1>2. IsOrder(paths, BeforeIn(paths))
  BY PathsAreOrdered
<1> QED
  BY <1>1, <1>2, SortedIs

LEMMA TopIsBefore ==
  ASSUME NEW p \in Seq(Nat)
  PROVE  Before(Top, p) <=> p # Top
<1>1. Top \in Seq(Nat) /\ Len(Top) = 0
  BY DEF Top
<1>2. p = Top => ~Before(Top, p)
  BY <1>1, BeforeIrreflexive
<1>3. p # Top => Len(p) > 0
  <2>1. Len(p) = 0 => p = Top
    BY DEF Top
  <2>2. Len(p) \in Nat
    OBVIOUS
  <2> QED
    BY <2>1, <2>2
<1>4. Len(p) > 0 => IsStrictPrefix(Top, p)
  <2>1. \A m \in 1 .. Len(Top) : Top[m] = p[m]
    BY <1>1
  <2> QED
    BY <1>1, <2>1, PrefixIs
<1> QED
  BY <1>2, <1>3, <1>4 DEF Before

\* A prefix of a path, by its length.
LEMMA PrefixAt ==
  ASSUME NEW S, NEW p \in Seq(S), NEW n \in 0 .. Len(p)
  PROVE  /\ SubSeq(p, 1, n) \in Seq(S) /\ Len(SubSeq(p, 1, n)) = n
         /\ \A k \in 1 .. n : SubSeq(p, 1, n)[k] = p[k]
<1>0. Len(p) \in Nat
  OBVIOUS
<1>1. Len(p) \in Nat /\ 1 \in 1 .. Len(p) + 1 /\ 1 <= n + 1 /\ n + 1 - 1 = n
  BY <1>0
<1>2. /\ SubSeq(p, 1, n) \in Seq(S) /\ Len(SubSeq(p, 1, n)) = n + 1 - 1
      /\ \A k \in 1 .. n + 1 - 1 : SubSeq(p, 1, n)[k] = p[1 + k - 1]
  BY <1>1, SubSeqIs
<1>3. \A k \in 1 .. n : 1 + k - 1 = k
  BY <1>1
<1> QED
  BY <1>1, <1>2, <1>3

LEMMA StrictPrefixAt ==
  ASSUME NEW p \in Seq(Nat), NEW q \in Seq(Nat)
  PROVE  IsStrictPrefix(q, p) <=> \E n \in 0 .. Len(p) - 1 : q = SubSeq(p, 1, n)
<1>1. ASSUME IsStrictPrefix(q, p) PROVE Len(q) \in 0 .. Len(p) - 1 /\ q = SubSeq(p, 1, Len(q))
  <2>1. Len(q) < Len(p) /\ \A m \in 1 .. Len(q) : q[m] = p[m]
    BY <1>1, PrefixIs
  <2>2. Len(q) \in 0 .. Len(p) /\ Len(q) \in 0 .. Len(p) - 1
    BY <2>1
  <2>3. SubSeq(p, 1, Len(q)) \in Seq(Nat) /\ Len(SubSeq(p, 1, Len(q))) = Len(q)
        /\ \A k \in 1 .. Len(q) : SubSeq(p, 1, Len(q))[k] = p[k]
    BY <2>2, PrefixAt
  <2>4. q = SubSeq(p, 1, Len(q))
    BY <2>1, <2>3, SeqEqual
  <2> QED
    BY <2>2, <2>4
<1>2. ASSUME NEW n \in 0 .. Len(p) - 1, q = SubSeq(p, 1, n) PROVE IsStrictPrefix(q, p)
  <2>1. n \in 0 .. Len(p) /\ n < Len(p)
    OBVIOUS
  <2>2. Len(q) = n /\ \A k \in 1 .. n : q[k] = p[k]
    BY <1>2, <2>1, PrefixAt
  <2> QED
    BY <2>1, <2>2, PrefixIs
<1> QED
  BY <1>1, <1>2

\* The largest name exists, so there is a number behind all of them.
LEMMA BeyondIs == Beyond \in Nat /\ \A m \in Names : m < Beyond
<1>1. Names \subseteq Nat /\ Names # {} /\ IsFiniteSet(Names)
  BY StudioPagesAssumption
<1> DEFINE N == Cardinality(Names)
<1>2. N \in Nat /\ ExistsBijection(1 .. N, Names)
  BY <1>1, FS_CardinalityType
<1>3. PICK f : f \in Bijection(1 .. N, Names)
  BY <1>2 DEF ExistsBijection
<1>4. f \in [1 .. N -> Names] /\ \A m \in Names : \E k \in 1 .. N : f[k] = m
  BY <1>3 DEF Bijection, Surjection
<1> HIDE DEF N
<1> DEFINE Able == {n \in 0 .. N : \E u \in Nat : \A k \in 1 .. n : f[k] <= u}
<1>5. 0 \in Able
  BY <1>2
<1>6. ASSUME NEW n \in 1 .. N, n - 1 \in Able PROVE n \in Able
  <2>1. PICK u \in Nat : \A k \in 1 .. n - 1 : f[k] <= u
    BY <1>6
  <2>2. f[n] \in Nat /\ \A k \in 1 .. N : f[k] \in Nat
    BY <1>1, <1>4
  <2>3. PICK v \in Nat : v >= u /\ v >= f[n]
    <3>1. u >= f[n] \/ f[n] >= u
      BY <2>2
    <3> QED
      BY <2>2, <3>1
  <2>4. \A k \in 1 .. n : k = n \/ k \in 1 .. n - 1
    BY <1>2
  <2>5. \A k \in 1 .. n : f[k] <= v
    BY <1>2, <2>1, <2>2, <2>3, <2>4
  <2> QED
    BY <2>5
<1>7. \A n \in 0 .. N : n \in Able
  <2> HIDE DEF Able
  <2> QED
    BY <1>2, <1>5, <1>6, UpTo
<1>8. PICK u \in Nat : \A k \in 1 .. N : f[k] <= u
  <2>1. N \in 0 .. N
    BY <1>2
  <2> QED
    BY <1>7, <2>1
<1> DEFINE Upper == {v \in Nat : \A m \in Names : m <= v}
<1>9. Upper \in SUBSET Nat /\ Upper # {}
  <2>1. u \in Upper
    BY <1>4, <1>8
  <2> QED
    BY <2>1
<1>10. PICK v \in Upper : \A w \in Upper : v <= w
  <2> HIDE DEF Upper
  <2> QED
    BY <1>9, LeastNat
<1>11. v \in Names
  <2> SUFFICES ASSUME v \notin Names PROVE FALSE
    OBVIOUS
  <2>1. \A m \in Names : m <= v - 1 /\ v - 1 \in Nat
    BY <1>1
  <2>2. v - 1 \in Upper
    BY <1>1, <2>1
  <2> QED
    BY <1>10, <2>2
<1>12. v + 1 \in {m + 1 : m \in Names} /\ \A m \in Names : m < v + 1
  BY <1>1, <1>11
<1>13. Beyond \in {m + 1 : m \in Names} /\ \A m \in Names : m < Beyond
  <2> HIDE DEF Upper
  <2> QED
    BY <1>12 DEF Beyond
<1> QED
  BY <1>1, <1>13

-------------------------------------------------------------------------------
(***************************************************************************)
(* Folders.                                                                *)
(***************************************************************************)

LEMMA PathsIn ==
  ASSUME NEW t, IsTree(t), NEW p \in DOMAIN t
  PROVE  /\ p \in Seq(Names) /\ p \in Seq(Nat)
         /\ \A n \in 0 .. Len(p) : SubSeq(p, 1, n) \in DOMAIN t
<1>1. p \in Seq(Names) /\ \A n \in 0 .. Len(p) : SubSeq(p, 1, n) \in DOMAIN t
  BY DEF IsTree
<1> QED
  BY <1>1, NamesAreNat

\* The key of the end of a folder.
LEMMA EndKey ==
  ASSUME NEW q \in Seq(Names)
  PROVE  /\ Append(q, Beyond) \in Seq(Nat) /\ Append(q, Beyond) \notin Seq(Names)
         /\ Len(Append(q, Beyond)) = Len(q) + 1
         /\ Append(q, Beyond)[Len(q) + 1] = Beyond
         /\ \A k \in 1 .. Len(q) : Append(q, Beyond)[k] = q[k]
         /\ Front(Append(q, Beyond)) = q
<1> DEFINE p == Append(q, Beyond)
<1>1. q \in Seq(Nat) /\ Len(q) \in Nat /\ Beyond \in Nat /\ Beyond \notin Names
  BY NamesAreNat, BeyondIs
<1>2. /\ p \in Seq(Nat) /\ Len(p) = Len(q) + 1 /\ p[Len(q) + 1] = Beyond
      /\ \A k \in 1 .. Len(q) : p[k] = q[k]
  BY <1>1
<1> HIDE DEF p
<1>3. p \notin Seq(Names)
  <2> SUFFICES ASSUME p \in Seq(Names) PROVE FALSE
    OBVIOUS
  <2>1. \A k \in 1 .. Len(p) : p[k] \in Names
    OBVIOUS
  <2>2. Len(q) + 1 \in 1 .. Len(p)
    BY <1>1, <1>2
  <2> QED
    BY <1>1, <1>2, <2>1, <2>2
<1>4. Front(p) = q
  <2>1. Front(p) = SubSeq(p, 1, Len(q))
    BY <1>1, <1>2 DEF Front
  <2>2. Len(q) \in 0 .. Len(p)
    BY <1>1, <1>2
  <2>3. /\ SubSeq(p, 1, Len(q)) \in Seq(Nat) /\ Len(SubSeq(p, 1, Len(q))) = Len(q)
        /\ \A k \in 1 .. Len(q) : SubSeq(p, 1, Len(q))[k] = p[k]
    BY <1>2, <2>2, PrefixAt
  <2>4. SubSeq(p, 1, Len(q)) = q
    BY <1>1, <1>2, <2>3, SeqEqual
  <2> QED
    BY <2>1, <2>4
<1> QED
  BY <1>2, <1>3, <1>4 DEF p

LEMMA FoundEntry ==
  ASSUME NEW key \in Seq(Nat)
  PROVE  /\ Found(key, TRUE, 1, "hidden", 0) \in FoundSet
         /\ Found(key, TRUE, 1, "hidden", 0).key = key
         /\ Found(key, TRUE, 1, "hidden", 0).entry
BY DEF Found, FoundSet, Reasons

LEMMA FoundAtIs ==
  ASSUME NEW t, IsTree(t), NEW p \in DOMAIN t
  PROVE  /\ FoundAt(t, p) \in FoundSet /\ FoundAt(t, p).key = p
         /\ FoundAt(t, p).entry <=> t[p].kind = "file"
<1>1. p \in Seq(Nat)
  BY PathsIn
<1>2. t[p].kind \in {"folder", "file", "other"} \cup Reasons /\ t[p].broken \in {"no", "open", "list"}
  BY DEF IsTree
<1>3. {"hidden", "unreadable", "depth_limit"} \subseteq Reasons /\ "file" \notin Reasons
  BY DEF Reasons
<1>4. CASE t[p].kind = "file"
  <2>1. FoundAt(t, p) = Found(p, TRUE, 1, "hidden", 0)
    BY <1>3, <1>4 DEF FoundAt
  <2> QED
    BY <1>1, <1>4, <2>1, FoundEntry
<1>5. CASE t[p].kind = "other"
  <2>1. FoundAt(t, p) = Found(p, FALSE, 1, "hidden", 0)
    BY <1>5 DEF FoundAt, Reasons
  <2> QED
    BY <1>1, <1>3, <1>5, <2>1 DEF Found, FoundSet
<1>6. CASE t[p].kind \in Reasons
  <2>1. FoundAt(t, p) = Found(p, FALSE, 1, t[p].kind, 1)
    BY <1>6 DEF FoundAt, Reasons
  <2> QED
    BY <1>1, <1>3, <1>6, <2>1 DEF Found, FoundSet
<1>7. CASE t[p].kind = "folder"
  <2>1. FoundAt(t, p) =
          IF Len(p) + 1 > DepthLimit THEN Found(p, FALSE, 1, "depth_limit", 1)
          ELSE IF t[p].broken = "open" THEN Found(p, FALSE, 1, "unreadable", 1)
          ELSE IF t[p].broken = "list" THEN Found(p, FALSE, 2, "unreadable", 1)
          ELSE Found(p, FALSE, 1, "hidden", 0)
    BY <1>7 DEF FoundAt, Reasons
  <2>2. \E n \in Nat, r \in Reasons, k \in Nat : FoundAt(t, p) = Found(p, FALSE, n, r, k)
    BY <1>3, <2>1
  <2> QED
    BY <1>1, <1>7, <2>2 DEF Found, FoundSet
<1> QED
  BY <1>2, <1>4, <1>5, <1>6, <1>7

LEMMA FoundBeyondIs ==
  ASSUME NEW t, IsTree(t), NEW q \in DOMAIN t, NEW p, p = Append(q, Beyond)
  PROVE  /\ FoundBeyond(t, p) \in FoundSet /\ FoundBeyond(t, p).key = p
         /\ ~FoundBeyond(t, p).entry
<1>1. p \in Seq(Nat) /\ Front(p) = q
  BY PathsIn, EndKey
<1>2. t[q].beyond \in Nat /\ "too_large" \in Reasons
  BY DEF IsTree, Reasons
<1>3. FoundBeyond(t, p) = Found(p, FALSE, t[q].beyond, "too_large", t[q].beyond)
  BY <1>1 DEF FoundBeyond
<1> QED
  BY <1>1, <1>2, <1>3 DEF Found, FoundSet

LEMMA LookedIn ==
  ASSUME NEW t, IsTree(t), NEW cursor
  PROVE  /\ Looked(t, cursor) \subseteq DOMAIN t \ {Top} /\ IsFiniteSet(Looked(t, cursor))
         /\ Looked(t, cursor) \in SUBSET Seq(Nat)
<1>1. Looked(t, cursor) \subseteq DOMAIN t \ {Top}
  BY DEF Looked
<1>2. IsFiniteSet(Looked(t, cursor))
  <2>1. Looked(t, cursor) \in SUBSET DOMAIN t
    BY <1>1
  <2>2. IsFiniteSet(DOMAIN t)
    BY DEF IsTree
  <2> QED
    BY <2>1, <2>2, FS_Subset
<1> QED
  BY <1>1, <1>2, PathsIn

LEMMA EndsIn ==
  ASSUME NEW t, IsTree(t), NEW cursor
  PROVE  /\ IsFiniteSet(Ends(t, cursor)) /\ Ends(t, cursor) \in SUBSET Seq(Nat)
         /\ \A p \in Ends(t, cursor) : \E q \in DOMAIN t :
              /\ p = Append(q, Beyond) /\ Lists(t, cursor, q) /\ t[q].beyond > 0
              /\ q \in Looked(t, cursor) \cup {Top}
<1> DEFINE Ended == {q \in Looked(t, cursor) \cup {Top} : Lists(t, cursor, q) /\ t[q].beyond > 0}
           f == [q \in Ended |-> Append(q, Beyond)]
<1>1. Ends(t, cursor) = {Append(q, Beyond) : q \in Ended}
  BY DEF Ends
<1>2. Ended \subseteq DOMAIN t
  BY LookedIn DEF IsTree
<1>3. IsFiniteSet(Ended)
  <2>1. IsFiniteSet(DOMAIN t)
    BY DEF IsTree
  <2> QED
    BY <1>2, <2>1, FS_Subset
<1>4. \A p \in Ends(t, cursor) : \E q \in DOMAIN t :
        /\ p = Append(q, Beyond) /\ Lists(t, cursor, q) /\ t[q].beyond > 0
        /\ q \in Looked(t, cursor) \cup {Top}
  BY <1>1, <1>2
<1>5. IsFiniteSet(Ends(t, cursor))
  <2> HIDE DEF Ended
  <2>1. f \in Surjection(Ended, Ends(t, cursor))
    BY <1>1 DEF Surjection
  <2> QED
    BY <1>3, <2>1, FS_Surjection
<1>6. ASSUME NEW p \in Ends(t, cursor) PROVE p \in Seq(Nat)
  <2>1. PICK q \in DOMAIN t : p = Append(q, Beyond)
    BY <1>4
  <2>2. q \in Seq(Names)
    BY PathsIn
  <2> QED
    BY <2>1, <2>2, EndKey
<1> QED
  BY <1>4, <1>5, <1>6

\* What a page of a folder is made of: the items behind the cursor, and the ends.
SeenAt(t, cursor) == {p \in ToSet(Walked(t, cursor)) : Behind(cursor, p)}

EndsAt(t, cursor) ==
  {p \in Ends(t, cursor) :
     /\ Passed(t, cursor, p)
     /\ \A q \in Looked(t, cursor) \ ToSet(Walked(t, cursor)) : Before(p, q)}

KeysAt(t, cursor) == SeenAt(t, cursor) \cup EndsAt(t, cursor)

FoundOf(t, cursor) ==
  [p \in KeysAt(t, cursor) |-> IF p \in EndsAt(t, cursor) THEN FoundBeyond(t, p) ELSE FoundAt(t, p)]

LEMMA WalkedIn ==
  ASSUME NEW t, IsTree(t), NEW cursor
  PROVE  /\ ToSet(Walked(t, cursor)) \subseteq Looked(t, cursor)
         /\ ~CutShort(t, cursor) => ToSet(Walked(t, cursor)) = Looked(t, cursor)
<1> DEFINE looked == Looked(t, cursor)
           items  == PathOrder(looked)
           n      == IF Len(items) > WalkLimit THEN WalkLimit ELSE Len(items)
<1>1. looked \in SUBSET Seq(Nat) /\ IsFiniteSet(looked)
  BY LookedIn
<1> HIDE DEF looked
<1>2. Sorts(items, looked, BeforeIn(looked)) /\ Len(items) = Cardinality(looked)
  BY <1>1, PathOrderIs
<1>3. Walked(t, cursor) = SubSeq(items, 1, n)
  BY DEF Walked, looked
<1> HIDE DEF items
<1>4. items \in Seq(looked) /\ Len(items) \in Nat /\ \A p \in looked : \E k \in 1 .. Len(items) : items[k] = p
  BY <1>2 DEF Sorts
<1>5. n \in 0 .. Len(items)
  BY <1>4, StudioPagesAssumption
<1> HIDE DEF n
<1>6. /\ SubSeq(items, 1, n) \in Seq(looked) /\ Len(SubSeq(items, 1, n)) = n
      /\ \A k \in 1 .. n : SubSeq(items, 1, n)[k] = items[k]
  BY <1>4, <1>5, PrefixAt
<1>7. DOMAIN SubSeq(items, 1, n) = 1 .. n
  BY <1>6
<1>8. ToSet(SubSeq(items, 1, n)) \subseteq looked
  BY <1>4, <1>5, <1>6, <1>7, SMTT(30) DEF ToSet
<1>9. ASSUME ~CutShort(t, cursor) PROVE looked \subseteq ToSet(SubSeq(items, 1, n))
  <2>1. n = Len(items)
    BY <1>2, <1>4, <1>9, StudioPagesAssumption DEF CutShort, n, looked
  <2> QED
    BY <1>4, <1>6, <1>7, <2>1 DEF ToSet
<1> QED
  BY <1>3, <1>8, <1>9 DEF looked

\* The end of a folder that is passed is behind the cursor.
LEMMA EndsBehind ==
  ASSUME NEW t, IsTree(t), NEW cursor \in Seq(Nat), NEW p \in EndsAt(t, cursor)
  PROVE  /\ p \in Seq(Nat) /\ Before(cursor, p) /\ p \notin Seq(Names)
         /\ \E q \in DOMAIN t : p = Append(q, Beyond)
<1>1. p \in Ends(t, cursor) /\ Passed(t, cursor, p)
  BY DEF EndsAt
<1>2. PICK q \in DOMAIN t : p = Append(q, Beyond)
  BY <1>1, EndsIn
<1>3. p \in Seq(Nat) /\ p \notin Seq(Names) /\ Len(p) = Len(q) + 1 /\ Len(q) \in Nat
  BY <1>2, PathsIn, EndKey
<1>4. CASE cursor = Top
  <2>1. p # Top
    BY <1>3 DEF Top
  <2> QED
    BY <1>2, <1>3, <1>4, <2>1, TopIsBefore
<1>5. CASE cursor # Top
  <2>1. PICK r \in Looked(t, cursor) : Before(r, p) /\ ~Before(r, cursor)
    BY <1>1, <1>5 DEF Passed
  <2>2. r \in Seq(Nat)
    BY LookedIn
  <2>3. r = cursor \/ Before(cursor, r)
    BY <2>1, <2>2, BeforeTotal
  <2>4. Before(cursor, p)
    BY <1>3, <2>1, <2>2, <2>3, BeforeTransitive
  <2> QED
    BY <1>2, <1>3, <2>4
<1> QED
  BY <1>4, <1>5

LEMMA FolderSource ==
  ASSUME NEW t, IsTree(t), NEW cursor \in Seq(Nat)
  PROVE  /\ IsSource(KeysAt(t, cursor), BeforeIn(KeysAt(t, cursor)), FoundOf(t, cursor))
         /\ KeysAt(t, cursor) \in SUBSET Seq(Nat) /\ IsFiniteSet(KeysAt(t, cursor))
         /\ \A p \in KeysAt(t, cursor) :
              /\ Before(cursor, p) /\ FoundOf(t, cursor)[p].key = p
              /\ FoundOf(t, cursor)[p].entry <=> p \in SeenAt(t, cursor) /\ t[p].kind = "file"
<1> DEFINE K == KeysAt(t, cursor)
           seen == SeenAt(t, cursor)
           ends == EndsAt(t, cursor)
           fnd == FoundOf(t, cursor)
<1>1. ASSUME NEW p \in seen
      PROVE  p \in DOMAIN t /\ p # Top /\ p \in Seq(Nat) /\ p \in Seq(Names) /\ Before(cursor, p)
  <2>1. p \in Looked(t, cursor) /\ Before(cursor, p)
    BY WalkedIn DEF SeenAt, Behind
  <2>2. p \in DOMAIN t /\ p # Top
    BY <2>1, LookedIn
  <2> QED
    BY <2>1, <2>2, PathsIn
<1>2. \A p \in ends : /\ p \in Seq(Nat) /\ Before(cursor, p) /\ p \notin Seq(Names)
                      /\ \E q \in DOMAIN t : p = Append(q, Beyond)
  BY EndsBehind
<1>3. IsFiniteSet(seen) /\ IsFiniteSet(ends)
  <2>1. seen \in SUBSET Looked(t, cursor)
    BY WalkedIn DEF SeenAt
  <2>2. ends \in SUBSET Ends(t, cursor)
    BY DEF EndsAt
  <2>3. IsFiniteSet(Looked(t, cursor)) /\ IsFiniteSet(Ends(t, cursor))
    BY LookedIn, EndsIn
  <2> HIDE DEF seen, ends
  <2> QED
    BY <2>1, <2>2, <2>3, FS_Subset
<1>4. K = seen \cup ends
  BY DEF KeysAt
<1>5. fnd = [p \in K |-> IF p \in ends THEN FoundBeyond(t, p) ELSE FoundAt(t, p)]
  BY DEF FoundOf
<1> HIDE DEF K, seen, ends, fnd
<1>6. IsFiniteSet(K) /\ K \in SUBSET Seq(Nat)
  <2>1. IsFiniteSet(K)
    BY <1>3, <1>4, FS_Union
  <2> QED
    BY <1>1, <1>2, <1>4, <2>1
<1>7. IsOrder(K, BeforeIn(K))
  BY <1>6, PathsAreOrdered
<1>8. ASSUME NEW p \in K
      PROVE  /\ fnd[p] \in FoundSet /\ fnd[p].key = p /\ Before(cursor, p)
             /\ fnd[p].entry <=> p \in seen /\ t[p].kind = "file"
  <2>1. CASE p \in ends
    <3>1. PICK q \in DOMAIN t : p = Append(q, Beyond)
      BY <1>2, <2>1
    <3>2. FoundBeyond(t, p) \in FoundSet /\ FoundBeyond(t, p).key = p /\ ~FoundBeyond(t, p).entry
      BY <3>1, FoundBeyondIs
    <3>3. p \notin seen /\ fnd[p] = FoundBeyond(t, p)
      BY <1>1, <1>2, <1>5, <2>1
    <3> QED
      BY <1>2, <2>1, <3>2, <3>3
  <2>2. CASE p \notin ends
    <3>1. p \in seen /\ fnd[p] = FoundAt(t, p)
      BY <1>4, <1>5, <2>2
    <3>2. p \in DOMAIN t
      BY <1>1, <3>1
    <3>3. FoundAt(t, p) \in FoundSet /\ FoundAt(t, p).key = p /\ (FoundAt(t, p).entry <=> t[p].kind = "file")
      BY <3>2, FoundAtIs
    <3> QED
      BY <1>1, <3>1, <3>3
  <2> QED
    BY <2>1, <2>2
<1>9. fnd \in [K -> FoundSet]
  BY <1>5, <1>8
<1>10. \A p \in K : fnd[p].entry => fnd[p].key \in Seq(Names) \ {Top}
  BY <1>1, <1>8
<1>11. \A p, q \in K : p \in BeforeIn(K)[q] => Before(fnd[p].key, fnd[q].key)
  BY <1>8 DEF BeforeIn
<1>12. IsSource(K, BeforeIn(K), fnd)
  BY <1>6, <1>7, <1>9, <1>10, <1>11 DEF IsSource
<1> QED
  BY <1>6, <1>8, <1>12 DEF K, seen, fnd

LEMMA FolderShown ==
  ASSUME NEW t, IsTree(t), NEW cursor \in Seq(Nat), ~(t[Top].broken = "list" /\ cursor = Top)
  PROVE  FoundIn(t, cursor) = Shown(KeysAt(t, cursor), BeforeIn(KeysAt(t, cursor)), FoundOf(t, cursor))
<1> DEFINE K == KeysAt(t, cursor)
           order == PathOrder(K)
<1>1. K \in SUBSET Seq(Nat) /\ IsFiniteSet(K)
  BY FolderSource
<1>2. Sorts(order, K, BeforeIn(K)) /\ order = Sorted(K, BeforeIn(K))
  BY <1>1, PathOrderIs
<1>3. FoundIn(t, cursor) = [i \in DOMAIN order |-> IF order[i] \in EndsAt(t, cursor) THEN FoundBeyond(t, order[i])
                                                   ELSE FoundAt(t, order[i])]
  BY DEF FoundIn, KeysAt, SeenAt, EndsAt
<1>4. \A i \in DOMAIN order : order[i] \in K
  <2> HIDE DEF order, K
  <2> QED
    BY <1>2 DEF Sorts
<1>5. \A p \in K : FoundOf(t, cursor)[p] = IF p \in EndsAt(t, cursor) THEN FoundBeyond(t, p) ELSE FoundAt(t, p)
  BY DEF FoundOf
<1> HIDE DEF K, order
<1>6. FoundIn(t, cursor) = [i \in DOMAIN order |-> FoundOf(t, cursor)[order[i]]]
  BY <1>3, <1>4, <1>5
<1> QED
  BY <1>2, <1>6 DEF Shown, K, order

\* The keys of the entries that a walk finds, and the files that a page of a folder has.
KeysOf(found) == {found[i].key : i \in EntryIndexes(found)}

FilesAt(t, cursor) == {p \in SeenAt(t, cursor) : t[p].kind = "file"}

LEMMA TopListed ==
  ASSUME NEW t, IsTree(t), NEW cursor, t[Top].broken # "no"
  PROVE  Looked(t, cursor) = {}
<1> SUFFICES ASSUME NEW p \in Looked(t, cursor) PROVE FALSE
  OBVIOUS
<1>1. p \in DOMAIN t /\ p # Top
  BY LookedIn
<1>2. p \in Seq(Nat)
  BY <1>1, PathsIn
<1>3. Len(p) \in Nat /\ Len(p) # 0
  BY <1>1, <1>2 DEF Top
<1>4. 0 \in 0 .. Len(p) - 1 /\ 0 \in 0 .. Len(p)
  BY <1>3
<1>5. SubSeq(p, 1, 0) = Top
  <2>1. SubSeq(p, 1, 0) \in Seq(Nat) /\ Len(SubSeq(p, 1, 0)) = 0
    BY <1>2, <1>4, PrefixAt
  <2> QED
    BY <2>1 DEF Top
<1>6. Lists(t, cursor, SubSeq(p, 1, 0))
  BY <1>4 DEF Looked
<1> QED
  BY <1>5, <1>6 DEF Lists

LEMMA KeysOfShown ==
  ASSUME NEW K, NEW before, NEW fnd, IsSource(K, before, fnd)
  PROVE  KeysOf(Shown(K, before, fnd)) = {fnd[x].key : x \in {y \in K : fnd[y].entry}}
<1> DEFINE found == Shown(K, before, fnd)
<1>1. /\ IsWalk(found)
      /\ \A n \in 1 .. Len(found) : \E x \in K : found[n] = fnd[x]
      /\ \A x \in K : \E n \in 1 .. Len(found) : found[n] = fnd[x]
  BY ShownIs
<1> HIDE DEF found
<1>2. DOMAIN found = 1 .. Len(found)
  BY <1>1 DEF IsWalk
<1>3. KeysOf(found) = {found[i].key : i \in {j \in 1 .. Len(found) : found[j].entry}}
  BY <1>2 DEF KeysOf, EntryIndexes
<1>4. KeysOf(found) = {fnd[x].key : x \in {y \in K : fnd[y].entry}}
  BY <1>1, <1>3
<1> QED
  BY <1>4 DEF found

LEMMA FolderWalk ==
  ASSUME NEW t, IsTree(t), NEW cursor \in Seq(Nat)
  PROVE  IsWalk(FoundIn(t, cursor)) /\ KeysOf(FoundIn(t, cursor)) = FilesAt(t, cursor)
<1> DEFINE K == KeysAt(t, cursor)
           fnd == FoundOf(t, cursor)
<1>1. CASE ~(t[Top].broken = "list" /\ cursor = Top)
  <2>1. FoundIn(t, cursor) = Shown(K, BeforeIn(K), fnd)
    BY <1>1, FolderShown
  <2>2. /\ IsSource(K, BeforeIn(K), fnd)
        /\ \A p \in K : fnd[p].key = p /\ (fnd[p].entry <=> p \in SeenAt(t, cursor) /\ t[p].kind = "file")
    BY FolderSource
  <2>3. SeenAt(t, cursor) \subseteq K
    BY DEF KeysAt
  <2> HIDE DEF K, fnd
  <2>4. IsWalk(Shown(K, BeforeIn(K), fnd))
    BY <2>2, ShownIs
  <2>5. KeysOf(Shown(K, BeforeIn(K), fnd)) = {fnd[x].key : x \in {y \in K : fnd[y].entry}}
    BY <2>2, KeysOfShown
  <2>6. {fnd[x].key : x \in {y \in K : fnd[y].entry}} = FilesAt(t, cursor)
    BY <2>2, <2>3 DEF FilesAt
  <2> QED
    BY <2>1, <2>4, <2>5, <2>6
<1>2. CASE t[Top].broken = "list" /\ cursor = Top
  <2>1. FoundIn(t, cursor) = <<Found(Top, FALSE, 1, "unreadable", 1)>>
    BY <1>2 DEF FoundIn
  <2>2. Found(Top, FALSE, 1, "unreadable", 1) \in FoundSet /\ ~Found(Top, FALSE, 1, "unreadable", 1).entry
    BY DEF Found, FoundSet, Reasons, Top
  <2> DEFINE f == Found(Top, FALSE, 1, "unreadable", 1)
  <2>6. f \in FoundSet /\ ~f.entry
    BY <2>2
  <2> HIDE DEF f
  <2>3. <<f>> \in Seq(FoundSet) /\ Len(<<f>>) = 1 /\ \A i \in 1 .. 1 : ~<<f>>[i].entry
    BY <2>6
  <2>4. IsWalk(<<f>>) /\ KeysOf(<<f>>) = {}
    BY <2>3 DEF IsWalk, KeysOf, EntryIndexes
  <2>5. SeenAt(t, cursor) = {}
    <3>1. Looked(t, cursor) = {}
      BY <1>2, TopListed
    <3> QED
      BY <3>1, WalkedIn DEF SeenAt
  <2> QED
    BY <2>1, <2>4, <2>5 DEF f, FilesAt
<1> QED
  BY <1>1, <1>2

-------------------------------------------------------------------------------
(***************************************************************************)
(* A page of a folder against the whole of it.                             *)
(***************************************************************************)

LEMMA LookedGrows ==
  ASSUME NEW t, IsTree(t), NEW cursor \in Seq(Nat)
  PROVE  /\ Looked(t, cursor) \subseteq Looked(t, Top)
         /\ CutShort(t, cursor) => CutShort(t, Top)
<1>1. ASSUME NEW q \in DOMAIN t, Lists(t, cursor, q) PROVE Lists(t, Top, q)
  <2>1. q # Top => Before(Top, q)
    BY PathsIn, TopIsBefore
  <2> QED
    BY <1>1, <2>1 DEF Lists, GoesInto
<1>2. ASSUME NEW p \in Looked(t, cursor) PROVE p \in Looked(t, Top)
  <2>1. p \in DOMAIN t \ {Top} /\ \A n \in 0 .. Len(p) - 1 : Lists(t, cursor, SubSeq(p, 1, n))
    BY DEF Looked
  <2>2. \A n \in 0 .. Len(p) - 1 : SubSeq(p, 1, n) \in DOMAIN t
    <3>1. Len(p) \in Nat /\ \A n \in 0 .. Len(p) : SubSeq(p, 1, n) \in DOMAIN t
      BY <2>1, PathsIn
    <3> QED
      BY <3>1
  <2> QED
    BY <1>1, <2>1, <2>2 DEF Looked
<1>3. Cardinality(Looked(t, cursor)) <= Cardinality(Looked(t, Top))
  <2>1. IsFiniteSet(Looked(t, Top))
    BY LookedIn
  <2>2. Looked(t, cursor) \in SUBSET Looked(t, Top)
    BY <1>2
  <2> QED
    BY <2>1, <2>2, FS_Subset
<1>4. Cardinality(Looked(t, cursor)) \in Nat /\ Cardinality(Looked(t, Top)) \in Nat
  BY LookedIn, FS_CardinalityType
<1> QED
  BY <1>2, <1>3, <1>4, StudioPagesAssumption DEF CutShort

\* Of the folders that a path lies in, each is behind what is before the path, too, or
\* what is before the path lies in it.
LEMMA PrefixSide ==
  ASSUME NEW a \in Seq(Nat), NEW p \in Seq(Nat), Before(a, p), ~IsStrictPrefix(a, p),
         NEW n \in 0 .. Len(p)
  PROVE  Before(a, SubSeq(p, 1, n)) \/ IsStrictPrefix(SubSeq(p, 1, n), a)
<1>1. PICK m \in Nat : BeforeAt(a, p, m)
  BY BeforeIs
<1> DEFINE q == SubSeq(p, 1, n)
<1>2. q \in Seq(Nat) /\ Len(q) = n /\ \A k \in 1 .. n : q[k] = p[k]
  BY PrefixAt
<1> HIDE DEF q
<1>3. Len(a) \in Nat /\ Len(p) \in Nat /\ n \in Nat
  OBVIOUS
<1>4. m # Len(a) + 1
  <2> SUFFICES ASSUME m = Len(a) + 1 PROVE FALSE
    OBVIOUS
  <2>1. Len(a) < Len(p) /\ \A k \in 1 .. Len(a) : a[k] = p[k]
    BY <1>1, <1>3 DEF BeforeAt
  <2> QED
    BY <2>1, PrefixIs
<1>5. m \in 1 .. Len(a) /\ m \in 1 .. Len(p) /\ a[m] < p[m] /\ \A k \in 1 .. m - 1 : a[k] = p[k]
  BY <1>1, <1>3, <1>4 DEF BeforeAt
<1>6. CASE m <= n
  <2>3. q[m] = p[m] /\ \A k \in 1 .. m - 1 : q[k] = p[k]
    BY <1>2, <1>3, <1>5, <1>6, SMTT(30)
  <2>4. m \in 1 .. Len(q) /\ a[m] < q[m] /\ \A k \in 1 .. m - 1 : a[k] = q[k]
    BY <1>2, <1>3, <1>5, <1>6, <2>3
  <2>1. BeforeAt(a, q, m)
    BY <1>5, <2>4 DEF BeforeAt
  <2>2. Before(a, q)
    BY <1>2, <2>1, BeforeIs
  <2> QED
    BY <2>2 DEF q
<1>7. CASE n < m
  <2>3. Len(q) < Len(a)
    BY <1>2, <1>3, <1>5, <1>7
  <2>4. \A k \in 1 .. n : k \in 1 .. m - 1
    BY <1>3, <1>5, <1>7
  <2>1. Len(q) < Len(a) /\ \A k \in 1 .. Len(q) : q[k] = a[k]
    BY <1>2, <1>5, <2>3, <2>4
  <2>2. IsStrictPrefix(q, a)
    BY <1>2, <2>1, PrefixIs
  <2> QED
    BY <2>2 DEF q
<1> QED
  BY <1>3, <1>5, <1>6, <1>7

\* What is behind the cursor and in no folder of this name is looked at with the cursor,
\* too.
LEMMA LookedBehind ==
  ASSUME NEW t, IsTree(t), NEW cursor \in Seq(Nat), NEW p \in Looked(t, Top), Before(cursor, p),
         cursor = Top \/ ~IsStrictPrefix(cursor, p)
  PROVE  p \in Looked(t, cursor)
<1>1. p \in DOMAIN t /\ p # Top /\ \A n \in 0 .. Len(p) - 1 : Lists(t, Top, SubSeq(p, 1, n))
  BY DEF Looked
<1>2. p \in Seq(Nat) /\ Len(p) \in Nat /\ \A n \in 0 .. Len(p) : SubSeq(p, 1, n) \in DOMAIN t
  BY <1>1, PathsIn
<1>3. ASSUME NEW n \in 0 .. Len(p) - 1 PROVE Lists(t, cursor, SubSeq(p, 1, n))
  <2> DEFINE q == SubSeq(p, 1, n)
  <2>1. Lists(t, Top, q) /\ q \in DOMAIN t /\ n \in 0 .. Len(p)
    BY <1>1, <1>2
  <2>2. q # Top => Before(cursor, q) \/ IsStrictPrefix(q, cursor)
    <3>1. CASE cursor = Top
      BY <2>1, <3>1, PathsIn, TopIsBefore
    <3>2. CASE cursor # Top
      BY <1>2, <2>1, <3>2, PrefixSide
    <3> QED
      BY <3>1, <3>2
  <2> QED
    BY <2>1, <2>2 DEF Lists, GoesInto
<1> QED
  BY <1>1, <1>3 DEF Looked

\* A page finds a file of the folder that is behind its cursor.
LEMMA FolderReaches ==
  ASSUME NEW t, IsTree(t), NEW cursor \in Seq(Nat), ~CutShort(t, Top), NEW p \in FilesIn(t),
         Before(cursor, p), cursor = Top \/ ~IsStrictPrefix(cursor, p)
  PROVE  p \in KeysOf(FoundIn(t, cursor))
<1>1. p \in Looked(t, Top) /\ t[p].kind = "file"
  BY DEF FilesIn
<1>2. p \in Looked(t, cursor)
  BY <1>1, LookedBehind
<1>3. ToSet(Walked(t, cursor)) = Looked(t, cursor)
  BY LookedGrows, WalkedIn
<1> QED
  BY <1>1, <1>2, <1>3, FolderWalk DEF FilesAt, SeenAt, Behind

\* And nothing else.
LEMMA FolderFinds ==
  ASSUME NEW t, IsTree(t), NEW cursor \in Seq(Nat), NEW p \in KeysOf(FoundIn(t, cursor))
  PROVE  p \in FilesIn(t) /\ Before(cursor, p)
<1>1. p \in SeenAt(t, cursor) /\ t[p].kind = "file"
  BY FolderWalk DEF FilesAt
<1>2. p \in Looked(t, cursor) /\ Before(cursor, p)
  BY <1>1, WalkedIn DEF SeenAt, Behind
<1> QED
  BY <1>1, <1>2, LookedGrows DEF FilesIn

\* A file has nothing in it.
LEMMA FileHoldsNothing ==
  ASSUME NEW t, IsTree(t), NEW c \in FilesIn(t), NEW p \in Looked(t, Top)
  PROVE  ~IsStrictPrefix(c, p)
<1> SUFFICES ASSUME IsStrictPrefix(c, p) PROVE FALSE
  OBVIOUS
<1>1. c \in Looked(t, Top) /\ t[c].kind = "file"
  BY DEF FilesIn
<1>2. c # Top /\ c \in Seq(Nat) /\ p \in Seq(Nat)
  BY <1>1, LookedIn
<1>3. PICK n \in 0 .. Len(p) - 1 : c = SubSeq(p, 1, n)
  BY <1>2, StrictPrefixAt
<1>4. Lists(t, Top, c)
  BY <1>3 DEF Looked
<1> QED
  BY <1>1, <1>2, <1>4 DEF Lists, GoesInto

LEMMA PrefixTransitive ==
  ASSUME NEW a \in Seq(Nat), NEW b \in Seq(Nat), NEW c \in Seq(Nat),
         IsStrictPrefix(a, b), IsStrictPrefix(b, c)
  PROVE  IsStrictPrefix(a, c)
<1>1. Len(a) < Len(b) /\ \A m \in 1 .. Len(a) : a[m] = b[m]
  BY PrefixIs
<1>2. Len(b) < Len(c) /\ \A m \in 1 .. Len(b) : b[m] = c[m]
  BY PrefixIs
<1>3. Len(a) < Len(c) /\ \A m \in 1 .. Len(a) : a[m] = c[m]
  BY <1>1, <1>2
<1> QED
  BY <1>3, PrefixIs

\* A folder that a looked-at file is in, and the file itself, are looked at with the file
\* as the cursor.
LEMMA LookedTo ==
  ASSUME NEW t, IsTree(t), NEW c \in FilesIn(t), NEW p \in Looked(t, Top),
         p = c \/ IsStrictPrefix(p, c)
  PROVE  p \in Looked(t, c)
<1>1. c \in Seq(Nat)
  BY LookedIn DEF FilesIn
<1>2. p \in DOMAIN t /\ p # Top /\ \A n \in 0 .. Len(p) - 1 : Lists(t, Top, SubSeq(p, 1, n))
  BY DEF Looked
<1>3. p \in Seq(Nat) /\ Len(p) \in Nat /\ \A n \in 0 .. Len(p) : SubSeq(p, 1, n) \in DOMAIN t
  BY <1>2, PathsIn
<1>4. ASSUME NEW n \in 0 .. Len(p) - 1 PROVE Lists(t, c, SubSeq(p, 1, n))
  <2> DEFINE q == SubSeq(p, 1, n)
  <2>1. Lists(t, Top, q) /\ n \in 0 .. Len(p)
    BY <1>2, <1>3
  <2>2. q \in Seq(Nat)
    BY <1>3, <2>1, PathsIn
  <2>3. IsStrictPrefix(q, p)
    BY <1>3, <2>2, StrictPrefixAt
  <2> HIDE DEF q
  <2>4. IsStrictPrefix(q, c)
    BY <1>1, <1>3, <2>2, <2>3, PrefixTransitive
  <2>5. Lists(t, c, q)
    BY <2>1, <2>4 DEF Lists, GoesInto
  <2> QED
    BY <2>5 DEF q
<1> QED
  BY <1>2, <1>4 DEF Looked

\* The end of a folder that is behind a file: the folder is behind it, too, or the file
\* is in the folder.
LEMMA EndSide ==
  ASSUME NEW t, IsTree(t), NEW c \in FilesIn(t), NEW q \in Looked(t, Top) \cup {Top},
         Lists(t, Top, q), Before(c, Append(q, Beyond))
  PROVE  Before(c, q) \/ IsStrictPrefix(q, c)
<1> DEFINE p == Append(q, Beyond)
<1>1. c # Top /\ c \in Seq(Nat) /\ t[c].kind = "file" /\ c \in Looked(t, Top)
  BY LookedIn DEF FilesIn
<1>2. q \in DOMAIN t /\ q \in Seq(Nat) /\ q \in Seq(Names)
  BY LookedIn, PathsIn DEF IsTree
<1>3. /\ p \in Seq(Nat) /\ Len(p) = Len(q) + 1 /\ Len(q) \in Nat
      /\ \A k \in 1 .. Len(q) : p[k] = q[k]
  BY <1>2, EndKey
<1>4. c # q
  BY <1>1 DEF Lists, GoesInto
<1>5. q # Top => q \in Looked(t, Top)
  OBVIOUS
<1> HIDE DEF p
<1>6. ~IsStrictPrefix(c, p)
  <2> SUFFICES ASSUME IsStrictPrefix(c, p) PROVE FALSE
    OBVIOUS
  <2>1. Len(c) < Len(p) /\ \A m \in 1 .. Len(c) : c[m] = p[m]
    BY <1>1, <1>3, PrefixIs
  <2>2. Len(c) \in Nat /\ \A m \in 1 .. Len(c) : c[m] = q[m]
    BY <1>1, <1>3, <2>1
  <2>3. CASE Len(c) = Len(q)
    BY <1>1, <1>2, <1>4, <2>2, <2>3, SeqEqual
  <2>4. CASE Len(c) < Len(q)
    <3>1. IsStrictPrefix(c, q)
      BY <1>1, <1>2, <2>2, <2>4, PrefixIs
    <3>2. q # Top
      BY <2>2, <2>4 DEF Top
    <3> QED
      BY <1>5, <3>1, <3>2, FileHoldsNothing
  <2> QED
    BY <1>3, <2>1, <2>2, <2>3, <2>4
<1>7. Len(q) \in 0 .. Len(p)
  BY <1>3
<1>8. SubSeq(p, 1, Len(q)) = q
  <2>1. /\ SubSeq(p, 1, Len(q)) \in Seq(Nat) /\ Len(SubSeq(p, 1, Len(q))) = Len(q)
        /\ \A k \in 1 .. Len(q) : SubSeq(p, 1, Len(q))[k] = p[k]
    BY <1>3, <1>7, PrefixAt
  <2> QED
    BY <1>2, <1>3, <2>1, SeqEqual
<1>9. Before(c, p)
  BY DEF p
<1>10. Before(c, SubSeq(p, 1, Len(q))) \/ IsStrictPrefix(SubSeq(p, 1, Len(q)), c)
  BY <1>1, <1>3, <1>6, <1>7, <1>9, PrefixSide
<1> QED
  BY <1>8, <1>10

\* The cursors of a folder that did not change: from each of them on, the places of the
\* page are those of the whole folder that are behind the cursor.
LEMMA PlacesOnward ==
  ASSUME NEW t, IsTree(t), ~CutShort(t, Top), NEW c \in FilesIn(t) \cup {Top}
  PROVE  /\ c \in Seq(Nat)
         /\ SeenAt(t, c) = {p \in SeenAt(t, Top) : Before(c, p)}
         /\ EndsAt(t, c) = {p \in EndsAt(t, Top) : Before(c, p)}
<1>1. c \in Seq(Nat)
  <2>1. Top \in Seq(Nat)
    BY DEF Top
  <2> QED
    BY <2>1, LookedIn DEF FilesIn
<1>2. CASE c = Top
  <2>1. \A p \in SeenAt(t, Top) : Before(Top, p)
    BY DEF SeenAt, Behind
  <2>2. \A p \in EndsAt(t, Top) : Before(Top, p)
    BY <1>1, <1>2, EndsBehind
  <2> QED
    BY <1>1, <1>2, <2>1, <2>2
<1>3. CASE c \in FilesIn(t)
  <2>1. /\ Looked(t, c) \subseteq Looked(t, Top)
        /\ ToSet(Walked(t, c)) = Looked(t, c) /\ ToSet(Walked(t, Top)) = Looked(t, Top)
    BY <1>1, LookedGrows, WalkedIn
  <2>2. SeenAt(t, c) = {p \in Looked(t, c) : Before(c, p)}
    BY <2>1 DEF SeenAt, Behind
  <2>3. SeenAt(t, Top) = Looked(t, Top)
    <3>1. \A p \in Looked(t, Top) : Before(Top, p)
      BY LookedIn, TopIsBefore
    <3> QED
      BY <2>1, <3>1 DEF SeenAt, Behind
  <2>4. \A p \in Looked(t, Top) : Before(c, p) => p \in Looked(t, c)
    BY <1>1, <1>3, FileHoldsNothing, LookedBehind
  <2>5. EndsAt(t, c) = {p \in Ends(t, c) : Passed(t, c, p)} /\ EndsAt(t, Top) = Ends(t, Top)
    BY <2>1 DEF EndsAt, Passed
  <2>6. ASSUME NEW p \in EndsAt(t, c) PROVE p \in EndsAt(t, Top) /\ Before(c, p)
    <3>1. PICK q \in DOMAIN t : /\ p = Append(q, Beyond) /\ Lists(t, c, q) /\ t[q].beyond > 0
                                /\ q \in Looked(t, c) \cup {Top}
      BY <2>5, EndsIn
    <3>2. q # Top => Before(Top, q)
      BY <3>1, PathsIn, TopIsBefore
    <3>3. Lists(t, Top, q)
      BY <3>1, <3>2 DEF Lists, GoesInto
    <3>4. p \in Ends(t, Top)
      BY <2>1, <3>1, <3>3 DEF Ends
    <3> QED
      BY <1>1, <2>5, <3>4, EndsBehind
  <2>7. ASSUME NEW p \in EndsAt(t, Top), Before(c, p) PROVE p \in EndsAt(t, c)
    <3>1. PICK q \in DOMAIN t : /\ p = Append(q, Beyond) /\ Lists(t, Top, q) /\ t[q].beyond > 0
                                /\ q \in Looked(t, Top) \cup {Top}
      BY <2>5, EndsIn
    <3>2. Before(c, q) \/ IsStrictPrefix(q, c)
      BY <1>3, <2>7, <3>1, EndSide
    <3>3. Lists(t, c, q)
      BY <3>1, <3>2 DEF Lists, GoesInto
    <3>4. q \in Looked(t, c) \cup {Top}
      BY <1>3, <2>4, <3>1, <3>2, LookedTo
    <3>5. p \in Ends(t, c)
      BY <3>1, <3>3, <3>4 DEF Ends
    <3>6. c \in Looked(t, c) /\ ~Before(c, c)
      BY <1>1, <1>3, LookedTo, BeforeIrreflexive DEF FilesIn
    <3>7. Passed(t, c, p)
      BY <2>7, <3>6 DEF Passed
    <3> QED
      BY <2>5, <3>5, <3>7
  <2>8. EndsAt(t, c) = {p \in EndsAt(t, Top) : Before(c, p)}
    BY <2>6, <2>7
  <2>9. SeenAt(t, c) = {p \in SeenAt(t, Top) : Before(c, p)}
    BY <2>1, <2>2, <2>3, <2>4
  <2> QED
    BY <1>1, <2>8, <2>9
<1> QED
  BY <1>2, <1>3

\* The pages of a folder that did not change: from an entry on, what is found is the rest
\* of what is found with the cursor before.
LEMMA FolderRest ==
  ASSUME NEW t, IsTree(t), ~CutShort(t, Top), NEW c \in FilesIn(t) \cup {Top},
         NEW n \in 1 .. Len(FoundIn(t, c)), FoundIn(t, c)[n].entry
  PROVE  FoundIn(t, FoundIn(t, c)[n].key) = SubSeq(FoundIn(t, c), n + 1, Len(FoundIn(t, c)))
<1> DEFINE d == FoundIn(t, c)[n].key
           K == KeysAt(t, c)
           L == KeysAt(t, d)
           f == FoundOf(t, c)
           g == FoundOf(t, d)
<1>1. c \in Seq(Nat) /\ IsWalk(FoundIn(t, c)) /\ d \in KeysOf(FoundIn(t, c))
  <2>1. c \in Seq(Nat)
    BY PlacesOnward
  <2>2. IsWalk(FoundIn(t, c))
    BY <2>1, FolderWalk
  <2>3. DOMAIN FoundIn(t, c) = 1 .. Len(FoundIn(t, c))
    BY <2>2 DEF IsWalk
  <2> QED
    BY <2>1, <2>2, <2>3 DEF KeysOf, EntryIndexes
<1>2. d \in FilesIn(t) /\ Before(c, d) /\ d \in Seq(Nat)
  <2>1. d \in FilesIn(t) /\ Before(c, d)
    BY <1>1, FolderFinds
  <2> QED
    BY <2>1, LookedIn DEF FilesIn
<1>3. t[Top].broken # "list" /\ d # Top
  <2>1. Looked(t, Top) # {} /\ d # Top
    BY <1>2, LookedIn DEF FilesIn
  <2> QED
    BY <2>1, TopListed
<1>4. FoundIn(t, c) = Shown(K, BeforeIn(K), f) /\ FoundIn(t, d) = Shown(L, BeforeIn(L), g)
  BY <1>1, <1>2, <1>3, FolderShown
<1>5. /\ IsSource(K, BeforeIn(K), f) /\ K \in SUBSET Seq(Nat) /\ IsFiniteSet(K)
      /\ \A p \in K : Before(c, p) /\ f[p].key = p
  BY <1>1, FolderSource
<1>6. /\ SeenAt(t, c) = {p \in SeenAt(t, Top) : Before(c, p)}
      /\ EndsAt(t, c) = {p \in EndsAt(t, Top) : Before(c, p)}
  BY PlacesOnward
<1>7. /\ SeenAt(t, d) = {p \in SeenAt(t, Top) : Before(d, p)}
      /\ EndsAt(t, d) = {p \in EndsAt(t, Top) : Before(d, p)}
  BY <1>2, PlacesOnward
<1>8. SeenAt(t, Top) \in SUBSET Seq(Nat) /\ EndsAt(t, Top) \in SUBSET Seq(Nat)
  <2>1. Top \in Seq(Nat)
    BY DEF Top
  <2>2. KeysAt(t, Top) \in SUBSET Seq(Nat)
    BY <2>1, FolderSource
  <2> QED
    BY <2>2 DEF KeysAt
<1> HIDE DEF d
<1>9. \A p \in Seq(Nat) : Before(d, p) => Before(c, p)
  BY <1>1, <1>2, BeforeTransitive
<1>10. /\ SeenAt(t, d) = {p \in SeenAt(t, c) : Before(d, p)}
       /\ EndsAt(t, d) = {p \in EndsAt(t, c) : Before(d, p)}
  BY <1>6, <1>7, <1>8, <1>9
<1>11. L = {p \in K : Before(d, p)}
  BY <1>10 DEF KeysAt
<1>12. \A p \in L : g[p] = f[p]
  <2> SUFFICES ASSUME NEW p \in L PROVE g[p] = f[p]
    OBVIOUS
  <2>1. p \in K /\ Before(d, p)
    BY <1>11
  <2>2. p \in EndsAt(t, d) <=> p \in EndsAt(t, c)
    BY <1>10, <2>1
  <2> QED
    BY <2>1, <2>2 DEF FoundOf
<1> HIDE DEF K, L, f, g
<1>13. L \in SUBSET K /\ L \in SUBSET Seq(Nat) /\ IsFiniteSet(L)
  BY <1>5, <1>11, FS_Subset
<1>14. L = Onward(K, f, d)
  BY <1>5, <1>11 DEF Onward
<1>15. Shown(L, BeforeIn(L), g) = Shown(L, BeforeIn(L), f)
  BY <1>12, <1>13, PathsAreOrdered, ShownSame
<1>16. Among(BeforeIn(K), L) = BeforeIn(L)
  BY <1>13 DEF Among, BeforeIn
<1>17. n \in 1 .. Len(Shown(K, BeforeIn(K), f)) /\ Shown(K, BeforeIn(K), f)[n].entry
       /\ d = Shown(K, BeforeIn(K), f)[n].key
  BY <1>4 DEF d
<1>18. Shown(L, Among(BeforeIn(K), L), f)
         = SubSeq(Shown(K, BeforeIn(K), f), n + 1, Len(Shown(K, BeforeIn(K), f)))
  BY <1>5, <1>14, <1>17, ShownRest
<1> QED
  BY <1>4, <1>15, <1>16, <1>18 DEF d

-------------------------------------------------------------------------------
(***************************************************************************)
(* REAPER's plugin list.                                                   *)
(***************************************************************************)

RowsAt(l, cursor) == {i \in DOMAIN l : Before(cursor, RowKey(l, i))}

EarlierIn(l, S) ==
  [j \in S |-> {i \in S : \/ Before(RowKey(l, i), RowKey(l, j))
                          \/ RowKey(l, i) = RowKey(l, j) /\ i < j}]

RowsOf(l, S) == [i \in S |-> RowFound(l, i)]

LEMMA RowIs ==
  ASSUME NEW l, IsList(l), NEW i \in DOMAIN l
  PROVE  /\ l[i].id \in Nat /\ l[i].id \in Names /\ l[i].fit \in BOOLEAN /\ i \in Nat
         /\ RowKey(l, i) = IF Repeats(l, i) THEN <<l[i].id, 0>> ELSE <<l[i].id>>
         /\ RowKey(l, i) \in Seq(Nat)
         /\ RowFound(l, i) \in FoundSet
         /\ RowFound(l, i).key = RowKey(l, i)
         /\ RowFound(l, i).entry <=> l[i].fit /\ ~Repeats(l, i)
<1>1. l[i] \in [id : Names, fit : BOOLEAN] /\ i \in Nat
  <2>1. l \in Seq([id : Names, fit : BOOLEAN])
    BY DEF IsList
  <2>2. DOMAIN l = 1 .. Len(l) /\ Len(l) \in Nat
    BY <2>1
  <2> DEFINE R == [id : Names, fit : BOOLEAN]
  <2> HIDE DEF R
  <2>3. l \in Seq(R) /\ i \in 1 .. Len(l)
    BY <2>1, <2>2 DEF R
  <2>4. l[i] \in R
    BY <2>3
  <2> QED
    BY <2>2, <2>3, <2>4 DEF R
<1>2. l[i].id \in Nat /\ l[i].id \in Names /\ l[i].fit \in BOOLEAN
  BY <1>1, StudioPagesAssumption
<1>3. RowKey(l, i) = IF Repeats(l, i) THEN <<l[i].id, 0>> ELSE <<l[i].id>>
  BY DEF RowKey
<1>4. RowKey(l, i) \in Seq(Nat)
  BY <1>2, <1>3
<1>5. CASE l[i].fit /\ ~Repeats(l, i)
  <2>1. RowFound(l, i) = Found(RowKey(l, i), TRUE, 1, "hidden", 0)
    BY <1>5 DEF RowFound
  <2>2. RowFound(l, i) \in FoundSet /\ RowFound(l, i).key = RowKey(l, i) /\ RowFound(l, i).entry
    BY <1>4, <2>1 DEF Found, FoundSet, Reasons
  <2> QED
    BY <1>1, <1>2, <1>3, <1>4, <1>5, <2>2
<1>6. CASE ~(l[i].fit /\ ~Repeats(l, i))
  <2>1. RowFound(l, i) = Found(RowKey(l, i), FALSE, 1, "unsupported_name", 1)
    BY <1>6 DEF RowFound
  <2>2. RowFound(l, i) \in FoundSet /\ RowFound(l, i).key = RowKey(l, i) /\ ~RowFound(l, i).entry
    BY <1>4, <2>1 DEF Found, FoundSet, Reasons
  <2> QED
    BY <1>1, <1>2, <1>3, <1>4, <1>6, <2>2
<1> QED
  BY <1>5, <1>6

\* The keys of a row that is an entry, or might be, and of one that repeats an id.
LEMMA KeysDiffer ==
  ASSUME NEW a \in Nat, NEW b \in Nat
  PROVE  <<a, 0>> # <<b>> /\ (<<a>> = <<b>> => a = b)
<1>1. <<a, 0>> # <<b>>
  <2> SUFFICES ASSUME <<a, 0>> = <<b>> PROVE FALSE
    OBVIOUS
  <2>1. Len(<<a, 0>>) = 2 /\ Len(<<b>>) = 1
    OBVIOUS
  <2>2. Len(<<a, 0>>) = Len(<<b>>)
    BY Zenon
  <2> QED
    BY <2>1, <2>2
<1>2. ASSUME <<a>> = <<b>> PROVE a = b
  <2>1. <<a>>[1] = a /\ <<b>>[1] = b
    OBVIOUS
  <2>2. <<a>>[1] = <<b>>[1]
    BY <1>2, Zenon
  <2> QED
    BY <2>1, <2>2
<1> QED
  BY <1>1, <1>2

LEMMA EarlierIs ==
  ASSUME NEW l, NEW S, NEW i \in S, NEW j \in S
  PROVE  i \in EarlierIn(l, S)[j]
           <=> Before(RowKey(l, i), RowKey(l, j)) \/ (RowKey(l, i) = RowKey(l, j) /\ i < j)
<1>1. EarlierIn(l, S)[j] = {k \in S : \/ Before(RowKey(l, k), RowKey(l, j))
                                      \/ RowKey(l, k) = RowKey(l, j) /\ k < j}
  BY DEF EarlierIn
<1> QED
  BY <1>1

LEMMA RowsAreOrdered ==
  ASSUME NEW l, IsList(l), NEW S \in SUBSET DOMAIN l
  PROVE  IsOrder(S, EarlierIn(l, S))
<1> DEFINE before == EarlierIn(l, S)
           key(i) == RowKey(l, i)
<1>1. /\ before = [j \in S |-> before[j]]
      /\ \A j \in S : before[j] \subseteq S
      /\ \A i, j \in S : i \in before[j] <=> Before(key(i), key(j)) \/ (key(i) = key(j) /\ i < j)
  BY EarlierIs DEF EarlierIn
<1>2. \A i \in S : i \in Nat /\ key(i) \in Seq(Nat)
  BY RowIs
<1> HIDE DEF before, key
<1>3. \A x \in S : before[x] \subseteq S /\ x \notin before[x]
  BY <1>1, <1>2, BeforeIrreflexive
<1>4. ASSUME NEW x \in S, NEW y \in S, x \in before[y] PROVE before[x] \subseteq before[y]
  <2> SUFFICES ASSUME NEW z \in S, z \in before[x] PROVE z \in before[y]
    BY <1>3
  <2>1. Before(key(x), key(y)) \/ (key(x) = key(y) /\ x < y)
    BY <1>1, <1>4
  <2>2. Before(key(z), key(x)) \/ (key(z) = key(x) /\ z < x)
    BY <1>1
  <2>3. Before(key(z), key(x)) /\ Before(key(x), key(y)) => Before(key(z), key(y))
    BY <1>2, BeforeTransitive
  <2>4. z < x /\ x < y => z < y
    BY <1>2
  <2>5. Before(key(z), key(y)) \/ (key(z) = key(y) /\ z < y)
    BY <2>1, <2>2, <2>3, <2>4
  <2> QED
    BY <1>1, <2>5
<1>5. ASSUME NEW x \in S, NEW y \in S PROVE x = y \/ x \in before[y] \/ y \in before[x]
  <2>1. key(x) = key(y) \/ Before(key(x), key(y)) \/ Before(key(y), key(x))
    BY <1>2, BeforeTotal
  <2>2. x = y \/ x < y \/ y < x
    BY <1>2
  <2> QED
    BY <1>1, <2>1, <2>2
<1>6. IsOrder(S, before)
  BY <1>1, <1>3, <1>4, <1>5 DEF IsOrder
<1> QED
  BY <1>6 DEF before

LEMMA ListSource ==
  ASSUME NEW l, IsList(l), NEW S \in SUBSET DOMAIN l
  PROVE  IsSource(S, EarlierIn(l, S), RowsOf(l, S))
<1> DEFINE before == EarlierIn(l, S)
           fnd == RowsOf(l, S)
<1>1. IsOrder(S, before)
  BY RowsAreOrdered
<1>2. IsFiniteSet(S)
  <2>1. DOMAIN l = 1 .. Len(l) /\ Len(l) \in Nat
    BY DEF IsList
  <2>2. IsFiniteSet(DOMAIN l)
    BY <2>1, FS_Interval
  <2> QED
    BY <2>2, FS_Subset
<1>3. \A i \in S : fnd[i] = RowFound(l, i)
  BY DEF RowsOf
<1>4. fnd \in [S -> FoundSet]
  BY RowIs DEF RowsOf
<1>5. ASSUME NEW x \in S, fnd[x].entry PROVE fnd[x].key \in Seq(Names) \ {Top}
  <2>1. fnd[x].key = RowKey(l, x) /\ ~Repeats(l, x) /\ l[x].id \in Names
    BY <1>3, <1>5, RowIs
  <2>2. fnd[x].key = <<l[x].id>>
    BY <2>1, RowIs
  <2> QED
    BY <2>1, <2>2 DEF Top
<1>6. ASSUME NEW x \in S, NEW y \in S, x \in before[y], fnd[x].entry \/ fnd[y].entry
      PROVE  Before(fnd[x].key, fnd[y].key)
  <2>1. Before(RowKey(l, x), RowKey(l, y)) \/ (RowKey(l, x) = RowKey(l, y) /\ x < y)
    BY <1>6, EarlierIs
  <2>2. ASSUME RowKey(l, x) = RowKey(l, y), x < y PROVE FALSE
    <3>1. (l[x].fit /\ ~Repeats(l, x)) \/ (l[y].fit /\ ~Repeats(l, y))
      BY <1>3, <1>6, RowIs
    <3>7. l[x].id \in Nat /\ l[y].id \in Nat
      BY RowIs
    <3>8. /\ <<l[x].id, 0>> # <<l[y].id>> /\ <<l[y].id, 0>> # <<l[x].id>>
          /\ <<l[x].id>> = <<l[y].id>> => l[x].id = l[y].id
      BY <3>7, KeysDiffer
    <3>9. ~Repeats(l, x)
      <4> SUFFICES ASSUME Repeats(l, x) PROVE FALSE
        OBVIOUS
      <4>1. ~Repeats(l, y)
        BY <3>1
      <4>2. RowKey(l, x) = <<l[x].id, 0>> /\ RowKey(l, y) = <<l[y].id>>
        BY <4>1 DEF RowKey
      <4> QED
        BY <2>2, <3>8, <4>2
    <3>10. RowKey(l, x) = <<l[x].id>>
      BY <3>9 DEF RowKey
    <3>11. ~Repeats(l, y)
      BY <2>2, <3>8, <3>10 DEF RowKey
    <3>12. RowKey(l, y) = <<l[y].id>>
      BY <3>11 DEF RowKey
    <3>3. l[x].id = l[y].id /\ ~Repeats(l, x) /\ ~Repeats(l, y)
      BY <2>2, <3>8, <3>9, <3>10, <3>11, <3>12
    <3>4. x \in 1 .. y - 1
      BY <2>2, RowIs DEF IsList
    <3>5. ~(l[x].fit /\ l[y].fit)
      BY <3>3, <3>4 DEF Repeats
    <3>6. ~(l[x].fit /\ ~l[y].fit) /\ ~(l[y].fit /\ ~l[x].fit)
      BY <3>3 DEF IsList
    <3> QED
      BY <3>1, <3>5, <3>6
  <2>3. fnd[x].key = RowKey(l, x) /\ fnd[y].key = RowKey(l, y)
    BY <1>3, RowIs
  <2> QED
    BY <2>1, <2>2, <2>3
<1> QED
  BY <1>1, <1>2, <1>4, <1>5, <1>6 DEF IsSource

LEMMA RowsShown ==
  ASSUME NEW l, IsList(l), NEW cursor
  PROVE  /\ IsSource(RowsAt(l, cursor), EarlierIn(l, RowsAt(l, cursor)), RowsOf(l, RowsAt(l, cursor)))
         /\ RowsFound(l, cursor)
              = Shown(RowsAt(l, cursor), EarlierIn(l, RowsAt(l, cursor)), RowsOf(l, RowsAt(l, cursor)))
<1> DEFINE K == RowsAt(l, cursor)
           before == EarlierIn(l, K)
           order == Sorted(K, before)
<1>1. RowsFound(l, cursor) = [n \in DOMAIN order |-> RowFound(l, order[n])]
  BY DEF RowsFound, Behind, RowsAt, EarlierIn
<1>2. K \in SUBSET DOMAIN l
  BY DEF RowsAt
<1> HIDE DEF K, before, order
<1>3. IsSource(K, before, RowsOf(l, K))
  BY <1>2, ListSource DEF before
<1>4. Sorts(order, K, before)
  <2>1. IsFiniteSet(K) /\ IsOrder(K, before)
    BY <1>3 DEF IsSource
  <2> QED
    BY <2>1, SortedIs DEF order
<1>5. \A n \in DOMAIN order : order[n] \in K
  BY <1>4 DEF Sorts
<1>6. RowsFound(l, cursor) = Shown(K, before, RowsOf(l, K))
  BY <1>1, <1>5 DEF Shown, order, RowsOf
<1> QED
  BY <1>3, <1>6 DEF K, before

\* The rows that are entries show each plugin once.
LEMMA PluginIs ==
  ASSUME NEW l, IsList(l)
  PROVE  PluginsIn(l) = {RowKey(l, i) : i \in {j \in DOMAIN l : l[j].fit /\ ~Repeats(l, j)}}
<1>1. ASSUME NEW i \in DOMAIN l, l[i].fit
      PROVE  \E j \in DOMAIN l : l[j].fit /\ ~Repeats(l, j) /\ <<l[i].id>> = RowKey(l, j)
  <2> DEFINE S == {j \in DOMAIN l : l[j].fit /\ l[j].id = l[i].id}
  <2>1. S \in SUBSET Nat /\ S # {}
    BY <1>1, RowIs
  <2>2. PICK j \in S : \A m \in S : j <= m
    BY <2>1, LeastNat
  <2>3. ~Repeats(l, j)
    <3> SUFFICES ASSUME Repeats(l, j) PROVE FALSE
      OBVIOUS
    <3>1. PICK m \in 1 .. j - 1 : l[m].fit /\ l[m].id = l[j].id
      BY DEF Repeats
    <3>2. DOMAIN l = 1 .. Len(l) /\ Len(l) \in Nat
      BY DEF IsList
    <3>3. j \in 1 .. Len(l)
      BY <3>2
    <3>4. m \in DOMAIN l
      BY <3>2, <3>3
    <3>5. m \in S /\ j \in Nat /\ m < j
      BY <2>1, <3>1, <3>4
    <3> QED
      BY <2>2, <3>5
  <2>4. j \in DOMAIN l /\ l[j].fit /\ <<l[i].id>> = RowKey(l, j)
    BY <2>3 DEF RowKey
  <2> QED
    BY <2>3, <2>4
<1>2. ASSUME NEW j \in DOMAIN l, ~Repeats(l, j) PROVE RowKey(l, j) = <<l[j].id>>
  BY <1>2 DEF RowKey
<1>3. PluginsIn(l) \subseteq {RowKey(l, i) : i \in {j \in DOMAIN l : l[j].fit /\ ~Repeats(l, j)}}
  BY <1>1 DEF PluginsIn
<1> QED
  BY <1>2, <1>3 DEF PluginsIn

LEMMA ListWalk ==
  ASSUME NEW l, IsList(l), NEW cursor
  PROVE  /\ IsWalk(RowsFound(l, cursor))
         /\ KeysOf(RowsFound(l, cursor)) = {p \in PluginsIn(l) : Before(cursor, p)}
<1> DEFINE K == RowsAt(l, cursor)
           fnd == RowsOf(l, K)
           shown == Shown(K, EarlierIn(l, K), fnd)
<1>1. IsSource(K, EarlierIn(l, K), fnd) /\ RowsFound(l, cursor) = shown
  BY RowsShown
<1>2. IsWalk(shown)
  BY <1>1, ShownIs
<1>3. KeysOf(shown) = {fnd[x].key : x \in {y \in K : fnd[y].entry}}
  BY <1>1, KeysOfShown
<1>4. \A x \in K : /\ x \in DOMAIN l /\ Before(cursor, RowKey(l, x))
                   /\ fnd[x].key = RowKey(l, x)
                   /\ fnd[x].entry <=> l[x].fit /\ ~Repeats(l, x)
  BY RowIs DEF RowsAt, RowsOf
<1>5. \A x \in DOMAIN l : Before(cursor, RowKey(l, x)) => x \in K
  BY DEF RowsAt
<1> HIDE DEF K, fnd
<1>6. {fnd[x].key : x \in {y \in K : fnd[y].entry}}
        = {p \in {RowKey(l, i) : i \in {j \in DOMAIN l : l[j].fit /\ ~Repeats(l, j)}} : Before(cursor, p)}
  BY <1>4, <1>5
<1> HIDE DEF shown
<1> QED
  BY <1>1, <1>2, <1>3, <1>6, PluginIs

LEMMA ListRest ==
  ASSUME NEW l, IsList(l), NEW c \in Seq(Nat),
         NEW n \in 1 .. Len(RowsFound(l, c)), RowsFound(l, c)[n].entry
  PROVE  RowsFound(l, RowsFound(l, c)[n].key) = SubSeq(RowsFound(l, c), n + 1, Len(RowsFound(l, c)))
<1> DEFINE d == RowsFound(l, c)[n].key
           K == RowsAt(l, c)
           L == RowsAt(l, d)
           f == RowsOf(l, K)
           g == RowsOf(l, L)
<1>1. IsWalk(RowsFound(l, c)) /\ d \in KeysOf(RowsFound(l, c))
  <2>1. IsWalk(RowsFound(l, c))
    BY ListWalk
  <2>2. DOMAIN RowsFound(l, c) = 1 .. Len(RowsFound(l, c))
    BY <2>1 DEF IsWalk
  <2> QED
    BY <2>1, <2>2 DEF KeysOf, EntryIndexes
<1>2. Before(c, d) /\ d \in Seq(Nat)
  <2>1. d \in Seq(Names)
    BY <1>1 DEF IsWalk
  <2> QED
    BY <1>1, <2>1, ListWalk, NamesAreNat
<1> HIDE DEF d
<1>3. /\ IsSource(K, EarlierIn(l, K), f) /\ RowsFound(l, c) = Shown(K, EarlierIn(l, K), f)
      /\ IsSource(L, EarlierIn(l, L), g) /\ RowsFound(l, d) = Shown(L, EarlierIn(l, L), g)
  BY RowsShown
<1>4. \A i \in DOMAIN l : RowKey(l, i) \in Seq(Nat)
  BY RowIs
<1>5. \A i \in DOMAIN l : Before(d, RowKey(l, i)) => Before(c, RowKey(l, i))
  BY <1>2, <1>4, BeforeTransitive
<1>6. K \subseteq DOMAIN l /\ L = {i \in K : Before(d, RowKey(l, i))}
  BY <1>5 DEF RowsAt
<1>7. \A i \in K : f[i].key = RowKey(l, i)
  BY <1>6, RowIs DEF RowsOf
<1>8. \A i \in L : g[i] = f[i]
  BY <1>6 DEF RowsOf
<1>9. Among(EarlierIn(l, K), L) = EarlierIn(l, L)
  BY <1>6 DEF Among, EarlierIn
<1> HIDE DEF K, L, f, g
<1>10. L = Onward(K, f, d)
  BY <1>6, <1>7 DEF Onward
<1>11. IsFiniteSet(L) /\ IsOrder(L, EarlierIn(l, L))
  BY <1>3 DEF IsSource
<1>12. Shown(L, EarlierIn(l, L), g) = Shown(L, EarlierIn(l, L), f)
  BY <1>8, <1>11, ShownSame
<1>13. n \in 1 .. Len(Shown(K, EarlierIn(l, K), f)) /\ Shown(K, EarlierIn(l, K), f)[n].entry
       /\ d = Shown(K, EarlierIn(l, K), f)[n].key
  BY <1>3 DEF d
<1>14. Shown(L, Among(EarlierIn(l, K), L), f)
         = SubSeq(Shown(K, EarlierIn(l, K), f), n + 1, Len(Shown(K, EarlierIn(l, K), f)))
  BY <1>3, <1>10, <1>13, ShownRest
<1> QED
  BY <1>3, <1>9, <1>12, <1>14 DEF d

-------------------------------------------------------------------------------
(***************************************************************************)
(* A page against the entries of its walk.                                 *)
(***************************************************************************)

LEMMA KeysAre ==
  ASSUME NEW found, IsWalk(found)
  PROVE  KeysOf(found) = {found[i].key : i \in {j \in 1 .. Len(found) : found[j].entry}}
<1>1. DOMAIN found = 1 .. Len(found)
  BY DEF IsWalk
<1> QED
  BY <1>1 DEF KeysOf, EntryIndexes

LEMMA PartKeys ==
  ASSUME NEW found, NEW page, NEW n, IsPart(page, found, n)
  PROVE  ToSet(page.entries) = {found[i].key : i \in {j \in 1 .. n : found[j].entry}}
<1> DEFINE keys == page.entries
<1>1. /\ keys \in Seq(Seq(Names))
      /\ \A i \in 1 .. n : found[i].entry => \E k \in 1 .. Len(keys) : keys[k] = found[i].key
      /\ \A k \in 1 .. Len(keys) : \E i \in 1 .. n : found[i].entry /\ keys[k] = found[i].key
  BY DEF IsPart
<1> HIDE DEF keys
<1>2. ToSet(keys) = {keys[k] : k \in 1 .. Len(keys)}
  <2>1. DOMAIN keys = 1 .. Len(keys)
    BY <1>1
  <2> QED
    BY <2>1 DEF ToSet
<1>3. {keys[k] : k \in 1 .. Len(keys)} = {found[i].key : i \in {j \in 1 .. n : found[j].entry}}
  <2>1. ASSUME NEW k \in 1 .. Len(keys)
        PROVE  keys[k] \in {found[i].key : i \in {j \in 1 .. n : found[j].entry}}
    <3>1. PICK i \in 1 .. n : found[i].entry /\ keys[k] = found[i].key
      BY <1>1
    <3> QED
      BY <3>1
  <2>2. ASSUME NEW i \in 1 .. n, found[i].entry PROVE found[i].key \in {keys[k] : k \in 1 .. Len(keys)}
    <3>1. PICK k \in 1 .. Len(keys) : keys[k] = found[i].key
      BY <1>1, <2>2
    <3> QED
      BY <3>1
  <2> QED
    BY <2>1, <2>2
<1> QED
  BY <1>2, <1>3 DEF keys

\* Those of some keys that are not behind the last of a page.
Through(keys, last) == {k \in keys : k = last \/ Before(k, last)}

LEMMA PageTaken ==
  ASSUME NEW found, IsWalk(found), NEW room \in Nat \ {0}, NEW page, page = Page(found, room)
  PROVE  /\ page.entries \in Seq(Seq(Names)) /\ Increasing(page.entries)
         /\ page.visited \in Nat /\ page.skips \in [Reasons -> Nat] /\ page.next \in Seq(Names)
         /\ ToSet(page.entries) \subseteq KeysOf(found)
         /\ page.next = Top => /\ ToSet(page.entries) = KeysOf(found)
                               /\ page.visited = Visits(found) /\ page.skips = Skips(found)
         /\ page.next # Top => /\ page.next \in KeysOf(found)
                               /\ ToSet(page.entries) = Through(KeysOf(found), page.next)
<1>1. found \in Seq(FoundSet) /\ Len(found) \in Nat
  BY DEF IsWalk
<1>2. KeysOf(found) = {found[i].key : i \in {j \in 1 .. Len(found) : found[j].entry}}
  BY KeysAre
<1>3. CASE /\ page.next = Top /\ IsPart(page, found, Len(found))
           /\ page.visited = Visits(found) /\ page.skips = Skips(found)
  <2>1. ToSet(page.entries) = KeysOf(found)
    BY <1>2, <1>3, PartKeys
  <2>2. page.entries \in Seq(Seq(Names)) /\ Increasing(page.entries)
    BY <1>3 DEF IsPart
  <2>3. Visits(found) \in Nat /\ Skips(found) \in [Reasons -> Nat]
    BY <1>1, CountsAre
  <2>4. Top \in Seq(Names)
    BY DEF Top
  <2> QED
    BY <1>3, <2>1, <2>2, <2>3, <2>4
<1>4. ASSUME NEW n \in 1 .. Len(found), found[n].entry, page.next = found[n].key, IsPart(page, found, n)
      PROVE  /\ page.next \in Seq(Names) \ {Top} /\ page.next \in KeysOf(found)
             /\ page.entries \in Seq(Seq(Names)) /\ Increasing(page.entries)
             /\ page.visited \in Nat /\ page.skips \in [Reasons -> Nat]
             /\ ToSet(page.entries) = Through(KeysOf(found), page.next)
  <2>1. page.next \in Seq(Names) \ {Top} /\ page.next \in Seq(Nat)
    BY <1>4, NamesAreNat DEF IsWalk
  <2>2. page.next \in KeysOf(found)
    BY <1>2, <1>4
  <2>3. page.entries \in Seq(Seq(Names)) /\ Increasing(page.entries)
    BY <1>4 DEF IsPart
  <2>4. page.visited \in Nat /\ page.skips \in [Reasons -> Nat]
    <3>1. n \in 0 .. Len(found)
      BY <1>1
    <3>2. SubSeq(found, 1, n) \in Seq(FoundSet)
      BY <1>1, <3>1, PartIs
    <3>3. Visits(SubSeq(found, 1, n)) \in Nat /\ Skips(SubSeq(found, 1, n)) \in [Reasons -> Nat]
      BY <3>2, CountsAre
    <3> QED
      BY <1>4, <3>3 DEF IsPart
  <2>5. ToSet(page.entries) = {found[i].key : i \in {j \in 1 .. n : found[j].entry}}
    BY <1>4, PartKeys
  <2>6. ASSUME NEW i \in 1 .. Len(found), found[i].entry
        PROVE  i <= n <=> found[i].key = page.next \/ Before(found[i].key, page.next)
    <3>1. found[i].key \in Seq(Nat)
      BY <2>6, NamesAreNat DEF IsWalk
    <3>2. i < n => Before(found[i].key, page.next)
      BY <1>4, <2>6 DEF IsWalk
    <3>3. n < i => Before(page.next, found[i].key)
      BY <1>4, <2>6 DEF IsWalk
    <3>4. Before(page.next, found[i].key) => ~(found[i].key = page.next \/ Before(found[i].key, page.next))
      BY <2>1, <3>1, BeforeIrreflexive, BeforeTransitive
    <3>5. i < n \/ i = n \/ n < i
      BY <1>1
    <3>6. i \in Nat /\ n \in Nat
      BY <1>1
    <3> QED
      BY <1>4, <3>2, <3>3, <3>4, <3>5, <3>6
  <2>7. {found[i].key : i \in {j \in 1 .. n : found[j].entry}}
          = Through(KeysOf(found), page.next)
    <3>1. \A i \in 1 .. n : i \in 1 .. Len(found) /\ i <= n
      BY <1>1
    <3>2. \A i \in 1 .. Len(found) : i <= n => i \in 1 .. n
      BY <1>1
    <3> QED
      BY <1>2, <2>6, <3>1, <3>2 DEF Through
  <2> QED
    BY <2>1, <2>2, <2>3, <2>4, <2>5, <2>7
<1>5. \/ /\ page.next = Top /\ IsPart(page, found, Len(found))
         /\ page.visited = Visits(found) /\ page.skips = Skips(found)
      \/ \E n \in 1 .. Len(found) :
           found[n].entry /\ page.next = found[n].key /\ IsPart(page, found, n)
  BY PageIs
<1>6. CASE \E n \in 1 .. Len(found) :
             found[n].entry /\ page.next = found[n].key /\ IsPart(page, found, n)
  <2>1. PICK n \in 1 .. Len(found) :
          found[n].entry /\ page.next = found[n].key /\ IsPart(page, found, n)
    BY <1>6
  <2>2. /\ page.next \in Seq(Names) /\ page.next # Top /\ page.next \in KeysOf(found)
        /\ page.entries \in Seq(Seq(Names)) /\ Increasing(page.entries)
        /\ page.visited \in Nat /\ page.skips \in [Reasons -> Nat]
        /\ ToSet(page.entries) = Through(KeysOf(found), page.next)
    BY <1>4, <2>1
  <2>3. Through(KeysOf(found), page.next) \subseteq KeysOf(found)
    BY DEF Through
  <2> QED
    BY <2>2, <2>3
<1> QED
  BY <1>3, <1>5, <1>6

\* The rest of a walk, from an entry on.
Follows(found, key, rest) ==
  \A n \in 1 .. Len(found) :
    found[n].entry /\ found[n].key = key => rest = SubSeq(found, n + 1, Len(found))

LEMMA PageRest ==
  ASSUME NEW found, IsWalk(found), NEW room \in Nat \ {0}, NEW page, page = Page(found, room),
         page.next # Top, NEW rest, Follows(found, page.next, rest)
  PROVE  /\ page.visited + Visits(rest) = Visits(found)
         /\ \A s \in Reasons : page.skips[s] + Skips(rest)[s] = Skips(found)[s]
         /\ ToSet(page.entries) \cup KeysOf(rest) = KeysOf(found)
<1>1. found \in Seq(FoundSet) /\ Len(found) \in Nat
  BY DEF IsWalk
<1>2. PICK n \in 1 .. Len(found) :
        found[n].entry /\ page.next = found[n].key /\ IsPart(page, found, n)
  BY PageIs
<1>3. rest = SubSeq(found, n + 1, Len(found))
  BY <1>2 DEF Follows
<1> DEFINE part == SubSeq(found, 1, n)
<1>4. n \in 0 .. Len(found) /\ n \in Nat
  BY <1>1
<1>5. /\ part \in Seq(FoundSet) /\ Len(part) = n /\ \A k \in 1 .. n : part[k] = found[k]
      /\ rest \in Seq(FoundSet) /\ Len(rest) = Len(found) - n
      /\ \A k \in 1 .. Len(found) - n : rest[k] = found[n + k]
  BY <1>1, <1>3, <1>4, PartIs
<1> HIDE DEF part
<1>6. /\ Len(found) = Len(part) + Len(rest)
      /\ \A k \in 1 .. Len(part) : found[k] = part[k]
      /\ \A k \in 1 .. Len(rest) : found[Len(part) + k] = rest[k]
  BY <1>1, <1>4, <1>5
<1>7. /\ Visits(found) = Visits(part) + Visits(rest)
      /\ \A s \in Reasons : Skips(found)[s] = Skips(part)[s] + Skips(rest)[s]
  BY <1>1, <1>5, <1>6, CountsSplit
<1>8. page.visited = Visits(part) /\ page.skips = Skips(part)
  BY <1>2 DEF IsPart, part
<1>9. ToSet(page.entries) = {found[i].key : i \in {j \in 1 .. n : found[j].entry}}
  BY <1>2, PartKeys
<1>10. KeysOf(rest) = {found[i].key : i \in {j \in n + 1 .. Len(found) : found[j].entry}}
  <2>1. KeysOf(rest) = {rest[i].key : i \in {j \in 1 .. Len(found) - n : rest[j].entry}}
    <3>1. DOMAIN rest = 1 .. Len(found) - n
      BY <1>5
    <3> QED
      BY <3>1 DEF KeysOf, EntryIndexes
  <2>2. \A j \in 1 .. Len(found) - n : n + j \in n + 1 .. Len(found) /\ rest[j] = found[n + j]
    BY <1>1, <1>4, <1>5
  <2>3. \A j \in n + 1 .. Len(found) : \E k \in 1 .. Len(found) - n : j = n + k
    <3> SUFFICES ASSUME NEW j \in n + 1 .. Len(found) PROVE \E k \in 1 .. Len(found) - n : j = n + k
      OBVIOUS
    <3>1. j - n \in 1 .. Len(found) - n /\ j = n + (j - n)
      BY <1>1, <1>4
    <3> QED
      BY <3>1
  <2>4. \A j \in n + 1 .. Len(found) : \E k \in 1 .. Len(found) - n : rest[k] = found[j]
    BY <2>2, <2>3
  <2>5. \A k \in 1 .. Len(found) - n : \E j \in n + 1 .. Len(found) : rest[k] = found[j]
    BY <2>2
  <2> DEFINE I == 1 .. Len(found) - n
             J == n + 1 .. Len(found)
  <2> HIDE DEF I, J
  <2>6. {rest[i].key : i \in {j \in I : rest[j].entry}} = {found[i].key : i \in {j \in J : found[j].entry}}
    <3>1. ASSUME NEW k \in I, rest[k].entry
          PROVE  rest[k].key \in {found[i].key : i \in {j \in J : found[j].entry}}
      <4>1. PICK j \in J : rest[k] = found[j]
        BY <2>5 DEF I, J
      <4>2. found[j].entry /\ rest[k].key = found[j].key
        BY <3>1, <4>1
      <4> QED
        BY <4>2
    <3>2. ASSUME NEW j \in J, found[j].entry
          PROVE  found[j].key \in {rest[i].key : i \in {k \in I : rest[k].entry}}
      <4>1. PICK k \in I : rest[k] = found[j]
        BY <2>4 DEF I, J
      <4>2. rest[k].entry /\ rest[k].key = found[j].key
        BY <3>2, <4>1
      <4> QED
        BY <4>2
    <3> QED
      BY <3>1, <3>2
  <2> QED
    BY <2>1, <2>6 DEF I, J
<1>11. ToSet(page.entries) \cup KeysOf(rest) = KeysOf(found)
  <2>1. KeysOf(found) = {found[i].key : i \in {j \in 1 .. Len(found) : found[j].entry}}
    BY KeysAre
  <2>2. 1 .. Len(found) = 1 .. n \cup (n + 1 .. Len(found))
    BY <1>1, <1>4
  <2> QED
    BY <1>9, <1>10, <2>1, <2>2
<1> QED
  BY <1>7, <1>8, <1>11

-------------------------------------------------------------------------------
(***************************************************************************)
(* The two sources as one.                                                 *)
(***************************************************************************)

FoundFor(source, t, l, cursor) ==
  IF source = "folder" THEN FoundIn(t, cursor) ELSE RowsFound(l, cursor)

\* An entry that is still to come: behind the cursor, and not in a folder of the name of
\* the last file.
Ahead(source, cursor, e) ==
  Before(cursor, e) /\ (source = "folder" /\ cursor # Top => ~IsStrictPrefix(cursor, e))

LEMMA EntriesIn ==
  ASSUME NEW source, NEW t, IsTree(t), NEW l, IsList(l)
  PROVE  /\ EntriesOf(source, t, l) \subseteq Seq(Names) \ {Top}
         /\ EntriesOf(source, t, l) \subseteq Seq(Nat)
<1>1. FilesIn(t) \subseteq Seq(Names) \ {Top}
  BY LookedIn, PathsIn DEF FilesIn
<1>2. PluginsIn(l) \subseteq Seq(Names) \ {Top}
  <2>1. \A i \in DOMAIN l : l[i].id \in Names
    BY RowIs
  <2>2. \A i \in DOMAIN l : <<l[i].id>> \in Seq(Names) \ {Top}
    BY <2>1 DEF Top
  <2> QED
    BY <2>2 DEF PluginsIn
<1>3. EntriesOf(source, t, l) \subseteq Seq(Names) \ {Top}
  BY <1>1, <1>2 DEF EntriesOf
<1> QED
  BY <1>3, NamesAreNat

\* What a page finds are entries behind its cursor.
LEMMA SourceWalk ==
  ASSUME NEW source, NEW t, IsTree(t), NEW l, IsList(l), NEW c \in Seq(Nat)
  PROVE  /\ IsWalk(FoundFor(source, t, l, c))
         /\ KeysOf(FoundFor(source, t, l, c)) \subseteq EntriesOf(source, t, l)
         /\ \A k \in KeysOf(FoundFor(source, t, l, c)) : Before(c, k)
<1>1. IsWalk(FoundIn(t, c)) /\ IsWalk(RowsFound(l, c))
  BY FolderWalk, ListWalk
<1>2. \A k \in KeysOf(FoundIn(t, c)) : k \in FilesIn(t) /\ Before(c, k)
  BY FolderFinds
<1>3. \A k \in KeysOf(RowsFound(l, c)) : k \in PluginsIn(l) /\ Before(c, k)
  BY ListWalk
<1> QED
  BY <1>1, <1>2, <1>3 DEF FoundFor, EntriesOf

\* An entry that is still to come is found.
LEMMA SourceReaches ==
  ASSUME NEW source, NEW t, IsTree(t), NEW l, IsList(l), NEW c \in Seq(Nat),
         source = "folder" => ~CutShort(t, Top),
         NEW e \in EntriesOf(source, t, l), Ahead(source, c, e)
  PROVE  e \in KeysOf(FoundFor(source, t, l, c))
<1>1. CASE source = "folder"
  <2>1. ~CutShort(t, Top) /\ e \in FilesIn(t)
    BY <1>1 DEF EntriesOf
  <2>2. Before(c, e) /\ (c = Top \/ ~IsStrictPrefix(c, e))
    BY <1>1 DEF Ahead
  <2>3. e \in KeysOf(FoundIn(t, c))
    BY <2>1, <2>2, FolderReaches
  <2> QED
    BY <1>1, <2>3 DEF FoundFor
<1>2. CASE source # "folder"
  <2>1. e \in PluginsIn(l) /\ Before(c, e)
    BY <1>2 DEF EntriesOf, Ahead
  <2>2. e \in KeysOf(RowsFound(l, c))
    BY <2>1, ListWalk
  <2> QED
    BY <1>2, <2>2 DEF FoundFor
<1> QED
  BY <1>1, <1>2

\* No entry is in a folder of the name of an entry.
LEMMA EntryApart ==
  ASSUME NEW source, NEW t, IsTree(t), NEW l, NEW c \in EntriesOf(source, t, l),
         NEW e \in EntriesOf(source, t, l), Before(c, e)
  PROVE  Ahead(source, c, e)
<1>1. source = "folder" => ~IsStrictPrefix(c, e)
  BY FileHoldsNothing DEF EntriesOf, FilesIn
<1> QED
  BY <1>1 DEF Ahead

\* As long as the source does not change, the next page goes on where the page ends.
LEMMA SourceRest ==
  ASSUME NEW source, NEW t, IsTree(t), NEW l, IsList(l),
         source = "folder" => ~CutShort(t, Top),
         NEW c \in EntriesOf(source, t, l) \cup {Top}, NEW key
  PROVE  Follows(FoundFor(source, t, l, c), key, FoundFor(source, t, l, key))
<1>1. CASE source = "folder"
  <2>1. ~CutShort(t, Top) /\ c \in FilesIn(t) \cup {Top}
    BY <1>1 DEF EntriesOf
  <2>2. \A n \in 1 .. Len(FoundIn(t, c)) :
          FoundIn(t, c)[n].entry /\ FoundIn(t, c)[n].key = key
            => FoundIn(t, key) = SubSeq(FoundIn(t, c), n + 1, Len(FoundIn(t, c)))
    BY <2>1, FolderRest
  <2> QED
    BY <1>1, <2>2 DEF Follows, FoundFor
<1>2. CASE source # "folder"
  <2>1. c \in Seq(Nat)
    <3>1. Top \in Seq(Nat)
      BY DEF Top
    <3> QED
      BY <3>1, EntriesIn
  <2>2. \A n \in 1 .. Len(RowsFound(l, c)) :
          RowsFound(l, c)[n].entry /\ RowsFound(l, c)[n].key = key
            => RowsFound(l, key) = SubSeq(RowsFound(l, c), n + 1, Len(RowsFound(l, c)))
    BY <2>1, ListRest
  <2> QED
    BY <1>2, <2>2 DEF Follows, FoundFor
<1> QED
  BY <1>1, <1>2

-------------------------------------------------------------------------------
(***************************************************************************)
(* A listing and the page it takes.                                        *)
(***************************************************************************)

ListingSet ==
  [source : {"folder", "plugins"}, install : Nat, cursor : Seq(Names), listed : Seq(Seq(Names)),
   visited : Nat, skips : [Reasons -> Nat], stayed : SUBSET Seq(Names), steady : BOOLEAN]

\* What is listed lies before the cursor, or at it.
UpToCursor(x) ==
  \A k \in 1 .. Len(x.listed) : x.listed[k] = x.cursor \/ Before(x.listed[k], x.cursor)

\* What stayed is listed, or still to come.
Owes(x) == \A e \in x.stayed : e \in ToSet(x.listed) \/ Ahead(x.source, x.cursor, e)

\* What is listed and counted, and what would be found from the cursor on, add up to what
\* is found from the start.
Adds(x, t, l) ==
  /\ x.cursor \in EntriesOf(x.source, t, l) \cup {Top}
  /\ x.visited + Visits(FoundFor(x.source, t, l, x.cursor)) = Visits(FoundFor(x.source, t, l, Top))
  /\ \A s \in Reasons :
       x.skips[s] + Skips(FoundFor(x.source, t, l, x.cursor))[s]
         = Skips(FoundFor(x.source, t, l, Top))[s]
  /\ ToSet(x.listed) \cup KeysOf(FoundFor(x.source, t, l, x.cursor))
       = KeysOf(FoundFor(x.source, t, l, Top))

Added(x, t, l) ==
  /\ x.visited = Visits(FoundFor(x.source, t, l, Top))
  /\ x.skips = Skips(FoundFor(x.source, t, l, Top))
  /\ ToSet(x.listed) = KeysOf(FoundFor(x.source, t, l, Top))

\* Take, for one listing.
Taken(x, page) ==
  [x EXCEPT !.listed = @ \o page.entries,
            !.visited = @ + page.visited,
            !.skips = [s \in Reasons |-> @[s] + page.skips[s]],
            !.cursor = page.next]

LEMMA JoinedIs ==
  ASSUME NEW S, NEW a \in Seq(S), NEW b \in Seq(S)
  PROVE  /\ a \o b \in Seq(S) /\ Len(a \o b) = Len(a) + Len(b)
         /\ \A k \in 1 .. Len(a) : (a \o b)[k] = a[k]
         /\ \A k \in Len(a) + 1 .. Len(a) + Len(b) : (a \o b)[k] = b[k - Len(a)]
         /\ ToSet(a \o b) = ToSet(a) \cup ToSet(b)
<1>1. /\ a \o b \in Seq(S) /\ Len(a \o b) = Len(a) + Len(b)
      /\ \A k \in 1 .. Len(a) + Len(b) : (a \o b)[k] = IF k <= Len(a) THEN a[k] ELSE b[k - Len(a)]
  BY ConcatProperties
<1>2. PICK m \in Nat, n \in Nat : m = Len(a) /\ n = Len(b)
  OBVIOUS
<1>3. /\ \A k \in 1 .. m : (a \o b)[k] = a[k]
      /\ \A k \in m + 1 .. m + n : (a \o b)[k] = b[k - m]
  BY <1>1, <1>2
<1>4. /\ DOMAIN a = 1 .. m /\ DOMAIN b = 1 .. n /\ DOMAIN (a \o b) = 1 .. m + n
  BY <1>1, <1>2
<1>5. \A x \in ToSet(a \o b) : x \in ToSet(a) \cup ToSet(b)
  <2> SUFFICES ASSUME NEW k \in 1 .. m + n PROVE (a \o b)[k] \in ToSet(a) \cup ToSet(b)
    BY <1>4 DEF ToSet
  <2>1. CASE k \in 1 .. m
    BY <1>3, <1>4, <2>1 DEF ToSet
  <2>2. CASE k \in m + 1 .. m + n
    <3>1. k - m \in 1 .. n
      BY <1>2, <2>2
    <3>2. (a \o b)[k] = b[k - m]
      BY <1>3, <2>2
    <3> QED
      BY <1>4, <3>1, <3>2 DEF ToSet
  <2> QED
    BY <1>2, <2>1, <2>2
<1>6. \A x \in ToSet(a) : x \in ToSet(a \o b)
  <2> SUFFICES ASSUME NEW k \in 1 .. m PROVE a[k] \in ToSet(a \o b)
    BY <1>4 DEF ToSet
  <2>1. k \in 1 .. m + n /\ a[k] = (a \o b)[k]
    BY <1>2, <1>3
  <2> QED
    BY <1>4, <2>1 DEF ToSet
<1>7. \A x \in ToSet(b) : x \in ToSet(a \o b)
  <2> SUFFICES ASSUME NEW k \in 1 .. n PROVE b[k] \in ToSet(a \o b)
    BY <1>4 DEF ToSet
  <2>1. m + k \in 1 .. m + n /\ m + k \in m + 1 .. m + n /\ (m + k) - m = k
    BY <1>2
  <2>2. b[k] = (a \o b)[m + k]
    BY <1>3, <2>1
  <2> QED
    BY <1>4, <2>1, <2>2 DEF ToSet
<1> QED
  BY <1>1, <1>2, <1>3, <1>5, <1>6, <1>7

ListingFields(x) ==
  /\ x.source \in {"folder", "plugins"} /\ x.install \in Nat /\ x.cursor \in Seq(Names)
  /\ x.listed \in Seq(Seq(Names)) /\ x.visited \in Nat /\ x.skips \in [Reasons -> Nat]
  /\ x.stayed \in SUBSET Seq(Names) /\ x.steady \in BOOLEAN
  /\ x = [source |-> x.source, install |-> x.install, cursor |-> x.cursor, listed |-> x.listed,
          visited |-> x.visited, skips |-> x.skips, stayed |-> x.stayed, steady |-> x.steady]

LEMMA FieldsOfListing ==
  ASSUME NEW x \in ListingSet
  PROVE  ListingFields(x)
BY DEF ListingSet, ListingFields

LEMMA TakenIs ==
  ASSUME NEW x \in ListingSet, NEW page,
         page.entries \in Seq(Seq(Names)), page.visited \in Nat, page.skips \in [Reasons -> Nat],
         page.next \in Seq(Names)
  PROVE  /\ Taken(x, page) \in ListingSet
         /\ Taken(x, page).source = x.source /\ Taken(x, page).stayed = x.stayed
         /\ Taken(x, page).steady = x.steady
         /\ Taken(x, page).cursor = page.next /\ Taken(x, page).listed = x.listed \o page.entries
         /\ Taken(x, page).visited = x.visited + page.visited
         /\ Taken(x, page).skips \in [Reasons -> Nat]
         /\ \A s \in Reasons : Taken(x, page).skips[s] = x.skips[s] + page.skips[s]
         /\ ToSet(Taken(x, page).listed) = ToSet(x.listed) \cup ToSet(page.entries)
<1>1. ListingFields(x)
  BY FieldsOfListing
<1> DEFINE listed == x.listed \o page.entries
           visited == x.visited + page.visited
           skips == [s \in Reasons |-> x.skips[s] + page.skips[s]]
<1>2. listed \in Seq(Seq(Names)) /\ ToSet(listed) = ToSet(x.listed) \cup ToSet(page.entries)
  BY <1>1, JoinedIs DEF ListingFields
<1>3. visited \in Nat /\ skips \in [Reasons -> Nat]
  <2>1. x.visited \in Nat /\ x.skips \in [Reasons -> Nat]
    BY <1>1 DEF ListingFields
  <2>2. visited \in Nat
    BY <2>1
  <2>3. \A s \in Reasons : x.skips[s] + page.skips[s] \in Nat
    BY <2>1
  <2> QED
    BY <2>2, <2>3
<1>4. \A s \in Reasons : skips[s] = x.skips[s] + page.skips[s]
  OBVIOUS
<1>5. Taken(x, page)
        = [x EXCEPT !.listed = listed, !.visited = visited, !.skips = skips, !.cursor = page.next]
  BY DEF Taken
<1>6. listed = x.listed \o page.entries /\ visited = x.visited + page.visited
  OBVIOUS
<1> HIDE DEF listed, visited, skips
<1>8. Taken(x, page) = [source |-> x.source, install |-> x.install, cursor |-> page.next, listed |-> listed,
                        visited |-> visited, skips |-> skips, stayed |-> x.stayed, steady |-> x.steady]
  BY <1>1, <1>5 DEF ListingFields
<1>7. Taken(x, page) \in ListingSet
  BY <1>1, <1>2, <1>3, <1>8 DEF ListingFields, ListingSet
<1>9. /\ Taken(x, page).source = x.source /\ Taken(x, page).stayed = x.stayed
      /\ Taken(x, page).steady = x.steady /\ Taken(x, page).cursor = page.next
      /\ Taken(x, page).listed = listed /\ Taken(x, page).visited = visited /\ Taken(x, page).skips = skips
  BY <1>8
<1> QED
  BY <1>2, <1>3, <1>4, <1>6, <1>7, <1>9

\* The page that a listing takes, with what is known of it.
IsNextPage(x, t, l, page) ==
  /\ page.entries \in Seq(Seq(Names)) /\ Increasing(page.entries)
  /\ page.visited \in Nat /\ page.skips \in [Reasons -> Nat] /\ page.next \in Seq(Names)
  /\ ToSet(page.entries) \subseteq KeysOf(FoundFor(x.source, t, l, x.cursor))
  /\ page.next # Top =>
       /\ page.next \in KeysOf(FoundFor(x.source, t, l, x.cursor))
       /\ ToSet(page.entries) = Through(KeysOf(FoundFor(x.source, t, l, x.cursor)), page.next)
  /\ page.next = Top =>
       /\ ToSet(page.entries) = KeysOf(FoundFor(x.source, t, l, x.cursor))
       /\ page.visited = Visits(FoundFor(x.source, t, l, x.cursor))
       /\ page.skips = Skips(FoundFor(x.source, t, l, x.cursor))

LEMMA NextPageIs ==
  ASSUME NEW x \in ListingSet, NEW t, IsTree(t), NEW l, IsList(l), NEW room \in 1 .. MaxRoom,
         NEW page, page = Page(FoundFor(x.source, t, l, x.cursor), room)
  PROVE  IsNextPage(x, t, l, page)
<1> DEFINE found == FoundFor(x.source, t, l, x.cursor)
<1>1. room \in Nat \ {0}
  BY StudioCatalogAssumption
<1>2. x.cursor \in Seq(Nat)
  BY FieldsOfListing, NamesAreNat DEF ListingFields
<1>3. IsWalk(found)
  BY <1>2, SourceWalk
<1> HIDE DEF found
<1>4. page = Page(found, room)
  BY DEF found
<1>5. /\ page.entries \in Seq(Seq(Names)) /\ Increasing(page.entries)
      /\ page.visited \in Nat /\ page.skips \in [Reasons -> Nat] /\ page.next \in Seq(Names)
      /\ ToSet(page.entries) \subseteq KeysOf(found)
      /\ page.next = Top => /\ ToSet(page.entries) = KeysOf(found)
                            /\ page.visited = Visits(found) /\ page.skips = Skips(found)
      /\ page.next # Top => /\ page.next \in KeysOf(found)
                            /\ ToSet(page.entries) = Through(KeysOf(found), page.next)
  BY <1>1, <1>3, <1>4, PageTaken
<1> QED
  BY <1>5 DEF IsNextPage, found

\* No page breaks the order of what is listed.
LEMMA TakenInOrder ==
  ASSUME NEW x \in ListingSet, NEW t, IsTree(t), NEW l, IsList(l), NEW page,
         IsNextPage(x, t, l, page), Increasing(x.listed), UpToCursor(x)
  PROVE  /\ Taken(x, page) \in ListingSet
         /\ Increasing(Taken(x, page).listed)
         /\ page.next # Top => UpToCursor(Taken(x, page))
<1> DEFINE a == x.listed
           b == page.entries
           found == FoundFor(x.source, t, l, x.cursor)
           y == Taken(x, page)
<1>1. a \in Seq(Seq(Names)) /\ x.cursor \in Seq(Nat)
  BY FieldsOfListing, NamesAreNat DEF ListingFields
<1>2. b \in Seq(Seq(Names)) /\ Increasing(b) /\ page.next \in Seq(Names)
  BY DEF IsNextPage
<1>3. y \in ListingSet /\ y.cursor = page.next /\ y.listed = a \o b
  BY TakenIs DEF IsNextPage
<1>4. \A k \in KeysOf(found) : Before(x.cursor, k)
  BY <1>1, SourceWalk
<1>5. /\ ToSet(b) \subseteq KeysOf(found)
      /\ page.next # Top =>
           /\ page.next \in KeysOf(found)
           /\ ToSet(b) = Through(KeysOf(found), page.next)
  BY DEF IsNextPage
<1>6. /\ \A k \in 1 .. Len(a) : a[k] = x.cursor \/ Before(a[k], x.cursor)
      /\ Increasing(a)
  BY DEF UpToCursor
<1> HIDE DEF a, b, found, y
<1>7. PICK m \in Nat, n \in Nat : m = Len(a) /\ n = Len(b)
  BY <1>1, <1>2
<1>8. /\ \A k \in 1 .. m : a[k] \in Seq(Nat)
      /\ \A k \in 1 .. n : b[k] \in Seq(Nat) /\ b[k] \in ToSet(b)
  <2>1. DOMAIN b = 1 .. n
    BY <1>2, <1>7
  <2>2. \A k \in 1 .. m : a[k] \in Seq(Names)
    BY <1>1, <1>7
  <2>3. \A k \in 1 .. n : b[k] \in Seq(Names)
    BY <1>2, <1>7
  <2>4. \A k \in 1 .. n : b[k] \in ToSet(b)
    BY <2>1 DEF ToSet
  <2> QED
    BY <2>2, <2>3, <2>4, NamesAreNat
<1>9. ASSUME NEW k \in 1 .. m, NEW e \in Seq(Nat), Before(x.cursor, e) PROVE Before(a[k], e)
  <2>1. a[k] = x.cursor \/ Before(a[k], x.cursor)
    BY <1>6, <1>7
  <2> QED
    BY <1>1, <1>8, <1>9, <2>1, BeforeTransitive
<1>10. /\ Len(a \o b) = m + n
       /\ \A k \in 1 .. m : (a \o b)[k] = a[k]
       /\ \A k \in m + 1 .. m + n : (a \o b)[k] = b[k - m] /\ k - m \in 1 .. n
  BY <1>1, <1>2, <1>7, JoinedIs
<1>11. Increasing(a \o b)
  <2> SUFFICES ASSUME NEW j \in 1 .. m + n, NEW k \in 1 .. m + n, j < k
               PROVE  Before((a \o b)[j], (a \o b)[k])
    BY <1>10 DEF Increasing
  <2>1. CASE k \in 1 .. m
    <3>1. j \in 1 .. m
      BY <1>7, <2>1
    <3> QED
      BY <1>6, <1>7, <1>10, <2>1, <3>1 DEF Increasing
  <2>2. CASE k \in m + 1 .. m + n /\ j \in 1 .. m
    <3>1. (a \o b)[k] \in ToSet(b) /\ (a \o b)[k] \in Seq(Nat)
      BY <1>8, <1>10, <2>2
    <3>2. Before(x.cursor, (a \o b)[k])
      BY <1>4, <1>5, <3>1
    <3> QED
      BY <1>9, <1>10, <2>2, <3>1, <3>2
  <2>3. CASE k \in m + 1 .. m + n /\ j \in m + 1 .. m + n
    <3>1. j - m \in 1 .. n /\ k - m \in 1 .. n /\ j - m < k - m
      BY <1>7, <2>3
    <3>2. Before(b[j - m], b[k - m])
      BY <1>2, <1>7, <3>1 DEF Increasing
    <3> QED
      BY <1>10, <2>3, <3>2
  <2> QED
    BY <1>7, <2>1, <2>2, <2>3
<1>12. ASSUME page.next # Top, NEW k \in 1 .. m + n
       PROVE  (a \o b)[k] = page.next \/ Before((a \o b)[k], page.next)
  <2>1. CASE k \in 1 .. m
    <3>1. page.next \in Seq(Nat) /\ Before(x.cursor, page.next)
      BY <1>2, <1>4, <1>5, <1>12, NamesAreNat
    <3> QED
      BY <1>9, <1>10, <2>1, <3>1
  <2>2. CASE k \in m + 1 .. m + n
    <3>1. (a \o b)[k] \in ToSet(b)
      BY <1>8, <1>10, <2>2
    <3> QED
      BY <1>5, <1>12, <3>1 DEF Through
  <2> QED
    BY <1>7, <2>1, <2>2
<1>13. page.next # Top => UpToCursor(y)
  BY <1>3, <1>10, <1>12 DEF UpToCursor
<1> QED
  BY <1>3, <1>11, <1>13 DEF y

\* Of what stayed, a page takes all that it passes.
LEMMA TakenOwes ==
  ASSUME NEW x \in ListingSet, NEW t, IsTree(t), NEW l, IsList(l), NEW page,
         IsNextPage(x, t, l, page), x.source = "folder" => ~CutShort(t, Top),
         x.stayed \subseteq EntriesOf(x.source, t, l), Owes(x)
  PROVE  /\ page.next = Top => Taken(x, page).stayed \subseteq ToSet(Taken(x, page).listed)
         /\ page.next # Top => Owes(Taken(x, page))
<1> DEFINE y == Taken(x, page)
           found == FoundFor(x.source, t, l, x.cursor)
<1>1. x.cursor \in Seq(Nat)
  BY FieldsOfListing, NamesAreNat DEF ListingFields
<1>2. /\ y.source = x.source /\ y.stayed = x.stayed /\ y.cursor = page.next
      /\ ToSet(y.listed) = ToSet(x.listed) \cup ToSet(page.entries)
  BY TakenIs DEF IsNextPage
<1>3. /\ page.next # Top =>
           /\ page.next \in KeysOf(found)
           /\ ToSet(page.entries) = Through(KeysOf(found), page.next)
      /\ page.next = Top => ToSet(page.entries) = KeysOf(found)
  BY DEF IsNextPage
<1>4. KeysOf(found) \subseteq EntriesOf(x.source, t, l)
  BY <1>1, SourceWalk
<1>5. ASSUME NEW e \in x.stayed PROVE e \in ToSet(x.listed) \/ e \in KeysOf(found)
  <2>1. e \in EntriesOf(x.source, t, l)
    OBVIOUS
  <2>2. CASE Ahead(x.source, x.cursor, e)
    BY <1>1, <2>1, <2>2, SourceReaches
  <2> QED
    BY <2>2 DEF Owes
<1> HIDE DEF y, found
<1>6. page.next = Top => y.stayed \subseteq ToSet(y.listed)
  BY <1>2, <1>3, <1>5
<1>7. ASSUME page.next # Top, NEW e \in x.stayed
      PROVE  e \in ToSet(y.listed) \/ Ahead(x.source, page.next, e)
  <2>1. CASE e \in KeysOf(found) /\ e \notin ToSet(page.entries)
    <3>1. page.next \in EntriesOf(x.source, t, l) /\ e \in EntriesOf(x.source, t, l)
      BY <1>3, <1>4, <1>7
    <3>2. ~(e = page.next \/ Before(e, page.next))
      BY <1>3, <1>7, <2>1 DEF Through
    <3>3. page.next \in Seq(Nat) /\ e \in Seq(Nat)
      BY <3>1, EntriesIn
    <3>4. Before(page.next, e)
      BY <3>2, <3>3, BeforeTotal
    <3> QED
      BY <3>1, <3>4, EntryApart
  <2> QED
    BY <1>2, <1>5, <2>1
<1>8. page.next # Top => Owes(y)
  BY <1>2, <1>7 DEF Owes
<1> QED
  BY <1>6, <1>8 DEF y

\* A page moves to the listing what the rest of the walk then lacks.
LEMMA TakenAdds ==
  ASSUME NEW x \in ListingSet, NEW t, IsTree(t), NEW l, IsList(l), NEW room \in 1 .. MaxRoom,
         NEW page, page = Page(FoundFor(x.source, t, l, x.cursor), room),
         x.source = "folder" => ~CutShort(t, Top), Adds(x, t, l)
  PROVE  /\ page.next = Top => Added(Taken(x, page), t, l)
         /\ page.next # Top => Adds(Taken(x, page), t, l)
<1> DEFINE y == Taken(x, page)
           found == FoundFor(x.source, t, l, x.cursor)
           whole == FoundFor(x.source, t, l, Top)
           rest == FoundFor(x.source, t, l, page.next)
<1>1. x.cursor \in Seq(Nat) /\ x.visited \in Nat /\ x.skips \in [Reasons -> Nat] /\ room \in Nat \ {0}
  BY FieldsOfListing, NamesAreNat, StudioCatalogAssumption DEF ListingFields
<1>2. IsNextPage(x, t, l, page)
  BY NextPageIs
<1>3. /\ y.source = x.source /\ y.cursor = page.next
      /\ y.visited = x.visited + page.visited
      /\ y.skips \in [Reasons -> Nat]
      /\ \A s \in Reasons : y.skips[s] = x.skips[s] + page.skips[s]
      /\ ToSet(y.listed) = ToSet(x.listed) \cup ToSet(page.entries)
  BY <1>2, TakenIs DEF IsNextPage
<1>4. /\ x.cursor \in EntriesOf(x.source, t, l) \cup {Top}
      /\ x.visited + Visits(found) = Visits(whole)
      /\ \A s \in Reasons : x.skips[s] + Skips(found)[s] = Skips(whole)[s]
      /\ ToSet(x.listed) \cup KeysOf(found) = KeysOf(whole)
  BY DEF Adds
<1>5. Top \in Seq(Nat)
  BY DEF Top
<1>6. IsWalk(found) /\ IsWalk(whole) /\ KeysOf(found) \subseteq EntriesOf(x.source, t, l)
  BY <1>1, <1>5, SourceWalk
<1>7. Follows(found, page.next, rest)
  BY <1>4, SourceRest
<1>8. /\ page.visited \in Nat /\ page.skips \in [Reasons -> Nat] /\ page.next \in Seq(Nat)
      /\ page.next # Top => page.next \in KeysOf(found)
      /\ page.next = Top => /\ ToSet(page.entries) = KeysOf(found)
                            /\ page.visited = Visits(found) /\ page.skips = Skips(found)
  BY <1>2, NamesAreNat DEF IsNextPage
<1>9. IsWalk(rest)
  BY <1>8, SourceWalk
<1>10. page = Page(found, room)
  OBVIOUS
<1> HIDE DEF y, found, whole, rest
<1>11. /\ Visits(found) \in Nat /\ Skips(found) \in [Reasons -> Nat]
       /\ Visits(whole) \in Nat /\ Skips(whole) \in [Reasons -> Nat]
       /\ Visits(rest) \in Nat /\ Skips(rest) \in [Reasons -> Nat]
  BY <1>6, <1>9, CountsAre DEF IsWalk
<1>12. ASSUME page.next = Top
       PROVE  /\ y.visited = Visits(whole) /\ y.skips = Skips(whole)
              /\ ToSet(y.listed) = KeysOf(whole)
  <2>1. \A s \in Reasons : y.skips[s] = Skips(whole)[s]
    BY <1>3, <1>4, <1>8, <1>12
  <2>2. y.skips = Skips(whole)
    BY <1>3, <1>11, <2>1
  <2> QED
    BY <1>3, <1>4, <1>8, <1>12, <2>2
<1>13. ASSUME page.next # Top
       PROVE  /\ y.visited + Visits(rest) = Visits(whole)
              /\ \A s \in Reasons : y.skips[s] + Skips(rest)[s] = Skips(whole)[s]
              /\ ToSet(y.listed) \cup KeysOf(rest) = KeysOf(whole)
              /\ page.next \in EntriesOf(x.source, t, l)
  <2>1. /\ page.visited + Visits(rest) = Visits(found)
        /\ \A s \in Reasons : page.skips[s] + Skips(rest)[s] = Skips(found)[s]
        /\ ToSet(page.entries) \cup KeysOf(rest) = KeysOf(found)
    BY <1>1, <1>6, <1>7, <1>10, <1>13, PageRest
  <2>2. y.visited + Visits(rest) = Visits(whole)
    BY <1>1, <1>3, <1>4, <1>8, <1>11, <2>1, SMTT(30)
  <2>3. ASSUME NEW s \in Reasons PROVE y.skips[s] + Skips(rest)[s] = Skips(whole)[s]
    <3>1. /\ x.skips[s] \in Nat /\ page.skips[s] \in Nat /\ Skips(rest)[s] \in Nat
          /\ Skips(found)[s] \in Nat /\ Skips(whole)[s] \in Nat
      BY <1>1, <1>8, <1>11
    <3>2. /\ y.skips[s] = x.skips[s] + page.skips[s]
          /\ page.skips[s] + Skips(rest)[s] = Skips(found)[s]
          /\ x.skips[s] + Skips(found)[s] = Skips(whole)[s]
      BY <1>3, <1>4, <2>1
    <3> QED
      BY <3>1, <3>2
  <2>4. ToSet(y.listed) \cup KeysOf(rest) = KeysOf(whole)
    BY <1>3, <1>4, <2>1
  <2> QED
    BY <1>6, <1>8, <1>13, <2>2, <2>3, <2>4
<1>14. page.next = Top => Added(y, t, l)
  BY <1>3, <1>12 DEF Added, whole
<1>15. page.next # Top => Adds(y, t, l)
  BY <1>3, <1>13 DEF Adds, whole, rest
<1> QED
  BY <1>14, <1>15 DEF y

-------------------------------------------------------------------------------
(***************************************************************************)
(* The invariant.                                                          *)
(***************************************************************************)

\* What there is, and what may come, are folders and lists.
StudioWorld ==
  /\ studioLeft = [listings |-> studioLeft.listings, changes |-> studioLeft.changes,
                   trees |-> studioLeft.trees, lists |-> studioLeft.lists]
  /\ \A t \in studioLeft.trees : IsTree(t)
  /\ \A l \in studioLeft.lists : IsList(l)
  /\ tree \in studioLeft.trees /\ rows \in studioLeft.lists /\ install \in Nat
  /\ fxFile \in studioLeft.lists \cup {NoList}
  /\ phase \in [Readers -> Phases]
  /\ listing \in [Readers -> ListingSet]

Active == {"ask", "run", "read"}

\* No walk of this source ends at its limit.
SeesAll(x) == x.source = "folder" => ~CutShortSomewhere

\* A list in the file is as good as the installed plugins: it came after what stayed, and
\* with a steady listing it is the same.
ListFits(x) ==
  fxFile # NoList => x.stayed \subseteq PluginsIn(fxFile) /\ (x.steady => fxFile = rows)

ReaderInv(r) ==
  /\ listing[r].stayed \subseteq EntriesOf(listing[r].source, tree, rows)
  /\ Increasing(listing[r].listed)
  /\ phase[r] \in {"run", "read"} => listing[r].source = "plugins" /\ ListFits(listing[r])
  /\ phase[r] \in Active => UpToCursor(listing[r])
  /\ phase[r] \in Active /\ SeesAll(listing[r]) => Owes(listing[r])
  /\ phase[r] \in Active /\ SeesAll(listing[r]) /\ listing[r].steady => Adds(listing[r], tree, rows)
  /\ phase[r] = "done" /\ SeesAll(listing[r]) => listing[r].stayed \subseteq ToSet(listing[r].listed)
  /\ phase[r] = "done" /\ SeesAll(listing[r]) /\ listing[r].steady => Added(listing[r], tree, rows)

StudioInv == StudioWorld /\ \A r \in Readers : ReaderInv(r)

LEMMA SeesAllIs ==
  ASSUME StudioWorld, NEW x, SeesAll(x)
  PROVE  x.source = "folder" => ~CutShort(tree, Top)
BY DEF StudioWorld, SeesAll, CutShortSomewhere

LEMMA BegunIs ==
  ASSUME install \in Nat, NEW source \in {"folder", "plugins"}, NEW entries \in SUBSET Seq(Names)
  PROVE  /\ Begun(source, entries) \in ListingSet
         /\ Begun(source, entries).source = source /\ Begun(source, entries).cursor = Top
         /\ Begun(source, entries).listed = <<>> /\ Begun(source, entries).visited = 0
         /\ \A s \in Reasons : Begun(source, entries).skips[s] = 0
         /\ Begun(source, entries).stayed = entries
<1>1. Nothing \in [Reasons -> Nat] /\ \A s \in Reasons : Nothing[s] = 0
  BY DEF Nothing
<1>2. Top \in Seq(Names) /\ <<>> \in Seq(Seq(Names))
  BY DEF Top
<1>3. Begun(source, entries) \in ListingSet
  BY <1>1, <1>2 DEF Begun, ListingSet
<1> QED
  BY <1>1, <1>3 DEF Begun

\* A listing that begins has everything to come.
LEMMA BegunFits ==
  ASSUME install \in Nat, NEW t, IsTree(t), NEW l, IsList(l), NEW source \in {"folder", "plugins"},
         NEW x, x = Begun(source, EntriesOf(source, t, l))
  PROVE  /\ x \in ListingSet /\ x.source = source /\ x.stayed = EntriesOf(source, t, l)
         /\ Increasing(x.listed) /\ UpToCursor(x) /\ Owes(x) /\ Adds(x, t, l)
<1> DEFINE all == EntriesOf(source, t, l)
           whole == FoundFor(source, t, l, Top)
<1>1. all \in SUBSET Seq(Names) /\ \A e \in all : e \in Seq(Nat) /\ e # Top
  BY EntriesIn
<1>2. /\ x \in ListingSet /\ x.source = source /\ x.cursor = Top /\ x.listed = <<>> /\ x.visited = 0
      /\ \A s \in Reasons : x.skips[s] = 0
      /\ x.stayed = all
  BY <1>1, BegunIs
<1>3. Increasing(x.listed) /\ UpToCursor(x)
  BY <1>2 DEF Increasing, UpToCursor
<1>4. Owes(x)
  BY <1>1, <1>2, TopIsBefore DEF Owes, Ahead
<1>5. Adds(x, t, l)
  <2>1. Top \in Seq(Nat)
    BY DEF Top
  <2>2. IsWalk(whole)
    BY <2>1, SourceWalk
  <2> HIDE DEF whole
  <2>3. Visits(whole) \in Nat /\ Skips(whole) \in [Reasons -> Nat]
    BY <2>2, CountsAre DEF IsWalk
  <2>4. ToSet(x.listed) = {}
    BY <1>2 DEF ToSet
  <2>5. x.visited + Visits(whole) = Visits(whole)
    BY <1>2, <2>3
  <2>6. \A s \in Reasons : x.skips[s] + Skips(whole)[s] = Skips(whole)[s]
    BY <1>2, <2>3
  <2> QED
    BY <1>2, <2>4, <2>5, <2>6 DEF Adds, whole
<1> QED
  BY <1>2, <1>3, <1>4, <1>5

LEMMA StudioStarts ==
  ASSUME NEW i, \A t \in i.trees : IsTree(t), \A l \in i.lists : IsList(l), StudioStart(i)
  PROVE  StudioInv
<1> DEFINE x == Begun("folder", {})
<1>1. install \in Nat /\ \A r \in Readers : listing[r] = x /\ phase[r] = "idle"
  BY DEF StudioStart
<1>2. x \in ListingSet /\ x.listed = <<>> /\ x.stayed = {}
  BY <1>1, BegunIs
<1> HIDE DEF x
<1>3. listing = [r \in Readers |-> x]
  BY DEF StudioStart, x
<1>4. StudioWorld
  <2>1. phase \in [Readers -> Phases] /\ listing \in [Readers -> ListingSet]
    BY <1>2, <1>3 DEF StudioStart, Phases
  <2>2. /\ studioLeft = [listings |-> studioLeft.listings, changes |-> studioLeft.changes,
                         trees |-> studioLeft.trees, lists |-> studioLeft.lists]
        /\ studioLeft.trees = i.trees /\ studioLeft.lists = i.lists
    BY DEF StudioStart
  <2> QED
    BY <1>1, <2>1, <2>2 DEF StudioStart, StudioWorld
<1>5. Increasing(x.listed)
  BY <1>2 DEF Increasing
<1>6. \A r \in Readers : ReaderInv(r)
  BY <1>1, <1>2, <1>5 DEF ReaderInv, Active
<1> QED
  BY <1>4, <1>6 DEF StudioInv

-------------------------------------------------------------------------------
(***************************************************************************)
(* The steps.                                                              *)
(***************************************************************************)

\* What a step of a reader leaves to the others.
OthersKeep(r) == \A q \in Readers : q # r => listing'[q] = listing[q] /\ phase'[q] = phase[q]

SeesAllSame ==
  studioLeft'.trees = studioLeft.trees => (CutShortSomewhere' <=> CutShortSomewhere)

LEMMA CutShortStays == SeesAllSame
BY DEF SeesAllSame, CutShortSomewhere

LEMMA ReaderStays ==
  ASSUME NEW q \in Readers, ReaderInv(q), listing'[q] = listing[q], phase'[q] = phase[q],
         tree' = tree, rows' = rows, studioLeft'.trees = studioLeft.trees,
         fxFile' \in {fxFile, NoList, rows}
  PROVE  ReaderInv(q)'
<1> DEFINE x == listing[q]
<1>1. CutShortSomewhere' <=> CutShortSomewhere
  BY CutShortStays DEF SeesAllSame
<1>2. SeesAll(x)' <=> SeesAll(x)
  BY <1>1 DEF SeesAll
<1>3. ASSUME phase[q] \in {"run", "read"} PROVE x.source = "plugins" /\ ListFits(x)'
  <2>1. x.source = "plugins" /\ ListFits(x) /\ x.stayed \subseteq PluginsIn(rows)
    BY <1>3 DEF ReaderInv, EntriesOf
  <2> QED
    BY <2>1 DEF ListFits
<1> QED
  BY <1>2, <1>3 DEF ReaderInv

LEMMA ReadersStay ==
  ASSUME StudioInv, StudioWorld', NEW r \in Readers, OthersKeep(r), ReaderInv(r)',
         tree' = tree, rows' = rows, studioLeft'.trees = studioLeft.trees,
         fxFile' \in {fxFile, NoList, rows}
  PROVE  StudioInv'
<1>1. ASSUME NEW q \in Readers, q # r PROVE ReaderInv(q)'
  <2>1. ReaderInv(q) /\ listing'[q] = listing[q] /\ phase'[q] = phase[q]
    BY <1>1 DEF StudioInv, OthersKeep
  <2> QED
    BY <2>1, ReaderStays
<1> QED
  BY <1>1 DEF StudioInv

\* A step that gives reader r the phase p and the listing y.
Gives(r, p, y) == phase' = [phase EXCEPT ![r] = p] /\ listing' = [listing EXCEPT ![r] = y]

LEMMA WorldStays ==
  ASSUME StudioWorld, NEW r \in Readers, NEW p \in Phases, NEW y \in ListingSet, Gives(r, p, y),
         UNCHANGED <<worldVars, studioLeft>>, fxFile' \in {fxFile, NoList, rows}
  PROVE  /\ StudioWorld' /\ OthersKeep(r) /\ phase'[r] = p /\ listing'[r] = y
         /\ tree' = tree /\ rows' = rows /\ studioLeft'.trees = studioLeft.trees
<1>1. phase \in [Readers -> Phases] /\ listing \in [Readers -> ListingSet]
  BY DEF StudioWorld
<1>2. phase' \in [Readers -> Phases] /\ listing' \in [Readers -> ListingSet]
  BY <1>1 DEF Gives
<1>3. OthersKeep(r) /\ phase'[r] = p /\ listing'[r] = y
  BY <1>1 DEF Gives, OthersKeep
<1>4. tree' = tree /\ rows' = rows /\ install' = install /\ studioLeft' = studioLeft
  BY DEF worldVars
<1>5. fxFile' \in studioLeft.lists \cup {NoList}
  BY DEF StudioWorld
<1> QED
  BY <1>2, <1>3, <1>4, <1>5 DEF StudioWorld

LEMMA FailKeeps ==
  ASSUME StudioInv, NEW r \in Readers, NEW from, Fail(r, from), UNCHANGED <<worldVars, fxFile, studioLeft>>
  PROVE  StudioInv'
<1> DEFINE x == listing[r]
<1>1. StudioWorld /\ ReaderInv(r)
  BY DEF StudioInv
<1>2. x \in ListingSet /\ "failed" \in Phases
  BY <1>1 DEF StudioWorld, Phases
<1>3. Gives(r, "failed", x)
  <2>1. listing \in [Readers -> ListingSet]
    BY <1>1 DEF StudioWorld
  <2>2. listing = [listing EXCEPT ![r] = x]
    BY <2>1
  <2> QED
    BY <2>2 DEF Gives, Fail
<1> HIDE DEF x
<1>4. /\ StudioWorld' /\ OthersKeep(r) /\ phase'[r] = "failed" /\ listing'[r] = x
      /\ tree' = tree /\ rows' = rows /\ studioLeft'.trees = studioLeft.trees
  BY <1>1, <1>2, <1>3, WorldStays
<1>5. ReaderInv(r)'
  BY <1>1, <1>4 DEF ReaderInv, Active, x
<1> QED
  BY <1>4, <1>5, ReadersStay

LEMMA ClearListKeeps ==
  ASSUME StudioInv, NEW r \in Readers, ClearList(r)
  PROVE  StudioInv'
<1> DEFINE x == listing[r]
<1>1. StudioWorld /\ ReaderInv(r)
  BY DEF StudioInv
<1>2. x \in ListingSet /\ "run" \in Phases
  BY <1>1 DEF StudioWorld, Phases
<1>3. Gives(r, "run", x)
  <2>1. listing \in [Readers -> ListingSet]
    BY <1>1 DEF StudioWorld
  <2>2. listing = [listing EXCEPT ![r] = x]
    BY <2>1
  <2> QED
    BY <2>2 DEF Gives, ClearList
<1>4. phase[r] = "ask" /\ x.source = "plugins" /\ fxFile' = NoList /\ UNCHANGED <<worldVars, studioLeft>>
  BY DEF ClearList
<1> HIDE DEF x
<1>5. /\ StudioWorld' /\ OthersKeep(r) /\ phase'[r] = "run" /\ listing'[r] = x
      /\ tree' = tree /\ rows' = rows /\ studioLeft'.trees = studioLeft.trees
  BY <1>1, <1>2, <1>3, <1>4, WorldStays
<1>6. CutShortSomewhere' <=> CutShortSomewhere
  BY <1>5, CutShortStays DEF SeesAllSame
<1>7. ReaderInv(r)'
  BY <1>1, <1>4, <1>5, <1>6 DEF ReaderInv, Active, SeesAll, ListFits, x
<1> QED
  BY <1>4, <1>5, <1>7, ReadersStay

LEMMA RunListKeeps ==
  ASSUME StudioInv, NEW r \in Readers, RunList(r)
  PROVE  StudioInv'
<1> DEFINE x == listing[r]
<1>1. StudioWorld /\ ReaderInv(r)
  BY DEF StudioInv
<1>2. x \in ListingSet /\ "read" \in Phases
  BY <1>1 DEF StudioWorld, Phases
<1>3. Gives(r, "read", x)
  <2>1. listing \in [Readers -> ListingSet]
    BY <1>1 DEF StudioWorld
  <2>2. listing = [listing EXCEPT ![r] = x]
    BY <2>1
  <2> QED
    BY <2>2 DEF Gives, RunList
<1>4. phase[r] = "run" /\ fxFile' = rows /\ UNCHANGED <<worldVars, studioLeft>>
  BY DEF RunList, ListPlugins
<1>5. x.source = "plugins" /\ x.stayed \subseteq PluginsIn(rows)
  BY <1>1, <1>4 DEF ReaderInv, EntriesOf
<1> HIDE DEF x
<1>6. /\ StudioWorld' /\ OthersKeep(r) /\ phase'[r] = "read" /\ listing'[r] = x
      /\ tree' = tree /\ rows' = rows /\ studioLeft'.trees = studioLeft.trees
  BY <1>1, <1>2, <1>3, <1>4, WorldStays
<1>7. CutShortSomewhere' <=> CutShortSomewhere
  BY <1>6, CutShortStays DEF SeesAllSame
<1>8. ListFits(listing[r])'
  BY <1>4, <1>5, <1>6 DEF ListFits
<1>9. ReaderInv(r)'
  BY <1>1, <1>4, <1>5, <1>6, <1>7, <1>8 DEF ReaderInv, Active, SeesAll, x
<1> QED
  BY <1>4, <1>6, <1>9, ReadersStay

\* The host reads on without the list having been written for it.
LEMMA RunListMistakenKeeps ==
  ASSUME StudioInv, NEW r \in Readers, RunListMistaken(r)
  PROVE  StudioInv'
<1> DEFINE x == listing[r]
<1>1. StudioWorld /\ ReaderInv(r)
  BY DEF StudioInv
<1>2. x \in ListingSet /\ "read" \in Phases
  BY <1>1 DEF StudioWorld, Phases
<1>3. Gives(r, "read", x)
  <2>1. listing \in [Readers -> ListingSet]
    BY <1>1 DEF StudioWorld
  <2>2. listing = [listing EXCEPT ![r] = x]
    BY <2>1
  <2> QED
    BY <2>2 DEF Gives, RunListMistaken
<1>4. phase[r] = "run" /\ fxFile' = fxFile /\ UNCHANGED <<worldVars, studioLeft>>
  BY DEF RunListMistaken
<1>5. x.source = "plugins" /\ ListFits(x)
  BY <1>1, <1>4 DEF ReaderInv
<1> HIDE DEF x
<1>6. /\ StudioWorld' /\ OthersKeep(r) /\ phase'[r] = "read" /\ listing'[r] = x
      /\ tree' = tree /\ rows' = rows /\ studioLeft'.trees = studioLeft.trees
  BY <1>1, <1>2, <1>3, <1>4, WorldStays
<1>7. CutShortSomewhere' <=> CutShortSomewhere
  BY <1>6, CutShortStays DEF SeesAllSame
<1>8. ListFits(listing[r])'
  BY <1>4, <1>5, <1>6 DEF ListFits
<1>9. ReaderInv(r)'
  BY <1>1, <1>4, <1>5, <1>6, <1>7, <1>8 DEF ReaderInv, Active, SeesAll, x
<1> QED
  BY <1>4, <1>6, <1>9, ReadersStay

\* Nobody's phase or listing changes, and the list is one that REAPER has now.
LEMMA LateListKeeps ==
  ASSUME StudioInv, LateList
  PROVE  StudioInv'
<1>1. /\ tree' = tree /\ rows' = rows /\ install' = install /\ studioLeft' = studioLeft
      /\ phase' = phase /\ listing' = listing /\ fxFile' = rows
  BY DEF LateList, ListPlugins, worldVars, readerVars
<1>2. StudioWorld'
  BY <1>1 DEF StudioInv, StudioWorld
<1>3. ASSUME NEW q \in Readers PROVE ReaderInv(q)'
  <2>1. ReaderInv(q) /\ listing'[q] = listing[q] /\ phase'[q] = phase[q]
    BY <1>1 DEF StudioInv
  <2> QED
    BY <1>1, <2>1, ReaderStays
<1> QED
  BY <1>2, <1>3 DEF StudioInv

LEMMA ReadSourcesKeeps ==
  ASSUME StudioInv, NEW r \in Readers, NEW source \in {"folder", "plugins"}, ReadSources(r, source)
  PROVE  StudioInv'
<1> DEFINE x == Begun(source, EntriesOf(source, tree, rows))
<1>1. StudioWorld /\ IsTree(tree) /\ IsList(rows) /\ install \in Nat
  BY DEF StudioInv, StudioWorld
<1>2. /\ x \in ListingSet /\ x.source = source /\ x.stayed = EntriesOf(source, tree, rows)
      /\ Increasing(x.listed) /\ UpToCursor(x) /\ Owes(x) /\ Adds(x, tree, rows)
  BY <1>1, BegunFits
<1>3. /\ phase' = [phase EXCEPT ![r] = "ask"] /\ listing' = [listing EXCEPT ![r] = x]
      /\ tree' = tree /\ rows' = rows /\ install' = install /\ fxFile' = fxFile
      /\ studioLeft' = [studioLeft EXCEPT !.listings[r] = @ - 1]
  BY DEF ReadSources, worldVars
<1> HIDE DEF x
<1>4. phase \in [Readers -> Phases] /\ listing \in [Readers -> ListingSet] /\ "ask" \in Phases
  BY <1>1 DEF StudioWorld, Phases
<1>5. phase' \in [Readers -> Phases] /\ listing' \in [Readers -> ListingSet]
  BY <1>2, <1>3, <1>4
<1>6. OthersKeep(r) /\ phase'[r] = "ask" /\ listing'[r] = x
  BY <1>3, <1>4 DEF OthersKeep
<1>7. /\ studioLeft'.trees = studioLeft.trees /\ studioLeft'.lists = studioLeft.lists
      /\ studioLeft' = [listings |-> studioLeft'.listings, changes |-> studioLeft'.changes,
                        trees |-> studioLeft'.trees, lists |-> studioLeft'.lists]
  BY <1>1, <1>3 DEF StudioWorld
<1>8. StudioWorld'
  BY <1>1, <1>3, <1>5, <1>7 DEF StudioWorld
<1>9. ReaderInv(r)'
  BY <1>2, <1>3, <1>6 DEF ReaderInv, Active
<1> QED
  BY <1>3, <1>6, <1>7, <1>8, <1>9, ReadersStay

\* A page is of the folder there is, or of the list in the file.
LEMMA TakeKeeps ==
  ASSUME StudioInv, NEW r \in Readers, phase[r] \in Active, NEW l, IsList(l), NEW room \in 1 .. MaxRoom,
         listing[r].stayed \subseteq EntriesOf(listing[r].source, tree, l),
         listing[r].steady => l = rows,
         Take(r, Page(FoundFor(listing[r].source, tree, l, listing[r].cursor), room)),
         UNCHANGED <<worldVars, fxFile, studioLeft>>
  PROVE  StudioInv'
<1> DEFINE x == listing[r]
           page == Page(FoundFor(x.source, tree, l, x.cursor), room)
           y == Taken(x, page)
           p == IF page.next = Top THEN "done" ELSE "ask"
<1>1. StudioWorld /\ ReaderInv(r) /\ IsTree(tree) /\ p \in Phases
  BY DEF StudioInv, StudioWorld, Phases
<1>2. x \in ListingSet
  BY <1>1 DEF StudioWorld
<1>3. Gives(r, p, y)
  <2>1. listing \in [Readers -> ListingSet] /\ phase \in [Readers -> Phases]
    BY <1>1 DEF StudioWorld
  <2>2. /\ listing' = [listing EXCEPT ![r].listed = @ \o page.entries,
                                      ![r].visited = @ + page.visited,
                                      ![r].skips = [s \in Reasons |-> @[s] + page.skips[s]],
                                      ![r].cursor = page.next]
        /\ phase' = [phase EXCEPT ![r] = IF page.next = Top THEN "done" ELSE "ask"]
    BY DEF Take
  <2> HIDE DEF page
  <2>3. listing' = [listing EXCEPT ![r] = y]
    BY <2>1, <2>2 DEF Taken
  <2> QED
    BY <2>2, <2>3 DEF Gives
<1>4. IsNextPage(x, tree, l, page)
  BY <1>1, <1>2, NextPageIs
<1>5. page = Page(FoundFor(x.source, tree, l, x.cursor), room)
  OBVIOUS
<1>6. x.stayed \subseteq EntriesOf(x.source, tree, l) /\ (x.steady => l = rows)
  OBVIOUS
<1>7. /\ x.stayed \subseteq EntriesOf(x.source, tree, rows) /\ Increasing(x.listed) /\ UpToCursor(x)
      /\ SeesAll(x) => Owes(x)
      /\ SeesAll(x) /\ x.steady => Adds(x, tree, rows)
  BY <1>1 DEF ReaderInv
<1>8. SeesAll(x) => (x.source = "folder" => ~CutShort(tree, Top))
  BY <1>1, SeesAllIs
<1> HIDE DEF x, page
<1>9. y \in ListingSet /\ Increasing(y.listed) /\ (page.next # Top => UpToCursor(y))
  BY <1>1, <1>2, <1>4, <1>7, TakenInOrder
<1>10. ASSUME SeesAll(x)
       PROVE  /\ page.next = Top => y.stayed \subseteq ToSet(y.listed)
              /\ page.next # Top => Owes(y)
  BY <1>1, <1>2, <1>4, <1>6, <1>7, <1>8, <1>10, TakenOwes
<1>11. ASSUME SeesAll(x), x.steady
       PROVE  /\ page.next = Top => Added(y, tree, rows)
              /\ page.next # Top => Adds(y, tree, rows)
  <2>1. l = rows /\ Adds(x, tree, l) /\ (x.source = "folder" => ~CutShort(tree, Top))
    BY <1>6, <1>7, <1>8, <1>11
  <2>2. /\ page.next = Top => Added(y, tree, l)
        /\ page.next # Top => Adds(y, tree, l)
    BY <1>1, <1>2, <1>5, <2>1, TakenAdds
  <2> QED
    BY <2>1, <2>2
<1>12. y.source = x.source /\ y.stayed = x.stayed /\ y.steady = x.steady
  BY <1>2, <1>4, TakenIs DEF IsNextPage
<1> HIDE DEF y
<1>13. p \in {"done", "ask"} /\ (p = "done" <=> page.next = Top)
  OBVIOUS
<1> HIDE DEF p
<1>14. /\ StudioWorld' /\ OthersKeep(r) /\ phase'[r] = p /\ listing'[r] = y
       /\ tree' = tree /\ rows' = rows /\ studioLeft'.trees = studioLeft.trees
  BY <1>1, <1>3, <1>9, WorldStays
<1>15. CutShortSomewhere' <=> CutShortSomewhere
  BY <1>14, CutShortStays DEF SeesAllSame
<1>16. SeesAll(listing[r])' <=> SeesAll(x)
  BY <1>12, <1>14, <1>15 DEF SeesAll
<1>17. ReaderInv(r)'
  BY <1>7, <1>9, <1>10, <1>11, <1>12, <1>13, <1>14, <1>16 DEF ReaderInv, Active
<1> QED
  BY <1>14, <1>17, ReadersStay

LEMMA ReadPageKeeps ==
  ASSUME StudioInv, NEW r \in Readers, ReadFilePage(r) \/ ReadListPage(r)
  PROVE  StudioInv'
<1> DEFINE x == listing[r]
<1>1. StudioWorld /\ ReaderInv(r) /\ IsList(rows)
  BY DEF StudioInv, StudioWorld
<1>2. CASE ReadFilePage(r)
  <2>1. PICK room \in 1 .. MaxRoom : Take(r, Page(FoundIn(tree, listing[r].cursor), room))
    BY <1>2 DEF ReadFilePage
  <2>2. phase[r] \in Active /\ x.source = "folder" /\ UNCHANGED <<worldVars, fxFile, studioLeft>>
    BY <1>2 DEF ReadFilePage, Active
  <2>3. FoundIn(tree, x.cursor) = FoundFor(x.source, tree, rows, x.cursor)
    BY <2>2 DEF FoundFor
  <2>4. x.stayed \subseteq EntriesOf(x.source, tree, rows)
    BY <1>1 DEF ReaderInv
  <2>5. Take(r, Page(FoundFor(listing[r].source, tree, rows, listing[r].cursor), room))
    BY <2>1, <2>3
  <2> QED
    BY <1>1, <2>2, <2>4, <2>5, TakeKeeps
<1>3. CASE ReadListPage(r)
  <2>1. PICK room \in 1 .. MaxRoom : Take(r, Page(RowsFound(fxFile, listing[r].cursor), room))
    BY <1>3 DEF ReadListPage
  <2>2. phase[r] = "read" /\ fxFile # NoList /\ UNCHANGED <<worldVars, fxFile, studioLeft>>
    BY <1>3 DEF ReadListPage
  <2>3. x.source = "plugins" /\ ListFits(x)
    BY <1>1, <2>2 DEF ReaderInv
  <2>4. x.stayed \subseteq EntriesOf(x.source, tree, fxFile) /\ (x.steady => fxFile = rows)
    BY <2>2, <2>3 DEF ListFits, EntriesOf
  <2>5. RowsFound(fxFile, x.cursor) = FoundFor(x.source, tree, fxFile, x.cursor)
    BY <2>3 DEF FoundFor
  <2>6. IsList(fxFile) /\ phase[r] \in Active
    BY <1>1, <2>2 DEF StudioWorld, Active
  <2>7. Take(r, Page(FoundFor(listing[r].source, tree, fxFile, listing[r].cursor), room))
    BY <2>1, <2>5
  <2> QED
    BY <2>2, <2>4, <2>6, <2>7, TakeKeeps
<1> QED
  BY <1>2, <1>3

\* A change takes from what stayed and from what is steady, and from nothing else.
LEMMA WorldChangesKeeps ==
  ASSUME StudioInv, WorldChanges
  PROVE  StudioInv'
<1>1. StudioWorld
  BY DEF StudioInv
<1>2. /\ tree' \in studioLeft.trees /\ rows' \in studioLeft.lists /\ install' \in Nat
      /\ phase' = phase /\ fxFile' = fxFile
      /\ studioLeft' = [studioLeft EXCEPT !.changes = @ - 1]
  BY <1>1 DEF WorldChanges, StudioWorld
<1>3. /\ studioLeft'.trees = studioLeft.trees /\ studioLeft'.lists = studioLeft.lists
      /\ studioLeft' = [listings |-> studioLeft'.listings, changes |-> studioLeft'.changes,
                        trees |-> studioLeft'.trees, lists |-> studioLeft'.lists]
  BY <1>1, <1>2 DEF StudioWorld
<1> DEFINE same(source) == IF source = "folder" THEN tree' = tree ELSE rows' = rows
           noted(x) == [x EXCEPT !.stayed = @ \cap EntriesOf(x.source, tree', rows'),
                                 !.steady = @ /\ same(x.source)]
<1>4. listing' = [r \in Readers |-> noted(listing[r])]
  BY DEF WorldChanges, Note
<1>5. ASSUME NEW r \in Readers
      PROVE  /\ listing'[r] \in ListingSet
             /\ listing'[r].source = listing[r].source /\ listing'[r].cursor = listing[r].cursor
             /\ listing'[r].listed = listing[r].listed /\ listing'[r].visited = listing[r].visited
             /\ listing'[r].skips = listing[r].skips
             /\ listing'[r].stayed = listing[r].stayed \cap EntriesOf(listing[r].source, tree', rows')
             /\ listing'[r].steady => listing[r].steady /\ same(listing[r].source)
  <2> DEFINE x == listing[r]
             stayed == x.stayed \cap EntriesOf(x.source, tree', rows')
             steady == x.steady /\ same(x.source)
  <2>1. x \in ListingSet
    BY <1>1 DEF StudioWorld
  <2>2. listing'[r] = [x EXCEPT !.stayed = stayed, !.steady = steady]
    BY <1>4
  <2>3. steady \in BOOLEAN /\ (steady => x.steady /\ same(x.source))
    OBVIOUS
  <2> HIDE DEF x, stayed, steady, same
  <2>4. ListingFields(x)
    BY <2>1, FieldsOfListing
  <2>5. listing'[r] = [source |-> x.source, install |-> x.install, cursor |-> x.cursor, listed |-> x.listed,
                       visited |-> x.visited, skips |-> x.skips, stayed |-> stayed, steady |-> steady]
    BY <2>2, <2>4 DEF ListingFields
  <2>6. stayed \in SUBSET Seq(Names)
    BY <2>4 DEF ListingFields, stayed
  <2>7. listing'[r] \in ListingSet
    BY <2>3, <2>4, <2>5, <2>6 DEF ListingFields, ListingSet
  <2>8. /\ listing'[r].source = x.source /\ listing'[r].cursor = x.cursor
        /\ listing'[r].listed = x.listed /\ listing'[r].visited = x.visited
        /\ listing'[r].skips = x.skips /\ listing'[r].stayed = stayed /\ listing'[r].steady = steady
    BY <2>5
  <2> QED
    BY <2>3, <2>7, <2>8 DEF x, stayed
<1>6. listing' = [r \in Readers |-> listing'[r]]
  BY <1>4
<1> HIDE DEF noted
<1>7. StudioWorld'
  <2>1. listing' \in [Readers -> ListingSet]
    BY <1>5, <1>6
  <2> QED
    BY <1>1, <1>2, <1>3, <2>1 DEF StudioWorld
<1>8. CutShortSomewhere' <=> CutShortSomewhere
  BY <1>3, CutShortStays DEF SeesAllSame
<1>9. ASSUME NEW r \in Readers PROVE ReaderInv(r)'
  <2> DEFINE x == listing[r]
             y == listing'[r]
  <2>1. ReaderInv(r)
    BY DEF StudioInv
  <2>2. /\ y.source = x.source /\ y.cursor = x.cursor /\ y.listed = x.listed
        /\ y.visited = x.visited /\ y.skips = x.skips
        /\ y.stayed \subseteq x.stayed /\ y.stayed \subseteq EntriesOf(y.source, tree', rows')
        /\ y.steady => x.steady /\ same(x.source)
    BY <1>5
  <2>3. SeesAll(x)' <=> SeesAll(x)
    BY <1>8, <2>2 DEF SeesAll
  <2>4. ASSUME y.steady, NEW c
        PROVE  /\ FoundFor(y.source, tree', rows', c) = FoundFor(x.source, tree, rows, c)
               /\ EntriesOf(y.source, tree', rows') = EntriesOf(x.source, tree, rows)
    BY <2>2, <2>4 DEF FoundFor, EntriesOf
  <2>5. y.steady /\ Adds(x, tree, rows) => Adds(y, tree', rows')
    BY <2>2, <2>4 DEF Adds
  <2>6. y.steady /\ Added(x, tree, rows) => Added(y, tree', rows')
    BY <2>2, <2>4 DEF Added
  <2>7. (UpToCursor(x) => UpToCursor(y)) /\ (Owes(x) => Owes(y))
    BY <2>2 DEF UpToCursor, Owes
  <2>8. phase[r] \in {"run", "read"} => y.source = "plugins" /\ ListFits(x)'
    <3> SUFFICES ASSUME phase[r] \in {"run", "read"} PROVE y.source = "plugins" /\ ListFits(x)'
      OBVIOUS
    <3>1. x.source = "plugins" /\ ListFits(x)
      BY <2>1 DEF ReaderInv
    <3>2. y.steady => x.steady /\ rows' = rows
      BY <2>2, <3>1
    <3> QED
      BY <1>2, <2>2, <3>1, <3>2 DEF ListFits
  <2>9. /\ phase'[r] = phase[r]
        /\ x.stayed \subseteq EntriesOf(x.source, tree, rows) /\ Increasing(x.listed)
        /\ phase[r] \in Active => UpToCursor(x)
        /\ phase[r] \in Active /\ SeesAll(x) => Owes(x)
        /\ phase[r] \in Active /\ SeesAll(x) /\ x.steady => Adds(x, tree, rows)
        /\ phase[r] = "done" /\ SeesAll(x) => x.stayed \subseteq ToSet(x.listed)
        /\ phase[r] = "done" /\ SeesAll(x) /\ x.steady => Added(x, tree, rows)
    BY <1>2, <2>1 DEF ReaderInv
  <2> HIDE DEF same
  <2> QED
    BY <2>2, <2>3, <2>5, <2>6, <2>7, <2>8, <2>9 DEF ReaderInv
<1> QED
  BY <1>7, <1>9 DEF StudioInv

LEMMA StudioStepKeeps ==
  ASSUME StudioInv, StudioStep
  PROVE  StudioInv'
<1>1. ASSUME NEW r \in Readers, ReaderStep(r) PROVE StudioInv'
  <2>1. CASE Unavailable(r)
    BY <2>1, FailKeeps DEF Unavailable
  <2>2. CASE ReadFilePage(r) \/ ReadListPage(r)
    BY <2>2, ReadPageKeeps
  <2>3. CASE ClearList(r)
    BY <2>3, ClearListKeeps
  <2>4. CASE RunListFails(r)
    BY <2>4, FailKeeps DEF RunListFails
  <2>5. CASE RunList(r)
    BY <2>5, RunListKeeps
  <2>6. CASE ListUnreadable(r)
    BY <2>6, FailKeeps DEF ListUnreadable
  <2>7. CASE RunListMistaken(r)
    BY <2>7, RunListMistakenKeeps
  <2> QED
    BY <1>1, <2>1, <2>2, <2>3, <2>4, <2>5, <2>6, <2>7 DEF ReaderStep
<1>2. ASSUME NEW r \in Readers, NEW source \in {"folder", "plugins"}, ReadSources(r, source) PROVE StudioInv'
  BY <1>2, ReadSourcesKeeps
<1>3. CASE LateList
  BY <1>3, LateListKeeps
<1>4. CASE WorldChanges
  BY <1>4, WorldChangesKeeps
<1> QED
  BY <1>1, <1>2, <1>3, <1>4 DEF StudioStep

LEMMA StudioUnchanged ==
  ASSUME StudioInv, UNCHANGED studioVars
  PROVE  StudioInv'
<1>1. /\ tree' = tree /\ rows' = rows /\ install' = install /\ studioLeft' = studioLeft
      /\ phase' = phase /\ listing' = listing /\ fxFile' = fxFile
  BY DEF studioVars, worldVars, readerVars
<1>2. StudioWorld'
  BY <1>1 DEF StudioInv, StudioWorld
<1>3. ASSUME NEW q \in Readers PROVE ReaderInv(q)'
  <2>1. ReaderInv(q) /\ listing'[q] = listing[q] /\ phase'[q] = phase[q]
    BY <1>1 DEF StudioInv
  <2> QED
    BY <1>1, <2>1, ReaderStays
<1> QED
  BY <1>2, <1>3 DEF StudioInv

-------------------------------------------------------------------------------
(***************************************************************************)
(* What follows of it.                                                     *)
(***************************************************************************)

LEMMA InvTyped ==
  ASSUME StudioInv
  PROVE  StudioTypeOK
<1>1. StudioWorld
  BY DEF StudioInv
<1>2. \A r \in Readers : ListingFields(listing[r])
  BY <1>1, FieldsOfListing DEF StudioWorld
<1> QED
  BY <1>1, <1>2 DEF StudioWorld, ListingFields, StudioTypeOK

LEMMA IncreasingOnce ==
  ASSUME NEW keys \in Seq(Seq(Names)), Increasing(keys)
  PROVE  IsInjective(keys)
<1>1. PICK n \in Nat : n = Len(keys)
  OBVIOUS
<1>2. DOMAIN keys = 1 .. n /\ \A k \in 1 .. n : keys[k] \in Seq(Nat)
  BY <1>1, NamesAreNat
<1>3. ASSUME NEW j \in 1 .. n, NEW k \in 1 .. n, keys[j] = keys[k] PROVE j = k
  <2>1. ~(j < k) /\ ~(k < j)
    BY <1>1, <1>2, <1>3, BeforeIrreflexive DEF Increasing
  <2> QED
    BY <2>1
<1> QED
  BY <1>2, <1>3 DEF IsInjective

LEMMA InvListsOnce ==
  ASSUME StudioInv
  PROVE  NothingListedTwice
<1>1. ASSUME NEW r \in Readers PROVE IsInjective(listing[r].listed)
  <2>1. listing[r] \in ListingSet /\ Increasing(listing[r].listed)
    BY DEF StudioInv, StudioWorld, ReaderInv
  <2>2. listing[r].listed \in Seq(Seq(Names))
    BY <2>1, FieldsOfListing DEF ListingFields
  <2> QED
    BY <2>1, <2>2, IncreasingOnce
<1> QED
  BY <1>1 DEF NothingListedTwice

LEMMA InvListsStayers ==
  ASSUME StudioInv
  PROVE  StayersAreListed
BY DEF StudioInv, ReaderInv, SeesAll, StayersAreListed

LEMMA SeqInto ==
  ASSUME NEW S, NEW s \in Seq(S), NEW T, \A k \in 1 .. Len(s) : s[k] \in T
  PROVE  s \in Seq(T)
<1>1. Len(s) \in Nat /\ s = [k \in 1 .. Len(s) |-> s[k]]
  OBVIOUS
<1>2. s \in [1 .. Len(s) -> T]
  BY <1>1
<1> QED
  BY <1>1, <1>2

\* Two sequences of the same keys in their order are the same.
LEMMA IncreasingSame ==
  ASSUME NEW a \in Seq(Seq(Names)), Increasing(a), NEW b \in Seq(Seq(Names)), Increasing(b),
         ToSet(a) = ToSet(b)
  PROVE  a = b
<1> DEFINE S == ToSet(a)
           before == BeforeIn(S)
<1>1. ASSUME NEW s \in Seq(Seq(Names)), Increasing(s), ToSet(s) = S PROVE Sorts(s, S, before)
  <2>1. DOMAIN s = 1 .. Len(s) /\ Len(s) \in Nat
    OBVIOUS
  <2>2. \A k \in 1 .. Len(s) : s[k] \in S
    BY <1>1, <2>1 DEF ToSet
  <2>3. s \in Seq(S)
    <3> HIDE DEF S
    <3> QED
      BY <2>2, SeqInto
  <2>4. \A x \in S : \E k \in 1 .. Len(s) : s[k] = x
    BY <1>1, <2>1 DEF ToSet
  <2>5. Rising(s, before)
    BY <1>1, <2>2 DEF Rising, Increasing, BeforeIn
  <2> QED
    BY <2>3, <2>4, <2>5 DEF Sorts
<1>2. S \in SUBSET Seq(Nat)
  BY NamesAreNat DEF ToSet
<1>3. IsOrder(S, before)
  BY <1>2, PathsAreOrdered
<1>4. ToSet(a) = S /\ ToSet(b) = S
  OBVIOUS
<1> HIDE DEF S, before
<1>5. Sorts(a, S, before) /\ Sorts(b, S, before)
  BY <1>1, <1>4
<1> QED
  BY <1>3, <1>5, SortsUnique

\* A page with room for every entry.
LEMMA WholeIs ==
  ASSUME NEW found, IsWalk(found), NEW room \in Nat, Cardinality(EntryIndexes(found)) <= room
  PROVE  /\ Page(found, room).visited = Visits(found) /\ Page(found, room).skips = Skips(found)
         /\ Page(found, room).entries = Entries(found)
         /\ Entries(found) \in Seq(Seq(Names)) /\ Increasing(Entries(found))
         /\ ToSet(Entries(found)) = KeysOf(found)
<1>1. ~IsFull(found, room)
  <2>1. IsFiniteSet(EntryIndexes(found)) /\ Cardinality(EntryIndexes(found)) \in Nat
    <3>1. found \in Seq(FoundSet)
      BY DEF IsWalk
    <3>2. IsFiniteSet(EntryIndexes(found))
      BY <3>1, EntryOrderIs
    <3> QED
      BY <3>2, FS_CardinalityType
  <2> QED
    BY <2>1 DEF IsFull
<1>2. /\ Page(found, room).visited = Visits(found) /\ Page(found, room).skips = Skips(found)
      /\ Page(found, room).entries = Entries(found)
  BY <1>1 DEF Page, Covered
<1> DEFINE keys == Entries(found)
<1>3. /\ keys \in Seq(Seq(Names)) /\ Increasing(keys)
      /\ \A i \in EntryIndexes(found) : \E k \in 1 .. Len(keys) : keys[k] = found[i].key
      /\ \A k \in 1 .. Len(keys) : \E i \in EntryIndexes(found) : keys[k] = found[i].key
  BY EntriesAre
<1> HIDE DEF keys
<1>4. DOMAIN keys = 1 .. Len(keys)
  BY <1>3
<1>5. ToSet(keys) = KeysOf(found)
  <2>1. ASSUME NEW k \in 1 .. Len(keys) PROVE keys[k] \in KeysOf(found)
    BY <1>3 DEF KeysOf
  <2>2. ASSUME NEW i \in EntryIndexes(found) PROVE found[i].key \in ToSet(keys)
    <3>1. PICK k \in 1 .. Len(keys) : keys[k] = found[i].key
      BY <1>3
    <3> QED
      BY <1>4, <3>1 DEF ToSet
  <2>3. \A e \in ToSet(keys) : e \in KeysOf(found)
    BY <1>4, <2>1 DEF ToSet
  <2>4. \A e \in KeysOf(found) : e \in ToSet(keys)
    BY <2>2 DEF KeysOf
  <2> QED
    BY <2>3, <2>4
<1> QED
  BY <1>2, <1>3, <1>5 DEF keys

\* There are not more entries than there are paths or rows.
LEMMA EntriesBounded ==
  ASSUME NEW found, IsWalk(found), NEW S, IsFiniteSet(S), KeysOf(found) \subseteq S
  PROVE  Cardinality(EntryIndexes(found)) <= Cardinality(S)
<1> DEFINE I == EntryIndexes(found)
           f == [i \in I |-> found[i].key]
<1>1. I \subseteq 1 .. Len(found) /\ \A i \in I : found[i].entry /\ found[i].key \in Seq(Nat)
  <2>1. DOMAIN found = 1 .. Len(found)
    BY DEF IsWalk
  <2> QED
    BY <2>1, NamesAreNat DEF EntryIndexes, IsWalk
<1>2. f \in [I -> S]
  BY DEF KeysOf
<1>3. ASSUME NEW i \in I, NEW j \in I, found[i].key = found[j].key PROVE i = j
  <2>1. i \in 1 .. Len(found) /\ j \in 1 .. Len(found) /\ found[i].entry /\ found[j].entry
    BY <1>1
  <2>2. ~Before(found[i].key, found[j].key) /\ ~Before(found[j].key, found[i].key)
    BY <1>1, <1>3, BeforeIrreflexive
  <2>3. ~(i < j) /\ ~(j < i)
    BY <2>1, <2>2 DEF IsWalk
  <2> QED
    BY <2>1, <2>3
<1>4. f \in Injection(I, S)
  BY <1>2, <1>3 DEF Injection, IsInjective
<1> HIDE DEF f, I
<1>5. Cardinality(I) <= Cardinality(S)
  BY <1>4, FS_Injection
<1> QED
  BY <1>5 DEF I

LEMMA RoomForAll ==
  ASSUME NEW source, NEW t, IsTree(t), NEW l, IsList(l),
         NEW room, room = IF source = "folder" THEN Cardinality(DOMAIN t) ELSE Len(l)
  PROVE  room \in Nat /\ Cardinality(EntryIndexes(FoundFor(source, t, l, Top))) <= room
<1> DEFINE found == FoundFor(source, t, l, Top)
<1>1. Top \in Seq(Nat)
  BY DEF Top
<1>2. IsWalk(found) /\ KeysOf(found) \subseteq EntriesOf(source, t, l)
  BY <1>1, SourceWalk
<1> HIDE DEF found
<1>3. CASE source = "folder"
  <2>1. IsFiniteSet(DOMAIN t)
    BY DEF IsTree
  <2>2. KeysOf(found) \subseteq DOMAIN t
    BY <1>2, <1>3, LookedIn DEF EntriesOf, FilesIn
  <2>3. Cardinality(EntryIndexes(found)) <= Cardinality(DOMAIN t)
    BY <1>2, <2>1, <2>2, EntriesBounded
  <2> QED
    BY <1>3, <2>1, <2>3, FS_CardinalityType DEF found
<1>4. CASE source # "folder"
  <2>1. DOMAIN l = 1 .. Len(l) /\ Len(l) \in Nat
    BY DEF IsList
  <2>2. IsFiniteSet(1 .. Len(l)) /\ Cardinality(1 .. Len(l)) = Len(l)
    <3> DEFINE n == Len(l)
    <3>1. 1 \in Int /\ n \in Int /\ (1 > n => n = 0)
      BY <2>1
    <3> HIDE DEF n
    <3>2. IsFiniteSet(1 .. n) /\ Cardinality(1 .. n) = IF 1 > n THEN 0 ELSE n - 1 + 1
      BY <3>1, FS_Interval
    <3>3. IsFiniteSet(1 .. n) /\ Cardinality(1 .. n) = n
      BY <3>1, <3>2
    <3> QED
      BY <3>3 DEF n
  <2> DEFINE f == [i \in DOMAIN l |-> <<l[i].id>>]
  <2>3. f \in Surjection(DOMAIN l, {f[i] : i \in DOMAIN l})
    BY DEF Surjection
  <2>4. IsFiniteSet({f[i] : i \in DOMAIN l}) /\ Cardinality({f[i] : i \in DOMAIN l}) <= Len(l)
    BY <2>1, <2>2, <2>3, FS_Surjection
  <2>5. KeysOf(found) \subseteq {f[i] : i \in DOMAIN l}
    BY <1>2, <1>4 DEF EntriesOf, PluginsIn
  <2> HIDE DEF f
  <2>6. Cardinality(EntryIndexes(found)) <= Cardinality({f[i] : i \in DOMAIN l})
    BY <1>2, <2>4, <2>5, EntriesBounded
  <2>7. Cardinality({f[i] : i \in DOMAIN l}) \in Nat /\ Cardinality(EntryIndexes(found)) \in Nat
    <3>1. IsFiniteSet(EntryIndexes(found))
      BY <1>2, EntryOrderIs DEF IsWalk
    <3> QED
      BY <2>4, <3>1, FS_CardinalityType
  <2>8. Cardinality(EntryIndexes(found)) <= Len(l)
    BY <2>1, <2>4, <2>6, <2>7
  <2> QED
    BY <1>4, <2>1, <2>8 DEF found
<1> QED
  BY <1>3, <1>4

LEMMA InvAddsUp ==
  ASSUME StudioInv
  PROVE  PagesAddUp
<1> SUFFICES ASSUME NEW r \in Readers, phase[r] = "done", listing[r].steady, SeesAll(listing[r])
             PROVE  LET whole == WholePage(listing[r].source) IN
                    /\ listing[r].visited = whole.visited
                    /\ listing[r].skips = whole.skips
                    /\ listing[r].listed = whole.entries
  BY DEF PagesAddUp, SeesAll
<1> DEFINE x == listing[r]
           found == FoundFor(x.source, tree, rows, Top)
           room == IF x.source = "folder" THEN Cardinality(DOMAIN tree) ELSE Len(rows)
<1>1. IsTree(tree) /\ IsList(rows) /\ x \in ListingSet
  BY DEF StudioInv, StudioWorld
<1>2. Increasing(x.listed) /\ Added(x, tree, rows)
  BY DEF StudioInv, ReaderInv
<1>3. x.listed \in Seq(Seq(Names))
  BY <1>1, FieldsOfListing DEF ListingFields
<1>4. WholePage(x.source) = Page(found, room)
  BY DEF WholePage, FilePage, ListPage, FoundFor
<1>5. room \in Nat /\ Cardinality(EntryIndexes(found)) <= room
  BY <1>1, RoomForAll
<1>6. IsWalk(found)
  <2>1. Top \in Seq(Nat)
    BY DEF Top
  <2> QED
    BY <1>1, <2>1, SourceWalk
<1>7. /\ x.visited = Visits(found) /\ x.skips = Skips(found) /\ ToSet(x.listed) = KeysOf(found)
  BY <1>2 DEF Added
<1> HIDE DEF found, room, x
<1>8. /\ Page(found, room).visited = Visits(found) /\ Page(found, room).skips = Skips(found)
      /\ Page(found, room).entries = Entries(found)
      /\ Entries(found) \in Seq(Seq(Names)) /\ Increasing(Entries(found))
      /\ ToSet(Entries(found)) = KeysOf(found)
  BY <1>5, <1>6, WholeIs
<1>9. x.listed = Entries(found)
  BY <1>2, <1>3, <1>7, <1>8, IncreasingSame
<1> QED
  BY <1>4, <1>7, <1>8, <1>9 DEF x

\* A page that is not the last ends with an entry that it has found, and it finds only
\* what is behind its cursor.
LEMMA PageGoesOn ==
  ASSUME StudioInv, NEW r \in Readers, ReadFilePage(r) \/ ReadListPage(r), phase'[r] = "ask"
  PROVE  Before(listing[r].cursor, listing'[r].cursor)
<1> DEFINE x == listing[r]
<1>1. StudioWorld /\ ReaderInv(r) /\ IsTree(tree) /\ x \in ListingSet
  BY DEF StudioInv, StudioWorld
<1>2. \E l : \E room \in 1 .. MaxRoom : IsList(l) /\ Take(r, Page(FoundFor(x.source, tree, l, x.cursor), room))
  <2>1. CASE ReadFilePage(r)
    <3>1. PICK room \in 1 .. MaxRoom : Take(r, Page(FoundIn(tree, x.cursor), room))
      BY <2>1 DEF ReadFilePage
    <3>2. FoundIn(tree, x.cursor) = FoundFor(x.source, tree, rows, x.cursor) /\ IsList(rows)
      BY <1>1, <2>1 DEF ReadFilePage, FoundFor, StudioWorld
    <3> QED
      BY <3>1, <3>2
  <2>2. CASE ReadListPage(r)
    <3>1. PICK room \in 1 .. MaxRoom : Take(r, Page(RowsFound(fxFile, x.cursor), room))
      BY <2>2 DEF ReadListPage
    <3>2. phase[r] = "read" /\ fxFile # NoList
      BY <2>2 DEF ReadListPage
    <3>3. RowsFound(fxFile, x.cursor) = FoundFor(x.source, tree, fxFile, x.cursor) /\ IsList(fxFile)
      BY <1>1, <3>2 DEF ReaderInv, FoundFor, StudioWorld
    <3> QED
      BY <3>1, <3>3
  <2> QED
    BY <2>1, <2>2
<1>3. PICK l : \E room \in 1 .. MaxRoom : IsList(l) /\ Take(r, Page(FoundFor(x.source, tree, l, x.cursor), room))
  BY <1>2
<1>4. PICK room \in 1 .. MaxRoom : IsList(l) /\ Take(r, Page(FoundFor(x.source, tree, l, x.cursor), room))
  BY <1>3
<1> DEFINE found == FoundFor(x.source, tree, l, x.cursor)
           page == Page(found, room)
<1>5. IsNextPage(x, tree, l, page)
  BY <1>1, <1>4, NextPageIs
<1>6. page.next # Top /\ listing'[r].cursor = page.next
  <2>1. listing \in [Readers -> ListingSet] /\ phase \in [Readers -> Phases]
    BY <1>1 DEF StudioWorld
  <2>2. /\ listing' = [listing EXCEPT ![r].listed = @ \o page.entries,
                                      ![r].visited = @ + page.visited,
                                      ![r].skips = [s \in Reasons |-> @[s] + page.skips[s]],
                                      ![r].cursor = page.next]
        /\ phase' = [phase EXCEPT ![r] = IF page.next = Top THEN "done" ELSE "ask"]
    BY <1>4 DEF Take
  <2> HIDE DEF page
  <2>3. listing' = [listing EXCEPT ![r] = Taken(x, page)] /\ Taken(x, page).cursor = page.next
    BY <1>1, <1>5, <2>1, <2>2, TakenIs DEF Taken, IsNextPage
  <2> QED
    BY <2>1, <2>2, <2>3
<1>7. page.next \in KeysOf(found)
  BY <1>5, <1>6 DEF IsNextPage
<1>8. x.cursor \in Seq(Nat)
  BY <1>1, FieldsOfListing, NamesAreNat DEF ListingFields
<1>9. \A k \in KeysOf(found) : Before(x.cursor, k)
  BY <1>1, <1>4, <1>8, SourceWalk
<1> QED
  BY <1>6, <1>7, <1>9
===============================================================================
