--------------------------- MODULE EditSession_proofs ---------------------------
(***************************************************************************)
(* What the guarded edits, their inverses and the bulk plans do to the     *)
(* tracks of a project, for every project, plan and number of callers.     *)
(***************************************************************************)
EXTENDS EditSession, OrderLemmas

(***************************************************************************)
(* What a move does.                                                       *)
(***************************************************************************)

\* The sequence after its element at i has come to stand at to.
MovedTo(p, i, to) ==
  [k \in 1 .. Len(p) |->
     IF k = to THEN p[i]
     ELSE IF (k < i /\ k < to) \/ (k > i /\ k > to) THEN p[k]
     ELSE IF i < to THEN p[k + 1]
     ELSE p[k - 1]]

\* Where a move takes its track.
Target(p, e) == IF e.newIndex > Len(p) THEN Len(p) ELSE e.newIndex

LEMMA InsertRemoved ==
  ASSUME NEW S, NEW p \in Seq(S), NEW i \in 1 .. Len(p), NEW to \in 1 .. Len(p)
  PROVE  InsertAt(RemoveAt(p, i), to, p[i]) = MovedTo(p, i, to)
<1> DEFINE n == Len(p)
           r == RemoveAt(p, i)
           m == InsertAt(r, to, p[i])
<1>1. n \in Nat /\ i \in 1 .. n /\ to \in 1 .. n /\ p[i] \in S
  OBVIOUS
<1>2. r \in Seq(S) /\ Len(r) = n - 1
      /\ \A k \in 1 .. n - 1 : r[k] = IF k < i THEN p[k] ELSE p[k + 1]
  BY RemoveAtIs
<1> HIDE DEF n, r
<1>3. m \in Seq(S) /\ Len(m) = n
      /\ \A k \in 1 .. n : m[k] = IF k < to THEN r[k] ELSE IF k = to THEN p[i] ELSE r[k - 1]
  <2>1. to \in 1 .. Len(r) + 1 /\ Len(r) + 1 = n
    BY <1>1, <1>2
  <2> HIDE DEF m
  <2>2. r \in Seq(S) /\ p[i] \in S
    BY <1>1, <1>2
  <2>3. m \in Seq(S) /\ Len(m) = Len(r) + 1
        /\ \A k \in 1 .. Len(r) + 1 :
             m[k] = IF k < to THEN r[k] ELSE IF k = to THEN p[i] ELSE r[k - 1]
    BY <2>1, <2>2, InsertAtIs, SMTT(30) DEF m
  <2> QED
    BY <2>1, <2>3
<1> HIDE DEF m
<1>4. m = [k \in 1 .. n |-> m[k]]
  BY <1>1, <1>3
<1>5. ASSUME NEW k \in 1 .. n PROVE m[k] = MovedTo(p, i, to)[k]
  <2>1. k < to => m[k] = IF k < i THEN p[k] ELSE p[k + 1]
    BY <1>1, <1>2, <1>3
  <2>2. k = to => m[k] = p[i]
    BY <1>1, <1>3
  <2>3. k > to => m[k] = IF k - 1 < i THEN p[k - 1] ELSE p[k]
    <3>1. ASSUME k > to PROVE k - 1 \in 1 .. n - 1 /\ k - 1 + 1 = k
      BY <1>1, <3>1
    <3> QED
      BY <1>1, <1>2, <1>3, <3>1
  <2> QED
    BY <1>1, <2>1, <2>2, <2>3 DEF MovedTo, n
<1> QED
  BY <1>4, <1>5 DEF MovedTo, n, r, m

LEMMA MovedType ==
  ASSUME NEW S, NEW p \in Seq(S), NEW i \in 1 .. Len(p), NEW to \in 1 .. Len(p)
  PROVE  MovedTo(p, i, to) \in Seq(S) /\ Len(MovedTo(p, i, to)) = Len(p)
<1>1. Len(p) \in Nat /\ \A k \in 1 .. Len(p) : p[k] \in S
  OBVIOUS
<1>2. \A k \in 1 .. Len(p) : MovedTo(p, i, to)[k] \in S
  BY <1>1 DEF MovedTo
<1>3. MovedTo(p, i, to) \in [1 .. Len(p) -> S]
  BY <1>2 DEF MovedTo
<1> QED
  BY <1>1, <1>3

\* Where the track at k comes to stand.
Place(i, to, k) ==
  IF k = i THEN to
  ELSE IF (k < i /\ k < to) \/ (k > i /\ k > to) THEN k
  ELSE IF i < to THEN k - 1
  ELSE k + 1

LEMMA MovedPlaces ==
  ASSUME NEW S, NEW p \in Seq(S), NEW i \in 1 .. Len(p), NEW to \in 1 .. Len(p),
         NEW k \in 1 .. Len(p)
  PROVE  Place(i, to, k) \in 1 .. Len(p) /\ MovedTo(p, i, to)[Place(i, to, k)] = p[k]
<1>1. Len(p) \in Nat
  OBVIOUS
<1> QED
  BY <1>1 DEF Place, MovedTo

\* Moving back restores.
LEMMA MovedBack ==
  ASSUME NEW S, NEW p \in Seq(S), NEW i \in 1 .. Len(p), NEW to \in 1 .. Len(p)
  PROVE  MovedTo(MovedTo(p, i, to), to, i) = p
<1> DEFINE n == Len(p)
           q == MovedTo(p, i, to)
<1>1. n \in Nat /\ i \in 1 .. n /\ to \in 1 .. n /\ p \in [1 .. n -> S] /\ Len(q) = n
  BY MovedType
<1>2. ASSUME NEW k \in 1 .. n PROVE MovedTo(q, to, i)[k] = p[k]
  <2>1. MovedTo(q, to, i)[k] = q[Place(i, to, k)]
    BY <1>1 DEF MovedTo, Place
  <2> QED
    BY <2>1, MovedPlaces
<1>3. MovedTo(q, to, i) = [k \in 1 .. n |-> MovedTo(q, to, i)[k]]
  BY <1>1 DEF MovedTo
<1>4. p = [k \in 1 .. n |-> p[k]]
  BY <1>1
<1> QED
  BY <1>2, <1>3, <1>4

-------------------------------------------------------------------------------
(***************************************************************************)
(* What an edit does.                                                      *)
(***************************************************************************)

LEMMA MoveIs ==
  ASSUME NEW S, NEW p \in Seq(S), NEW e \in Edit, Valid(e), IsMove(e), e.index \in DOMAIN p
  PROVE  /\ Target(p, e) \in 1 .. Len(p)
         /\ Applied(p, e) = MovedTo(p, e.index, Target(p, e))
<1>1. Len(p) \in Nat /\ DOMAIN p = 1 .. Len(p) /\ e.index \in 1 .. Len(p)
  OBVIOUS
<1>2. e.newIndex \in Nat /\ e.newIndex >= 1 /\ e.kind = "move"
  BY DEF Edit, Valid, IsMove
<1>3. Target(p, e) \in 1 .. Len(p)
  BY <1>1, <1>2 DEF Target
<1>4. Applied(p, e) = Reordered(p, e.index, BeforeIndex(e))
  BY <1>2 DEF Applied
<1>5. Reordered(p, e.index, BeforeIndex(e))
        = InsertAt(RemoveAt(p, e.index), Target(p, e), p[e.index])
  <2>1. (IF BeforeIndex(e) < e.index THEN BeforeIndex(e) + 1
         ELSE IF BeforeIndex(e) > Len(p) THEN Len(p) ELSE BeforeIndex(e)) = Target(p, e)
    BY <1>1, <1>2 DEF BeforeIndex, Target
  <2> QED
    BY <2>1 DEF Reordered
<1> QED
  BY <1>1, <1>3, <1>4, <1>5, InsertRemoved

\* An edit that moves nothing changes one field of one track.
LEMMA InPlace ==
  ASSUME NEW p \in Seq(Track(Ids)), NEW e \in Edit, Valid(e), ~IsMove(e), e.index \in DOMAIN p
  PROVE  /\ Applied(p, e) \in Seq(Track(Ids))
         /\ Len(Applied(p, e)) = Len(p)
         /\ \A k \in 1 .. Len(p) :
              LET t == Applied(p, e)[k]
                  hit == k = e.index
              IN  /\ t.id = p[k].id
                  /\ t.parent = p[k].parent
                  /\ t.name  = IF hit /\ e.kind = "rename" THEN e.newName ELSE p[k].name
                  /\ t.color = IF hit /\ e.kind = "color" THEN e.newColor ELSE p[k].color
                  /\ t.solo  = IF hit /\ e.kind = "solo" THEN e.newSolo ELSE p[k].solo
<1>1. Len(p) \in Nat /\ DOMAIN p = 1 .. Len(p) /\ \A k \in 1 .. Len(p) : p[k] \in Track(Ids)
  OBVIOUS
<1>2. e.kind \in {"rename", "color", "solo"}
  BY DEF Edit, IsMove
<1>3. /\ e.newName \in Names /\ e.newColor \in Colors /\ e.newSolo \in 0 .. 2
  BY DEF Edit
<1>4. CASE e.kind = "rename"
  <2>1. Applied(p, e) = [p EXCEPT ![e.index].name = e.newName]
    BY <1>4 DEF Applied
  <2>2. [p[e.index] EXCEPT !.name = e.newName] \in Track(Ids)
    BY <1>1, <1>3 DEF Track
  <2>3. Applied(p, e) \in Seq(Track(Ids)) /\ Len(Applied(p, e)) = Len(p)
    BY <1>1, <2>1, <2>2
  <2>4. \A k \in 1 .. Len(p) : k # e.index => Applied(p, e)[k] = p[k]
    BY <1>1, <2>1
  <2>5. Applied(p, e)[e.index] = [p[e.index] EXCEPT !.name = e.newName]
    BY <1>1, <2>1
  <2> QED
    BY <1>1, <1>4, <2>3, <2>4, <2>5 DEF Track
<1>5. CASE e.kind = "color"
  <2>1. Applied(p, e) = [p EXCEPT ![e.index].color = e.newColor]
    BY <1>5 DEF Applied
  <2>2. [p[e.index] EXCEPT !.color = e.newColor] \in Track(Ids)
    BY <1>1, <1>3 DEF Track
  <2>3. Applied(p, e) \in Seq(Track(Ids)) /\ Len(Applied(p, e)) = Len(p)
    BY <1>1, <2>1, <2>2
  <2>4. \A k \in 1 .. Len(p) : k # e.index => Applied(p, e)[k] = p[k]
    BY <1>1, <2>1
  <2>5. Applied(p, e)[e.index] = [p[e.index] EXCEPT !.color = e.newColor]
    BY <1>1, <2>1
  <2> QED
    BY <1>1, <1>5, <2>3, <2>4, <2>5 DEF Track
<1>6. CASE e.kind = "solo"
  <2>1. Applied(p, e) = [p EXCEPT ![e.index].solo = e.newSolo]
    BY <1>6 DEF Applied
  <2>2. [p[e.index] EXCEPT !.solo = e.newSolo] \in Track(Ids)
    BY <1>1, <1>3 DEF Track, Solos
  <2>3. Applied(p, e) \in Seq(Track(Ids)) /\ Len(Applied(p, e)) = Len(p)
    BY <1>1, <2>1, <2>2
  <2>4. \A k \in 1 .. Len(p) : k # e.index => Applied(p, e)[k] = p[k]
    BY <1>1, <2>1
  <2>5. Applied(p, e)[e.index] = [p[e.index] EXCEPT !.solo = e.newSolo]
    BY <1>1, <2>1
  <2> QED
    BY <1>1, <1>6, <2>3, <2>4, <2>5 DEF Track
<1> QED
  BY <1>2, <1>4, <1>5, <1>6

\* No edit adds, drops or exchanges a track.
LEMMA AppliedIs ==
  ASSUME NEW p \in Seq(Track(Ids)), Distinct(p), NEW e \in Edit, Valid(e), e.index \in DOMAIN p
  PROVE  /\ Applied(p, e) \in Seq(Track(Ids))
         /\ Len(Applied(p, e)) = Len(p)
         /\ Distinct(Applied(p, e))
<1>1. CASE IsMove(e)
  <2> DEFINE n == Len(p)
             i == e.index
             to == Target(p, e)
             q == MovedTo(p, i, to)
  <2>1. n \in Nat /\ i \in 1 .. n /\ to \in 1 .. n /\ Applied(p, e) = q
    BY <1>1, MoveIs
  <2>2. q \in Seq(Track(Ids)) /\ Len(q) = n
    BY <2>1, MovedType
  <2>3. \A j, k \in 1 .. n : p[j].id = p[k].id => j = k
    BY DEF Distinct
  <2>4. ASSUME NEW j \in 1 .. n, NEW k \in 1 .. n, q[j].id = q[k].id PROVE j = k
    <3>1. q[j] = p[Place(to, i, j)] /\ q[k] = p[Place(to, i, k)]
      BY <2>1 DEF MovedTo, Place
    <3>2. Place(to, i, j) \in 1 .. n /\ Place(to, i, k) \in 1 .. n
      BY <2>1 DEF Place
    <3>3. Place(to, i, j) = Place(to, i, k)
      BY <2>3, <2>4, <3>1, <3>2
    <3> QED
      BY <2>1, <3>3 DEF Place
  <2> HIDE DEF q, n
  <2>5. DOMAIN q = 1 .. n
    BY <2>1, <2>2
  <2> QED
    BY <2>1, <2>2, <2>4, <2>5 DEF Distinct, n
<1>2. CASE ~IsMove(e)
  <2>1. \A k \in 1 .. Len(p) : Applied(p, e)[k].id = p[k].id
    BY <1>2, InPlace
  <2>2. Applied(p, e) \in Seq(Track(Ids)) /\ Len(Applied(p, e)) = Len(p)
    BY <1>2, InPlace
  <2>3. DOMAIN Applied(p, e) = 1 .. Len(p) /\ DOMAIN p = 1 .. Len(p)
    BY <2>2
  <2> QED
    BY <2>1, <2>2, <2>3 DEF Distinct
<1> QED
  BY <1>1, <1>2

-------------------------------------------------------------------------------
(***************************************************************************)
(* What the inverse does.                                                  *)
(***************************************************************************)

\* An edit that is not refused found its track as it expects it.
LEMMA NotRefused ==
  ASSUME NEW p \in Seq(Track(Ids)), NEW e
  PROVE  Refusal(p, e) = "none" <=>
           /\ e.index \in 1 .. Len(p)
           /\ p[e.index].name = e.expected
           /\ e.kind = "move" => ~p[e.index].parent
<1>1. DOMAIN p = 1 .. Len(p)
  OBVIOUS
<1> QED
  BY <1>1 DEF Refusal, Matches

\* The receipt has the track as it was, but for the flag of a custom colour.
LEMMA PriorIs ==
  ASSUME NEW p \in Seq(Track(Ids)), NEW e, e.index \in 1 .. Len(p), NEW t \in Priors(p, e)
  PROVE  LET m == p[e.index] IN
         /\ m \in Track(Ids)
         /\ t.name = m.name /\ t.solo = m.solo
         /\ \/ t.color = m.color
            \/ m.color >= Flag /\ t.color = m.color - Flag
<1> DEFINE m == p[e.index]
<1>1. m \in Track(Ids)
  OBVIOUS
<1>2. PICK c \in {m.color} \cup (IF m.color >= Flag THEN {m.color - Flag} ELSE {}) :
        t = [m EXCEPT !.color = c]
  BY DEF Priors
<1> HIDE DEF m
<1>3. t.name = m.name /\ t.solo = m.solo /\ t.color = c
  BY <1>1, <1>2 DEF Track
<1> QED
  BY <1>1, <1>2, <1>3 DEF m

\* The colour the inverse asks for.
LEMMA ColorBack ==
  ASSUME NEW m \in Colors, NEW c, c = m \/ (m >= Flag /\ c = m - Flag)
  PROVE  LET d == IF c \in 1 .. Flag - 1 THEN c + Flag ELSE c
         IN  d \in Colors /\ (m # Flag => d = m)
<1>1. Flag \in Nat /\ Flag > 0
  BY EditsAssumption
<1> QED
  BY <1>1 DEF Colors, CustomColors

LEMMA InverseIs ==
  ASSUME NEW p \in Seq(Track(Ids)), NEW e \in Edit, Refusal(p, e) = "none",
         NEW t \in Priors(p, e)
  PROVE  /\ InverseOf(e, t) \in Edit
         /\ InverseOf(e, t).kind = e.kind
         /\ e.kind # "move" => InverseOf(e, t).index = e.index
         /\ e.kind = "rename" => /\ InverseOf(e, t).expected = e.newName
                                 /\ InverseOf(e, t).newName = p[e.index].name
         /\ e.kind # "rename" => InverseOf(e, t).expected = e.expected
         /\ e.kind = "color" /\ p[e.index].color # Flag =>
              InverseOf(e, t).newColor = p[e.index].color
         /\ e.kind = "solo" /\ p[e.index].solo # 2 =>
              InverseOf(e, t).newSolo = p[e.index].solo
         /\ e.kind = "move" => /\ InverseOf(e, t).index = e.newIndex
                               /\ InverseOf(e, t).newIndex = e.index
<1> DEFINE m == p[e.index]
           c == IF t.color \in 1 .. Flag - 1 THEN t.color + Flag ELSE t.color
<1>1. /\ m \in Track(Ids)
      /\ t.name = m.name /\ t.solo = m.solo
      /\ \/ t.color = m.color
         \/ m.color >= Flag /\ t.color = m.color - Flag
  BY NotRefused, PriorIs
<1> HIDE DEF m
<1>2. m.name \in Names /\ m.color \in Colors /\ m.solo \in 0 .. 2
  BY <1>1 DEF Track, Solos
<1>3. c \in Colors /\ (m.color # Flag => c = m.color)
  BY <1>1, <1>2, ColorBack
<1> HIDE DEF c
<1>4. /\ e.kind \in {"rename", "color", "solo", "move"} /\ e.index \in Nat /\ e.newIndex \in Nat
      /\ e.expected \in Names /\ e.newName \in Names
  BY DEF Edit
<1>5. NoName \in Names /\ 0 \in Colors
  BY EditsAssumption DEF Colors
<1>6. CASE e.kind = "rename"
  <2>1. InverseOf(e, t) = RenameEdit(e.index, e.newName, m.name)
    BY <1>1, <1>6 DEF InverseOf
  <2> QED
    BY <1>2, <1>4, <1>5, <1>6, <2>1 DEF RenameEdit, BlankEdit, Edit, m
<1>7. CASE e.kind = "color"
  <2>1. InverseOf(e, t) = ColorEdit(e.index, e.expected, c)
    BY <1>7 DEF InverseOf, c
  <2> QED
    BY <1>3, <1>4, <1>5, <1>7, <2>1 DEF ColorEdit, BlankEdit, Edit, m
<1>8. CASE e.kind = "solo"
  <2>1. InverseOf(e, t) = SoloEdit(e.index, e.expected, IF m.solo = 0 THEN 0 ELSE 1)
    BY <1>1, <1>8 DEF InverseOf
  <2> QED
    BY <1>2, <1>4, <1>5, <1>8, <2>1 DEF SoloEdit, BlankEdit, Edit, m
<1>9. CASE e.kind = "move"
  <2>1. InverseOf(e, t) = MoveEdit(e.newIndex, e.expected, e.index)
    BY <1>9 DEF InverseOf
  <2> QED
    BY <1>4, <1>5, <1>9, <2>1 DEF MoveEdit, BlankEdit, Edit
<1> QED
  BY <1>4, <1>6, <1>7, <1>8, <1>9

\* Two projects with the same tracks, field by field, are the same.
LEMMA SameTracks ==
  ASSUME NEW p \in Seq(Track(Ids)), NEW q \in Seq(Track(Ids)), Len(p) = Len(q),
         \A k \in 1 .. Len(p) :
           /\ q[k].id = p[k].id
           /\ q[k].parent = p[k].parent
           /\ q[k].name = p[k].name
           /\ q[k].color = p[k].color
           /\ q[k].solo = p[k].solo
  PROVE  q = p
<1>1. ASSUME NEW k \in 1 .. Len(p) PROVE q[k] = p[k]
  <2>1. p[k] \in Track(Ids) /\ q[k] \in Track(Ids)
    OBVIOUS
  <2> QED
    BY <2>1 DEF Track
<1> QED
  BY <1>1

\* The inverse a receipt gives for an edit takes the edit back, where it can
\* say what the track was.
LEMMA InverseRestores ==
  ASSUME NEW p \in Seq(Track(Ids)), Distinct(p),
         NEW e \in Edit, Valid(e), Refusal(p, e) = "none", NEW t \in Priors(p, e),
         NEW s, s.edit = InverseOf(e, t), s.mark.before = p, s.mark.after = Applied(p, e),
         ~Irreversible(s.mark, s.edit)
  PROVE  Restores(s)
<1> DEFINE q == Applied(p, e)
           d == InverseOf(e, t)
           i == e.index
<1>1. i \in 1 .. Len(p) /\ DOMAIN p = 1 .. Len(p) /\ p[i].name = e.expected
      /\ (e.kind = "move" => ~p[i].parent)
  BY NotRefused
<1>2. q \in Seq(Track(Ids)) /\ Len(q) = Len(p) /\ DOMAIN q = 1 .. Len(p)
  <2>1. q \in Seq(Track(Ids)) /\ Len(q) = Len(p)
    BY <1>1, AppliedIs
  <2> QED
    BY <2>1
<1>3. d \in Edit /\ d.kind = e.kind
  BY InverseIs
<1> HIDE DEF d
<1>4. /\ s.edit = d /\ s.mark.before = p /\ s.mark.after = q
      /\ d.kind = "rename" => p[d.index].name # NoName
      /\ d.kind = "solo"   => p[d.index].solo # 2
      /\ d.kind = "color"  => p[d.index].color # Flag
      /\ d.kind = "move"   => d.index <= Len(q)
  BY <1>2, <1>3 DEF Irreversible, d, Edit
<1>5. ASSUME Valid(d), Refusal(q, d) = "none", Applied(q, d) = p PROVE Restores(s)
  BY <1>4, <1>5 DEF Restores
<1>6. CASE IsMove(e)
  <2> DEFINE to == Target(p, e)
  <2>1. to \in 1 .. Len(p) /\ q = MovedTo(p, i, to)
    BY <1>1, <1>6, MoveIs
  <2>2. e.newIndex \in Nat /\ e.newIndex >= 1 /\ d.index = e.newIndex /\ d.newIndex = i
        /\ d.expected = e.expected /\ e.kind = "move" /\ d.kind = "move" /\ Len(p) \in Nat
    BY <1>3, <1>6, InverseIs DEF d, IsMove, Edit, Valid
  <2>3. d.index = to
    BY <1>2, <1>4, <2>2 DEF Target
  <2>4. Valid(d) /\ IsMove(d)
    BY <1>1, <2>2 DEF Valid, IsMove
  <2>5. q[to] = p[i]
    BY <2>1 DEF MovedTo
  <2>6. Refusal(q, d) = "none"
    BY <1>1, <1>2, <2>1, <2>2, <2>3, <2>5, NotRefused
  <2>7. Target(q, d) = i
    BY <1>1, <1>2, <2>2 DEF Target
  <2>8. Applied(q, d) = MovedTo(q, to, i)
    BY <1>2, <1>3, <2>1, <2>3, <2>4, <2>7, MoveIs
  <2>9. MovedTo(q, to, i) = p
    BY <1>1, <2>1, MovedBack
  <2> QED
    BY <1>5, <2>4, <2>6, <2>8, <2>9
<1>7. CASE ~IsMove(e)
  <2>1. /\ e.kind # "move" /\ d.index = i
        /\ e.kind = "rename" => d.expected = e.newName /\ d.newName = p[i].name
        /\ e.kind # "rename" => d.expected = e.expected
        /\ e.kind = "color" /\ p[i].color # Flag => d.newColor = p[i].color
        /\ e.kind = "solo" /\ p[i].solo # 2 => d.newSolo = p[i].solo
    BY <1>7, InverseIs DEF d, IsMove
  <2>2. Valid(d) /\ ~IsMove(d)
    <3>1. d.newName \in Names /\ d.newColor \in Colors
      BY <1>3 DEF Edit
    <3> QED
      BY <1>1, <1>3, <1>4, <2>1, <3>1 DEF Valid, IsMove
  <2>3. \A k \in 1 .. Len(p) :
          /\ q[k].id = p[k].id
          /\ q[k].parent = p[k].parent
          /\ q[k].name  = IF k = i /\ e.kind = "rename" THEN e.newName ELSE p[k].name
          /\ q[k].color = IF k = i /\ e.kind = "color" THEN e.newColor ELSE p[k].color
          /\ q[k].solo  = IF k = i /\ e.kind = "solo" THEN e.newSolo ELSE p[k].solo
    BY <1>1, <1>7, InPlace
  <2> HIDE DEF q, i
  <2>4. Refusal(q, d) = "none"
    BY <1>1, <1>2, <1>3, <2>1, <2>3, NotRefused
  <2>5. /\ Applied(q, d) \in Seq(Track(Ids)) /\ Len(Applied(q, d)) = Len(p)
        /\ \A k \in 1 .. Len(p) :
             LET r == Applied(q, d)[k] IN
             /\ r.id = q[k].id
             /\ r.parent = q[k].parent
             /\ r.name  = IF k = i /\ d.kind = "rename" THEN d.newName ELSE q[k].name
             /\ r.color = IF k = i /\ d.kind = "color" THEN d.newColor ELSE q[k].color
             /\ r.solo  = IF k = i /\ d.kind = "solo" THEN d.newSolo ELSE q[k].solo
    BY <1>1, <1>2, <1>3, <2>1, <2>2, InPlace
  <2>6. Applied(q, d) = p
    <3>1. \A k \in 1 .. Len(p) :
            LET r == Applied(q, d)[k] IN
            /\ r.id = p[k].id /\ r.parent = p[k].parent
            /\ r.name = p[k].name /\ r.color = p[k].color /\ r.solo = p[k].solo
      BY <1>3, <1>4, <2>1, <2>3, <2>5
    <3> QED
      BY <2>5, <3>1, SameTracks
  <2> QED
    BY <1>5, <2>2, <2>4, <2>6
<1> QED
  BY <1>6, <1>7

-------------------------------------------------------------------------------
(***************************************************************************)
(* What a plan does.                                                       *)
(***************************************************************************)

LEMMA OrderedIs ==
  ASSUME NEW plan \in Seq(Edit)
  PROVE  /\ Len(Ordered(plan)) = 2 * Len(plan)
         /\ \A k \in 1 .. Len(plan) :
              /\ Ordered(plan)[k] = IF IsMove(plan[k]) THEN <<>> ELSE <<plan[k]>>
              /\ Ordered(plan)[k + Len(plan)] = IF IsMove(plan[k]) THEN <<plan[k]>> ELSE <<>>
<1> DEFINE n == Len(plan)
           a == [k \in 1 .. n |-> IF IsMove(plan[k]) THEN <<>> ELSE <<plan[k]>>]
           b == [k \in 1 .. n |-> IF IsMove(plan[k]) THEN <<plan[k]>> ELSE <<>>]
           T == Seq(Edit)
<1>1. n \in Nat /\ \A k \in 1 .. n : plan[k] \in Edit
  OBVIOUS
<1>2. Ordered(plan) = a \o b
  BY DEF Ordered
<1> HIDE DEF n
<1>3. \A k \in 1 .. n : a[k] \in T /\ b[k] \in T
  BY <1>1
<1>4. a \in [1 .. n -> T] /\ b \in [1 .. n -> T]
  <2> HIDE DEF T
  <2> QED
    BY <1>3
<1>5. \A k \in 1 .. n : /\ a[k] = IF IsMove(plan[k]) THEN <<>> ELSE <<plan[k]>>
                        /\ b[k] = IF IsMove(plan[k]) THEN <<plan[k]>> ELSE <<>>
  OBVIOUS
<1> HIDE DEF a, b, T
<1>6. a \in Seq(T) /\ b \in Seq(T) /\ Len(a) = n /\ Len(b) = n
  BY <1>1, <1>4
<1>7. Len(a \o b) = 2 * n
      /\ \A k \in 1 .. n + n : (a \o b)[k] = IF k <= n THEN a[k] ELSE b[k - n]
  <2>1. Len(a \o b) = Len(a) + Len(b)
    BY <1>6, ConcatProperties
  <2>2. \A k \in 1 .. Len(a) + Len(b) :
          (a \o b)[k] = IF k <= Len(a) THEN a[k] ELSE b[k - Len(a)]
    BY <1>6, ConcatProperties
  <2>3. n + n = 2 * n
    BY <1>1
  <2> QED
    BY <1>6, <2>1, <2>2, <2>3
<1>8. ASSUME NEW k \in 1 .. n PROVE (a \o b)[k] = a[k] /\ (a \o b)[k + n] = b[k]
  <2>1. k \in 1 .. n + n /\ k <= n /\ k + n \in 1 .. n + n /\ ~(k + n <= n) /\ k + n - n = k
    BY <1>1
  <2> QED
    <3>1. PICK j \in 1 .. n + n : j = k + n /\ ~(j <= n) /\ j - n = k
      BY <1>1, <2>1
    <3> DEFINE c == a \o b
    <3>2. \A i \in 1 .. n + n : c[i] = IF i <= n THEN a[i] ELSE b[i - n]
      BY <1>7
    <3> HIDE DEF c
    <3>3. c[j] = b[j - n]
      BY <3>1, <3>2
    <3>4. c[k] = a[k]
      BY <2>1, <3>2
    <3> QED
      BY <3>1, <3>3, <3>4 DEF c
<1> QED
  BY <1>2, <1>5, <1>7, <1>8 DEF n

\* The project after each pass of the plan.
IsRun(run, n, p, passes) ==
  /\ run = [k \in 0 .. n |-> run[k]]
  /\ run[0] = p
  /\ \A k \in 1 .. n :
       run[k] = IF passes[k] = <<>> THEN run[k - 1] ELSE Applied(run[k - 1], passes[k][1])

LEMMA RunExists ==
  ASSUME NEW n \in Nat, NEW p, NEW passes
  PROVE  \E run : IsRun(run, n, p, passes)
<1> DEFINE Able == {m \in 0 .. n : \E run : IsRun(run, m, p, passes)}
<1>1. 0 \in Able
  <2> DEFINE run == [k \in 0 .. 0 |-> p]
  <2>1. IsRun(run, 0, p, passes)
    BY DEF IsRun
  <2> QED
    BY <2>1
<1>2. ASSUME NEW m \in 1 .. n, m - 1 \in Able PROVE m \in Able
  <2>1. PICK f : IsRun(f, m - 1, p, passes)
    BY <1>2
  <2> DEFINE AfterM == IF passes[m] = <<>> THEN f[m - 1] ELSE Applied(f[m - 1], passes[m][1])
             run    == [k \in 0 .. m |-> IF k = m THEN AfterM ELSE f[k]]
  <2> HIDE DEF AfterM
  <2>2. run = [k \in 0 .. m |-> run[k]] /\ run[0] = p
    BY <2>1 DEF IsRun
  <2>3. ASSUME NEW k \in 1 .. m
        PROVE  run[k] = IF passes[k] = <<>> THEN run[k - 1]
                        ELSE Applied(run[k - 1], passes[k][1])
    <3>1. CASE k = m
      <4>1. run[k] = AfterM /\ run[k - 1] = f[m - 1]
        BY <3>1
      <4> QED
        BY <3>1, <4>1 DEF AfterM
    <3>2. CASE k # m
      <4>1. k \in 1 .. m - 1 /\ run[k] = f[k] /\ run[k - 1] = f[k - 1]
        BY <3>2
      <4> QED
        BY <2>1, <4>1 DEF IsRun
    <3> QED
      BY <3>1, <3>2
  <2>4. IsRun(run, m, p, passes)
    <3> HIDE DEF run
    <3> QED
      BY <2>2, <2>3 DEF IsRun
  <2> QED
    BY <2>4
<1>3. \A k \in 0 .. n : k \in Able
  <2> HIDE DEF Able
  <2> QED
    BY <1>1, <1>2, UpTo
<1> QED
  BY <1>3

\* A plan is applied by such a run over the passes of its two loops.
LEMMA BulkRun ==
  ASSUME NEW p, NEW plan \in Seq(Edit)
  PROVE  \E run : /\ IsRun(run, 2 * Len(plan), p, Ordered(plan))
                  /\ BulkApplied(p, plan) = run[2 * Len(plan)]
<1> DEFINE passes == Ordered(plan)
           n == Len(passes)
           Body(f) == [k \in 0 .. n |->
                         IF k = 0 THEN p
                         ELSE IF passes[k] = <<>> THEN f[k - 1]
                         ELSE Applied(f[k - 1], passes[k][1])]
           after == CHOOSE f : f = Body(f)
<1>1. n = 2 * Len(plan) /\ n \in Nat
  BY OrderedIs
<1>2. BulkApplied(p, plan) = after[n]
  BY DEF BulkApplied
<1> HIDE DEF passes, n
<1>3. PICK run : IsRun(run, n, p, passes)
  BY <1>1, RunExists
<1>4. run = Body(run)
  <2>1. ASSUME NEW k \in 0 .. n
        PROVE  run[k] = IF k = 0 THEN p
                        ELSE IF passes[k] = <<>> THEN run[k - 1]
                        ELSE Applied(run[k - 1], passes[k][1])
    <3>1. k # 0 => k \in 1 .. n
      BY <1>1
    <3> QED
      BY <1>3, <3>1 DEF IsRun
  <2>2. run = [k \in 0 .. n |-> run[k]]
    BY <1>3 DEF IsRun
  <2> QED
    BY <2>1, <2>2
<1>5. after = Body(after)
  <2> HIDE DEF Body
  <2> QED
    BY <1>4
<1> HIDE DEF after
<1>6. IsRun(after, n, p, passes)
  <2>1. DOMAIN after = 0 .. n /\ after = [k \in DOMAIN after |-> after[k]]
    BY <1>5
  <2>2. after[0] = p
    <3>1. 0 \in 0 .. n
      BY <1>1
    <3> QED
      BY <1>5, <3>1
  <2>3. ASSUME NEW k \in 1 .. n
        PROVE  after[k] = IF passes[k] = <<>> THEN after[k - 1]
                          ELSE Applied(after[k - 1], passes[k][1])
    <3>1. k \in 0 .. n /\ k # 0
      BY <1>1
    <3>2. Body(after)[k] = IF passes[k] = <<>> THEN after[k - 1]
                           ELSE Applied(after[k - 1], passes[k][1])
      BY <3>1
    <3> QED
      BY <1>5, <3>2
  <2> QED
    BY <2>1, <2>2, <2>3 DEF IsRun
<1> QED
  BY <1>1, <1>2, <1>6 DEF passes

\* What phase 1 of a plan's script has seen to: every edit points at a track.
Fits(p, plan) ==
  \A k \in 1 .. Len(plan) : Valid(plan[k]) /\ plan[k].index \in 1 .. Len(p)

\* p's tracks are there, each of them once.
SameSize(q, p) == q \in Seq(Track(Ids)) /\ Len(q) = Len(p) /\ Distinct(q)

\* A pass of the plan's loops is one of its edits, or does nothing.
LEMMA PassIs ==
  ASSUME NEW plan \in Seq(Edit), NEW k \in 1 .. 2 * Len(plan)
  PROVE  \/ Ordered(plan)[k] = <<>>
         \/ \E l \in 1 .. Len(plan) : Ordered(plan)[k] = <<plan[l]>>
<1> DEFINE n == Len(plan)
<1>1. n \in Nat
  OBVIOUS
<1> HIDE DEF n
<1>2. CASE k <= n
  <2>1. k \in 1 .. n
    BY <1>1, <1>2 DEF n
  <2> QED
    BY <2>1, OrderedIs DEF n
<1>3. CASE k > n
  <2>1. PICK l \in 1 .. n : k = l + n
    <3>1. k - n \in 1 .. n /\ k = (k - n) + n
      BY <1>1, <1>3 DEF n
    <3> QED
      BY <3>1
  <2>2. Ordered(plan)[l + n] = IF IsMove(plan[l]) THEN <<plan[l]>> ELSE <<>>
    BY OrderedIs DEF n
  <2> QED
    BY <2>1, <2>2 DEF n
<1> QED
  BY <1>1, <1>2, <1>3 DEF n

LEMMA RunIsSound ==
  ASSUME NEW p \in Seq(Track(Ids)), Distinct(p), NEW plan \in Seq(Edit), Fits(p, plan),
         NEW run, IsRun(run, 2 * Len(plan), p, Ordered(plan))
  PROVE  \A k \in 0 .. 2 * Len(plan) : SameSize(run[k], p)
<1> DEFINE n == 2 * Len(plan)
           S == {k \in 0 .. n : SameSize(run[k], p)}
<1>1. n \in Nat
  OBVIOUS
<1>2. 0 \in S
  BY <1>1 DEF IsRun, SameSize
<1>3. ASSUME NEW k \in 1 .. n, k - 1 \in S PROVE k \in S
  <2> DEFINE q == run[k - 1]
  <2>1. SameSize(q, p)
    BY <1>3
  <2>2. run[k] = IF Ordered(plan)[k] = <<>> THEN q ELSE Applied(q, Ordered(plan)[k][1])
    BY DEF IsRun
  <2> HIDE DEF q
  <2>3. CASE Ordered(plan)[k] = <<>>
    BY <1>1, <2>1, <2>2, <2>3
  <2>4. ASSUME NEW l \in 1 .. Len(plan), Ordered(plan)[k] = <<plan[l]>> PROVE k \in S
    <3>1. plan[l] \in Edit /\ Valid(plan[l]) /\ plan[l].index \in DOMAIN q
      BY <2>1 DEF Fits, SameSize
    <3>2. run[k] = Applied(q, plan[l])
      BY <2>2, <2>4
    <3>3. SameSize(Applied(q, plan[l]), p)
      BY <2>1, <3>1, AppliedIs DEF SameSize
    <3> QED
      BY <1>1, <3>2, <3>3
  <2> QED
    BY <2>3, <2>4, PassIs
<1>4. \A k \in 0 .. n : k \in S
  <2> HIDE DEF S, n
  <2> QED
    BY <1>1, <1>2, <1>3, UpTo
<1> QED
  BY <1>4

LEMMA BulkAppliedIs ==
  ASSUME NEW p \in Seq(Track(Ids)), Distinct(p), NEW plan \in Seq(Edit), Fits(p, plan)
  PROVE  SameSize(BulkApplied(p, plan), p)
<1>1. PICK run : IsRun(run, 2 * Len(plan), p, Ordered(plan))
                 /\ BulkApplied(p, plan) = run[2 * Len(plan)]
  BY BulkRun
<1>2. 2 * Len(plan) \in 0 .. 2 * Len(plan)
  OBVIOUS
<1> QED
  BY <1>1, <1>2, RunIsSound

\* The track has the value the edit gives.
Has(t, e) ==
  /\ e.kind = "rename" => t.name = e.newName
  /\ e.kind = "color"  => t.color = e.newColor
  /\ e.kind = "solo"   => t.solo = e.newSolo

\* The first loop leaves every track in its place.
LEMMA FirstLoop ==
  ASSUME NEW p \in Seq(Track(Ids)), Distinct(p), NEW plan \in Seq(Edit), Fits(p, plan),
         NEW run, IsRun(run, 2 * Len(plan), p, Ordered(plan))
  PROVE  \A k \in 0 .. Len(plan) :
           /\ \A i \in 1 .. Len(p) : run[k][i].id = p[i].id
           /\ \A l \in 1 .. k :
                ~IsMove(plan[l])
                /\ ~(\E m \in l + 1 .. k :
                       plan[m].kind = plan[l].kind /\ plan[m].index = plan[l].index)
                => Has(run[k][plan[l].index], plan[l])
<1> DEFINE n == Len(plan)
           Again(l, k) == \E m \in l + 1 .. k :
                            plan[m].kind = plan[l].kind /\ plan[m].index = plan[l].index
           Done(k) == /\ \A i \in 1 .. Len(p) : run[k][i].id = p[i].id
                      /\ \A l \in 1 .. k :
                           ~IsMove(plan[l]) /\ ~Again(l, k)
                           => Has(run[k][plan[l].index], plan[l])
           S == {k \in 0 .. n : Done(k)}
<1>1. n \in Nat /\ Len(p) \in Nat
  OBVIOUS
<1>2. 0 \in S
  BY <1>1 DEF IsRun
<1>3. ASSUME NEW k \in 1 .. n, k - 1 \in S PROVE k \in S
  <2> DEFINE q == run[k - 1]
             e == plan[k]
  <2>1. Done(k - 1)
    BY <1>3
  <2>2. SameSize(q, p)
    <3>1. k - 1 \in 0 .. 2 * Len(plan)
      BY <1>1
    <3> QED
      BY <3>1, RunIsSound
  <2>3. e \in Edit /\ Valid(e) /\ e.index \in 1 .. Len(p)
    BY DEF Fits
  <2>4. run[k] = IF IsMove(e) THEN q ELSE Applied(q, e)
    <3>1. k \in 1 .. 2 * Len(plan)
      BY <1>1
    <3>2. run[k] = IF Ordered(plan)[k] = <<>> THEN q ELSE Applied(q, Ordered(plan)[k][1])
      BY <3>1 DEF IsRun
    <3>3. Ordered(plan)[k] = IF IsMove(e) THEN <<>> ELSE <<e>>
      BY OrderedIs
    <3>4. <<e>> # <<>> /\ <<e>>[1] = e
      OBVIOUS
    <3> QED
      BY <3>2, <3>3, <3>4
  <2>5. \A l \in 1 .. k - 1 : ~Again(l, k) => ~Again(l, k - 1)
    BY <1>1
  <2>6. \A l \in 1 .. k - 1 : ~Again(l, k) => ~(e.kind = plan[l].kind /\ e.index = plan[l].index)
    BY <1>1
  <2> HIDE DEF q, e, Again
  <2>7. CASE IsMove(e)
    <3>1. run[k] = q
      BY <2>4, <2>7
    <3>2. ASSUME NEW l \in 1 .. k, ~IsMove(plan[l]), ~Again(l, k)
          PROVE  Has(run[k][plan[l].index], plan[l])
      <4>1. l \in 1 .. k - 1
        BY <1>1, <2>7, <3>2 DEF e
      <4> QED
        BY <2>1, <2>5, <3>1, <3>2, <4>1 DEF q
    <3> QED
      BY <1>1, <2>1, <3>1, <3>2 DEF q
  <2>8. CASE ~IsMove(e)
    <3>1. /\ run[k] \in Seq(Track(Ids))
          /\ \A i \in 1 .. Len(p) :
               LET t == run[k][i]
                   hit == i = e.index
               IN  /\ t.id = q[i].id
                   /\ t.name  = IF hit /\ e.kind = "rename" THEN e.newName ELSE q[i].name
                   /\ t.color = IF hit /\ e.kind = "color" THEN e.newColor ELSE q[i].color
                   /\ t.solo  = IF hit /\ e.kind = "solo" THEN e.newSolo ELSE q[i].solo
      <4>1. q \in Seq(Track(Ids)) /\ Len(q) = Len(p) /\ e.index \in DOMAIN q
        BY <2>2, <2>3 DEF SameSize
      <4> QED
        BY <2>3, <2>4, <2>8, <4>1, InPlace
    <3>2. ASSUME NEW l \in 1 .. k, ~IsMove(plan[l]), ~Again(l, k)
          PROVE  Has(run[k][plan[l].index], plan[l])
      <4>1. CASE l = k
        BY <2>3, <3>1, <4>1 DEF Has, e
      <4>2. CASE l # k
        <5>1. l \in 1 .. k - 1
          BY <1>1, <4>2
        <5>2. Has(q[plan[l].index], plan[l])
          BY <2>1, <2>5, <3>2, <5>1 DEF q
        <5>3. ~(e.kind = plan[l].kind /\ e.index = plan[l].index)
          BY <2>6, <3>2, <5>1
        <5>4. plan[l].index \in 1 .. Len(p)
          BY <1>1 DEF Fits
        <5> QED
          BY <3>1, <5>2, <5>3, <5>4 DEF Has
      <4> QED
        BY <4>1, <4>2
    <3>3. \A i \in 1 .. Len(p) : run[k][i].id = p[i].id
      BY <2>1, <3>1 DEF q
    <3> QED
      BY <1>1, <3>2, <3>3
  <2> QED
    BY <2>7, <2>8
<1>4. \A k \in 0 .. n : k \in S
  <2> HIDE DEF S, n
  <2> QED
    BY <1>1, <1>2, <1>3, UpTo
<1> QED
  BY <1>4

\* The second loop keeps every track as the first left it, wherever it goes.
LEMMA SecondLoop ==
  ASSUME NEW p \in Seq(Track(Ids)), Distinct(p), NEW plan \in Seq(Edit), Fits(p, plan),
         NEW run, IsRun(run, 2 * Len(plan), p, Ordered(plan))
  PROVE  \A k \in 0 .. Len(plan) : \A i \in 1 .. Len(p) :
           \E j \in 1 .. Len(p) : run[k + Len(plan)][j] = run[Len(plan)][i]
<1> DEFINE n == Len(plan)
           Kept(k) == \A i \in 1 .. Len(p) :
                        \E j \in 1 .. Len(p) : run[k + n][j] = run[n][i]
           S == {k \in 0 .. n : Kept(k)}
<1>1. n \in Nat /\ Len(p) \in Nat
  OBVIOUS
<1>2. 0 \in S
  <2>1. 0 + n = n
    BY <1>1
  <2> QED
    BY <1>1, <2>1
<1>3. ASSUME NEW k \in 1 .. n, k - 1 \in S PROVE k \in S
  <2> DEFINE q == run[k - 1 + n]
             e == plan[k]
  <2>1. \A i \in 1 .. Len(p) : \E j \in 1 .. Len(p) : q[j] = run[n][i]
    BY <1>3
  <2>2. SameSize(q, p)
    <3>1. k - 1 + n \in 0 .. 2 * Len(plan)
      BY <1>1
    <3> QED
      BY <3>1, RunIsSound
  <2>3. e \in Edit /\ Valid(e) /\ e.index \in 1 .. Len(p)
    BY DEF Fits
  <2>4. run[k + n] = IF IsMove(e) THEN Applied(q, e) ELSE q
    <3>1. k + n \in 1 .. 2 * Len(plan) /\ k + n - 1 = k - 1 + n
      BY <1>1
    <3>2. run[k + n] = IF Ordered(plan)[k + n] = <<>> THEN run[k + n - 1]
                       ELSE Applied(run[k + n - 1], Ordered(plan)[k + n][1])
      <4> DEFINE h == k + n
      <4>1. h \in 1 .. 2 * Len(plan)
        BY <3>1
      <4> HIDE DEF h
      <4>2. run[h] = IF Ordered(plan)[h] = <<>> THEN run[h - 1]
                     ELSE Applied(run[h - 1], Ordered(plan)[h][1])
        BY <4>1 DEF IsRun
      <4> QED
        BY <4>2 DEF h
    <3>3. Ordered(plan)[k + n] = IF IsMove(e) THEN <<e>> ELSE <<>>
      BY OrderedIs
    <3>4. <<e>> # <<>> /\ <<e>>[1] = e
      OBVIOUS
    <3> QED
      BY <3>1, <3>2, <3>3, <3>4
  <2> HIDE DEF q, e
  <2>5. ASSUME NEW j \in 1 .. Len(p) PROVE \E h \in 1 .. Len(p) : run[k + n][h] = q[j]
    <3>1. CASE IsMove(e)
      <4>1. q \in Seq(Track(Ids)) /\ Len(q) = Len(p) /\ e.index \in DOMAIN q
        BY <2>2, <2>3 DEF SameSize
      <4>2. Target(q, e) \in 1 .. Len(q) /\ run[k + n] = MovedTo(q, e.index, Target(q, e))
        BY <2>3, <2>4, <3>1, <4>1, MoveIs
      <4>3. Place(e.index, Target(q, e), j) \in 1 .. Len(q)
            /\ run[k + n][Place(e.index, Target(q, e), j)] = q[j]
        <5>1. e.index \in 1 .. Len(q) /\ j \in 1 .. Len(q)
          BY <2>3, <4>1
        <5>2. PICK to \in 1 .. Len(q) : to = Target(q, e)
          BY <4>2
        <5>3. Place(e.index, to, j) \in 1 .. Len(q)
              /\ MovedTo(q, e.index, to)[Place(e.index, to, j)] = q[j]
          BY <4>1, <5>1, MovedPlaces
        <5> QED
          BY <4>2, <5>2, <5>3
      <4> QED
        BY <4>1, <4>3
    <3>2. CASE ~IsMove(e)
      BY <2>4, <3>2
    <3> QED
      BY <3>1, <3>2
  <2>6. ASSUME NEW i \in 1 .. Len(p)
        PROVE  \E j \in 1 .. Len(p) : run[k + n][j] = run[n][i]
    <3>1. PICK j \in 1 .. Len(p) : q[j] = run[n][i]
      BY <2>1
    <3>2. PICK h \in 1 .. Len(p) : run[k + n][h] = q[j]
      BY <2>5
    <3> HIDE DEF n
    <3> QED
      BY <3>1, <3>2
  <2>7. Kept(k)
    BY <2>6
  <2> QED
    BY <1>1, <2>7
<1>4. \A k \in 0 .. n : k \in S
  <2> HIDE DEF S, n
  <2> QED
    BY <1>1, <1>2, <1>3, UpTo
<1> QED
  BY <1>4

\* Of distinct tracks, a track is found at its place.
LEMMA PositionIs ==
  ASSUME NEW q \in Seq(Track(Ids)), Distinct(q), NEW j \in 1 .. Len(q)
  PROVE  Position(q, q[j].id) = j
BY DEF Position, Distinct

\* A value ends up on the track that had the position when the plan started.
LEMMA PlanHits ==
  ASSUME NEW p \in Seq(Track(Ids)), Distinct(p), NEW plan \in Seq(Edit), Fits(p, plan),
         NEW l \in 1 .. Len(plan), ~IsMove(plan[l]), ~Overwritten(plan, l)
  PROVE  LET q == BulkApplied(p, plan)
         IN  Has(q[Position(q, p[plan[l].index].id)], plan[l])
<1> DEFINE n == Len(plan)
           q == BulkApplied(p, plan)
           i == plan[l].index
<1>1. n \in Nat /\ i \in 1 .. Len(p) /\ DOMAIN plan = 1 .. n
  BY DEF Fits
<1>2. PICK run : IsRun(run, 2 * Len(plan), p, Ordered(plan))
                 /\ q = run[2 * Len(plan)]
  BY BulkRun
<1>3. SameSize(q, p)
  BY BulkAppliedIs
<1>4. run[n][i].id = p[i].id /\ Has(run[n][i], plan[l])
  <2>1. n \in 0 .. n /\ l \in 1 .. n
    BY <1>1
  <2>2. ~(\E m \in l + 1 .. n :
            plan[m].kind = plan[l].kind /\ plan[m].index = plan[l].index)
    BY <1>1 DEF Overwritten
  <2>3. \A m \in 1 .. n :
          ~IsMove(plan[m])
          /\ ~(\E h \in m + 1 .. n :
                 plan[h].kind = plan[m].kind /\ plan[h].index = plan[m].index)
          => Has(run[n][plan[m].index], plan[m])
    BY <1>2, <2>1, FirstLoop
  <2>4. \A m \in 1 .. Len(p) : run[n][m].id = p[m].id
    BY <1>2, <2>1, FirstLoop
  <2> QED
    BY <1>1, <2>1, <2>2, <2>3, <2>4
<1>5. PICK j \in 1 .. Len(p) : q[j] = run[n][i]
  <2>1. n \in 0 .. n /\ n + n = 2 * n
    BY <1>1
  <2>2. \A k \in 1 .. Len(p) : \E j \in 1 .. Len(p) : run[n + n][j] = run[n][k]
    BY <1>2, <2>1, SecondLoop
  <2> QED
    BY <1>1, <1>2, <2>1, <2>2
<1>6. Position(q, p[i].id) = j
  <2>1. q \in Seq(Track(Ids)) /\ Distinct(q) /\ j \in 1 .. Len(q) /\ q[j].id = p[i].id
    BY <1>3, <1>4, <1>5 DEF SameSize
  <2> HIDE DEF q
  <2> QED
    BY <2>1, PositionIs
<1> QED
  BY <1>4, <1>5, <1>6

-------------------------------------------------------------------------------
(***************************************************************************)
(* The session.                                                            *)
(***************************************************************************)

Making == {"preflight", "run", "store"}
Numbered == Making \cup {"undo"}

\* The edit was run on the project as it was before, and the receipt is its own.
Took(m, e, t) ==
  /\ Distinct(m.before)
  /\ Refusal(m.before, e) = "none"
  /\ t \in Priors(m.before, e)
  /\ m.after = Applied(m.before, e)

JobsInv ==
  /\ DOMAIN prior = Callers
  /\ \A c \in Callers :
       /\ pc[c] \in Making => Len(job[c]) = 1 /\ Valid(job[c][1])
       /\ pc[c] = "undo" => Len(job[c]) = 1
       /\ pc[c] = "plan" => \A k \in 1 .. Len(job[c]) : Valid(job[c][k])

\* What StoreInverse makes of a receipt, and what it has made of one.
MarksInv ==
  /\ \A c \in Callers : pc[c] = "store" => Took(mark[c], job[c][1], prior[c])
  /\ slot # NoSlot =>
       \E e \in Edit : \E t \in Priors(slot.mark.before, e) :
         /\ Valid(e)
         /\ Took(slot.mark, e, t)
         /\ slot.edit = InverseOf(e, t)

\* The number of an edit is in one place: with the call that makes it, in the slot,
\* or with the call that takes it back; and until then it has not been taken back.
NumbersInv ==
  /\ \A c \in Callers : pc[c] \in Numbered =>
       /\ number[c] \in 1 .. edits
       /\ undone[number[c]] = 0
       /\ slot # NoSlot => number[c] # slot.number
       /\ \A d \in Callers \ {c} : pc[d] \in Numbered => number[c] # number[d]
  /\ slot # NoSlot => undone[slot.number] = 0
  /\ \A n \in 1 .. MaxEdits : n > edits => undone[n] = 0

SessionInv ==
  /\ SessionTypeOK
  /\ Distinct(project)
  /\ JobsInv
  /\ MarksInv
  /\ NumbersInv
  /\ UndoneAtMostOnce

LEMMA InputIs ==
  ASSUME project \in Seq(Track(Ids)), NEW e \in Inputs
  PROVE  e \in Edit /\ Valid(e) /\ e.index \in 1 .. Len(project)
<1>1. Valid(e) /\ e \in EditsAt(project)
  BY DEF Inputs
<1>2. Len(project) \in Nat /\ DOMAIN project = 1 .. Len(project)
  OBVIOUS
<1>3. NewNames \subseteq Names /\ NewColors \subseteq Colors /\ NewSolos \subseteq {0, 1}
      /\ NoName \in Names /\ 0 \in Colors
  BY SessionAssumption, EditsAssumption DEF Colors
<1>4. PICK i \in 1 .. Len(project) :
        LET name == project[i].name IN
        e \in {RenameEdit(i, name, n) : n \in NewNames}
                \cup {ColorEdit(i, name, k) : k \in NewColors}
                \cup {SoloEdit(i, name, s) : s \in NewSolos}
                \cup {MoveEdit(i, name, j) : j \in DOMAIN project}
  BY <1>1, <1>2 DEF EditsAt
<1>5. PICK name \in Names : name = project[i].name
  <2>1. project[i] \in Track(Ids)
    OBVIOUS
  <2> QED
    BY <2>1 DEF Track
<1>6. CASE \E n \in NewNames : e = RenameEdit(i, name, n)
  BY <1>1, <1>3, <1>6 DEF RenameEdit, BlankEdit, Edit
<1>7. CASE \E k \in NewColors : e = ColorEdit(i, name, k)
  BY <1>1, <1>3, <1>7 DEF ColorEdit, BlankEdit, Edit
<1>8. CASE \E s \in NewSolos : e = SoloEdit(i, name, s)
  BY <1>1, <1>3, <1>8 DEF SoloEdit, BlankEdit, Edit
<1>9. CASE \E j \in DOMAIN project : e = MoveEdit(i, name, j)
  BY <1>1, <1>2, <1>3, <1>9 DEF MoveEdit, BlankEdit, Edit
<1> QED
  BY <1>4, <1>5, <1>6, <1>7, <1>8, <1>9

\* Whatever the user does, the project stays one.
LEMMA OutsideKeepsProject ==
  ASSUME project \in Seq(Track(Ids)), Distinct(project), OutsideChange
  PROVE  project' \in Seq(Track(Ids)) /\ Distinct(project')
<1>0. Len(project) \in Nat /\ DOMAIN project = 1 .. Len(project)
  OBVIOUS
<1>1. CASE \E e \in Inputs : project' = Applied(project, e)
  BY <1>0, <1>1, InputIs, AppliedIs
<1>2. ASSUME NEW i \in DOMAIN project, project' = RemoveAt(project, i)
      PROVE  project' \in Seq(Track(Ids)) /\ Distinct(project')
  <2> DEFINE q == project'
             n == Len(project)
  <2>1. /\ q \in Seq(Track(Ids))
        /\ Len(q) = n - 1
        /\ \A k \in 1 .. n - 1 : q[k] = IF k < i THEN project[k] ELSE project[k + 1]
    BY <1>0, <1>2, RemoveAtIs
  <2>2. DOMAIN q = 1 .. n - 1
    BY <2>1
  <2>3. \A j, k \in 1 .. n : project[j].id = project[k].id => j = k
    BY <1>0 DEF Distinct
  <2>4. ASSUME NEW j \in 1 .. n - 1, NEW k \in 1 .. n - 1, q[j].id = q[k].id PROVE j = k
    <3>1. /\ q[j] = project[IF j < i THEN j ELSE j + 1]
          /\ q[k] = project[IF k < i THEN k ELSE k + 1]
      BY <2>1
    <3>2. (IF j < i THEN j ELSE j + 1) \in 1 .. n /\ (IF k < i THEN k ELSE k + 1) \in 1 .. n
      BY <1>0
    <3>3. (IF j < i THEN j ELSE j + 1) = (IF k < i THEN k ELSE k + 1)
      BY <2>3, <2>4, <3>1, <3>2
    <3> QED
      BY <1>0, <3>3
  <2> QED
    BY <2>1, <2>2, <2>4 DEF Distinct
<1>3. ASSUME NEW i \in DOMAIN project, project' = [project EXCEPT ![i].parent = ~@]
      PROVE  project' \in Seq(Track(Ids)) /\ Distinct(project')
  <2>1. project[i] \in Track(Ids)
    BY <1>0
  <2>2. [project[i] EXCEPT !.parent = ~@] \in Track(Ids)
        /\ [project[i] EXCEPT !.parent = ~@].id = project[i].id
    BY <2>1 DEF Track
  <2>3. project' = [project EXCEPT ![i] = [project[i] EXCEPT !.parent = ~@]]
    BY <1>3
  <2>4. /\ project' \in Seq(Track(Ids)) /\ DOMAIN project' = DOMAIN project
        /\ \A k \in DOMAIN project : project'[k].id = project[k].id
    BY <1>0, <2>2, <2>3
  <2> QED
    BY <2>4 DEF Distinct
<1>4. \/ \E e \in Inputs : project' = Applied(project, e)
      \/ \E i \in DOMAIN project : project' = RemoveAt(project, i)
      \/ \E i \in DOMAIN project : project' = [project EXCEPT ![i].parent = ~@]
  BY DEF OutsideChange
<1> QED
  BY <1>1, <1>2, <1>3, <1>4

LEMMA RefusedBulk ==
  ASSUME NEW p \in Seq(Track(Ids)), NEW plan \in Seq(Edit), BulkRefusal(p, plan) = "none",
         \A k \in 1 .. Len(plan) : Valid(plan[k])
  PROVE  Fits(p, plan)
<1>1. ASSUME NEW k \in 1 .. Len(plan) PROVE plan[k].index \in 1 .. Len(p)
  <2>1. Refusal(p, plan[k]) # "guard_failed"
    BY DEF BulkRefusal
  <2>2. DOMAIN p = 1 .. Len(p)
    OBVIOUS
  <2> QED
    BY <2>1, <2>2 DEF Refusal, Matches
<1> QED
  BY <1>1 DEF Fits

LEMMA InitInv == SessionInit => SessionInv
<1> SUFFICES ASSUME SessionInit PROVE SessionInv
  OBVIOUS
<1> USE DEF SessionInit
<1>1. project \in Seq(Track(Ids)) /\ Distinct(project)
  BY SessionAssumption
<1>2. MaxEdits \in Nat /\ MaxUndos \in Nat /\ MaxChanges \in Nat
  BY SessionAssumption
<1>3. <<>> \in Seq(Edit) /\ NoMark \in Marks
  BY DEF NoMark, Marks
<1>4. SessionTypeOK
  BY <1>1, <1>2, <1>3 DEF SessionTypeOK
<1>5. JobsInv /\ MarksInv
  BY DEF JobsInv, MarksInv, Making
<1>6. NumbersInv /\ UndoneAtMostOnce
  BY <1>2 DEF NumbersInv, UndoneAtMostOnce, Numbered, Making
<1> QED
  BY <1>1, <1>4, <1>5, <1>6 DEF SessionInv

LEMMA StartEditInv ==
  ASSUME SessionInv, NEW c \in Callers, StartEdit(c)
  PROVE  SessionInv'
<1> USE DEF SessionInv
<1>0. project \in Seq(Track(Ids)) /\ MaxEdits \in Nat /\ edits \in Nat /\ edits < MaxEdits
  BY SessionAssumption DEF SessionTypeOK, StartEdit
<1>1. PICK e \in Inputs : /\ pc[c] = "idle"
                          /\ pc' = [pc EXCEPT ![c] = IF IsMove(e) THEN "preflight" ELSE "run"]
                          /\ job' = [job EXCEPT ![c] = <<e>>]
  BY DEF StartEdit, Begin
<1>2. /\ edits' = edits + 1
      /\ number' = [number EXCEPT ![c] = edits']
      /\ UNCHANGED <<project, changes, undos, mark, prior, slot, undone>>
  BY DEF StartEdit
<1>3. e \in Edit /\ Valid(e)
  BY <1>0, InputIs
<1>4. <<e>> \in Seq(Edit) /\ Len(<<e>>) = 1 /\ <<e>>[1] = e
  BY <1>3
<1>5. SessionTypeOK'
  BY <1>0, <1>1, <1>2, <1>3, <1>4 DEF SessionTypeOK
<1>6. Distinct(project)'
  BY <1>2
<1>7. \A d \in Callers : /\ pc'[d] = IF d = c THEN IF IsMove(e) THEN "preflight" ELSE "run" ELSE pc[d]
                         /\ job'[d] = IF d = c THEN <<e>> ELSE job[d]
                         /\ number'[d] = IF d = c THEN edits + 1 ELSE number[d]
  BY <1>1, <1>2 DEF SessionTypeOK
<1>8. JobsInv'
  BY <1>2, <1>3, <1>4, <1>7 DEF JobsInv, Making
<1>9. MarksInv'
  BY <1>2, <1>7 DEF MarksInv
<1>10. NumbersInv'
  <2>1. edits + 1 \in 1 .. MaxEdits /\ undone[edits + 1] = 0
    BY <1>0 DEF NumbersInv
  <2>2. slot # NoSlot => slot.number \in 1 .. edits
    BY DEF SessionTypeOK
  <2>3. ASSUME NEW d \in Callers, pc'[d] \in Numbered
        PROVE  /\ number'[d] \in 1 .. edits'
               /\ undone'[number'[d]] = 0
               /\ slot' # NoSlot => number'[d] # slot'.number
               /\ \A h \in Callers \ {d} : pc'[h] \in Numbered => number'[d] # number'[h]
    BY <1>0, <1>2, <1>7, <2>1, <2>2, <2>3 DEF NumbersInv
  <2>4. (slot' # NoSlot => undone'[slot'.number] = 0)
        /\ \A n \in 1 .. MaxEdits : n > edits' => undone'[n] = 0
    BY <1>0, <1>2 DEF NumbersInv
  <2> QED
    BY <2>3, <2>4 DEF NumbersInv
<1>11. UndoneAtMostOnce'
  BY <1>2 DEF UndoneAtMostOnce
<1> QED
  BY <1>5, <1>6, <1>8, <1>9, <1>10, <1>11

LEMMA FinishIs ==
  ASSUME SessionTypeOK, DOMAIN prior = Callers, NEW c \in Callers, Finish(c)
  PROVE  /\ pc' \in [Callers -> {"idle", "preflight", "run", "store", "undo", "plan"}]
         /\ job' \in [Callers -> Seq(Edit)]
         /\ number' \in [Callers -> 0 .. MaxEdits]
         /\ mark' \in [Callers -> Marks]
         /\ DOMAIN prior' = Callers
         /\ pc'[c] = "idle"
         /\ \A d \in Callers \ {c} :
              /\ pc'[d] = pc[d] /\ job'[d] = job[d] /\ number'[d] = number[d]
              /\ mark'[d] = mark[d] /\ prior'[d] = prior[d]
<1>1. <<>> \in Seq(Edit) /\ NoMark \in Marks /\ 0 \in 0 .. MaxEdits
  BY SessionAssumption DEF NoMark, Marks
<1> QED
  BY <1>1 DEF Finish, SessionTypeOK

\* A call that returns leaves all of this as it was, for the others.
LEMMA FinishKeeps ==
  ASSUME SessionInv, NEW c \in Callers, Finish(c), UNCHANGED <<changes, edits, undos>>,
         project' \in Seq(Track(Ids)), Distinct(project'), UNCHANGED <<slot, undone>>
  PROVE  SessionInv'
<1> USE DEF SessionInv
<1>1. /\ pc' \in [Callers -> {"idle", "preflight", "run", "store", "undo", "plan"}]
      /\ job' \in [Callers -> Seq(Edit)]
      /\ number' \in [Callers -> 0 .. MaxEdits]
      /\ mark' \in [Callers -> Marks]
      /\ DOMAIN prior' = Callers
      /\ pc'[c] = "idle"
      /\ \A d \in Callers \ {c} :
           /\ pc'[d] = pc[d] /\ job'[d] = job[d] /\ number'[d] = number[d]
           /\ mark'[d] = mark[d] /\ prior'[d] = prior[d]
  BY FinishIs DEF JobsInv
<1>2. SessionTypeOK'
  BY <1>1 DEF SessionTypeOK
<1>3. Distinct(project)'
  OBVIOUS
<1>4. JobsInv'
  BY <1>1 DEF JobsInv, Making
<1>5. MarksInv'
  BY <1>1 DEF MarksInv
<1>6. NumbersInv'
  <2>1. ASSUME NEW d \in Callers, pc'[d] \in Numbered
        PROVE  d # c /\ pc[d] \in Numbered /\ number'[d] = number[d]
    BY <1>1, <2>1 DEF Numbered, Making
  <2>2. ASSUME NEW d \in Callers, pc'[d] \in Numbered
        PROVE  /\ number'[d] \in 1 .. edits'
               /\ undone'[number'[d]] = 0
               /\ slot' # NoSlot => number'[d] # slot'.number
               /\ \A h \in Callers \ {d} : pc'[h] \in Numbered => number'[d] # number'[h]
    BY <2>1, <2>2 DEF NumbersInv
  <2>3. (slot' # NoSlot => undone'[slot'.number] = 0)
        /\ \A n \in 1 .. MaxEdits : n > edits' => undone'[n] = 0
    BY DEF NumbersInv
  <2> QED
    BY <2>2, <2>3 DEF NumbersInv
<1>7. UndoneAtMostOnce'
  BY DEF UndoneAtMostOnce
<1> QED
  BY <1>2, <1>3, <1>4, <1>5, <1>6, <1>7

LEMMA MovePreflightInv ==
  ASSUME SessionInv, NEW c \in Callers, MovePreflight(c)
  PROVE  SessionInv'
<1>1. UNCHANGED <<project, changes, edits, undos, slot, undone>>
  BY DEF MovePreflight
<1>2. CASE Finish(c)
  BY <1>1, <1>2, FinishKeeps DEF SessionInv, SessionTypeOK
<1>3. CASE pc[c] = "preflight" /\ pc' = [pc EXCEPT ![c] = "run"]
           /\ UNCHANGED <<job, number, mark, prior>>
  <2> USE DEF SessionInv
  <2>1. \A d \in Callers : pc'[d] = IF d = c THEN "run" ELSE pc[d]
    BY <1>3 DEF SessionTypeOK
  <2>2. SessionTypeOK'
    BY <1>1, <1>3 DEF SessionTypeOK
  <2>3. JobsInv'
    BY <1>3, <2>1 DEF JobsInv, Making
  <2>4. MarksInv'
    BY <1>1, <1>3, <2>1 DEF MarksInv
  <2>5. NumbersInv'
    BY <1>1, <1>3, <2>1 DEF NumbersInv, Numbered, Making
  <2>6. UndoneAtMostOnce' /\ Distinct(project)'
    BY <1>1 DEF UndoneAtMostOnce
  <2> QED
    BY <2>2, <2>3, <2>4, <2>5, <2>6
<1> QED
  BY <1>2, <1>3 DEF MovePreflight

LEMMA RunEditInv ==
  ASSUME SessionInv, NEW c \in Callers, RunEdit(c)
  PROVE  SessionInv'
<1> DEFINE e == job[c][1]
<1> USE DEF SessionInv
<1>0. project \in Seq(Track(Ids)) /\ Distinct(project)
  BY DEF SessionTypeOK
<1>1. pc[c] = "run" /\ UNCHANGED <<changes, edits, undos, slot, undone>>
  BY DEF RunEdit
<1>2. e \in Edit /\ Valid(e)
  <2>1. job[c] \in Seq(Edit) /\ Len(job[c]) = 1
    BY <1>1 DEF SessionTypeOK, JobsInv, Making
  <2> QED
    BY <1>1, <2>1 DEF JobsInv, Making
<1>3. ASSUME Refusal(project, e) = "none"
      PROVE  /\ Applied(project, e) \in Seq(Track(Ids))
             /\ Distinct(Applied(project, e))
             /\ e.index \in 1 .. Len(project)
  <2>1. e.index \in 1 .. Len(project) /\ DOMAIN project = 1 .. Len(project)
    BY <1>0, <1>3, NotRefused
  <2> QED
    BY <1>0, <1>2, <2>1, AppliedIs
<1> HIDE DEF e
<1>4. CASE Finish(c) /\ UNCHANGED project
  BY <1>0, <1>1, <1>4, FinishKeeps
<1>5. CASE Finish(c) /\ Refusal(project, e) = "none" /\ project' = Applied(project, e)
  BY <1>1, <1>3, <1>5, FinishKeeps
<1>6. CASE /\ Refusal(project, e) = "none" /\ project' = Applied(project, e)
           /\ pc' = [pc EXCEPT ![c] = "store"]
           /\ prior' \in {[prior EXCEPT ![c] = t] : t \in Priors(project, e)}
           /\ mark' = [mark EXCEPT ![c] = [before |-> project, after |-> project']]
           /\ UNCHANGED <<job, number>>
  <2> DEFINE m == [before |-> project, after |-> project']
  <2>1. m \in Marks
    BY <1>0, <1>3, <1>6 DEF Marks
  <2>2. PICK t \in Priors(project, e) : prior' = [prior EXCEPT ![c] = t]
    BY <1>6
  <2>3. t.name \in Names
    <3>1. t.name = project[e.index].name /\ project[e.index] \in Track(Ids)
      BY <1>0, <1>3, <1>6, PriorIs
    <3> QED
      BY <3>1 DEF Track
  <2>4. Took(m, e, t)
    BY <1>0, <1>6, <2>2 DEF Took
  <2> HIDE DEF m
  <2>5. /\ mark' = [mark EXCEPT ![c] = m] /\ mark' \in [Callers -> Marks]
        /\ DOMAIN prior' = Callers /\ prior'[c] = t /\ pc'[c] = "store" /\ mark'[c] = m
        /\ \A d \in Callers \ {c} : pc'[d] = pc[d] /\ prior'[d] = prior[d] /\ mark'[d] = mark[d]
    BY <1>6, <2>1, <2>2 DEF SessionTypeOK, JobsInv, m
  <2>6. SessionTypeOK'
    BY <1>1, <1>3, <1>6, <2>3, <2>5 DEF SessionTypeOK
  <2>7. JobsInv'
    BY <1>1, <1>6, <2>5 DEF JobsInv, Making
  <2>8. MarksInv'
    BY <1>1, <1>6, <2>4, <2>5 DEF MarksInv, e
  <2>9. NumbersInv'
    BY <1>1, <1>6, <2>5 DEF NumbersInv, Numbered, Making
  <2>10. UndoneAtMostOnce' /\ Distinct(project)'
    BY <1>1, <1>3, <1>6 DEF UndoneAtMostOnce
  <2> QED
    BY <2>6, <2>7, <2>8, <2>9, <2>10
<1>7. \/ Finish(c) /\ UNCHANGED project
      \/ /\ Refusal(project, e) = "none"
         /\ project' = Applied(project, e)
         /\ \/ Finish(c)
            \/ /\ pc' = [pc EXCEPT ![c] = "store"]
               /\ prior' \in {[prior EXCEPT ![c] = t] : t \in Priors(project, e)}
               /\ mark' = [mark EXCEPT ![c] = [before |-> project, after |-> project']]
               /\ UNCHANGED <<job, number>>
  BY Zenon DEF RunEdit, e
<1> QED
  BY <1>4, <1>5, <1>6, <1>7, Zenon

LEMMA StoreInverseInv ==
  ASSUME SessionInv, NEW c \in Callers, StoreInverse(c)
  PROVE  SessionInv'
<1> DEFINE e == job[c][1]
           s == [number |-> number[c], mark |-> mark[c], edit |-> InverseOf(e, prior[c])]
<1> USE DEF SessionInv
<1>1. /\ pc[c] = "store" /\ slot' = s /\ Finish(c)
      /\ UNCHANGED <<project, changes, edits, undos, undone>>
  BY DEF StoreInverse
<1>2. e \in Edit /\ Valid(e)
  <2>1. job[c] \in Seq(Edit) /\ Len(job[c]) = 1
    BY <1>1 DEF SessionTypeOK, JobsInv, Making
  <2> QED
    BY <1>1, <2>1 DEF JobsInv, Making
<1>3. mark[c] \in Marks /\ mark[c].before \in Seq(Track(Ids)) /\ Took(mark[c], e, prior[c])
  BY <1>1 DEF SessionTypeOK, Marks, MarksInv
<1>4. InverseOf(e, prior[c]) \in Edit
  BY <1>2, <1>3, InverseIs DEF Took
<1>5. number[c] \in 1 .. edits /\ undone[number[c]] = 0
  BY <1>1 DEF NumbersInv, Numbered, Making
<1>6. /\ s.number = number[c] /\ s.mark = mark[c] /\ s.edit = InverseOf(e, prior[c])
  OBVIOUS
<1> HIDE DEF s, e
<1>7. /\ pc' \in [Callers -> {"idle", "preflight", "run", "store", "undo", "plan"}]
      /\ job' \in [Callers -> Seq(Edit)]
      /\ number' \in [Callers -> 0 .. MaxEdits]
      /\ mark' \in [Callers -> Marks]
      /\ DOMAIN prior' = Callers
      /\ pc'[c] = "idle"
      /\ \A d \in Callers \ {c} :
           /\ pc'[d] = pc[d] /\ job'[d] = job[d] /\ number'[d] = number[d]
           /\ mark'[d] = mark[d] /\ prior'[d] = prior[d]
  BY <1>1, FinishIs DEF JobsInv
<1>8. SessionTypeOK'
  BY <1>1, <1>3, <1>4, <1>5, <1>6, <1>7 DEF SessionTypeOK
<1>9. JobsInv'
  BY <1>7 DEF JobsInv, Making
<1>10. MarksInv'
  <2>1. \A d \in Callers : pc'[d] = "store" => Took(mark'[d], job'[d][1], prior'[d])
    BY <1>7 DEF MarksInv
  <2>2. prior[c] \in Priors(mark[c].before, e)
    BY <1>3 DEF Took
  <2>3. \E d \in Edit : \E t \in Priors(s.mark.before, d) :
          Valid(d) /\ Took(s.mark, d, t) /\ s.edit = InverseOf(d, t)
    BY <1>2, <1>3, <1>6, <2>2
  <2> QED
    BY <1>1, <2>1, <2>3 DEF MarksInv
<1>11. NumbersInv'
  <2>1. ASSUME NEW d \in Callers, pc'[d] \in Numbered
        PROVE  d # c /\ pc[d] \in Numbered /\ number'[d] = number[d] /\ number[d] # number[c]
    <3>1. d # c /\ pc[d] \in Numbered /\ number'[d] = number[d]
      BY <1>7, <2>1 DEF Numbered, Making
    <3>2. pc[c] \in Numbered
      BY <1>1 DEF Numbered, Making
    <3> QED
      BY <3>1, <3>2 DEF NumbersInv
  <2>2. ASSUME NEW d \in Callers, pc'[d] \in Numbered
        PROVE  /\ number'[d] \in 1 .. edits'
               /\ undone'[number'[d]] = 0
               /\ slot' # NoSlot => number'[d] # slot'.number
               /\ \A h \in Callers \ {d} : pc'[h] \in Numbered => number'[d] # number'[h]
    BY <1>1, <1>6, <2>1, <2>2 DEF NumbersInv
  <2>3. (slot' # NoSlot => undone'[slot'.number] = 0)
        /\ \A n \in 1 .. MaxEdits : n > edits' => undone'[n] = 0
    BY <1>1, <1>5, <1>6 DEF NumbersInv
  <2> QED
    BY <2>2, <2>3 DEF NumbersInv
<1>12. UndoneAtMostOnce' /\ Distinct(project)'
  BY <1>1 DEF UndoneAtMostOnce
<1> QED
  BY <1>8, <1>9, <1>10, <1>11, <1>12

LEMMA TakeUndoInv ==
  ASSUME SessionInv, NEW c \in Callers, TakeUndo(c)
  PROVE  SessionInv'
<1> USE DEF SessionInv
<1>1. /\ slot # NoSlot /\ undos < MaxUndos /\ undos' = undos + 1
      /\ pc[c] = "idle" /\ pc' = [pc EXCEPT ![c] = "undo"]
      /\ job' = [job EXCEPT ![c] = <<slot.edit>>]
      /\ number' = [number EXCEPT ![c] = slot.number]
      /\ slot' = NoSlot
      /\ UNCHANGED <<project, changes, edits, mark, prior, undone>>
  BY DEF TakeUndo, Begin
<1>2. slot.edit \in Edit /\ slot.number \in 1 .. edits /\ edits \in 0 .. MaxEdits
      /\ MaxEdits \in Nat /\ MaxUndos \in Nat
  BY <1>1, SessionAssumption DEF SessionTypeOK
<1>3. <<slot.edit>> \in Seq(Edit) /\ Len(<<slot.edit>>) = 1
  BY <1>2
<1>4. \A d \in Callers : /\ pc'[d] = IF d = c THEN "undo" ELSE pc[d]
                         /\ job'[d] = IF d = c THEN <<slot.edit>> ELSE job[d]
                         /\ number'[d] = IF d = c THEN slot.number ELSE number[d]
  BY <1>1 DEF SessionTypeOK
<1>5. SessionTypeOK'
  BY <1>1, <1>2, <1>3, <1>4 DEF SessionTypeOK
<1>6. JobsInv'
  BY <1>1, <1>3, <1>4 DEF JobsInv, Making
<1>7. MarksInv'
  BY <1>1, <1>4 DEF MarksInv
<1>8. NumbersInv'
  <2>1. undone[slot.number] = 0
    BY <1>1 DEF NumbersInv
  <2>2. ASSUME NEW d \in Callers, pc'[d] \in Numbered
        PROVE  /\ number'[d] \in 1 .. edits'
               /\ undone'[number'[d]] = 0
               /\ \A h \in Callers \ {d} : pc'[h] \in Numbered => number'[d] # number'[h]
    BY <1>1, <1>2, <1>4, <2>1, <2>2 DEF NumbersInv
  <2>3. \A n \in 1 .. MaxEdits : n > edits' => undone'[n] = 0
    BY <1>1 DEF NumbersInv
  <2> QED
    BY <1>1, <2>2, <2>3 DEF NumbersInv
<1>9. UndoneAtMostOnce' /\ Distinct(project)'
  BY <1>1 DEF UndoneAtMostOnce
<1> QED
  BY <1>5, <1>6, <1>7, <1>8, <1>9

LEMMA RunUndoInv ==
  ASSUME SessionInv, NEW c \in Callers, RunUndo(c)
  PROVE  SessionInv'
<1> DEFINE e == job[c][1]
           m == number[c]
<1> USE DEF SessionInv
<1>0. project \in Seq(Track(Ids)) /\ Distinct(project)
  BY DEF SessionTypeOK
<1>1. pc[c] = "undo" /\ Finish(c) /\ UNCHANGED <<changes, edits, undos, slot>>
  BY DEF RunUndo
<1>2. job[c] \in Seq(Edit) /\ Len(job[c]) = 1 /\ e \in Edit
  <2>1. job[c] \in Seq(Edit) /\ Len(job[c]) = 1
    BY <1>1 DEF SessionTypeOK, JobsInv
  <2> QED
    BY <2>1
<1>3. CASE UNCHANGED <<project, undone>>
  BY <1>0, <1>1, <1>3, FinishKeeps
<1>4. CASE /\ Valid(e) /\ Refusal(project, e) = "none"
           /\ project' = Applied(project, e)
           /\ undone' = [undone EXCEPT ![m] = @ + 1]
  <2>1. project' \in Seq(Track(Ids)) /\ Distinct(project')
    <3>1. e.index \in 1 .. Len(project) /\ DOMAIN project = 1 .. Len(project)
      BY <1>0, <1>4, NotRefused
    <3> QED
      BY <1>0, <1>2, <1>4, <3>1, AppliedIs
  <2>2. pc[c] \in Numbered
    BY <1>1 DEF Numbered
  <2>3. m \in 1 .. edits /\ undone[m] = 0 /\ edits \in 0 .. MaxEdits /\ MaxEdits \in Nat
    BY <2>2, SessionAssumption DEF NumbersInv, SessionTypeOK
  <2>4. /\ undone' \in [1 .. MaxEdits -> Nat] /\ undone'[m] = 1
        /\ \A n \in 1 .. MaxEdits : n # m => undone'[n] = undone[n]
    BY <1>4, <2>3 DEF SessionTypeOK
  <2>5. /\ pc' \in [Callers -> {"idle", "preflight", "run", "store", "undo", "plan"}]
        /\ job' \in [Callers -> Seq(Edit)]
        /\ number' \in [Callers -> 0 .. MaxEdits]
        /\ mark' \in [Callers -> Marks]
        /\ DOMAIN prior' = Callers
        /\ pc'[c] = "idle"
        /\ \A d \in Callers \ {c} :
             /\ pc'[d] = pc[d] /\ job'[d] = job[d] /\ number'[d] = number[d]
             /\ mark'[d] = mark[d] /\ prior'[d] = prior[d]
    BY <1>1, FinishIs DEF JobsInv
  <2>6. SessionTypeOK'
    BY <1>1, <2>1, <2>4, <2>5 DEF SessionTypeOK
  <2>7. JobsInv'
    BY <2>5 DEF JobsInv, Making
  <2>8. MarksInv'
    BY <1>1, <2>5 DEF MarksInv
  <2>9. NumbersInv'
    <3>1. ASSUME NEW d \in Callers, pc'[d] \in Numbered
          PROVE  d # c /\ pc[d] \in Numbered /\ number'[d] = number[d] /\ number[d] # m
      <4>1. d # c /\ pc[d] \in Numbered /\ number'[d] = number[d]
        BY <2>5, <3>1 DEF Numbered, Making
      <4> QED
        BY <2>2, <4>1 DEF NumbersInv
    <3>2. \A d \in Callers : pc[d] \in Numbered => number[d] \in 1 .. MaxEdits
      BY <2>3 DEF NumbersInv
    <3>3. ASSUME NEW d \in Callers, pc'[d] \in Numbered
          PROVE  /\ number'[d] \in 1 .. edits'
                 /\ undone'[number'[d]] = 0
                 /\ slot' # NoSlot => number'[d] # slot'.number
                 /\ \A h \in Callers \ {d} : pc'[h] \in Numbered => number'[d] # number'[h]
      BY <1>1, <2>4, <3>1, <3>2, <3>3 DEF NumbersInv
    <3>4. slot' # NoSlot => undone'[slot'.number] = 0
      <4>1. slot # NoSlot => slot.number # m /\ slot.number \in 1 .. MaxEdits
        BY <2>2, <2>3 DEF NumbersInv, SessionTypeOK
      <4> QED
        BY <1>1, <2>4, <4>1 DEF NumbersInv
    <3>5. \A n \in 1 .. MaxEdits : n > edits' => undone'[n] = 0
      BY <1>1, <2>3, <2>4 DEF NumbersInv
    <3> QED
      BY <3>3, <3>4, <3>5 DEF NumbersInv
  <2>10. UndoneAtMostOnce'
    BY <2>4 DEF UndoneAtMostOnce, SessionTypeOK
  <2> QED
    BY <2>1, <2>6, <2>7, <2>8, <2>9, <2>10
<1> QED
  BY <1>3, <1>4 DEF RunUndo

LEMMA StartPlanInv ==
  ASSUME SessionInv, NEW c \in Callers, StartPlan(c)
  PROVE  SessionInv'
<1> USE DEF SessionInv
<1>1. /\ edits = 0 /\ edits' = MaxEdits
      /\ UNCHANGED <<project, changes, undos, number, mark, prior, slot, undone>>
  BY DEF StartPlan
<1>2. PICK plan \in [1 .. PlanEdits -> Inputs] :
        /\ pc[c] = "idle" /\ pc' = [pc EXCEPT ![c] = "plan"]
        /\ job' = [job EXCEPT ![c] = plan]
  BY DEF StartPlan, Begin
<1>3. \A e \in Inputs : e \in Edit /\ Valid(e)
  BY InputIs DEF SessionTypeOK
<1>4. plan \in Seq(Edit) /\ \A k \in 1 .. Len(plan) : Valid(plan[k])
  <2>1. PlanEdits \in Nat /\ plan \in [1 .. PlanEdits -> Edit]
    BY <1>3, SessionAssumption
  <2> QED
    BY <1>3, <2>1
<1>5. \A b \in Callers : /\ pc'[b] = IF b = c THEN "plan" ELSE pc[b]
                         /\ job'[b] = IF b = c THEN plan ELSE job[b]
  BY <1>2 DEF SessionTypeOK
<1>6. MaxEdits \in Nat
  BY SessionAssumption
<1>7. slot # NoSlot => FALSE
  BY <1>1 DEF SessionTypeOK
<1>8. SessionTypeOK'
  BY <1>1, <1>2, <1>4, <1>6, <1>7 DEF SessionTypeOK
<1>9. JobsInv'
  BY <1>1, <1>4, <1>5 DEF JobsInv, Making
<1>10. MarksInv'
  BY <1>1, <1>5, <1>7 DEF MarksInv
<1>11. NumbersInv'
  <2>1. \A b \in Callers : pc[b] \notin Numbered
    BY <1>1 DEF NumbersInv
  <2>2. \A b \in Callers : pc'[b] \notin Numbered
    BY <1>5, <2>1 DEF Numbered, Making
  <2> QED
    BY <1>1, <1>6, <1>7, <2>2 DEF NumbersInv
<1>12. UndoneAtMostOnce' /\ Distinct(project)'
  BY <1>1 DEF UndoneAtMostOnce
<1> QED
  BY <1>8, <1>9, <1>10, <1>11, <1>12

\* A plan in hand is one of edits that fit, once its guards have passed.
LEMMA PlanFits ==
  ASSUME SessionInv, NEW c \in Callers, pc[c] = "plan", BulkRefusal(project, job[c]) = "none"
  PROVE  /\ project \in Seq(Track(Ids)) /\ Distinct(project)
         /\ job[c] \in Seq(Edit)
         /\ Fits(project, job[c])
BY RefusedBulk DEF SessionInv, SessionTypeOK, JobsInv

LEMMA RunPlanInv ==
  ASSUME SessionInv, NEW c \in Callers, RunPlan(c)
  PROVE  SessionInv'
<1>1. pc[c] = "plan" /\ Finish(c) /\ UNCHANGED <<changes, edits, undos, slot, undone>>
  BY DEF RunPlan
<1>2. CASE UNCHANGED project
  BY <1>1, <1>2, FinishKeeps DEF SessionInv, SessionTypeOK
<1>3. CASE BulkRefusal(project, job[c]) = "none" /\ project' = BulkApplied(project, job[c])
  <2>1. SameSize(project', project)
    BY <1>1, <1>3, PlanFits, BulkAppliedIs
  <2> QED
    BY <1>1, <2>1, FinishKeeps DEF SameSize
<1> QED
  BY <1>2, <1>3 DEF RunPlan

LEMMA OutsideInv ==
  ASSUME SessionInv, OutsideChange
  PROVE  SessionInv'
<1> USE DEF SessionInv
<1>1. /\ changes < MaxChanges /\ changes' = changes + 1
      /\ UNCHANGED <<edits, undos, pc, job, number, mark, prior, slot, undone>>
  BY DEF OutsideChange, callVars
<1>2. project' \in Seq(Track(Ids)) /\ Distinct(project')
  BY OutsideKeepsProject DEF SessionTypeOK
<1>3. SessionTypeOK'
  BY <1>1, <1>2, SessionAssumption DEF SessionTypeOK
<1>4. JobsInv' /\ MarksInv' /\ NumbersInv' /\ UndoneAtMostOnce'
  BY <1>1 DEF JobsInv, MarksInv, NumbersInv, UndoneAtMostOnce
<1> QED
  BY <1>2, <1>3, <1>4

LEMMA NextInv == SessionInv /\ [SessionNext]_vars => SessionInv'
<1> SUFFICES ASSUME SessionInv, [SessionNext]_vars PROVE SessionInv'
  OBVIOUS
<1>1. ASSUME NEW c \in Callers, CallStep(c) PROVE SessionInv'
  BY <1>1, StartEditInv, MovePreflightInv, RunEditInv, StoreInverseInv, TakeUndoInv,
     RunUndoInv, StartPlanInv, RunPlanInv DEF CallStep
<1>2. CASE OutsideChange
  BY <1>2, OutsideInv
<1>3. CASE UNCHANGED vars
  BY <1>3 DEF vars, callVars, SessionInv, SessionTypeOK, JobsInv, MarksInv, NumbersInv,
              UndoneAtMostOnce
<1> QED
  BY <1>1, <1>2, <1>3 DEF SessionNext, SessionDone

\* The parts above hold together in every state.
THEOREM SessionInductive == SessionSpec => []SessionInv
BY InitInv, NextInv, PTL DEF SessionSpec

\* The project stays a list of tracks, whatever edits, undos, plans and the user do
\* to it at once, and every call and the slot hold what their places say.
THEOREM SessionTypeCorrect == SessionSpec => []SessionTypeOK
<1>1. SessionInv => SessionTypeOK
  BY DEF SessionInv
<1> QED
  BY <1>1, SessionInductive, PTL

\* However many undo calls race for the slot, an edit is taken back at most once
\* (UndoTrackEdit takes the inverse out of the map before it runs it).
THEOREM SessionUndoneAtMostOnce == SessionSpec => []UndoneAtMostOnce
<1>1. SessionInv => UndoneAtMostOnce
  BY DEF SessionInv
<1> QED
  BY <1>1, SessionInductive, PTL

\* The inverse on offer brings back the project as its edit found it, where the
\* receipt could say what the track was (Inverse, edits.go).
THEOREM SessionUndoRestores == SessionSpec => []UndoRestores
<1>1. ASSUME SessionInv PROVE UndoRestores
  <2> SUFFICES ASSUME slot # NoSlot, ~Irreversible(slot.mark, slot.edit) PROVE Restores(slot)
    BY DEF UndoRestores
  <2>1. slot.mark.before \in Seq(Track(Ids))
    BY <1>1 DEF SessionInv, SessionTypeOK, Marks
  <2>2. PICK e \in Edit : \E t \in Priors(slot.mark.before, e) :
          Valid(e) /\ Took(slot.mark, e, t) /\ slot.edit = InverseOf(e, t)
    BY <1>1 DEF SessionInv, MarksInv
  <2>3. PICK t \in Priors(slot.mark.before, e) :
          Valid(e) /\ Took(slot.mark, e, t) /\ slot.edit = InverseOf(e, t)
    BY <2>2
  <2> QED
    BY <2>1, <2>3, InverseRestores DEF Took
<1> QED
  BY <1>1, SessionInductive, PTL

-------------------------------------------------------------------------------

\* A call moves itself alone.
LEMMA OnlyTheCall ==
  ASSUME SessionTypeOK, NEW c \in Callers, NEW d \in Callers, CallStep(d), pc'[c] # pc[c]
  PROVE  c = d
<1>1. \E v : pc' = [pc EXCEPT ![d] = v]
  BY DEF CallStep, StartEdit, MovePreflight, RunEdit, StoreInverse, TakeUndo, RunUndo,
         StartPlan, RunPlan, Begin, Finish
<1> QED
  BY <1>1 DEF SessionTypeOK

\* One edit moves one track that is no folder parent, or no track at all.
LEMMA OneTrackMoves ==
  ASSUME NEW p \in Seq(Track(Ids)), Distinct(p), NEW e \in Edit, Valid(e),
         Refusal(p, e) = "none",
         NEW q, q = Applied(p, e), Order(q) # Order(p)
  PROVE  \E i \in DOMAIN p :
           /\ ~p[i].parent
           /\ RemoveAt(Order(q), Position(q, p[i].id)) = RemoveAt(Order(p), i)
<1> DEFINE n == Len(p)
           i == e.index
           to == Target(p, e)
           a == Order(p)
           b == Order(q)
<1>1. n \in Nat /\ DOMAIN p = 1 .. n /\ i \in 1 .. n /\ (e.kind = "move" => ~p[i].parent)
  BY NotRefused
<1>2. q \in Seq(Track(Ids)) /\ Len(q) = n /\ DOMAIN q = 1 .. n /\ Distinct(q)
  <2>1. q \in Seq(Track(Ids)) /\ Len(q) = n /\ Distinct(q)
    BY <1>1, AppliedIs
  <2> QED
    BY <2>1
<1>3. IsMove(e)
  <2> SUFFICES ASSUME ~IsMove(e) PROVE Order(q) = Order(p)
    OBVIOUS
  <2>1. \A k \in 1 .. n : q[k].id = p[k].id
    BY <1>1, InPlace
  <2> QED
    BY <1>1, <1>2, <2>1 DEF Order
<1>4. to \in 1 .. n /\ q = MovedTo(p, i, to)
  BY <1>1, <1>3, MoveIs
<1>5. q[to] = p[i]
  BY <1>4 DEF MovedTo
<1>6. Position(q, p[i].id) = to
  BY <1>2, <1>4, <1>5, PositionIs
<1>7. /\ a = [k \in 1 .. n |-> p[k].id] /\ b = [k \in 1 .. n |-> q[k].id]
  BY <1>1, <1>2 DEF Order
<1> HIDE DEF a, b, n, to
<1>8. a \in Seq(Ids) /\ b \in Seq(Ids) /\ Len(a) = n /\ Len(b) = n
  <2>1. ASSUME NEW k \in 1 .. n PROVE p[k].id \in Ids /\ q[k].id \in Ids
    <3>1. p[k] \in Track(Ids) /\ q[k] \in Track(Ids)
      BY <1>2 DEF n
    <3> QED
      BY <3>1 DEF Track
  <2>2. a \in [1 .. n -> Ids] /\ b \in [1 .. n -> Ids]
    BY <1>7, <2>1
  <2> QED
    BY <1>1, <2>2
<1>9. RemoveAt(b, to) = RemoveAt(a, i)
  <2> DEFINE r == RemoveAt(a, i)
             s == RemoveAt(b, to)
  <2>1. r \in Seq(Ids) /\ Len(r) = n - 1
        /\ \A k \in 1 .. n - 1 : r[k] = IF k < i THEN a[k] ELSE a[k + 1]
    BY <1>1, <1>8, RemoveAtIs
  <2>2. s \in Seq(Ids) /\ Len(s) = n - 1
        /\ \A k \in 1 .. n - 1 : s[k] = IF k < to THEN b[k] ELSE b[k + 1]
    BY <1>4, <1>8, RemoveAtIs DEF n
  <2> HIDE DEF r, s
  <2>3. ASSUME NEW k \in 1 .. n - 1 PROVE s[k] = r[k]
    <3>1. k \in 1 .. n /\ k + 1 \in 1 .. n /\ k + 1 - 1 = k
      BY <1>1
    <3>2. \A h \in 1 .. n :
            q[h] = IF h = to THEN p[i]
                   ELSE IF (h < i /\ h < to) \/ (h > i /\ h > to) THEN p[h]
                   ELSE IF i < to THEN p[h + 1]
                   ELSE p[h - 1]
      BY <1>4 DEF MovedTo, n
    <3>3. q[IF k < to THEN k ELSE k + 1] = p[IF k < i THEN k ELSE k + 1]
      BY <1>1, <1>4, <3>1, <3>2
    <3>4. /\ s[k] = q[IF k < to THEN k ELSE k + 1].id
          /\ r[k] = p[IF k < i THEN k ELSE k + 1].id
      BY <1>7, <2>1, <2>2, <3>1
    <3> QED
      BY <3>3, <3>4
  <2>4. s = r
    BY <1>1, <2>1, <2>2, <2>3
  <2> QED
    BY <2>4 DEF r, s
<1> QED
  BY <1>1, <1>3, <1>6, <1>9 DEF IsMove, a, b

\* What a single edit or undo does to the order of the tracks, it does by moving a
\* track that is no folder parent then (the check inside the Lua script, edits.go).
THEOREM SessionFolderParentsStay == SessionSpec => FolderParentsStay
<1> DEFINE OneMoves ==
             (\E c \in Callers : pc[c] \in {"run", "undo"} /\ pc'[c] # pc[c])
               /\ Order(project') # Order(project)
             => \E i \in DOMAIN project :
                  /\ ~project[i].parent
                  /\ RemoveAt(Order(project'), Position(project', project[i].id))
                       = RemoveAt(Order(project), i)
<1>1. SessionInv /\ [SessionNext]_vars => [OneMoves]_vars
  <2> SUFFICES ASSUME SessionInv, SessionNext,
                      NEW c \in Callers, pc[c] \in {"run", "undo"}, pc'[c] # pc[c],
                      Order(project') # Order(project)
               PROVE  \E i \in DOMAIN project :
                        /\ ~project[i].parent
                        /\ RemoveAt(Order(project'), Position(project', project[i].id))
                             = RemoveAt(Order(project), i)
    BY DEF vars
  <2>1. project \in Seq(Track(Ids)) /\ Distinct(project) /\ SessionTypeOK
    BY DEF SessionInv, SessionTypeOK
  <2>2. \E d \in Callers : CallStep(d)
    BY DEF SessionNext, OutsideChange, SessionDone, vars, callVars
  <2>3. CallStep(c)
    BY <2>1, <2>2, OnlyTheCall
  <2>4. CASE pc[c] = "run"
    <3>1. RunEdit(c)
      BY <2>3, <2>4 DEF CallStep, StartEdit, MovePreflight, StoreInverse, TakeUndo, RunUndo,
                        StartPlan, RunPlan, Begin
    <3>2. job[c] \in Seq(Edit) /\ Len(job[c]) = 1 /\ Valid(job[c][1])
      BY <2>4 DEF SessionInv, SessionTypeOK, JobsInv, Making
    <3>3. job[c][1] \in Edit
      BY <3>2
    <3>4. project' # project
      OBVIOUS
    <3>5. Refusal(project, job[c][1]) = "none" /\ project' = Applied(project, job[c][1])
      BY <3>1, <3>4 DEF RunEdit
    <3> QED
      BY <2>1, <3>2, <3>3, <3>5, OneTrackMoves
  <2>5. CASE pc[c] = "undo"
    <3>1. RunUndo(c)
      BY <2>3, <2>5 DEF CallStep, StartEdit, MovePreflight, StoreInverse, TakeUndo, RunEdit,
                        StartPlan, RunPlan, Begin
    <3>2. job[c] \in Seq(Edit) /\ Len(job[c]) = 1
      BY <2>5 DEF SessionInv, SessionTypeOK, JobsInv
    <3>3. job[c][1] \in Edit
      BY <3>2
    <3>4. project' # project
      OBVIOUS
    <3>5. /\ Valid(job[c][1]) /\ Refusal(project, job[c][1]) = "none"
          /\ project' = Applied(project, job[c][1])
      BY <3>1, <3>4 DEF RunUndo
    <3> QED
      BY <2>1, <3>3, <3>5, OneTrackMoves
  <2> QED
    BY <2>4, <2>5
<1> QED
  BY <1>1, SessionInductive, PTL DEF SessionSpec, FolderParentsStay

\* A plan, of any number of edits, gives its values to the tracks that had their
\* positions when it started, though it may move them (Ordered, bulk.go).
THEOREM SessionPlanHitsItsTracks == SessionSpec => PlanHitsItsTracks
<1> DEFINE Hit(c) ==
             pc[c] = "plan" /\ pc'[c] = "idle" /\ project' # project =>
               \A k \in DOMAIN job[c] :
                 LET e == job[c][k]
                     t == project'[Position(project', project[e.index].id)]
                 IN  ~Overwritten(job[c], k) =>
                       /\ e.kind = "rename" => t.name = e.newName
                       /\ e.kind = "color"  => t.color = e.newColor
                       /\ e.kind = "solo"   => t.solo = e.newSolo
           Hits == \A c \in Callers : Hit(c)
<1>1. SessionInv /\ [SessionNext]_vars => [Hits]_vars
  <2> SUFFICES ASSUME SessionInv, SessionNext, NEW c \in Callers,
                      pc[c] = "plan", pc'[c] = "idle", project' # project
               PROVE  Hit(c)
    BY DEF vars
  <2>1. \E d \in Callers : CallStep(d)
    BY DEF SessionNext, OutsideChange, SessionDone, vars, callVars
  <2>2. CallStep(c)
    BY <2>1, OnlyTheCall DEF SessionInv
  <2>3. RunPlan(c)
    BY <2>2 DEF CallStep, StartEdit, MovePreflight, StoreInverse, TakeUndo, RunEdit, RunUndo,
                StartPlan, Begin
  <2>4. BulkRefusal(project, job[c]) = "none" /\ project' = BulkApplied(project, job[c])
    BY <2>3 DEF RunPlan
  <2>5. /\ project \in Seq(Track(Ids)) /\ Distinct(project) /\ job[c] \in Seq(Edit)
        /\ Fits(project, job[c]) /\ DOMAIN job[c] = 1 .. Len(job[c])
    <3>1. /\ project \in Seq(Track(Ids)) /\ Distinct(project) /\ job[c] \in Seq(Edit)
          /\ Fits(project, job[c])
      BY <2>4, PlanFits
    <3> QED
      BY <3>1
  <2>6. ASSUME NEW k \in 1 .. Len(job[c]), ~Overwritten(job[c], k), ~IsMove(job[c][k])
        PROVE  Has(project'[Position(project', project[job[c][k].index].id)], job[c][k])
    BY <2>4, <2>5, <2>6, PlanHits
  <2> QED
    BY <2>5, <2>6 DEF Has, IsMove
<1> QED
  BY <1>1, SessionInductive, PTL DEF SessionSpec, PlanHitsItsTracks
===============================================================================
