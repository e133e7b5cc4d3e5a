-------------------------- MODULE TidySession_proofs --------------------------
(***************************************************************************)
(* TidySession keeps its invariants for every number of calls, projects    *)
(* and proposals.                                                          *)
(*                                                                         *)
(* The store only grows (Grows): what a call has read of it may be late,   *)
(* but it stays true that a proposal has its plan, that it was open once,  *)
(* that a change was asked for or made. So what a call may do next follows *)
(* from what it knows (CallInv), which no other call can take away. Only   *)
(* two facts need more: a proposal that is not published yet belongs to    *)
(* one call (DistinctInv), and the three shared files tell the truth about *)
(* some call, if not about the one that reads them (FilesInv).             *)
(***************************************************************************)
EXTENDS TidySession, OrderLemmas, FiniteSetTheorems, TLAPS

(***************************************************************************)
(* What following the survey does to a project, whatever is in it: no name *)
(* is lost at any place, and after two rounds nothing is left to propose.  *)
(*                                                                         *)
(* Both rest on the survivor of a duplicate: it exists, since among        *)
(* numbered markers there is a first one; it is a marker of the same place *)
(* and, for a named duplicate, of the same name; and it is no duplicate    *)
(* itself, since its twins are the duplicate's.                            *)
(***************************************************************************)

LEMMA FirstOf ==
  ASSUME NEW T, T # {}, T \subseteq [region : BOOLEAN, id : Nat]
  PROVE  First(T) \in T /\ \A l \in T : First(T).id <= l.id
<1> DEFINE Ids == {l.id : l \in T}
<1>1. Ids \in SUBSET Nat /\ Ids # {}
  OBVIOUS
<1>2. PICK n \in Ids : \A m \in Ids : n <= m
  <2> HIDE DEF Ids
  <2> QED
    BY <1>1, LeastNat
<1>3. PICK k \in T : k.id = n
  OBVIOUS
<1>4. \A l \in T : k.id <= l.id
  BY <1>2, <1>3
<1> QED
  BY <1>3, <1>4 DEF First

\* Of markers that are no regions there is one first.
LEMMA FirstIs ==
  ASSUME NEW T, T \subseteq [region : BOOLEAN, id : Nat], \A l \in T : ~l.region,
         NEW k \in T, \A l \in T : k.id <= l.id
  PROVE  First(T) = k
<1>1. First(T) \in T /\ First(T).id <= k.id
  BY FirstOf
<1>2. First(T).id = k.id
  BY <1>1
<1> QED
  BY <1>1, <1>2

-------------------------------------------------------------------------------
(***************************************************************************)
(* Duplicates.                                                             *)
(***************************************************************************)

NamesAt(ms, k) == {ms[l].name : l \in Named(ms, Beside(ms, k))}

\* The four cases of Twins.
LEMMA TwinsCases ==
  ASSUME NEW ms, AreMarkers(ms), NEW k \in DOMAIN ms, ~k.region
  PROVE  \/ /\ ms[k].name # NoName
            /\ Twins(ms, k) = {l \in Beside(ms, k) : ms[l].name = ms[k].name}
         \/ /\ ms[k].name = NoName
            /\ \E n : /\ n # NoName /\ NamesAt(ms, k) = {n}
                      /\ Twins(ms, k) = {l \in Beside(ms, k) : ms[l].name = n}
                      /\ Twins(ms, k) # {}
         \/ /\ ms[k].name = NoName /\ NamesAt(ms, k) = {}
            /\ Twins(ms, k) = Beside(ms, k)
         \/ /\ ms[k].name = NoName /\ NamesAt(ms, k) # {}
            /\ \A n : NamesAt(ms, k) # {n}
            /\ Twins(ms, k) = {k}
<1> DEFINE here == Beside(ms, k)
           named == Named(ms, here)
           names == {ms[l].name : l \in named}
<1>1. CASE ms[k].name # NoName
  BY <1>1 DEF Twins
<1>2. CASE ms[k].name = NoName
  <2>1. IsFiniteSet(names)
    <3>1. IsFiniteSet(named)
      BY FS_Subset DEF Named, Beside, AreMarkers
    <3>2. [l \in named |-> ms[l].name] \in Surjection(named, names)
      BY DEF Surjection
    <3> HIDE DEF named, names
    <3> QED
      BY <3>1, <3>2, FS_Surjection
  <2>2. names = {} <=> named = {}
    OBVIOUS
  <2>3. CASE Cardinality(names) = 1
    <3>1. PICK n : names = {n}
      <4> HIDE DEF names
      <4> QED
        BY <2>1, <2>3, FS_Singleton
    <3>2. n # NoName
      BY <3>1 DEF Named
    <3>3. named = {l \in here : ms[l].name = n}
      BY <3>1, <3>2 DEF Named
    <3>4. Twins(ms, k) = named
      BY <1>2, <2>3 DEF Twins
    <3> QED
      BY <1>2, <3>1, <3>2, <3>3, <3>4 DEF NamesAt
  <2>4. CASE Cardinality(names) # 1
    <3>1. \A n : names # {n}
      BY <2>4, FS_Singleton
    <3>2. CASE named = {}
      <4>1. Twins(ms, k) = here
        BY <1>2, <2>4, <3>2 DEF Twins
      <4> QED
        BY <1>2, <2>2, <3>2, <4>1 DEF NamesAt
    <3>3. CASE named # {}
      <4>1. Twins(ms, k) = {k}
        BY <1>2, <2>4, <3>3 DEF Twins
      <4> QED
        BY <1>2, <2>2, <3>1, <3>3, <4>1 DEF NamesAt
    <3> QED
      BY <3>2, <3>3
  <2> QED
    BY <2>3, <2>4
<1> QED
  BY <1>1, <1>2

\* Where no marker has a name, all are twins.
LEMMA UnnamedTwins ==
  ASSUME NEW ms, AreMarkers(ms), NEW k \in DOMAIN ms, ~k.region, ms[k].name = NoName,
         NamesAt(ms, k) = {}
  PROVE  Twins(ms, k) = Beside(ms, k)
<1>1. ASSUME NEW n, NamesAt(ms, k) = {n} PROVE FALSE
  BY <1>1
<1> QED
  BY <1>1, TwinsCases

LEMMA TwinsAreMarkers ==
  ASSUME NEW ms, AreMarkers(ms), NEW k \in DOMAIN ms, ~k.region
  PROVE  /\ Twins(ms, k) # {}
         /\ Twins(ms, k) \subseteq Beside(ms, k)
         /\ Twins(ms, k) \subseteq [region : BOOLEAN, id : Nat]
         /\ \A l \in Twins(ms, k) : ~l.region
<1>1. k \in Beside(ms, k)
  BY DEF Beside
<1>2. Twins(ms, k) # {} /\ Twins(ms, k) \subseteq Beside(ms, k)
  BY <1>1, TwinsCases
<1>3. Beside(ms, k) \subseteq [region : BOOLEAN, id : Nat] /\ \A l \in Beside(ms, k) : ~l.region
  BY DEF Beside, AreMarkers
<1> QED
  BY <1>2, <1>3

\* The survivor is a marker of the same place and the same name, and it stays.
LEMMA SurvivorStays ==
  ASSUME NEW ms, AreMarkers(ms), NEW k \in DOMAIN ms, ~k.region
  PROVE  LET s == Survivor(ms, k) IN
         /\ s \in DOMAIN ms /\ ~s.region /\ ms[s].pos = ms[k].pos
         /\ ms[k].name # NoName => ms[s].name = ms[k].name
         /\ Survivor(ms, s) = s
<1> DEFINE s == Survivor(ms, k)
<1>1. s \in Twins(ms, k)
  BY TwinsAreMarkers, FirstOf DEF Survivor
<1>2. s \in DOMAIN ms /\ ~s.region /\ ms[s].pos = ms[k].pos
  BY <1>1, TwinsAreMarkers DEF Beside
<1>3. Beside(ms, s) = Beside(ms, k) /\ NamesAt(ms, s) = NamesAt(ms, k)
  BY <1>2 DEF Beside, NamesAt, Named
<1>4. Twins(ms, s) = Twins(ms, k) /\ (ms[k].name # NoName => ms[s].name = ms[k].name)
  <2> HIDE DEF s
  <2>1. CASE ms[k].name # NoName
    <3>1. ms[s].name = ms[k].name
      BY <1>1, <2>1, TwinsCases
    <3> QED
      BY <1>3, <2>1, <3>1 DEF Twins
  <2>2. CASE ms[k].name = NoName
    <3>1. s \in Beside(ms, k)
      BY <1>1, TwinsAreMarkers
    <3>2. ASSUME NEW n, n # NoName, NamesAt(ms, k) = {n},
                 Twins(ms, k) = {l \in Beside(ms, k) : ms[l].name = n}
          PROVE  Twins(ms, s) = Twins(ms, k)
      <4>1. ms[s].name = n
        BY <1>1, <3>2
      <4>2. Twins(ms, s) = {l \in Beside(ms, s) : ms[l].name = n}
        BY <3>2, <4>1 DEF Twins
      <4> QED
        BY <1>3, <3>2, <4>2
    <3>3. CASE NamesAt(ms, k) = {}
      <4>1. ms[s].name = NoName
        BY <3>1, <3>3 DEF NamesAt, Named
      <4>2. Twins(ms, k) = Beside(ms, k)
        BY <2>2, <3>3, TwinsCases
      <4>3. Twins(ms, s) = Beside(ms, s)
        BY <1>2, <1>3, <3>3, <4>1, UnnamedTwins
      <4> QED
        BY <1>3, <2>2, <4>2, <4>3
    <3>4. CASE Twins(ms, k) = {k}
      BY <1>1, <2>2, <3>4
    <3> QED
      BY <2>2, <3>2, <3>3, <3>4, TwinsCases
  <2> QED
    BY <2>1, <2>2
<1>5. Survivor(ms, s) = s
  BY <1>4 DEF Survivor
<1> QED
  BY <1>2, <1>4, <1>5

-------------------------------------------------------------------------------
(***************************************************************************)
(* What a plan makes of a project.                                         *)
(***************************************************************************)

\* Whatever is done, it remains a project.
LEMMA ChangedIsProject ==
  ASSUME NEW p, IsProject(p), NEW done, \A i \in done : i.verb = "rename" => IsName(i.newName)
  PROVE  IsProject(Changed(p, done))
<1> DEFINE gone == {i.marker : i \in {j \in done : j.verb = "delete"}}
           new(k) == {i \in done : i.verb = "rename" /\ i.marker = k}
           painted(g) == {i \in done : i.verb = "color" /\ i.track = g}
           ts == [g \in DOMAIN p.tracks |->
                    IF painted(g) = {} THEN p.tracks[g]
                    ELSE [p.tracks[g] EXCEPT !.color = (CHOOSE i \in painted(g) : TRUE).color]]
           ms == [k \in DOMAIN p.markers \ gone |->
                    IF new(k) = {} THEN p.markers[k]
                    ELSE [p.markers[k] EXCEPT !.name = (CHOOSE i \in new(k) : TRUE).newName]]
<1>1. Changed(p, done) = [tracks |-> ts, markers |-> ms]
  BY DEF Changed
<1>2. AreTracks(ts)
  <2>1. ASSUME NEW g \in DOMAIN p.tracks
        PROVE  ts[g] = Track(ts[g].words, ts[g].color) /\ IsFiniteSet(ts[g].words)
    <3> HIDE DEF painted
    <3> QED
      BY DEF IsProject, AreTracks, Track
  <2> QED
    BY <2>1 DEF AreTracks
<1>3. AreMarkers(ms)
  <2>1. ASSUME NEW k \in DOMAIN p.markers \ gone
        PROVE  ms[k] = Marker(ms[k].pos, ms[k].name) /\ IsName(ms[k].name)
    <3>1. p.markers[k] = Marker(p.markers[k].pos, p.markers[k].name) /\ IsName(p.markers[k].name)
      BY DEF IsProject, AreMarkers
    <3>2. CASE new(k) = {}
      BY <3>1, <3>2
    <3>3. CASE new(k) # {}
      <4>1. (CHOOSE i \in new(k) : TRUE) \in new(k)
        BY <3>3
      <4>2. IsName((CHOOSE i \in new(k) : TRUE).newName)
        BY <4>1
      <4> HIDE DEF new
      <4> QED
        BY <3>1, <3>3, <4>2 DEF Marker
    <3> QED
      BY <3>2, <3>3
  <2>2. DOMAIN p.markers \ gone \subseteq DOMAIN p.markers /\ IsFiniteSet(DOMAIN p.markers)
    BY DEF IsProject, AreMarkers
  <2>3. IsFiniteSet(DOMAIN p.markers \ gone)
    <3> HIDE DEF gone
    <3> QED
      BY <2>2, FS_Subset
  <2>4. DOMAIN ms = DOMAIN p.markers \ gone /\ ms = [k \in DOMAIN ms |-> ms[k]]
    OBVIOUS
  <2> HIDE DEF ms, gone
  <2> QED
    BY <2>1, <2>2, <2>3, <2>4 DEF AreMarkers, IsProject
<1> HIDE DEF ts, ms
<1> QED
  BY <1>1, <1>2, <1>3 DEF IsProject

\* The name the survey wants.
Better(name) == IF NameChanges(name) THEN Canonical(name) ELSE name

LEMMA BetterNames ==
  ASSUME NEW n, IsName(n)
  PROVE  /\ IsName(Better(n)) /\ ~NameChanges(Better(n))
         /\ Canonical(Better(n)) = Canonical(n)
         /\ Better(n) = NoName <=> n = NoName
<1>1. Canonical(n) = SectionName(n.section, n.number, OwnStyle)
  BY DEF Canonical, IsName, SectionName
<1>2. Canonical(Canonical(n)) = Canonical(n)
  BY <1>1 DEF Canonical, SectionName
<1>3. NameChanges(n) => Canonical(n) # NoName
  BY <1>1, PlansAssumption DEF NameChanges, SectionName
<1>4. IsName(Canonical(n))
  BY <1>1 DEF IsName, SectionName
<1> QED
  BY <1>2, <1>3, <1>4 DEF Better, NameChanges

Staying(ms) == {k \in DOMAIN ms : ~IsDuplicate(ms, k)}

\* The markers after the survey was followed.
LEMMA TidiedMarkers ==
  ASSUME NEW p, IsProject(p)
  PROVE  Tidied(p).markers =
           [k \in Staying(p.markers) |-> Marker(p.markers[k].pos, Better(p.markers[k].name))]
<1> DEFINE ms == p.markers
           items == Survey(p)
           gone == {i.marker : i \in {j \in items : j.verb = "delete"}}
           new(k) == {i \in items : i.verb = "rename" /\ i.marker = k}
<1>1. \A i \in items : \/ i \in ColorItems(p) /\ i.verb = "color"
                       \/ i \in RenameItems(ms) /\ i.verb = "rename"
                       \/ i \in DeleteItems(ms) /\ i.verb = "delete"
  BY DEF Survey, ColorItems, RenameItems, DeleteItems, ColorItem, RenameItem, DeleteItem
<1>2. gone = {k \in DOMAIN ms : IsDuplicate(ms, k)}
  <2>1. ASSUME NEW k \in DOMAIN ms, IsDuplicate(ms, k) PROVE k \in gone
    <3>1. DeleteItem(k, ms[k], Survivor(ms, k)) \in items
      BY <2>1 DEF Survey, DeleteItems
    <3>2. /\ DeleteItem(k, ms[k], Survivor(ms, k)).marker = k
          /\ DeleteItem(k, ms[k], Survivor(ms, k)).verb = "delete"
      BY DEF DeleteItem
    <3> HIDE DEF items
    <3> QED
      BY <3>1, <3>2
  <2>2. ASSUME NEW k \in gone PROVE k \in DOMAIN ms /\ IsDuplicate(ms, k)
    <3>1. PICK i \in items : i.verb = "delete" /\ k = i.marker
      OBVIOUS
    <3>2. i \in DeleteItems(ms)
      BY <1>1, <3>1
    <3> QED
      BY <3>1, <3>2 DEF DeleteItems, DeleteItem
  <2> QED
    BY <2>1, <2>2
<1>3. DOMAIN ms \ gone = Staying(ms)
  BY <1>2 DEF Staying
<1>4. ASSUME NEW k \in Staying(ms)
      PROVE  (IF new(k) = {} THEN ms[k] ELSE [ms[k] EXCEPT !.name = (CHOOSE i \in new(k) : TRUE).newName])
               = Marker(ms[k].pos, Better(ms[k].name))
  <2>1. ms[k] = Marker(ms[k].pos, ms[k].name) /\ k \in DOMAIN ms
    BY DEF Staying, IsProject, AreMarkers
  <2>2. \A i \in new(k) : i = RenameItem(k, ms[k].name, Canonical(ms[k].name)) /\ NameChanges(ms[k].name)
    <3>1. ASSUME NEW i \in new(k)
          PROVE  i = RenameItem(k, ms[k].name, Canonical(ms[k].name)) /\ NameChanges(ms[k].name)
      <4>1. i \in RenameItems(ms) /\ i.marker = k
        BY <1>1
      <4> QED
        BY <4>1 DEF RenameItems, RenameItem
    <3> QED
      BY <3>1
  <2>3. NameChanges(ms[k].name) => RenameItem(k, ms[k].name, Canonical(ms[k].name)) \in new(k)
    <3>1. NameChanges(ms[k].name) => RenameItem(k, ms[k].name, Canonical(ms[k].name)) \in items
      BY DEF Staying, Survey, RenameItems
    <3>2. /\ RenameItem(k, ms[k].name, Canonical(ms[k].name)).verb = "rename"
          /\ RenameItem(k, ms[k].name, Canonical(ms[k].name)).marker = k
      BY DEF RenameItem
    <3> HIDE DEF items
    <3> QED
      BY <3>1, <3>2
  <2> HIDE DEF new
  <2>4. CASE NameChanges(ms[k].name)
    <3>1. (CHOOSE i \in new(k) : TRUE) = RenameItem(k, ms[k].name, Canonical(ms[k].name)) /\ new(k) # {}
      BY <2>2, <2>3, <2>4
    <3>2. RenameItem(k, ms[k].name, Canonical(ms[k].name)).newName = Canonical(ms[k].name)
      BY DEF RenameItem
    <3> QED
      BY <2>1, <2>4, <3>1, <3>2 DEF Better, Marker
  <2>5. CASE ~NameChanges(ms[k].name)
    BY <2>1, <2>2, <2>5 DEF Better
  <2> QED
    BY <2>4, <2>5
<1>5. Tidied(p).markers =
        [k \in DOMAIN ms \ gone |->
           IF new(k) = {} THEN ms[k] ELSE [ms[k] EXCEPT !.name = (CHOOSE i \in new(k) : TRUE).newName]]
  BY DEF Tidied, Changed
<1> HIDE DEF ms, gone, new, items
<1>6. Tidied(p).markers = [k \in Staying(ms) |-> Marker(ms[k].pos, Better(ms[k].name))]
  BY <1>3, <1>4, <1>5
<1> QED
  BY <1>6 DEF ms

LEMMA SurveyNames ==
  ASSUME NEW p, IsProject(p), NEW i \in Survey(p), i.verb = "rename"
  PROVE  IsName(i.newName)
<1>1. i \in RenameItems(p.markers)
  BY DEF Survey, ColorItems, DeleteItems, ColorItem, DeleteItem
<1>2. PICK k \in DOMAIN p.markers :
        /\ NameChanges(p.markers[k].name)
        /\ i = RenameItem(k, p.markers[k].name, Canonical(p.markers[k].name))
  BY <1>1 DEF RenameItems
<1>3. IsName(p.markers[k].name)
  BY DEF IsProject, AreMarkers
<1>4. IsName(Canonical(p.markers[k].name))
  BY <1>2, <1>3, BetterNames DEF Better
<1> QED
  BY <1>2, <1>4 DEF RenameItem

LEMMA TidiedIsProject ==
  ASSUME NEW p, IsProject(p)
  PROVE  IsProject(Tidied(p))
BY SurveyNames, ChangedIsProject DEF Tidied

\* A project keeps its names: what is deleted has a survivor of its name at its
\* place, and a rename changes only how the name is written (KeepsNames).
THEOREM SurveyKeepsNames ==
  ASSUME NEW p, IsProject(p)
  PROVE  KeepsNames(p)
<1> DEFINE ms == p.markers
           ns == Tidied(p).markers
<1>1. ns = [k \in Staying(ms) |-> Marker(ms[k].pos, Better(ms[k].name))]
  BY TidiedMarkers
<1>2. AreMarkers(ms) /\ \A k \in DOMAIN ms : IsName(ms[k].name)
  BY DEF IsProject, AreMarkers
<1> HIDE DEF ms, ns
<1>3. DOMAIN ns = Staying(ms) /\ Staying(ms) \subseteq DOMAIN ms
  BY <1>1 DEF Staying
<1>4. ASSUME NEW k \in Staying(ms)
      PROVE  /\ ns[k].pos = ms[k].pos
             /\ Canonical(ns[k].name) = Canonical(ms[k].name)
             /\ ns[k].name # NoName <=> ms[k].name # NoName
  <2>1. IsName(ms[k].name) /\ ns[k] = Marker(ms[k].pos, Better(ms[k].name))
    BY <1>1, <1>2, <1>3
  <2> QED
    BY <2>1, BetterNames DEF Marker
<1>5. ASSUME NEW k \in DOMAIN ms, ms[k].name # NoName
      PROVE  \E l \in Staying(ms) : ms[l].name = ms[k].name /\ ms[l].pos = ms[k].pos
  <2>1. CASE k \in Staying(ms)
    BY <2>1
  <2>2. CASE k \notin Staying(ms)
    <3>1. ~k.region
      BY <2>2 DEF Staying, IsDuplicate
    <3>2. PICK s : s = Survivor(ms, k)
      OBVIOUS
    <3>3. s \in DOMAIN ms /\ Survivor(ms, s) = s /\ ms[s].pos = ms[k].pos /\ ms[s].name = ms[k].name
      BY <1>2, <1>5, <3>1, <3>2, SurvivorStays
    <3> QED
      BY <3>3 DEF Staying, IsDuplicate
  <2> QED
    BY <2>1, <2>2
<1> DEFINE Written(mm, k) == <<mm[k].pos, Canonical(mm[k].name)>>
<1>6. ASSUME NEW k \in Named(ns, DOMAIN ns)
      PROVE  \E l \in Named(ms, DOMAIN ms) : Written(ms, l) = Written(ns, k)
  <2>1. k \in Staying(ms) /\ ns[k].name # NoName
    BY <1>3 DEF Named
  <2>2. k \in Named(ms, DOMAIN ms)
    BY <1>3, <1>4, <2>1 DEF Named
  <2> QED
    BY <1>4, <2>1, <2>2
<1>7. ASSUME NEW k \in Named(ms, DOMAIN ms)
      PROVE  \E l \in Named(ns, DOMAIN ns) : Written(ns, l) = Written(ms, k)
  <2>1. PICK l \in Staying(ms) : ms[l].name = ms[k].name /\ ms[l].pos = ms[k].pos
    BY <1>5 DEF Named
  <2>2. ms[k].name # NoName
    BY DEF Named
  <2>3. l \in Named(ns, DOMAIN ns)
    BY <1>3, <1>4, <2>1, <2>2 DEF Named
  <2> QED
    BY <1>4, <2>1, <2>3
<1>8. NamesIn(Tidied(p)) = {Written(ns, k) : k \in Named(ns, DOMAIN ns)}
  BY DEF NamesIn, ns
<1>9. NamesIn(p) = {Written(ms, k) : k \in Named(ms, DOMAIN ms)}
  BY DEF NamesIn, ms
<1> HIDE DEF Written
<1> QED
  BY <1>6, <1>7, <1>8, <1>9 DEF KeepsNames

-------------------------------------------------------------------------------
(***************************************************************************)
(* Two rounds.                                                             *)
(***************************************************************************)

\* A track has at most one role.
LEMMA OneRole ==
  ASSUME NEW words, IsFiniteSet(words)
  PROVE  InferredRole(words) = {} \/ \E r : InferredRole(words) = {r}
<1>1. CASE Cardinality(words) = 1
  BY <1>1, FS_Singleton DEF InferredRole
<1>2. CASE Cardinality(words) = 2 /\ BusFx \in words
  <2>1. IsFiniteSet(words \ {BusFx}) /\ Cardinality(words \ {BusFx}) = 1
    BY <1>2, FS_RemoveElement
  <2>2. \E r : words \ {BusFx} = {r}
    BY <2>1, FS_Singleton
  <2> QED
    BY <1>2, <2>2 DEF InferredRole
<1> QED
  BY <1>1, <1>2 DEF InferredRole

\* After one round every track has the colour of its role.
LEMMA TidiedColors ==
  ASSUME NEW p, IsProject(p)
  PROVE  ColorItems(Tidied(p)) = {}
<1> DEFINE ts == Tidied(p).tracks
           items == Survey(p)
           painted(g) == {i \in items : i.verb = "color" /\ i.track = g}
<1>1. ts = [g \in DOMAIN p.tracks |->
              IF painted(g) = {} THEN p.tracks[g]
              ELSE [p.tracks[g] EXCEPT !.color = (CHOOSE i \in painted(g) : TRUE).color]]
  BY DEF Tidied, Changed
<1>2. ASSUME NEW g \in DOMAIN ts
      PROVE  InferredRole(ts[g].words) \ {ts[g].color} = {}
  <2>1. g \in DOMAIN p.tracks
    BY <1>1
  <2>2. PICK words, color : words = p.tracks[g].words /\ color = p.tracks[g].color
    OBVIOUS
  <2>3. p.tracks[g] = Track(words, color) /\ IsFiniteSet(words)
    BY <2>1, <2>2 DEF IsProject, AreTracks
  <2>4. painted(g) = {ColorItem(g, r) : r \in InferredRole(words) \ {color}}
    <3>1. ASSUME NEW i \in painted(g)
          PROVE  i \in {ColorItem(g, r) : r \in InferredRole(words) \ {color}}
      <4>1. i \in ColorItems(p) /\ i.track = g
        BY DEF Survey, RenameItems, DeleteItems, RenameItem, DeleteItem
      <4>2. PICK h \in DOMAIN p.tracks :
              \E r \in InferredRole(p.tracks[h].words) \ {p.tracks[h].color} : i = ColorItem(h, r)
        BY <4>1 DEF ColorItems
      <4>3. h = g
        BY <4>1, <4>2 DEF ColorItem
      <4> QED
        BY <2>2, <4>2, <4>3
    <3>2. ASSUME NEW r \in InferredRole(words) \ {color}
          PROVE  ColorItem(g, r) \in painted(g)
      <4>1. ColorItem(g, r) \in items
        BY <2>1, <2>2 DEF Survey, ColorItems
      <4>2. ColorItem(g, r).verb = "color" /\ ColorItem(g, r).track = g
        BY DEF ColorItem
      <4> HIDE DEF items
      <4> QED
        BY <4>1, <4>2
    <3> HIDE DEF painted
    <3> QED
      BY <3>1, <3>2
  <2> HIDE DEF painted
  <2>5. CASE InferredRole(words) \ {color} = {}
    <3>1. ts[g] = p.tracks[g]
      BY <1>1, <2>1, <2>4, <2>5
    <3> QED
      BY <2>2, <2>5, <3>1
  <2>6. CASE InferredRole(words) \ {color} # {}
    <3>1. PICK r : InferredRole(words) = {r} /\ r # color
      BY <2>3, <2>6, OneRole
    <3>2. painted(g) = {ColorItem(g, r)}
      BY <2>4, <3>1
    <3>3. (CHOOSE i \in painted(g) : TRUE) = ColorItem(g, r) /\ painted(g) # {}
      BY <3>2
    <3>4. ts[g] = [Track(words, color) EXCEPT !.color = ColorItem(g, r).color]
      BY <1>1, <2>1, <2>3, <3>3
    <3>5. ts[g] = Track(words, r)
      BY <3>4 DEF Track, ColorItem
    <3> QED
      BY <3>1, <3>5 DEF Track
  <2> QED
    BY <2>5, <2>6
<1> HIDE DEF ts
<1>3. ColorItems(Tidied(p)) =
        UNION {{ColorItem(g, r) : r \in InferredRole(ts[g].words) \ {ts[g].color}} : g \in DOMAIN ts}
  BY DEF ColorItems, ts
<1> QED
  BY <1>2, <1>3

\* A round without renames deletes the duplicates there are and makes none.
LEMMA NoDuplicatesLeft ==
  ASSUME NEW ms, AreMarkers(ms), NEW ns, AreMarkers(ns), ns = [k \in Staying(ms) |-> ms[k]]
  PROVE  \A k \in DOMAIN ns : ~IsDuplicate(ns, k)
<1> SUFFICES ASSUME NEW k \in DOMAIN ns, ~k.region
             PROVE  Survivor(ns, k) = k
  BY DEF IsDuplicate
<1>1. DOMAIN ns = Staying(ms) /\ k \in Staying(ms) /\ k \in DOMAIN ms
  BY DEF Staying
<1>2. \A l \in Staying(ms) : ns[l] = ms[l] /\ l \in DOMAIN ms
  BY DEF Staying
<1>3. Beside(ns, k) = Beside(ms, k) \cap Staying(ms) /\ k \in Beside(ns, k)
  BY <1>1, <1>2 DEF Beside
<1>4. First(Twins(ms, k)) = k
  BY <1>1 DEF Staying, IsDuplicate, Survivor
<1>5. k \in Twins(ms, k) /\ \A l \in Twins(ms, k) : k.id <= l.id
  BY <1>1, <1>4, TwinsAreMarkers, FirstOf
<1>6. ASSUME NEW T, T \subseteq Twins(ms, k), k \in T PROVE First(T) = k
  <2>1. T \subseteq [region : BOOLEAN, id : Nat] /\ \A l \in T : ~l.region
    BY <1>1, <1>6, TwinsAreMarkers
  <2>2. \A l \in T : k.id <= l.id
    BY <1>5, <1>6
  <2> QED
    BY <1>6, <2>1, <2>2, FirstIs
<1>7. NamesAt(ns, k) = NamesAt(ms, k)
  <2>1. NamesAt(ns, k) \subseteq NamesAt(ms, k)
    BY <1>2, <1>3 DEF NamesAt, Named
  <2>2. ASSUME NEW l \in Beside(ms, k), ms[l].name # NoName
        PROVE  \E m \in Beside(ns, k) : ns[m].name = ms[l].name
    <3>1. l \in DOMAIN ms /\ ~l.region /\ ms[l].pos = ms[k].pos
      BY DEF Beside
    <3>2. PICK s : s = Survivor(ms, l)
      OBVIOUS
    <3>3. s \in DOMAIN ms /\ ~s.region /\ ms[s].pos = ms[l].pos /\ ms[s].name = ms[l].name /\ Survivor(ms, s) = s
      BY <2>2, <3>1, <3>2, SurvivorStays
    <3>4. s \in Staying(ms) /\ s \in Beside(ms, k)
      BY <3>1, <3>3 DEF Staying, IsDuplicate, Beside
    <3> QED
      BY <1>2, <1>3, <3>3, <3>4
  <2>3. NamesAt(ms, k) \subseteq NamesAt(ns, k)
    BY <2>2 DEF NamesAt, Named
  <2> QED
    BY <2>1, <2>3
<1>8. ns[k].name = ms[k].name
  BY <1>1, <1>2
<1>9. k \in Twins(ns, k) /\ Twins(ns, k) \subseteq Twins(ms, k)
  <2>1. CASE ms[k].name # NoName
    <3>1. Twins(ns, k) = {l \in Beside(ns, k) : ns[l].name = ns[k].name}
      BY <1>8, <2>1 DEF Twins
    <3>2. Twins(ms, k) = {l \in Beside(ms, k) : ms[l].name = ms[k].name}
      BY <2>1 DEF Twins
    <3> QED
      BY <1>2, <1>3, <1>8, <3>1, <3>2
  <2>2. CASE ms[k].name = NoName
    <3>1. ASSUME NEW n, n # NoName, NamesAt(ms, k) = {n},
                 Twins(ms, k) = {l \in Beside(ms, k) : ms[l].name = n}
          PROVE  FALSE
      BY <1>5, <2>2, <3>1
    <3>2. ASSUME NamesAt(ms, k) = {}, Twins(ms, k) = Beside(ms, k)
          PROVE  k \in Twins(ns, k) /\ Twins(ns, k) \subseteq Twins(ms, k)
      <4>1. Twins(ns, k) = Beside(ns, k)
        BY <1>7, <1>8, <2>2, <3>2, UnnamedTwins
      <4> QED
        BY <1>3, <3>2, <4>1
    <3>3. ASSUME NamesAt(ms, k) # {}, \A n : NamesAt(ms, k) # {n}, Twins(ms, k) = {k}
          PROVE  k \in Twins(ns, k) /\ Twins(ns, k) \subseteq Twins(ms, k)
      <4>1. NamesAt(ns, k) # {} /\ \A n : NamesAt(ns, k) # {n}
        BY <1>7, <3>3
      <4>2. Twins(ns, k) = {k}
        BY <1>8, <2>2, <4>1, TwinsCases
      <4> QED
        BY <3>3, <4>2
    <3> QED
      BY <1>1, <2>2, <3>1, <3>2, <3>3, TwinsCases
  <2> QED
    BY <2>1, <2>2
<1> QED
  BY <1>6, <1>9 DEF Survivor

\* Following the survey twice leaves it nothing to propose: the first round settles
\* colours and names, the second deletes what the new names have made equal
\* (TwoRoundsTidy).
THEOREM SurveyEnds ==
  ASSUME NEW p, IsProject(p)
  PROVE  TwoRoundsTidy(p)
<1> DEFINE q == Tidied(p)
           r == Tidied(q)
<1>1. IsProject(q) /\ IsProject(r)
  BY TidiedIsProject
<1>2. AreMarkers(p.markers) /\ AreMarkers(q.markers) /\ AreMarkers(r.markers)
  BY <1>1 DEF IsProject
<1>3. ColorItems(r) = {}
  BY <1>1, TidiedColors
<1>4. \A k \in DOMAIN q.markers : ~NameChanges(q.markers[k].name)
  <2>1. q.markers = [k \in Staying(p.markers) |-> Marker(p.markers[k].pos, Better(p.markers[k].name))]
    BY TidiedMarkers
  <2> HIDE DEF q
  <2>2. ASSUME NEW k \in DOMAIN q.markers PROVE ~NameChanges(q.markers[k].name)
    <3>1. k \in DOMAIN p.markers /\ q.markers[k] = Marker(p.markers[k].pos, Better(p.markers[k].name))
      BY <2>1 DEF Staying
    <3>2. IsName(p.markers[k].name)
      BY <1>2, <3>1 DEF AreMarkers
    <3> QED
      BY <3>1, <3>2, BetterNames DEF Marker
  <2> QED
    BY <2>2
<1>5. r.markers = [k \in Staying(q.markers) |-> q.markers[k]]
  <2>1. r.markers = [k \in Staying(q.markers) |-> Marker(q.markers[k].pos, Better(q.markers[k].name))]
    BY <1>1, TidiedMarkers
  <2> HIDE DEF q, r
  <2>2. \A k \in Staying(q.markers) : Marker(q.markers[k].pos, Better(q.markers[k].name)) = q.markers[k]
    BY <1>2, <1>4 DEF Staying, Better, AreMarkers
  <2> QED
    BY <2>1, <2>2
<1> HIDE DEF q, r
<1>6. DeleteItems(r.markers) = {}
  BY <1>2, <1>5, NoDuplicatesLeft DEF DeleteItems
<1>7. RenameItems(r.markers) = {}
  <2>1. \A k \in DOMAIN r.markers : ~NameChanges(r.markers[k].name)
    BY <1>4, <1>5 DEF Staying
  <2> QED
    BY <2>1 DEF RenameItems
<1>8. Survey(r) = {}
  BY <1>3, <1>6, <1>7 DEF Survey
<1> QED
  BY <1>8 DEF TwoRoundsTidy, q, r

-------------------------------------------------------------------------------
(***************************************************************************)
(* What the callers of a session do with surveys.                          *)
(***************************************************************************)

Surveying == {"list", "read", "plan", "summary", "record", "supersede"}
Applying  == {"write", "clear", "apply", "applied", "result", "page", "status", "report"}
CallPlaces == {"idle", "inspect", "inspected", "propose", "dismiss"} \cup Surveying \cup Applying

Decided == {"open"} \cup Settled
Closed  == {"applied", "apply_skipped", "apply_failed"}

\* <<path, pid, item>> for each of these items.
Changes(path, pid, items) == {path} \X {pid} \X items

\* What a result says was done to the project of a proposal was done.
TrueResult(pid, result) ==
  \A i \in AppliedIn(result) : <<home[pid], pid, i>> \in performed

Made(pid, path) == pid \in DOMAIN home /\ home[pid] = path

StoreInv ==
  /\ home \in Seq(Paths) /\ Len(home) <= MaxProposals
  /\ plans = [p \in Pids |-> plans[p]]
  /\ summaries \subseteq Pids /\ pages \subseteq Pids
  /\ records \in [Pids -> [status : Statuses, by : Pids \cup {0}]]
  /\ results = [p \in Pids |-> results[p]]
  /\ reports = [p \in Pids |-> reports[p]]
  /\ \A p \in Pids : records[p].status # "none" =>
       p \in DOMAIN home /\ p \in summaries
  /\ \A p \in Pids : reports[p] # NoFile => p \in DOMAIN home
  /\ \A p \in Pids : records[p].status \in Decided => plans[p] # {}
  /\ \A p \in Pids : records[p].status \in Closed => results[p] # NoFile /\ p \in pages
  /\ \A p \in Pids : records[p].status = "none" => records[p] = NoRecord

DeskInv == DOMAIN projects = Paths /\ open \in Paths

FilesInv ==
  /\ planFile # NoFile =>
       /\ Made(planFile.pid, planFile.path)
       /\ Changes(planFile.path, planFile.pid, planFile.items) \subseteq asked
  /\ resultFile # NoFile =>
       resultFile.pid \in DOMAIN home /\ TrueResult(resultFile.pid, resultFile.items)

\* What a call is, and what it knows.
JobInv(j, at) ==
  /\ j = [kind |-> j.kind, path |-> j.path, pid |-> j.pid, items |-> j.items,
          unread |-> j.unread, older |-> j.older, result |-> j.result, answer |-> j.answer]
  /\ JobTypeOK(j)
  /\ at # "idle" => j.kind # "none" /\ j.path \in Paths /\ j.answer = "none"
  /\ j.kind = "none" => j = NoJob
  /\ at \in {"inspect", "inspected", "propose"} =>
       j.kind \in {"survey", "apply"} /\ j.unread = {} /\ j.older = {}
  /\ at = "propose" => j.kind = "survey"
  /\ at \in Surveying => j.kind = "survey" /\ Made(j.pid, j.path)
  /\ at \in Applying => j.kind = "apply"
  /\ at = "dismiss" => j.kind = "dismiss"

SurveyInv(j, at) ==
  /\ at \in {"list", "read", "plan", "summary", "record"} => records[j.pid].status = "none"
  /\ at = "supersede" => records[j.pid].status # "none"
  /\ at = "plan" => j.items # {}
  /\ at \in {"summary", "record"} /\ j.items # {} => plans[j.pid] # {}
  /\ at = "record" => j.pid \in summaries
  /\ at = "read" => \A q \in j.unread :
       q \in DOMAIN home /\ q < j.pid /\ home[q] = j.path
  /\ at \in Surveying => \A q \in j.older :
       q < j.pid /\ home[q] = j.path /\ records[q].status \in Decided

ApplyInv(j, at) ==
  /\ j.kind \in {"apply", "dismiss"} =>
       Made(j.pid, j.path) /\ records[j.pid].status \in Decided
  /\ j.kind = "apply" => j.items # {} /\ Changes(j.path, j.pid, j.items) \subseteq asked
  /\ at \in {"result", "page", "status", "report"} =>
       j.result # NoFile /\ TrueResult(j.pid, j.result)
  /\ at \in {"page", "status", "report"} => results[j.pid] # NoFile
  /\ at \in {"status", "report"} => j.pid \in pages

CallInv(c) == JobInv(job[c], pc[c]) /\ SurveyInv(job[c], pc[c]) /\ ApplyInv(job[c], pc[c])

CallsInv ==
  /\ pc \in [Callers -> CallPlaces]
  /\ job = [c \in Callers |-> job[c]]
  /\ \A c \in Callers : CallInv(c)

DistinctInv ==
  \A c, d \in Callers : pc[c] \in Surveying /\ pc[d] \in Surveying /\ c # d =>
    job[c].pid # job[d].pid

\* A survey by itself knows every older proposal that is open.
OlderInv ==
  OneCaller => \A c \in Callers :
    /\ pc[c] = "read" =>
         \A p \in OpenIn(job[c].path) : p < job[c].pid => p \in job[c].unread \cup job[c].older
    /\ pc[c] \in {"plan", "summary", "record", "supersede"} =>
         \A p \in OpenIn(job[c].path) : p < job[c].pid => p \in job[c].older
    /\ pc[c] = "idle" /\ job[c].kind = "survey" /\ job[c].answer = "ok" =>
         \A p \in OpenIn(job[c].path) : p >= job[c].pid

IInv ==
  /\ StoreInv
  /\ DeskInv
  /\ FilesInv
  /\ CallsInv
  /\ DistinctInv
  /\ OlderInv
  /\ OnlyWhatWasAsked
  /\ ReportsAreTrue

\* What is true of the store stays true.
Grows ==
  /\ DOMAIN home \subseteq DOMAIN home' /\ \A p \in DOMAIN home : home'[p] = home[p]
  /\ asked \subseteq asked' /\ performed \subseteq performed'
  /\ summaries \subseteq summaries' /\ pages \subseteq pages'
  /\ \A p \in Pids :
       /\ plans[p] # {} => plans'[p] # {}
       /\ results[p] # NoFile => results'[p] # NoFile
       /\ records[p].status \in Decided => records'[p].status \in Decided
       /\ records[p].status # "none" => records'[p].status # "none"

\* A step of one call.
Acts(c) ==
  /\ pc' = [pc EXCEPT ![c] = pc'[c]] /\ pc'[c] \in CallPlaces
  /\ job' = [job EXCEPT ![c] = job'[c]]

\* It publishes the proposal of no other call.
SparesOthers(c) ==
  \A d \in Callers \ {c} : pc[d] \in {"list", "read", "plan", "summary", "record"} =>
    records'[job[d].pid].status = "none"

-------------------------------------------------------------------------------
(***************************************************************************)
(* What a growing store leaves true.                                       *)
(***************************************************************************)

LEMMA HomeDomain == StoreInv => DOMAIN home = 1 .. Len(home) /\ DOMAIN home \subseteq Pids
BY StoreAssumption DEF StoreInv, Pids

LEMMA DecidedIsMade ==
  StoreInv => \A p \in Pids : records[p].status \in Decided =>
    p \in DOMAIN home /\ p \in summaries /\ plans[p] # {}
BY DEF StoreInv, Decided, Settled

LEMMA Still ==
  ASSUME IInv, UNCHANGED <<storeVars, asked, performed>>
  PROVE  Grows /\ StoreInv' /\ OnlyWhatWasAsked'
BY DEF IInv, Grows, StoreInv, OnlyWhatWasAsked, storeVars, proposalVars, reportVars

\* What a call knows holds for good, until it publishes its proposal.
LEMMA KnownStays ==
  ASSUME IInv, Grows, NEW c \in Callers, CallInv(c), pc'[c] = pc[c], job'[c] = job[c],
         pc[c] \in {"list", "read", "plan", "summary", "record"} =>
           records'[job[c].pid].status = "none"
  PROVE  CallInv(c)'
<1> USE HomeDomain DEF IInv, CallInv
<1>1. JobInv(job[c], pc[c])'
  BY DEF JobInv, JobTypeOK, Grows, Made
<1>2. SurveyInv(job[c], pc[c])'
  <2>1. pc[c] \in Surveying => job[c].pid \in Pids /\ job[c].older \subseteq Pids
    BY DEF JobInv, JobTypeOK, Made
  <2>2. pc[c] \in Surveying => \A q \in job[c].older :
          q < job[c].pid /\ home'[q] = job[c].path /\ records'[q].status \in Decided
    BY <2>1, DecidedIsMade DEF SurveyInv, Grows
  <2>3. pc[c] = "read" => \A q \in job[c].unread :
          q \in DOMAIN home' /\ q < job[c].pid /\ home'[q] = job[c].path
    BY DEF SurveyInv, Grows
  <2> QED
    BY <2>1, <2>2, <2>3 DEF SurveyInv, Grows, Surveying
<1>3. ApplyInv(job[c], pc[c])'
  <2>1. ASSUME pc[c] \in {"result", "page", "status", "report"}
        PROVE  TrueResult(job[c].pid, job[c].result)'
    BY <2>1 DEF ApplyInv, JobInv, JobTypeOK, Grows, Made, TrueResult, Applying
  <2> QED
    BY <2>1 DEF ApplyInv, JobInv, JobTypeOK, Grows, Made, Changes, Applying
<1> QED
  BY <1>1, <1>2, <1>3

LEMMA CallsStep ==
  ASSUME IInv, Grows, NEW c \in Callers, Acts(c), SparesOthers(c), CallInv(c)'
  PROVE  CallsInv'
<1>1. pc' \in [Callers -> CallPlaces] /\ job' = [d \in Callers |-> job'[d]]
  BY DEF IInv, CallsInv, Acts
<1>2. ASSUME NEW d \in Callers \ {c} PROVE CallInv(d)'
  BY <1>2, KnownStays DEF IInv, CallsInv, Acts, SparesOthers
<1> QED
  BY <1>1, <1>2 DEF CallsInv

\* A step that is no call's.
LEMMA CallsKept ==
  ASSUME IInv, Grows, UNCHANGED <<pc, job, records>>
  PROVE  CallsInv'
<1>1. ASSUME NEW d \in Callers PROVE CallInv(d)'
  BY <1>1, KnownStays DEF IInv, CallsInv, CallInv, SurveyInv
<1> QED
  BY <1>1 DEF IInv, CallsInv

LEMMA FilesKept ==
  ASSUME IInv, Grows, UNCHANGED <<planFile, resultFile>>
  PROVE  FilesInv'
BY HomeDomain DEF IInv, FilesInv, Grows, Made, TrueResult, Changes

LEMMA ReportsKept ==
  ASSUME IInv, Grows, UNCHANGED reports
  PROVE  ReportsAreTrue'
BY HomeDomain DEF IInv, StoreInv, ReportsAreTrue, Grows

-------------------------------------------------------------------------------
(***************************************************************************)
(* The writes to the store.                                                *)
(***************************************************************************)

LEMMA StoreInit0 == StoreInit => StoreInv
<1> SUFFICES ASSUME StoreInit PROVE StoreInv
  OBVIOUS
<1> USE DEF StoreInit
<1>1. home \in Seq(Paths) /\ Len(home) <= MaxProposals
  BY StoreAssumption
<1>2. records \in [Pids -> [status : Statuses, by : Pids \cup {0}]]
  BY DEF NoRecord, Record, Statuses
<1>3. \A p \in Pids : records[p].status = "none"
  BY DEF NoRecord, Record
<1> QED
  BY <1>1, <1>2, <1>3 DEF StoreInv, Decided, Settled, Closed

LEMMA NoneIsUndecided == "none" \notin Decided /\ "none" \notin Closed /\ Closed \subseteq Decided
BY DEF Decided, Closed, Settled

\* A record is written when the plan and the summary are there, or by a call
\* that has read it.
LEMMA RecordWrite ==
  ASSUME IInv, NEW p \in DOMAIN home, NEW s \in Statuses \ {"none"}, NEW by \in Pids \cup {0},
         WriteRecord(p, s, by), UNCHANGED <<asked, performed>>,
         \/ records[p].status \in Decided /\ s \in Settled
         \/ /\ records[p].status = "none" /\ s \in {"open", "already_tidy"}
            /\ p \in summaries
            /\ s = "open" => plans[p] # {},
         s \in Closed => results[p] # NoFile /\ p \in pages
  PROVE  Grows /\ StoreInv' /\ OnlyWhatWasAsked'
<1> USE DEF IInv, WriteRecord, reportVars
<1>1. p \in Pids
  BY HomeDomain
<1>2. /\ records'[p] = Record(s, by) /\ records'[p].status = s
      /\ \A q \in Pids \ {p} : records'[q] = records[q]
      /\ records' \in [Pids -> [status : Statuses, by : Pids \cup {0}]]
  BY <1>1 DEF Record, StoreInv
<1>3. p \in summaries /\ (s \in Decided => plans[p] # {})
  BY <1>1, DecidedIsMade DEF Decided, Settled
<1>4. Grows
  BY <1>1, <1>2, NoneIsUndecided DEF Grows, Decided
<1>5. StoreInv'
  <2>1. \A q \in Pids : records'[q].status # "none" => q \in DOMAIN home /\ q \in summaries
    BY <1>2, <1>3 DEF StoreInv
  <2>2. \A q \in Pids : records'[q].status \in Decided => plans[q] # {}
    BY <1>2, <1>3 DEF StoreInv
  <2>3. \A q \in Pids : records'[q].status \in Closed => results[q] # NoFile /\ q \in pages
    BY <1>2 DEF StoreInv
  <2>4. \A q \in Pids : records'[q].status = "none" => records'[q] = NoRecord
    BY <1>2 DEF StoreInv
  <2> QED
    BY <1>2, <2>1, <2>2, <2>3, <2>4 DEF StoreInv
<1> QED
  BY <1>4, <1>5 DEF OnlyWhatWasAsked

LEMMA PlanWrite ==
  ASSUME IInv, NEW p \in DOMAIN home, NEW items, items # {}, WritePlan(p, items),
         UNCHANGED <<asked, performed>>
  PROVE  Grows /\ StoreInv' /\ OnlyWhatWasAsked' /\ plans'[p] # {}
<1> USE DEF IInv, WritePlan, reportVars
<1>1. p \in Pids
  BY HomeDomain
<1>2. /\ \A q \in Pids : plans[q] # {} => plans'[q] # {}
      /\ plans' = [q \in Pids |-> plans'[q]] /\ plans'[p] # {}
  BY <1>1 DEF StoreInv
<1> QED
  BY <1>2 DEF Grows, StoreInv, OnlyWhatWasAsked

LEMMA SummaryWrite ==
  ASSUME IInv, NEW p \in DOMAIN home, WriteSummary(p), UNCHANGED <<asked, performed>>
  PROVE  Grows /\ StoreInv' /\ OnlyWhatWasAsked'
BY HomeDomain DEF IInv, WriteSummary, reportVars, Grows, StoreInv, OnlyWhatWasAsked

LEMMA ResultWrite ==
  ASSUME IInv, NEW p \in DOMAIN home, NEW result, result # NoFile, WriteResult(p, result),
         UNCHANGED <<asked, performed>>
  PROVE  Grows /\ StoreInv' /\ OnlyWhatWasAsked' /\ results'[p] # NoFile
<1> USE DEF IInv, WriteResult, proposalVars
<1>1. p \in Pids
  BY HomeDomain
<1>2. /\ \A q \in Pids : results[q] # NoFile => results'[q] # NoFile
      /\ results' = [q \in Pids |-> results'[q]] /\ results'[p] # NoFile
  BY <1>1 DEF StoreInv
<1> QED
  BY <1>2 DEF Grows, StoreInv, OnlyWhatWasAsked

LEMMA PageWrite ==
  ASSUME IInv, NEW p \in DOMAIN home, WritePage(p), UNCHANGED <<asked, performed>>
  PROVE  Grows /\ StoreInv' /\ OnlyWhatWasAsked'
BY HomeDomain DEF IInv, WritePage, proposalVars, Grows, StoreInv, OnlyWhatWasAsked

LEMMA ReportWrite ==
  ASSUME IInv, NEW p \in DOMAIN home, NEW result, WriteReport(p, result),
         UNCHANGED <<asked, performed>>, TrueResult(p, result)
  PROVE  Grows /\ StoreInv' /\ OnlyWhatWasAsked' /\ ReportsAreTrue'
<1> USE DEF IInv, WriteReport, proposalVars
<1>1. p \in Pids
  BY HomeDomain
<1>2. /\ reports' = [q \in Pids |-> reports'[q]] /\ reports'[p] = result
      /\ \A q \in Pids \ {p} : reports'[q] = reports[q]
  BY <1>1 DEF StoreInv
<1>3. Grows
  BY DEF Grows
<1>4. StoreInv'
  BY <1>1, <1>2 DEF StoreInv
<1>5. ReportsAreTrue'
  BY <1>2 DEF ReportsAreTrue, TrueResult
<1> QED
  BY <1>3, <1>4, <1>5 DEF OnlyWhatWasAsked

-------------------------------------------------------------------------------
(***************************************************************************)
(* Each step keeps all but OlderInv.                                       *)
(***************************************************************************)

CoreInv ==
  /\ StoreInv
  /\ DeskInv
  /\ FilesInv
  /\ CallsInv
  /\ DistinctInv
  /\ OnlyWhatWasAsked
  /\ ReportsAreTrue

LEMMA DistinctKept ==
  ASSUME IInv, NEW c \in Callers, Acts(c),
         pc'[c] \in Surveying => pc[c] \in Surveying /\ job'[c].pid = job[c].pid
  PROVE  DistinctInv'
<1>1. \A d \in Callers \ {c} : pc'[d] = pc[d] /\ job'[d] = job[d]
  BY DEF IInv, CallsInv, Acts
<1>2. \A d \in Callers :
        pc'[d] \in Surveying => pc[d] \in Surveying /\ job'[d].pid = job[d].pid
  BY <1>1
<1> QED
  BY <1>2 DEF IInv, DistinctInv

\* A call gives up or goes on, and writes nothing that lasts.
LEMMA Passing ==
  ASSUME IInv, NEW c \in Callers, Acts(c), CallInv(c)',
         UNCHANGED <<storeVars, asked, performed, projects, open>>, FilesInv',
         pc'[c] \in Surveying => pc[c] \in Surveying /\ job'[c].pid = job[c].pid
  PROVE  CoreInv'
<1>1. Grows /\ StoreInv' /\ OnlyWhatWasAsked'
  BY Still
<1>2. SparesOthers(c)
  BY DEF SparesOthers, storeVars, proposalVars, IInv, CallsInv, CallInv, SurveyInv
<1>3. CallsInv'
  BY <1>1, <1>2, CallsStep
<1>4. DistinctInv'
  BY DistinctKept
<1>5. ReportsAreTrue'
  BY <1>1, ReportsKept DEF storeVars, reportVars
<1>6. DeskInv'
  BY DEF IInv, DeskInv
<1> QED
  BY <1>1, <1>3, <1>4, <1>5, <1>6 DEF CoreInv

\* The shared files are left alone, or cleared.
LEMMA FilesStill ==
  ASSUME IInv, UNCHANGED <<storeVars, asked, performed, planFile>>, resultFile' \in {resultFile, NoFile}
  PROVE  FilesInv'
BY HomeDomain DEF IInv, FilesInv, Made, TrueResult, Changes, storeVars, proposalVars

\* A call that gives up keeps what it was about.
LEMMA Stopped ==
  ASSUME IInv, NEW c \in Callers, pc' = [pc EXCEPT ![c] = "idle"],
         UNCHANGED <<job, storeVars, asked, performed>>
  PROVE  Acts(c) /\ CallInv(c)'
<1> USE DEF IInv, CallsInv
<1>1. Acts(c)
  BY DEF Acts, CallPlaces
<1>2. pc'[c] = "idle" /\ job'[c] = job[c]
  OBVIOUS
<1>3. JobInv(job[c], "idle")'
  BY DEF CallInv, JobInv, JobTypeOK, Surveying, Applying
<1>4. SurveyInv(job[c], "idle")'
  BY DEF SurveyInv, Surveying
<1>5. ApplyInv(job[c], "idle")'
  BY DEF CallInv, ApplyInv, storeVars, proposalVars, Made, Changes
<1> QED
  BY <1>1, <1>2, <1>3, <1>4, <1>5 DEF CallInv

LEMMA CoreGiveUp ==
  ASSUME IInv, NEW c \in Callers,
         \/ GiveUp(c)
         \/ \E from, script \in {"inspect", "apply"} : RunFails(c, from, script)
  PROVE  CoreInv'
<1>1. /\ pc' = [pc EXCEPT ![c] = "idle"]
      /\ UNCHANGED <<job, storeVars, asked, performed, projects, open, planFile, resultFile>>
  BY DEF GiveUp, RunFails, Goto, Stay, hostVars, openVars, fileVars
<1>2. Acts(c) /\ CallInv(c)'
  BY <1>1, Stopped
<1>3. pc'[c] \notin Surveying
  BY <1>1 DEF IInv, CallsInv, Surveying
<1> QED
  BY <1>1, <1>2, <1>3, Passing, FilesStill

LEMMA JobShape ==
  ASSUME NEW kind, NEW path, NEW pid, NEW items
  PROVE  LET j == Job(kind, path, pid, items) IN
         /\ j.kind = kind /\ j.path = path /\ j.pid = pid /\ j.items = items
         /\ j.unread = {} /\ j.older = {} /\ j.result = NoFile /\ j.answer = "none"
         /\ j = [kind |-> j.kind, path |-> j.path, pid |-> j.pid, items |-> j.items,
                 unread |-> j.unread, older |-> j.older, result |-> j.result, answer |-> j.answer]
BY DEF Job

\* A call that begins.
LEMMA Started ==
  ASSUME IInv, NEW c \in Callers, NEW at \in {"inspect", "dismiss"},
         NEW kind \in {"survey", "apply", "dismiss"}, NEW path \in Paths,
         NEW p \in Pids \cup {0}, NEW items,
         at = "dismiss" <=> kind = "dismiss",
         Start(c, at, Job(kind, path, p, items)), UNCHANGED <<storeVars, performed>>,
         kind # "survey" => p \in DOMAIN home /\ home[p] = path /\ records[p].status \in Decided,
         kind = "apply" => items # {} /\ Changes(path, p, items) \subseteq asked'
  PROVE  Acts(c) /\ CallInv(c)' /\ pc'[c] \notin Surveying
<1> USE DEF IInv, CallsInv
<1> DEFINE j == Job(kind, path, p, items)
<1>0. /\ j.kind = kind /\ j.path = path /\ j.pid = p /\ j.items = items
      /\ j.unread = {} /\ j.older = {} /\ j.result = NoFile /\ j.answer = "none"
      /\ j = [kind |-> j.kind, path |-> j.path, pid |-> j.pid, items |-> j.items,
              unread |-> j.unread, older |-> j.older, result |-> j.result, answer |-> j.answer]
  BY JobShape
<1>1. /\ pc' = [pc EXCEPT ![c] = at] /\ job' = [job EXCEPT ![c] = j]
      /\ pc'[c] = at /\ job'[c] = j /\ at \in CallPlaces
  BY DEF Start, Goto, CallPlaces
<1> HIDE DEF j
<1>2. Acts(c)
  BY <1>1 DEF Acts
<1>3. JobInv(j, at)'
  BY <1>0 DEF JobInv, JobTypeOK, Surveying, Applying
<1>4. SurveyInv(j, at)'
  BY DEF SurveyInv, Surveying
<1>5. ApplyInv(j, at)'
  BY <1>0 DEF ApplyInv, Made, storeVars, proposalVars
<1> QED
  BY <1>1, <1>2, <1>3, <1>4, <1>5 DEF CallInv, Surveying

LEMMA CoreStart ==
  ASSUME IInv, NEW c \in Callers, NEW path \in Paths,
         \/ StartSurvey(c, path)
         \/ \E p \in Pids : StartDismissal(c, path, p)
  PROVE  CoreInv'
<1> USE DEF hostVars, openVars, fileVars
<1>1. CASE StartSurvey(c, path)
  <2>1. Acts(c) /\ CallInv(c)' /\ pc'[c] \notin Surveying
    BY <1>1, Started DEF StartSurvey
  <2> QED
    BY <1>1, <2>1, Passing, FilesStill DEF StartSurvey
<1>2. ASSUME NEW p \in Pids, StartDismissal(c, path, p)
      PROVE  CoreInv'
  <2>1. p \in DOMAIN home /\ home[p] = path /\ records[p].status \in Decided
    BY <1>2 DEF StartDismissal, ReadOpen, OpenIn, Listed, Decided
  <2>2. Acts(c) /\ CallInv(c)' /\ pc'[c] \notin Surveying
    BY <1>2, <2>1, Started DEF StartDismissal
  <2> QED
    BY <1>2, <2>2, Passing, FilesStill DEF StartDismissal
<1> QED
  BY <1>1, <1>2

\* A selection becomes what was asked for.
LEMMA CoreStartApply ==
  ASSUME IInv, NEW c \in Callers, NEW path \in Paths, NEW p \in Pids, NEW items,
         StartApply(c, path, p, items)
  PROVE  CoreInv'
<1> USE DEF StartApply, hostVars, openVars, fileVars
<1>1. p \in DOMAIN home /\ home[p] = path /\ records[p].status \in Decided
  BY DEF ReadOpen, OpenIn, Listed, Decided
<1>2. asked \subseteq asked' /\ Changes(path, p, items) \subseteq asked'
  BY DEF Changes
<1>3. Acts(c) /\ CallInv(c)' /\ pc'[c] \notin Surveying
  BY <1>1, <1>2, Started
<1>4. Grows /\ StoreInv' /\ OnlyWhatWasAsked'
  BY <1>2 DEF IInv, Grows, StoreInv, OnlyWhatWasAsked, storeVars, proposalVars, reportVars
<1>5. SparesOthers(c)
  BY DEF SparesOthers, storeVars, proposalVars, IInv, CallsInv, CallInv, SurveyInv
<1>6. CallsInv'
  BY <1>3, <1>4, <1>5, CallsStep
<1>7. DistinctInv'
  BY <1>3, DistinctKept
<1>8. FilesInv' /\ ReportsAreTrue' /\ DeskInv'
  BY <1>4, FilesKept, ReportsKept DEF storeVars, reportVars, IInv, DeskInv
<1> QED
  BY <1>4, <1>6, <1>7, <1>8 DEF CoreInv

\* A call that goes on with what is not its run's.
LEMMA CoreMistaken ==
  ASSUME IInv, NEW c \in Callers,
         \/ RunMistaken(c, "inspect", "inspect", "inspected")
         \/ RunMistaken(c, "apply", "apply", "applied")
  PROVE  CoreInv'
<1> USE DEF IInv, CallsInv, RunMistaken, Goto, Stay, openVars, fileVars
<1>1. PICK at : at = pc'[c]
  OBVIOUS
<1>2. /\ Acts(c) /\ job'[c] = job[c]
      /\ \/ pc[c] = "inspect" /\ at = "inspected"
         \/ pc[c] = "apply" /\ at = "applied"
  BY <1>1 DEF Acts, CallPlaces, Applying
<1>3. JobInv(job[c], at)' /\ SurveyInv(job[c], at)'
  BY <1>2 DEF CallInv, JobInv, JobTypeOK, SurveyInv, Surveying, Applying
<1>4. ApplyInv(job[c], at)'
  BY <1>2 DEF CallInv, ApplyInv, storeVars, proposalVars, Made, Changes
<1>5. CallInv(c)'
  BY <1>1, <1>2, <1>3, <1>4 DEF CallInv
<1> QED
  BY <1>1, <1>2, <1>5, Passing, FilesStill DEF Surveying

\* The steps that only read, and the two that leave something in a shared file.
LEMMA CoreReads ==
  ASSUME IInv, NEW c \in Callers,
         \/ Inspect(c) \/ ReadState(c) \/ ListProposals(c) \/ ReadRecord(c) \/ RecordsRead(c)
         \/ SurveyDone(c) \/ WriteRunnerPlan(c) \/ ClearResult(c) \/ ReadResult(c)
  PROVE  CoreInv'
<1> USE DEF IInv, CallsInv, Goto, Stay, hostVars, openVars, fileVars
<1>0. UNCHANGED <<storeVars, asked, performed, projects, open>>
  BY DEF Inspect, Run, Executes, Inspector, ReadState, ListProposals, ReadRecord, RecordsRead,
     SurveyDone, Return, WriteRunnerPlan, ClearResult, ReadResult
<1>a. CallInv(c)
  OBVIOUS
<1>1. CASE Inspect(c)
  <2>1. Acts(c) /\ pc[c] = "inspect" /\ pc'[c] = "inspected" /\ job'[c] = job[c]
    BY <1>1 DEF Acts, CallPlaces, Inspect, Run
  <2>2. CallInv(c)'
    BY <1>0, <1>a, <2>1
    DEF CallInv, JobInv, JobTypeOK, SurveyInv, ApplyInv, Surveying, Applying, storeVars,
        proposalVars, Made, Changes
  <2>3. planFile' = planFile /\ resultFile' = resultFile
    BY <1>1 DEF Inspect, Run, Executes, Inspector
  <2> QED
    BY <1>0, <2>1, <2>2, <2>3, Passing, FilesStill DEF Surveying
<1>2. CASE ListProposals(c) \/ ReadRecord(c)
  <2>0. PICK us, os : job' = [job EXCEPT ![c] = [job[c] EXCEPT !.unread = us, !.older = os]]
                      /\ \/ ListProposals(c) /\ us = Listed(job[c].path) /\ os = job[c].older
                         \/ /\ ReadRecord(c) /\ us \subseteq job[c].unread
                            /\ \E q \in job[c].unread : os = job[c].older \cup ({q} \cap OpenIn(job[c].path))
    <3>1. CASE ListProposals(c)
      <4>1. PICK j : j = job[c]
        OBVIOUS
      <4>2. [j EXCEPT !.unread = Listed(j.path)] = [j EXCEPT !.unread = Listed(j.path), !.older = j.older]
        BY <1>a, <4>1 DEF CallInv, JobInv
      <4> QED BY <3>1, <4>1, <4>2 DEF ListProposals
    <3>2. CASE ReadRecord(c)
      <4>1. PICK q \in job[c].unread :
              job' = [job EXCEPT ![c] = [job[c] EXCEPT
                        !.unread = job[c].unread \ {q},
                        !.older = job[c].older \cup ({q} \cap OpenIn(job[c].path))]]
        BY <3>2 DEF ReadRecord
      <4>2. PICK us, os : /\ us = job[c].unread \ {q}
                          /\ os = job[c].older \cup ({q} \cap OpenIn(job[c].path))
        OBVIOUS
      <4>3. us \subseteq job[c].unread
        BY <4>2
      <4> QED BY <3>2, <4>1, <4>2, <4>3
    <3> QED BY <1>2, <3>1, <3>2
  <2>1. PICK k : k = [job[c] EXCEPT !.unread = us, !.older = os]
    OBVIOUS
  <2>2. Acts(c) /\ pc[c] \in {"list", "read"} /\ job'[c] = k /\ pc'[c] = "read"
    BY <1>2, <2>0, <2>1 DEF Acts, CallPlaces, Surveying, ListProposals, ReadRecord
  <2>3. /\ k.kind = job[c].kind /\ k.path = job[c].path /\ k.pid = job[c].pid
        /\ k.items = job[c].items /\ k.unread = us /\ k.older = os
        /\ k.result = job[c].result /\ k.answer = job[c].answer
        /\ k = [kind |-> k.kind, path |-> k.path, pid |-> k.pid, items |-> k.items,
                unread |-> k.unread, older |-> k.older, result |-> k.result, answer |-> k.answer]
    BY <1>a, <2>1 DEF CallInv, JobInv
  <2>4. \A q \in us : q \in DOMAIN home /\ q \in Pids /\ q < job[c].pid /\ home[q] = job[c].path
    <3>1. CASE ListProposals(c) /\ us = Listed(job[c].path)
      BY <3>1, HomeDomain DEF ListProposals, Listed
    <3>2. CASE ReadRecord(c) /\ us \subseteq job[c].unread
      BY <1>a, <3>2, HomeDomain DEF ReadRecord, CallInv, SurveyInv
    <3> QED BY <2>0, <3>1, <3>2
  <2>5. \A q \in os : /\ q \in Pids /\ q < job[c].pid /\ home[q] = job[c].path
                       /\ records[q].status \in Decided
    <3>1. \A q \in job[c].older : /\ q \in Pids /\ q < job[c].pid /\ home[q] = job[c].path
                                  /\ records[q].status \in Decided
      BY <1>a, <2>2 DEF CallInv, JobInv, JobTypeOK, SurveyInv, Surveying
    <3>2. ASSUME ReadRecord(c), NEW q \in job[c].unread, q \in OpenIn(job[c].path)
          PROVE  /\ q \in Pids /\ q < job[c].pid /\ home[q] = job[c].path
                 /\ records[q].status \in Decided
      BY <1>a, <3>2, HomeDomain DEF ReadRecord, CallInv, SurveyInv, OpenIn, Listed, Decided
    <3> QED BY <2>0, <3>1, <3>2
  <2>6. JobInv(k, "read")'
    BY <1>0, <1>a, <2>2, <2>3, <2>4, <2>5
    DEF CallInv, JobInv, JobTypeOK, Surveying, Applying, storeVars, proposalVars, Made
  <2>7. SurveyInv(k, "read")'
    BY <1>0, <1>a, <2>2, <2>3, <2>4, <2>5
    DEF CallInv, SurveyInv, Surveying, storeVars, proposalVars
  <2>8. ApplyInv(k, "read")'
    BY <1>a, <2>2, <2>3 DEF CallInv, ApplyInv, JobInv, Surveying
  <2>9. CallInv(c)'
    BY <2>2, <2>6, <2>7, <2>8 DEF CallInv
  <2>10. FilesInv'
    BY <1>0, <1>2, FilesStill DEF ListProposals, ReadRecord
  <2> QED
    BY <1>0, <2>2, <2>3, <2>9, <2>10, Passing DEF Surveying
<1>6. CASE RecordsRead(c)
  <2>0. PICK at : at = IF job[c].items = {} THEN "summary" ELSE "plan"
    OBVIOUS
  <2>1. Acts(c) /\ pc[c] = "read" /\ job'[c] = job[c] /\ pc'[c] = at
    BY <1>6, <2>0 DEF Acts, CallPlaces, Surveying, RecordsRead
  <2>2. JobInv(job[c], at)' /\ SurveyInv(job[c], at)'
    BY <1>0, <1>a, <2>0, <2>1
    DEF CallInv, JobInv, JobTypeOK, SurveyInv, Surveying, Applying, storeVars, proposalVars, Made
  <2>3. ApplyInv(job[c], at)'
    BY <1>a, <2>0, <2>1 DEF CallInv, ApplyInv, JobInv, Surveying
  <2>4. CallInv(c)'
    BY <2>1, <2>2, <2>3 DEF CallInv
  <2> QED
    BY <1>0, <1>6, <2>0, <2>1, <2>4, Passing, FilesStill DEF RecordsRead, Surveying
<1>7. CASE ReadState(c)
  <2>0. PICK k, at, items : /\ k = job'[c] /\ at = pc'[c]
                            /\ items = IF job[c].kind = "survey" THEN Survey(stateFile.project)
                                       ELSE job[c].items
    OBVIOUS
  <2>1. /\ Acts(c) /\ pc[c] = "inspected"
        /\ \/ at = "propose" /\ job[c].kind = "survey"
           \/ at = "write" /\ job[c].kind = "apply"
    BY <1>7, <2>0 DEF Acts, CallPlaces, Applying, ReadState
  <2>2. /\ k.kind = job[c].kind /\ k.path = job[c].path /\ k.pid = job[c].pid
        /\ k.items = items /\ k.unread = job[c].unread /\ k.older = job[c].older
        /\ k.result = job[c].result /\ k.answer = job[c].answer
        /\ k = [kind |-> k.kind, path |-> k.path, pid |-> k.pid, items |-> k.items,
                unread |-> k.unread, older |-> k.older, result |-> k.result, answer |-> k.answer]
    BY <1>7, <1>a, <2>0 DEF ReadState, CallInv, JobInv
  <2>3. JobInv(k, at)' /\ SurveyInv(k, at)'
    BY <1>0, <1>a, <2>1, <2>2
    DEF CallInv, JobInv, JobTypeOK, SurveyInv, Surveying, Applying
  <2>4. ApplyInv(k, at)'
    BY <1>0, <1>a, <2>0, <2>1, <2>2
    DEF CallInv, ApplyInv, JobInv, storeVars, proposalVars, Made, Changes
  <2>5. CallInv(c)'
    BY <2>0, <2>3, <2>4 DEF CallInv
  <2> QED
    BY <1>0, <1>7, <2>0, <2>1, <2>5, Passing, FilesStill DEF ReadState, Surveying
<1>3. CASE SurveyDone(c)
  <2>0. PICK k : k = [job[c] EXCEPT !.answer = "ok"]
    OBVIOUS
  <2>1. Acts(c) /\ pc[c] = "supersede" /\ job'[c] = k /\ pc'[c] = "idle"
    BY <1>3, <2>0 DEF Acts, CallPlaces, Return, SurveyDone
  <2>2. /\ k.kind = job[c].kind /\ k.path = job[c].path /\ k.pid = job[c].pid
        /\ k.items = job[c].items /\ k.unread = job[c].unread /\ k.older = job[c].older
        /\ k.result = job[c].result /\ k.answer = "ok"
        /\ k = [kind |-> k.kind, path |-> k.path, pid |-> k.pid, items |-> k.items,
                unread |-> k.unread, older |-> k.older, result |-> k.result, answer |-> k.answer]
    BY <1>a, <2>0 DEF CallInv, JobInv
  <2>4. JobInv(k, "idle")' /\ SurveyInv(k, "idle")'
    BY <1>0, <1>a, <2>1, <2>2
    DEF CallInv, JobInv, JobTypeOK, SurveyInv, Surveying, Applying
  <2>5. ApplyInv(k, "idle")'
    BY <1>0, <1>a, <2>1, <2>2
    DEF CallInv, ApplyInv, JobInv, Surveying, storeVars, proposalVars, Made, Changes
  <2>6. CallInv(c)'
    BY <2>1, <2>4, <2>5 DEF CallInv
  <2> QED
    BY <1>0, <1>3, <2>1, <2>6, Passing, FilesStill DEF SurveyDone, Surveying
<1>4. CASE WriteRunnerPlan(c) \/ ClearResult(c)
  <2>0. PICK at : at = pc'[c]
    OBVIOUS
  <2>1. /\ Acts(c) /\ job'[c] = job[c] /\ pc'[c] = at
        /\ pc[c] \in {"write", "clear"} /\ at \in {"clear", "apply"}
        /\ job[c].kind = "apply"
    BY <1>4, <1>a, <2>0 DEF Acts, CallPlaces, Applying, WriteRunnerPlan, ClearResult, CallInv, JobInv
  <2>2. JobInv(job[c], at)' /\ SurveyInv(job[c], at)'
    BY <1>0, <1>a, <2>1
    DEF CallInv, JobInv, JobTypeOK, SurveyInv, Surveying, Applying
  <2>3. ApplyInv(job[c], at)'
    BY <1>0, <1>a, <2>1 DEF CallInv, ApplyInv, storeVars, proposalVars, Made, Changes
  <2>4. CallInv(c)'
    BY <2>1, <2>2, <2>3 DEF CallInv
  <2>5. FilesInv'
    <3>1. CASE ClearResult(c)
      BY <1>0, <3>1, FilesStill DEF ClearResult
    <3>2. CASE WriteRunnerPlan(c)
      <4>1. /\ planFile'.pid = job[c].pid /\ planFile'.path = job[c].path
            /\ planFile'.items = job[c].items /\ resultFile' = resultFile
        BY <3>2 DEF WriteRunnerPlan
      <4>2. Made(job[c].pid, job[c].path)
            /\ Changes(job[c].path, job[c].pid, job[c].items) \subseteq asked
        BY <1>a, <2>1 DEF CallInv, ApplyInv
      <4> QED
        BY <1>0, <4>1, <4>2 DEF FilesInv, Made, Changes, TrueResult, storeVars, proposalVars
    <3> QED BY <1>4, <3>1, <3>2
  <2> QED
    BY <1>0, <2>1, <2>4, <2>5, Passing DEF Surveying
<1>5. CASE ReadResult(c)
  <2>0. PICK k : k = [job[c] EXCEPT !.result = resultFile.items]
    OBVIOUS
  <2>1. Acts(c) /\ pc[c] = "applied" /\ job'[c] = k /\ pc'[c] = "result"
    BY <1>5, <2>0 DEF Acts, CallPlaces, Applying, ReadResult
  <2>2. /\ k.kind = job[c].kind /\ k.path = job[c].path /\ k.pid = job[c].pid
        /\ k.items = job[c].items /\ k.unread = job[c].unread /\ k.older = job[c].older
        /\ k.result = resultFile.items /\ k.answer = job[c].answer
        /\ k = [kind |-> k.kind, path |-> k.path, pid |-> k.pid, items |-> k.items,
                unread |-> k.unread, older |-> k.older, result |-> k.result, answer |-> k.answer]
    BY <1>a, <2>0 DEF CallInv, JobInv
  <2>3. k.kind = "apply" /\ k.items # {}
    BY <1>a, <2>1, <2>2 DEF CallInv, JobInv, ApplyInv, Applying
  <2>4. k.result # NoFile
    BY <1>5, <2>2, <2>3 DEF ReadResult, OwnResult, NoFile
  <2>5. TrueResult(k.pid, k.result)'
    BY <1>0, <1>5, <2>2 DEF ReadResult, OwnResult, FilesInv, TrueResult, storeVars, proposalVars
  <2>6. JobInv(k, "result")' /\ SurveyInv(k, "result")'
    BY <1>0, <1>a, <2>1, <2>2
    DEF CallInv, JobInv, JobTypeOK, SurveyInv, Surveying, Applying
  <2>7. ApplyInv(k, "result")'
    BY <1>0, <1>a, <2>1, <2>2, <2>4, <2>5
    DEF CallInv, ApplyInv, storeVars, proposalVars, Made, Changes
  <2>8. CallInv(c)'
    BY <2>1, <2>6, <2>7 DEF CallInv
  <2> QED
    BY <1>0, <1>5, <2>1, <2>8, Passing, FilesStill DEF ReadResult, Surveying
<1> QED
  BY <1>1, <1>2, <1>3, <1>4, <1>5, <1>6, <1>7

\* A step that writes to the store.
LEMMA Writing ==
  ASSUME IInv, NEW c \in Callers, Acts(c), CallInv(c)', SparesOthers(c),
         Grows, StoreInv', OnlyWhatWasAsked', ReportsAreTrue',
         UNCHANGED <<planFile, resultFile, projects, open>>,
         pc'[c] \in Surveying => pc[c] \in Surveying /\ job'[c].pid = job[c].pid
  PROVE  CoreInv'
<1>1. CallsInv' /\ DistinctInv' /\ FilesInv'
  BY CallsStep, DistinctKept, FilesKept
<1>2. DeskInv'
  BY DEF IInv, DeskInv
<1> QED
  BY <1>1, <1>2 DEF CoreInv

LEMMA CoreMakeProposal ==
  ASSUME IInv, NEW c \in Callers, MakeProposal(c)
  PROVE  CoreInv'
<1> USE DEF IInv, CallsInv, MakeProposal, Goto, hostVars, openVars, fileVars, reportVars
<1>0. PICK n, path : n = Len(home) + 1 /\ path = job[c].path
  OBVIOUS
<1>a. CallInv(c) /\ pc[c] = "propose" /\ pc'[c] = "list" /\ job[c].kind = "survey"
      /\ path \in Paths /\ job[c].older = {}
  BY <1>0 DEF CallInv, JobInv
<1>1. /\ n \in Pids /\ n \notin DOMAIN home /\ DOMAIN home' = DOMAIN home \cup {n}
      /\ home' \in Seq(Paths) /\ Len(home') <= MaxProposals
      /\ home'[n] = path /\ \A p \in DOMAIN home : home'[p] = home[p]
  BY <1>0, <1>a, StoreAssumption DEF StoreInv, Pids
<1>2. PICK k : k = [job[c] EXCEPT !.pid = n]
  OBVIOUS
<1>3. Acts(c) /\ job'[c] = k
  BY <1>0, <1>2 DEF Acts, CallPlaces, Surveying
<1>4. /\ k.kind = "survey" /\ k.path = path /\ k.pid = n /\ k.items = job[c].items
      /\ k.unread = job[c].unread /\ k.older = {}
      /\ k.result = job[c].result /\ k.answer = job[c].answer
      /\ k = [kind |-> k.kind, path |-> k.path, pid |-> k.pid, items |-> k.items,
              unread |-> k.unread, older |-> k.older, result |-> k.result, answer |-> k.answer]
  BY <1>0, <1>a, <1>2 DEF CallInv, JobInv
<1>5. records[n].status = "none"
  BY <1>1 DEF StoreInv
<1>6. Grows
  BY <1>1 DEF Grows
<1>7. StoreInv'
  BY <1>1 DEF StoreInv
<1>8. OnlyWhatWasAsked' /\ ReportsAreTrue'
  BY <1>6, ReportsKept DEF OnlyWhatWasAsked
<1>9. SparesOthers(c)
  BY DEF SparesOthers, CallInv, SurveyInv
<1>10. CallInv(c)'
  <2>1. JobInv(k, "list")'
    BY <1>a, <1>1, <1>4 DEF CallInv, JobInv, JobTypeOK, Surveying, Applying, Made
  <2>2. SurveyInv(k, "list")'
    BY <1>4, <1>5 DEF SurveyInv
  <2>3. ApplyInv(k, "list")'
    BY <1>4 DEF ApplyInv
  <2> QED BY <1>a, <1>3, <2>1, <2>2, <2>3 DEF CallInv
<1>11. CallsInv'
  BY <1>3, <1>6, <1>9, <1>10, CallsStep
<1>12. DistinctInv'
  <2>1. \A d \in Callers \ {c} : pc'[d] = pc[d] /\ job'[d] = job[d]
    BY <1>3 DEF Acts
  <2>2. \A d \in Callers : pc[d] \in Surveying => job[d].pid \in DOMAIN home
    BY DEF CallInv, JobInv, Made
  <2> QED
    BY <1>1, <1>3, <1>4, <2>1, <2>2 DEF DistinctInv
<1>13. FilesInv' /\ DeskInv'
  BY <1>6, FilesKept DEF DeskInv
<1> QED
  BY <1>7, <1>8, <1>11, <1>12, <1>13 DEF CoreInv

LEMMA CoreSurvey ==
  ASSUME IInv, NEW c \in Callers,
         SavePlan(c) \/ SaveSummary(c) \/ SaveRecord(c) \/ Supersede(c)
  PROVE  CoreInv'
<1> USE DEF IInv, CallsInv, Goto, Stay, hostVars, openVars, fileVars
<1>1. CallInv(c) /\ pc[c] \in {"plan", "summary", "record", "supersede"}
  BY DEF SavePlan, SaveSummary, SaveRecord, Supersede
<1>2. PICK p, items : p = job[c].pid /\ items = job[c].items
  OBVIOUS
<1>3. /\ job[c].kind = "survey" /\ p \in DOMAIN home /\ p \in Pids /\ home[p] = job[c].path
      /\ job[c].older \subseteq Pids
      /\ \A d \in Callers \ {c} : pc[d] \in Surveying => job[d].pid \in Pids /\ job[d].pid # p
      /\ \A d \in Callers \ {c} : pc[d] \in {"list", "read", "plan", "summary", "record"} =>
           records[job[d].pid].status = "none"
  BY <1>1, <1>2, HomeDomain DEF CallInv, JobInv, JobTypeOK, Made, Surveying, DistinctInv, SurveyInv
<1>4. CASE SavePlan(c)
  <2>1. Acts(c) /\ pc[c] = "plan" /\ pc'[c] = "summary" /\ job'[c] = job[c] /\ items # {}
    BY <1>1, <1>2, <1>4 DEF Acts, CallPlaces, Surveying, SavePlan, CallInv, SurveyInv
  <2>2. WritePlan(p, items) /\ UNCHANGED <<asked, performed>>
    BY <1>2, <1>4 DEF SavePlan
  <2>3. Grows /\ StoreInv' /\ OnlyWhatWasAsked' /\ plans'[p] # {}
    BY <1>3, <2>1, <2>2, PlanWrite
  <2>4. UNCHANGED <<home, summaries, records, reportVars>>
    BY <2>2 DEF WritePlan
  <2>5. JobInv(job[c], "summary")' /\ SurveyInv(job[c], "summary")'
    BY <1>1, <1>2, <2>1, <2>3, <2>4
    DEF CallInv, JobInv, JobTypeOK, SurveyInv, Surveying, Applying, Made
  <2>6. ApplyInv(job[c], "summary")'
    BY <1>1, <1>3, <2>1 DEF ApplyInv
  <2> QED
    BY <1>3, <1>4, <2>1, <2>3, <2>4, <2>5, <2>6, Writing, ReportsKept
    DEF SavePlan, CallInv, SparesOthers, Surveying, reportVars
<1>5. CASE SaveSummary(c)
  <2>1. Acts(c) /\ pc[c] = "summary" /\ pc'[c] = "record" /\ job'[c] = job[c]
    BY <1>5 DEF Acts, CallPlaces, Surveying, SaveSummary
  <2>2. WriteSummary(p) /\ UNCHANGED <<asked, performed>>
    BY <1>2, <1>5 DEF SaveSummary
  <2>3. Grows /\ StoreInv' /\ OnlyWhatWasAsked'
    BY <1>3, <2>2, SummaryWrite
  <2>4. UNCHANGED <<home, plans, records, reportVars>> /\ p \in summaries'
    BY <2>2 DEF WriteSummary
  <2>5. JobInv(job[c], "record")' /\ SurveyInv(job[c], "record")'
    BY <1>1, <1>2, <2>1, <2>4
    DEF CallInv, JobInv, JobTypeOK, SurveyInv, Surveying, Applying, Made
  <2>6. ApplyInv(job[c], "record")'
    BY <1>1, <1>3, <2>1 DEF ApplyInv
  <2> QED
    BY <1>3, <1>5, <2>1, <2>3, <2>4, <2>5, <2>6, Writing, ReportsKept
    DEF SaveSummary, CallInv, SparesOthers, Surveying, reportVars
<1>6. CASE SaveRecord(c)
  <2>0. PICK s : s = IF items = {} THEN "already_tidy" ELSE "open"
    OBVIOUS
  <2>1. Acts(c) /\ pc[c] = "record" /\ pc'[c] = "supersede" /\ job'[c] = job[c]
    BY <1>6 DEF Acts, CallPlaces, Surveying, SaveRecord
  <2>2. WriteRecord(p, s, 0) /\ UNCHANGED <<asked, performed>>
    BY <1>2, <1>6, <2>0 DEF SaveRecord
  <2>3. records[p].status = "none" /\ p \in summaries /\ (s = "open" => plans[p] # {})
        /\ s \in {"open", "already_tidy"} /\ s \in Statuses \ {"none"} /\ s \notin Closed
    BY <1>1, <1>2, <2>0, <2>1 DEF CallInv, SurveyInv, Statuses, Closed
  <2>4. Grows /\ StoreInv' /\ OnlyWhatWasAsked'
    BY <1>3, <2>2, <2>3, RecordWrite
  <2>5. /\ UNCHANGED <<home, plans, summaries, reportVars>> /\ records'[p].status = s
        /\ \A q \in Pids \ {p} : records'[q] = records[q]
    BY <1>3, <2>2 DEF WriteRecord, Record, StoreInv
  <2>6. JobInv(job[c], "supersede")'
    BY <1>1, <1>2, <2>1, <2>5
    DEF CallInv, JobInv, JobTypeOK, Surveying, Applying, Made
  <2>7. SurveyInv(job[c], "supersede")'
    BY <1>1, <1>2, <1>3, <2>1, <2>3, <2>4, <2>5 DEF CallInv, SurveyInv, Surveying, Grows
  <2>8. ApplyInv(job[c], "supersede")'
    BY <1>1, <1>3, <2>1 DEF ApplyInv
  <2>9. SparesOthers(c)
    BY <1>3, <2>5 DEF SparesOthers, Surveying
  <2> QED
    BY <1>6, <2>1, <2>4, <2>5, <2>6, <2>7, <2>8, <2>9, Writing, ReportsKept
    DEF SaveRecord, CallInv, Surveying, reportVars
<1>7. CASE Supersede(c)
  <2>1. PICK q \in job[c].older : /\ WriteRecord(q, "superseded", p)
                                  /\ job' = [job EXCEPT ![c].older = @ \ {q}]
    BY <1>2, <1>7 DEF Supersede
  <2>2. PICK k : k = [job[c] EXCEPT !.older = @ \ {q}]
    OBVIOUS
  <2>3. Acts(c) /\ pc[c] = "supersede" /\ pc'[c] = "supersede" /\ job'[c] = k
        /\ UNCHANGED <<asked, performed>>
    BY <1>7, <2>1, <2>2 DEF Acts, CallPlaces, Surveying, Supersede
  <2>4. /\ k.kind = "survey" /\ k.path = job[c].path /\ k.pid = p
        /\ k.items = job[c].items /\ k.unread = job[c].unread /\ k.older \subseteq job[c].older
        /\ k.result = job[c].result /\ k.answer = job[c].answer
        /\ k = [kind |-> k.kind, path |-> k.path, pid |-> k.pid, items |-> k.items,
                unread |-> k.unread, older |-> k.older, result |-> k.result, answer |-> k.answer]
    BY <1>1, <1>2, <1>3, <2>2 DEF CallInv, JobInv
  <2>5. /\ q \in DOMAIN home /\ q \in Pids /\ records[q].status \in Decided
        /\ "superseded" \in Settled /\ "superseded" \in Statuses \ {"none"}
        /\ "superseded" \notin Closed
    BY <1>1, <1>3, <2>3, DecidedIsMade
    DEF CallInv, SurveyInv, Surveying, Settled, Statuses, Closed
  <2>6. Grows /\ StoreInv' /\ OnlyWhatWasAsked'
    BY <1>3, <2>1, <2>3, <2>5, RecordWrite
  <2>7. /\ UNCHANGED <<home, plans, summaries, reportVars>>
        /\ \A r \in Pids \ {q} : records'[r] = records[r]
    BY <2>1 DEF WriteRecord, StoreInv
  <2>8. JobInv(k, "supersede")'
    BY <1>1, <1>3, <2>3, <2>4, <2>7
    DEF CallInv, JobInv, JobTypeOK, Surveying, Applying, Made
  <2>9. SurveyInv(k, "supersede")'
    BY <1>1, <1>2, <1>3, <2>3, <2>4, <2>6, <2>7 DEF CallInv, SurveyInv, Surveying, Grows
  <2>10. ApplyInv(k, "supersede")'
    BY <2>4 DEF ApplyInv
  <2>11. SparesOthers(c)
    BY <1>3, <2>5, <2>7, NoneIsUndecided DEF SparesOthers, Surveying
  <2> QED
    BY <1>2, <1>7, <2>3, <2>4, <2>6, <2>7, <2>8, <2>9, <2>10, <2>11, Writing, ReportsKept
    DEF Supersede, CallInv, Surveying, reportVars
<1> QED
  BY <1>4, <1>5, <1>6, <1>7

LEMMA StatusIsClosed ==
  ASSUME NEW result
  PROVE  /\ StatusOf(result) \in Closed
         /\ StatusOf(result) = "applied" => AppliedIn(result) # {}
BY DEF StatusOf, Closed

LEMMA CoreReport ==
  ASSUME IInv, NEW c \in Callers,
         SaveResult(c) \/ SavePage(c) \/ SaveStatus(c) \/ SaveReport(c) \/ Dismiss(c)
  PROVE  CoreInv'
<1> USE DEF IInv, CallsInv, Goto, Stay, hostVars, openVars, fileVars
<1>1. CallInv(c) /\ pc[c] \in {"result", "page", "status", "report", "dismiss"}
  BY DEF SaveResult, SavePage, SaveStatus, SaveReport, Dismiss, Return
<1>2. PICK p, at, k : p = job[c].pid /\ at = pc'[c] /\ k = job'[c]
  OBVIOUS
<1>3. /\ job[c].kind \in {"apply", "dismiss"} /\ p \in DOMAIN home /\ p \in Pids
      /\ records[p].status \in Decided
      /\ \A d \in Callers \ {c} : pc[d] \in {"list", "read", "plan", "summary", "record"} =>
           records[job[d].pid].status = "none" /\ job[d].pid \in Pids
  BY <1>1, <1>2, HomeDomain DEF CallInv, JobInv, ApplyInv, SurveyInv, Applying, Made, Surveying
<1>4. /\ Acts(c) /\ at \in {"page", "status", "report", "idle"} /\ UNCHANGED <<asked, performed>>
      /\ k = job[c] \/ (k = [job[c] EXCEPT !.answer = "ok"] /\ at = "idle")
  BY <1>2 DEF Acts, CallPlaces, Applying, SaveResult, SavePage, SaveStatus, SaveReport, Dismiss, Return
<1>5. /\ k.kind = job[c].kind /\ k.path = job[c].path /\ k.pid = p
      /\ k.items = job[c].items /\ k.unread = job[c].unread /\ k.older = job[c].older
      /\ k.result = job[c].result
      /\ k.answer = job[c].answer \/ (k.answer = "ok" /\ at = "idle")
      /\ k = [kind |-> k.kind, path |-> k.path, pid |-> k.pid, items |-> k.items,
              unread |-> k.unread, older |-> k.older, result |-> k.result, answer |-> k.answer]
  BY <1>1, <1>2, <1>4 DEF CallInv, JobInv
<1>6. at # "idle" => job[c].kind = "apply"
  BY <1>1, <1>2 DEF CallInv, JobInv, Applying, SaveResult, SavePage, SaveStatus, SaveReport, Dismiss, Return
<1>7. JobInv(k, at)'
  BY <1>1, <1>3, <1>4, <1>5, <1>6 DEF CallInv, JobInv, JobTypeOK, Surveying, Applying
<1>8. SurveyInv(k, at)'
  BY <1>4 DEF SurveyInv, Surveying
<1>9. CASE SaveResult(c)
  <2>1. pc[c] = "result" /\ at = "page" /\ WriteResult(p, job[c].result) /\ job[c].result # NoFile
    BY <1>1, <1>2, <1>9 DEF SaveResult, CallInv, ApplyInv
  <2>2. Grows /\ StoreInv' /\ OnlyWhatWasAsked' /\ results'[p] # NoFile
    BY <1>3, <1>4, <2>1, ResultWrite
  <2>3. UNCHANGED <<home, records, reports>>
    BY <2>1 DEF WriteResult, proposalVars
  <2>4. ApplyInv(k, at)'
    BY <1>1, <1>2, <1>4, <1>5, <2>1, <2>2, <2>3
    DEF CallInv, ApplyInv, Made, Changes, TrueResult
  <2>5. SparesOthers(c)
    BY <1>3, <2>3 DEF SparesOthers
  <2> QED
    BY <1>2, <1>4, <1>7, <1>8, <1>9, <2>2, <2>3, <2>4, <2>5, Writing, ReportsKept
    DEF SaveResult, CallInv, Surveying
<1>10. CASE SavePage(c)
  <2>1. pc[c] = "page" /\ at = "status" /\ WritePage(p)
    BY <1>1, <1>2, <1>10 DEF SavePage
  <2>2. Grows /\ StoreInv' /\ OnlyWhatWasAsked'
    BY <1>3, <1>4, <2>1, PageWrite
  <2>3. UNCHANGED <<home, records, results, reports>> /\ p \in pages'
    BY <2>1 DEF WritePage, proposalVars
  <2>4. ApplyInv(k, at)'
    BY <1>1, <1>2, <1>4, <1>5, <2>1, <2>2, <2>3
    DEF CallInv, ApplyInv, Made, Changes, TrueResult
  <2>5. SparesOthers(c)
    BY <1>3, <2>3 DEF SparesOthers
  <2> QED
    BY <1>2, <1>4, <1>7, <1>8, <1>10, <2>2, <2>3, <2>4, <2>5, Writing, ReportsKept
    DEF SavePage, CallInv, Surveying
<1>11. CASE SaveStatus(c) \/ Dismiss(c)
  <2>0. PICK s : /\ WriteRecord(p, s, 0) /\ s \in Settled
                 /\ s \in Closed => pc[c] = "status" /\ at = "report"
                 /\ at = "report" => pc[c] = "status"
    <3>1. "dismissed" \in Settled /\ "dismissed" \notin Closed /\ Closed \subseteq Settled
      BY DEF Settled, Closed
    <3> QED BY <1>2, <1>4, <1>11, <3>1, StatusIsClosed DEF SaveStatus, Dismiss, Return
  <2>1. s \in Statuses \ {"none"} /\ (s \in Closed => results[p] # NoFile /\ p \in pages)
    BY <1>1, <1>2, <2>0 DEF Statuses, Settled, CallInv, ApplyInv
  <2>2. Grows /\ StoreInv' /\ OnlyWhatWasAsked'
    BY <1>3, <1>4, <2>0, <2>1, RecordWrite
  <2>3. UNCHANGED <<home, results, pages, reports>>
        /\ \A q \in Pids \ {p} : records'[q] = records[q]
    BY <2>0 DEF WriteRecord, StoreInv, reportVars
  <2>4. at \in {"idle", "report"}
    BY <1>2, <1>11 DEF SaveStatus, Dismiss, Return
  <2>5. ApplyInv(k, at)'
    BY <1>1, <1>2, <1>3, <1>4, <1>5, <2>0, <2>2, <2>3, <2>4
    DEF CallInv, ApplyInv, Made, Changes, TrueResult, Grows
  <2>6. SparesOthers(c)
    BY <1>3, <2>3, NoneIsUndecided DEF SparesOthers
  <2> QED
    BY <1>2, <1>4, <1>7, <1>8, <1>11, <2>2, <2>3, <2>5, <2>6, Writing, ReportsKept
    DEF SaveStatus, Dismiss, Return, CallInv, Surveying
<1>12. CASE SaveReport(c)
  <2>1. pc[c] = "report" /\ at = "idle" /\ WriteReport(p, job[c].result)
        /\ TrueResult(p, job[c].result)
    BY <1>1, <1>2, <1>12 DEF SaveReport, Return, CallInv, ApplyInv
  <2>2. Grows /\ StoreInv' /\ OnlyWhatWasAsked' /\ ReportsAreTrue'
    BY <1>3, <1>4, <2>1, ReportWrite
  <2>3. UNCHANGED <<home, records>>
    BY <2>1 DEF WriteReport, proposalVars
  <2>4. ApplyInv(k, at)'
    BY <1>1, <1>2, <1>4, <1>5, <2>1, <2>3 DEF CallInv, ApplyInv, Made, Changes
  <2>5. SparesOthers(c)
    BY <1>3, <2>3 DEF SparesOthers
  <2> QED
    BY <1>2, <1>4, <1>7, <1>8, <1>12, <2>2, <2>4, <2>5, Writing
    DEF SaveReport, CallInv, Surveying
<1> QED
  BY <1>9, <1>10, <1>11, <1>12

-------------------------------------------------------------------------------
(***************************************************************************)
(* REAPER and the user.                                                    *)
(***************************************************************************)

\* The applier does what its plan asks, to the project it is for.
LEMMA ApplierIsTrue ==
  ASSUME IInv, NEW reported \in BOOLEAN, Applier(reported), UNCHANGED <<storeVars, asked, open>>
  PROVE  Grows /\ StoreInv' /\ OnlyWhatWasAsked' /\ FilesInv' /\ DeskInv'
<1> USE DEF IInv, Applier, PlanIsForOpen
<1>1. PICK failed \in SUBSET Prepared(projects[open], planFile.items) :
        LET result == ItemStatus(projects[open], planFile.items, failed)
            done   == AppliedIn(result)
        IN  /\ projects' = [projects EXCEPT ![open] = Changed(@, done)]
            /\ performed' = performed \cup ({open} \X {planFile.pid} \X done)
            /\ resultFile' = IF reported THEN [pid |-> planFile.pid, items |-> result]
                                         ELSE resultFile
  OBVIOUS
<1> DEFINE result == ItemStatus(projects[open], planFile.items, failed)
           done   == AppliedIn(result)
<1>2. done \subseteq planFile.items
  BY DEF AppliedIn, ItemStatus
<1> HIDE DEF result
<1>3. {open} \X {planFile.pid} \X done \subseteq asked
  BY <1>2 DEF FilesInv, Changes
<1>4. OnlyWhatWasAsked' /\ performed \subseteq performed'
  BY <1>1, <1>3 DEF OnlyWhatWasAsked, result
<1>5. Grows
  BY <1>4 DEF Grows, storeVars, proposalVars, reportVars
<1>6. StoreInv' /\ DeskInv'
  BY <1>1 DEF StoreInv, storeVars, proposalVars, reportVars, DeskInv
<1>7. FilesInv'
  <2>1. CASE ~reported
    BY <1>1, <1>5, <2>1, FilesKept
  <2>2. CASE reported
    <3>1. resultFile'.pid = planFile.pid /\ resultFile'.items = result
      BY <1>1, <2>2 DEF result
    <3>2. Made(planFile.pid, open)
      BY DEF FilesInv
    <3>3. \A i \in done : <<open, planFile.pid, i>> \in performed'
      BY <1>1 DEF result
    <3>4. planFile' = planFile /\ home' = home /\ asked' = asked
      BY DEF storeVars, proposalVars
    <3> QED
      BY <3>1, <3>2, <3>3, <3>4 DEF FilesInv, Made, TrueResult, Changes
  <2> QED BY <2>1, <2>2
<1> QED
  BY <1>4, <1>5, <1>6, <1>7

LEMMA CoreApply ==
  ASSUME IInv, NEW c \in Callers, Apply(c) \/ ApplyUnreported(c)
  PROVE  CoreInv'
<1> USE DEF IInv, CallsInv, Goto, Stay
<1>1. PICK reported \in BOOLEAN : Applier(reported)
  BY DEF Apply, Run, Executes, ApplyUnreported
<1>2. PICK at : at = pc'[c]
  OBVIOUS
<1>3. /\ Acts(c) /\ pc[c] = "apply" /\ at \in {"applied", "idle"} /\ job'[c] = job[c]
      /\ UNCHANGED <<storeVars, asked, open, job>>
  BY <1>2 DEF Acts, CallPlaces, Applying, Apply, Run, ApplyUnreported
<1>4. Grows /\ StoreInv' /\ OnlyWhatWasAsked' /\ FilesInv' /\ DeskInv'
  BY <1>1, <1>3, ApplierIsTrue
<1>5. JobInv(job[c], at)' /\ SurveyInv(job[c], at)'
  BY <1>3 DEF CallInv, JobInv, JobTypeOK, SurveyInv, Surveying, Applying
<1>6. ApplyInv(job[c], at)'
  BY <1>3 DEF CallInv, ApplyInv, storeVars, proposalVars, Made, Changes
<1>7. SparesOthers(c)
  BY <1>3 DEF SparesOthers, storeVars, proposalVars, CallInv, SurveyInv
<1>8. CallsInv' /\ DistinctInv'
  BY <1>2, <1>3, <1>4, <1>5, <1>6, <1>7, CallsStep, DistinctKept DEF CallInv, Surveying
<1> QED
  BY <1>3, <1>4, <1>8, ReportsKept DEF CoreInv, storeVars, reportVars

LEMMA CoreLateRun ==
  ASSUME IInv, LateTidyRun
  PROVE  CoreInv'
<1> USE DEF LateTidyRun, Executes, callVars
<1>1. Grows /\ StoreInv' /\ OnlyWhatWasAsked' /\ FilesInv' /\ DeskInv'
  <2>1. CASE Inspector
    BY <2>1, Still, FilesStill DEF Inspector, IInv, DeskInv
  <2>2. CASE Applier(TRUE)
    BY <2>2, ApplierIsTrue
  <2> QED BY <2>1, <2>2
<1>2. CallsInv' /\ ReportsAreTrue'
  BY <1>1, CallsKept, ReportsKept DEF storeVars, proposalVars, reportVars
<1>3. DistinctInv'
  BY DEF IInv, DistinctInv
<1> QED
  BY <1>1, <1>2, <1>3 DEF CoreInv

LEMMA CoreOutsideChange ==
  ASSUME IInv, OutsideChange
  PROVE  CoreInv'
<1> USE DEF OutsideChange, fileVars
<1>1. Grows /\ StoreInv' /\ OnlyWhatWasAsked' /\ FilesInv'
  BY Still, FilesStill
<1>2. CallsInv' /\ ReportsAreTrue'
  BY <1>1, CallsKept, ReportsKept DEF storeVars, proposalVars, reportVars
<1>3. DistinctInv'
  BY DEF IInv, DistinctInv
<1>4. DeskInv'
  BY DEF IInv, DeskInv
<1> QED
  BY <1>1, <1>2, <1>3, <1>4 DEF CoreInv

LEMMA CoreStep ==
  ASSUME IInv, TidyStep
  PROVE  CoreInv'
<1>1. ASSUME NEW c \in Callers, CallStep(c) PROVE CoreInv'
  <2>1. CASE Begin(c)
    BY <2>1, CoreStart, CoreStartApply DEF Begin
  <2>2. CASE \/ GiveUp(c) \/ RunFails(c, "inspect", "inspect") \/ RunFails(c, "apply", "apply")
    BY <2>2, CoreGiveUp
  <2> QED
    BY <1>1, <2>1, <2>2, CoreMistaken, CoreReads, CoreMakeProposal, CoreSurvey, CoreReport, CoreApply
    DEF CallStep
<1> QED
  BY <1>1, CoreLateRun, CoreOutsideChange DEF TidyStep

-------------------------------------------------------------------------------
(***************************************************************************)
(* A survey by itself misses no older proposal.                            *)
(***************************************************************************)

\* A call that has begun never has no job again, so whoever is alone was before.
LEMMA AloneBefore ==
  ASSUME IInv, NEW c \in Callers, Acts(c), job'[c] # NoJob, OneCaller'
  PROVE  /\ OneCaller
         /\ \A d \in Callers \ {c} : job[d] = NoJob /\ job'[d] = NoJob /\ pc'[d] = "idle"
<1> USE DEF IInv, CallsInv
<1>1. \A d \in Callers \ {c} : pc'[d] = pc[d] /\ job'[d] = job[d]
  BY DEF Acts
<1>2. \A d \in Callers \ {c} : job[d] = NoJob
  BY <1>1 DEF OneCaller
<1>3. NoJob.kind = "none"
  BY DEF NoJob, Job
<1>4. \A d \in Callers \ {c} : pc[d] = "idle"
  BY <1>2, <1>3 DEF CallInv, JobInv
<1> QED
  BY <1>1, <1>2, <1>4 DEF OneCaller

\* What OlderInv says of one call.
OlderKnown(c) ==
  /\ pc[c] = "read" =>
       \A p \in OpenIn(job[c].path) : p < job[c].pid => p \in job[c].unread \cup job[c].older
  /\ pc[c] \in {"plan", "summary", "record", "supersede"} =>
       \A p \in OpenIn(job[c].path) : p < job[c].pid => p \in job[c].older
  /\ pc[c] = "idle" /\ job[c].kind = "survey" /\ job[c].answer = "ok" =>
       \A p \in OpenIn(job[c].path) : p >= job[c].pid

LEMMA OlderAct ==
  ASSUME IInv, NEW c \in Callers, Acts(c), job'[c] # NoJob,
         OneCaller => OlderKnown(c)'
  PROVE  OlderInv'
<1> SUFFICES ASSUME OneCaller', NEW d \in Callers PROVE OlderKnown(d)'
  BY DEF OlderInv, OlderKnown
<1>1. NoJob.kind = "none"
  BY DEF NoJob, Job
<1>2. CASE d = c
  BY <1>2, AloneBefore
<1>3. CASE d # c
  BY <1>1, <1>3, AloneBefore DEF OlderKnown
<1> QED
  BY <1>2, <1>3

LEMMA OlderStill ==
  ASSUME IInv, UNCHANGED <<home, records, pc, job>>
  PROVE  OlderInv'
BY DEF IInv, OlderInv, OneCaller, OpenIn, Listed

LEMMA OlderCall ==
  ASSUME IInv, NEW c \in Callers, CallStep(c)
  PROVE  OlderInv'
<1> USE DEF IInv, CallsInv, Goto, Stay
<1>0. CallInv(c) /\ NoJob.kind = "none"
  BY DEF NoJob, Job
<1>1. CASE Begin(c)
  <2>1. \E at \in {"inspect", "dismiss"} : \E j :
          Goto(c, "idle", at) /\ job' = [job EXCEPT ![c] = j] /\ j # NoJob /\ j.answer = "none"
    <3>1. ASSUME NEW kind \in {"survey", "apply", "dismiss"}, NEW path, NEW p, NEW items
          PROVE  Job(kind, path, p, items) # NoJob /\ Job(kind, path, p, items).answer = "none"
      BY <1>0 DEF Job
    <3> QED BY <1>1, <3>1 DEF Begin, StartSurvey, StartApply, StartDismissal, Start
  <2>2. Acts(c) /\ job'[c] # NoJob /\ pc'[c] \in {"inspect", "dismiss"}
    BY <2>1 DEF Acts, CallPlaces
  <2> QED
    BY <2>2, OlderAct DEF OlderKnown
<1>2. ASSUME pc[c] # "idle" PROVE job[c] # NoJob /\ job[c].kind # "none" /\ job[c].answer = "none"
  BY <1>0, <1>2 DEF CallInv, JobInv
<1>3. CASE \/ Inspect(c) \/ GiveUp(c) \/ RunFails(c, "inspect", "inspect")
           \/ RunFails(c, "apply", "apply") \/ RunMistaken(c, "inspect", "inspect", "inspected")
           \/ RunMistaken(c, "apply", "apply", "applied") \/ WriteRunnerPlan(c) \/ ClearResult(c)
           \/ Apply(c) \/ ApplyUnreported(c) \/ SaveResult(c) \/ SavePage(c) \/ SaveStatus(c)
  <2>1. /\ pc[c] # "idle" /\ Acts(c) /\ job'[c] = job[c]
        /\ pc'[c] \notin {"read", "plan", "summary", "record", "supersede"}
    BY <1>3
    DEF Acts, CallPlaces, Applying, Inspect, Run, GiveUp, RunFails, RunMistaken, WriteRunnerPlan, ClearResult,
        Apply, ApplyUnreported, SaveResult, SavePage, SaveStatus
  <2> QED
    BY <1>2, <2>1, OlderAct DEF OlderKnown
<1>4. CASE ReadState(c) \/ MakeProposal(c) \/ ReadResult(c)
  <2>1. PICK k : k = job'[c]
    OBVIOUS
  <2>2. /\ pc[c] # "idle" /\ Acts(c) /\ pc'[c] \in {"propose", "write", "list", "result"}
        /\ k.kind = job[c].kind
    BY <1>0, <1>4, <2>1
    DEF Acts, CallPlaces, Applying, Surveying, ReadState, MakeProposal, ReadResult, CallInv, JobInv
  <2> QED
    BY <1>0, <1>2, <2>1, <2>2, OlderAct DEF OlderKnown
<1>5. CASE SaveReport(c) \/ Dismiss(c)
  <2>1. PICK k : k = job'[c]
    OBVIOUS
  <2>2. /\ pc[c] # "idle" /\ Acts(c) /\ pc'[c] = "idle" /\ k.kind = job[c].kind
        /\ job[c].kind \in {"apply", "dismiss"}
    BY <1>0, <1>5, <2>1
    DEF Acts, CallPlaces, Applying, SaveReport, Dismiss, Return, CallInv, JobInv
  <2> QED
    BY <1>0, <1>2, <2>1, <2>2, OlderAct DEF OlderKnown
<1>6. CASE ListProposals(c)
  <2>1. PICK k : k = job'[c]
    OBVIOUS
  <2>2. /\ pc[c] = "list" /\ Acts(c) /\ pc'[c] = "read" /\ k.kind = job[c].kind
        /\ k.path = job[c].path /\ k.unread = Listed(job[c].path)
        /\ UNCHANGED <<home, records>>
    BY <1>0, <1>6, <2>1
    DEF Acts, CallPlaces, Surveying, ListProposals, CallInv, JobInv, storeVars, proposalVars
  <2> QED
    BY <1>0, <1>2, <2>1, <2>2, OlderAct DEF OlderKnown, OpenIn, Listed
<1>11. CASE ReadRecord(c)
  <2>0. PICK p \in job[c].unread :
          job' = [job EXCEPT ![c].unread = @ \ {p}, ![c].older = @ \cup ({p} \cap OpenIn(job[c].path))]
    BY <1>11 DEF ReadRecord
  <2>1. PICK k : k = job'[c]
    OBVIOUS
  <2>2. /\ pc[c] = "read" /\ Acts(c) /\ pc'[c] = "read" /\ k.kind = job[c].kind
        /\ k.path = job[c].path /\ k.pid = job[c].pid
        /\ k.unread = job[c].unread \ {p}
        /\ k.older = job[c].older \cup ({p} \cap OpenIn(job[c].path))
        /\ UNCHANGED <<home, records>>
    BY <1>0, <1>11, <2>0, <2>1
    DEF Acts, CallPlaces, Surveying, ReadRecord, CallInv, JobInv, storeVars, proposalVars
  <2>3. OpenIn(job[c].path)' = OpenIn(k.path)
    BY <2>1, <2>2 DEF OpenIn, Listed
  <2>4. OneCaller => OlderKnown(c)'
    BY <2>1, <2>2, <2>3 DEF OlderInv, OlderKnown
  <2> QED
    BY <1>0, <1>2, <2>1, <2>2, <2>4, OlderAct
<1>12. CASE RecordsRead(c)
  <2>1. /\ pc[c] = "read" /\ Acts(c) /\ job'[c] = job[c] /\ job[c].unread = {}
        /\ pc'[c] \in {"plan", "summary"} /\ UNCHANGED <<home, records>>
    BY <1>12 DEF Acts, CallPlaces, Surveying, RecordsRead, storeVars, proposalVars
  <2>2. OneCaller => OlderKnown(c)'
    BY <2>1 DEF OlderInv, OlderKnown, OpenIn, Listed
  <2> QED
    BY <1>2, <2>1, <2>2, OlderAct
<1>7. CASE SavePlan(c) \/ SaveSummary(c)
  <2>1. /\ pc[c] \in {"plan", "summary"} /\ Acts(c) /\ job'[c] = job[c]
        /\ pc'[c] \in {"summary", "record"} /\ UNCHANGED <<home, records>>
    BY <1>7 DEF Acts, CallPlaces, Surveying, SavePlan, SaveSummary, WritePlan, WriteSummary
  <2>2. OneCaller => OlderKnown(c)'
    BY <2>1 DEF OlderInv, OlderKnown, OpenIn, Listed
  <2> QED
    BY <1>2, <2>1, <2>2, OlderAct
<1>8. CASE SaveRecord(c)
  <2>1. /\ pc[c] = "record" /\ Acts(c) /\ job'[c] = job[c] /\ pc'[c] = "supersede"
    BY <1>8 DEF Acts, CallPlaces, Surveying, SaveRecord
  <2>2. home' = home /\ \A q \in Pids \ {job[c].pid} : records'[q] = records[q]
    BY <1>8 DEF SaveRecord, WriteRecord, StoreInv
  <2>3. job[c].pid \in Pids
    BY <1>0, <2>1, HomeDomain DEF CallInv, JobInv, Made, Surveying
  <2>4. \A q \in DOMAIN home : q < job[c].pid => records'[q] = records[q]
    BY <2>2, <2>3, HomeDomain DEF Pids
  <2>5. OneCaller => OlderKnown(c)'
    BY <2>1, <2>2, <2>4 DEF OlderInv, OlderKnown, OpenIn, Listed
  <2> QED
    BY <1>2, <2>1, <2>5, OlderAct
<1>9. CASE Supersede(c)
  <2>0. PICK p \in job[c].older : /\ WriteRecord(p, "superseded", job[c].pid)
                                  /\ job' = [job EXCEPT ![c].older = @ \ {p}]
    BY <1>9 DEF Supersede
  <2>1. PICK k : k = job'[c]
    OBVIOUS
  <2>2. /\ pc[c] = "supersede" /\ Acts(c) /\ pc'[c] = "supersede" /\ k.kind = job[c].kind
        /\ k.path = job[c].path /\ k.pid = job[c].pid /\ k.unread = job[c].unread /\ k.older = job[c].older \ {p}
    BY <1>0, <1>9, <2>0, <2>1 DEF Acts, CallPlaces, Surveying, Supersede, CallInv, JobInv
  <2>3. p \in Pids
    BY <1>0 DEF CallInv, JobInv, JobTypeOK
  <2>4. /\ home' = home /\ records'[p].status = "superseded"
        /\ \A q \in Pids \ {p} : records'[q] = records[q]
    BY <2>0, <2>3 DEF WriteRecord, Record, StoreInv
  <2>5. \A q \in DOMAIN home : q # p => records'[q] = records[q]
    BY <2>4, HomeDomain
  <2>6. \A q : q \in OpenIn(job[c].path)' => q \in OpenIn(job[c].path) /\ q # p
    <3> SUFFICES ASSUME NEW q, q \in DOMAIN home, home[q] = k.path,
                        records'[q] # NoRecord, records'[q].status = "open"
                 PROVE  q \in OpenIn(job[c].path) /\ q # p
      BY <2>1, <2>2, <2>4 DEF OpenIn, Listed
    <3> QED
      BY <2>2, <2>4, <2>5 DEF OpenIn, Listed
  <2>7. OneCaller => OlderKnown(c)'
    BY <2>1, <2>2, <2>6 DEF OlderInv, OlderKnown
  <2> QED
    BY <1>0, <1>2, <2>1, <2>2, <2>7, OlderAct
<1>10. CASE SurveyDone(c)
  <2>1. PICK k : k = job'[c]
    OBVIOUS
  <2>2. /\ pc[c] = "supersede" /\ Acts(c) /\ pc'[c] = "idle" /\ k.kind = job[c].kind
        /\ k.path = job[c].path /\ k.pid = job[c].pid /\ job[c].older = {}
        /\ UNCHANGED <<home, records>>
    BY <1>0, <1>10, <2>1
    DEF Acts, CallPlaces, SurveyDone, Return, CallInv, JobInv, storeVars, proposalVars
  <2>3. OpenIn(job[c].path) \subseteq Pids /\ job[c].pid \in Pids
    BY <1>0, <2>2, HomeDomain DEF OpenIn, Listed, CallInv, JobInv, Made, Surveying
  <2>4. OneCaller => \A q \in OpenIn(job[c].path) : ~(q < job[c].pid)
    BY <2>2 DEF OlderInv
  <2>5. \A q \in Pids : ~(q < job[c].pid) => q >= job[c].pid
    BY <2>3 DEF Pids
  <2>6. OpenIn(job[c].path)' = OpenIn(job[c].path)
    BY <2>1, <2>2 DEF OpenIn, Listed
  <2>7. OneCaller => OlderKnown(c)'
    BY <2>1, <2>2, <2>3, <2>4, <2>5, <2>6 DEF OlderKnown
  <2> QED
    BY <1>0, <1>2, <2>1, <2>2, <2>7, OlderAct
<1> QED
  BY <1>1, <1>3, <1>4, <1>5, <1>6, <1>7, <1>8, <1>9, <1>10, <1>11, <1>12
     DEF CallStep

LEMMA OlderStep ==
  ASSUME IInv, TidyStep
  PROVE  OlderInv'
<1>1. CASE LateTidyRun \/ OutsideChange
  BY <1>1, OlderStill DEF LateTidyRun, OutsideChange, storeVars, proposalVars, callVars
<1> QED
  BY <1>1, OlderCall DEF TidyStep

-------------------------------------------------------------------------------
(***************************************************************************)
(* The invariant, for Project Tidy by itself and beside whatever leaves    *)
(* its own variables alone.                                                *)
(***************************************************************************)

LEMMA InvStart == ASSUME NEW i \in Instances, TidyStart(i) PROVE IInv
<1> USE DEF TidyStart
<1>1. StoreInv
  BY StoreInit0
<1>2. \A p \in Pids : records[p].status = "none"
  BY DEF StoreInit, NoRecord, Record
<1>3. DeskInv
  BY InstancesAssumption DEF DeskInv
<1>4. FilesInv /\ OnlyWhatWasAsked /\ ReportsAreTrue
  BY DEF FilesInv, OnlyWhatWasAsked, ReportsAreTrue, StoreInit
<1>5. CallsInv
  <2>1. \A c \in Callers : pc[c] = "idle" /\ job[c] = NoJob
    OBVIOUS
  <2>2. JobInv(NoJob, "idle")
    BY DEF JobInv, JobTypeOK, NoJob, Job, Surveying, Applying
  <2>3. SurveyInv(NoJob, "idle")
    BY DEF SurveyInv, Surveying
  <2>4. ApplyInv(NoJob, "idle")
    BY DEF ApplyInv, NoJob, Job
  <2> QED
    BY <2>1, <2>2, <2>3, <2>4 DEF CallsInv, CallInv, CallPlaces
<1>6. DistinctInv
  BY DEF DistinctInv, Surveying
<1>7. OlderInv
  BY DEF OlderInv, NoJob, Job
<1> QED
  BY <1>1, <1>3, <1>4, <1>5, <1>6, <1>7 DEF IInv

LEMMA InvStep == ASSUME IInv, [TidyStep]_ownVars PROVE IInv'
<1>1. CASE TidyStep
  BY <1>1, CoreStep, OlderStep DEF IInv, CoreInv
<1>2. CASE UNCHANGED ownVars
  <2> USE <1>2 DEF ownVars, openVars, fileVars, callVars
  <2>1. Grows /\ StoreInv' /\ OnlyWhatWasAsked'
    BY Still
  <2>2. CallsInv' /\ FilesInv' /\ ReportsAreTrue' /\ OlderInv'
    BY <2>1, CallsKept, FilesKept, ReportsKept, OlderStill DEF storeVars, proposalVars, reportVars
  <2>3. DeskInv' /\ DistinctInv'
    BY DEF IInv, DeskInv, DistinctInv
  <2> QED
    BY <2>1, <2>2, <2>3 DEF IInv
<1> QED
  BY <1>1, <1>2

\* What the runs check follows.
LEMMA InvImplies ==
  ASSUME IInv
  PROVE  /\ TidyTypeOK
         /\ OnlyWhatWasAsked
         /\ ReportsAreTrue
         /\ RecordsLoad
         /\ AppliedHasResult
         /\ SurveySettlesOlder
<1> USE DEF IInv
<1>1. TidyTypeOK
  <2>1. plans \in [Pids -> SUBSET UNION {plans[p] : p \in Pids}]
    <3>1. \A p \in Pids : plans[p] \in SUBSET UNION {plans[q] : q \in Pids}
      OBVIOUS
    <3> QED
      BY <3>1 DEF StoreInv
  <2>2. \A c \in Callers : JobTypeOK(job[c])
    BY DEF CallsInv, CallInv, JobInv
  <2> QED
    BY <2>1, <2>2 DEF TidyTypeOK, StoreInv, DeskInv
<1>2. RecordsLoad
  <2>1. \A p \in Pids : records[p] # NoRecord => records[p].status # "none"
    BY DEF StoreInv
  <2>2. \A p \in Pids : records[p].status \notin {"none", "already_tidy"} =>
          records[p].status \in Decided
    BY DEF StoreInv, Statuses, Decided
  <2> QED
    BY <2>1, <2>2, HomeDomain DEF StoreInv, RecordsLoad, Loads
<1>3. AppliedHasResult
  BY HomeDomain DEF StoreInv, AppliedHasResult, Closed
<1>4. SurveySettlesOlder
  BY DEF OlderInv, SurveySettlesOlder
<1> QED
  BY <1>1, <1>2, <1>3, <1>4

THEOREM TidyInductive == TidySpec => []IInv
<1>1. TidyInit => IInv
  BY InvStart DEF TidyInit
<1>2. IInv /\ [TidyNext]_tidyVars => IInv'
  BY InvStep DEF TidyNext, tidyVars
<1> QED
  BY <1>1, <1>2, PTL DEF TidySpec

-------------------------------------------------------------------------------
(***************************************************************************)
(* Each step is one of the abstract specification, or none.                *)
(***************************************************************************)

Standing == [p \in Pids |-> records[p].status]

LEMMA PromiseStutter ==
  ASSUME UNCHANGED <<home, records, asked, performed>>
  PROVE  UNCHANGED Promise!vars
BY DEF Promise!vars

LEMMA StandingWritten ==
  ASSUME StoreInv, NEW p \in Pids, NEW s, NEW by, WriteRecord(p, s, by)
  PROVE  Standing' = [Standing EXCEPT ![p] = s]
<1>1. \A q \in Pids : records'[q].status = IF q = p THEN s ELSE records[q].status
  BY DEF StoreInv, WriteRecord, Record
<1> QED
  BY <1>1 DEF Standing

\* A record that is written over settles a proposal.
LEMMA PromiseSettle ==
  ASSUME IInv, NEW p \in Pids, NEW s \in Settled, NEW by, WriteRecord(p, s, by),
         UNCHANGED <<asked, performed>>, records[p].status \in Decided,
         s = "applied" => \E m \in performed : m[2] = p,
         s = "superseded" =>
           \E q \in DOMAIN home : q > p /\ home[q] = home[p] /\ records[q].status # "none"
  PROVE  Promise!Next
<1>1. Standing' = [Standing EXCEPT ![p] = s]
  BY StandingWritten DEF IInv
<1>2. s = "superseded" => Promise!Newer(p) # {}
  BY HomeDomain DEF IInv, Promise!Newer
<1>3. Promise!Settled = Settled /\ Promise!Pids = Pids
  BY DEF Promise!Settled, Settled, Promise!Pids, Pids
<1>4. Promise!Settle(p)
  BY <1>1, <1>2, <1>3 DEF Promise!Settle, Standing, Decided, WriteRecord
<1> QED
  BY <1>3, <1>4 DEF Promise!Next

LEMMA PromiseMake ==
  ASSUME IInv, NEW reported \in BOOLEAN, Applier(reported), UNCHANGED <<storeVars, asked, open>>
  PROVE  Promise!Next
<1>1. OnlyWhatWasAsked' /\ performed \subseteq performed'
  BY ApplierIsTrue DEF Grows
<1>2. Promise!Make
  BY <1>1 DEF Promise!Make, OnlyWhatWasAsked, storeVars, proposalVars
<1> QED
  BY <1>2 DEF Promise!Next

LEMMA PromiseCall ==
  ASSUME IInv, NEW c \in Callers, CallStep(c)
  PROVE  [Promise!Next]_(Promise!vars)
<1> USE DEF IInv, CallsInv, Goto, Stay, hostVars, openVars, fileVars
<1>0. CallInv(c) /\ DOMAIN home \subseteq Pids
  BY HomeDomain
<1>1. CASE \/ \E path \in Paths : StartSurvey(c, path)
           \/ \E path \in Paths, p \in Pids : StartDismissal(c, path, p)
           \/ Inspect(c) \/ RunFails(c, "inspect", "inspect") \/ RunFails(c, "apply", "apply")
           \/ RunMistaken(c, "inspect", "inspect", "inspected")
           \/ RunMistaken(c, "apply", "apply", "applied")
           \/ ReadState(c) \/ ListProposals(c) \/ ReadRecord(c) \/ RecordsRead(c) \/ SavePlan(c) \/ SaveSummary(c) \/ SurveyDone(c)
           \/ WriteRunnerPlan(c) \/ ClearResult(c) \/ ReadResult(c)
           \/ SaveResult(c) \/ SavePage(c) \/ SaveReport(c) \/ GiveUp(c)
  <2>1. UNCHANGED <<home, records, asked, performed>>
    BY <1>1
    DEF StartSurvey, StartDismissal, Start, Inspect, Run, Executes, Inspector, RunFails,
        RunMistaken, ReadState, ListProposals, ReadRecord, RecordsRead, SavePlan, WritePlan, SaveSummary, WriteSummary, SurveyDone, Return,
        WriteRunnerPlan, ClearResult, ReadResult, SaveResult, WriteResult, SavePage,
        WritePage, SaveReport, WriteReport, GiveUp, storeVars, proposalVars
  <2> QED BY <2>1, PromiseStutter
<1>2. ASSUME NEW path \in Paths, NEW p \in Pids, NEW items, StartApply(c, path, p, items)
      PROVE  Promise!Next
  <2>1. /\ asked' = asked \cup ({path} \X {p} \X items)
        /\ records[p].status = "open" /\ home[p] = path
        /\ UNCHANGED <<home, records, performed>>
    BY <1>2 DEF StartApply, ReadOpen, OpenIn, Listed, storeVars, proposalVars
  <2>2. \A a \in asked' \ asked : a[1] = path /\ a[2] = p
    BY <2>1
  <2>3. Promise!Ask
    BY <2>1, <2>2 DEF Promise!Ask
  <2> QED BY <2>3 DEF Promise!Next
<1>3. CASE MakeProposal(c)
  <2>1. /\ DOMAIN home \subseteq DOMAIN home' /\ \A p \in DOMAIN home : home'[p] = home[p]
        /\ UNCHANGED <<records, asked, performed>>
    <3>1. job[c].path \in Paths
      BY <1>0, <1>3 DEF MakeProposal, CallInv, JobInv
    <3> QED BY <1>3, <3>1 DEF MakeProposal, StoreInv
  <2>2. Promise!Create
    BY <2>1 DEF Promise!Create
  <2> QED BY <2>2 DEF Promise!Next
<1>4. CASE SaveRecord(c)
  <2>0. PICK p, s : p = job[c].pid /\ s = IF job[c].items = {} THEN "already_tidy" ELSE "open"
    OBVIOUS
  <2>1. p \in Pids /\ records[p].status = "none" /\ s \in {"open", "already_tidy"}
    BY <1>0, <1>4, <2>0 DEF SaveRecord, CallInv, JobInv, SurveyInv, Made, Surveying
  <2>2. WriteRecord(p, s, 0)
    BY <1>4, <2>0 DEF SaveRecord
  <2>3. Standing' = [Standing EXCEPT ![p] = s]
    BY <2>1, <2>2, StandingWritten
  <2>4. Promise!Publish(p)
    BY <1>4, <2>1, <2>2, <2>3 DEF Promise!Publish, Standing, WriteRecord, SaveRecord
  <2> QED BY <2>1, <2>4 DEF Promise!Next, Promise!Pids, Pids
<1>5. CASE Supersede(c)
  <2>1. PICK p \in job[c].older : WriteRecord(p, "superseded", job[c].pid)
    BY <1>5 DEF Supersede
  <2>2. /\ p \in Pids /\ records[p].status \in Decided /\ p < job[c].pid
        /\ job[c].pid \in DOMAIN home /\ home[job[c].pid] = home[p]
        /\ records[job[c].pid].status # "none"
    BY <1>0, <1>5 DEF Supersede, CallInv, JobInv, JobTypeOK, SurveyInv, Made, Surveying
  <2>3. job[c].pid > p
    BY <1>0, <2>2 DEF Pids
  <2> QED
    BY <1>5, <2>1, <2>2, <2>3, PromiseSettle DEF Supersede, Settled
<1>6. CASE SaveStatus(c)
  <2>0. PICK p, s : p = job[c].pid /\ s = StatusOf(job[c].result)
    OBVIOUS
  <2>1. /\ p \in Pids /\ records[p].status \in Decided /\ TrueResult(p, job[c].result)
    BY <1>0, <1>6, <2>0 DEF SaveStatus, CallInv, JobInv, ApplyInv, Made, Applying
  <2>2. s \in Settled /\ s # "superseded" /\ (s = "applied" => AppliedIn(job[c].result) # {})
    BY <2>0, StatusIsClosed DEF Closed, Settled
  <2>3. s = "applied" => \E m \in performed : m[2] = p
    <3> SUFFICES ASSUME s = "applied" PROVE \E m \in performed : m[2] = p
      OBVIOUS
    <3>1. PICK i \in AppliedIn(job[c].result) : <<home[p], p, i>> \in performed
      BY <2>1, <2>2 DEF TrueResult
    <3> QED BY <3>1
  <2> QED
    BY <1>6, <2>0, <2>1, <2>2, <2>3, PromiseSettle DEF SaveStatus
<1>7. CASE Dismiss(c)
  <2>1. job[c].pid \in Pids /\ records[job[c].pid].status \in Decided
    BY <1>0, <1>7 DEF Dismiss, Return, CallInv, JobInv, ApplyInv, Made
  <2> QED
    BY <1>7, <2>1, PromiseSettle DEF Dismiss, Return, Settled
<1>8. CASE Apply(c) \/ ApplyUnreported(c)
  BY <1>8, PromiseMake DEF Apply, Run, Executes, ApplyUnreported
<1> QED
  BY <1>1, <1>2, <1>3, <1>4, <1>5, <1>6, <1>7, <1>8 DEF CallStep, Begin

LEMMA PromiseStep ==
  ASSUME IInv, [TidyStep]_ownVars
  PROVE  [Promise!Next]_(Promise!vars)
<1>1. CASE LateTidyRun
  <2>1. CASE Inspector
    BY <1>1, <2>1, PromiseStutter DEF LateTidyRun, Inspector, storeVars, proposalVars, callVars
  <2>2. CASE Applier(TRUE)
    BY <1>1, <2>2, PromiseMake DEF LateTidyRun, callVars
  <2> QED BY <1>1, <2>1, <2>2 DEF LateTidyRun, Executes
<1>2. CASE OutsideChange
  BY <1>2, PromiseStutter DEF OutsideChange, storeVars, proposalVars
<1>3. CASE UNCHANGED ownVars
  BY <1>3, PromiseStutter DEF ownVars, storeVars, proposalVars, openVars, callVars
<1> QED
  BY <1>1, <1>2, <1>3, PromiseCall DEF TidyStep

LEMMA PromiseStart ==
  ASSUME NEW i \in Instances, TidyStart(i)
  PROVE  Promise!Init
BY DEF TidyStart, StoreInit, Promise!Init, NoRecord, Record, Promise!Pids, Pids

\* The calls of Project Tidy, with their files, the runs that come late and the
\* calls that stop anywhere, implement what Project Tidy promises.
THEOREM TidyImplementsPromise == TidySpec => KeepsTidyPromise
<1>1. TidyInit => Promise!Init
  BY PromiseStart DEF TidyInit
<1>2. IInv /\ [TidyNext]_tidyVars => [Promise!Next]_(Promise!vars)
  BY PromiseStep DEF TidyNext, tidyVars
<1> QED
  BY <1>1, <1>2, TidyInductive, PTL DEF TidySpec, KeepsTidyPromise, Promise!Spec
===============================================================================
