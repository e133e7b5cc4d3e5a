------------------------------- MODULE TidyPlans -------------------------------
(***************************************************************************)
(* What Project Tidy proposes of a project and what REAPER does with it    *)
(* (tidy_survey.go, tidy.go, tidy_applier.lua), as functions on projects.  *)
(*                                                                         *)
(* A project has tracks, by their GUID, and markers and regions, by their  *)
(* typed number.  A plan is a set of items: its order is that of the       *)
(* survey, every selection keeps it, and since no two items have the same  *)
(* target it makes no difference to the project.                           *)
(***************************************************************************)
EXTENDS Naturals, FiniteSets

CONSTANTS
  Roles,       \* the track roles of conventions.md
  BusFx,       \* the role that gives way to another one
  Sections,    \* the section names of conventions.md, by their letters
  Styles,      \* ways to write a section name and its number
  OwnStyle,    \* the one conventions.md asks for
  NoColor,     \* no custom colour
  NoName,      \* the empty name
  MaxItems     \* 64

ASSUME PlansAssumption ==
  /\ BusFx \in Roles
  /\ OwnStyle \in Styles
  /\ NoColor \notin Roles
  /\ NoName = [section |-> NoName.section, number |-> NoName.number, style |-> NoName.style]
  /\ NoName.section \notin Sections
  /\ MaxItems \in Nat \ {0}

\* A role stands for its colour too.
TrackColors == Roles \cup {NoColor}

\* "section" is any text; it is one of Sections when it spells that section.
\* The digits at the end are the number.
SectionName(section, number, style) ==
  [section |-> section, number |-> number, style |-> style]

Track(words, color) == [words |-> words, color |-> color]

Key(isRegion, id) == [region |-> isRegion, id |-> id]

Marker(pos, name) == [pos |-> pos, name |-> name]

IsName(n) == n = SectionName(n.section, n.number, n.style)

\* What REAPER may have in a project.
AreTracks(ts) ==
  /\ ts = [g \in DOMAIN ts |-> ts[g]]
  /\ \A g \in DOMAIN ts :
       ts[g] = Track(ts[g].words, ts[g].color) /\ IsFiniteSet(ts[g].words)

AreMarkers(ms) ==
  /\ ms = [k \in DOMAIN ms |-> ms[k]]
  /\ IsFiniteSet(DOMAIN ms)
  /\ DOMAIN ms \subseteq [region : BOOLEAN, id : Nat]
  /\ \A k \in DOMAIN ms : ms[k] = Marker(ms[k].pos, ms[k].name) /\ IsName(ms[k].name)

IsProject(p) ==
  /\ p = [tracks |-> p.tracks, markers |-> p.markers]
  /\ AreTracks(p.tracks)
  /\ AreMarkers(p.markers)

-------------------------------------------------------------------------------
(***************************************************************************)
(* The survey.                                                             *)
(***************************************************************************)

\* The role of a track whose name holds matching words of these roles: the only
\* one, or the other one of two when one of them is the bus.
InferredRole(words) ==
  IF Cardinality(words) = 1 THEN words
  ELSE IF Cardinality(words) = 2 /\ BusFx \in words THEN words \ {BusFx}
  ELSE {}

Canonical(name) == [name EXCEPT !.style = OwnStyle]

\* Mutant: every section name counts as changed.
KnownName(name) == name # NoName /\ name.section \in Sections

NameChanges(name) ==
  /\ name # NoName
  /\ name.section \in Sections
  /\ Canonical(name) # name

\* The markers, never regions, at the exact position of marker k.
Beside(ms, k) == {l \in DOMAIN ms : ~l.region /\ ms[l].pos = ms[k].pos}

Named(ms, keys) == {l \in keys : ms[l].name # NoName}

\* Mutant: every other marker at the place.
TwinsByPlace(ms, k) == Beside(ms, k)

\* Which of the markers at its place k is a duplicate of: those of the same name;
\* for an unnamed one the named ones if they agree, or the unnamed if there are
\* no others.
Twins(ms, k) ==
  LET here  == Beside(ms, k)
      named == Named(ms, here)
  IN  IF ms[k].name # NoName THEN {l \in here : ms[l].name = ms[k].name}
      ELSE IF Cardinality({ms[l].name : l \in named}) = 1 THEN named
      ELSE IF named = {} THEN here
      ELSE {k}

First(keys) == CHOOSE k \in keys : \A l \in keys : k.id <= l.id

Survivor(ms, k) == First(Twins(ms, k))

IsDuplicate(ms, k) == ~k.region /\ Survivor(ms, k) # k

ColorItem(g, color) == [verb |-> "color", track |-> g, color |-> color]

RenameItem(k, old, new) ==
  [verb |-> "rename", marker |-> k, name |-> old, newName |-> new]

DeleteItem(k, m, survivor) ==
  [verb |-> "delete", marker |-> k, name |-> m.name, pos |-> m.pos,
   survivor |-> survivor]

ColorItems(p) ==
  UNION {{ColorItem(g, r) : r \in InferredRole(p.tracks[g].words) \ {p.tracks[g].color}}
         : g \in DOMAIN p.tracks}

RenameItems(ms) ==
  {RenameItem(k, ms[k].name, Canonical(ms[k].name)) :
     k \in {l \in DOMAIN ms : NameChanges(ms[l].name) /\ ~IsDuplicate(ms, l)}}

DeleteItems(ms) ==
  {DeleteItem(k, ms[k], Survivor(ms, k)) : k \in {l \in DOMAIN ms : IsDuplicate(ms, l)}}

Survey(p) == ColorItems(p) \cup RenameItems(p.markers) \cup DeleteItems(p.markers)

Target(i) == IF i.verb = "color" THEN <<"track", i.track>> ELSE <<"marker", i.marker>>

\* TidyEditPlan.Validate: a survey that finds more than MaxItems changes fails.
ValidPlan(items) ==
  /\ Cardinality(items) \in 1 .. MaxItems
  /\ \A i, j \in items : Target(i) = Target(j) => i = j
  /\ \A i \in items :
       /\ i.verb = "rename" => i.newName # NoName /\ i.newName # i.name
       /\ i.verb = "delete" => i.survivor # i.marker /\ ~i.marker.region

-------------------------------------------------------------------------------
(***************************************************************************)
(* The applier: everything is compared with its snapshot first, and only   *)
(* then changed, item by item, as far as REAPER accepts it.                *)
(***************************************************************************)

\* Mutant: the survivor is taken to be there still.
TargetUnchanged(p, i) ==
  LET ms == p.markers IN
  CASE i.verb = "color"  -> i.track \in DOMAIN p.tracks
    [] i.verb = "rename" -> i.marker \in DOMAIN ms /\ ms[i.marker].name = i.name
    [] i.verb = "delete" -> /\ i.marker \in DOMAIN ms
                            /\ ms[i.marker] = Marker(i.pos, i.name)

StillFits(p, i) ==
  LET ms == p.markers IN
  CASE i.verb = "color"  -> i.track \in DOMAIN p.tracks
    [] i.verb = "rename" -> i.marker \in DOMAIN ms /\ ms[i.marker].name = i.name
    [] i.verb = "delete" ->
         /\ i.marker \in DOMAIN ms
         /\ ms[i.marker] = Marker(i.pos, i.name)
         /\ i.survivor \in DOMAIN ms
         /\ ms[i.survivor].pos = i.pos
         /\ ms[i.survivor].name \in {i.name, NoName} \/ i.name = NoName

Prepared(p, items) == {i \in items : StillFits(p, i)}

\* The project after the changes of "done", whose targets are distinct.
Changed(p, done) ==
  LET gone == {i.marker : i \in {j \in done : j.verb = "delete"}}
      new(k) == {i \in done : i.verb = "rename" /\ i.marker = k}
      painted(g) == {i \in done : i.verb = "color" /\ i.track = g}
  IN  [tracks  |-> [g \in DOMAIN p.tracks |->
                      IF painted(g) = {} THEN p.tracks[g]
                      ELSE [p.tracks[g] EXCEPT !.color = (CHOOSE i \in painted(g) : TRUE).color]],
       markers |-> [k \in DOMAIN p.markers \ gone |->
                      IF new(k) = {} THEN p.markers[k]
                      ELSE [p.markers[k] EXCEPT !.name = (CHOOSE i \in new(k) : TRUE).newName]]]

\* The status of every item, of which REAPER refused "failed".
ItemStatus(p, items, failed) ==
  [i \in items |-> IF ~StillFits(p, i) THEN "skipped"
                   ELSE IF i \in failed THEN "failed" ELSE "applied"]

AppliedIn(result) == {i \in DOMAIN result : result[i] = "applied"}

\* Mutant: the outcome of the report as the status.
OutcomeOf(result) ==
  IF AppliedIn(result) = DOMAIN result THEN "applied"
  ELSE IF AppliedIn(result) # {} THEN "partial"
  ELSE "apply_failed"

\* tidyReportOutcome, as the status it gives the proposal: "applied" for a partial
\* success too.
StatusOf(result) ==
  IF AppliedIn(result) # {} THEN "applied"
  ELSE IF \A i \in DOMAIN result : result[i] = "skipped" THEN "apply_skipped"
  ELSE "apply_failed"

-------------------------------------------------------------------------------

\* Everything the survey proposes of p, done.
Tidied(p) == Changed(p, Survey(p))

NamesIn(p) ==
  {<<p.markers[k].pos, Canonical(p.markers[k].name)>> : k \in Named(p.markers, DOMAIN p.markers)}

\* No name is lost at any place, but for the way it is written
\* (findExactDuplicateMarkers, canonicalTidySectionName).
KeepsNames(p) == NamesIn(Tidied(p)) = NamesIn(p)

\* Following the proposals ends, and soon: names made equal by the first round may
\* leave duplicates for the second, and after the second nothing is left to
\* propose (GenerateTidySurvey, findExactDuplicateMarkers).
TwoRoundsTidy(p) == Survey(Tidied(Tidied(p))) = {}
===============================================================================
