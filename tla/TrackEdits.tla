------------------------------ MODULE TrackEdits ------------------------------
(***************************************************************************)
(* The guarded track edits (edits.go) and the bulk plans made of them      *)
(* (bulk.go): what the generated Lua does to the tracks of a project, and  *)
(* the inverse the service derives from the receipt.                       *)
(*                                                                         *)
(* REAPER knows a track by its GUID ("id"), the plugin only by its         *)
(* position and name.  Mute and arm are left out: they are what "solo"     *)
(* would be without its third value.                                       *)
(***************************************************************************)
EXTENDS SequencesExt

CONSTANTS
  Names,     \* track names
  NoName,    \* the blank name of a track nobody named
  Flag       \* 0x1000000: marks a custom colour in I_CUSTOMCOLOR

ASSUME EditsAssumption ==
  /\ NoName \in Names
  /\ Flag \in Nat \ {0}

CustomColors == Flag .. 2 * Flag - 1
Colors == {0} \cup CustomColors

\* I_SOLO: 0 not soloed, 1 soloed, 2 soloed in place.
Solos == 0 .. 2

Track(ids) == [id : ids, name : Names, color : Colors, solo : Solos, parent : BOOLEAN]

Edit == [kind : {"rename", "color", "solo", "move"}, index : Nat, expected : Names,
         newName : Names, newColor : Colors, newSolo : {0, 1}, newIndex : Nat]

BlankEdit(kind, index, expected) ==
  [kind |-> kind, index |-> index, expected |-> expected,
   newName |-> NoName, newColor |-> 0, newSolo |-> 0, newIndex |-> 0]

RenameEdit(index, expected, name) ==
  [BlankEdit("rename", index, expected) EXCEPT !.newName = name]

ColorEdit(index, expected, color) ==
  [BlankEdit("color", index, expected) EXCEPT !.newColor = color]

SoloEdit(index, expected, solo) ==
  [BlankEdit("solo", index, expected) EXCEPT !.newSolo = solo]

MoveEdit(index, expected, to) ==
  [BlankEdit("move", index, expected) EXCEPT !.newIndex = to]

Valid(e) ==
  /\ e.index >= 1
  /\ e.kind = "rename" => e.newName # NoName
  /\ e.kind = "color"  => e.newColor \in Colors
  /\ e.kind = "move"   => e.newIndex >= 1

-------------------------------------------------------------------------------
(***************************************************************************)
(* The generated Lua.                                                      *)
(***************************************************************************)

\* The track at the index still has the name the edit expects there.
Matches(p, e) == e.index \in DOMAIN p /\ p[e.index].name = e.expected

\* Mutant: only the check before the run asks for a folder parent.
GuardNameOnly(p, e) == IF Matches(p, e) THEN "none" ELSE "guard_failed"

Refusal(p, e) ==
  IF ~Matches(p, e) THEN "guard_failed"
  ELSE IF e.kind = "move" /\ p[e.index].parent THEN "folder_parent"
  ELSE "none"

\* Mutant: the same arithmetic in both directions.
TargetLessOne(e) == e.newIndex - 1

\* The 0-based position ReorderSelectedTracks is asked to move the track before.
BeforeIndex(e) == IF e.newIndex > e.index THEN e.newIndex ELSE e.newIndex - 1

\* ReorderSelectedTracks itself: track i goes before the track that is at
\* before+1, or to the end.
Reordered(p, i, before) ==
  LET to == IF before < i THEN before + 1
            ELSE IF before > Len(p) THEN Len(p) ELSE before
  IN  InsertAt(RemoveAt(p, i), to, p[i])

\* applyLua: the mutation alone, at the position, whatever is there by now.
Applied(p, e) ==
  CASE e.kind = "rename" -> [p EXCEPT ![e.index].name  = e.newName]
    [] e.kind = "color"  -> [p EXCEPT ![e.index].color = e.newColor]
    [] e.kind = "solo"   -> [p EXCEPT ![e.index].solo  = e.newSolo]
    [] e.kind = "move"   -> Reordered(p, e.index, BeforeIndex(e))

\* What the receipt can say of the track before the edit: REAPER reports a
\* custom colour with or without its flag.
Priors(p, e) ==
  {[p[e.index] EXCEPT !.color = c] :
     c \in {p[e.index].color} \cup (IF p[e.index].color >= Flag
                                     THEN {p[e.index].color - Flag} ELSE {})}

-------------------------------------------------------------------------------

\* Mutant: the inverse of a move starts where the move itself started.
InverseFromSource(e, prior) ==
  CASE e.kind = "rename" -> RenameEdit(e.index, e.newName, prior.name)
    [] e.kind = "color"  -> ColorEdit(e.index, e.expected, prior.color)
    [] e.kind = "solo"   -> SoloEdit(e.index, e.expected, prior.solo)
    [] e.kind = "move"   -> MoveEdit(e.index, e.expected, e.index)

InverseOf(e, prior) ==
  CASE e.kind = "rename" -> RenameEdit(e.index, e.newName, prior.name)
    [] e.kind = "color"  ->
         ColorEdit(e.index, e.expected,
                   IF prior.color \in 1 .. Flag - 1 THEN prior.color + Flag
                                                    ELSE prior.color)
    [] e.kind = "solo"   ->
         SoloEdit(e.index, e.expected, IF prior.solo = 0 THEN 0 ELSE 1)
    [] e.kind = "move"   -> MoveEdit(e.newIndex, e.expected, e.index)

\* ValidateTrackMove, against a state the service has just read.
MoveAllowed(p, e) ==
  /\ e.newIndex <= Len(p)
  /\ Matches(p, e)
  /\ ~p[e.index].parent

-------------------------------------------------------------------------------
(***************************************************************************)
(* Bulk plans: sequences of edits, in one script.                          *)
(***************************************************************************)

IsMove(e) == e.kind = "move"

\* Mutant: the edits in the order they were proposed.
AsProposed(edits) == [k \in DOMAIN edits |-> <<edits[k]>>]

\* The two loops over the plan: what each pass appends, the edits that move nothing
\* in the first loop, the moves in the second.
Ordered(edits) ==
  [k \in 1 .. Len(edits) |-> IF IsMove(edits[k]) THEN <<>> ELSE <<edits[k]>>]
    \o [k \in 1 .. Len(edits) |-> IF IsMove(edits[k]) THEN <<edits[k]>> ELSE <<>>]

\* Phase 1: every guard, on the project as it is before the first change.
BulkRefusal(p, edits) ==
  LET refusals == {Refusal(p, edits[k]) : k \in DOMAIN edits}
  IN  IF "guard_failed" \in refusals THEN "guard_failed"
      ELSE IF "folder_parent" \in refusals THEN "folder_parent"
      ELSE "none"

\* Phase 2: every mutation, at the position its edit names.
BulkApplied(p, edits) ==
  LET passes == Ordered(edits)
      after[k \in 0 .. Len(passes)] ==
        IF k = 0 THEN p
        ELSE IF passes[k] = <<>> THEN after[k - 1]
        ELSE Applied(after[k - 1], passes[k][1])
  IN  after[Len(passes)]
===============================================================================
