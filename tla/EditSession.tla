------------------------------ MODULE EditSession ------------------------------
(***************************************************************************)
(* RunTrackEdit, UndoTrackEdit and ApplyPlan (service.go) on one open      *)
(* project, called concurrently from one workspace, while the user and     *)
(* other workspaces change the project in between.                         *)
(*                                                                         *)
(* A run of the Lua runner is one step here: the scripts never interleave  *)
(* on REAPER's main thread, and RunnerExchange shows that a call which met *)
(* an exchange at rest runs its own script at most once and gets its own   *)
(* receipt.  A failed run may have happened or not.  Service.mu protects   *)
(* the undo slot alone, so the slot is filled some time after the run.     *)
(***************************************************************************)
EXTENDS TrackEdits

CONSTANTS
  Callers,      \* concurrent tool calls
  Ids,          \* the GUIDs of tracks
  Projects,     \* projects the session may start from
  NewNames,     \* the names, colours and solo states edits ask for
  NewColors,
  NewSolos,
  PlanEdits,    \* how many edits a plan has
  MaxEdits,     \* bound: edits, or one plan
  MaxUndos,     \* bound: undos
  MaxChanges    \* bound: changes from outside in all

\* No two tracks of a project have the same GUID.
Distinct(p) == \A i, j \in DOMAIN p : p[i].id = p[j].id => i = j

ASSUME SessionAssumption ==
  /\ \A p \in Projects : p \in Seq(Track(Ids)) /\ Distinct(p)
  /\ NewNames \subseteq Names /\ NewColors \subseteq Colors /\ NewSolos \subseteq {0, 1}
  /\ PlanEdits \in Nat \ {0}
  /\ MaxEdits \in Nat
  /\ MaxUndos \in Nat
  /\ MaxChanges \in Nat

NoSlot == [number |-> 0]

VARIABLES
  project,    \* the tracks of the open project
  changes,    \* changes from outside so far
  edits,      \* edits so far: they are numbered in this order
  undos,      \* undos so far
  pc,         \* where each call stands
  job,        \* its edit, its inverse or its plan, as a sequence of edits
  number,     \* the number of the edit it makes or takes back
  mark,       \* the project around the step that made the edit
  prior,      \* what its receipt said of the track
  slot,       \* undos[workspace]: the inverse, with its edit's number and mark
  undone      \* history: how often each edit has been taken back

callVars == <<pc, job, number, mark, prior>>
vars == <<project, changes, edits, undos, callVars, slot, undone>>

Marks == [before : Seq(Track(Ids)), after : Seq(Track(Ids))]

NoMark == [before |-> <<>>, after |-> <<>>]

SessionTypeOK ==
  /\ project \in Seq(Track(Ids))
  /\ changes \in 0 .. MaxChanges
  /\ edits \in 0 .. MaxEdits
  /\ undos \in 0 .. MaxUndos
  /\ pc \in [Callers -> {"idle", "preflight", "run", "store", "undo", "plan"}]
  /\ job \in [Callers -> Seq(Edit)]
  /\ number \in [Callers -> 0 .. MaxEdits]
  /\ mark \in [Callers -> Marks]
  /\ \A c \in Callers : pc[c] = "store" => prior[c].name \in Names
  /\ slot # NoSlot => /\ slot.number \in 1 .. edits
                      /\ slot.edit \in Edit
                      /\ slot.mark \in Marks
  /\ undone \in [1 .. MaxEdits -> Nat]

SessionInit ==
  /\ project \in Projects
  /\ changes = 0
  /\ edits = 0
  /\ undos = 0
  /\ pc = [c \in Callers |-> "idle"]
  /\ job = [c \in Callers |-> <<>>]
  /\ number = [c \in Callers |-> 0]
  /\ mark = [c \in Callers |-> NoMark]
  /\ prior = [c \in Callers |-> <<>>]
  /\ slot = NoSlot
  /\ undone = [n \in 1 .. MaxEdits |-> 0]

-------------------------------------------------------------------------------

\* The edits a user or an agent who has just read the project may ask for.
EditsAt(p) ==
  UNION {LET name == p[i].name IN
           {RenameEdit(i, name, n) : n \in NewNames}
             \cup {ColorEdit(i, name, k) : k \in NewColors}
             \cup {SoloEdit(i, name, s) : s \in NewSolos}
             \cup {MoveEdit(i, name, j) : j \in DOMAIN p}
         : i \in DOMAIN p}

Inputs == {e \in EditsAt(project) : Valid(e)}

Begin(c, step, script) ==
  /\ pc[c] = "idle"
  /\ pc' = [pc EXCEPT ![c] = step]
  /\ job' = [job EXCEPT ![c] = script]

\* The call returns; what it held is gone.
Finish(c) ==
  /\ pc' = [pc EXCEPT ![c] = "idle"]
  /\ job' = [job EXCEPT ![c] = <<>>]
  /\ number' = [number EXCEPT ![c] = 0]
  /\ mark' = [mark EXCEPT ![c] = NoMark]
  /\ prior' = [prior EXCEPT ![c] = <<>>]

StartEdit(c) ==
  /\ edits < MaxEdits
  /\ edits' = edits + 1
  /\ \E e \in Inputs : Begin(c, IF IsMove(e) THEN "preflight" ELSE "run", <<e>>)
  /\ number' = [number EXCEPT ![c] = edits']
  /\ UNCHANGED <<project, changes, undos, mark, prior, slot, undone>>

\* readState and ValidateTrackMove; either may end the call.
MovePreflight(c) ==
  /\ pc[c] = "preflight"
  /\ \/ /\ MoveAllowed(project, job[c][1])
        /\ pc' = [pc EXCEPT ![c] = "run"]
        /\ UNCHANGED <<job, number, mark, prior>>
     \/ Finish(c)
  /\ UNCHANGED <<project, changes, edits, undos, slot, undone>>

\* The edit is refused, applied, or lost on the way there or back.
RunEdit(c) ==
  LET e == job[c][1] IN
  /\ pc[c] = "run"
  /\ \/ Finish(c) /\ UNCHANGED project
     \/ /\ Refusal(project, e) = "none"
        /\ project' = Applied(project, e)
        /\ \/ Finish(c)
           \/ /\ pc' = [pc EXCEPT ![c] = "store"]
              /\ prior' \in {[prior EXCEPT ![c] = t] : t \in Priors(project, e)}
              /\ mark' = [mark EXCEPT ![c] = [before |-> project, after |-> project']]
              /\ UNCHANGED <<job, number>>
  /\ UNCHANGED <<changes, edits, undos, slot, undone>>

StoreInverse(c) ==
  /\ pc[c] = "store"
  /\ slot' = [number |-> number[c], mark |-> mark[c],
              edit |-> InverseOf(job[c][1], prior[c])]
  /\ Finish(c)
  /\ UNCHANGED <<project, changes, edits, undos, undone>>

\* Mutant: the inverse stays available until it has been applied.
PeekUndo(c) ==
  /\ slot # NoSlot
  /\ undos < MaxUndos
  /\ undos' = undos + 1
  /\ Begin(c, "undo", <<slot.edit>>)
  /\ number' = [number EXCEPT ![c] = slot.number]
  /\ UNCHANGED <<project, changes, edits, mark, prior, slot, undone>>

\* The inverse is taken out of the map before it runs, and never put back.
TakeUndo(c) ==
  /\ slot # NoSlot
  /\ undos < MaxUndos
  /\ undos' = undos + 1
  /\ Begin(c, "undo", <<slot.edit>>)
  /\ number' = [number EXCEPT ![c] = slot.number]
  /\ slot' = NoSlot
  /\ UNCHANGED <<project, changes, edits, mark, prior, undone>>

\* Runner.RunTrackEdit validates the inverse like any edit.
RunUndo(c) ==
  LET e == job[c][1] IN
  /\ pc[c] = "undo"
  /\ \/ UNCHANGED <<project, undone>>
     \/ /\ Valid(e)
        /\ Refusal(project, e) = "none"
        /\ project' = Applied(project, e)
        /\ undone' = [undone EXCEPT ![number[c]] = @ + 1]
  /\ Finish(c)
  /\ UNCHANGED <<changes, edits, undos, slot>>

\* plans.apply, of a plan proposed of the project as it is now.  A plan leaves
\* the undo slot alone, so it runs beside outside changes only (bound: as the one
\* call of its session).
StartPlan(c) ==
  /\ edits = 0
  /\ edits' = MaxEdits
  /\ \E plan \in [1 .. PlanEdits -> Inputs] : Begin(c, "plan", plan)
  /\ UNCHANGED <<project, changes, undos, number, mark, prior, slot, undone>>

RunPlan(c) ==
  /\ pc[c] = "plan"
  /\ \/ UNCHANGED project
     \/ /\ BulkRefusal(project, job[c]) = "none"
        /\ project' = BulkApplied(project, job[c])
  /\ Finish(c)
  /\ UNCHANGED <<changes, edits, undos, slot, undone>>

\* The user, or another workspace, at work in REAPER, on what the guards look at.
OutsideChange ==
  /\ changes < MaxChanges
  /\ changes' = changes + 1
  /\ project' \in
       {Applied(project, e) : e \in {d \in Inputs : d.kind \in {"rename", "move"}}}
         \cup {RemoveAt(project, i) : i \in DOMAIN project}
         \cup {[project EXCEPT ![i].parent = ~@] : i \in DOMAIN project}
  /\ UNCHANGED <<edits, undos, callVars, slot, undone>>

CallStep(c) ==
  \/ StartEdit(c) \/ MovePreflight(c) \/ RunEdit(c) \/ StoreInverse(c)
  \/ TakeUndo(c) \/ RunUndo(c) \/ StartPlan(c) \/ RunPlan(c)

SessionDone ==
  /\ \A c \in Callers : pc[c] = "idle"
  /\ edits = MaxEdits
  /\ UNCHANGED vars

SessionNext == (\E c \in Callers : CallStep(c)) \/ OutsideChange \/ SessionDone

SessionSpec == SessionInit /\ [][SessionNext]_vars

-------------------------------------------------------------------------------

Position(p, id) == CHOOSE i \in DOMAIN p : p[i].id = id

\* The edits whose inverse the receipt cannot express: a name where there was
\* none, solo in place, a custom black reported without its flag; and a move past
\* the last track, the track it was checked against being gone.
Irreversible(m, e) ==
  \/ e.kind = "rename" /\ m.before[e.index].name = NoName
  \/ e.kind = "solo"   /\ m.before[e.index].solo = 2
  \/ e.kind = "color"  /\ m.before[e.index].color = Flag
  \/ e.kind = "move"   /\ e.index > Len(m.after)

Restores(s) ==
  /\ Valid(s.edit)
  /\ Refusal(s.mark.after, s.edit) = "none"
  /\ Applied(s.mark.after, s.edit) = s.mark.before

\* The inverse on offer, run on the project as the edit left it, is accepted
\* and brings back the project as the edit found it (Inverse, edits.go).
UndoRestores ==
  slot # NoSlot /\ ~Irreversible(slot.mark, slot.edit) => Restores(slot)

\* However many undo calls race for it, an edit is taken back at most once.
UndoneAtMostOnce == \A n \in DOMAIN undone : undone[n] <= 1

\* What a single move does to the order of the tracks, it does by moving a track
\* that is no folder parent at that moment, whatever the user made of the
\* tracks since the preflight.
Order(p) == [i \in DOMAIN p |-> p[i].id]

FolderParentsStay ==
  [][(\E c \in Callers : pc[c] \in {"run", "undo"} /\ pc'[c] # pc[c])
       /\ Order(project') # Order(project)
     => \E i \in DOMAIN project :
          /\ ~project[i].parent
          /\ RemoveAt(Order(project'), Position(project', project[i].id))
               = RemoveAt(Order(project), i)]_vars

\* A plan changes the tracks its author pointed at, even when it also moves
\* tracks: each value ends up on the track that had the position when the
\* plan started, unless a later edit of the plan overwrites it.
Overwritten(plan, k) ==
  \E l \in DOMAIN plan :
    l > k /\ plan[l].kind = plan[k].kind /\ plan[l].index = plan[k].index

PlanHitsItsTracks ==
  [][\A c \in Callers :
       pc[c] = "plan" /\ pc'[c] = "idle" /\ project' # project =>
         \A k \in DOMAIN job[c] :
           LET e == job[c][k]
               t == project'[Position(project', project[e.index].id)]
           IN  ~Overwritten(job[c], k) =>
                 /\ e.kind = "rename" => t.name = e.newName
                 /\ e.kind = "color"  => t.color = e.newColor
                 /\ e.kind = "solo"   => t.solo = e.newSolo]_vars

-------------------------------------------------------------------------------
\* serve.go, tracks.edit: "Run one guarded reversible track edit."
EveryEditReversible == slot # NoSlot => Restores(slot)

\* bulk.go:35-39: "Multiple moves within one plan still execute in the order given,
\* exactly as a caller would expect from a sequence of single moves run back to
\* back — each one's guard sees whatever the moves before it in this same plan
\* already did."
OneByOne(p, plan) ==
  LET Step(q, e) == IF Refusal(q, e) = "none" THEN Applied(q, e) ELSE q
  IN  FoldLeft(Step, p, plan)

MovesRunBackToBack ==
  [][\A c \in Callers :
       /\ pc[c] = "plan" /\ pc'[c] = "idle" /\ project' # project
       /\ \A k \in DOMAIN job[c] : IsMove(job[c][k])
       => project' = OneByOne(project, job[c])]_vars
===============================================================================
