------------------------- MODULE ServiceReview_proofs -------------------------
(***************************************************************************)
(* ServiceReview keeps its invariants for every number of calls, items,    *)
(* workspaces and files.                                                   *)
(*                                                                         *)
(* A call works on a copy of its item, so most of what holds of the maps   *)
(* has to be said of the copies as well: a copy is of the same kind as its *)
(* item, of the same workspace, as much tested, and a copy that is being   *)
(* tested counts as a proposal, since the test puts it back unasked.       *)
(***************************************************************************)
EXTENDS ServiceReview, FiniteSetTheorems, TLAPS

PlanSteps == {"apply", "applied", "cancel"}

Job == [ws : Workspaces \cup {Absent}, item : Ids \cup {Absent, Other},
        file : Files \cup {Absent}, confirm : BOOLEAN]

\* What each call has in its hands.
JobInv ==
  /\ job \in [Callers -> Job]
  /\ \A c \in Callers :
       /\ pc[c] \in PlanSteps \cup {"test", "tested", "discard", "saved"} =>
            job[c].item \in Ids
       /\ pc[c] \in {"create", "fill"} => job[c].item \in Ids \cup {Other}

\* An item is a plan or a proposal, in the maps and in every copy, for good.
KindInv ==
  /\ \A c \in Callers : pc[c] \in PlanSteps => job[c].item \notin proposals
  /\ \A c \in Callers : pc[c] \notin PlanSteps => job[c].item \notin plans
  /\ \A c, d \in Callers :
       pc[c] \in PlanSteps /\ pc[d] \notin PlanSteps => job[c].item # job[d].item

\* An id that a call knows, or that is over with, is never given out again.
HomeInv ==
  /\ \A c \in Callers : job[c].item \in Ids => job[c].ws \in Workspaces
  /\ \A i \in settled : home[i] # Absent

\* The mark of a test, in the map or in a copy, tells of a run without an error.
PassedInv ==
  /\ tested \subseteq passed
  /\ \A c \in Callers :
       pc[c] \in {"tested", "create", "fill"} /\ job[c].item \in Ids =>
         job[c].item \in passed

\* The proposals there are, and those a test may put back.
Testing == {c \in Callers : pc[c] \in {"test", "tested"}}

Kept == proposals \cup {job[c].item : c \in Testing}

RoomInv ==
  /\ Cardinality(plans) <= Capacity
  /\ Cardinality(Kept) < Capacity + Cardinality(Callers)

\* All of it but the counting.
CoreInv ==
  /\ ReviewTypeOK
  /\ JobInv
  /\ KindInv
  /\ WorkspaceIsolation
  /\ HomeInv
  /\ PassedInv
  /\ SavedWasTested
  /\ SettledPlansStayGone

IInv == CoreInv /\ RoomInv

-------------------------------------------------------------------------------
(***************************************************************************)
(* Each step keeps what is said of the items.                              *)
(***************************************************************************)

LEMMA JobOfCall ==
  ASSUME NEW w \in Workspaces \cup {Absent}, NEW i \in Ids \cup {Other},
         NEW f \in Files \cup {Absent}, NEW b \in BOOLEAN,
         NEW j, j = [ws |-> w, item |-> i, file |-> f, confirm |-> b]
  PROVE  j \in Job /\ j # NoJob /\ j.item = i /\ j.ws = w
BY ReviewAssumption DEF Job, NoJob

LEMMA NoJobOfCall == NoJob \in Job /\ NoJob.item = Absent
BY DEF NoJob, Job

LEMMA CoreInit == ReviewInit => CoreInv
<1> SUFFICES ASSUME ReviewInit PROVE CoreInv
  OBVIOUS
<1> USE ReviewAssumption, NoJobOfCall DEF ReviewInit
<1>1. ReviewTypeOK
  <2>1. library \in [Files -> Content \cup {NoScript} \cup {DraftOf(c) : c \in Callers}]
    <3>1. [code |-> Other, confirm |-> FALSE] \in Content
      BY DEF Content
    <3> QED BY <3>1
  <2>2. home \in [Ids -> Workspaces \cup {Absent}] /\ applied \in [Ids -> Nat] /\ calls \in 0 .. MaxCalls
    OBVIOUS
  <2>3. pc \in [Callers -> Steps] /\ \A c \in Callers : pc[c] = "idle" <=> job[c] = NoJob
    BY DEF Steps
  <2> QED BY <2>1, <2>2, <2>3 DEF ReviewTypeOK
<1>2. JobInv
  BY DEF JobInv, PlanSteps
<1>3. KindInv /\ WorkspaceIsolation /\ HomeInv
  BY DEF KindInv, WorkspaceIsolation, HomeInv, PlanSteps
<1>4. PassedInv /\ SavedWasTested /\ SettledPlansStayGone
  BY DEF PassedInv, SavedWasTested, SettledPlansStayGone
<1> QED BY <1>1, <1>2, <1>3, <1>4 DEF CoreInv

\* A call that begins takes its item as it is in the map.
LEMMA CoreBegin ==
  ASSUME CoreInv, NEW c \in Callers,
         NEW step \in {"apply", "cancel", "test", "discard", "create", "update", "run"},
         NEW w \in Workspaces \cup {Absent}, NEW i \in Ids \cup {Other},
         NEW f \in Files \cup {Absent}, NEW b \in BOOLEAN,
         Begin(c, step, w, i, f, b),
         UNCHANGED <<pendingVars, library, pastVars>>,
         step \in {"apply", "cancel", "test", "discard"} => i \in Ids,
         i \in Ids => home[i] = w /\ w \in Workspaces,
         i \in Ids /\ step \in PlanSteps => i \in plans,
         i \in Ids /\ step \notin PlanSteps => i \in proposals,
         i \in Ids /\ step = "create" => i \in tested
  PROVE  CoreInv'
<1> USE ReviewAssumption, NoJobOfCall DEF CoreInv, pendingVars, pastVars, Begin, PlanSteps
<1> DEFINE j == [ws |-> w, item |-> i, file |-> f, confirm |-> b]
<1>1. j \in Job /\ j # NoJob /\ j.item = i /\ j.ws = w
  BY JobOfCall
<1>2. job' = [job EXCEPT ![c] = j]
  OBVIOUS
<1> HIDE DEF j
<1>3. ReviewTypeOK'
  <2>1. pc' \in [Callers -> Steps] /\ calls' \in 0 .. MaxCalls
    BY DEF ReviewTypeOK, Steps
  <2>2. \A d \in Callers : pc'[d] = "idle" <=> job'[d] = NoJob
    BY <1>1, <1>2 DEF ReviewTypeOK, JobInv
  <2> QED BY <2>1, <2>2 DEF ReviewTypeOK
<1>4. JobInv'
  BY <1>1, <1>2 DEF ReviewTypeOK, JobInv
<1>5. KindInv' /\ WorkspaceIsolation' /\ HomeInv'
  BY <1>1, <1>2 DEF ReviewTypeOK, JobInv, KindInv, WorkspaceIsolation, HomeInv
<1>6. PassedInv' /\ SavedWasTested' /\ SettledPlansStayGone'
  BY <1>1, <1>2 DEF ReviewTypeOK, JobInv, PassedInv, SavedWasTested, SettledPlansStayGone
<1> QED BY <1>3, <1>4, <1>5, <1>6

\* A step that leaves the calls and their items alone.
LEMMA CoreLibrary ==
  ASSUME CoreInv, UNCHANGED <<pendingVars, pc, job, pastVars>>, ReviewTypeOK'
  PROVE  CoreInv'
BY DEF CoreInv, pendingVars, pastVars, JobInv, KindInv, WorkspaceIsolation, HomeInv, PassedInv,
   SavedWasTested, SettledPlansStayGone

LEMMA CorePlan ==
  ASSUME CoreInv, NEW c \in Callers, PlanStep(c)
  PROVE  CoreInv'
<1> USE ReviewAssumption, NoJobOfCall DEF CoreInv, pastVars, pendingVars, callVars, AtOnce, Purge, Fresh,
        Begin, Goto, Finish, Settle, PlanSteps
<1>1. CASE ProposePlan(c)
  <2>1. ReviewTypeOK'
    BY <1>1 DEF ProposePlan, ReviewTypeOK
  <2>2. JobInv'
    BY <1>1 DEF ProposePlan, JobInv
  <2>3. KindInv' /\ WorkspaceIsolation' /\ HomeInv'
    BY <1>1 DEF ProposePlan, ReviewTypeOK, JobInv, KindInv, WorkspaceIsolation, HomeInv
  <2>4. PassedInv' /\ SavedWasTested' /\ SettledPlansStayGone'
    BY <1>1 DEF ProposePlan, PassedInv, SavedWasTested, SettledPlansStayGone, ReviewTypeOK, HomeInv
  <2> QED BY <2>1, <2>2, <2>3, <2>4
<1>2. CASE CurrentPlan(c)
  BY <1>2 DEF CurrentPlan, ReviewTypeOK, JobInv, KindInv, WorkspaceIsolation, HomeInv,
     PassedInv, SavedWasTested, SettledPlansStayGone
<1>3. ASSUME NEW step \in {"apply", "cancel"}, LookUpPlan(c, step)
      PROVE  CoreInv'
  <2>1. CASE UNCHANGED <<pc, job>>
    BY <1>3, <2>1 DEF LookUpPlan, ReviewTypeOK, JobInv, KindInv, WorkspaceIsolation,
       HomeInv, PassedInv, SavedWasTested, SettledPlansStayGone
  <2>2. ASSUME NEW w \in Workspaces, NEW i \in plans \ expired,
               home[i] = w, Begin(c, step, w, i, Absent, FALSE), UNCHANGED <<plans, expired>>
        PROVE  CoreInv'
    <3>1. i \in Ids /\ step \in PlanSteps /\ UNCHANGED <<pendingVars, library, pastVars>>
      BY <1>3, <2>2 DEF LookUpPlan, ReviewTypeOK
    <3> QED BY <2>2, <3>1, CoreBegin
  <2> QED BY <1>3, <2>1, <2>2 DEF LookUpPlan
<1>4. CASE ApplyPlan(c)
  <2>1. ReviewTypeOK'
    BY <1>4 DEF ApplyPlan, ReviewTypeOK, Steps, JobInv
  <2>2. JobInv'
    BY <1>4 DEF ApplyPlan, ReviewTypeOK, JobInv, Job
  <2>3. KindInv' /\ WorkspaceIsolation' /\ HomeInv'
    BY <1>4 DEF ApplyPlan, ReviewTypeOK, JobInv, KindInv, WorkspaceIsolation, HomeInv
  <2>4. PassedInv' /\ SavedWasTested' /\ SettledPlansStayGone'
    BY <1>4 DEF ApplyPlan, PassedInv, SavedWasTested, SettledPlansStayGone, ReviewTypeOK, JobInv
  <2> QED BY <2>1, <2>2, <2>3, <2>4
<1>5. ASSUME NEW step \in {"applied", "cancel"}, RemovePlan(c, step)
      PROVE  CoreInv'
  <2>1. ReviewTypeOK'
    BY <1>5 DEF RemovePlan, ReviewTypeOK, Steps, JobInv
  <2>2. JobInv'
    BY <1>5 DEF RemovePlan, ReviewTypeOK, JobInv, Job
  <2>3. KindInv' /\ WorkspaceIsolation' /\ HomeInv'
    BY <1>5 DEF RemovePlan, ReviewTypeOK, JobInv, KindInv, WorkspaceIsolation, HomeInv
  <2>4. PassedInv' /\ SavedWasTested' /\ SettledPlansStayGone'
    BY <1>5 DEF RemovePlan, PassedInv, SavedWasTested, SettledPlansStayGone, ReviewTypeOK, JobInv
  <2> QED BY <2>1, <2>2, <2>3, <2>4
<1> QED
  BY <1>1, <1>2, <1>3, <1>4, <1>5 DEF PlanStep, RemoveApplied, CancelPlan

LEMMA CoreProposal ==
  ASSUME CoreInv, NEW c \in Callers, ProposalStep(c)
  PROVE  CoreInv'
<1> USE ReviewAssumption, NoJobOfCall DEF CoreInv, pastVars, pendingVars, callVars, AtOnce, Fresh,
        Goto, Finish, Settle, PlanSteps
<1>1. CASE ProposeScript(c)
  <2>1. ReviewTypeOK'
    BY <1>1 DEF ProposeScript, ReviewTypeOK
  <2>2. JobInv'
    BY <1>1 DEF ProposeScript, JobInv
  <2>3. KindInv' /\ WorkspaceIsolation' /\ HomeInv'
    BY <1>1 DEF ProposeScript, ReviewTypeOK, JobInv, KindInv, WorkspaceIsolation, HomeInv
  <2>4. PassedInv' /\ SavedWasTested' /\ SettledPlansStayGone'
    BY <1>1 DEF ProposeScript, PassedInv, SavedWasTested, SettledPlansStayGone, ReviewTypeOK, HomeInv
  <2> QED BY <2>1, <2>2, <2>3, <2>4
<1>2. ASSUME NEW step \in {"test", "discard"}, LookUpProposal(c, step, Absent, FALSE)
      PROVE  CoreInv'
  <2>1. PICK w \in Workspaces, i \in proposals :
          home[i] = w /\ Begin(c, step, w, i, Absent, FALSE)
    BY <1>2 DEF LookUpProposal
  <2>2. i \in Ids /\ step \notin PlanSteps /\ UNCHANGED <<pendingVars, library, pastVars>>
    BY <1>2 DEF LookUpProposal, ReviewTypeOK
  <2>3. /\ step \in {"apply", "cancel", "test", "discard", "create", "update", "run"}
        /\ step # "create"
        /\ w \in Workspaces \cup {Absent} /\ i \in Ids \cup {Other}
        /\ Absent \in Files \cup {Absent} /\ FALSE \in BOOLEAN
    BY <1>2, <2>1, <2>2
  <2> HIDE DEF CoreInv, PlanSteps, pastVars, pendingVars
  <2> QED BY <2>1, <2>2, <2>3, CoreBegin
<1>3. CASE SaveProposal(c)
  <2>1. PICK f \in Files, ask \in BOOLEAN, w \in Workspaces, i \in proposals :
               home[i] = w /\ Begin(c, "create", w, i, f, ask)
    BY <1>3 DEF SaveProposal, LookUpProposal
  <2>2. job'[c].item = i
    BY <2>1 DEF Begin, JobInv
  <2> QED BY <1>3, <2>1, <2>2, CoreBegin DEF SaveProposal, LookUpProposal, ReviewTypeOK
<1>4. CASE TestProposal(c)
  <2>1. ReviewTypeOK'
    BY <1>4 DEF TestProposal, ReviewTypeOK, Steps, JobInv
  <2>2. JobInv'
    BY <1>4 DEF TestProposal, ReviewTypeOK, JobInv
  <2>3. KindInv' /\ WorkspaceIsolation' /\ HomeInv'
    BY <1>4 DEF TestProposal, ReviewTypeOK, JobInv, KindInv, WorkspaceIsolation, HomeInv
  <2>4. PassedInv' /\ SavedWasTested' /\ SettledPlansStayGone'
    BY <1>4 DEF TestProposal, PassedInv, SavedWasTested, SettledPlansStayGone, ReviewTypeOK, JobInv
  <2> QED BY <2>1, <2>2, <2>3, <2>4
<1>5. CASE StoreTested(c)
  <2>1. ReviewTypeOK'
    BY <1>5 DEF StoreTested, ReviewTypeOK, Steps, JobInv, KindInv, WorkspaceIsolation, HomeInv
  <2>2. JobInv'
    BY <1>5 DEF StoreTested, ReviewTypeOK, JobInv
  <2>3. KindInv' /\ WorkspaceIsolation' /\ HomeInv'
    BY <1>5 DEF StoreTested, ReviewTypeOK, JobInv, KindInv, WorkspaceIsolation, HomeInv
  <2>4. PassedInv' /\ SavedWasTested' /\ SettledPlansStayGone'
    BY <1>5 DEF StoreTested, PassedInv, SavedWasTested, SettledPlansStayGone, ReviewTypeOK, JobInv
  <2> QED BY <2>1, <2>2, <2>3, <2>4
<1>6. ASSUME NEW step \in {"discard", "saved"}, RemoveProposal(c, step)
      PROVE  CoreInv'
  <2>1. ReviewTypeOK'
    BY <1>6 DEF RemoveProposal, ReviewTypeOK, Steps, JobInv
  <2>2. JobInv'
    BY <1>6 DEF RemoveProposal, ReviewTypeOK, JobInv
  <2>3. KindInv' /\ WorkspaceIsolation' /\ HomeInv'
    BY <1>6 DEF RemoveProposal, ReviewTypeOK, JobInv, KindInv, WorkspaceIsolation, HomeInv
  <2>4. PassedInv' /\ SavedWasTested' /\ SettledPlansStayGone'
    BY <1>6 DEF RemoveProposal, PassedInv, SavedWasTested, SettledPlansStayGone, ReviewTypeOK, JobInv, KindInv
  <2> QED BY <2>1, <2>2, <2>3, <2>4
<1> QED
  BY <1>1, <1>2, <1>3, <1>4, <1>5, <1>6 DEF ProposalStep, DiscardProposal, RemoveSaved

LEMMA CoreLibraryStep ==
  ASSUME CoreInv, NEW c \in Callers, LibraryStep(c)
  PROVE  CoreInv'
<1> USE ReviewAssumption, NoJobOfCall DEF CoreInv, pastVars, pendingVars, callVars, AtOnce,
        Goto, Finish, PlanSteps
<1>1. \A f \in Files : library[f].confirm \in BOOLEAN
  <2> SUFFICES ASSUME NEW f \in Files PROVE library[f].confirm \in BOOLEAN
    OBVIOUS
  <2>1. CASE library[f] \in Content    BY <2>1 DEF Content
  <2>2. CASE library[f] = NoScript     BY <2>2 DEF NoScript
  <2>3. CASE \E d \in Callers : library[f] = DraftOf(d)
    BY <2>3 DEF DraftOf
  <2> QED BY <2>1, <2>2, <2>3 DEF ReviewTypeOK
<1>2. CASE CreateScript(c)
  BY <1>2, CoreBegin DEF CreateScript
<1>3. CASE UpdateScript(c)
  BY <1>3, CoreBegin DEF UpdateScript
<1>4. CASE FindAction(c)
  BY <1>1, <1>4, CoreBegin DEF FindAction
<1>5. CASE OpenNew(c)
  <2>1. ReviewTypeOK'
    BY <1>5 DEF OpenNew, ReviewTypeOK, Steps, JobInv
  <2>2. JobInv'
    BY <1>5 DEF OpenNew, ReviewTypeOK, JobInv
  <2>3. KindInv' /\ WorkspaceIsolation' /\ HomeInv'
    BY <1>5 DEF OpenNew, ReviewTypeOK, JobInv, KindInv, WorkspaceIsolation, HomeInv
  <2>4. PassedInv' /\ SavedWasTested' /\ SettledPlansStayGone'
    BY <1>5 DEF OpenNew, PassedInv, SavedWasTested, SettledPlansStayGone, ReviewTypeOK, JobInv
  <2> QED BY <2>1, <2>2, <2>3, <2>4
<1>6. CASE FillNew(c)
  <2> DEFINE text == [code |-> job[c].item, confirm |-> job[c].confirm]
  <2>0. text \in Content
    BY <1>6 DEF FillNew, JobInv, Job, Content
  <2> HIDE DEF text
  <2>1. ReviewTypeOK'
    BY <1>6, <2>0 DEF FillNew, text, ReviewTypeOK, Steps, JobInv
  <2>2. JobInv'
    BY <1>6 DEF FillNew, ReviewTypeOK, JobInv
  <2>3. KindInv' /\ WorkspaceIsolation' /\ HomeInv'
    BY <1>6 DEF FillNew, ReviewTypeOK, JobInv, KindInv, WorkspaceIsolation, HomeInv
  <2>4. PassedInv' /\ SavedWasTested' /\ SettledPlansStayGone'
    BY <1>6 DEF FillNew, PassedInv, SavedWasTested, SettledPlansStayGone, ReviewTypeOK, JobInv
  <2> QED BY <2>1, <2>2, <2>3, <2>4
<1>7. CASE ReplaceScript(c)
  <2>1. ReviewTypeOK'
    BY <1>7 DEF ReplaceScript, ReviewTypeOK, Steps, JobInv, Job, Content
  <2>2. JobInv'
    BY <1>7 DEF ReplaceScript, ReviewTypeOK, JobInv
  <2>3. KindInv' /\ WorkspaceIsolation' /\ HomeInv'
    BY <1>7 DEF ReplaceScript, ReviewTypeOK, JobInv, KindInv, WorkspaceIsolation, HomeInv
  <2>4. PassedInv' /\ SavedWasTested' /\ SettledPlansStayGone'
    BY <1>7 DEF ReplaceScript, PassedInv, SavedWasTested, SettledPlansStayGone, ReviewTypeOK, JobInv
  <2> QED BY <2>1, <2>2, <2>3, <2>4
<1>8. CASE DeleteScript(c)
  <2>1. ReviewTypeOK'
    BY <1>8 DEF DeleteScript, ReviewTypeOK
  <2> QED BY <1>8, <2>1, CoreLibrary DEF DeleteScript
<1>9. CASE RunAction(c)
  <2>1. ReviewTypeOK'
    BY <1>1, <1>9 DEF RunAction, ReviewTypeOK, Steps, JobInv
  <2>2. JobInv'
    BY <1>9 DEF RunAction, ReviewTypeOK, JobInv
  <2>3. KindInv' /\ WorkspaceIsolation' /\ HomeInv'
    BY <1>9 DEF RunAction, ReviewTypeOK, JobInv, KindInv, WorkspaceIsolation, HomeInv
  <2>4. PassedInv' /\ SavedWasTested' /\ SettledPlansStayGone'
    BY <1>9 DEF RunAction, PassedInv, SavedWasTested, SettledPlansStayGone, ReviewTypeOK, JobInv
  <2> QED BY <2>1, <2>2, <2>3, <2>4
<1> QED
  BY <1>2, <1>3, <1>4, <1>5, <1>6, <1>7, <1>8, <1>9 DEF LibraryStep

LEMMA CoreStep ==
  ASSUME CoreInv, [ReviewNext]_vars
  PROVE  CoreInv'
<1>1. CASE Expire
  BY <1>1 DEF Expire, callVars, pastVars, CoreInv, ReviewTypeOK, JobInv, KindInv,
     WorkspaceIsolation, HomeInv, PassedInv, SavedWasTested, SettledPlansStayGone
<1>2. CASE UNCHANGED vars
  BY <1>2 DEF vars, pendingVars, callVars, pastVars, CoreInv, ReviewTypeOK, JobInv, KindInv,
     WorkspaceIsolation, HomeInv, PassedInv, SavedWasTested, SettledPlansStayGone
<1> QED
  BY <1>1, <1>2, CorePlan, CoreProposal, CoreLibraryStep DEF ReviewNext, ReviewDone

-------------------------------------------------------------------------------
(***************************************************************************)
(* There is room for what waits.                                           *)
(***************************************************************************)

LEMMA OneMore ==
  ASSUME NEW S, NEW x, IsFiniteSet(S)
  PROVE  Cardinality(S \cup {x}) \in Nat /\ Cardinality(S \cup {x}) <= Cardinality(S) + 1
<1>1. /\ IsFiniteSet(S \cup {x})
      /\ Cardinality(S \cup {x}) = IF x \in S THEN Cardinality(S) ELSE Cardinality(S) + 1
  BY FS_AddElement
<1>2. Cardinality(S) \in Nat
  BY FS_CardinalityType
<1> QED
  BY <1>1, <1>2

LEMMA KeptFinite ==
  ASSUME CoreInv
  PROVE  IsFiniteSet(plans) /\ IsFiniteSet(Kept) /\ Kept \subseteq Ids
<1>1. Kept \subseteq Ids /\ plans \subseteq Ids
  BY DEF CoreInv, ReviewTypeOK, JobInv, Kept, Testing
<1> QED
  BY <1>1, ReviewAssumption, FS_Subset

\* As many copies as calls that test.
LEMMA CopiesAreFew ==
  /\ IsFiniteSet(Testing) /\ Cardinality(Testing) <= Cardinality(Callers)
  /\ IsFiniteSet({job[c].item : c \in Testing})
  /\ Cardinality({job[c].item : c \in Testing}) <= Cardinality(Testing)
<1> DEFINE T == {job[c].item : c \in Testing}
           f == [c \in Testing |-> job[c].item]
<1>1. IsFiniteSet(Testing) /\ Cardinality(Testing) <= Cardinality(Callers)
  BY ReviewAssumption, FS_Subset DEF Testing
<1>2. f \in Surjection(Testing, T)
  BY DEF Surjection
<1> QED
  BY <1>1, <1>2, FS_Surjection

LEMMA RoomInit == ReviewInit => RoomInv
<1> SUFFICES ASSUME ReviewInit PROVE RoomInv
  OBVIOUS
<1>1. plans = {} /\ Kept = {}
  BY DEF ReviewInit, Kept, Testing
<1> QED
  BY <1>1, ReviewAssumption, FS_EmptySet, FS_CardinalityType DEF RoomInv

\* A step that adds nothing leaves room.
LEMMA RoomKept ==
  ASSUME CoreInv, RoomInv, plans' \subseteq plans, Kept' \subseteq Kept
  PROVE  RoomInv'
<1>1. Cardinality(plans') <= Cardinality(plans) /\ Cardinality(plans') \in Nat
      /\ Cardinality(plans) \in Nat
  BY KeptFinite, FS_Subset, FS_CardinalityType
<1>2. Cardinality(Kept') <= Cardinality(Kept) /\ Cardinality(Kept') \in Nat
      /\ Cardinality(Kept) \in Nat
  BY KeptFinite, FS_Subset, FS_CardinalityType
<1>3. Cardinality(Callers) \in Nat
  BY ReviewAssumption, FS_CardinalityType
<1> QED
  BY <1>1, <1>2, <1>3, ReviewAssumption DEF RoomInv

LEMMA RoomPropose ==
  ASSUME CoreInv, RoomInv, NEW c \in Callers, ProposePlan(c) \/ ProposeScript(c)
  PROVE  RoomInv'
<1> USE ReviewAssumption
<1>1. Cardinality(Callers) \in Nat /\ Cardinality(Kept) \in Nat /\ Cardinality(plans) \in Nat
  BY KeptFinite, FS_CardinalityType
<1>2. CASE ProposePlan(c)
  <2>1. Kept' = Kept
    BY <1>2 DEF ProposePlan, AtOnce, Kept, Testing
  <2>2. CASE plans' \subseteq plans
    BY <2>1, <2>2, RoomKept
  <2>3. ASSUME NEW i \in Ids, Cardinality(plans \ expired) < Capacity,
               plans' = (plans \ expired) \cup {i}
        PROVE  Cardinality(plans') <= Capacity
    <3> DEFINE P == plans \ expired
    <3>1. IsFiniteSet(P) /\ Cardinality(P) \in Nat
      BY KeptFinite, FS_Subset, FS_CardinalityType
    <3>2. Cardinality(P) < Capacity /\ plans' = P \cup {i}
      BY <2>3
    <3> HIDE DEF P
    <3>3. Cardinality(P \cup {i}) <= Cardinality(P) + 1 /\ Cardinality(P \cup {i}) \in Nat
      BY <3>1, OneMore
    <3> QED BY <3>1, <3>2, <3>3
  <2> QED BY <1>1, <1>2, <2>1, <2>2, <2>3 DEF ProposePlan, Purge, Fresh, RoomInv
<1>3. CASE ProposeScript(c)
  <2> DEFINE T == {job[d].item : d \in Testing}
  <2>1. PICK i \in Ids : proposals' = proposals \cup {i}
    BY <1>3 DEF ProposeScript, Fresh
  <2>2. Kept' = (proposals \cup T) \cup {i} /\ plans' = plans
    BY <1>3, <2>1 DEF ProposeScript, AtOnce, Kept, Testing
  <2>3. Testing \subseteq Callers \ {c}
    BY <1>3 DEF ProposeScript, AtOnce, Testing
  <2>4. Cardinality(Testing) <= Cardinality(Callers) - 1
    <3>1. /\ IsFiniteSet(Callers \ {c})
          /\ Cardinality(Callers \ {c}) = Cardinality(Callers) - 1
      BY FS_RemoveElement
    <3>2. Cardinality(Testing) <= Cardinality(Callers \ {c})
      BY <2>3, <3>1, FS_Subset
    <3> QED BY <3>1, <3>2
  <2>5. Cardinality(T) <= Cardinality(Callers) - 1 /\ IsFiniteSet(T) /\ Cardinality(T) \in Nat
    BY <1>1, <2>4, CopiesAreFew, FS_CardinalityType
  <2>6. IsFiniteSet(proposals) /\ Cardinality(proposals) \in Nat
    BY FS_Subset, FS_CardinalityType DEF CoreInv, ReviewTypeOK
  <2>7. /\ IsFiniteSet(proposals \cup T)
        /\ Cardinality(proposals \cup T) <= Cardinality(proposals) + Cardinality(T)
    <3>1. IsFiniteSet(proposals \cap T) /\ Cardinality(proposals \cap T) \in Nat
      BY <2>6, FS_Intersection, FS_CardinalityType
    <3> HIDE DEF T
    <3>2. /\ IsFiniteSet(proposals \cup T)
          /\ Cardinality(proposals \cup T) =
               Cardinality(proposals) + Cardinality(T) - Cardinality(proposals \cap T)
      BY <2>5, <2>6, FS_Union
    <3> QED BY <2>5, <2>6, <3>1, <3>2
  <2>8. Cardinality(proposals) < Capacity
    BY <1>3 DEF ProposeScript
  <2>9. Cardinality(Kept') <= Cardinality(proposals \cup T) + 1
    <3> DEFINE P == proposals \cup T
    <3>1. Kept' = P \cup {i} /\ IsFiniteSet(P)
      BY <2>2, <2>7
    <3> HIDE DEF P
    <3>2. Cardinality(Kept') <= Cardinality(P) + 1
      BY <3>1, OneMore
    <3> QED BY <3>2 DEF P
  <2>10. Cardinality(Kept') < Capacity + Cardinality(Callers)
    <3> HIDE DEF T
    <3>1. Cardinality(proposals \cup T) \in Nat /\ Cardinality(Kept') \in Nat
      BY <2>2, <2>7, FS_AddElement, FS_CardinalityType
    <3> QED BY <1>1, <2>5, <2>6, <2>7, <2>8, <2>9, <3>1
  <2> QED BY <2>2, <2>10 DEF RoomInv
<1> QED
  BY <1>2, <1>3

LEMMA RoomStep ==
  ASSUME CoreInv, RoomInv, [ReviewNext]_vars
  PROVE  RoomInv'
<1> USE DEF CoreInv, pendingVars, callVars, pastVars
<1>1. ASSUME UNCHANGED <<plans, proposals, pc, job>> PROVE RoomInv'
  BY <1>1, RoomKept DEF Kept, Testing
<1>2. ASSUME NEW c \in Callers, NEW s, NEW w, NEW i, NEW f, NEW b,
             Begin(c, s, w, i, f, b), UNCHANGED <<plans, proposals>>,
             s \in {"test", "tested"} => i \in proposals
      PROVE  RoomInv'
  <2>1. Kept' \subseteq Kept
    BY <1>2 DEF Begin, Kept, Testing, ReviewTypeOK, JobInv
  <2> QED BY <1>2, <2>1, RoomKept
<1>3. ASSUME NEW c \in Callers, NEW s, Finish(c, s) \/ AtOnce(c),
             plans' \subseteq plans,
             proposals' \subseteq proposals
               \cup {job[d].item : d \in {d \in Testing : pc[d] = "tested"}}
      PROVE  RoomInv'
  <2>1. Kept' \subseteq Kept
    BY <1>3 DEF Finish, AtOnce, Kept, Testing, ReviewTypeOK, JobInv
  <2> QED BY <1>3, <2>1, RoomKept
<1>4. ASSUME NEW c \in Callers, NEW s, NEW t, Goto(c, s, t), UNCHANGED <<plans, proposals>>,
             t \in {"test", "tested"} => s = "test"
      PROVE  RoomInv'
  <2>1. Kept' \subseteq Kept
    BY <1>4 DEF Goto, Kept, Testing, ReviewTypeOK, JobInv
  <2> QED BY <1>4, <2>1, RoomKept
<1>5. ASSUME NEW c \in Callers, PlanStep(c) PROVE RoomInv'
  <2>1. CASE ProposePlan(c)     BY <2>1, RoomPropose
  <2>2. CASE CurrentPlan(c)     BY <2>2, <1>3 DEF CurrentPlan, Purge
  <2>3. ASSUME NEW s \in {"apply", "cancel"}, LookUpPlan(c, s) PROVE RoomInv'
    BY <2>3, <1>2, <1>3 DEF LookUpPlan
  <2>4. CASE ApplyPlan(c)       BY <2>4, <1>3, <1>4 DEF ApplyPlan
  <2>5. ASSUME NEW s, RemovePlan(c, s) PROVE RoomInv'
    BY <2>5, <1>3 DEF RemovePlan
  <2> QED BY <1>5, <2>1, <2>2, <2>3, <2>4, <2>5 DEF PlanStep, RemoveApplied, CancelPlan
<1>6. ASSUME NEW c \in Callers, ProposalStep(c) PROVE RoomInv'
  <2>1. CASE ProposeScript(c)   BY <2>1, RoomPropose
  <2>2. ASSUME NEW s, NEW f, NEW b, LookUpProposal(c, s, f, b) PROVE RoomInv'
    BY <2>2, <1>2 DEF LookUpProposal
  <2>3. CASE TestProposal(c)    BY <2>3, <1>3, <1>4 DEF TestProposal
  <2>4. CASE StoreTested(c)     BY <2>4, <1>3 DEF StoreTested, Finish, Testing
  <2>5. ASSUME NEW s, RemoveProposal(c, s) PROVE RoomInv'
    BY <2>5, <1>3 DEF RemoveProposal
  <2> QED
    BY <1>6, <2>1, <2>2, <2>3, <2>4, <2>5
    DEF ProposalStep, SaveProposal, DiscardProposal, RemoveSaved
<1>7. ASSUME NEW c \in Callers, LibraryStep(c) PROVE RoomInv'
  <2> USE <1>2, <1>3, <1>4
  <2>1. CASE CreateScript(c)    BY <2>1 DEF CreateScript
  <2>2. CASE OpenNew(c)         BY <2>2 DEF OpenNew
  <2>3. CASE FillNew(c)         BY <2>3 DEF FillNew
  <2>4. CASE UpdateScript(c)    BY <2>4 DEF UpdateScript
  <2>5. CASE ReplaceScript(c)   BY <2>5 DEF ReplaceScript
  <2>6. CASE DeleteScript(c)    BY <2>6 DEF DeleteScript
  <2>7. CASE FindAction(c)      BY <2>7 DEF FindAction
  <2>8. CASE RunAction(c)       BY <2>8 DEF RunAction
  <2> QED
    BY <1>7, <2>1, <2>2, <2>3, <2>4, <2>5, <2>6, <2>7, <2>8 DEF LibraryStep
<1>8. CASE Expire \/ UNCHANGED vars
  BY <1>1, <1>8 DEF Expire, vars
<1> QED
  BY <1>5, <1>6, <1>7, <1>8 DEF ReviewNext, ReviewDone

-------------------------------------------------------------------------------

THEOREM ReviewInductive == ReviewSpec => []IInv
<1>1. ReviewInit => IInv
  BY CoreInit, RoomInit DEF IInv
<1>2. IInv /\ [ReviewNext]_vars => IInv'
  BY CoreStep, RoomStep DEF IInv
<1> QED
  BY <1>1, <1>2, PTL DEF ReviewSpec

\* Every variable keeps its type, and an id is that of a plan or of a proposal,
\* never of both (service.go).
THEOREM ReviewTypeCorrect == ReviewSpec => []ReviewTypeOK
BY ReviewInductive, PTL DEF IInv, CoreInv

\* Service.plans stays within its capacity, and Service.proposals exceeds its own
\* by less than the number of calls at work (service.go: ProposeTrackPlan,
\* ProposeScript, TestScript).
THEOREM ReviewCapacity == ReviewSpec => []CapacityHolds
<1>1. IInv => CapacityHolds
  <2> SUFFICES ASSUME IInv PROVE CapacityHolds
    OBVIOUS
  <2>1. Cardinality(proposals) <= Cardinality(Kept)
    BY KeptFinite, FS_Subset DEF IInv, Kept
  <2>2. /\ Cardinality(proposals) \in Nat /\ Cardinality(Kept) \in Nat
        /\ Cardinality(Callers) \in Nat
    BY KeptFinite, ReviewAssumption, FS_Subset, FS_CardinalityType DEF IInv, Kept
  <2> QED BY <2>1, <2>2, ReviewAssumption DEF IInv, RoomInv, CapacityHolds
<1> QED
  BY <1>1, ReviewInductive, PTL

\* SaveScript brings no code into the library that has not run without an error
\* (service.go, library.go).
THEOREM ReviewSavedWasTested == ReviewSpec => []SavedWasTested
BY ReviewInductive, PTL DEF IInv, CoreInv

\* A plan that its caller was told is over is never pending again (service.go:
\* ApplyTrackPlan, CancelTrackPlan).
THEOREM ReviewSettledStayGone == ReviewSpec => []SettledPlansStayGone
BY ReviewInductive, PTL DEF IInv, CoreInv

\* No call works on an item of another workspace (service.go: pendingPlan,
\* pendingProposal).
THEOREM ReviewIsolation == ReviewSpec => []WorkspaceIsolation
BY ReviewInductive, PTL DEF IInv, CoreInv

\* CreateScript replaces no file that is finished, whatever else is done to the
\* library meanwhile (library.go).
THEOREM ReviewCreateReplacesNothing == ReviewSpec => CreateReplacesNothing
<1> DEFINE Kind == \A f \in Files :
             library'[f].code = Draft /\ library'[f] # library[f] => library[f] = NoScript
<1>1. IInv /\ [ReviewNext]_vars => [Kind]_vars
  <2> SUFFICES ASSUME IInv, ReviewNext PROVE Kind
    BY DEF vars
  <2> USE ReviewAssumption
  <2>1. ASSUME UNCHANGED library PROVE Kind
    BY <2>1
  <2>2. ASSUME NEW f \in Files, NEW new, new.code # Draft,
               library' = [library EXCEPT ![f] = new]
        PROVE  Kind
    BY <2>2 DEF IInv, CoreInv, ReviewTypeOK
  <2>3. NoScript.code # Draft
    BY DEF NoScript
  <2>4. ASSUME NEW c \in Callers, OpenNew(c) PROVE Kind
    BY <2>4 DEF OpenNew, IInv, CoreInv, ReviewTypeOK
  <2>5. ASSUME NEW c \in Callers, FillNew(c) PROVE Kind
    <3> DEFINE text == [code |-> job[c].item, confirm |-> job[c].confirm]
    <3>1. text.code # Draft
      BY <2>5 DEF FillNew, Goto, Finish, IInv, CoreInv, JobInv
    <3>2. \/ UNCHANGED library
          \/ \E new \in {text, NoScript} : library' = [library EXCEPT ![job[c].file] = new]
      BY <2>5 DEF FillNew
    <3>3. ASSUME NEW new \in {text, NoScript},
                 library' = [library EXCEPT ![job[c].file] = new]
          PROVE  Kind
      <4>1. new.code # Draft
        BY <3>1, <2>3
      <4> QED BY <3>3, <4>1 DEF IInv, CoreInv, ReviewTypeOK
    <3> QED BY <2>1, <3>2, <3>3
  <2>6. ASSUME NEW c \in Callers, ReplaceScript(c) PROVE Kind
    BY <2>2, <2>6 DEF ReplaceScript, IInv, CoreInv, ReviewTypeOK
  <2>7. ASSUME NEW c \in Callers, DeleteScript(c) PROVE Kind
    BY <2>2, <2>3, <2>7 DEF DeleteScript
  <2>8. ASSUME NEW c \in Callers, LibraryStep(c) PROVE Kind
    BY <2>1, <2>4, <2>5, <2>6, <2>7, <2>8
    DEF LibraryStep, CreateScript, UpdateScript, FindAction, RunAction
  <2>9. ASSUME NEW c \in Callers, PlanStep(c) \/ ProposalStep(c) PROVE UNCHANGED library
    BY <2>9
    DEF PlanStep, ProposalStep, ProposePlan, CurrentPlan, LookUpPlan, ApplyPlan,
        RemoveApplied, CancelPlan, RemovePlan, ProposeScript, LookUpProposal, TestProposal,
        StoreTested, DiscardProposal, RemoveProposal, SaveProposal, RemoveSaved
  <2> QED
    BY <2>1, <2>8, <2>9 DEF ReviewNext, Expire, ReviewDone, vars
<1> QED
  BY <1>1, ReviewInductive, PTL DEF ReviewSpec, CreateReplacesNothing
===============================================================================
