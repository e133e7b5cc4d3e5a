----------------------------- MODULE ServiceReview -----------------------------
(***************************************************************************)
(* What waits for a decision in one plugin process, and the script library *)
(* (service.go, library.go): bulk plans that are applied or cancelled,     *)
(* script proposals that are tested, saved or discarded, and the custom    *)
(* actions made of saved scripts.                                          *)
(*                                                                         *)
(* Service.mu is held for one map operation at a time.  A call looks its   *)
(* item up, works on a copy, and goes back to the map: each of these is a  *)
(* step, and other calls come between.  The library has no lock at all.    *)
(***************************************************************************)
EXTENDS Naturals, FiniteSets

CONSTANTS
  Callers,      \* concurrent tool calls
  Workspaces,
  Ids,          \* the random ids of plans and proposals
  Files,        \* file names in the library
  Absent,       \* no such file
  Draft,        \* a file that exists and is not written yet
  Other,        \* a script that was no proposal
  Capacity,     \* 256
  MaxCalls      \* bound: tool calls in all

ASSUME ReviewAssumption ==
  /\ IsFiniteSet(Callers) /\ IsFiniteSet(Ids)
  /\ Absent # Draft /\ Absent # Other /\ Draft # Other
  /\ {Absent, Draft, Other} \cap Ids = {}
  /\ Absent \notin Workspaces
  /\ Capacity \in Nat \ {0} /\ MaxCalls \in Nat

VARIABLES
  plans,       \* Service.plans
  expired,     \* those that are over ten minutes old
  proposals,   \* Service.proposals
  tested,      \* those marked as tested
  home,        \* the workspace an item was proposed in; the unused ids' is Absent
  library,     \* the files: whose code, and does the header ask for confirmation
  pc,          \* where each call stands
  job,         \* the workspace of the call, its item and its file
  calls,       \* tool calls so far
  applied,     \* history: how often REAPER has applied each plan
  passed,      \* history: the proposals that ran without an error
  written,     \* history: the proposals whose code came into the library
  settled,     \* history: the items whose caller was told it is over with them
  unasked      \* history: a script that asks for confirmation ran without

pendingVars == <<plans, expired, proposals, tested, home>>
callVars    == <<pc, job, calls>>
pastVars    == <<applied, passed, written, settled, unasked>>
vars        == <<pendingVars, library, callVars, pastVars>>

Steps == {"idle", "apply", "applied", "cancel", "test", "tested", "create", "fill",
          "saved", "discard", "update", "run"}

Content == [code : Ids \cup {Other}, confirm : BOOLEAN]

\* No header, so confirmation is needed (ParseFrontmatter); the file belongs to
\* the call that opened it.
DraftOf(c) == [code |-> Draft, confirm |-> TRUE, owner |-> c]

NoScript == [code |-> Absent, confirm |-> TRUE]

NoJob == [ws |-> Absent, item |-> Absent, file |-> Absent, confirm |-> FALSE]

ReviewTypeOK ==
  /\ plans \subseteq Ids /\ expired \subseteq plans
  /\ proposals \subseteq Ids /\ tested \subseteq proposals
  /\ plans \cap proposals = {}
  /\ home \in [Ids -> Workspaces \cup {Absent}]
  /\ \A i \in plans \cup proposals : home[i] \in Workspaces
  /\ library \in [Files -> Content \cup {NoScript} \cup {DraftOf(c) : c \in Callers}]
  /\ pc \in [Callers -> Steps]
  /\ \A c \in Callers : pc[c] = "idle" <=> job[c] = NoJob
  /\ calls \in 0 .. MaxCalls
  /\ applied \in [Ids -> Nat]
  /\ passed \subseteq Ids /\ written \subseteq Ids /\ settled \subseteq Ids
  /\ unasked \in BOOLEAN

\* A library that somebody has already put scripts in.
ReviewInit ==
  /\ plans = {} /\ expired = {} /\ proposals = {} /\ tested = {}
  /\ home = [i \in Ids |-> Absent]
  /\ library \in [Files -> {NoScript, [code |-> Other, confirm |-> FALSE]}]
  /\ pc = [c \in Callers |-> "idle"]
  /\ job = [c \in Callers |-> NoJob]
  /\ calls = 0
  /\ applied = [i \in Ids |-> 0]
  /\ passed = {} /\ written = {} /\ settled = {}
  /\ unasked = FALSE

-------------------------------------------------------------------------------

Begin(c, step, ws, item, file, confirm) ==
  /\ pc[c] = "idle"
  /\ calls < MaxCalls
  /\ calls' = calls + 1
  /\ pc' = [pc EXCEPT ![c] = step]
  /\ job' = [job EXCEPT ![c] = [ws |-> ws, item |-> item, file |-> file,
                                confirm |-> confirm]]

Goto(c, from, to) ==
  /\ pc[c] = from
  /\ pc' = [pc EXCEPT ![c] = to]
  /\ UNCHANGED <<job, calls>>

Finish(c, from) ==
  /\ pc[c] = from
  /\ pc' = [pc EXCEPT ![c] = "idle"]
  /\ job' = [job EXCEPT ![c] = NoJob]
  /\ UNCHANGED calls

\* A call that is over in one step.
AtOnce(c) ==
  /\ pc[c] = "idle"
  /\ calls < MaxCalls
  /\ calls' = calls + 1
  /\ UNCHANGED <<pc, job>>

Settle(item) == settled' = settled \cup {item}

Fresh == {i \in Ids : home[i] = Absent}

-------------------------------------------------------------------------------
(***************************************************************************)
(* Plans.                                                                  *)
(***************************************************************************)

Purge == /\ plans' = plans \ expired
         /\ expired' = {}

\* Mutant: room for one more.
ProposeOneMore(c) ==
  /\ AtOnce(c)
  /\ \E w \in Workspaces, i \in Fresh :
       /\ home' = [home EXCEPT ![i] = w]
       /\ Cardinality(plans \ expired) <= Capacity
       /\ plans' = (plans \ expired) \cup {i}
       /\ expired' = {}
  /\ UNCHANGED <<proposals, tested, library, pastVars>>

ProposePlan(c) ==
  /\ AtOnce(c)
  /\ IF Cardinality(plans \ expired) < Capacity
       THEN \E w \in Workspaces, i \in Fresh :
              /\ home' = [home EXCEPT ![i] = w]
              /\ plans' = (plans \ expired) \cup {i}
              /\ expired' = {}
       ELSE Purge /\ UNCHANGED home
  /\ UNCHANGED <<proposals, tested, library, pastVars>>

\* Only an expired plan makes it change anything.
CurrentPlan(c) ==
  /\ AtOnce(c)
  /\ Purge
  /\ UNCHANGED <<proposals, tested, home, library, pastVars>>

\* Ten minutes may be over at any time.
Expire ==
  /\ \E i \in plans \ expired : expired' = expired \cup {i}
  /\ UNCHANGED <<plans, proposals, tested, home, library, callVars, pastVars>>

\* Mutant: a plan of any workspace will do.
KnowsId(c, step) ==
  /\ \E w \in Workspaces, i \in plans :
       /\ i \notin expired
       /\ Begin(c, step, w, i, Absent, FALSE)
  /\ UNCHANGED <<pendingVars, library, pastVars>>

\* pendingPlan, for a plan that is there; asking for an expired one removes it.
LookUpPlan(c, step) ==
  /\ \E w \in Workspaces, i \in plans :
       \/ /\ i \notin expired
          /\ home[i] = w
          /\ Begin(c, step, w, i, Absent, FALSE)
          /\ UNCHANGED <<plans, expired>>
       \/ /\ i \in expired
          /\ AtOnce(c)
          /\ plans' = plans \ {i}
          /\ expired' = expired \ {i}
  /\ UNCHANGED <<proposals, tested, home, library, pastVars>>

\* Runner.RunBulkPlan: applied; or refused; or lost, before or after REAPER did it.
ApplyPlan(c) ==
  LET done == applied' = [applied EXCEPT ![job[c].item] = @ + 1] IN
  /\ \/ Goto(c, "apply", "applied") /\ done
     \/ Finish(c, "apply") /\ (done \/ UNCHANGED applied)
  /\ UNCHANGED <<pendingVars, library, passed, written, settled, unasked>>

\* Mutant: an applied plan stays.
KeepApplied(c) ==
  /\ Finish(c, "applied")
  /\ Settle(job[c].item)
  /\ UNCHANGED <<pendingVars, library, applied, passed, written, unasked>>

RemovePlan(c, step) ==
  /\ Finish(c, step)
  /\ Settle(job[c].item)
  /\ plans' = plans \ {job[c].item}
  /\ expired' = expired \ {job[c].item}
  /\ UNCHANGED <<proposals, tested, home, library, applied, passed, written, unasked>>

RemoveApplied(c) == RemovePlan(c, "applied")

CancelPlan(c) == RemovePlan(c, "cancel")

-------------------------------------------------------------------------------
(***************************************************************************)
(* Script proposals.                                                       *)
(***************************************************************************)

\* Mutant: ids are counted for each kind by itself.
ReuseId(c) ==
  /\ AtOnce(c)
  /\ Cardinality(proposals) < Capacity
  /\ \E w \in Workspaces, i \in Ids \ proposals :
       /\ home' = [home EXCEPT ![i] = w]
       /\ proposals' = proposals \cup {i}
  /\ UNCHANGED <<plans, expired, tested, library, pastVars>>

ProposeScript(c) ==
  /\ AtOnce(c)
  /\ Cardinality(proposals) < Capacity
  /\ \E w \in Workspaces, i \in Fresh :
       /\ home' = [home EXCEPT ![i] = w]
       /\ proposals' = proposals \cup {i}
  /\ UNCHANGED <<plans, expired, tested, library, pastVars>>

LookUpProposal(c, step, file, confirm) ==
  /\ \E w \in Workspaces, i \in proposals :
       home[i] = w /\ Begin(c, step, w, i, file, confirm)
  /\ UNCHANGED <<pendingVars, library, pastVars>>

\* A test that fails returns without a trace.
TestProposal(c) ==
  /\ \/ Goto(c, "test", "tested") /\ passed' = passed \cup {job[c].item}
     \/ Finish(c, "test") /\ UNCHANGED passed
  /\ UNCHANGED <<pendingVars, library, applied, written, settled, unasked>>

\* The copy goes back into the map, whether the proposal is still there or not.
StoreTested(c) ==
  /\ Finish(c, "tested")
  /\ proposals' = proposals \cup {job[c].item}
  /\ tested' = tested \cup {job[c].item}
  /\ UNCHANGED <<plans, expired, home, library, pastVars>>

RemoveProposal(c, step) ==
  /\ Finish(c, step)
  /\ Settle(job[c].item)
  /\ proposals' = proposals \ {job[c].item}
  /\ tested' = tested \ {job[c].item}
  /\ UNCHANGED <<plans, expired, home, library, applied, passed, written, unasked>>

DiscardProposal(c) == RemoveProposal(c, "discard")

\* Mutant: any proposal can be saved.
SaveUntested(c) ==
  \E f \in Files, ask \in BOOLEAN : LookUpProposal(c, "create", f, ask)

\* The copy must have been tested.
SaveProposal(c) ==
  /\ \E f \in Files, ask \in BOOLEAN : LookUpProposal(c, "create", f, ask)
  /\ job'[c].item \in tested

RemoveSaved(c) == RemoveProposal(c, "saved")

-------------------------------------------------------------------------------
(***************************************************************************)
(* The library.                                                            *)
(***************************************************************************)

CreateScript(c) ==
  /\ \E f \in Files, ask \in BOOLEAN : Begin(c, "create", Absent, Other, f, ask)
  /\ UNCHANGED <<pendingVars, library, pastVars>>

\* Mutant: without O_EXCL.
OpenAny(c) ==
  /\ Goto(c, "create", "fill")
  /\ library' = [library EXCEPT ![job[c].file] = DraftOf(c)]
  /\ UNCHANGED <<pendingVars, pastVars>>

\* Lstat and O_EXCL: the file is there from now on, without its text.
OpenNew(c) ==
  /\ \/ /\ Goto(c, "create", "fill")
        /\ library[job[c].file] = NoScript
        /\ library' = [library EXCEPT ![job[c].file] = DraftOf(c)]
     \/ /\ Finish(c, "create")
        /\ UNCHANGED library
  /\ UNCHANGED <<pendingVars, pastVars>>

\* The text goes into the file that was opened, if nobody has removed or replaced it;
\* the call may fail after that, as it closes the file or reads it back.  A write that
\* fails removes whatever has the name by now.
FillNew(c) ==
  LET f == job[c].file
      text == [code |-> job[c].item, confirm |-> job[c].confirm]
  IN
  /\ \/ /\ Finish(c, "fill") \/ (job[c].item # Other /\ Goto(c, "fill", "saved"))
        /\ IF library[f] = DraftOf(c)
             THEN /\ library' = [library EXCEPT ![f] = text]
                  /\ written' = written \cup ({job[c].item} \cap Ids)
             ELSE UNCHANGED <<library, written>>
     \/ /\ Finish(c, "fill")
        /\ library' = [library EXCEPT ![f] = NoScript]
        /\ UNCHANGED written
  /\ UNCHANGED <<pendingVars, applied, passed, settled, unasked>>

UpdateScript(c) ==
  /\ \E f \in Files, ask \in BOOLEAN :
       library[f] # NoScript /\ Begin(c, "update", Absent, Other, f, ask)
  /\ UNCHANGED <<pendingVars, library, pastVars>>

\* The rename puts the file there even if it has been deleted since.
ReplaceScript(c) ==
  /\ Finish(c, "update")
  /\ library' \in {library, [library EXCEPT ![job[c].file] =
                               [code |-> Other, confirm |-> job[c].confirm]]}
  /\ UNCHANGED <<pendingVars, pastVars>>

DeleteScript(c) ==
  /\ AtOnce(c)
  /\ \E f \in Files : library[f] # NoScript
                      /\ library' = [library EXCEPT ![f] = NoScript]
  /\ UNCHANGED <<pendingVars, pastVars>>

\* actions.run_safe and actions.run_confirmed: the tier is that of the script the
\* catalog lists.
FindAction(c) ==
  /\ \E f \in Files :
       /\ library[f] # NoScript
       /\ Begin(c, "run", Absent, Other, f, library[f].confirm)
  /\ UNCHANGED <<pendingVars, library, pastVars>>

\* The code that runs is that of a second read.
RunAction(c) ==
  LET script == library[job[c].file] IN
  /\ Finish(c, "run")
  /\ unasked' = (unasked \/ (script # NoScript /\ script.confirm /\ ~job[c].confirm))
  /\ UNCHANGED <<pendingVars, library, applied, passed, written, settled>>

-------------------------------------------------------------------------------

PlanStep(c) ==
  \/ ProposePlan(c) \/ CurrentPlan(c)
  \/ LookUpPlan(c, "apply") \/ ApplyPlan(c) \/ RemoveApplied(c)
  \/ LookUpPlan(c, "cancel") \/ CancelPlan(c)

ProposalStep(c) ==
  \/ ProposeScript(c)
  \/ LookUpProposal(c, "test", Absent, FALSE) \/ TestProposal(c) \/ StoreTested(c)
  \/ LookUpProposal(c, "discard", Absent, FALSE) \/ DiscardProposal(c)
  \/ SaveProposal(c) \/ RemoveSaved(c)

LibraryStep(c) ==
  \/ CreateScript(c) \/ OpenNew(c) \/ FillNew(c)
  \/ UpdateScript(c) \/ ReplaceScript(c) \/ DeleteScript(c)
  \/ FindAction(c) \/ RunAction(c)

ReviewDone ==
  /\ \A c \in Callers : pc[c] = "idle"
  /\ calls = MaxCalls
  /\ UNCHANGED vars

ReviewNext ==
  \/ \E c \in Callers : PlanStep(c) \/ ProposalStep(c) \/ LibraryStep(c)
  \/ Expire
  \/ ReviewDone

ReviewSpec == ReviewInit /\ [][ReviewNext]_vars

-------------------------------------------------------------------------------

\* Plans stay within their capacity.  Proposals do not, since a test puts its copy
\* back unasked; but only by as many as there are other calls at work.
CapacityHolds ==
  /\ Cardinality(plans) <= Capacity
  /\ Cardinality(proposals) < Capacity + Cardinality(Callers)

\* What SaveProposal brings into the library has run without an error, whichever
\* calls tested, discarded or resurrected the proposal in between.
SavedWasTested == written \subseteq passed

\* A plan whose caller was told that it is applied or cancelled can be applied by
\* no call that starts later: no step puts it back.
SettledPlansStayGone == settled \cap plans = {}

\* A call that works on an item belongs to the workspace of the item.
WorkspaceIsolation ==
  \A c \in Callers : job[c].item \in Ids => home[job[c].item] = job[c].ws

\* A finished file is never replaced by a create, however creates, deletes and
\* updates of one name overlap: Lstat before it cannot tell, O_EXCL can.
CreateReplacesNothing ==
  [][\A f \in Files :
       library'[f].code = Draft /\ library'[f] # library[f] => library[f] = NoScript]_vars

-------------------------------------------------------------------------------
\* service.go:588 and :421: "REAPER track plan cancelled. Nothing was applied.",
\* "Script proposal discarded without writing a library file."
WithdrawnHasNoEffect ==
  [][\A c \in Callers : pc[c] \in {"cancel", "discard"} /\ pc'[c] = "idle" =>
       applied[job[c].item] = 0 /\ job[c].item \notin written]_vars

\* serve.go, actions.run_safe: "Run a non-confirm tier action."
SafeRunsAreSafe == ~unasked
===============================================================================
