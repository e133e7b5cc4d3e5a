------------------------------ MODULE TidySession ------------------------------
(***************************************************************************)
(* Calls of Project Tidy on open projects (tidy_operations.go,             *)
(* tidy_service.go): a survey, the application of a selection, a dismissal.*)
(* They share with each other, and with what REAPER still owes an earlier  *)
(* call, three files of ~/.ori-reaper: state.json, plan.json and           *)
(* apply_result.json.  Only a run holds the lock of the Runner; the files  *)
(* are cleared, written and read outside it.                               *)
(* A crash of the plugin is every call giving up where it is.              *)
(***************************************************************************)
EXTENDS TidyStore, SharedRunner, Sequences

CONSTANTS
  Callers,
  Instances,  \* where to start from: [projects, open, calls, owing, changes]
  Nobody

ASSUME InstancesAssumption ==
  \A i \in Instances :
    /\ DOMAIN i.projects = Paths /\ i.open \in Paths
    /\ \A path \in Paths : IsProject(i.projects[path])

VARIABLES
  projects,    \* the project files as REAPER would load them
  open,        \* the one it has open
  stateFile, planFile, resultFile,
  pc, job,     \* per call: its place, what it knows
  left,        \* bounds: calls of each caller, changes by the user
  asked,       \* history: <<project, proposal, item>> approved by the user
  performed    \* history: and those REAPER has done

openVars == <<projects, open, performed>>
hostVars == <<openVars, sharedVars>>
fileVars == <<stateFile, planFile, resultFile>>
callVars == <<pc, job, left, asked>>
ownVars  == <<storeVars, openVars, fileVars, callVars>>
tidyVars == <<ownVars, sharedVars>>

Job(kind, path, pid, items) ==
  [kind |-> kind, path |-> path, pid |-> pid, items |-> items,
   unread |-> {}, older |-> {}, result |-> NoFile, answer |-> "none"]

NoJob == Job("none", Nobody, 0, {})

TidyStart(i) ==
  /\ StoreInit
  /\ projects = i.projects
  /\ open = i.open
  /\ left = [calls |-> i.calls, changes |-> i.changes]
  /\ stateFile = NoFile
  /\ planFile = NoFile
  /\ resultFile = NoFile
  /\ pc = [c \in Callers |-> "idle"]
  /\ job = [c \in Callers |-> NoJob]
  /\ asked = {}
  /\ performed = {}

TidyInit == \E i \in Instances : TidyStart(i) /\ SharedInit(i.owing)

-------------------------------------------------------------------------------
(***************************************************************************)
(* The canonical scripts, in REAPER.                                       *)
(***************************************************************************)

\* tidy_inspector.lua writes what is open.
Inspector ==
  /\ stateFile' = [path |-> open, project |-> projects[open]]
  /\ UNCHANGED <<projects, performed, planFile, resultFile>>

\* Mutant: whatever is open is changed.
AnyProject == planFile # NoFile

PlanIsForOpen == planFile # NoFile /\ planFile.path = open

\* tidy_applier.lua applies the plan that is in plan.json now, as far as REAPER
\* accepts the changes, and writes its result unless that fails.
Applier(reported) ==
  /\ PlanIsForOpen
  /\ \E failed \in SUBSET Prepared(projects[open], planFile.items) :
       LET result == ItemStatus(projects[open], planFile.items, failed)
           done   == AppliedIn(result)
       IN  /\ projects' = [projects EXCEPT ![open] = Changed(@, done)]
           /\ performed' = performed \cup ({open} \X {planFile.pid} \X done)
           /\ resultFile' = IF reported THEN [pid |-> planFile.pid, items |-> result]
                                        ELSE resultFile
  /\ UNCHANGED <<stateFile, planFile>>

Executes(script) == IF script = "inspect" THEN Inspector ELSE Applier(TRUE)

LateTidyRun ==
  /\ \E script \in {"inspect", "apply"} : LateRun(script) /\ Executes(script)
  /\ UNCHANGED <<open, storeVars, callVars>>

\* What the user may do to a marker.
MarkerChanges(ms) ==
  UNION {{[ms EXCEPT ![k].name = ms[l].name] : l \in DOMAIN ms \ {k}}
         \cup {[ms EXCEPT ![k].pos = ms[l].pos] : l \in DOMAIN ms \ {k}}
         \cup {[ms EXCEPT ![k].name = NoName], [l \in DOMAIN ms \ {k} |-> ms[l]]}
         : k \in DOMAIN ms}

\* The user opens another project, or edits the open one.
OutsideChange ==
  /\ left.changes > 0
  /\ left' = [left EXCEPT !.changes = @ - 1]
  /\ \/ open' \in Paths \ {open} /\ UNCHANGED projects
     \/ /\ \E ms \in MarkerChanges(projects[open].markers) :
             projects' = [projects EXCEPT ![open].markers = ms]
        /\ UNCHANGED open
     \/ /\ \E g \in DOMAIN projects[open].tracks, color \in TrackColors :
             projects' = [projects EXCEPT ![open].tracks[g].color = color]
        /\ UNCHANGED open
  /\ UNCHANGED <<performed, sharedVars, storeVars, fileVars, pc, job, asked>>

-------------------------------------------------------------------------------
(***************************************************************************)
(* The steps of a call.                                                    *)
(***************************************************************************)

Goto(c, from, to) ==
  /\ pc[c] = from
  /\ pc' = [pc EXCEPT ![c] = to]

Start(c, to, j) ==
  /\ Goto(c, "idle", to)
  /\ left.calls[c] > 0
  /\ left' = [left EXCEPT !.calls[c] = @ - 1]
  /\ job' = [job EXCEPT ![c] = j]

Stay == UNCHANGED <<job, left, asked>>

\* An error: the call returns, and what it has written stays.
GiveUp(c) ==
  /\ pc[c] # "idle"
  /\ pc' = [pc EXCEPT ![c] = "idle"]
  /\ UNCHANGED <<storeVars, hostVars, fileVars, job, left, asked>>

Return(c, from) ==
  /\ Goto(c, from, "idle")
  /\ job' = [job EXCEPT ![c].answer = "ok"]
  /\ UNCHANGED <<left, asked>>

Run(c, from, script, to) ==
  /\ Goto(c, from, to)
  /\ Executes(script)
  /\ Answered(script)
  /\ UNCHANGED <<open, storeVars>>
  /\ Stay

\* The call goes on, and REAPER has not come to its script.
RunMistaken(c, from, script, to) ==
  /\ Goto(c, from, to)
  /\ Mistaken(script)
  /\ UNCHANGED <<openVars, storeVars, fileVars>>
  /\ Stay

RunFails(c, from, script) ==
  /\ Goto(c, from, "idle")
  /\ Unanswered(script)
  /\ UNCHANGED <<openVars, storeVars, fileVars>>
  /\ Stay

\* runTidyInspection clears state.json first.
StartSurvey(c, path) ==
  /\ Start(c, "inspect", Job("survey", path, 0, {}))
  /\ stateFile' = NoFile
  /\ UNCHANGED <<planFile, resultFile, storeVars, hostVars, asked>>

\* selectedTidyPlan: some items of an open proposal.
StartApply(c, path, p, items) ==
  /\ ReadOpen(path, p)
  /\ items # {}
  /\ items \subseteq plans[p]
  /\ Start(c, "inspect", Job("apply", path, p, items))
  /\ asked' = asked \cup ({path} \X {p} \X items)
  /\ stateFile' = NoFile
  /\ UNCHANGED <<planFile, resultFile, storeVars, hostVars>>

Inspect(c) == Run(c, "inspect", "inspect", "inspected")

\* sameProjectPath.
Inspected(c) == stateFile # NoFile /\ stateFile.path = job[c].path

\* The end of runTidyInspection. A survey is generated from what was read, an
\* application needs no more of it.
ReadState(c) ==
  /\ Inspected(c)
  /\ \/ /\ job[c].kind = "survey"
        /\ Goto(c, "inspected", "propose")
        /\ job' = [job EXCEPT ![c].items = Survey(stateFile.project)]
     \/ /\ job[c].kind = "apply"
        /\ Goto(c, "inspected", "write")
        /\ UNCHANGED job
  /\ UNCHANGED <<storeVars, hostVars, fileVars, left, asked>>

\* A proposal that validates gets the instant of its creation.
MakeProposal(c) ==
  /\ job[c].items = {} \/ ValidPlan(job[c].items)
  /\ Len(home) < MaxProposals
  /\ Goto(c, "propose", "list")
  /\ job' = [job EXCEPT ![c].pid = Len(home) + 1]
  /\ home' = Append(home, job[c].path)
  /\ UNCHANGED <<plans, summaries, records, reportVars, hostVars, fileVars, left, asked>>

\* WriteProposal lists the names of the records; none may be newer, as the instant
\* in a record never changes.
ListProposals(c) ==
  /\ \A p \in Listed(job[c].path) : p < job[c].pid
  /\ Goto(c, "list", "read")
  /\ job' = [job EXCEPT ![c].unread = Listed(job[c].path)]
  /\ UNCHANGED <<storeVars, hostVars, fileVars, left, asked>>

\* It reads them one by one, in no order, and remembers the open ones.
ReadRecord(c) ==
  /\ Goto(c, "read", "read")
  /\ \E p \in job[c].unread :
       job' = [job EXCEPT ![c] = [job[c] EXCEPT
                 !.unread = @ \ {p}, !.older = @ \cup ({p} \cap OpenIn(job[c].path))]]
  /\ UNCHANGED <<storeVars, hostVars, fileVars, left, asked>>

RecordsRead(c) ==
  /\ job[c].unread = {}
  /\ Goto(c, "read", IF job[c].items = {} THEN "summary" ELSE "plan")
  /\ Stay /\ UNCHANGED <<storeVars, hostVars, fileVars>>

SavePlan(c) ==
  /\ Goto(c, "plan", "summary")
  /\ WritePlan(job[c].pid, job[c].items)
  /\ Stay /\ UNCHANGED <<hostVars, fileVars>>

\* Mutant: the record before the summary.
RecordFirst(c) ==
  /\ Goto(c, "summary", "record")
  /\ WriteRecord(job[c].pid, IF job[c].items = {} THEN "already_tidy" ELSE "open", 0)
  /\ Stay /\ UNCHANGED <<hostVars, fileVars>>

SaveSummary(c) ==
  /\ Goto(c, "summary", "record")
  /\ WriteSummary(job[c].pid)
  /\ Stay /\ UNCHANGED <<hostVars, fileVars>>

SaveRecord(c) ==
  /\ Goto(c, "record", "supersede")
  /\ WriteRecord(job[c].pid, IF job[c].items = {} THEN "already_tidy" ELSE "open", 0)
  /\ Stay /\ UNCHANGED <<hostVars, fileVars>>

\* Mutant: only the latest open proposal is superseded.
SupersedeLatest(c) ==
  /\ Goto(c, "supersede", "supersede")
  /\ \E p \in job[c].older :
       /\ \A q \in job[c].older : q <= p
       /\ WriteRecord(p, "superseded", job[c].pid)
       /\ job' = [job EXCEPT ![c].older = {}]
  /\ UNCHANGED <<hostVars, fileVars, left, asked>>

\* Whatever became of an older proposal since it was listed.
Supersede(c) ==
  /\ Goto(c, "supersede", "supersede")
  /\ \E p \in job[c].older :
       /\ WriteRecord(p, "superseded", job[c].pid)
       /\ job' = [job EXCEPT ![c].older = @ \ {p}]
  /\ UNCHANGED <<hostVars, fileVars, left, asked>>

SurveyDone(c) ==
  /\ job[c].older = {}
  /\ Return(c, "supersede")
  /\ UNCHANGED <<storeVars, hostVars, fileVars>>

WriteRunnerPlan(c) ==
  /\ Goto(c, "write", "clear")
  /\ planFile' = [pid |-> job[c].pid, path |-> job[c].path, items |-> job[c].items]
  /\ Stay /\ UNCHANGED <<storeVars, hostVars, stateFile, resultFile>>

ClearResult(c) ==
  /\ Goto(c, "clear", "apply")
  /\ resultFile' = NoFile
  /\ Stay /\ UNCHANGED <<storeVars, hostVars, stateFile, planFile>>

Apply(c) == Run(c, "apply", "apply", "applied")

\* finalize could not write the result: the changes stay, the run is an error.
ApplyUnreported(c) ==
  /\ Goto(c, "apply", "idle")
  /\ Applier(FALSE)
  /\ Answered("apply")
  /\ UNCHANGED <<open, storeVars>>
  /\ Stay

\* Mutant: any result will do.
AnyResult(c) == resultFile # NoFile

\* ValidateAgainstPlan: a result of this selection.
OwnResult(c) ==
  /\ resultFile # NoFile
  /\ resultFile.pid = job[c].pid
  /\ DOMAIN resultFile.items = job[c].items

\* The beginning of WriteApplyReport reads the proposal once more.
ReadResult(c) ==
  /\ Goto(c, "applied", "result")
  /\ OwnResult(c)
  /\ ReadOpen(job[c].path, job[c].pid)
  /\ Unreported(job[c].pid)
  /\ job' = [job EXCEPT ![c].result = resultFile.items]
  /\ UNCHANGED <<storeVars, hostVars, fileVars, left, asked>>

SaveResult(c) ==
  /\ Goto(c, "result", "page")
  /\ WriteResult(job[c].pid, job[c].result)
  /\ Stay /\ UNCHANGED <<hostVars, fileVars>>

\* Mutant: the status before the page of the report.
StatusFirst(c) ==
  /\ Goto(c, "page", "status")
  /\ WriteRecord(job[c].pid, StatusOf(job[c].result), 0)
  /\ Stay /\ UNCHANGED <<hostVars, fileVars>>

SavePage(c) ==
  /\ Goto(c, "page", "status")
  /\ WritePage(job[c].pid)
  /\ Stay /\ UNCHANGED <<hostVars, fileVars>>

SaveStatus(c) ==
  /\ Goto(c, "status", "report")
  /\ WriteRecord(job[c].pid, StatusOf(job[c].result), 0)
  /\ Stay /\ UNCHANGED <<hostVars, fileVars>>

SaveReport(c) ==
  /\ Return(c, "report")
  /\ WriteReport(job[c].pid, job[c].result)
  /\ UNCHANGED <<hostVars, fileVars>>

StartDismissal(c, path, p) ==
  /\ ReadOpen(path, p)
  /\ Start(c, "dismiss", Job("dismiss", path, p, {}))
  /\ UNCHANGED <<storeVars, hostVars, fileVars, asked>>

Dismiss(c) ==
  /\ Return(c, "dismiss")
  /\ WriteRecord(job[c].pid, "dismissed", 0)
  /\ UNCHANGED <<hostVars, fileVars>>

Begin(c) ==
  \E path \in Paths :
    \/ StartSurvey(c, path)
    \/ \E p \in Pids :
         StartDismissal(c, path, p) \/ \E items \in SUBSET plans[p] : StartApply(c, path, p, items)

CallStep(c) ==
  \/ Begin(c) \/ Inspect(c) \/ RunMistaken(c, "inspect", "inspect", "inspected")
  \/ RunFails(c, "inspect", "inspect") \/ ReadState(c) \/ MakeProposal(c)
  \/ ListProposals(c) \/ ReadRecord(c) \/ RecordsRead(c)
  \/ SavePlan(c) \/ SaveSummary(c) \/ SaveRecord(c) \/ Supersede(c) \/ SurveyDone(c)
  \/ WriteRunnerPlan(c) \/ ClearResult(c) \/ Apply(c)
  \/ RunMistaken(c, "apply", "apply", "applied") \/ RunFails(c, "apply", "apply")
  \/ ApplyUnreported(c) \/ ReadResult(c) \/ SaveResult(c) \/ SavePage(c)
  \/ SaveStatus(c) \/ SaveReport(c) \/ Dismiss(c) \/ GiveUp(c)

TidyStep ==
  \/ \E c \in Callers : CallStep(c)
  \/ LateTidyRun
  \/ OutsideChange

TidyNext == TidyStep \/ (Forget /\ UNCHANGED ownVars)

TidySpec == TidyInit /\ [][TidyNext]_tidyVars

-------------------------------------------------------------------------------
JobTypeOK(j) ==
  /\ j.kind \in {"none", "survey", "apply", "dismiss"}
  /\ j.path \in Paths \cup {Nobody}
  /\ j.pid \in Pids \cup {0}
  /\ j.unread \cup j.older \subseteq Pids
  /\ j.answer \in {"none", "ok"}

\* The types of everything a call, REAPER and the store keep.
TidyTypeOK ==
  /\ home \in Seq(Paths) /\ Len(home) <= MaxProposals
  /\ plans \in [Pids -> SUBSET UNION {plans[p] : p \in Pids}]
  /\ summaries \cup pages \subseteq Pids
  /\ records \in [Pids -> [status : Statuses, by : Pids \cup {0}]]
  /\ DOMAIN projects = Paths /\ open \in Paths
  /\ \A c \in Callers : JobTypeOK(job[c])

\* Only what the user selected is done, to the project it was proposed of,
\* whatever project is open by then, however late REAPER comes to the applier and
\* whichever call's plan.json it finds (RunTidyApplySelection, tidy_applier.lua).
OnlyWhatWasAsked == performed \subseteq asked

\* A report names no change that was not made, although its result file may be
\* that of another call (readTidyApplyResult, WriteApplyReport).
ReportsAreTrue ==
  \A p \in Pids : reports[p] # NoFile =>
    \A i \in AppliedIn(reports[p]) : <<home[p], p, i>> \in performed

\* A record can be loaded as soon as it is there, wherever the call that wrote it
\* stopped: otherwise TidyStatus fails for good (WriteProposal).
RecordsLoad == \A p \in DOMAIN home : records[p] # NoRecord => Loads(p)

\* A proposal whose record says it was applied has its result and its page, if
\* a crash took only the report record (WriteApplyReport).
AppliedHasResult ==
  \A p \in DOMAIN home :
    records[p].status \in {"applied", "apply_skipped", "apply_failed"} =>
      results[p] # NoFile /\ p \in pages

OneCaller == \E c \in Callers : \A d \in Callers \ {c} : job[d] = NoJob

\* A survey that returns has settled every older proposal of its project, those
\* an interrupted survey left open too, unless calls overlap (WriteProposal).
SurveySettlesOlder ==
  \A c \in Callers :
    OneCaller /\ pc[c] = "idle" /\ job[c].kind = "survey" /\ job[c].answer = "ok" =>
      \A p \in OpenIn(job[c].path) : p >= job[c].pid

Places(p) == {p.markers[k].pos : k \in {l \in DOMAIN p.markers : ~l.region}}

\* Deleting duplicates leaves a marker at every place that had one, although the
\* user moves and renames markers between the survey and the application.
PlacesKeepAMarker ==
  [][performed' # performed => \A path \in Paths : Places(projects'[path]) = Places(projects[path])]_tidyVars

\* Of no project the survey proposes to delete the only marker of a name at a place.
TidyKeepsNames == \A path \in Paths : KeepsNames(projects[path])

\* Following the proposals for any project ends after two rounds.
TidyInTwoRounds == \A path \in Paths : TwoRoundsTidy(projects[path])

\* Everything TidyPromise says.
Promise ==
  INSTANCE TidyPromise WITH
    standing <- [p \in Pids |-> records[p].status], made <- performed

KeepsTidyPromise == Promise!Spec
===============================================================================
