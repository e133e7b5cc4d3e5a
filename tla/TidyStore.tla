------------------------------- MODULE TidyStore -------------------------------
(***************************************************************************)
(* The artifacts of Project Tidy in the folder tidy beside a project file  *)
(* (tidy_artifacts.go, tidy_reports.go): three files of a proposal and     *)
(* three of the report of its application, each replaced as a whole by a   *)
(* rename.  Nothing is locked; what a call knows of a file is what it read.*)
(*                                                                         *)
(* A proposal is known by the instant of its creation, which also orders   *)
(* the proposals of a project (tidyProposalOrderBefore).                   *)
(***************************************************************************)
EXTENDS TidyPlans

CONSTANTS
  Paths,         \* project files, each in a directory of its own
  MaxProposals   \* bound on the proposals made

ASSUME StoreAssumption == MaxProposals \in Nat

VARIABLES
  home,       \* the project each proposal was made of
  plans,      \* proposal-<id>.plan.json: the items, none without the file
  summaries,  \* the proposals that have proposal-<id>.md
  records,    \* proposal-<id>.state.json
  results,    \* result-<id>.json: the status of every item applied
  pages,      \* the proposals that have report-<id>.md
  reports     \* report-<id>.state.json

proposalVars == <<home, plans, summaries, records>>
reportVars   == <<results, pages, reports>>
storeVars    == <<proposalVars, reportVars>>

Pids == 1 .. MaxProposals

\* What a call has of a file that does not exist.
NoFile == <<>>

Settled  == {"dismissed", "superseded", "applied", "apply_skipped", "apply_failed"}
Statuses == {"none", "open", "already_tidy"} \cup Settled

Record(status, by) == [status |-> status, by |-> by]

NoRecord == Record("none", 0)

StoreInit ==
  /\ home = <<>>
  /\ plans = [p \in Pids |-> {}]
  /\ summaries = {}
  /\ records = [p \in Pids |-> NoRecord]
  /\ results = [p \in Pids |-> NoFile]
  /\ pages = {}
  /\ reports = [p \in Pids |-> NoFile]

\* listRecords in the directory of a project.
Listed(path) == {p \in DOMAIN home : home[p] = path /\ records[p] # NoRecord}

OpenIn(path) == {p \in Listed(path) : records[p].status = "open"}

\* loadRecordArtifacts finds what the record names.
Loads(p) ==
  /\ p \in summaries
  /\ records[p].status # "already_tidy" => plans[p] # {}

\* Mutant: any proposal that loads.
ReadAny(path, p) == p \in Listed(path) /\ Loads(p)

\* ReadProposal, and the status is still "open".
ReadOpen(path, p) == p \in OpenIn(path) /\ Loads(p)

\* WriteApplyReport never replaces an artifact of an earlier report.
Unreported(p) == results[p] = NoFile /\ p \notin pages /\ reports[p] = NoFile

WritePlan(p, items) ==
  /\ plans' = [plans EXCEPT ![p] = items]
  /\ UNCHANGED <<home, summaries, records, reportVars>>

WriteSummary(p) ==
  /\ summaries' = summaries \cup {p}
  /\ UNCHANGED <<home, plans, records, reportVars>>

\* The whole record, from the copy the caller has read.
WriteRecord(p, status, by) ==
  /\ records' = [records EXCEPT ![p] = Record(status, by)]
  /\ UNCHANGED <<home, plans, summaries, reportVars>>

WriteResult(p, result) ==
  /\ results' = [results EXCEPT ![p] = result]
  /\ UNCHANGED <<proposalVars, pages, reports>>

WritePage(p) ==
  /\ pages' = pages \cup {p}
  /\ UNCHANGED <<proposalVars, results, reports>>

WriteReport(p, result) ==
  /\ reports' = [reports EXCEPT ![p] = result]
  /\ UNCHANGED <<proposalVars, results, pages>>
===============================================================================
