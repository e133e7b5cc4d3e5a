---------------------------- MODULE ExchangeClients ----------------------------
(***************************************************************************)
(* The other writers of the exchange, beside Runner.run and none of them   *)
(* under its mutex:                                                        *)
(*   - verifyProject (verifier_darwin.go), the connection test.  It holds  *)
(*     a mutex of its own, borrows the inbox for a script that answers     *)
(*     into verify-<nonce>.txt, and puts back what it found;               *)
(*   - Manager.Exec (runner_cli.go), the command line in another process,  *)
(*     which holds no lock.                                                *)
(***************************************************************************)
EXTENDS RunnerExchange

CONSTANTS
  Checks,    \* the calls of verifyProject, each named by its one-shot script
  Execs      \* the calls of Manager.Exec, each named by the script it is given

ASSUME ClientsAssumption ==
  /\ Checks \subseteq Scripts /\ Execs \subseteq Scripts
  /\ Checks \cap Edits = {}
  /\ Runs \cap Checks = {} /\ Runs \cap Execs = {} /\ Checks \cap Execs = {}

VARIABLES
  cpc,        \* where each connection test stands
  verdict,    \* its VerificationObservation
  kept,       \* the inbox and status it found
  responses,  \* the verify-<nonce>.txt files there are, by their test
  xpc,        \* where each command line stands
  said        \* what it printed

checkVars == <<cpc, verdict, kept, responses>>
execVars  == <<xpc, said>>
clientVars == <<checkVars, execVars>>
allVars   == <<vars, clientVars>>

InExchange == {"remove", "write", "trigger", "poll", "restoreStatus",
               "restoreInbox"}

CheckActive(c) == cpc[c] \in InExchange
ExecActive(x)  == xpc[x] \in {"truncate", "fill", "trigger", "poll"}
OthersActive   == (\E c \in Checks : CheckActive(c)) \/ (\E x \in Execs : ExecActive(x))

NothingKept == [inbox |-> NoFile, status |-> "none"]

ClientsTypeOK ==
  /\ TypeOK
  /\ cpc \in [Checks -> InExchange \cup {"idle", "done"}]
  /\ verdict \in [Checks -> {"none", "succeeded", "wrongProject", "runnerFailed",
                             "checkFailed", "timedOut"}]
  /\ kept \in [Checks -> [inbox : Scripts \cup {NoFile, Blank}, status : StatusTexts]]
  /\ responses \subseteq Checks
  /\ xpc \in [Execs -> {"idle", "truncate", "fill", "trigger", "poll", "done"}]
  /\ said \in [Execs -> {"none", "failed", "error", "ok", "triggered"}]

ClientsInit ==
  /\ Init
  /\ cpc = [c \in Checks |-> "idle"]
  /\ verdict = [c \in Checks |-> "none"]
  /\ kept = [c \in Checks |-> NothingKept]
  /\ responses = {}
  /\ xpc = [x \in Execs |-> "idle"]
  /\ said = [x \in Execs |-> "none"]

-------------------------------------------------------------------------------
(***************************************************************************)
(* Runner.run and REAPER beside them.  "overlap" now also tells that some  *)
(* other client was in the exchange during the run.                        *)
(***************************************************************************)

RunClient(r) ==
  /\ RunStep(r)
  /\ pc[r] = "lock" => ~OthersActive
  /\ UNCHANGED clientVars

LockBesideOthers(r) ==
  /\ pc[r] = "lock"
  /\ LockIsFree
  /\ OthersActive
  /\ pc' = [pc EXCEPT ![r] = "clear"]
  /\ overlap' = [overlap EXCEPT ![r] = TRUE]
  /\ UNCHANGED <<hostVars, answer, got, clientVars>>

\* trustedVerificationScript writes its response when it does not fail.
ReaperClient ==
  /\ Reaper
  /\ responses' = IF ran' # ran /\ outcome' = "ok"
                    THEN responses \cup ({loaded} \cap Checks) ELSE responses
  /\ UNCHANGED <<cpc, verdict, kept, execVars>>

\* What a step of another client in the exchange means for the runs.
Disturb ==
  /\ overlap' = [r \in Runs |-> overlap[r] \/ pc[r] \in Holding]
  /\ UNCHANGED <<pc, answer, got>>

-------------------------------------------------------------------------------
(***************************************************************************)
(* verifyProject.                                                          *)
(***************************************************************************)

CheckGoto(c, from, to) ==
  /\ cpc[c] = from
  /\ cpc' = [cpc EXCEPT ![c] = to]

\* The observation is fixed; the deferred calls follow: remove the response,
\* restore the status, restore the inbox, unlock.
Conclude(c, from, observation) ==
  /\ CheckGoto(c, from, "restoreStatus")
  /\ verdict' = [verdict EXCEPT ![c] = observation]

\* Under the lock the test keeps copies of the two files.  Nothing but the Unlock
\* is deferred yet when it cannot.
CheckSnapshot(c) ==
  /\ \A d \in Checks : ~CheckActive(d)
  /\ \/ /\ CheckGoto(c, "idle", "remove")
        /\ kept' = [kept EXCEPT ![c] = [inbox |-> inbox, status |-> status]]
        /\ UNCHANGED verdict
     \/ /\ CheckGoto(c, "idle", "done")
        /\ verdict' = [verdict EXCEPT ![c] = "checkFailed"]
        /\ UNCHANGED kept
  /\ Disturb
  /\ UNCHANGED <<hostVars, execVars, responses>>

CheckRemoveStatus(c) ==
  /\ CheckGoto(c, "remove", "write")
  /\ status' \in {status, "none"}      \* the error of os.Remove is ignored
  /\ Disturb
  /\ UNCHANGED <<inbox, receipt, pending, luaVars, ran, execVars, verdict,
                 kept, responses>>

CheckWriteInbox(c) ==
  /\ \/ /\ CheckGoto(c, "write", "trigger")
        /\ inbox' = c
        /\ UNCHANGED verdict
     \/ /\ Conclude(c, "write", "checkFailed")
        /\ UNCHANGED inbox
  /\ Disturb
  /\ UNCHANGED <<status, receipt, pending, luaVars, ran, execVars, kept,
                 responses>>

CheckTrigger(c) ==
  /\ \/ /\ CheckGoto(c, "trigger", "poll")
        /\ pending' = pending + 1
        /\ UNCHANGED verdict
     \/ /\ \E o \in {"timedOut", "runnerFailed"} : Conclude(c, "trigger", o)
        /\ pending' \in {pending, pending + 1}
  /\ Disturb
  /\ UNCHANGED <<fileVars, luaVars, ran, execVars, kept, responses>>

\* Mutant: the status alone decides, as it does for Runner.run.
StatusDecides(c) ==
  /\ \/ status = "error" /\ Conclude(c, "poll", "runnerFailed")
     \/ status = "ok" /\ Conclude(c, "poll", "succeeded")
     \/ Conclude(c, "poll", "timedOut")
  /\ UNCHANGED <<hostVars, runVars, execVars, kept, responses>>

\* The script may be writing its response: what is read then is malformed.
ResponseOpened(c) == c \in responses \/ (stage = "loaded" /\ loaded = c)

\* readVerificationResponse: an error status decides, then the response file,
\* and a response that fits waits for the status "ok".
CheckPoll(c) ==
  /\ \/ status = "error" /\ Conclude(c, "poll", "runnerFailed")
     \/ status # "error" /\ ResponseOpened(c) /\ Conclude(c, "poll", "wrongProject")
     \/ status = "ok" /\ c \in responses /\ Conclude(c, "poll", "succeeded")
     \/ Conclude(c, "poll", "timedOut")
  /\ UNCHANGED <<hostVars, runVars, execVars, kept, responses>>

\* The response file, which nobody else reads, goes first.  restoreExchangeFile
\* ignores its errors too.
CheckRestoreStatus(c) ==
  /\ CheckGoto(c, "restoreStatus", "restoreInbox")
  /\ responses' = responses \ {c}
  /\ status' \in {status, kept[c].status}
  /\ Disturb
  /\ UNCHANGED <<inbox, receipt, pending, luaVars, ran, execVars, verdict, kept>>

CheckRestoreInbox(c) ==
  /\ CheckGoto(c, "restoreInbox", "done")
  /\ inbox' \in {inbox, kept[c].inbox}
  /\ kept' = [kept EXCEPT ![c] = NothingKept]
  /\ Disturb
  /\ UNCHANGED <<status, receipt, pending, luaVars, ran, execVars, verdict,
                 responses>>

CheckStep(c) ==
  \/ CheckSnapshot(c) \/ CheckRemoveStatus(c) \/ CheckWriteInbox(c)
  \/ CheckTrigger(c) \/ CheckPoll(c) \/ CheckRestoreStatus(c)
  \/ CheckRestoreInbox(c)

-------------------------------------------------------------------------------
(***************************************************************************)
(* Manager.Exec.                                                           *)
(***************************************************************************)

ExecGoto(x, from, to) ==
  /\ xpc[x] = from
  /\ xpc' = [xpc EXCEPT ![x] = to]
  /\ UNCHANGED said

Say(x, from, text) ==
  /\ xpc[x] = from
  /\ xpc' = [xpc EXCEPT ![x] = "done"]
  /\ said' = [said EXCEPT ![x] = text]

ExecRemoveStatus(x) ==
  /\ ExecGoto(x, "idle", "truncate")
  /\ status' \in {status, "none"}
  /\ Disturb
  /\ UNCHANGED <<inbox, receipt, pending, luaVars, ran, checkVars>>

\* os.WriteFile truncates the inbox in place, then fills it; either may fail.
ExecTruncate(x) ==
  /\ \/ ExecGoto(x, "truncate", "fill") /\ inbox' = Blank
     \/ Say(x, "truncate", "failed") /\ UNCHANGED inbox
  /\ Disturb
  /\ UNCHANGED <<status, receipt, pending, luaVars, ran, checkVars>>

ExecFill(x) ==
  /\ \/ ExecGoto(x, "fill", "trigger") /\ inbox' = x
     \/ Say(x, "fill", "failed") /\ UNCHANGED inbox
  /\ Disturb
  /\ UNCHANGED <<status, receipt, pending, luaVars, ran, checkVars>>

ExecTrigger(x) ==
  /\ \/ ExecGoto(x, "trigger", "poll") /\ pending' = pending + 1
     \/ Say(x, "trigger", "failed") /\ pending' \in {pending, pending + 1}
  /\ Disturb
  /\ UNCHANGED <<fileVars, luaVars, ran, checkVars>>

\* waitStatus passes over an empty file, and after two seconds Exec says
\* "runner triggered".
ExecPoll(x) ==
  /\ \/ status = "ok" /\ Say(x, "poll", "ok")
     \/ status = "error" /\ Say(x, "poll", "error")
     \/ Say(x, "poll", "triggered")
  /\ UNCHANGED <<hostVars, runVars, checkVars>>

ExecStep(x) ==
  \/ ExecRemoveStatus(x) \/ ExecTruncate(x) \/ ExecFill(x) \/ ExecTrigger(x)
  \/ ExecPoll(x)

-------------------------------------------------------------------------------

ClientsDone ==
  /\ AllReturned
  /\ \A c \in Checks : cpc[c] = "done"
  /\ \A x \in Execs : xpc[x] = "done"
  /\ UNCHANGED clientVars

ClientsNext ==
  \/ \E r \in Runs : RunClient(r) \/ LockBesideOthers(r)
  \/ \E c \in Checks : CheckStep(c)
  \/ \E x \in Execs : ExecStep(x)
  \/ ReaperClient
  \/ ClientsDone

ClientsSpec == ClientsInit /\ [][ClientsNext]_allVars

-------------------------------------------------------------------------------

\* A connection test succeeds only if REAPER ran its own script: the nonce in the
\* response file keeps the "ok" of anybody else's script from passing for it,
\* whoever shares the exchange (readVerificationResponse).
VerifiedMeansProbed == \A c \in Checks : verdict[c] = "succeeded" => ran[c] >= 1

\* A run that shared the exchange with nobody keeps the promise of an "ok",
\* tests and command lines before and after it notwithstanding.
OkWhenUndisturbed ==
  \A r \in Runs : answer[r] = "ok" /\ ~overlap[r] =>
    /\ ran[r] >= 1
    /\ r \in Edits => got[r] = r

\* verifier.go:7: "the complete no-op project query".  Where connection tests are
\* the only other clients, a script that ran and was reported "ok" to a call that
\* had REAPER to itself is not run again.
VerificationIsNoOp ==
  \A r \in Runs : answer[r] = "ok" /\ ~overlap[r] => ran[r] = 1
===============================================================================
