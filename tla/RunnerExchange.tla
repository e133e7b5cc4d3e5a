---------------------------- MODULE RunnerExchange ----------------------------
(***************************************************************************)
(* Runner.run (runner.go): one script through the exchange, for any number *)
(* of concurrent tool calls of one plugin process.                         *)
(*                                                                         *)
(*   idle -> lock -> clear [-> clearReceipt] -> write -> resolve -> trigger*)
(*        -> poll [-> receipt] -> done                                     *)
(*                                                                         *)
(* From "clear" to "receipt" the run holds Runner.mu; the deferred Unlock  *)
(* belongs to the step that returns. Every file operation is a step of its *)
(* own, since REAPER's main thread runs between any two of them.           *)
(***************************************************************************)
EXTENDS ReaperHost

CONSTANT Runs      \* the calls of Runner.run, each named by the script it runs

ASSUME RunsAssumption == Runs \subseteq Scripts

VARIABLES
  pc,        \* where each call stands
  answer,    \* what each call returned
  got,       \* the receipt it returned with an "ok"
  overlap    \* history: REAPER still owed work when the call took the lock

runVars == <<pc, answer, got, overlap>>
vars    == <<hostVars, runVars>>

Holding == {"clear", "clearReceipt", "write", "resolve", "trigger", "poll",
            "receipt"}

\* Before the first byte of the script is in the inbox.
Unwritten == {"idle", "lock", "clear", "clearReceipt", "write"}

\* The answers, by the Outcome and ErrorText the caller sees:
\*   unavailable   ErrRunnerUnavailable, before anything was sent
\*   disconnected  "REAPER is not connected. Nothing was run."
\*   notAccepted   "The REAPER runner did not accept the script."
\*   ok, error     what last_status.txt says
\*   invalid       "The REAPER runner returned an invalid status."
\*   noReceipt     "The REAPER edit did not report a result."
\*   timedOut      "The REAPER runner timed out."
Failures == {"unavailable", "disconnected", "notAccepted", "error", "invalid",
             "noReceipt", "timedOut"}

TypeOK ==
  /\ HostTypeOK
  /\ pc      \in [Runs -> Holding \cup {"idle", "lock", "done"}]
  /\ answer  \in [Runs -> Failures \cup {"none", "ok"}]
  /\ got     \in [Runs -> Edits \cup {NoFile}]
  /\ overlap \in [Runs -> BOOLEAN]

Init ==
  /\ HostInit
  /\ pc = [r \in Runs |-> "idle"]
  /\ answer = [r \in Runs |-> "none"]
  /\ got = [r \in Runs |-> NoFile]
  /\ overlap = [r \in Runs |-> FALSE]

-------------------------------------------------------------------------------

Goto(r, from, to) ==
  /\ pc[r] = from
  /\ pc' = [pc EXCEPT ![r] = to]
  /\ UNCHANGED <<answer, got, overlap>>

\* Return, and with it the deferred Unlock.
Return(r, from, result) ==
  /\ pc[r] = from
  /\ pc' = [pc EXCEPT ![r] = "done"]
  /\ answer' = [answer EXCEPT ![r] = result]
  /\ UNCHANGED <<got, overlap>>

\* The checks before the lock: is REAPER there, is the runner installed, does
\* its root resolve, does the edit generate Lua that fits.
Preflight(r) ==
  /\ \/ Goto(r, "idle", "lock")
     \/ Return(r, "idle", "disconnected")
     \/ Return(r, "idle", "unavailable")
  /\ UNCHANGED hostVars

\* Mutant: the lock covers the files only and is free again during the wait.
LockAroundFiles ==
  \A r \in Runs : pc[r] \notin {"clear", "clearReceipt", "write"}

\* Mutant: no lock.
NoLock == TRUE

LockIsFree == \A r \in Runs : pc[r] \notin Holding

Owed == pending > 0 \/ stage # "idle"

Lock(r) ==
  /\ pc[r] = "lock"
  /\ LockIsFree
  /\ pc' = [pc EXCEPT ![r] = "clear"]
  /\ overlap' = [overlap EXCEPT ![r] = Owed]
  /\ UNCHANGED <<hostVars, answer, got>>

\* Mutant: the last status is not removed.
KeepStatus(r) ==
  /\ Goto(r, "clear", IF r \in Edits THEN "clearReceipt" ELSE "write")
  /\ UNCHANGED hostVars

\* removeRunnerStatus(statusPath): gone, or the run stops there.
ClearStatus(r) ==
  \/ /\ Goto(r, "clear", IF r \in Edits THEN "clearReceipt" ELSE "write")
     /\ status' = "none"
     /\ UNCHANGED <<inbox, receipt, pending, luaVars, ran>>
  \/ /\ Return(r, "clear", "unavailable")
     /\ UNCHANGED hostVars

\* Mutant: the last receipt is not removed.
KeepReceipt(r) ==
  /\ Goto(r, "clearReceipt", "write")
  /\ UNCHANGED hostVars

ClearReceipt(r) ==
  \/ /\ Goto(r, "clearReceipt", "write")
     /\ receipt' = NoFile
     /\ UNCHANGED <<inbox, status, pending, luaVars, ran>>
  \/ /\ Return(r, "clearReceipt", "unavailable")
     /\ UNCHANGED hostVars

\* atomicRunnerWrite renames a finished temporary file over inbox.lua, so a
\* failure at any point before that leaves the earlier script in place.
WriteInbox(r) ==
  \/ /\ Goto(r, "write", "resolve")
     /\ inbox' = r
     /\ UNCHANGED <<status, receipt, pending, luaVars, ran>>
  \/ /\ Return(r, "write", "unavailable")
     /\ UNCHANGED hostVars

\* The second look for REAPER. When it fails the script stays in the inbox.
Resolve(r) ==
  /\ \/ Goto(r, "resolve", "trigger")
     \/ Return(r, "resolve", "disconnected")
  /\ UNCHANGED hostVars

\* Mutant: a request without an answer is sent once more.
RetryTrigger(r) ==
  /\ \/ Goto(r, "trigger", "poll") /\ pending' = pending + 1
     \/ Goto(r, "trigger", "poll") /\ pending' = pending + 2
  /\ UNCHANGED <<fileVars, luaVars, ran>>

\* The HTTP request for the runner's command. Its two seconds may be over, or
\* its answer be no 200, although REAPER has received the request.
Trigger(r) ==
  \/ /\ Goto(r, "trigger", "poll")
     /\ pending' = pending + 1
     /\ UNCHANGED <<fileVars, luaVars, ran>>
  \/ /\ Return(r, "trigger", "notAccepted")
     /\ pending' \in {pending, pending + 1}
     /\ UNCHANGED <<fileVars, luaVars, ran>>

\* readRunnerStatus, every 50 ms. Any file is a complete answer, the empty one
\* too: it is neither "ok" nor does it start with "error:".
Poll(r) ==
  /\ \/ /\ status = "ok"
        /\ IF r \in Edits THEN Goto(r, "poll", "receipt")
                          ELSE Return(r, "poll", "ok")
     \/ status = "error" /\ Return(r, "poll", "error")
     \/ status = "empty" /\ Return(r, "poll", "invalid")
  /\ UNCHANGED hostVars

\* Mutant: the wait has no deadline.
WaitForever(r) == FALSE

\* select may see the deadline between a read that found nothing and the next.
Timeout(r) ==
  /\ Return(r, "poll", "timedOut")
  /\ UNCHANGED hostVars

ReadReceipt(r) ==
  /\ \/ /\ receipt # NoFile
        /\ pc[r] = "receipt"
        /\ pc' = [pc EXCEPT ![r] = "done"]
        /\ answer' = [answer EXCEPT ![r] = "ok"]
        /\ got' = [got EXCEPT ![r] = receipt]
        /\ UNCHANGED overlap
     \/ /\ receipt = NoFile
        /\ Return(r, "receipt", "noReceipt")
  /\ UNCHANGED hostVars

RunStep(r) ==
  \/ Preflight(r) \/ Lock(r) \/ ClearStatus(r) \/ ClearReceipt(r)
  \/ WriteInbox(r) \/ Resolve(r) \/ Trigger(r) \/ Poll(r) \/ Timeout(r)
  \/ ReadReceipt(r)

Reaper == HostNext /\ UNCHANGED runVars

\* Every call has returned: nothing more is asked of the exchange. What
\* REAPER still owes it may do now, later or never.
AllReturned ==
  /\ \A r \in Runs : pc[r] = "done"
  /\ ~Owed
  /\ UNCHANGED vars

Next == (\E r \in Runs : RunStep(r)) \/ Reaper \/ AllReturned

Spec == Init /\ [][Next]_vars

\* Go runs every goroutine that is not blocked, and file and HTTP calls return
\* or time out. Nothing is assumed of REAPER: it may hang for good. A call
\* asks for the lock once, so weak fairness of Lock stands for the mutex
\* handing itself on.
FairSpec == Spec /\ \A r \in Runs : WF_vars(pc[r] # "idle" /\ RunStep(r))

-------------------------------------------------------------------------------
(***************************************************************************)
(* What a caller may rely on. Each promise is made to a call that found    *)
(* REAPER owing nothing when it took the lock: the mutex keeps the calls   *)
(* apart, but it cannot keep REAPER from finishing an earlier one late.    *)
(***************************************************************************)

\* An "ok" is about the caller's own script: it ran, once, and the receipt that
\* came with it is the one that script wrote (run, runner.go).
OkIsOwnRun ==
  \A r \in Runs : answer[r] = "ok" /\ ~overlap[r] =>
    /\ ran[r] = 1
    /\ r \in Edits => got[r] = r

\* A script is executed at most once, whatever its call returned and whatever
\* later calls put in the inbox or trigger.
AtMostOnce == \A r \in Runs : ~overlap[r] => ran[r] <= 1

\* A call that gave up before its trigger did not change the project, then or
\* later, although its script may be left in the inbox: it is overwritten
\* before anybody triggers the runner again.
GivenUpNeverRuns ==
  \A r \in Runs :
    answer[r] \in {"disconnected", "unavailable"} /\ ~overlap[r] => ran[r] = 0

\* While a call waits for its result the inbox holds its script: no other call
\* replaces it, and REAPER runs nothing else.
WaitingRunOwnsInbox ==
  \A r \in Runs : pc[r] \in {"resolve", "trigger", "poll", "receipt"} => inbox = r

\* All of the above in one: the exchange implements what RunnerPromise promises.
Promise == INSTANCE RunnerPromise WITH executed <- [r \in Runs |-> ran[r]]

KeepsPromise == Promise!Spec

\* Every call returns, REAPER hanging or not: the deadline ends the wait and
\* every return path gives the lock back.
EveryCallReturns == \A r \in Runs : pc[r] = "lock" ~> pc[r] = "done"

-------------------------------------------------------------------------------
\* runner.go:233 without that condition: "so a stale receipt from an earlier run
\* can never be read as this run's result".
ReceiptNeverStale == \A r \in Runs : got[r] \in {NoFile, r}
===============================================================================
