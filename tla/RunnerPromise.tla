----------------------------- MODULE RunnerPromise -----------------------------
(***************************************************************************)
(* What Runner.run promises its callers, without files, locks or polling:  *)
(* a script is executed at most once, an "ok" comes after that execution   *)
(* and brings its own receipt, and a call that gave up stays without       *)
(* effect.                                                                 *)
(*                                                                         *)
(* The promise has one exception, and the specification shows it openly: a *)
(* call that met an exchange REAPER was not done with ("overlap") may see  *)
(* anything.  RunnerExchange implements this specification.                *)
(***************************************************************************)
EXTENDS Naturals

CONSTANTS Runs, Edits, NoFile

VARIABLES answer, got, executed, overlap

vars == <<answer, got, executed, overlap>>

GivenUp == {"disconnected", "unavailable"}

Answers == GivenUp \cup {"ok", "notAccepted", "error", "invalid", "noReceipt",
                         "timedOut"}

Init ==
  /\ answer = [r \in Runs |-> "none"]
  /\ got = [r \in Runs |-> NoFile]
  /\ executed = [r \in Runs |-> 0]
  /\ overlap = [r \in Runs |-> FALSE]

\* The call finds REAPER busy with what an earlier call left behind.
MeetEarlierWork(r) ==
  /\ answer[r] = "none"
  /\ executed[r] = 0
  /\ overlap' = [overlap EXCEPT ![r] = TRUE]
  /\ UNCHANGED <<answer, got, executed>>

Execute(r) ==
  /\ overlap[r] \/ (executed[r] = 0 /\ answer[r] \notin GivenUp)
  /\ executed' = [executed EXCEPT ![r] = @ + 1]
  /\ UNCHANGED <<answer, got, overlap>>

\* Any answer but "ok" may come before, during or after the execution.
Fail(r) ==
  /\ answer[r] = "none"
  /\ \E a \in Answers \ {"ok"} :
       /\ a \in GivenUp /\ ~overlap[r] => executed[r] = 0
       /\ answer' = [answer EXCEPT ![r] = a]
  /\ UNCHANGED <<got, executed, overlap>>

Succeed(r) ==
  /\ answer[r] = "none"
  /\ ~overlap[r] => executed[r] = 1
  /\ answer' = [answer EXCEPT ![r] = "ok"]
  /\ IF r \in Edits
       THEN /\ got' \in {[got EXCEPT ![r] = e] : e \in Edits}
            /\ ~overlap[r] => got'[r] = r
       ELSE UNCHANGED got
  /\ UNCHANGED <<executed, overlap>>

Next ==
  \E r \in Runs : MeetEarlierWork(r) \/ Execute(r) \/ Fail(r) \/ Succeed(r)

Spec == Init /\ [][Next]_vars
===============================================================================
