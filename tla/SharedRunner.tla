----------------------------- MODULE SharedRunner -----------------------------
(***************************************************************************)
(* The Runner as the calls above it meet it.  A run is one step here, from *)
(* its inbox to its status: RunnerExchange has the steps in between, and   *)
(* the Runner's lock keeps other runs of the plugin out of them.  What it  *)
(* cannot keep out are the executions REAPER still owes runs that are      *)
(* over: they come late, execute whatever is in the inbox by then, and     *)
(* write a status that the run of that moment takes for its own.           *)
(***************************************************************************)
EXTENDS Naturals

VARIABLES
  inbox,  \* the canonical script in inbox.lua
  owed,   \* triggers of runs that are over, which REAPER has yet to come to
  stray,  \* the execution of such a trigger may still write its status
  owing   \* bound: runs that may yet leave one owed by giving up

sharedVars == <<inbox, owed, stray, owing>>

SharedInit(bound) ==
  /\ inbox = "none"
  /\ owed = 0
  /\ stray = FALSE
  /\ owing = bound

\* A run whose script is executed before its status is read. REAPER comes to one
\* trigger after the other, so what was under way is over.
Answered(script) ==
  /\ inbox' = script
  /\ stray' = FALSE
  /\ UNCHANGED <<owed, owing>>

\* A run that reads the "ok" of a late execution, written after this run cleared
\* the status: its own trigger is still owed.
Mistaken(script) ==
  /\ stray
  /\ inbox' = script
  /\ owed' = owed + 1
  /\ stray' = FALSE
  /\ UNCHANGED owing

\* A run without a usable status: its script is in the inbox or not, and REAPER
\* may still come to it.
Unanswered(script) ==
  /\ \/ inbox' \in {inbox, script} /\ UNCHANGED <<owed, owing>>
     \/ /\ inbox' = script
        /\ owed' = owed + 1
        /\ owing > 0
        /\ owing' = owing - 1
  /\ UNCHANGED stray

\* The main thread gets to the trigger of a run that is over.
LateRun(script) ==
  /\ owed > 0
  /\ inbox = script
  /\ owed' = owed - 1
  /\ stray' = TRUE
  /\ UNCHANGED <<inbox, owing>>

\* REAPER is quit, with all it has yet to do.
Forget ==
  /\ owed > 0 \/ stray
  /\ owed' = 0
  /\ stray' = FALSE
  /\ UNCHANGED <<inbox, owing>>
===============================================================================
