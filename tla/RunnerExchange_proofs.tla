------------------------- MODULE RunnerExchange_proofs -------------------------
(***************************************************************************)
(* RunnerExchange keeps its promises for every number of calls, edits and  *)
(* scripts.                                                                *)
(*                                                                         *)
(* The argument counts what is still due. Due(r) is how often r has been   *)
(* executed, plus one if the Lua runner has just loaded r, plus all the    *)
(* triggers waiting if r is the script in the inbox, since each of them    *)
(* would execute it. Only the call that wrote the inbox sends triggers, so *)
(* for a call that found REAPER idle Due never exceeds one.                *)
(***************************************************************************)
EXTENDS RunnerExchange, TLAPS

Due(r) ==
  ran[r] + (IF stage = "loaded" /\ loaded = r THEN 1 ELSE 0)
         + (IF inbox = r THEN pending ELSE 0)

\* The calls are apart from each other.
Mutex ==
  \A r, q \in Runs : pc[r] \in Holding /\ pc[q] \in Holding => r = q

\* A script that has not been written was never seen by REAPER.
UnwrittenInv ==
  \A r \in Runs : pc[r] \in Unwritten =>
    /\ inbox # r
    /\ loaded # r
    /\ ran[r] = 0

\* The next three are about a call r that found REAPER idle.
\* Up to its trigger REAPER stays idle, and what it cleared stays cleared.
CalmInv(r) ==
  /\ pc[r] \in {"clear", "clearReceipt", "write", "resolve", "trigger"} => ~Owed
  /\ pc[r] \in {"clearReceipt", "write", "resolve", "trigger"} => status = "none"
  /\ pc[r] \in {"write", "resolve", "trigger"} /\ r \in Edits => receipt = NoFile
  /\ pc[r] \in {"resolve", "trigger"} => ran[r] = 0

\* While it waits, whatever REAPER does it does for r.
WaitInv(r) ==
  pc[r] \in {"poll", "receipt"} =>
    /\ pending > 0 => stage = "idle"
    /\ stage # "idle" => loaded = r
    /\ pending > 0 \/ stage \in {"loaded", "report"} => status = "none"
    /\ r \in Edits /\ (pending > 0 \/ stage = "loaded") => receipt = NoFile
    /\ r \in Edits => receipt \in {NoFile, r}
    /\ stage \in {"report", "writing"} /\ outcome = "ok" => ran[r] = 1
    /\ status = "ok" => ran[r] = 1
    /\ pc[r] = "receipt" => ran[r] = 1

\* At most one execution is due, and none once the call gave up.
DueInv(r) ==
  /\ Due(r) <= 1
  /\ answer[r] \in {"disconnected", "unavailable"} => Due(r) = 0

\* A call has an answer once it is done, and no receipt before that.
AnswerInv ==
  \A r \in Runs : pc[r] # "done" => answer[r] = "none" /\ got[r] = NoFile

\* Only an edit comes to read a receipt, and only its own lock sets "overlap".
EditsInv ==
  \A r \in Runs : pc[r] \in {"clearReceipt", "receipt"} => r \in Edits

LockInv == \A r \in Runs : pc[r] \in {"idle", "lock"} => ~overlap[r]

IInv ==
  /\ TypeOK
  /\ Mutex
  /\ UnwrittenInv
  /\ WaitingRunOwnsInbox
  /\ AnswerInv
  /\ EditsInv
  /\ LockInv
  /\ \A r \in Runs : ~overlap[r] => CalmInv(r) /\ WaitInv(r) /\ DueInv(r)
  /\ OkIsOwnRun

-------------------------------------------------------------------------------
(***************************************************************************)
(* Type correctness.                                                       *)
(***************************************************************************)

LEMMA TypeInit == Init => TypeOK
BY ScriptsAssumption
DEF Init, HostInit, TypeOK, HostTypeOK, StatusTexts, Stages, Holding

LEMMA TypeRun ==
  ASSUME TypeOK, NEW r \in Runs, RunStep(r)
  PROVE  TypeOK'
<1> USE ScriptsAssumption, RunsAssumption DEF TypeOK, HostTypeOK, StatusTexts,
        Stages, Holding, Failures, hostVars, fileVars, luaVars, Goto, Return
<1>1. CASE Preflight(r)     BY <1>1 DEF Preflight
<1>2. CASE Lock(r)          BY <1>2 DEF Lock, Owed
<1>3. CASE ClearStatus(r)   BY <1>3 DEF ClearStatus
<1>4. CASE ClearReceipt(r)  BY <1>4 DEF ClearReceipt
<1>5. CASE WriteInbox(r)    BY <1>5 DEF WriteInbox
<1>6. CASE Resolve(r)       BY <1>6 DEF Resolve
<1>7. CASE Trigger(r)       BY <1>7 DEF Trigger
<1>8. CASE Poll(r)          BY <1>8 DEF Poll
<1>9. CASE Timeout(r)       BY <1>9 DEF Timeout
<1>10. CASE ReadReceipt(r)  BY <1>10 DEF ReadReceipt
<1> QED
  BY <1>1, <1>2, <1>3, <1>4, <1>5, <1>6, <1>7, <1>8, <1>9, <1>10 DEF RunStep

LEMMA TypeReaper ==
  ASSUME TypeOK, Reaper
  PROVE  TypeOK'
<1> USE ScriptsAssumption DEF TypeOK, HostTypeOK, StatusTexts, Stages, hostVars,
        fileVars, luaVars, runVars, Reaper, GoIdle
<1>1. CASE LuaLoad         BY <1>1 DEF LuaLoad
<1>2. CASE LuaRefuse       BY <1>2 DEF LuaRefuse
<1>3. CASE LuaExecute      BY <1>3 DEF LuaExecute
<1>4. CASE LuaOpenStatus   BY <1>4 DEF LuaOpenStatus
<1>5. CASE LuaWriteStatus  BY <1>5 DEF LuaWriteStatus
<1>6. CASE ReaperRestart   BY <1>6 DEF ReaperRestart
<1> QED
  BY <1>1, <1>2, <1>3, <1>4, <1>5, <1>6 DEF HostNext, LuaStep

\* Every variable keeps its type: among the rest, last_receipt.txt only ever
\* holds the receipt of an edit (runner.go, ori_reaper_runner.lua).
THEOREM TypeCorrect == Spec => []TypeOK
<1>1. TypeOK /\ [Next]_vars => TypeOK'
  <2> SUFFICES ASSUME TypeOK, [Next]_vars PROVE TypeOK'
    OBVIOUS
  <2>1. CASE \E r \in Runs : RunStep(r)  BY <2>1, TypeRun
  <2>2. CASE Reaper                      BY <2>2, TypeReaper
  <2>3. CASE AllReturned \/ UNCHANGED vars
    BY <2>3 DEF AllReturned, vars, hostVars, fileVars, luaVars, runVars, TypeOK,
                HostTypeOK
  <2> QED
    BY <2>1, <2>2, <2>3 DEF Next
<1> QED
  BY <1>1, TypeInit, PTL DEF Spec

-------------------------------------------------------------------------------
(***************************************************************************)
(* The inductive invariant.  One lemma per action, one step per conjunct.  *)
(***************************************************************************)

LEMMA InvInit == Init => IInv
<1> SUFFICES ASSUME Init PROVE IInv
  OBVIOUS
<1> USE ScriptsAssumption, RunsAssumption DEF Init, HostInit
<1>1. TypeOK                BY TypeInit
<1>2. Mutex                 BY DEF Mutex, Holding
<1>3. UnwrittenInv          BY DEF UnwrittenInv
<1>4. WaitingRunOwnsInbox   BY DEF WaitingRunOwnsInbox
<1>5. AnswerInv             BY DEF AnswerInv
<1>6. ASSUME NEW r \in Runs PROVE CalmInv(r) /\ WaitInv(r) /\ DueInv(r)
  BY DEF CalmInv, WaitInv, DueInv, Due
<1>8. EditsInv /\ LockInv  BY DEF EditsInv, LockInv
<1>7. OkIsOwnRun            BY DEF OkIsOwnRun
<1> QED
  BY <1>1, <1>2, <1>3, <1>4, <1>5, <1>6, <1>7, <1>8 DEF IInv

LEMMA InvPreflight ==
  ASSUME IInv, NEW q \in Runs, Preflight(q)
  PROVE  IInv'
<1> USE ScriptsAssumption, RunsAssumption DEF IInv, Preflight, Goto, Return, Holding,
        Unwritten, hostVars, fileVars, luaVars
<1>1. TypeOK'               BY TypeRun DEF RunStep
<1> USE DEF TypeOK, HostTypeOK
<1>2. Mutex'                BY DEF Mutex
<1>3. UnwrittenInv'         BY DEF UnwrittenInv
<1>4. WaitingRunOwnsInbox'  BY DEF WaitingRunOwnsInbox, Mutex
<1>5. AnswerInv'            BY DEF AnswerInv
<1>6. ASSUME NEW r \in Runs, ~overlap'[r]
      PROVE  (CalmInv(r) /\ WaitInv(r) /\ DueInv(r))'
  <2>1. CalmInv(r)'  BY <1>6 DEF CalmInv, Owed, Mutex, UnwrittenInv
  <2>2. WaitInv(r)'  BY <1>6 DEF WaitInv, CalmInv, DueInv, Due, Owed, Mutex, WaitingRunOwnsInbox
  <2>3. DueInv(r)'   BY <1>6 DEF DueInv, Due, CalmInv, Owed, UnwrittenInv, WaitingRunOwnsInbox
  <2> QED  BY <2>1, <2>2, <2>3
<1>8. (EditsInv /\ LockInv)'  BY DEF EditsInv, LockInv
<1>7. OkIsOwnRun'           BY DEF OkIsOwnRun, WaitInv, AnswerInv
<1> QED
  BY <1>1, <1>2, <1>3, <1>4, <1>5, <1>6, <1>7, <1>8 DEF IInv

LEMMA InvLock ==
  ASSUME IInv, NEW q \in Runs, Lock(q)
  PROVE  IInv'
<1> USE ScriptsAssumption, RunsAssumption DEF IInv, Lock, LockIsFree, Owed, Holding,
        Unwritten, hostVars, fileVars, luaVars
<1>1. TypeOK'               BY TypeRun DEF RunStep
<1> USE DEF TypeOK, HostTypeOK
<1>2. Mutex'                BY DEF Mutex
<1>3. UnwrittenInv'         BY DEF UnwrittenInv
<1>4. WaitingRunOwnsInbox'  BY DEF WaitingRunOwnsInbox, Mutex
<1>5. AnswerInv'            BY DEF AnswerInv
<1>6. ASSUME NEW r \in Runs, ~overlap'[r]
      PROVE  (CalmInv(r) /\ WaitInv(r) /\ DueInv(r))'
  <2>1. CalmInv(r)'  BY <1>6 DEF CalmInv, Owed, Mutex, UnwrittenInv
  <2>2. WaitInv(r)'  BY <1>6 DEF WaitInv, CalmInv, DueInv, Due, Owed, Mutex, WaitingRunOwnsInbox
  <2>3. DueInv(r)'   BY <1>6 DEF DueInv, Due, CalmInv, Owed, UnwrittenInv, WaitingRunOwnsInbox
  <2> QED  BY <2>1, <2>2, <2>3
<1>8. (EditsInv /\ LockInv)'  BY DEF EditsInv, LockInv
<1>7. OkIsOwnRun'           BY DEF OkIsOwnRun, WaitInv, AnswerInv
<1> QED
  BY <1>1, <1>2, <1>3, <1>4, <1>5, <1>6, <1>7, <1>8 DEF IInv

LEMMA InvClearStatus ==
  ASSUME IInv, NEW q \in Runs, ClearStatus(q)
  PROVE  IInv'
<1> USE ScriptsAssumption, RunsAssumption DEF IInv, ClearStatus, Goto, Return, Holding,
        Unwritten, hostVars, fileVars, luaVars
<1>1. TypeOK'               BY TypeRun DEF RunStep
<1> USE DEF TypeOK, HostTypeOK
<1>2. Mutex'                BY DEF Mutex
<1>3. UnwrittenInv'         BY DEF UnwrittenInv
<1>4. WaitingRunOwnsInbox'  BY DEF WaitingRunOwnsInbox, Mutex
<1>5. AnswerInv'            BY DEF AnswerInv
<1>6. ASSUME NEW r \in Runs, ~overlap'[r]
      PROVE  (CalmInv(r) /\ WaitInv(r) /\ DueInv(r))'
  <2>1. CalmInv(r)'  BY <1>6 DEF CalmInv, Owed, Mutex, UnwrittenInv
  <2>2. WaitInv(r)'  BY <1>6 DEF WaitInv, CalmInv, DueInv, Due, Owed, Mutex, WaitingRunOwnsInbox
  <2>3. DueInv(r)'   BY <1>6 DEF DueInv, Due, CalmInv, Owed, UnwrittenInv, WaitingRunOwnsInbox
  <2> QED  BY <2>1, <2>2, <2>3
<1>8. (EditsInv /\ LockInv)'  BY DEF EditsInv, LockInv
<1>7. OkIsOwnRun'           BY DEF OkIsOwnRun, WaitInv, AnswerInv
<1> QED
  BY <1>1, <1>2, <1>3, <1>4, <1>5, <1>6, <1>7, <1>8 DEF IInv

LEMMA InvClearReceipt ==
  ASSUME IInv, NEW q \in Runs, ClearReceipt(q)
  PROVE  IInv'
<1> USE ScriptsAssumption, RunsAssumption DEF IInv, ClearReceipt, Goto, Return, Holding,
        Unwritten, hostVars, fileVars, luaVars
<1>1. TypeOK'               BY TypeRun DEF RunStep
<1> USE DEF TypeOK, HostTypeOK
<1>2. Mutex'                BY DEF Mutex
<1>3. UnwrittenInv'         BY DEF UnwrittenInv
<1>4. WaitingRunOwnsInbox'  BY DEF WaitingRunOwnsInbox, Mutex
<1>5. AnswerInv'            BY DEF AnswerInv
<1>6. ASSUME NEW r \in Runs, ~overlap'[r]
      PROVE  (CalmInv(r) /\ WaitInv(r) /\ DueInv(r))'
  <2>1. CalmInv(r)'  BY <1>6 DEF CalmInv, Owed, Mutex, UnwrittenInv
  <2>2. WaitInv(r)'  BY <1>6 DEF WaitInv, CalmInv, DueInv, Due, Owed, Mutex, WaitingRunOwnsInbox
  <2>3. DueInv(r)'   BY <1>6 DEF DueInv, Due, CalmInv, Owed, UnwrittenInv, WaitingRunOwnsInbox
  <2> QED  BY <2>1, <2>2, <2>3
<1>8. (EditsInv /\ LockInv)'  BY DEF EditsInv, LockInv
<1>7. OkIsOwnRun'           BY DEF OkIsOwnRun, WaitInv, AnswerInv
<1> QED
  BY <1>1, <1>2, <1>3, <1>4, <1>5, <1>6, <1>7, <1>8 DEF IInv

LEMMA InvWriteInbox ==
  ASSUME IInv, NEW q \in Runs, WriteInbox(q)
  PROVE  IInv'
<1> USE ScriptsAssumption, RunsAssumption DEF IInv, WriteInbox, Goto, Return, Holding,
        Unwritten, hostVars, fileVars, luaVars
<1>1. TypeOK'               BY TypeRun DEF RunStep
<1> USE DEF TypeOK, HostTypeOK
<1>2. Mutex'                BY DEF Mutex
<1>3. UnwrittenInv'         BY DEF UnwrittenInv
<1>4. WaitingRunOwnsInbox'  BY DEF WaitingRunOwnsInbox, Mutex
<1>5. AnswerInv'            BY DEF AnswerInv
<1>6. ASSUME NEW r \in Runs, ~overlap'[r]
      PROVE  (CalmInv(r) /\ WaitInv(r) /\ DueInv(r))'
  <2>1. CalmInv(r)'  BY <1>6 DEF CalmInv, Owed, Mutex, UnwrittenInv
  <2>2. WaitInv(r)'  BY <1>6 DEF WaitInv, CalmInv, DueInv, Due, Owed, Mutex, WaitingRunOwnsInbox
  <2>3. DueInv(r)'   BY <1>6 DEF DueInv, Due, CalmInv, Owed, UnwrittenInv, WaitingRunOwnsInbox
  <2> QED  BY <2>1, <2>2, <2>3
<1>8. (EditsInv /\ LockInv)'  BY DEF EditsInv, LockInv
<1>7. OkIsOwnRun'           BY DEF OkIsOwnRun, WaitInv, AnswerInv
<1> QED
  BY <1>1, <1>2, <1>3, <1>4, <1>5, <1>6, <1>7, <1>8 DEF IInv

LEMMA InvResolve ==
  ASSUME IInv, NEW q \in Runs, Resolve(q)
  PROVE  IInv'
<1> USE ScriptsAssumption, RunsAssumption DEF IInv, Resolve, Goto, Return, Holding,
        Unwritten, hostVars, fileVars, luaVars
<1>1. TypeOK'               BY TypeRun DEF RunStep
<1> USE DEF TypeOK, HostTypeOK
<1>2. Mutex'                BY DEF Mutex
<1>3. UnwrittenInv'         BY DEF UnwrittenInv
<1>4. WaitingRunOwnsInbox'  BY DEF WaitingRunOwnsInbox, Mutex
<1>5. AnswerInv'            BY DEF AnswerInv
<1>6. ASSUME NEW r \in Runs, ~overlap'[r]
      PROVE  (CalmInv(r) /\ WaitInv(r) /\ DueInv(r))'
  <2>1. CalmInv(r)'  BY <1>6 DEF CalmInv, Owed, Mutex, UnwrittenInv
  <2>2. WaitInv(r)'  BY <1>6 DEF WaitInv, CalmInv, DueInv, Due, Owed, Mutex, WaitingRunOwnsInbox
  <2>3. DueInv(r)'   BY <1>6 DEF DueInv, Due, CalmInv, Owed, UnwrittenInv, WaitingRunOwnsInbox
  <2> QED  BY <2>1, <2>2, <2>3
<1>8. (EditsInv /\ LockInv)'  BY DEF EditsInv, LockInv
<1>7. OkIsOwnRun'           BY DEF OkIsOwnRun, WaitInv, AnswerInv
<1> QED
  BY <1>1, <1>2, <1>3, <1>4, <1>5, <1>6, <1>7, <1>8 DEF IInv

LEMMA InvTrigger ==
  ASSUME IInv, NEW q \in Runs, Trigger(q)
  PROVE  IInv'
<1> USE ScriptsAssumption, RunsAssumption DEF IInv, Trigger, Goto, Return, Holding,
        Unwritten, hostVars, fileVars, luaVars
<1>1. TypeOK'               BY TypeRun DEF RunStep
<1> USE DEF TypeOK, HostTypeOK
<1>2. Mutex'                BY DEF Mutex
<1>3. UnwrittenInv'         BY DEF UnwrittenInv
<1>4. WaitingRunOwnsInbox'  BY DEF WaitingRunOwnsInbox, Mutex
<1>5. AnswerInv'            BY DEF AnswerInv
<1>6. ASSUME NEW r \in Runs, ~overlap'[r]
      PROVE  (CalmInv(r) /\ WaitInv(r) /\ DueInv(r))'
  <2>1. CalmInv(r)'  BY <1>6 DEF CalmInv, Owed, Mutex, UnwrittenInv
  <2>2. WaitInv(r)'  BY <1>6 DEF WaitInv, CalmInv, DueInv, Due, Owed, Mutex, WaitingRunOwnsInbox
  <2>3. DueInv(r)'
    <3>1. inbox = q
      BY DEF WaitingRunOwnsInbox
    <3>2. CASE r = q     \* the one trigger of a call that found REAPER idle
      <4>1. pending = 0 /\ stage = "idle" /\ ran[q] = 0
        BY <1>6, <3>2 DEF CalmInv, Owed
      <4>2. Due(q)' <= 1
        BY <4>1, <3>1 DEF Due
      <4> QED  BY <4>2, <3>2 DEF AnswerInv, DueInv
    <3>3. CASE r # q     \* the new trigger is for q's script
      BY <1>6, <3>1, <3>3 DEF DueInv, Due
    <3> QED  BY <3>2, <3>3
  <2> QED  BY <2>1, <2>2, <2>3
<1>8. (EditsInv /\ LockInv)'  BY DEF EditsInv, LockInv
<1>7. OkIsOwnRun'           BY DEF OkIsOwnRun, WaitInv, AnswerInv
<1> QED
  BY <1>1, <1>2, <1>3, <1>4, <1>5, <1>6, <1>7, <1>8 DEF IInv

LEMMA InvPoll ==
  ASSUME IInv, NEW q \in Runs, Poll(q)
  PROVE  IInv'
<1> USE ScriptsAssumption, RunsAssumption DEF IInv, Poll, Goto, Return, Holding,
        Unwritten, hostVars, fileVars, luaVars
<1>1. TypeOK'               BY TypeRun DEF RunStep
<1> USE DEF TypeOK, HostTypeOK
<1>2. Mutex'                BY DEF Mutex
<1>3. UnwrittenInv'         BY DEF UnwrittenInv
<1>4. WaitingRunOwnsInbox'  BY DEF WaitingRunOwnsInbox, Mutex
<1>5. AnswerInv'            BY DEF AnswerInv
<1>6. ASSUME NEW r \in Runs, ~overlap'[r]
      PROVE  (CalmInv(r) /\ WaitInv(r) /\ DueInv(r))'
  <2>1. CalmInv(r)'  BY <1>6 DEF CalmInv, Owed, Mutex, UnwrittenInv
  <2>2. WaitInv(r)'  BY <1>6 DEF WaitInv, CalmInv, DueInv, Due, Owed, Mutex, WaitingRunOwnsInbox
  <2>3. DueInv(r)'   BY <1>6 DEF DueInv, Due, CalmInv, Owed, UnwrittenInv, WaitingRunOwnsInbox
  <2> QED  BY <2>1, <2>2, <2>3
<1>8. (EditsInv /\ LockInv)'  BY DEF EditsInv, LockInv
<1>7. OkIsOwnRun'           BY DEF OkIsOwnRun, WaitInv, AnswerInv
<1> QED
  BY <1>1, <1>2, <1>3, <1>4, <1>5, <1>6, <1>7, <1>8 DEF IInv

LEMMA InvTimeout ==
  ASSUME IInv, NEW q \in Runs, Timeout(q)
  PROVE  IInv'
<1> USE ScriptsAssumption, RunsAssumption DEF IInv, Timeout, Return, Holding,
        Unwritten, hostVars, fileVars, luaVars
<1>1. TypeOK'               BY TypeRun DEF RunStep
<1> USE DEF TypeOK, HostTypeOK
<1>2. Mutex'                BY DEF Mutex
<1>3. UnwrittenInv'         BY DEF UnwrittenInv
<1>4. WaitingRunOwnsInbox'  BY DEF WaitingRunOwnsInbox, Mutex
<1>5. AnswerInv'            BY DEF AnswerInv
<1>6. ASSUME NEW r \in Runs, ~overlap'[r]
      PROVE  (CalmInv(r) /\ WaitInv(r) /\ DueInv(r))'
  <2>1. CalmInv(r)'  BY <1>6 DEF CalmInv, Owed, Mutex, UnwrittenInv
  <2>2. WaitInv(r)'  BY <1>6 DEF WaitInv, CalmInv, DueInv, Due, Owed, Mutex, WaitingRunOwnsInbox
  <2>3. DueInv(r)'   BY <1>6 DEF DueInv, Due, CalmInv, Owed, UnwrittenInv, WaitingRunOwnsInbox
  <2> QED  BY <2>1, <2>2, <2>3
<1>8. (EditsInv /\ LockInv)'  BY DEF EditsInv, LockInv
<1>7. OkIsOwnRun'           BY DEF OkIsOwnRun, WaitInv, AnswerInv
<1> QED
  BY <1>1, <1>2, <1>3, <1>4, <1>5, <1>6, <1>7, <1>8 DEF IInv

LEMMA InvReadReceipt ==
  ASSUME IInv, NEW q \in Runs, ReadReceipt(q)
  PROVE  IInv'
<1> USE ScriptsAssumption, RunsAssumption DEF IInv, ReadReceipt, Return, Holding,
        Unwritten, hostVars, fileVars, luaVars
<1>1. TypeOK'               BY TypeRun DEF RunStep
<1> USE DEF TypeOK, HostTypeOK
<1>2. Mutex'                BY DEF Mutex
<1>3. UnwrittenInv'         BY DEF UnwrittenInv
<1>4. WaitingRunOwnsInbox'  BY DEF WaitingRunOwnsInbox, Mutex
<1>5. AnswerInv'            BY DEF AnswerInv
<1>6. ASSUME NEW r \in Runs, ~overlap'[r]
      PROVE  (CalmInv(r) /\ WaitInv(r) /\ DueInv(r))'
  <2>1. CalmInv(r)'  BY <1>6 DEF CalmInv, Owed, Mutex, UnwrittenInv
  <2>2. WaitInv(r)'  BY <1>6 DEF WaitInv, CalmInv, DueInv, Due, Owed, Mutex, WaitingRunOwnsInbox
  <2>3. DueInv(r)'   BY <1>6 DEF DueInv, Due, CalmInv, Owed, UnwrittenInv, WaitingRunOwnsInbox
  <2> QED  BY <2>1, <2>2, <2>3
<1>8. (EditsInv /\ LockInv)'  BY DEF EditsInv, LockInv
<1>7. OkIsOwnRun'           BY DEF OkIsOwnRun, WaitInv, AnswerInv
<1> QED
  BY <1>1, <1>2, <1>3, <1>4, <1>5, <1>6, <1>7, <1>8 DEF IInv

\* A step of REAPER moves no call; what it does to the files and to its own
\* state is all there is to show.
LEMMA InvReaper ==
  ASSUME IInv, Reaper
  PROVE  IInv'
<1> USE ScriptsAssumption, RunsAssumption DEF IInv, Reaper, HostNext, LuaStep,
        LuaLoad, LuaRefuse, LuaExecute, LuaOpenStatus, LuaWriteStatus,
        ReaperRestart, GoIdle, hostVars, fileVars, luaVars, runVars
<1>1. TypeOK'               BY TypeReaper
<1>2. Mutex'                BY DEF Mutex
<1>3. UnwrittenInv'         BY DEF UnwrittenInv, TypeOK, HostTypeOK
<1>4. WaitingRunOwnsInbox'  BY DEF WaitingRunOwnsInbox
<1>5. AnswerInv'            BY DEF AnswerInv
<1>6. ASSUME NEW r \in Runs, ~overlap'[r]
      PROVE  (CalmInv(r) /\ WaitInv(r) /\ DueInv(r))'
  <2> USE <1>6 DEF TypeOK, HostTypeOK
  <2>1. CalmInv(r)'   BY DEF CalmInv, Owed
  <2>2. WaitInv(r)'
    <3>1. CASE LuaLoad         BY <3>1 DEF WaitInv, DueInv, Due, WaitingRunOwnsInbox
    <3>2. CASE LuaRefuse       BY <3>2 DEF WaitInv
    <3>3. CASE LuaExecute      BY <3>3 DEF WaitInv, DueInv, Due
    <3>4. CASE LuaOpenStatus   BY <3>4 DEF WaitInv
    <3>5. CASE LuaWriteStatus  BY <3>5 DEF WaitInv
    <3>6. CASE ReaperRestart   BY <3>6 DEF WaitInv
    <3> QED  BY <3>1, <3>2, <3>3, <3>4, <3>5, <3>6
  <2>3. DueInv(r)'
    <3>1. CASE LuaLoad         BY <3>1 DEF DueInv, Due
    <3>2. CASE LuaRefuse       BY <3>2 DEF DueInv, Due
    <3>3. CASE LuaExecute      BY <3>3 DEF DueInv, Due
    <3>4. CASE LuaOpenStatus   BY <3>4 DEF DueInv, Due
    <3>5. CASE LuaWriteStatus  BY <3>5 DEF DueInv, Due
    <3>6. CASE ReaperRestart   BY <3>6 DEF DueInv, Due
    <3> QED  BY <3>1, <3>2, <3>3, <3>4, <3>5, <3>6
  <2> QED  BY <2>1, <2>2, <2>3
<1>8. (EditsInv /\ LockInv)'  BY DEF EditsInv, LockInv
<1>7. OkIsOwnRun'
  <2> SUFFICES ASSUME NEW r \in Runs, answer[r] = "ok", ~overlap[r]
               PROVE  ran'[r] = 1 /\ (r \in Edits => got[r] = r)
    BY DEF OkIsOwnRun
  <2>1. ran[r] = 1 /\ (r \in Edits => got[r] = r) /\ Due(r) <= 1
    BY DEF OkIsOwnRun, DueInv
  <2> QED    \* one execution is all there is, so r is not the one loaded
    BY <2>1 DEF Due, TypeOK, HostTypeOK
<1> QED
  BY <1>1, <1>2, <1>3, <1>4, <1>5, <1>6, <1>7, <1>8 DEF IInv

THEOREM Inductive == Spec => []IInv
<1>1. IInv /\ [Next]_vars => IInv'
  <2> SUFFICES ASSUME IInv, [Next]_vars PROVE IInv'
    OBVIOUS
  <2>1. ASSUME NEW q \in Runs, RunStep(q) PROVE IInv'
    BY <2>1, InvPreflight, InvLock, InvClearStatus, InvClearReceipt,
       InvWriteInbox, InvResolve, InvTrigger, InvPoll, InvTimeout,
       InvReadReceipt DEF RunStep
  <2>2. CASE Reaper
    BY <2>2, InvReaper
  <2>3. CASE AllReturned \/ UNCHANGED vars
    BY <2>3 DEF AllReturned, vars, hostVars, fileVars, luaVars, runVars, IInv,
                TypeOK, HostTypeOK, Mutex, UnwrittenInv, WaitingRunOwnsInbox,
                AnswerInv, EditsInv, LockInv, CalmInv, WaitInv, DueInv, Due, Owed,
                OkIsOwnRun
  <2> QED
    BY <2>1, <2>2, <2>3 DEF Next
<1> QED
  BY <1>1, InvInit, PTL DEF Spec

-------------------------------------------------------------------------------
(***************************************************************************)
(* The promises.                                                           *)
(***************************************************************************)

\* An "ok" is about the caller's own script, for every number of concurrent
\* calls of Runner.run and whatever REAPER does.
THEOREM OkIsOwnRunHolds == Spec => []OkIsOwnRun
BY Inductive, PTL DEF IInv

\* While Runner.run waits for its result, the inbox is its own.
THEOREM InboxOwned == Spec => []WaitingRunOwnsInbox
BY Inductive, PTL DEF IInv

\* A script runs at most once, also after its call has given up on it.
THEOREM AtMostOnceHolds == Spec => []AtMostOnce
<1>1. IInv => AtMostOnce
  BY RunsAssumption DEF IInv, DueInv, Due, AtMostOnce, TypeOK, HostTypeOK
<1> QED
  BY <1>1, Inductive, PTL

\* A call that gave up before its trigger left the project alone for good.
THEOREM GivenUpNeverRunsHolds == Spec => []GivenUpNeverRuns
<1>1. IInv => GivenUpNeverRuns
  BY RunsAssumption DEF IInv, DueInv, Due, GivenUpNeverRuns, TypeOK, HostTypeOK
<1> QED
  BY <1>1, Inductive, PTL

-------------------------------------------------------------------------------
(***************************************************************************)
(* The exchange implements RunnerPromise.                                  *)
(***************************************************************************)

\* What the refinement mapping gives the abstract counter in a step that does
\* not execute a script of Runs.
LEMMA ExecutedUnchanged ==
  ASSUME ran' = ran
  PROVE  [r \in Runs |-> ran[r]]' = [r \in Runs |-> ran[r]]
OBVIOUS

LEMMA PromiseInit == Init => Promise!Init
BY RunsAssumption DEF Init, HostInit, Promise!Init

LEMMA PromiseStutter ==
  ASSUME answer' = answer, got' = got, overlap' = overlap, ran' = ran
  PROVE  UNCHANGED Promise!vars
BY ExecutedUnchanged DEF Promise!vars

\* A call that returns anything but "ok" fails in the abstract specification.
LEMMA PromiseFail ==
  ASSUME IInv, NEW q \in Runs, pc[q] # "done", NEW a \in Promise!Answers \ {"ok"},
         answer' = [answer EXCEPT ![q] = a], got' = got, overlap' = overlap,
         ran' = ran,
         a \in Promise!GivenUp /\ ~overlap[q] => ran[q] = 0
  PROVE  Promise!Next
<1>1. answer[q] = "none"
  BY DEF IInv, AnswerInv
<1>2. Promise!Fail(q)
  BY <1>1, ExecutedUnchanged DEF Promise!Fail
<1> QED
  BY <1>2 DEF Promise!Next

LEMMA PromiseSucceed ==
  ASSUME IInv, NEW q \in Runs, pc[q] # "done",
         answer' = [answer EXCEPT ![q] = "ok"], overlap' = overlap, ran' = ran,
         ~overlap[q] => ran[q] = 1,
         IF q \in Edits
           THEN /\ \E e \in Edits : got' = [got EXCEPT ![q] = e]
                /\ ~overlap[q] => got'[q] = q
           ELSE got' = got
  PROVE  Promise!Next
<1>1. answer[q] = "none"
  BY DEF IInv, AnswerInv
<1>2. Promise!Succeed(q)
  BY <1>1, ExecutedUnchanged DEF Promise!Succeed
<1> QED
  BY <1>2 DEF Promise!Next

LEMMA PromiseRun ==
  ASSUME IInv, NEW q \in Runs, RunStep(q)
  PROVE  [Promise!Next]_(Promise!vars)
<1> USE DEF hostVars, fileVars, luaVars, Goto, Return, Promise!Answers,
        Promise!GivenUp
<1> DEFINE Stutter == answer' = answer /\ got' = got /\ overlap' = overlap /\ ran' = ran
<1>1. CASE Stutter
  BY <1>1, PromiseStutter
<1>2. CASE Preflight(q)
  <2>1. Stutter \/ Return(q, "idle", "disconnected") \/ Return(q, "idle", "unavailable")
    BY <1>2 DEF Preflight
  <2>2. pc[q] = "idle" /\ ran[q] = 0 /\ ran' = ran
    BY <1>2 DEF Preflight, IInv, UnwrittenInv, Unwritten
  <2> QED  BY <1>1, <2>1, <2>2, PromiseFail
<1>3. CASE Lock(q)
  <2>1. pc[q] = "lock" /\ answer[q] = "none" /\ ran[q] = 0 /\ UNCHANGED <<answer, got, ran>>
    BY <1>3 DEF Lock, IInv, UnwrittenInv, Unwritten, AnswerInv
  <2>2. CASE Owed
    BY <1>3, <2>1, <2>2, ExecutedUnchanged
    DEF Lock, Promise!MeetEarlierWork, Promise!Next
  <2>3. CASE ~Owed
    <3>1. overlap' = [overlap EXCEPT ![q] = FALSE]
      BY <1>3, <2>3 DEF Lock, Owed
    <3>2. overlap[q] = FALSE
      BY <2>1 DEF IInv, LockInv
    <3> QED  BY <3>1, <3>2, <2>1, <1>1 DEF IInv, TypeOK
  <2> QED  BY <2>2, <2>3
<1>4. CASE ClearStatus(q) \/ ClearReceipt(q) \/ WriteInbox(q)
  <2>1. Stutter \/ (/\ Return(q, pc[q], "unavailable")
                    /\ pc[q] \in Unwritten /\ ran' = ran)
    BY <1>4 DEF ClearStatus, ClearReceipt, WriteInbox, Unwritten
  <2>2. pc[q] \in Unwritten => ran[q] = 0 /\ pc[q] # "done"
    BY DEF IInv, UnwrittenInv, Unwritten
  <2> QED  BY <1>1, <2>1, <2>2, PromiseFail
<1>5. CASE Resolve(q)
  <2>1. Stutter \/ (Return(q, "resolve", "disconnected") /\ ran' = ran)
    BY <1>5 DEF Resolve
  <2>2. pc[q] = "resolve" /\ (~overlap[q] => ran[q] = 0)
    BY <1>5 DEF Resolve, IInv, CalmInv
  <2> QED  BY <1>1, <2>1, <2>2, PromiseFail
<1>6. CASE Trigger(q)
  <2>1. Stutter \/ (Return(q, "trigger", "notAccepted") /\ ran' = ran)
    BY <1>6 DEF Trigger
  <2> QED  BY <1>1, <2>1, PromiseFail
<1>7. CASE Poll(q)
  <2>1. \/ Stutter
        \/ /\ pc[q] = "poll" /\ ran' = ran /\ status = "ok" /\ q \notin Edits
           /\ Return(q, "poll", "ok")
        \/ pc[q] = "poll" /\ ran' = ran /\ Return(q, "poll", "error")
        \/ pc[q] = "poll" /\ ran' = ran /\ Return(q, "poll", "invalid")
    BY <1>7 DEF Poll
  <2>2. pc[q] = "poll" /\ status = "ok" /\ ~overlap[q] => ran[q] = 1
    BY DEF IInv, WaitInv
  <2> QED  BY <1>1, <2>1, <2>2, PromiseFail, PromiseSucceed
<1>8. CASE Timeout(q)
  BY <1>8, PromiseFail DEF Timeout
<1>9. CASE ReadReceipt(q)
  <2>1. CASE receipt = NoFile
    BY <1>9, <2>1, PromiseFail DEF ReadReceipt
  <2>2. CASE receipt # NoFile
    <3>1. /\ pc[q] = "receipt" /\ ran' = ran /\ overlap' = overlap
          /\ answer' = [answer EXCEPT ![q] = "ok"]
          /\ got' = [got EXCEPT ![q] = receipt]
      BY <1>9, <2>2 DEF ReadReceipt
    <3>2. q \in Edits /\ receipt \in Edits
      BY <2>2, <3>1 DEF IInv, TypeOK, HostTypeOK, EditsInv
    <3>3. ~overlap[q] => ran[q] = 1 /\ receipt = q
      BY <2>2, <3>1, <3>2 DEF IInv, WaitInv
    <3>4. got'[q] = receipt
      BY <3>1 DEF IInv, TypeOK
    <3> QED  BY <3>1, <3>2, <3>3, <3>4, PromiseSucceed
  <2> QED  BY <2>1, <2>2
<1> QED
  BY <1>2, <1>3, <1>4, <1>5, <1>6, <1>7, <1>8, <1>9 DEF RunStep

\* Only the execution of a script is visible in the abstract specification.
LEMMA PromiseReaper ==
  ASSUME IInv, Reaper
  PROVE  [Promise!Next]_(Promise!vars)
<1> USE DEF Reaper, runVars, HostNext, LuaStep
<1>1. CASE LuaExecute /\ loaded \in Runs
  <2>1. PICK s \in Runs : s = loaded
    BY <1>1
  <2>2. ran' = [ran EXCEPT ![s] = @ + 1] /\ stage = "loaded"
    BY <1>1, <2>1 DEF LuaExecute
  <2>3. ~overlap[s] => ran[s] = 0 /\ answer[s] \notin Promise!GivenUp
    BY <2>1, <2>2, RunsAssumption
    DEF IInv, DueInv, Due, TypeOK, HostTypeOK, Promise!GivenUp
  <2>4. [r \in Runs |-> ran[r]]' =
          [[r \in Runs |-> ran[r]] EXCEPT ![s] = @ + 1]
    BY <2>2, RunsAssumption DEF IInv, TypeOK, HostTypeOK
  <2>5. Promise!Execute(s)
    BY <1>1, <2>3, <2>4 DEF Promise!Execute
  <2> QED  BY <2>5 DEF Promise!Next
<1>2. CASE LuaExecute /\ loaded \notin Runs
  <2>1. [r \in Runs |-> ran[r]]' = [r \in Runs |-> ran[r]]
    BY <1>2, RunsAssumption DEF LuaExecute, IInv, TypeOK, HostTypeOK
  <2> QED  BY <2>1 DEF Promise!vars
<1>3. CASE ~LuaExecute
  <2>1. ran' = ran
    BY <1>3 DEF LuaLoad, LuaRefuse, LuaOpenStatus, LuaWriteStatus, ReaperRestart
  <2> QED  BY <2>1, PromiseStutter
<1> QED
  BY <1>1, <1>2, <1>3

\* Runner.run with its lock, files and polling, beside a REAPER that may be
\* late, hang or quit, implements the promise its callers see.
THEOREM ExchangeKeepsPromise == Spec => KeepsPromise
<1>1. IInv /\ [Next]_vars => [Promise!Next]_(Promise!vars)
  <2> SUFFICES ASSUME IInv, [Next]_vars PROVE [Promise!Next]_(Promise!vars)
    OBVIOUS
  <2>1. CASE \E q \in Runs : RunStep(q)
    BY <2>1, PromiseRun
  <2>2. CASE Reaper
    BY <2>2, PromiseReaper
  <2>3. CASE AllReturned \/ UNCHANGED vars
    BY <2>3, PromiseStutter DEF AllReturned, vars, hostVars, runVars
  <2> QED
    BY <2>1, <2>2, <2>3 DEF Next
<1> QED
  BY <1>1, Inductive, PromiseInit, PTL DEF Spec, KeepsPromise, Promise!Spec
===============================================================================
