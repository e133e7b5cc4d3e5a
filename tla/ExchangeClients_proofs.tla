------------------------- MODULE ExchangeClients_proofs -------------------------
(***************************************************************************)
(* ExchangeClients keeps its promises for every number of runs, connection *)
(* tests and command lines.                                                *)
(*                                                                         *)
(* A test believes a response file of its own name, and only REAPER, when  *)
(* it has run that test's script, makes one.  A run believes a status and  *)
(* a receipt that anybody may leave; what makes them its own is that from  *)
(* its lock to its answer nobody else was in the exchange, so that REAPER, *)
(* which owed nothing at the lock, serves this run alone.                  *)
(***************************************************************************)
EXTENDS ExchangeClients, RunnerExchange_proofs

ResponsesInv == \A c \in Checks : c \in responses => ran[c] >= 1

\* A run that was not disturbed is the only one in the exchange, finds there what
\* it has cleared, and keeps its script in the inbox.
SoleInv(r) ==
  /\ pc[r] \in Holding => ~OthersActive
  /\ pc[r] \in {"clear", "clearReceipt", "write", "resolve", "trigger"} => ~Owed
  /\ pc[r] \in {"clearReceipt", "write", "resolve", "trigger"} => status = "none"
  /\ pc[r] \in {"write", "resolve", "trigger"} /\ r \in Edits => receipt = NoFile
  /\ pc[r] \in {"resolve", "trigger", "poll", "receipt"} => inbox = r

\* While it waits, whatever REAPER does it does for this run. How often it did so
\* before is left open: a test may have put the script back into the inbox.
ServedInv(r) ==
  pc[r] \in {"poll", "receipt"} =>
    /\ pending <= 1
    /\ pending > 0 => stage = "idle"
    /\ stage # "idle" => loaded = r
    /\ pending > 0 \/ stage \in {"loaded", "report"} => status = "none"
    /\ r \in Edits /\ (pending > 0 \/ stage = "loaded") => receipt = NoFile
    /\ r \in Edits => receipt \in {NoFile, r}
    /\ stage \in {"report", "writing"} /\ outcome = "ok" => ran[r] >= 1
    /\ status = "ok" \/ pc[r] = "receipt" => ran[r] >= 1

UndisturbedInv == \A r \in Runs : ~overlap[r] => SoleInv(r) /\ ServedInv(r)

ClientsInv ==
  /\ ClientsTypeOK
  /\ Mutex
  /\ AnswerInv
  /\ EditsInv
  /\ ResponsesInv
  /\ VerifiedMeansProbed
  /\ UndisturbedInv
  /\ OkWhenUndisturbed

\* History only grows.
RanGrows == \A s \in Scripts : ran'[s] >= ran[s]

-------------------------------------------------------------------------------
(***************************************************************************)
(* Type correctness.                                                       *)
(***************************************************************************)

ClientTypes ==
  /\ cpc \in [Checks -> InExchange \cup {"idle", "done"}]
  /\ verdict \in [Checks -> {"none", "succeeded", "wrongProject", "runnerFailed",
                             "checkFailed", "timedOut"}]
  /\ kept \in [Checks -> [inbox : Scripts \cup {NoFile, Blank}, status : StatusTexts]]
  /\ responses \subseteq Checks
  /\ xpc \in [Execs -> {"idle", "truncate", "fill", "trigger", "poll", "done"}]
  /\ said \in [Execs -> {"none", "failed", "error", "ok", "triggered"}]

LEMMA ClientsTypes == ClientsTypeOK <=> TypeOK /\ ClientTypes
BY DEF ClientsTypeOK, ClientTypes

LEMMA ClientsPrimed == TypeOK' /\ ClientTypes' => ClientsTypeOK'
BY DEF ClientsTypeOK, ClientTypes

LEMMA ClientsTypeInit == ClientsInit => ClientsTypeOK
<1> SUFFICES ASSUME ClientsInit PROVE ClientsTypeOK
  OBVIOUS
<1>1. TypeOK
  BY TypeInit DEF ClientsInit
<1>2. ClientTypes
  BY DEF ClientsInit, ClientTypes, InExchange, NothingKept, StatusTexts
<1> QED
  BY <1>1, <1>2, ClientsTypes

LEMMA ClientsTypeCheck ==
  ASSUME ClientsTypeOK, NEW c \in Checks, CheckStep(c)
  PROVE  ClientsTypeOK'
<1> USE ClientsAssumption
    DEF ClientsTypeOK, TypeOK, HostTypeOK, InExchange, StatusTexts, hostVars, fileVars, luaVars,
        runVars, execVars, Disturb, Conclude, CheckGoto, NothingKept
<1>1. CASE CheckSnapshot(c)
  <2>1. pc' = pc /\ overlap' \in [Runs -> BOOLEAN] /\ UNCHANGED <<answer, got, hostVars, execVars, responses>>
    BY <1>1 DEF CheckSnapshot
  <2>2. [inbox |-> inbox, status |-> status] \in [inbox : Scripts \cup {NoFile, Blank}, status : StatusTexts]
    OBVIOUS
  <2>3. kept' \in [Checks -> [inbox : Scripts \cup {NoFile, Blank}, status : StatusTexts]]
    BY <1>1, <2>2 DEF CheckSnapshot
  <2>4. /\ cpc' \in [Checks -> InExchange \cup {"idle", "done"}]
        /\ verdict' \in [Checks -> {"none", "succeeded", "wrongProject", "runnerFailed",
                                    "checkFailed", "timedOut"}]
    BY <1>1 DEF CheckSnapshot
  <2> QED
    BY <2>1, <2>3, <2>4
<1>2. CASE CheckRemoveStatus(c)   BY <1>2 DEF CheckRemoveStatus
<1>3. CASE CheckWriteInbox(c)     BY <1>3 DEF CheckWriteInbox
<1>4. CASE CheckTrigger(c)        BY <1>4 DEF CheckTrigger
<1>5. CASE CheckPoll(c)           BY <1>5, SMTT(30) DEF CheckPoll
<1>6. CASE CheckRestoreStatus(c)  BY <1>6 DEF CheckRestoreStatus
<1>7. CASE CheckRestoreInbox(c)   BY <1>7 DEF CheckRestoreInbox
<1> QED
  BY <1>1, <1>2, <1>3, <1>4, <1>5, <1>6, <1>7 DEF CheckStep

LEMMA ClientsTypeExec ==
  ASSUME ClientsTypeOK, NEW x \in Execs, ExecStep(x)
  PROVE  ClientsTypeOK'
<1> USE ClientsAssumption
    DEF ClientsTypeOK, TypeOK, HostTypeOK, StatusTexts, hostVars, fileVars, luaVars,
        runVars, checkVars, Disturb, ExecGoto, Say
<1>1. CASE ExecRemoveStatus(x)  BY <1>1 DEF ExecRemoveStatus
<1>2. CASE ExecTruncate(x)      BY <1>2 DEF ExecTruncate
<1>3. CASE ExecFill(x)          BY <1>3 DEF ExecFill
<1>4. CASE ExecTrigger(x)       BY <1>4 DEF ExecTrigger
<1>5. CASE ExecPoll(x)          BY <1>5 DEF ExecPoll
<1> QED
  BY <1>1, <1>2, <1>3, <1>4, <1>5 DEF ExecStep

LEMMA ClientsTypeRuns ==
  ASSUME ClientsTypeOK,
         \/ \E r \in Runs : RunClient(r) \/ LockBesideOthers(r)
         \/ ReaperClient
  PROVE  ClientsTypeOK'
<1>1. TypeOK /\ ClientTypes
  BY ClientsTypes
<1>2. ASSUME NEW r \in Runs, RunClient(r) PROVE ClientsTypeOK'
  <2>1. RunStep(r) /\ UNCHANGED clientVars
    BY <1>2 DEF RunClient
  <2>3. TypeOK'
    BY <1>1, <2>1, TypeRun
  <2>2. ClientTypes'
    BY <1>1, <2>1 DEF ClientTypes, clientVars, checkVars, execVars
  <2> QED
    BY <2>2, <2>3, ClientsPrimed
<1>3. ASSUME NEW r \in Runs, LockBesideOthers(r) PROVE ClientsTypeOK'
  BY <1>3 DEF LockBesideOthers, ClientsTypeOK, TypeOK, HostTypeOK, Holding, hostVars, fileVars,
              luaVars, clientVars, checkVars, execVars
<1>4. CASE ReaperClient
  <2>1. TypeOK'
    BY <1>1, <1>4, TypeReaper DEF ReaperClient
  <2>2. ClientTypes'
    BY <1>1, <1>4 DEF ReaperClient, ClientTypes, execVars
  <2> QED
    BY <2>1, <2>2, ClientsPrimed
<1> QED
  BY <1>2, <1>3, <1>4

LEMMA ClientsTypeStep ==
  ASSUME ClientsTypeOK, [ClientsNext]_allVars
  PROVE  ClientsTypeOK'
<1>1. CASE ClientsDone \/ UNCHANGED allVars
  BY <1>1 DEF ClientsDone, AllReturned, allVars, vars, hostVars, fileVars, luaVars, runVars,
              clientVars, checkVars, execVars, ClientsTypeOK, TypeOK, HostTypeOK
<1> QED
  BY <1>1, ClientsTypeCheck, ClientsTypeExec, ClientsTypeRuns DEF ClientsNext

-------------------------------------------------------------------------------
(***************************************************************************)
(* Runs.                                                                   *)
(***************************************************************************)

\* What a step of a run leaves of the other runs.
LEMMA OtherRuns ==
  ASSUME ClientsInv, NEW q \in Runs, RunStep(q), NEW r \in Runs, r # q
  PROVE  /\ pc'[r] = pc[r] /\ overlap'[r] = overlap[r] /\ answer'[r] = answer[r] /\ got'[r] = got[r]
         /\ pc[r] \in Holding => UNCHANGED hostVars
<1> USE DEF ClientsInv, ClientsTypeOK, TypeOK, RunStep, Goto, Return, Preflight, Lock, ClearStatus,
            ClearReceipt, WriteInbox, Resolve, Trigger, Poll, Timeout, ReadReceipt
<1>1. pc'[r] = pc[r] /\ overlap'[r] = overlap[r] /\ answer'[r] = answer[r] /\ got'[r] = got[r]
  OBVIOUS
<1>2. pc[r] \in Holding => UNCHANGED hostVars
  BY DEF Mutex, Holding, LockIsFree
<1> QED
  BY <1>1, <1>2

LEMMA RunMutex ==
  ASSUME ClientsInv, NEW q \in Runs, RunStep(q) \/ LockBesideOthers(q)
  PROVE  Mutex' /\ AnswerInv' /\ EditsInv'
<1> USE DEF ClientsInv, ClientsTypeOK, TypeOK, Holding, Goto, Return, Preflight, Lock, ClearStatus,
            ClearReceipt, WriteInbox, Resolve, Trigger, Poll, Timeout, ReadReceipt,
            LockBesideOthers, LockIsFree
<1>1. \A r \in Runs \ {q} : pc'[r] = pc[r] /\ answer'[r] = answer[r] /\ got'[r] = got[r]
  BY DEF RunStep
<1>2. Mutex'
  BY <1>1 DEF RunStep, Mutex
<1>3. AnswerInv'
  BY <1>1 DEF RunStep, AnswerInv
<1>4. EditsInv'
  BY <1>1 DEF RunStep, EditsInv
<1> QED
  BY <1>2, <1>3, <1>4

\* A step of the run itself, that was not disturbed.
LEMMA OwnRun ==
  ASSUME ClientsInv, NEW r \in Runs, RunClient(r), ~overlap'[r]
  PROVE  SoleInv(r)' /\ ServedInv(r)'
<1> USE ScriptsAssumption, RunsAssumption
    DEF ClientsInv, ClientsTypeOK, TypeOK, HostTypeOK, RunClient, UndisturbedInv, Holding,
        Goto, Return, hostVars, fileVars, luaVars, clientVars, checkVars, execVars,
        OthersActive, CheckActive, ExecActive, Owed
<1>1. CASE Preflight(r)     BY <1>1 DEF Preflight, SoleInv, ServedInv
<1>2. CASE Lock(r)          BY <1>2 DEF Lock, SoleInv, ServedInv
<1>3. CASE ClearStatus(r)   BY <1>3 DEF ClearStatus, SoleInv, ServedInv
<1>4. CASE ClearReceipt(r)  BY <1>4 DEF ClearReceipt, SoleInv, ServedInv
<1>5. CASE WriteInbox(r)    BY <1>5 DEF WriteInbox, SoleInv, ServedInv
<1>6. CASE Resolve(r)       BY <1>6 DEF Resolve, SoleInv, ServedInv
<1>7. CASE Trigger(r)       BY <1>7 DEF Trigger, SoleInv, ServedInv
<1>8. CASE Poll(r)          BY <1>8 DEF Poll, SoleInv, ServedInv
<1>9. CASE Timeout(r)       BY <1>9 DEF Timeout, SoleInv, ServedInv
<1>10. CASE ReadReceipt(r)  BY <1>10 DEF ReadReceipt, SoleInv, ServedInv
<1> QED
  BY <1>1, <1>2, <1>3, <1>4, <1>5, <1>6, <1>7, <1>8, <1>9, <1>10 DEF RunStep

\* An undisturbed run that has not reached the exchange, or left it, or sees no
\* change of it.
LEMMA SameRun ==
  ASSUME NEW r, pc'[r] = pc[r], SoleInv(r), ServedInv(r), ran'[r] >= ran[r],
         pc[r] \in Holding => UNCHANGED <<hostVars, cpc, xpc>>
  PROVE  SoleInv(r)' /\ ServedInv(r)'
<1>1. CASE pc[r] \notin Holding
  BY <1>1 DEF SoleInv, ServedInv, Holding
<1>2. CASE UNCHANGED <<hostVars, cpc, xpc>>
  BY <1>2 DEF SoleInv, ServedInv, OthersActive, CheckActive, ExecActive, Owed, hostVars, fileVars, luaVars
<1> QED
  BY <1>1, <1>2

LEMMA RunRan ==
  ASSUME NEW q \in Runs, RunStep(q) \/ LockBesideOthers(q)
  PROVE  ran' = ran
BY DEF RunStep, Preflight, Lock, ClearStatus, ClearReceipt, WriteInbox, Resolve, Trigger, Poll,
       Timeout, ReadReceipt, LockBesideOthers, hostVars

LEMMA RunUndisturbed ==
  ASSUME ClientsInv, NEW q \in Runs, RunClient(q) \/ LockBesideOthers(q)
  PROVE  UndisturbedInv' /\ OkWhenUndisturbed'
<1>1. ran' = ran /\ ran \in [Scripts -> Nat]
  BY RunRan DEF RunClient, ClientsInv, ClientsTypeOK, TypeOK, HostTypeOK
<1>2. ASSUME NEW r \in Runs, ~overlap'[r], r # q \/ LockBesideOthers(q)
      PROVE  /\ SoleInv(r)' /\ ServedInv(r)'
             /\ ~overlap[r] /\ answer'[r] = answer[r] /\ got'[r] = got[r]
  <2>1. CASE RunClient(q)
    <3>1. RunStep(q) /\ UNCHANGED <<cpc, xpc>>
      BY <2>1 DEF RunClient, clientVars, checkVars, execVars
    <3>2. r # q
      BY <1>2, <2>1 DEF RunClient, LockBesideOthers, RunStep, Preflight, Lock, ClearStatus,
            ClearReceipt, WriteInbox, Resolve, Trigger, Poll, Timeout, ReadReceipt, Goto, Return
    <3> QED
      BY <1>1, <1>2, <3>1, <3>2, OtherRuns, SameRun, RunsAssumption DEF ClientsInv, UndisturbedInv
  <2>2. CASE LockBesideOthers(q)
    <3>1. /\ UNCHANGED <<hostVars, cpc, xpc>> /\ UNCHANGED <<answer, got>>
          /\ r # q /\ overlap'[r] = overlap[r] /\ pc'[r] = pc[r]
      BY <1>2, <2>2 DEF LockBesideOthers, clientVars, checkVars, execVars, ClientsInv,
                        ClientsTypeOK, TypeOK
    <3> QED
      BY <1>1, <1>2, <3>1, SameRun, RunsAssumption DEF ClientsInv, UndisturbedInv
  <2> QED
    BY <2>1, <2>2
<1>3. UndisturbedInv'
  BY <1>2, OwnRun DEF UndisturbedInv
<1>4. ASSUME NEW r \in Runs, answer'[r] = "ok", ~overlap'[r]
      PROVE  ran'[r] >= 1 /\ (r \in Edits => got'[r] = r)
  <2>1. CASE r # q \/ LockBesideOthers(q)
    BY <1>1, <1>2, <1>4, <2>1 DEF ClientsInv, OkWhenUndisturbed
  <2>2. CASE r = q /\ RunClient(q)
    <3> USE ScriptsAssumption, RunsAssumption, <1>1, <1>4, <2>2
        DEF ClientsInv, ClientsTypeOK, TypeOK, RunClient, Goto, Return, AnswerInv, OkWhenUndisturbed
    <3>1. CASE Poll(q)
      BY <3>1 DEF Poll, UndisturbedInv, ServedInv
    <3>2. CASE ReadReceipt(q)
      BY <3>2 DEF ReadReceipt, UndisturbedInv, ServedInv, EditsInv
    <3>3. CASE Preflight(q) \/ Lock(q) \/ ClearStatus(q) \/ ClearReceipt(q) \/ WriteInbox(q)
               \/ Resolve(q) \/ Trigger(q) \/ Timeout(q)
      BY <3>3 DEF Preflight, Lock, ClearStatus, ClearReceipt, WriteInbox, Resolve, Trigger, Timeout
    <3> QED
      BY <3>1, <3>2, <3>3 DEF RunStep
  <2> QED
    BY <2>1, <2>2
<1> QED
  BY <1>3, <1>4 DEF OkWhenUndisturbed

-------------------------------------------------------------------------------
(***************************************************************************)
(* REAPER.                                                                 *)
(***************************************************************************)

LEMMA ReaperRan ==
  ASSUME TypeOK, Reaper
  PROVE  RanGrows /\ (ran' # ran => stage = "loaded" /\ ran'[loaded] >= 1)
<1> USE DEF Reaper, HostNext, LuaStep, TypeOK, HostTypeOK, RanGrows
<1>1. CASE LuaExecute
  BY <1>1 DEF LuaExecute
<1>2. CASE LuaLoad \/ LuaRefuse \/ LuaOpenStatus \/ LuaWriteStatus \/ ReaperRestart
  BY <1>2 DEF LuaLoad, LuaRefuse, LuaOpenStatus, LuaWriteStatus, ReaperRestart
<1> QED
  BY <1>1, <1>2

LEMMA ReaperUndisturbed ==
  ASSUME ClientsInv, ReaperClient, NEW r \in Runs, ~overlap[r]
  PROVE  SoleInv(r)' /\ ServedInv(r)'
<1> USE ScriptsAssumption, RunsAssumption
    DEF ClientsInv, ClientsTypeOK, TypeOK, HostTypeOK, ReaperClient, Reaper, UndisturbedInv, GoIdle,
        fileVars, runVars, execVars
<1>1. SoleInv(r)'
  <2> USE DEF SoleInv, OthersActive, CheckActive, ExecActive, Owed, Holding
  <2>1. CASE LuaLoad         BY <2>1 DEF LuaLoad, ServedInv
  <2>2. CASE LuaRefuse       BY <2>2 DEF LuaRefuse
  <2>3. CASE LuaExecute      BY <2>3 DEF LuaExecute
  <2>4. CASE LuaOpenStatus   BY <2>4 DEF LuaOpenStatus
  <2>5. CASE LuaWriteStatus  BY <2>5 DEF LuaWriteStatus
  <2>6. CASE ReaperRestart   BY <2>6 DEF ReaperRestart
  <2> QED
    BY <2>1, <2>2, <2>3, <2>4, <2>5, <2>6 DEF HostNext, LuaStep
<1>2. ServedInv(r)'
  <2> USE DEF ServedInv
  <2>1. CASE LuaLoad         BY <2>1 DEF LuaLoad, SoleInv
  <2>2. CASE LuaRefuse       BY <2>2 DEF LuaRefuse
  <2>3. CASE LuaExecute      BY <2>3 DEF LuaExecute
  <2>4. CASE LuaOpenStatus   BY <2>4 DEF LuaOpenStatus
  <2>5. CASE LuaWriteStatus  BY <2>5 DEF LuaWriteStatus
  <2>6. CASE ReaperRestart   BY <2>6 DEF ReaperRestart
  <2> QED
    BY <2>1, <2>2, <2>3, <2>4, <2>5, <2>6 DEF HostNext, LuaStep
<1> QED
  BY <1>1, <1>2

LEMMA ClientsInvReaper ==
  ASSUME ClientsInv, ReaperClient
  PROVE  ClientsInv'
<1>1. TypeOK /\ Reaper /\ UNCHANGED <<pc, answer, got, overlap, verdict>>
  BY DEF ClientsInv, ClientsTypeOK, ReaperClient, Reaper, runVars
<1>2. RanGrows /\ (ran' # ran => stage = "loaded" /\ ran'[loaded] >= 1)
  BY <1>1, ReaperRan
<1>3. ClientsTypeOK'
  BY ClientsTypeRuns DEF ClientsInv
<1>4. Mutex' /\ AnswerInv' /\ EditsInv'
  BY <1>1 DEF ClientsInv, Mutex, AnswerInv, EditsInv
<1>5. ran \in [Scripts -> Nat] /\ ran' \in [Scripts -> Nat]
  BY <1>1, <1>3 DEF TypeOK, HostTypeOK, ClientsTypeOK
<1>6. ResponsesInv'
  <2> SUFFICES ASSUME NEW c \in Checks, c \in responses' PROVE ran'[c] >= 1
    BY DEF ResponsesInv
  <2>1. CASE c \in responses
    BY <1>2, <1>5, <2>1, ClientsAssumption DEF ClientsInv, ResponsesInv, RanGrows
  <2>2. CASE c \notin responses
    BY <1>2, <2>2 DEF ReaperClient
  <2> QED
    BY <2>1, <2>2
<1>7. VerifiedMeansProbed'
  BY <1>1, <1>2, <1>5, ClientsAssumption DEF ClientsInv, VerifiedMeansProbed, RanGrows
<1>8. UndisturbedInv'
  BY <1>1, ReaperUndisturbed DEF UndisturbedInv
<1>9. OkWhenUndisturbed'
  BY <1>1, <1>2, <1>5, RunsAssumption DEF ClientsInv, OkWhenUndisturbed, RanGrows
<1> QED
  BY <1>3, <1>4, <1>6, <1>7, <1>8, <1>9 DEF ClientsInv

LEMMA ClientsInvRun ==
  ASSUME ClientsInv, NEW q \in Runs, RunClient(q) \/ LockBesideOthers(q)
  PROVE  ClientsInv'
<1>1. ClientsTypeOK'
  BY ClientsTypeRuns DEF ClientsInv
<1>2. Mutex' /\ AnswerInv' /\ EditsInv'
  BY RunMutex DEF RunClient
<1>3. ran' = ran /\ UNCHANGED <<responses, verdict>>
  BY RunRan DEF RunClient, LockBesideOthers, clientVars, checkVars
<1>4. ResponsesInv' /\ VerifiedMeansProbed'
  BY <1>3 DEF ClientsInv, ResponsesInv, VerifiedMeansProbed
<1> QED
  BY <1>1, <1>2, <1>4, RunUndisturbed DEF ClientsInv

-------------------------------------------------------------------------------
(***************************************************************************)
(* Connection tests and command lines: whatever they do in the exchange,   *)
(* they do it to runs that do not count as undisturbed any more.           *)
(***************************************************************************)

\* What makes a step of another client harmless to the runs.
LEMMA Disturbed ==
  ASSUME ClientsInv, ClientsTypeOK', UNCHANGED <<pc, answer, got, ran>>,
         \/ overlap' = [r \in Runs |-> overlap[r] \/ pc[r] \in Holding]
         \/ /\ UNCHANGED <<hostVars, overlap>>
            /\ \E c \in Checks : CheckActive(c)
         \/ /\ UNCHANGED <<hostVars, overlap>>
            /\ \E x \in Execs : ExecActive(x)
  PROVE  Mutex' /\ AnswerInv' /\ EditsInv' /\ UndisturbedInv' /\ OkWhenUndisturbed'
<1>1. Mutex' /\ AnswerInv' /\ EditsInv'
  BY DEF ClientsInv, Mutex, AnswerInv, EditsInv
<1>2. ASSUME NEW r \in Runs, ~overlap'[r]
      PROVE  ~overlap[r] /\ pc[r] \notin Holding
  <2>1. CASE overlap' = [q \in Runs |-> overlap[q] \/ pc[q] \in Holding]
    BY <1>2, <2>1
  <2>2. CASE overlap' = overlap /\ OthersActive
    BY <1>2, <2>2 DEF ClientsInv, UndisturbedInv, SoleInv
  <2> QED
    BY <2>1, <2>2 DEF OthersActive
<1>3. ran \in [Scripts -> Nat]
  BY DEF ClientsInv, ClientsTypeOK, TypeOK, HostTypeOK
<1>4. UndisturbedInv'
  BY <1>2, <1>3, SameRun, RunsAssumption DEF ClientsInv, UndisturbedInv
<1>5. OkWhenUndisturbed'
  BY <1>2 DEF ClientsInv, OkWhenUndisturbed
<1> QED
  BY <1>1, <1>4, <1>5

LEMMA ClientsInvCheck ==
  ASSUME ClientsInv, NEW c \in Checks, CheckStep(c)
  PROVE  ClientsInv'
<1> USE DEF CheckStep, CheckSnapshot, CheckRemoveStatus, CheckWriteInbox, CheckTrigger, CheckPoll,
            CheckRestoreStatus, CheckRestoreInbox, Conclude, CheckGoto
<1>1. ClientsTypeOK /\ ClientsTypeOK'
  BY ClientsTypeCheck DEF ClientsInv
<1>2. UNCHANGED <<pc, answer, got, ran>>
  BY DEF Disturb, hostVars, runVars
<1>3. \/ overlap' = [r \in Runs |-> overlap[r] \/ pc[r] \in Holding]
      \/ UNCHANGED <<hostVars, overlap>> /\ CheckActive(c)
  BY DEF Disturb, runVars, CheckActive, InExchange
<1>4. Mutex' /\ AnswerInv' /\ EditsInv' /\ UndisturbedInv' /\ OkWhenUndisturbed'
  BY <1>1, <1>2, <1>3, Disturbed
<1>5. responses' \subseteq responses
  OBVIOUS
<1>6. \A d \in Checks : verdict'[d] = "succeeded" => verdict[d] = "succeeded" \/ d \in responses
  BY <1>1 DEF ClientsTypeOK
<1>7. ResponsesInv' /\ VerifiedMeansProbed'
  BY <1>2, <1>5, <1>6 DEF ClientsInv, ResponsesInv, VerifiedMeansProbed
<1> QED
  BY <1>1, <1>4, <1>7 DEF ClientsInv

LEMMA ClientsInvExec ==
  ASSUME ClientsInv, NEW x \in Execs, ExecStep(x)
  PROVE  ClientsInv'
<1> USE DEF ExecStep, ExecRemoveStatus, ExecTruncate, ExecFill, ExecTrigger, ExecPoll, ExecGoto, Say
<1>1. ClientsTypeOK /\ ClientsTypeOK'
  BY ClientsTypeExec DEF ClientsInv
<1>2. UNCHANGED <<pc, answer, got, ran, responses, verdict>>
  BY DEF Disturb, hostVars, runVars, checkVars
<1>3. \/ overlap' = [r \in Runs |-> overlap[r] \/ pc[r] \in Holding]
      \/ UNCHANGED <<hostVars, overlap>> /\ ExecActive(x)
  BY DEF Disturb, runVars, ExecActive
<1>4. Mutex' /\ AnswerInv' /\ EditsInv' /\ UndisturbedInv' /\ OkWhenUndisturbed'
  BY <1>1, <1>2, <1>3, Disturbed
<1>5. ResponsesInv' /\ VerifiedMeansProbed'
  BY <1>2 DEF ClientsInv, ResponsesInv, VerifiedMeansProbed
<1> QED
  BY <1>1, <1>4, <1>5 DEF ClientsInv

-------------------------------------------------------------------------------
(***************************************************************************)
(* The theorems.                                                           *)
(***************************************************************************)

LEMMA ClientsInvInit == ClientsInit => ClientsInv
<1> SUFFICES ASSUME ClientsInit PROVE ClientsInv
  OBVIOUS
<1>1. ClientsTypeOK
  BY ClientsTypeInit
<1>2. Mutex /\ AnswerInv /\ EditsInv /\ UndisturbedInv /\ OkWhenUndisturbed
  BY DEF ClientsInit, Init, Mutex, Holding, AnswerInv, EditsInv, UndisturbedInv, SoleInv, ServedInv,
         OkWhenUndisturbed
<1>3. ResponsesInv /\ VerifiedMeansProbed
  BY DEF ClientsInit, ResponsesInv, VerifiedMeansProbed
<1> QED
  BY <1>1, <1>2, <1>3 DEF ClientsInv

\* The inductive invariant of the exchange with all its clients.
THEOREM ClientsInductive == ClientsSpec => []ClientsInv
<1>1. ClientsInv /\ [ClientsNext]_allVars => ClientsInv'
  <2> SUFFICES ASSUME ClientsInv, [ClientsNext]_allVars PROVE ClientsInv'
    OBVIOUS
  <2>1. CASE ClientsDone \/ UNCHANGED allVars
    <3>1. ClientsTypeOK'
      BY ClientsTypeStep DEF ClientsInv
    <3>2. UNCHANGED allVars
      BY <2>1 DEF ClientsDone, AllReturned, allVars
    <3>3. Mutex' /\ AnswerInv' /\ EditsInv' /\ ResponsesInv' /\ VerifiedMeansProbed' /\ OkWhenUndisturbed'
      BY <3>2 DEF ClientsInv, allVars, vars, hostVars, runVars, clientVars, checkVars, Mutex, AnswerInv,
                  EditsInv, ResponsesInv, VerifiedMeansProbed, OkWhenUndisturbed
    <3>4. UndisturbedInv'
      BY <3>2 DEF ClientsInv, allVars, vars, hostVars, fileVars, luaVars, runVars, clientVars, checkVars,
                  execVars, UndisturbedInv, SoleInv, ServedInv, OthersActive, CheckActive, ExecActive, Owed
    <3> QED
      BY <3>1, <3>3, <3>4 DEF ClientsInv
  <2> QED
    BY <2>1, ClientsInvRun, ClientsInvReaper, ClientsInvCheck, ClientsInvExec DEF ClientsNext
<1> QED
  BY <1>1, ClientsInvInit, PTL DEF ClientsSpec

\* Calls, tests and command lines keep their types (verifier_darwin.go, runner_cli.go).
THEOREM ClientsTypeCorrect == ClientsSpec => []ClientsTypeOK
BY ClientsInductive, PTL DEF ClientsInv

\* A connection test that succeeds has had its script run by REAPER, whoever else
\* writes the exchange (verifier_darwin.go: readVerificationResponse).
THEOREM ClientsVerifiedMeansProbed == ClientsSpec => []VerifiedMeansProbed
BY ClientsInductive, PTL DEF ClientsInv

\* A run that nobody joined between its lock and its answer can trust the "ok" and
\* the receipt it found, although both are files that others write too
\* (runner.go: run).
THEOREM ClientsOkWhenUndisturbed == ClientsSpec => []OkWhenUndisturbed
BY ClientsInductive, PTL DEF ClientsInv
===============================================================================
