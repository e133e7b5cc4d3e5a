------------------------------ MODULE ReaperHost ------------------------------
(***************************************************************************)
(* REAPER as the plugin meets it: three files in the runner exchange       *)
(* directory ~/.ori-reaper, and a main thread that runs                    *)
(* ori_reaper_runner.lua once for every Web Remote trigger it was sent.    *)
(*                                                                         *)
(* A trigger names the runner's command, never a script: the Lua runner    *)
(* executes whatever inbox.lua holds when the main thread gets to it.      *)
(* That may be long after the request, since a modal dialog or a project   *)
(* load keeps the main thread busy.                                        *)
(*                                                                         *)
(* Everything that writes the exchange from outside REAPER lives in the    *)
(* modules that extend this one (RunnerExchange, ExchangeClients).         *)
(***************************************************************************)
EXTENDS Naturals

CONSTANTS
  Scripts,   \* the Lua texts somebody may put in the inbox
  Edits,     \* those that write last_receipt.txt: single edits, bulk plans
  NoFile,    \* a file that does not exist
  Blank      \* an inbox that exists and holds no code

ASSUME ScriptsAssumption ==
  /\ Edits \subseteq Scripts
  /\ NoFile \notin Scripts
  /\ Blank \notin Scripts
  /\ NoFile # Blank

VARIABLES
  inbox,     \* inbox.lua
  status,    \* last_status.txt, by what a reader makes of it
  receipt,   \* last_receipt.txt: the script whose receipt it is
  pending,   \* triggers REAPER has received and not yet started
  stage,     \* where the Lua runner is in its current execution
  loaded,    \* the script of that execution
  outcome,   \* the status text that execution is about to write
  ran        \* history: how often each script has been executed

fileVars == <<inbox, status, receipt>>
luaVars  == <<stage, loaded, outcome>>
hostVars == <<fileVars, pending, luaVars, ran>>

Stages == {"idle", "loaded", "report", "writing"}

\* "none": no file; "empty": the moment between io.open(path, "w") and the
\* flush of the text; "ok"; "error" for every text that starts with "error:".
StatusTexts == {"none", "empty", "ok", "error"}

HostTypeOK ==
  /\ inbox   \in Scripts \cup {NoFile, Blank}
  /\ status  \in StatusTexts
  /\ receipt \in Edits \cup {NoFile}
  /\ pending \in Nat
  /\ stage   \in Stages
  /\ loaded  \in Scripts \cup {NoFile}
  /\ stage = "loaded" => loaded \in Scripts
  /\ outcome \in {"ok", "error"}
  /\ ran     \in [Scripts -> Nat]

\* A fresh exchange directory beside a running REAPER.
HostInit ==
  /\ inbox = NoFile
  /\ status = "none"
  /\ receipt = NoFile
  /\ pending = 0
  /\ stage = "idle"
  /\ loaded = NoFile
  /\ outcome = "error"
  /\ ran = [s \in Scripts |-> 0]

\* The main thread starts the runner action and reads the inbox. With no
\* inbox, or one of white space only, there is only an error to report.
LuaLoad ==
  /\ stage = "idle"
  /\ pending > 0
  /\ pending' = pending - 1
  /\ IF inbox \in Scripts
       THEN /\ stage' = "loaded"
            /\ loaded' = inbox
            /\ UNCHANGED outcome
       ELSE /\ stage' = "report"
            /\ outcome' = "error"
            /\ loaded' = NoFile
  /\ UNCHANGED <<fileVars, ran>>

\* The audit of a reserved header, or load(), turns the script away. Which
\* scripts those are no property asks, so it is a choice.
LuaRefuse ==
  /\ stage = "loaded"
  /\ stage' = "report"
  /\ outcome' = "error"
  /\ UNCHANGED <<fileVars, pending, loaded, ran>>

\* Mutant: every script, not only an edit, leaves a receipt.
EveryScriptLeavesReceipt ==
  /\ stage = "loaded"
  /\ stage' = "report"
  /\ outcome' \in {"ok", "error"}
  /\ ran' = [ran EXCEPT ![loaded] = @ + 1]
  /\ receipt' = loaded
  /\ UNCHANGED <<inbox, status, pending, loaded>>

\* The chunk runs under pcall. An edit writes its receipt on every path that
\* ends without an error, unless the receipt file cannot be opened; an edit
\* that raises an error may have come as far as the receipt or not.
LuaExecute ==
  /\ stage = "loaded"
  /\ stage' = "report"
  /\ outcome' \in {"ok", "error"}
  /\ ran' = [ran EXCEPT ![loaded] = @ + 1]
  /\ receipt' \in {receipt} \cup ({loaded} \cap Edits)
  /\ UNCHANGED <<inbox, status, pending, loaded>>

\* The execution is over, and its locals with it.
GoIdle ==
  /\ stage' = "idle"
  /\ loaded' = NoFile
  /\ outcome' = "error"

\* set_status opens the file with mode "w", which empties it, and then writes.
LuaOpenStatus ==
  /\ stage = "report"
  /\ \/ /\ status' = "empty"
        /\ stage' = "writing"
        /\ UNCHANGED <<loaded, outcome>>
     \/ /\ GoIdle                  \* io.open failed: write_file returns false
        /\ UNCHANGED status
  /\ UNCHANGED <<inbox, receipt, pending, ran>>

LuaWriteStatus ==
  /\ stage = "writing"
  /\ status' = outcome
  /\ GoIdle
  /\ UNCHANGED <<inbox, receipt, pending, ran>>

\* REAPER quits, or is killed, and starts again: the triggers it had not
\* started and the execution it was in are gone; the files stay.
ReaperRestart ==
  /\ pending > 0 \/ stage # "idle"
  /\ pending' = 0
  /\ GoIdle
  /\ UNCHANGED <<fileVars, ran>>

LuaStep == LuaLoad \/ LuaRefuse \/ LuaExecute \/ LuaOpenStatus \/ LuaWriteStatus

HostNext == LuaStep \/ ReaperRestart
===============================================================================
