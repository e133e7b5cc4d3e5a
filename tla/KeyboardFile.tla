----------------------------- MODULE KeyboardFile -----------------------------
(***************************************************************************)
(* reaper-kb.ini, in which REAPER keeps the scripts of its action list.    *)
(* The plugin registers a script there and cleans it (scripts.go), and     *)
(* reads it for its catalogs (registered_catalog.go, studio_scripts.go);   *)
(* REAPER replaces it whenever its action list changes.  Nobody locks it:  *)
(* the plugin reads the lines, closes the file, and writes all of them     *)
(* over it in place.                                                       *)
(*                                                                         *)
(* The file is the set of its SCR rows: the other lines are kept, and no   *)
(* two rows here are the same.                                             *)
(***************************************************************************)
EXTENDS Naturals

CONSTANTS
  Scripts,     \* script names
  Clients,     \* calls of the plugin: the command line, the MCP server
  Instances,   \* where to start from: [disk, rows]
  MaxChanges   \* bound on what the user does to files and to REAPER's list

VARIABLES
  disk,      \* scripts that exist in the Scripts directory
  keyboard,  \* the rows of reaper-kb.ini
  actions,   \* the rows REAPER has in memory
  at, call,  \* of each call: its place, and what it knows
  catalog,   \* the registered scripts as they were last listed
  changes

keyboardVars == <<disk, keyboard, actions, at, call, catalog, changes>>

\* A row has the command id or not, its path is relative to the Scripts
\* directory or absolute, and quoted or not: REAPER quotes a path with a space.
Row(script, id, relative, quoted) ==
  [script |-> script, id |-> id, relative |-> relative, quoted |-> quoted]

\* What RegisterScript writes.
Entry(script) == Row(script, FALSE, FALSE, TRUE)

NoCall == [rows |-> {}, missing |-> {}, removed |-> {}]

KeyboardInit ==
  /\ \E i \in Instances : disk = i.disk /\ keyboard = i.rows
  /\ actions = keyboard
  /\ at = [c \in Clients |-> "idle"]
  /\ call = [c \in Clients |-> NoCall]
  /\ catalog = {}
  /\ changes = MaxChanges

-------------------------------------------------------------------------------
\* parseKeyboardFields and the checks of its fields: the fourth is the command
\* id, in a row without one it is the label.
Registered(rows) == {row \in rows : row.id}

\* studioScriptFacts.registered; it needs the path in the sixth field.
RegistrationFact(rows, script) == \E row \in Registered(rows) : row.script = script

ReadCatalog ==
  /\ catalog' = {script \in Scripts : RegistrationFact(keyboard, script)}
  /\ UNCHANGED <<disk, keyboard, actions, at, call, changes>>

\* The line holds the absolute path of the script.
Holds(row, script) == row.script = script /\ ~row.relative

ReadToRegister(c, script) ==
  /\ at[c] = "idle"
  /\ script \in disk
  /\ IF \E row \in keyboard : Holds(row, script)
       THEN UNCHANGED <<at, call>>
       ELSE /\ at' = [at EXCEPT ![c] = "truncate"]
            /\ call' = [call EXCEPT ![c] = [NoCall EXCEPT !.rows = keyboard \cup {Entry(script)}]]
  /\ UNCHANGED <<disk, keyboard, actions, catalog, changes>>

\* os.Stat takes a relative path from the directory the plugin runs in.
Exists(row, workdir) == row.script \in disk /\ (row.relative => workdir = "scripts")

\* Only a row with two quoted fields has a path to check.
Cleanable(row, workdir) == row.quoted /\ ~Exists(row, workdir)

ReadToClean(c) ==
  /\ at[c] = "idle"
  /\ \E workdir \in {"scripts", "elsewhere"} :
       LET gone == {row \in keyboard : Cleanable(row, workdir)} IN
       /\ call' = [call EXCEPT ![c] =
                     [rows |-> keyboard \ gone, removed |-> gone,
                      missing |-> {row \in keyboard : row.script \notin disk}]]
       /\ at' = [at EXCEPT ![c] = IF gone = {} THEN "idle" ELSE "truncate"]
  /\ UNCHANGED <<disk, keyboard, actions, catalog, changes>>

\* os.WriteFile empties the file and then fills it.
Truncate(c) ==
  /\ at[c] = "truncate"
  /\ at' = [at EXCEPT ![c] = "write"]
  /\ keyboard' = {}
  /\ UNCHANGED <<disk, actions, call, catalog, changes>>

Write(c) ==
  /\ at[c] = "write"
  /\ at' = [at EXCEPT ![c] = "idle"]
  /\ keyboard' = call[c].rows
  /\ UNCHANGED <<disk, actions, call, catalog, changes>>

\* A crash, or an error of the file system.
Stop(c) ==
  /\ at[c] # "idle"
  /\ at' = [at EXCEPT ![c] = "idle"]
  /\ UNCHANGED <<disk, keyboard, actions, call, catalog, changes>>

AddScript(script) ==
  /\ script \notin disk
  /\ disk' = disk \cup {script}

DeleteScript(script) ==
  /\ script \in disk
  /\ disk' = disk \ {script}

FilesChange ==
  /\ changes > 0
  /\ changes' = changes - 1
  /\ \E script \in Scripts : AddScript(script) \/ DeleteScript(script)
  /\ UNCHANGED <<keyboard, actions, at, call, catalog>>

\* The user loads a script into REAPER's action list: REAPER gives it an id, and
\* saves the rows it knows, which need not be those of the file.
ReaperSaves ==
  /\ changes > 0
  /\ changes' = changes - 1
  /\ \E script \in disk, quoted \in BOOLEAN :
       actions' = actions \cup {Row(script, TRUE, TRUE, quoted)}
  /\ keyboard' = actions'
  /\ UNCHANGED <<disk, at, call, catalog>>

\* REAPER starts anew.
ReaperLoads ==
  /\ actions # keyboard
  /\ actions' = keyboard
  /\ UNCHANGED <<disk, keyboard, at, call, catalog, changes>>

KeyboardNext ==
  \/ \E c \in Clients :
       \/ ReadToClean(c) \/ Truncate(c) \/ Write(c) \/ Stop(c)
       \/ \E script \in Scripts : ReadToRegister(c, script)
  \/ ReadCatalog \/ FilesChange \/ ReaperSaves \/ ReaperLoads

KeyboardSpec == KeyboardInit /\ [][KeyboardNext]_keyboardVars

-------------------------------------------------------------------------------
\* "Remove reaper-kb.ini entries whose script files no longer exist"
\* (cmd/reaper-plugin/main.go:36): what CleanScripts removes is what is missing.
\* The code checks only rows with a quoted path, and a relative one in the wrong
\* directory.
CleanRemovesTheMissing == \A c \in Clients : call[c].removed = call[c].missing
===============================================================================
