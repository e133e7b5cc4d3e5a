------------------------------ MODULE ReaperDesk ------------------------------
(***************************************************************************)
(* Project Tidy and the Studio catalog in one plugin process: their calls  *)
(* take turns at one Runner, and a run that is over may have left REAPER   *)
(* something to do that it comes to in the middle of another call, of the  *)
(* other kind maybe.                                                       *)
(***************************************************************************)
EXTENDS TidySession, StudioCatalog

ASSUME DeskAssumption ==
  \A i \in Instances :
    /\ i.trees # {} /\ \A t \in i.trees : IsTree(t)
    /\ i.lists # {} /\ \A l \in i.lists : IsList(l)

deskVars == <<ownVars, studioVars, sharedVars>>

DeskInit ==
  \E i \in Instances :
    /\ TidyStart(i)
    /\ StudioStart(i)
    /\ SharedInit(i.owing)

\* Nobody wants anything, for now or for good.
Quiet ==
  /\ \A c \in Callers : pc[c] = "idle"
  /\ \A r \in Readers : phase[r] \in {"idle", "done", "failed"}
  /\ UNCHANGED deskVars

DeskNext ==
  \/ TidyStep /\ UNCHANGED studioVars
  \/ StudioStep /\ UNCHANGED ownVars
  \/ Forget /\ UNCHANGED <<ownVars, studioVars>>
  \/ Quiet

DeskSpec == DeskInit /\ [][DeskNext]_deskVars /\ StudioFairness
===============================================================================
