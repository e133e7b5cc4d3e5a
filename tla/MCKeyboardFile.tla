---------------------------- MODULE MCKeyboardFile ----------------------------
(***************************************************************************)
(* The rows of studio_test.go:261-266: a script of REAPER's folder, one    *)
(* that is named by its whole path, and one that is gone.                  *)
(***************************************************************************)
EXTENDS KeyboardFile

CONSTANTS c1, c2, lyrics, render, goneScript

MCClients == {c1, c2}
MCScripts == {lyrics, render, goneScript}

MCInstances ==
  {[disk |-> {lyrics, render},
    rows |-> {Row(lyrics, TRUE, TRUE, FALSE), Row(render, TRUE, FALSE, TRUE),
              Row(goneScript, TRUE, FALSE, FALSE)}]}
===============================================================================
