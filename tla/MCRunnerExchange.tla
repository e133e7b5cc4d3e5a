--------------------------- MODULE MCRunnerExchange ---------------------------
(***************************************************************************)
(* RunnerExchange with two edits and one plain script, called concurrently.*)
(***************************************************************************)
EXTENDS RunnerExchange, TLC

CONSTANTS e1, e2, s1

MCScripts == {e1, e2, s1}
MCEdits   == {e1, e2}

\* The two edits are interchangeable.
MCSymmetry == Permutations(MCEdits)
===============================================================================
