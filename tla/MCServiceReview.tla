---------------------------- MODULE MCServiceReview ----------------------------
(***************************************************************************)
(* ServiceReview with three calls at a time, one file, and one item of each  *)
(* kind at a time.                                                         *)
(***************************************************************************)
EXTENDS ServiceReview, TLC

CONSTANTS c1, c2, c3, w1, w2, i1, i2, i3

MCCallers    == {c1, c2, c3}
MCWorkspaces == {w1, w2}
MCIds        == {i1, i2, i3}

MCSymmetry == Permutations(MCCallers) \cup Permutations(MCWorkspaces)
                \cup Permutations(MCIds)
===============================================================================
