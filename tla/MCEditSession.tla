----------------------------- MODULE MCEditSession -----------------------------
(***************************************************************************)
(* EditSession on a project of three tracks: a named one in custom black,  *)
(* an unnamed folder parent, and a named one soloed in place.              *)
(***************************************************************************)
EXTENDS EditSession

CONSTANTS c1, c2

MCCallers  == {c1, c2}
MCSymmetry == Permutations(MCCallers)

MCNames == {0, 1, 2}
MCIds   == {1, 2, 3}

T(id, name, color, solo, parent) ==
  [id |-> id, name |-> name, color |-> color, solo |-> solo, parent |-> parent]

MCProjects == {<<T(1, 1, 2, 0, FALSE), T(2, 0, 0, 0, TRUE), T(3, 2, 0, 2, FALSE)>>}
===============================================================================
