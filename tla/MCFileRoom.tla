----------------------------- MODULE MCFileRoom -----------------------------
(***************************************************************************)
(* Model values for FileRoom.                                              *)
(***************************************************************************)
EXTENDS FileRoom, TLC

CONSTANTS c1, c2
MCClient == {c1, c2}
Symmetry == Permutations(MCClient)
=============================================================================
