----------------------------- MODULE MCModelIpc -----------------------------
(***************************************************************************)
(* Finite instances of ModelIpc for TLC.                                   *)
(***************************************************************************)
EXTENDS ModelIpc, TLC

CONSTANTS j1, j2, health

TwoJobs == {j1, j2}
OneControl == {health}

Symmetry == Permutations(TwoJobs)
=============================================================================
