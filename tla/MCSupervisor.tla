---------------------------- MODULE MCSupervisor ----------------------------
(***************************************************************************)
(* Finite instances of Supervisor for TLC.                                 *)
(***************************************************************************)
EXTENDS Supervisor, TLC

CONSTANTS d1, d2, d3, r1, r2

TwoDaemons == {d1, d2}
ThreeDaemons == {d1, d2, d3}
OneRequest == {r1}
TwoRequests == {r1, r2}

Symmetry == Permutations(ThreeDaemons) \cup Permutations(TwoRequests)
=============================================================================
