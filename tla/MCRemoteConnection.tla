------------------------- MODULE MCRemoteConnection -------------------------
(***************************************************************************)
(* Finite instances of RemoteConnection for TLC.                           *)
(***************************************************************************)
EXTENDS RemoteConnection, TLC

CONSTANTS a, b

MCRequestId == {a, b}

Symmetry == Permutations(MCRequestId)

\* No step depends on the other history variables, and of the invariants of the
\* run for every phone only the type invariant mentions them: states that differ
\* in nothing else are one state.
WithoutBookkeeping == <<conn, slots, inference, executor, starts, lateActs>>
=============================================================================
