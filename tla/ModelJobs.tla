----------------------------- MODULE ModelJobs -----------------------------
(***************************************************************************)
(* What the adapters of the model daemon share: the places for the jobs of *)
(* the one connection, and the configurations, named by their revisions.   *)
(***************************************************************************)
CONSTANTS Job, Config

ASSUME ModelJobsAssumption == Config # {}
=============================================================================
