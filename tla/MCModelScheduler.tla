-------------------------- MODULE MCModelScheduler --------------------------
(***************************************************************************)
(* A finite instance of ModelScheduler for TLC.                            *)
(***************************************************************************)
EXTENDS ModelScheduler, TLC

CONSTANTS j1, j2, server1, server2, child1, child2

TwoJobs == {j1, j2}
TwoServers == {server1, server2}
TwoChildren == {child1, child2}
TwoConfigs == {1, 2}
SecondConfig == {2}

\* The jobs of different capabilities share nothing but configurations and the
\* end of the connection, so that a workload has one of them.
MCInit == SchedulerInit /\ capability[j1] = capability[j2]
MCSpec == MCInit /\ [][SchedulerNext]_schedulerVars

\* The health cache never looks at the jobs, the adapters never look at the
\* remote providers, and a configuration that came in parts is to a job what a
\* whole one is: the rarer states of these are explored while there is no job.
\* After the end of the connection the jobs of remote planning are only dropped.
Planning == capability[j1] = "remote_planning"
Focus ==
    /\ (~Planning \/ \E j \in TwoJobs : ~Idle(j)) =>
          /\ cache.attempt # "old"
          /\ probe.running => probe.generation = cache.generation
          /\ remote = models
    /\ Planning => ~down

Symmetry == Permutations(TwoJobs) \cup Permutations(TwoServers) \cup Permutations(TwoChildren)
=============================================================================
