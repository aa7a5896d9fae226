--------------------------- MODULE ModelScheduler ---------------------------
(***************************************************************************)
(* The scheduler inside the model daemon (scheduler.rs): configurations    *)
(* with revisions, the circuit breaker of the primary endpoint and its     *)
(* failover, the cache of health, and the jobs that it hands to the two    *)
(* local adapters, LlamaWorker and AsrWorker.                              *)
(*                                                                         *)
(* A configuration is named by its revision.  Time is counted in ticks: a  *)
(* timer that is due fires before the next tick.                           *)
(***************************************************************************)
EXTENDS LlamaWorker, AsrWorker

CONSTANTS
    NoConfig,
    WithBackup,     \* the configurations with an authorised backup endpoint
    Budget,         \* the longest deadline of a job, in ticks
    Threshold,      \* circuit_failure_threshold
    OpenFor         \* circuit_open_seconds, in ticks

ASSUME SchedulerAssumption ==
    /\ NoConfig \notin Config
    /\ WithBackup \subseteq Config
    /\ Budget \in Nat \ {0} /\ Threshold \in Nat \ {0} /\ OpenFor \in Nat \ {0}

VARIABLES
    capability, \* what each job asks for
    plan,       \* where the calls to remote endpoints of each job stand
    remote,     \* the providers in force
    models,     \* the local models in force
    received,   \* the configurations received so far
    circuit,    \* primary_circuit
    cache,      \* HealthCache
    probe,      \* the probe under way and what it was started with
    down,       \* the connection has ended
    blamed      \* history: requests whose primary call failed, per configuration

planVars == <<plan, circuit, blamed>>
configVars == <<remote, models, received>>
healthVars == <<cache, probe>>
ownVars == <<capability, plan, remote, models, received, circuit, cache, probe, down, blamed>>
schedulerVars == <<ownVars, llamaVars, asrVars>>

Capability == {"remote_planning", "speech_recognition", "local"}
PlanStage == {"out", "primary", "pause", "backup", "transcribe"}

NoPlan == [stage |-> "out", config |-> NoConfig, left |-> 0, share |-> 0,
           pause |-> 0, retried |-> FALSE, budget |-> 0]

\* No probe, or the generation and the models that a probe was started with.
NoProbe == [running |-> FALSE, generation |-> 0, config |-> NoConfig]

Closed(revision) == [revision |-> revision, failures |-> 0, open |-> 0]

SchedulerInit ==
    /\ LlamaInit /\ AsrInit
    /\ capability \in [Job -> Capability]
    /\ plan = [j \in Job |-> NoPlan]
    /\ remote = NoConfig /\ models = NoConfig /\ received = {}
    /\ circuit = Closed(NoConfig)
    /\ cache = [generation |-> 0, attempt |-> "none", config |-> NoConfig]
    /\ probe = NoProbe
    /\ down = FALSE
    /\ blamed = [c \in Config |-> 0]

\* The place of a job is free: it has answered.
Idle(j) == plan[j].stage = "out" /\ llm[j] = "out" /\ asr[j] = "out"

AtMost(n, bound) == IF n > bound THEN bound ELSE n

----------------------------------------------------------------------------
(* The health cache. *)

\* refresh_health on the cache as it is, for the models in force.
Refresh(c, m, force) ==
    IF (force \/ c.attempt \in {"none", "old"}) /\ ~probe.running
    THEN /\ probe' = [running |-> TRUE, generation |-> c.generation, config |-> m]
         /\ cache' = [c EXCEPT !.attempt = "recent"]
    ELSE cache' = c /\ UNCHANGED probe

\* A Health request, or the part of maintenance that is about the cache.
Health ==
    /\ ~down
    /\ Refresh(cache, models, FALSE)
    /\ UNCHANGED <<capability, planVars, configVars, down, llamaVars, asrVars>>

\* The spawned probe: its sample counts only for the generation it began in.
ProbeEnds ==
    /\ probe.running
    /\ cache' = IF cache.generation = probe.generation
                THEN [cache EXCEPT !.config = probe.config]
                ELSE [cache EXCEPT !.attempt = "none"]
    /\ probe' = NoProbe
    /\ UNCHANGED <<capability, planVars, configVars, down, llamaVars, asrVars>>

\* Thirty seconds pass since the last attempt.
AttemptAges ==
    /\ cache.attempt = "recent"
    /\ cache' = [cache EXCEPT !.attempt = "old"]
    /\ UNCHANGED <<capability, planVars, configVars, probe, down, llamaVars, asrVars>>

----------------------------------------------------------------------------
(* Configuration.  Revisions are not used twice. *)

NewGeneration == [cache EXCEPT !.generation = @ + 1, !.attempt = "none"]

\* Variant: the cache is refreshed before the models are replaced.
ConfigureSchedulerEarly(c) ==
    /\ ~down /\ c \in Config \ received
    /\ received' = received \cup {c}
    /\ remote' = c /\ models' = c
    /\ circuit' = Closed(c)
    /\ LlamaReconfigure
    /\ Refresh(NewGeneration, models, TRUE)
    /\ UNCHANGED <<capability, plan, blamed, down, asrVars>>

ConfigureScheduler(c) ==
    /\ ~down /\ c \in Config \ received
    /\ received' = received \cup {c}
    /\ remote' = c /\ models' = c
    /\ circuit' = Closed(c)
    /\ LlamaReconfigure
    /\ Refresh(NewGeneration, c, TRUE)
    /\ UNCHANGED <<capability, plan, blamed, down, asrVars>>

ConfigureRemote(c) ==
    /\ ~down /\ c \in Config \ received
    /\ received' = received \cup {c}
    /\ remote' = c
    /\ circuit' = Closed(c)
    /\ UNCHANGED <<capability, plan, models, healthVars, blamed, down, llamaVars, asrVars>>

ConfigureModels(c) ==
    /\ ~down /\ c \in Config \ received
    /\ received' = received \cup {c}
    /\ models' = c
    /\ LlamaReconfigure
    /\ Refresh(NewGeneration, c, TRUE)
    /\ UNCHANGED <<capability, planVars, remote, down, asrVars>>

----------------------------------------------------------------------------
(* Remote planning: remote_plan and model_api::retry. *)

HasBackup(c) == c \in WithBackup

\* Variant: the primary has all the time.
WholeShare(c, left) == left

\* The primary's share of the time that is left: half of it, or all of it when
\* there is no backup.
Share(c, left) == IF HasBackup(c) THEN left \div 2 ELSE left

\* Variant: every request looks at the circuit.
AnyCircuit(c) == circuit.revision # NoConfig

\* The circuit that a request of configuration c looks at and writes.
CircuitOf(c) == circuit.revision = c
PrimaryOpen(c) == CircuitOf(c) /\ circuit.open > 0

SetStage(j, stage) == plan' = [plan EXCEPT ![j].stage = stage]
PlanEnds(j) == plan' = [plan EXCEPT ![j] = NoPlan]

\* A job with the configuration it was pinned to and the time it has.
StartRemotePlan(j, c, left) ==
    /\ capability[j] = "remote_planning" /\ Idle(j) /\ ~down
    /\ c \in received
    /\ LET stage == IF ~PrimaryOpen(c) THEN "primary"
                    ELSE IF HasBackup(c) THEN "backup" ELSE "out"
       IN plan' = [plan EXCEPT ![j] =
             IF stage = "out" THEN NoPlan
             ELSE [stage |-> stage, config |-> c, left |-> left, share |-> Share(c, left),
                   pause |-> 0, retried |-> FALSE, budget |-> left]]
    /\ UNCHANGED <<capability, configVars, circuit, healthVars, down, blamed, llamaVars, asrVars>>

PrimaryAnswers(j) ==
    /\ plan[j].stage = "primary" /\ plan[j].share > 0
    /\ circuit' = IF CircuitOf(plan[j].config) THEN Closed(circuit.revision) ELSE circuit
    /\ PlanEnds(j)
    /\ UNCHANGED blamed

\* An error that is not transient neither fails over nor touches the circuit.
PrimaryRejects(j) ==
    /\ plan[j].stage = "primary" /\ plan[j].share > 0
    /\ PlanEnds(j)
    /\ UNCHANGED <<circuit, blamed>>

\* A transient failure, retried after a delay that fits (only without a backup).
PrimaryRetries(j, delay) ==
    /\ plan[j].stage = "primary"
    /\ ~HasBackup(plan[j].config) /\ ~plan[j].retried
    /\ delay < plan[j].share
    /\ plan' = [plan EXCEPT ![j].stage = "pause", ![j].pause = delay, ![j].retried = TRUE]
    /\ UNCHANGED <<circuit, blamed>>

RetryBegins(j) ==
    /\ plan[j].stage = "pause" /\ plan[j].pause = 0
    /\ SetStage(j, "primary")
    /\ UNCHANGED <<circuit, blamed>>

\* The circuit after one more failure.
Charged ==
    LET failures == AtMost(circuit.failures + 1, Threshold)
    IN [circuit EXCEPT !.failures = failures,
                       !.open = IF failures >= Threshold THEN OpenFor ELSE @]

CircuitAfterFailure(c) == IF CircuitOf(c) THEN Charged ELSE circuit

\* The failure counts: the call failed, or its share of the time is over.
PrimaryFails(j) ==
    LET c == plan[j].config IN
    /\ plan[j].stage = "primary"
    /\ circuit' = CircuitAfterFailure(c)
    /\ blamed' = [blamed EXCEPT ![c] = AtMost(@ + 1, Threshold)]
    /\ IF HasBackup(c) /\ plan[j].left > 0 THEN SetStage(j, "backup") ELSE PlanEnds(j)

BackupEnds(j) ==
    /\ plan[j].stage = "backup"
    /\ PlanEnds(j)
    /\ UNCHANGED <<circuit, blamed>>

DeadlineExceeded(j) ==
    /\ plan[j].stage # "out" /\ plan[j].left = 0
    /\ PlanEnds(j)
    /\ UNCHANGED <<circuit, blamed>>

RemotePlanStep(j) ==
    /\ ~down
    /\ \/ PrimaryAnswers(j) \/ PrimaryRejects(j) \/ RetryBegins(j) \/ PrimaryFails(j)
       \/ BackupEnds(j) \/ DeadlineExceeded(j)
       \/ \E delay \in 1..Budget : PrimaryRetries(j, delay)
    /\ UNCHANGED <<capability, configVars, healthVars, down, llamaVars, asrVars>>

Due(p) ==
    \/ p.stage # "out" /\ p.left = 0
    \/ p.stage = "primary" /\ p.share = 0
    \/ p.stage = "pause" /\ p.pause = 0

\* One tick of the clock for every deadline at once.
Less(n) == IF n = 0 THEN 0 ELSE n - 1
Tick ==
    /\ ~down
    /\ circuit.open > 0 \/ \E j \in Job : plan[j].stage # "out"
    /\ \A j \in Job : ~Due(plan[j])
    /\ plan' = [j \in Job |-> [plan[j] EXCEPT !.left = Less(@), !.share = Less(@),
                                              !.pause = Less(@)]]
    /\ circuit' = [circuit EXCEPT !.open = Less(@)]
    /\ UNCHANGED <<capability, configVars, healthVars, down, blamed, llamaVars, asrVars>>

----------------------------------------------------------------------------
(* Speech recognition: the local adapter, then the transcription endpoint. *)

\* remote_transcribe, unless it is not authorised or there is no endpoint.
FallBack(j) ==
    \/ UNCHANGED plan
    \/ \E left \in 1..Budget :
          plan' = [plan EXCEPT ![j] = [NoPlan EXCEPT !.stage = "transcribe", !.left = left]]

\* The local attempt goes on, or ends without a text.
AfterLocal(j) == IF asr'[j] = "out" THEN FallBack(j) ELSE UNCHANGED plan

StartSpeech(j, c) ==
    /\ capability[j] = "speech_recognition" /\ Idle(j) /\ ~down
    /\ c \in received
    /\ \/ Transcribe(j, c) /\ AfterLocal(j)
       \/ WorkerLocked /\ FallBack(j) /\ UNCHANGED asrVars
    /\ UNCHANGED <<capability, configVars, circuit, healthVars, down, blamed, llamaVars>>

SpeechStep(j) ==
    /\ ~down
    /\ \/ AsrAnswers(j) /\ UNCHANGED plan
       \/ /\ Reaped(j) \/ Replaced(j) \/ ExitUnconfirmed(j) \/ AsrFails(j) \/ KillConfirmed(j)
          /\ AfterLocal(j)
    /\ UNCHANGED <<capability, configVars, circuit, healthVars, down, blamed, llamaVars>>

TranscribeEnds(j) ==
    /\ plan[j].stage = "transcribe" /\ ~down
    /\ PlanEnds(j)
    /\ UNCHANGED <<capability, configVars, circuit, healthVars, down, blamed, llamaVars, asrVars>>

----------------------------------------------------------------------------
(* Local planning, grounding and verification: the llama.cpp adapter. *)

\* run_job asks for a decision when the model is not available.
StartLocal(j, k) ==
    /\ capability[j] = "local" /\ Idle(j) /\ ~down
    /\ k.config \in received /\ k.model \notin disabled
    /\ LlamaRequest(j, k)
    /\ UNCHANGED <<ownVars, asrVars>>

LocalStep(j) ==
    /\ ~down
    /\ LlamaStep(j)
    /\ UNCHANGED <<ownVars, asrVars>>

----------------------------------------------------------------------------
(* The connection's task: cancellations, deadlines of local stages,          *)
(* maintenance, and the end.                                                 *)

DropJob(j) ==
    \/ LlamaDrop(j) /\ UNCHANGED <<ownVars, asrVars>>
    \/ AsrDrop(j) /\ UNCHANGED <<ownVars, llamaVars>>
    \/ /\ plan[j].stage # "out"
       /\ PlanEnds(j)
       /\ UNCHANGED <<capability, configVars, circuit, healthVars, down, blamed, llamaVars, asrVars>>

Maintenance ==
    /\ ~down
    /\ \/ LlamaMaintenance /\ UNCHANGED asrVars
       \/ UnloadIfIdle /\ UNCHANGED llamaVars
    /\ UNCHANGED ownVars

ConnectionEnds ==
    /\ ~down
    /\ down' = TRUE
    /\ UNCHANGED <<capability, planVars, configVars, healthVars, llamaVars, asrVars>>

\* shutdown waits for the dropped jobs, then for the speech child, then for
\* the llama server.
Shutdown ==
    /\ down /\ \A j \in Job : Idle(j)
    /\ \/ AsrShutdown /\ UNCHANGED llamaVars
       \/ stopping /\ LlamaShutdown /\ UNCHANGED asrVars
    /\ UNCHANGED ownVars

Processes ==
    \/ LlamaEnvironment /\ UNCHANGED <<ownVars, asrVars>>
    \/ AsrEnvironment /\ UNCHANGED <<ownVars, llamaVars>>

JobStep(j) ==
    \/ \E c \in Config, left \in 1..Budget : StartRemotePlan(j, c, left)
    \/ \E c \in Config : StartSpeech(j, c)
    \/ \E k \in WorkerKey : StartLocal(j, k)
    \/ RemotePlanStep(j) \/ SpeechStep(j) \/ TranscribeEnds(j) \/ LocalStep(j)
    \/ DropJob(j)

Configure ==
    \E c \in Config : ConfigureScheduler(c) \/ ConfigureRemote(c) \/ ConfigureModels(c)

SchedulerNext ==
    \/ \E j \in Job : JobStep(j)
    \/ Configure
    \/ Health \/ ProbeEnds \/ AttemptAges \/ Tick
    \/ Maintenance \/ Processes \/ ConnectionEnds \/ Shutdown

SchedulerSpec == SchedulerInit /\ [][SchedulerNext]_schedulerVars

----------------------------------------------------------------------------
SchedulerTypeOK ==
    /\ LlamaTypeOK /\ AsrTypeOK
    /\ capability \in [Job -> Capability]
    /\ plan \in [Job -> [stage: PlanStage, config: Config \cup {NoConfig}, left: 0..Budget,
                         share: 0..Budget, pause: 0..Budget, retried: BOOLEAN, budget: 0..Budget]]
    /\ remote \in Config \cup {NoConfig} /\ models \in Config \cup {NoConfig}
    /\ received \subseteq Config
    /\ circuit \in [revision: Config \cup {NoConfig}, failures: 0..Threshold, open: 0..OpenFor]
    /\ cache \in [generation: Nat, attempt: {"none", "recent", "old"},
                  config: Config \cup {NoConfig}]
    /\ probe \in [running: BOOLEAN, generation: Nat, config: Config \cup {NoConfig}]
    /\ down \in BOOLEAN
    /\ blamed \in [Config -> 0..Threshold]

\* The processes of the two adapters: one llama server that is in use, one that serves
\* the configuration it was started for, one child of the speech recognition.
ProcessesAreOwned == OneServerRuns /\ ServedByItsOwn /\ OneOwnedChild

\* "Old failures cannot change the new configuration's circuit"
\* (MODEL-CALLING.md): the circuit counts no more failures than there were
\* requests of its own configuration that failed, and it is open only when
\* those reached the threshold; a request that is retried counts once.
OnlyOwnFailures ==
    circuit.revision \in Config =>
        /\ circuit.failures <= blamed[circuit.revision]
        /\ circuit.open > 0 => blamed[circuit.revision] = Threshold

\* Whenever no probe is under way and none is due, the cache shows the models
\* in force, however configurations, probes and health requests overlap: what
\* the daemon reports about old models is never left standing.
HealthIsCurrent ==
    ~probe.running /\ cache.attempt \in {"recent", "old"} => cache.config = models

\* "An authorized primary attempt receives at most half the remaining stage
\* budget" (MODEL-CALLING.md): when the primary has failed, by an error or by
\* its time, at least half of the time of the request is left for the backup.
FailoverHasHalf ==
    [][\A j \in Job : plan[j].stage = "primary" /\ plan'[j].stage = "backup"
          => 2 * plan[j].left >= plan[j].budget]_schedulerVars
=============================================================================
