---------------------------- MODULE LlamaWorker ----------------------------
(***************************************************************************)
(* The llama.cpp adapter of the model daemon (LlamaAdapter, llama.rs): one *)
(* server process serves the local requests one at a time, is kept hot     *)
(* between them, replaced when another model or configuration is asked     *)
(* for, unloaded when idle, and killed when a request is dropped half way. *)
(*                                                                         *)
(* The requests are futures of one task (serve_connection), so a step      *)
(* lasts from one await to the next, and maintenance and reconfiguration   *)
(* happen between the steps.  A Job is a place for a request: it is used   *)
(* again when its request has ended.                                       *)
(***************************************************************************)
EXTENDS ModelJobs, Naturals, FiniteSets

CONSTANTS RuntimeModel, Server, NoServer

ASSUME LlamaAssumption == NoServer \notin Server /\ RuntimeModel # {}

\* WorkerKey: the model and the files that a configuration names for it.
WorkerKey == [model: RuntimeModel, config: Config]
AnyKey == CHOOSE k \in WorkerKey : TRUE

VARIABLES
    llm,        \* where run_model stands for each job
    want,       \* the key of the worker that the job asks for
    uses,       \* the worker the job holds (its Arc)
    metadata,   \* metadata_gate: a blocking task reads model files
    slot,       \* hot_worker
    server,     \* the processes
    disabled    \* failed_models

llamaVars == <<llm, want, uses, metadata, slot, server, disabled>>

LlamaStage == {"out", "gate", "metadata", "ensure", "evict", "start", "ask"}

LlamaTypeOK ==
    /\ llm \in [Job -> LlamaStage]
    /\ want \in [Job -> WorkerKey]
    /\ uses \in [Job -> Server \cup {NoServer}]
    /\ metadata \in {"free", "busy"}
    /\ slot \in Server \cup {NoServer}
    /\ server \in [Server -> [up: BOOLEAN, killed: BOOLEAN, active: BOOLEAN,
                              idle: BOOLEAN, key: WorkerKey]]
    /\ disabled \subseteq RuntimeModel

LlamaInit ==
    /\ llm = [j \in Job |-> "out"]
    /\ want = [j \in Job |-> AnyKey]
    /\ uses = [j \in Job |-> NoServer]
    /\ metadata = "free"
    /\ slot = NoServer
    /\ server = [s \in Server |-> [up |-> FALSE, killed |-> FALSE, active |-> FALSE,
                                   idle |-> FALSE, key |-> AnyKey]]
    /\ disabled = {}

\* gpu_gate: the permit is held from the gate to the end of run_model.
HoldsGate(j) == llm[j] \notin {"out", "gate"}
GateFree == \A j \in Job : ~HoldsGate(j)

\* hot_worker's lock is held across the waits of ensure_worker.
SlotLocked == \E j \in Job : llm[j] \in {"evict", "start"}

Leave(j) == /\ llm' = [llm EXCEPT ![j] = "out"]
            /\ uses' = [uses EXCEPT ![j] = NoServer]

\* terminate: the kill is requested, the process ends later.
Terminate(s) == server' = [server EXCEPT ![s].killed = TRUE]

\* ActiveRequest::drop: a request that did not finish takes its worker with it.
AbandonWorker(s) ==
    server' = [server EXCEPT ![s].killed = TRUE, ![s].active = FALSE]

\* disable_after_oom on the logs of the worker of model m.
MayDisable(m) == disabled' \in {disabled, disabled \cup {m}}

----------------------------------------------------------------------------
\* A job enters run_model.
LlamaRequest(j, k) ==
    /\ llm[j] = "out"
    /\ llm' = [llm EXCEPT ![j] = "gate"]
    /\ want' = [want EXCEPT ![j] = k]
    /\ UNCHANGED <<uses, metadata, slot, server, disabled>>

\* The permit is there: a disabled model or a busy file reader end the request.
EnterGate(j) ==
    /\ llm[j] = "gate"
    /\ GateFree
    /\ IF want[j].model \in disabled \/ metadata = "busy"
       THEN Leave(j) /\ UNCHANGED metadata
       ELSE /\ metadata' = "busy"
            /\ llm' = [llm EXCEPT ![j] = "metadata"]
            /\ UNCHANGED uses
    /\ UNCHANGED <<want, slot, server, disabled>>

\* The blocking task ends.  Its request may have been dropped meanwhile.
MetadataRead ==
    /\ metadata = "busy"
    /\ metadata' = "free"
    /\ \E accepted \in BOOLEAN :
          llm' = [j \in Job |-> IF llm[j] # "metadata" THEN llm[j]
                                ELSE IF accepted THEN "ensure" ELSE "out"]
    /\ UNCHANGED <<want, uses, slot, server, disabled>>

\* Variant: whatever runs is used.
CanReuseRunning(s, k) == server[s].up /\ ~server[s].killed

CanReuse(s, k) == server[s].up /\ ~server[s].killed /\ server[s].key = k

\* start_worker up to its first await: the process is registered at once, or
\* could not be started at all.
Spawn(j, servers) ==
    \/ /\ Leave(j)
       /\ slot' = NoServer
       /\ server' = servers
       /\ MayDisable(want[j].model)
    \/ \E s \in {t \in Server : ~servers[t].up} :
          /\ server' = [servers EXCEPT ![s] = [up |-> TRUE, killed |-> FALSE,
                           active |-> TRUE, idle |-> FALSE, key |-> want[j]]]
          /\ slot' = s
          /\ llm' = [llm EXCEPT ![j] = "start"]
          /\ uses' = [uses EXCEPT ![j] = s]
          /\ UNCHANGED disabled

ReuseWorker(j) ==
    /\ llm[j] = "ensure"
    /\ ~SlotLocked
    /\ slot # NoServer /\ CanReuse(slot, want[j])
    /\ llm' = [llm EXCEPT ![j] = "ask"]
    /\ uses' = [uses EXCEPT ![j] = slot]
    /\ server' = [server EXCEPT ![slot].active = TRUE]
    /\ UNCHANGED <<want, metadata, slot, disabled>>

EvictWorker(j) ==
    /\ llm[j] = "ensure"
    /\ ~SlotLocked
    /\ slot # NoServer /\ ~CanReuse(slot, want[j])
    /\ Terminate(slot)
    /\ llm' = [llm EXCEPT ![j] = "evict"]
    /\ UNCHANGED <<want, uses, metadata, slot, disabled>>

StartFirstWorker(j) ==
    /\ llm[j] = "ensure"
    /\ ~SlotLocked
    /\ slot = NoServer
    /\ Spawn(j, server)
    /\ UNCHANGED <<want, metadata>>

\* wait_for_exit saw the old worker's exit.
Evicted(j) ==
    /\ llm[j] = "evict"
    /\ ~server[slot].up
    /\ Spawn(j, server)
    /\ UNCHANGED <<want, metadata>>

\* WORKER_STOP_TIMEOUT: the old worker stays in the slot and the request fails.
EvictionTimesOut(j) ==
    /\ llm[j] = "evict"
    /\ server[slot].up
    /\ Leave(j)
    /\ UNCHANGED <<want, metadata, slot, server, disabled>>

\* wait_until_ready: startup finishes, and the request begins in the same step.
WorkerReady(j) ==
    /\ llm[j] = "start"
    /\ server[uses[j]].up /\ ~server[uses[j]].killed
    /\ llm' = [llm EXCEPT ![j] = "ask"]
    /\ server' = [server EXCEPT ![uses[j]].idle = FALSE]
    /\ UNCHANGED <<want, uses, metadata, slot, disabled>>

\* The process exited, is out of memory, or MODEL_START_TIMEOUT passed.
StartFails(j) ==
    /\ llm[j] = "start"
    /\ AbandonWorker(uses[j])
    /\ MayDisable(want[j].model)
    /\ Leave(j)
    /\ UNCHANGED <<want, metadata, slot>>

\* A complete answer: ActiveRequest::finish.
LlamaAnswers(j) ==
    /\ llm[j] = "ask"
    /\ server[uses[j]].up /\ ~server[uses[j]].killed
    /\ server' = [server EXCEPT ![uses[j]].active = FALSE, ![uses[j]].idle = FALSE]
    /\ Leave(j)
    /\ UNCHANGED <<want, metadata, slot, disabled>>

\* No response, an HTTP error or a useless answer: ActiveRequest::drop kills.
LlamaFails(j) ==
    /\ llm[j] = "ask"
    /\ AbandonWorker(uses[j])
    /\ MayDisable(want[j].model)
    /\ Leave(j)
    /\ UNCHANGED <<want, metadata, slot>>

\* The future is dropped: cancellation, deadline, end of the connection.
LlamaDrop(j) ==
    /\ llm[j] # "out"
    /\ IF llm[j] \in {"start", "ask"} THEN AbandonWorker(uses[j]) ELSE UNCHANGED server
    /\ Leave(j)
    /\ UNCHANGED <<want, metadata, slot, disabled>>

----------------------------------------------------------------------------
\* A process ends: killed, or by itself.
ServerExits(s) ==
    /\ server[s].up
    /\ server' = [server EXCEPT ![s].up = FALSE]
    /\ UNCHANGED <<llm, want, uses, metadata, slot, disabled>>

\* MODEL_IDLE_TTL passes since last_used.
ServerIdles(s) ==
    /\ server[s].up /\ ~server[s].idle
    /\ server' = [server EXCEPT ![s].idle = TRUE]
    /\ UNCHANGED <<llm, want, uses, metadata, slot, disabled>>

\* maintenance: it never waits for the lock.
LlamaMaintenance ==
    /\ ~SlotLocked
    /\ slot # NoServer
    /\ server[slot].idle /\ ~server[slot].active /\ ~server[slot].killed
    /\ Terminate(slot)
    /\ UNCHANGED <<llm, want, uses, metadata, slot, disabled>>

\* reconfigure.
LlamaReconfigure ==
    /\ disabled' = {}
    /\ UNCHANGED <<llm, want, uses, metadata, slot, server>>

\* shutdown, after every job has been dropped: the slot is given up only when
\* the exit of its worker was seen.
LlamaShutdown ==
    /\ \A j \in Job : llm[j] = "out"
    /\ slot # NoServer
    /\ \/ ~server[slot].killed /\ Terminate(slot) /\ UNCHANGED slot
       \/ server[slot].killed /\ ~server[slot].up /\ slot' = NoServer /\ UNCHANGED server
    /\ UNCHANGED <<llm, want, uses, metadata, disabled>>

LlamaStep(j) ==
    \/ EnterGate(j) \/ ReuseWorker(j) \/ EvictWorker(j) \/ StartFirstWorker(j)
    \/ Evicted(j) \/ EvictionTimesOut(j) \/ WorkerReady(j) \/ StartFails(j)
    \/ LlamaAnswers(j) \/ LlamaFails(j)

LlamaEnvironment ==
    \/ MetadataRead
    \/ \E s \in Server : ServerExits(s) \/ ServerIdles(s)

LlamaNext ==
    \/ \E j \in Job : LlamaStep(j) \/ LlamaDrop(j) \/ \E k \in WorkerKey : LlamaRequest(j, k)
    \/ LlamaEnvironment
    \/ LlamaMaintenance \/ LlamaReconfigure \/ LlamaShutdown

LlamaSpec == LlamaInit /\ [][LlamaNext]_llamaVars

----------------------------------------------------------------------------
(* What makes the adapter correct. *)

\* The server processes that still run, killed or not, are the one in the slot:
\* whatever start, eviction or request is dropped or fails, a process is never
\* forgotten and a second one never loads a model beside it.
OneServerRuns == \A s \in Server : server[s].up => s = slot

\* A request is on a server of its own configuration and model, the one in the
\* slot, marked active, so that neither the idle timer nor a switch of models
\* takes it away: the kill of a server that a request uses would be one that
\* its own request asked for.
ServedByItsOwn ==
    \A j \in Job : llm[j] \in {"start", "ask"} =>
        /\ uses[j] = slot
        /\ server[slot].key = want[j]
        /\ server[slot].active /\ ~server[slot].killed

\* A server that no request uses is not marked active: nothing would ever unload it.
ActiveMeansUsed ==
    \A s \in Server : server[s].active => \E j \in Job : uses[j] = s
=============================================================================
