----------------------------- MODULE Supervisor -----------------------------
(***************************************************************************)
(* The supervisor of the model daemon, SupervisedModeldClient in           *)
(* ale-gui/src/modeld.rs: the tasks that share its mutex (requests, the    *)
(* health timer, the saver of settings, a user who allows a retry) and the *)
(* daemon processes it starts, kills and waits for.                        *)
(*                                                                         *)
(* A daemon stands for one ModeldClient with its process; its name is free *)
(* again when the process has exited and nobody refers to it.  The mutex   *)
(* is held across every await of connection() and of update_config(), so   *)
(* each of these is several steps here, and a request may be cancelled     *)
(* between any two of them.                                                *)
(***************************************************************************)
EXTENDS Integers, FiniteSets

CONSTANTS
    Daemon,       \* names of daemon instances
    Request,      \* the request tasks
    Timer,        \* the health timer (health_gate lets one check run at a time)
    Saver,        \* the settings service, which applies one update at a time
    Nobody,       \* no daemon, no task
    MaxFailures,  \* MAX_CONSECUTIVE_PROCESS_FAILURES
    HealthLimit,  \* failed health checks that retire a daemon
    MaxUpdates    \* bound: configuration updates in one behaviour

ASSUME SupervisorAssumption ==
    /\ Timer # Saver /\ Timer \notin Request /\ Saver \notin Request
    /\ Nobody \notin Daemon \cup Request \cup {Timer, Saver}
    /\ MaxFailures \in Nat /\ MaxFailures >= 2
    /\ HealthLimit \in Nat \ {0}
    /\ MaxUpdates \in Nat

Task == Request \cup {Timer, Saver}
DaemonOrNone == Daemon \cup {Nobody}

VARIABLES
    client,     \* SupervisorState.client
    retired,    \* SupervisorState.retired: its exit is not confirmed yet
    failures,   \* consecutive_failures
    blocked,    \* restart_blocked
    unhealthy,  \* health_failures
    steady,     \* healthy_since is set
    revision,   \* SupervisorState.revision
    config,     \* SupervisorState.config: the number of the update it came with
    updates,    \* updates tried so far
    lock,       \* the task that holds the mutex of the state
    pc,         \* where a task is
    got,        \* the daemon a task works with
    running,    \* daemons whose process runs
    told,       \* daemons that were killed (the signal is sent)
    alive,      \* ModeldClient.alive
    applied     \* the configuration a daemon works with

\* History, read by properties only.
VARIABLES
    served,     \* daemons that were installed as client
    charges     \* failures recorded for a daemon

state == <<client, retired, failures, blocked, unhealthy, steady>>
settings == <<revision, config, updates>>
tasks == <<lock, pc, got>>
processes == <<running, told, alive, applied>>
history == <<served, charges>>
vars == <<state, settings, tasks, processes, history>>

Configuration == [revision: Nat, config: 0..MaxUpdates]

\* The type invariant.  Two of its bounds take the whole protocol: no failure is
\* recorded once restarts are blocked, and no health check is counted against a
\* daemon that was retired.
TypeOK ==
    /\ client \in DaemonOrNone /\ retired \in DaemonOrNone
    /\ failures \in 0..MaxFailures /\ blocked \in BOOLEAN
    /\ unhealthy \in 0..HealthLimit /\ steady \in BOOLEAN
    /\ revision \in Nat /\ config \in 0..MaxUpdates /\ updates \in 0..MaxUpdates
    /\ lock \in Task \cup {Nobody}
    /\ pc \in [Task -> {"idle", "reap", "start", "handshake", "call", "failed",
                        "healthy", "unhealthy", "kill", "configure", "discard"}]
    /\ got \in [Task -> DaemonOrNone]
    /\ running \in SUBSET Daemon /\ told \in SUBSET Daemon /\ alive \in SUBSET Daemon
    /\ applied \in [Daemon -> Configuration]
    /\ served \in SUBSET Daemon
    /\ charges \in [Daemon -> Nat]

\* SupervisedModeldClient::start: the first daemon is up, or it failed, was
\* killed and may not have exited yet.
Init ==
    /\ \E d \in Daemon :
          \/ /\ client = d /\ alive = {d} /\ served = {d}
             /\ running = {d} /\ told = {} /\ failures = 0
             /\ charges = [e \in Daemon |-> 0]
          \/ /\ client = Nobody /\ alive = {} /\ served = {}
             /\ running = {d} /\ told = {d} /\ failures = 1
             /\ charges = [e \in Daemon |-> IF e = d THEN 1 ELSE 0]
    /\ retired = Nobody
    /\ blocked = FALSE
    /\ unhealthy = 0 /\ steady = FALSE
    /\ revision = 0 /\ config = 0 /\ updates = 0
    /\ lock = Nobody
    /\ pc = [t \in Task |-> "idle"]
    /\ got = [t \in Task |-> Nobody]
    /\ applied = [d \in Daemon |-> [revision |-> 0, config |-> 0]]

-----------------------------------------------------------------------------
(***************************************************************************)
(* Helpers.                                                                *)
(***************************************************************************)

Some(d) == {d} \ {Nobody}

At(t, place) == pc[t] = place

Exhausted(count) == count >= MaxFailures

\* record_process_failure, charged to the daemons in S (one, or none when the
\* process could not even be spawned).
RecordProcessFailure(S) ==
    /\ failures' = failures + 1
    /\ blocked' = (blocked \/ Exhausted(failures + 1))
    /\ charges' = [d \in Daemon |-> IF d \in S THEN charges[d] + 1 ELSE charges[d]]

\* The client becomes the retired one, and its end counts as a failure.
RetireClient ==
    /\ retired' = client
    /\ client' = Nobody
    /\ RecordProcessFailure({client})

\* Variant: the connection is closed, the process is left to itself.
CloseOnly(S) == alive' = alive \ S /\ UNCHANGED told

\* ModeldClient::terminate and the Drop of its process send the signal.
Kill(S) == told' = told \cup S /\ alive' = alive \ S

MoveTo(t, place, d) ==
    /\ pc' = [pc EXCEPT ![t] = place]
    /\ got' = [got EXCEPT ![t] = d]

Done(t) == MoveTo(t, "idle", Nobody)

\* A name no process, no slot and no task uses.
Fresh(d) ==
    /\ d \notin running
    /\ d \notin {client, retired}
    /\ \A t \in Task : got[t] # d

\* A new process: nothing is known of it, and it has no configuration.
Spawned(d) ==
    /\ running' = running \cup {d}
    /\ alive' = alive \ {d}
    /\ served' = served \ {d}
    /\ applied' = [applied EXCEPT ![d] = [revision |-> 0, config |-> 0]]

\* Variant: the first failure blocks restarts without telling anybody.
RestartUnharmed == ~blocked /\ failures = 0

MayStart == ~blocked

-----------------------------------------------------------------------------
(***************************************************************************)
(* connection(), for a request or for the health timer.                    *)
(***************************************************************************)

\* The client is alive: the task gets it and gives the mutex back.
ConnectAlive(t) ==
    /\ At(t, "idle") /\ lock = Nobody
    /\ client \in alive
    /\ MoveTo(t, "call", client)
    /\ UNCHANGED <<state, settings, lock, processes, history>>

\* The client is dead: it is retired, killed and waited for.
ConnectDead(t) ==
    /\ At(t, "idle") /\ lock = Nobody
    /\ client # Nobody /\ client \notin alive
    /\ RetireClient
    /\ Kill({client})
    /\ lock' = t
    /\ MoveTo(t, "reap", Nobody)
    /\ UNCHANGED <<unhealthy, steady, settings, running, applied, served>>

\* An earlier daemon is retired already: it is killed again and waited for.
ConnectRetired(t) ==
    /\ At(t, "idle") /\ lock = Nobody
    /\ client = Nobody /\ retired # Nobody
    /\ Kill({retired})
    /\ lock' = t
    /\ MoveTo(t, "reap", Nobody)
    /\ UNCHANGED <<state, settings, running, applied, history>>

ConnectNone(t) ==
    /\ At(t, "idle") /\ lock = Nobody
    /\ client = Nobody /\ retired = Nobody
    /\ MayStart
    /\ lock' = t
    /\ MoveTo(t, "start", Nobody)
    /\ UNCHANGED <<state, settings, processes, history>>

\* terminate() saw the process exit.
Exited(d) == d \notin running

\* The exit is confirmed: go on to a new start, if restarts are not blocked.
ReapConfirmed(t) ==
    /\ At(t, "reap")
    /\ Exited(retired)
    /\ retired' = Nobody
    /\ \/ MayStart /\ MoveTo(t, "start", Nobody) /\ UNCHANGED lock
       \/ ~MayStart /\ Done(t) /\ lock' = Nobody
    /\ UNCHANGED <<client, failures, blocked, unhealthy, steady, settings, processes, history>>

\* MODELD_PREVIOUS_EXIT_UNCONFIRMED: two seconds passed.
ReapGivesUp(t) ==
    /\ At(t, "reap")
    /\ retired \in running
    /\ Done(t)
    /\ lock' = Nobody
    /\ UNCHANGED <<state, settings, processes, history>>

\* next_start has come: ModeldClient::start spawns the process.
StartSpawns(t) ==
    /\ At(t, "start")
    /\ \E d \in Daemon :
          /\ Fresh(d)
          /\ Spawned(d)
          /\ told' = told \ {d}
          /\ charges' = [charges EXCEPT ![d] = 0]
          /\ MoveTo(t, "handshake", d)
    /\ UNCHANGED <<state, settings, lock>>

\* It authenticated and took the committed configuration: it is the client.
StartSucceeds(t) ==
    LET d == got[t] IN
    /\ At(t, "handshake")
    /\ d \in running
    /\ applied' = [applied EXCEPT ![d] = [revision |-> revision, config |-> config]]
    /\ alive' = alive \cup {d}
    /\ served' = served \cup {d}
    /\ client' = d
    /\ unhealthy' = 0 /\ steady' = FALSE
    /\ lock' = Nobody
    /\ MoveTo(t, "call", d)
    /\ UNCHANGED <<retired, failures, blocked, settings, running, told, charges>>

\* No process, no connection, no acknowledgement or MODELD_START_TIMEOUT: the
\* process is dropped, hence killed, but not waited for.
StartFails(t) ==
    /\ At(t, "start") \/ At(t, "handshake")
    /\ RecordProcessFailure(Some(got[t]))
    /\ Kill(Some(got[t]))
    /\ lock' = Nobody
    /\ Done(t)
    /\ UNCHANGED <<client, retired, unhealthy, steady, settings, running, applied, served>>

-----------------------------------------------------------------------------
(***************************************************************************)
(* A request: connection(), its calls, record_result().                    *)
(***************************************************************************)

CallSucceeds(t) ==
    /\ At(t, "call")
    /\ Done(t)
    /\ UNCHANGED <<state, settings, lock, processes, history>>

CallFails(t) ==
    /\ At(t, "call")
    /\ MoveTo(t, "failed", got[t])
    /\ UNCHANGED <<state, settings, lock, processes, history>>

\* Variant: the result of any daemon is taken for that of the client.
AnyCurrent(d) == TRUE

\* The daemon a result comes from still is the client (instance_id).
IsCurrent(d) == d = client

\* record_result: a failed call of the current client, whose connection is
\* closed, retires it.  Nobody kills it before the next connection().
\* A request keeps its daemon (REQUEST_CONTEXT) and may go on to another call.
RecordResult(t) ==
    /\ At(t, "failed") /\ lock = Nobody
    /\ \/ /\ IsCurrent(got[t]) /\ got[t] \notin alive
          /\ retired' = got[t]
          /\ client' = Nobody
          /\ RecordProcessFailure({got[t]})
       \/ /\ ~IsCurrent(got[t]) \/ got[t] \in alive
          /\ UNCHANGED <<retired, client, failures, blocked, charges>>
    /\ Done(t) \/ MoveTo(t, "call", got[t])
    /\ UNCHANGED <<unhealthy, steady, settings, lock, processes, served>>

\* The task of the request is aborted at whatever await it is: a mutex it holds
\* is released; a process it was starting is dropped, hence killed, even when
\* the blocking thread spawns it only afterwards.
Cancel(t) ==
    /\ ~At(t, "idle")
    /\ lock' = IF lock = t THEN Nobody ELSE lock
    /\ Done(t)
    /\ \/ /\ At(t, "handshake")
          /\ Kill({got[t]})
          /\ UNCHANGED <<running, applied, history>>
       \/ /\ At(t, "start")
          /\ \E d \in Daemon :
                /\ Fresh(d)
                /\ Spawned(d)
                /\ told' = told \cup {d}
                /\ charges' = [charges EXCEPT ![d] = 0]
       \/ /\ ~At(t, "handshake")
          /\ UNCHANGED <<processes, history>>
    /\ UNCHANGED <<state, settings>>

-----------------------------------------------------------------------------
(***************************************************************************)
(* The health timer.                                                       *)
(***************************************************************************)

HealthAnswers ==
    /\ At(Timer, "call") /\ got[Timer] \in alive
    /\ MoveTo(Timer, "healthy", got[Timer])
    /\ UNCHANGED <<state, settings, lock, processes, history>>

\* An error, a closed connection, or MODELD_HEALTH_TIMEOUT.
HealthTimesOut ==
    /\ At(Timer, "call")
    /\ MoveTo(Timer, "unhealthy", got[Timer])
    /\ UNCHANGED <<state, settings, lock, processes, history>>

\* The daemon was replaced meanwhile: its health says nothing of the client.
HealthOfAnother ==
    /\ At(Timer, "healthy") \/ At(Timer, "unhealthy")
    /\ lock = Nobody
    /\ ~IsCurrent(got[Timer])
    /\ Done(Timer)
    /\ UNCHANGED <<state, settings, lock, processes, history>>

\* After 60 seconds of health the failures of the past are forgotten.
HealthGood ==
    /\ At(Timer, "healthy") /\ lock = Nobody
    /\ IsCurrent(got[Timer])
    /\ unhealthy' = 0 /\ steady' = TRUE
    /\ failures' \in IF steady THEN {0, failures} ELSE {failures}
    /\ Done(Timer)
    /\ UNCHANGED <<client, retired, blocked, settings, lock, processes, history>>

HealthBad ==
    /\ At(Timer, "unhealthy") /\ lock = Nobody
    /\ IsCurrent(got[Timer])
    /\ steady' = FALSE
    /\ unhealthy' = unhealthy + 1
    /\ \/ /\ unhealthy + 1 >= HealthLimit \/ got[Timer] \notin alive
          /\ RetireClient
          /\ MoveTo(Timer, "kill", got[Timer])
       \/ /\ unhealthy + 1 < HealthLimit /\ got[Timer] \in alive
          /\ UNCHANGED <<client, retired, failures, blocked, charges>>
          /\ Done(Timer)
    /\ UNCHANGED <<settings, lock, processes, served>>

\* terminate() without the mutex; another task may be terminating it as well.
HealthKills ==
    /\ At(Timer, "kill")
    /\ Kill({got[Timer]})
    /\ Done(Timer)
    /\ UNCHANGED <<state, settings, lock, running, applied, history>>

-----------------------------------------------------------------------------
(***************************************************************************)
(* update_config().  Its caller is the settings service, whose transaction *)
(* is never abandoned.                                                     *)
(***************************************************************************)

NextRevision == revision + 1

Commit(number) ==
    /\ revision' = NextRevision
    /\ config' = number
    /\ blocked' = FALSE /\ failures' = 0
    /\ unhealthy' = 0 /\ steady' = FALSE

UpdateWithoutDaemon ==
    /\ At(Saver, "idle") /\ lock = Nobody
    /\ updates < MaxUpdates
    /\ client = Nobody
    /\ updates' = updates + 1
    /\ Commit(updates + 1)
    /\ UNCHANGED <<client, retired, tasks, processes, history>>

UpdateStarts ==
    /\ At(Saver, "idle") /\ lock = Nobody
    /\ updates < MaxUpdates
    /\ client # Nobody
    /\ updates' = updates + 1
    /\ lock' = Saver
    /\ MoveTo(Saver, "configure", client)
    /\ UNCHANGED <<state, revision, config, processes, history>>

\* configure_scheduler, in the daemon; the acknowledgement may be lost.
DaemonConfigured ==
    LET d == got[Saver] IN
    /\ At(Saver, "configure") \/ At(Saver, "discard")
    /\ d \in running
    /\ applied[d].config # updates
    /\ applied' = [applied EXCEPT ![d] = [revision |-> NextRevision, config |-> updates]]
    /\ UNCHANGED <<state, settings, tasks, running, told, alive, history>>

UpdateAcknowledged ==
    /\ At(Saver, "configure")
    /\ applied[got[Saver]].config = updates
    /\ Commit(updates)
    /\ lock' = Nobody
    /\ Done(Saver)
    /\ UNCHANGED <<client, retired, updates, processes, history>>

\* Variant: after a failed update the client is kept.
KeptClient == client

\* A missing acknowledgement leaves the daemon's configuration uncertain.
ClientAfterFailure == Nobody

UpdateFails ==
    /\ At(Saver, "configure")
    /\ client' = ClientAfterFailure
    /\ Kill({got[Saver]})
    /\ MoveTo(Saver, "discard", got[Saver])
    /\ UNCHANGED <<retired, failures, blocked, unhealthy, steady>>
    /\ UNCHANGED <<settings, lock, running, applied, history>>

DiscardConfirmed ==
    /\ At(Saver, "discard")
    /\ Exited(got[Saver])
    /\ lock' = Nobody
    /\ Done(Saver)
    /\ UNCHANGED <<state, settings, processes, history>>

DiscardGivesUp ==
    /\ At(Saver, "discard")
    /\ got[Saver] \in running
    /\ retired' = got[Saver]
    /\ lock' = Nobody
    /\ Done(Saver)
    /\ UNCHANGED <<client, failures, blocked, unhealthy, steady>>
    /\ UNCHANGED <<settings, processes, history>>

\* The user allows the remote model for a request: blocked restarts are allowed
\* again.
RetryAfterUserRequest ==
    /\ lock = Nobody
    /\ blocked
    /\ client' = Nobody
    /\ failures' = 0
    /\ blocked' = FALSE
    /\ UNCHANGED <<retired, unhealthy, steady, settings, tasks, processes, history>>

-----------------------------------------------------------------------------
(***************************************************************************)
(* The daemons.                                                            *)
(***************************************************************************)

\* A crash, or the effect of the signal.
ProcessExits(d) ==
    /\ d \in running
    /\ running' = running \ {d}
    /\ UNCHANGED <<state, settings, tasks, told, alive, applied, history>>

\* The reader finds the connection closed, or over its budget.
ReaderFails(d) ==
    /\ d \in alive
    /\ alive' = alive \ {d}
    /\ UNCHANGED <<state, settings, tasks, running, told, applied, history>>

\* A write fails or takes three seconds: the process is killed as well.
WriterFails(d) ==
    /\ d \in alive
    /\ Kill({d})
    /\ UNCHANGED <<state, settings, tasks, running, applied, history>>

-----------------------------------------------------------------------------

Connection(t) ==
    \/ ConnectAlive(t)
    \/ ConnectDead(t)
    \/ ConnectRetired(t)
    \/ ConnectNone(t)
    \/ ReapConfirmed(t)
    \/ ReapGivesUp(t)
    \/ StartSpawns(t)
    \/ StartSucceeds(t)
    \/ StartFails(t)

RequestStep(t) ==
    \/ Connection(t)
    \/ CallSucceeds(t)
    \/ CallFails(t)
    \/ RecordResult(t)

TimerStep ==
    \/ Connection(Timer)
    \/ HealthAnswers
    \/ HealthTimesOut
    \/ HealthOfAnother
    \/ HealthGood
    \/ HealthBad
    \/ HealthKills

UpdateStep ==
    \/ DaemonConfigured
    \/ UpdateAcknowledged
    \/ UpdateFails
    \/ DiscardConfirmed
    \/ DiscardGivesUp

DaemonStep(d) == ProcessExits(d) \/ ReaderFails(d) \/ WriterFails(d)

Next ==
    \/ \E t \in Request : RequestStep(t) \/ Cancel(t)
    \/ TimerStep
    \/ UpdateWithoutDaemon
    \/ UpdateStarts
    \/ UpdateStep
    \/ RetryAfterUserRequest
    \/ \E d \in Daemon : DaemonStep(d)

Spec == Init /\ [][Next]_vars

(***************************************************************************)
(* Fairness.  tokio's Mutex serves its waiters in order, so a task that    *)
(* waits for it gets it (SF for the timer); whoever holds it has a timeout *)
(* on every await (WF).  A killed process exits, and the reader of an      *)
(* exited process finds its connection closed.  Requests, their aborts,    *)
(* updates and the user owe nothing.                                       *)
(***************************************************************************)
Fairness ==
    /\ SF_vars(TimerStep)
    /\ \A t \in Request : WF_vars(RequestStep(t))
    /\ WF_vars(UpdateStep)
    /\ \A d \in Daemon :
          /\ WF_vars(d \in told /\ ProcessExits(d))
          /\ WF_vars(d \notin running /\ ReaderFails(d))

FairSpec == Spec /\ Fairness

-----------------------------------------------------------------------------
(***************************************************************************)
(* Properties.                                                             *)
(***************************************************************************)

\* At most one daemon process runs that nobody has told to stop, whatever
\* request is aborted in the middle of a start.
AtMostOneDaemon == \A d, e \in running \ told : d = e

\* No daemon is started beside one that was in service: its exit is confirmed
\* first (MODELD_PREVIOUS_EXIT_UNCONFIRMED), by whatever path it was given up.
NoOverlap == (\E t \in Task : At(t, "handshake")) => served \cap running = {}

\* The two together: the machine never carries a second daemon that anybody could
\* still use (MODELD_PREVIOUS_EXIT_UNCONFIRMED).
DaemonsAreSingle == AtMostOneDaemon /\ NoOverlap

\* Whenever no update is in progress, the daemon in service works with the
\* committed configuration: a daemon that may have taken an update whose
\* acknowledgement was lost is not kept.
ClientRunsCommittedConfig ==
    client # Nobody /\ lock # Saver => applied[client].config = config

\* A daemon never takes a second configuration under a revision it has seen: its
\* circuit breaker tells old failures from new ones by the revision alone
\* (MODEL-CALLING.md: old failures cannot change the new configuration's circuit).
RevisionsGrow ==
    [][\A d \in running \cap running' :
          applied'[d].config # applied[d].config /\ d \in served
             => applied'[d].revision > applied[d].revision]_vars

\* The end of a daemon is noticed by its requests, by the timer and by the next
\* connection, but it counts once against the restart budget.
FailureChargedOnce == \A d \in Daemon : charges[d] <= 1

\* Restarts are blocked exactly when the budget is exhausted, and then no daemon
\* is in service.
BlockedWhenExhausted ==
    /\ blocked <=> failures >= MaxFailures
    /\ blocked => client = Nobody

\* While restarts are blocked, no process is started.
NoStartWhileBlocked == [][blocked /\ blocked' => running' \subseteq running]_vars

Serving == client \in alive \cap running

\* A daemon that is gone is replaced in the end, unless restarts are blocked.
ServiceReturns == ~Serving ~> (Serving \/ blocked)

=============================================================================
