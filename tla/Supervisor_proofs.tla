-------------------------- MODULE Supervisor_proofs -------------------------
(***************************************************************************)
(* The supervisor, for any number of requests, daemons and updates: its    *)
(* types and budget, and that daemons neither overlap nor keep a           *)
(* configuration nobody committed.                                         *)
(***************************************************************************)
EXTENDS Supervisor, TLAPS

-----------------------------------------------------------------------------
(***************************************************************************)
(* The inductive invariant.                                                *)
(***************************************************************************)

Holding == {"reap", "start", "handshake", "configure", "discard"}
WithDaemon == {"handshake", "call", "failed", "healthy", "unhealthy", "kill", "configure", "discard"}

\* A task inside connection() or update_config() holds the mutex.
Mutex ==
    /\ \A t \in Task : pc[t] \in Holding => lock = t
    /\ \A t \in Task : pc[t] \in WithDaemon => got[t] \in Daemon
    /\ \A t \in Task : pc[t] \in {"configure", "discard"} => t = Saver
    /\ pc[Saver] \in {"idle", "configure", "discard"}

\* What the holder of the mutex knows about the slots of the state.
Slots ==
    /\ client = Nobody \/ retired = Nobody
    /\ \A t \in Task : At(t, "start") \/ At(t, "handshake") =>
          client = Nobody /\ retired = Nobody /\ ~blocked
    /\ \A t \in Task : At(t, "reap") => client = Nobody /\ retired \in told
    /\ At(Saver, "configure") => client = got[Saver] /\ retired = Nobody
    /\ At(Saver, "discard") => client = Nobody /\ retired = Nobody /\ got[Saver] \in told

Budget ==
    /\ BlockedWhenExhausted
    /\ failures <= MaxFailures
    /\ unhealthy <= HealthLimit
    /\ client # Nobody => unhealthy < HealthLimit

Types ==
    /\ client \in DaemonOrNone /\ retired \in DaemonOrNone
    /\ failures \in Nat /\ blocked \in BOOLEAN
    /\ unhealthy \in Nat /\ steady \in BOOLEAN
    /\ revision \in Nat /\ config \in 0..MaxUpdates /\ updates \in 0..MaxUpdates
    /\ lock \in Task \cup {Nobody}
    /\ pc \in [Task -> {"idle", "reap", "start", "handshake", "call", "failed",
                        "healthy", "unhealthy", "kill", "configure", "discard"}]
    /\ got \in [Task -> DaemonOrNone]
    /\ running \in SUBSET Daemon /\ told \in SUBSET Daemon /\ alive \in SUBSET Daemon
    /\ applied \in [Daemon -> Configuration]
    /\ served \in SUBSET Daemon
    /\ charges \in [Daemon -> Nat]

Control == Types /\ Mutex /\ Slots /\ Budget

USE SupervisorAssumption DEF Task, DaemonOrNone

-----------------------------------------------------------------------------
(***************************************************************************)
(* Types and the mutex.                                                    *)
(***************************************************************************)

LEMMA InitControl == Init => Control
<1> SUFFICES ASSUME Init PROVE Control
  OBVIOUS
<1>1. Types
  <2>1. /\ client \in DaemonOrNone /\ running \in SUBSET Daemon /\ told \in SUBSET Daemon
        /\ alive \in SUBSET Daemon /\ served \in SUBSET Daemon /\ failures \in Nat
    BY DEF Init
  <2>2. charges \in [Daemon -> Nat]
    BY DEF Init
  <2>3. applied \in [Daemon -> Configuration]
    BY DEF Init, Configuration
  <2>4. blocked \in BOOLEAN /\ steady \in BOOLEAN
    BY Zenon DEF Init
  <2>5. /\ retired \in DaemonOrNone /\ unhealthy \in Nat /\ revision \in Nat
        /\ config \in 0..MaxUpdates /\ updates \in 0..MaxUpdates
        /\ lock \in Task \cup {Nobody} /\ got \in [Task -> DaemonOrNone]
    BY DEF Init
  <2>6. pc \in [Task -> {"idle", "reap", "start", "handshake", "call", "failed",
                         "healthy", "unhealthy", "kill", "configure", "discard"}]
    BY DEF Init
  <2> QED
    BY <2>1, <2>2, <2>3, <2>4, <2>5, <2>6, Zenon DEF Types
<1>2. Mutex /\ Slots
  BY DEF Init, Mutex, Slots, At, Holding, WithDaemon
<1>3. Budget
  BY DEF Init, Budget, BlockedWhenExhausted
<1> QED
  BY <1>1, <1>2, <1>3 DEF Control

\* The steps of connection(), taken apart once for all the proofs below.
LEMMA ConnectionTypes ==
  ASSUME Types, Mutex, Slots, NEW t \in Task, Connection(t)
  PROVE  Types'
<1>1. CASE ConnectAlive(t) \/ ConnectNone(t) \/ ReapGivesUp(t)
  BY <1>1 DEF Types, ConnectAlive, ConnectNone, ReapGivesUp, MoveTo, Done,
      state, settings, processes, history
<1>2. CASE ConnectDead(t)
  BY <1>2 DEF Types, ConnectDead, RetireClient, RecordProcessFailure, Kill, MoveTo, settings
<1>3. CASE ConnectRetired(t)
  BY <1>3 DEF Types, ConnectRetired, Kill, MoveTo, state, settings, history
<1>4. CASE ReapConfirmed(t)
  BY <1>4 DEF Types, ReapConfirmed, MoveTo, Done, settings, processes, history
<1>5. CASE StartSpawns(t)
  BY <1>5 DEF Types, StartSpawns, Spawned, MoveTo, Configuration, state, settings
<1>6. CASE StartSucceeds(t)
  BY <1>6 DEF Types, Mutex, WithDaemon, StartSucceeds, At, MoveTo, Configuration, settings
<1>7. CASE StartFails(t)
  BY <1>7 DEF Types, StartFails, RecordProcessFailure, Kill, Some, MoveTo, Done, settings
<1> QED
  BY <1>1, <1>2, <1>3, <1>4, <1>5, <1>6, <1>7 DEF Connection

LEMMA CommitTypes ==
  ASSUME Types, NEW number \in 0..MaxUpdates, Commit(number)
  PROVE  /\ revision' \in Nat /\ config' \in 0..MaxUpdates /\ failures' \in Nat
         /\ blocked' \in BOOLEAN /\ unhealthy' \in Nat /\ steady' \in BOOLEAN
<1>1. revision' \in Nat
  BY DEF Types, Commit, NextRevision
<1>2. config' \in 0..MaxUpdates /\ failures' \in Nat /\ unhealthy' \in Nat
  BY DEF Commit
<1>3. blocked' \in BOOLEAN /\ steady' \in BOOLEAN
  BY Zenon DEF Commit
<1> QED
  BY <1>1, <1>2, <1>3

LEMMA TypesStep == Types /\ Mutex /\ Slots /\ [Next]_vars => Types'
<1> SUFFICES ASSUME Types, Mutex, Slots, [Next]_vars PROVE Types'
  OBVIOUS
<1>1. CASE \E t \in Request \cup {Timer} : Connection(t)
  BY <1>1, ConnectionTypes
<1>2. CASE \E t \in Request : CallSucceeds(t) \/ CallFails(t)
  BY <1>2 DEF Types, CallSucceeds, CallFails, MoveTo, Done, state, settings, processes, history
<1>3. ASSUME NEW t \in Request, RecordResult(t) PROVE Types'
  <2>1. got[t] \in Daemon
    BY <1>3 DEF RecordResult, Mutex, WithDaemon, At
  <2>2. CASE UNCHANGED <<retired, client, failures, blocked, charges>>
    BY <1>3, <2>2 DEF Types, RecordResult, MoveTo, Done, settings, processes
  <2>3. CASE retired' = got[t] /\ client' = Nobody /\ RecordProcessFailure({got[t]})
    <3>1. failures' \in Nat /\ blocked' \in BOOLEAN /\ charges' \in [Daemon -> Nat]
      BY <2>3 DEF Types, RecordProcessFailure
    <3> QED
      BY <1>3, <2>1, <2>3, <3>1 DEF Types, RecordResult, MoveTo, Done, settings, processes
  <2> QED
    BY <1>3, <2>2, <2>3 DEF RecordResult
<1>4. ASSUME NEW t \in Request, Cancel(t) PROVE Types'
  <2>1. lock' \in Task \cup {Nobody} /\ pc' \in [Task -> {"idle", "reap", "start", "handshake",
           "call", "failed", "healthy", "unhealthy", "kill", "configure", "discard"}]
        /\ got' \in [Task -> DaemonOrNone]
    BY <1>4 DEF Types, Cancel, MoveTo, Done
  <2>2. running' \in SUBSET Daemon /\ told' \in SUBSET Daemon /\ alive' \in SUBSET Daemon
        /\ applied' \in [Daemon -> Configuration] /\ served' \in SUBSET Daemon
        /\ charges' \in [Daemon -> Nat]
    <3>1. CASE At(t, "handshake") /\ Kill({got[t]}) /\ UNCHANGED <<running, applied, history>>
      BY <3>1 DEF Types, Mutex, WithDaemon, At, Kill, history
    <3>2. ASSUME NEW d \in Daemon, Spawned(d), told' = told \cup {d},
                 charges' = [charges EXCEPT ![d] = 0]
          PROVE  /\ running' \in SUBSET Daemon /\ told' \in SUBSET Daemon
                 /\ alive' \in SUBSET Daemon /\ applied' \in [Daemon -> Configuration]
                 /\ served' \in SUBSET Daemon /\ charges' \in [Daemon -> Nat]
      BY <3>2 DEF Types, Spawned, Configuration
    <3>3. CASE UNCHANGED <<processes, history>>
      BY <3>3 DEF Types, processes, history
    <3> QED
      BY <1>4, <3>1, <3>2, <3>3 DEF Cancel
  <2> QED
    BY <1>4, <2>1, <2>2 DEF Types, Cancel, state, settings
<1>5. CASE HealthAnswers \/ HealthTimesOut \/ HealthOfAnother \/ HealthKills
  <2>1. CASE HealthAnswers \/ HealthTimesOut
    BY <2>1 DEF Types, HealthAnswers, HealthTimesOut, MoveTo, state, settings, processes, history
  <2>2. CASE HealthOfAnother
    BY <2>2 DEF Types, HealthOfAnother, MoveTo, Done, state, settings, processes, history
  <2>3. CASE HealthKills
    BY <2>3 DEF Types, Mutex, WithDaemon, At, HealthKills, Kill, MoveTo, Done,
        state, settings, history
  <2> QED
    BY <1>5, <2>1, <2>2, <2>3
<1>6. CASE HealthGood
  BY <1>6 DEF Types, HealthGood, MoveTo, Done, settings, processes, history
<1>7. CASE HealthBad
  <2>1. got[Timer] \in DaemonOrNone /\ unhealthy' \in Nat
    BY <1>7 DEF Types, HealthBad
  <2>2. CASE RetireClient /\ MoveTo(Timer, "kill", got[Timer])
    <3>1. failures' \in Nat /\ blocked' \in BOOLEAN /\ charges' \in [Daemon -> Nat]
      BY <2>2 DEF Types, RetireClient, RecordProcessFailure
    <3> QED
      BY <1>7, <2>1, <2>2, <3>1 DEF Types, HealthBad, RetireClient, MoveTo, settings, processes
  <2>3. CASE UNCHANGED <<client, retired, failures, blocked, charges>> /\ Done(Timer)
    BY <1>7, <2>1, <2>3 DEF Types, HealthBad, MoveTo, Done, settings, processes
  <2> QED
    BY <1>7, <2>2, <2>3 DEF HealthBad
<1>8. CASE UpdateWithoutDaemon \/ UpdateStarts \/ UpdateAcknowledged
  <2>1. CASE UpdateWithoutDaemon
    <3>1. updates' \in 0..MaxUpdates /\ updates + 1 \in 0..MaxUpdates /\ Commit(updates + 1)
      BY <2>1 DEF Types, UpdateWithoutDaemon
    <3>2. /\ revision' \in Nat /\ config' \in 0..MaxUpdates /\ failures' \in Nat
          /\ blocked' \in BOOLEAN /\ unhealthy' \in Nat /\ steady' \in BOOLEAN
      BY <3>1, CommitTypes
    <3> QED
      BY <2>1, <3>1, <3>2 DEF Types, UpdateWithoutDaemon, tasks, processes, history
  <2>2. CASE UpdateStarts
    <3>1. updates' \in 0..MaxUpdates
      BY <2>2 DEF Types, UpdateStarts
    <3> QED
      BY <2>2, <3>1 DEF Types, UpdateStarts, MoveTo, state, processes, history
  <2>3. CASE UpdateAcknowledged
    <3>1. /\ revision' \in Nat /\ config' \in 0..MaxUpdates /\ failures' \in Nat
          /\ blocked' \in BOOLEAN /\ unhealthy' \in Nat /\ steady' \in BOOLEAN
      BY <2>3, CommitTypes DEF UpdateAcknowledged, Types
    <3> QED
      BY <2>3, <3>1 DEF Types, UpdateAcknowledged, MoveTo, Done, processes, history
  <2> QED
    BY <1>8, <2>1, <2>2, <2>3
<1>9. CASE DaemonConfigured
  BY <1>9 DEF Types, DaemonConfigured, NextRevision, Configuration, state, settings, tasks, history
<1>10. CASE UpdateFails \/ DiscardConfirmed \/ DiscardGivesUp
  <2>1. CASE UpdateFails
    BY <2>1 DEF Types, Mutex, WithDaemon, At, UpdateFails, ClientAfterFailure, Kill, MoveTo,
        settings, history
  <2>2. CASE DiscardConfirmed
    BY <2>2 DEF Types, DiscardConfirmed, MoveTo, Done, state, settings, processes, history
  <2>3. CASE DiscardGivesUp
    BY <2>3 DEF Types, DiscardGivesUp, MoveTo, Done, settings, processes, history
  <2> QED
    BY <1>10, <2>1, <2>2, <2>3
<1>11. CASE RetryAfterUserRequest
  BY <1>11 DEF Types, RetryAfterUserRequest, settings, tasks, processes, history
<1>12. CASE \E d \in Daemon : DaemonStep(d)
  BY <1>12 DEF Types, DaemonStep, ProcessExits, ReaderFails, WriterFails, Kill,
      state, settings, tasks, history
<1>13. CASE UNCHANGED vars
  BY <1>13 DEF Types, vars, state, settings, tasks, processes, history
<1> QED
  BY <1>1, <1>2, <1>3, <1>4, <1>5, <1>6, <1>7, <1>8, <1>9, <1>10, <1>11, <1>12, <1>13
  DEF Next, RequestStep, TimerStep, UpdateStep

LEMMA MutexStep == Types /\ Mutex /\ Slots /\ [Next]_vars => Mutex'
<1> SUFFICES ASSUME Types, Mutex, Slots, [Next]_vars PROVE Mutex'
  OBVIOUS
<1> USE DEF Types, Mutex, Holding, WithDaemon, At, MoveTo, Done
<1>1. ASSUME NEW t \in Request \cup {Timer}, Connection(t) PROVE Mutex'
  <2>1. CASE ConnectAlive(t) \/ ConnectNone(t) \/ ReapGivesUp(t)
    BY <2>1 DEF ConnectAlive, ConnectNone, ReapGivesUp
  <2>2. CASE ConnectDead(t) \/ ConnectRetired(t)
    BY <2>2 DEF ConnectDead, ConnectRetired
  <2>3. CASE ReapConfirmed(t)
    BY <2>3 DEF ReapConfirmed
  <2>4. CASE StartSpawns(t)
    BY <2>4 DEF StartSpawns
  <2>5. CASE StartSucceeds(t) \/ StartFails(t)
    BY <2>5 DEF StartSucceeds, StartFails
  <2> QED
    BY <1>1, <2>1, <2>2, <2>3, <2>4, <2>5 DEF Connection
<1>2. ASSUME NEW t \in Request, CallSucceeds(t) \/ CallFails(t) \/ RecordResult(t) \/ Cancel(t)
      PROVE  Mutex'
  BY <1>2 DEF CallSucceeds, CallFails, RecordResult, Cancel
<1>3. CASE HealthAnswers \/ HealthTimesOut \/ HealthOfAnother \/ HealthGood \/ HealthBad \/ HealthKills
  BY <1>3 DEF HealthAnswers, HealthTimesOut, HealthOfAnother, HealthGood, HealthBad, HealthKills
<1>4. CASE UpdateStarts \/ UpdateStep
  BY <1>4 DEF UpdateStarts, UpdateStep, DaemonConfigured, UpdateAcknowledged, UpdateFails,
      DiscardConfirmed, DiscardGivesUp, tasks
<1>5. ASSUME UpdateWithoutDaemon \/ RetryAfterUserRequest \/ (\E d \in Daemon : DaemonStep(d))
                \/ UNCHANGED vars
      PROVE  UNCHANGED tasks
  BY <1>5 DEF UpdateWithoutDaemon, RetryAfterUserRequest, DaemonStep, ProcessExits, ReaderFails,
      WriterFails, vars
<1>6. UNCHANGED tasks => Mutex'
  BY DEF tasks
<1> QED
  BY <1>1, <1>2, <1>3, <1>4, <1>5, <1>6 DEF Next, RequestStep, TimerStep

-----------------------------------------------------------------------------
(***************************************************************************)
(* The slots and the budget.                                               *)
(***************************************************************************)

LEMMA ConnectionSlots ==
  ASSUME Types, Mutex, Slots, Budget, NEW t \in Request \cup {Timer}, Connection(t)
  PROVE  Slots'
<1> USE DEF Types, Mutex, Slots, At, Holding, WithDaemon, MoveTo, Done
<1>1. CASE ConnectAlive(t) \/ ConnectNone(t) \/ ReapGivesUp(t)
  BY <1>1 DEF ConnectAlive, ConnectNone, MayStart, ReapGivesUp, state, processes
<1>2. CASE ConnectDead(t)
  BY <1>2 DEF ConnectDead, RetireClient, Kill
<1>3. CASE ConnectRetired(t)
  BY <1>3 DEF ConnectRetired, Kill, state
<1>4. CASE ReapConfirmed(t)
  BY <1>4 DEF ReapConfirmed, MayStart, processes
<1>5. CASE StartSpawns(t)
  BY <1>5 DEF StartSpawns, Spawned, state
<1>6. CASE StartSucceeds(t)
  BY <1>6 DEF StartSucceeds
<1>7. CASE StartFails(t)
  BY <1>7 DEF StartFails, RecordProcessFailure, Kill
<1> QED
  BY <1>1, <1>2, <1>3, <1>4, <1>5, <1>6, <1>7 DEF Connection

\* A failure recorded while restarts are allowed keeps the account right.
LEMMA FailureBudget ==
  ASSUME Types, Budget, ~blocked, NEW S, RecordProcessFailure(S)
  PROVE  /\ blocked' <=> failures' >= MaxFailures
         /\ failures' <= MaxFailures
<1>1. failures \in Nat /\ failures < MaxFailures /\ failures' = failures + 1
  BY DEF Types, Budget, BlockedWhenExhausted, RecordProcessFailure
<1>2. blocked' <=> failures + 1 >= MaxFailures
  BY DEF RecordProcessFailure, Exhausted
<1> QED
  BY <1>1, <1>2

LEMMA ConnectionBudget ==
  ASSUME Types, Mutex, Slots, Budget, NEW t \in Request \cup {Timer}, Connection(t)
  PROVE  Budget'
<1> USE DEF Budget, BlockedWhenExhausted
<1>1. CASE ConnectAlive(t) \/ ConnectNone(t) \/ ReapGivesUp(t) \/ ConnectRetired(t) \/ StartSpawns(t)
  BY <1>1 DEF ConnectAlive, ConnectNone, ReapGivesUp, ConnectRetired, StartSpawns, state
<1>2. CASE ConnectDead(t)
  <2>1. ~blocked /\ RecordProcessFailure({client}) /\ client' = Nobody /\ unhealthy' = unhealthy
    BY <1>2 DEF ConnectDead, RetireClient
  <2> QED
    BY <2>1, FailureBudget
<1>3. CASE ReapConfirmed(t)
  BY <1>3 DEF ReapConfirmed
<1>4. CASE StartSucceeds(t)
  BY <1>4 DEF StartSucceeds, Slots
<1>5. CASE StartFails(t)
  <2>1. /\ ~blocked /\ RecordProcessFailure(Some(got[t])) /\ client = Nobody
        /\ client' = client /\ unhealthy' = unhealthy
    BY <1>5 DEF StartFails, Slots
  <2> QED
    BY <2>1, FailureBudget
<1> QED
  BY <1>1, <1>2, <1>3, <1>4, <1>5 DEF Connection

LEMMA SlotsStep == Control /\ [Next]_vars => Slots'
<1> SUFFICES ASSUME Control, [Next]_vars PROVE Slots'
  OBVIOUS
<1> USE DEF Types, Mutex, Slots, At, Holding, WithDaemon, MoveTo, Done
<1>1. Types /\ Mutex /\ Slots /\ Budget
  BY DEF Control
<1>2. CASE \E t \in Request \cup {Timer} : Connection(t)
  BY <1>1, <1>2, ConnectionSlots
<1>3. ASSUME NEW t \in Request, CallSucceeds(t) \/ CallFails(t) \/ RecordResult(t) PROVE Slots'
  BY <1>1, <1>3 DEF CallSucceeds, CallFails, RecordResult, RecordProcessFailure, state, processes
<1>4. ASSUME NEW t \in Request, Cancel(t) PROVE Slots'
  BY <1>1, <1>4 DEF Cancel, Kill, state, processes
<1>5. CASE HealthAnswers \/ HealthTimesOut \/ HealthOfAnother \/ HealthGood \/ HealthKills
  BY <1>1, <1>5 DEF HealthAnswers, HealthTimesOut, HealthOfAnother, HealthGood, HealthKills, Kill,
      state, processes
<1>6. CASE HealthBad
  BY <1>1, <1>6 DEF HealthBad, RetireClient, RecordProcessFailure, processes
<1>7. CASE UpdateWithoutDaemon \/ UpdateStarts
  BY <1>1, <1>7 DEF UpdateWithoutDaemon, UpdateStarts, Commit, state, tasks, processes
<1>8. CASE DaemonConfigured \/ UpdateAcknowledged
  BY <1>1, <1>8 DEF DaemonConfigured, UpdateAcknowledged, Commit, state, tasks, processes
<1>9. CASE UpdateFails \/ DiscardConfirmed \/ DiscardGivesUp
  BY <1>1, <1>9 DEF UpdateFails, ClientAfterFailure, DiscardConfirmed, DiscardGivesUp, Kill,
      state, processes
<1>10. CASE RetryAfterUserRequest
  BY <1>1, <1>10 DEF RetryAfterUserRequest, tasks, processes
<1>11. CASE \E d \in Daemon : DaemonStep(d)
  BY <1>1, <1>11 DEF DaemonStep, ProcessExits, ReaderFails, WriterFails, Kill, state, tasks
<1>12. CASE UNCHANGED vars
  BY <1>1, <1>12 DEF vars, state, tasks, processes
<1> QED
  BY <1>2, <1>3, <1>4, <1>5, <1>6, <1>7, <1>8, <1>9, <1>10, <1>11, <1>12
  DEF Next, RequestStep, TimerStep, UpdateStep

LEMMA BudgetStep == Control /\ [Next]_vars => Budget'
<1> SUFFICES ASSUME Control, [Next]_vars PROVE Budget'
  OBVIOUS
<1> USE DEF Budget, BlockedWhenExhausted
<1>1. Types /\ Mutex /\ Slots /\ Budget
  BY DEF Control
<1>2. CASE \E t \in Request \cup {Timer} : Connection(t)
  BY <1>1, <1>2, ConnectionBudget
<1>3. ASSUME NEW t \in Request, RecordResult(t) PROVE Budget'
  <2>1. CASE UNCHANGED <<client, failures, blocked>>
    BY <1>1, <1>3, <2>1 DEF RecordResult
  <2>2. CASE IsCurrent(got[t]) /\ client' = Nobody /\ RecordProcessFailure({got[t]})
    <3>1. ~blocked
      BY <1>1, <1>3, <2>2 DEF RecordResult, IsCurrent, Types, Mutex, WithDaemon, At
    <3> QED
      BY <1>1, <1>3, <2>2, <3>1, FailureBudget DEF RecordResult
  <2> QED
    BY <1>3, <2>1, <2>2 DEF RecordResult
<1>4. ASSUME \/ \E t \in Request : CallSucceeds(t) \/ CallFails(t) \/ Cancel(t)
             \/ HealthAnswers \/ HealthTimesOut \/ HealthOfAnother \/ HealthKills
             \/ UpdateStarts \/ DaemonConfigured \/ DiscardConfirmed
             \/ (\E d \in Daemon : DaemonStep(d)) \/ UNCHANGED vars
      PROVE  UNCHANGED state
  BY <1>4 DEF CallSucceeds, CallFails, Cancel, HealthAnswers, HealthTimesOut, HealthOfAnother,
      HealthKills, UpdateStarts, DaemonConfigured, DiscardConfirmed, DaemonStep, ProcessExits,
      ReaderFails, WriterFails, vars
<1>5. UNCHANGED state => Budget'
  BY <1>1 DEF state
<1>6. CASE HealthGood
  BY <1>1, <1>6 DEF HealthGood, IsCurrent, Types, Mutex, WithDaemon, At
<1>7. CASE HealthBad
  <2>1. ~blocked /\ unhealthy < HealthLimit /\ unhealthy \in Nat /\ unhealthy' = unhealthy + 1
    BY <1>1, <1>7 DEF HealthBad, IsCurrent, Types, Mutex, WithDaemon, At
  <2>2. CASE RetireClient
    BY <1>1, <2>1, <2>2, FailureBudget DEF RetireClient
  <2>3. CASE unhealthy + 1 < HealthLimit /\ UNCHANGED <<client, retired, failures, blocked, charges>>
    BY <1>1, <2>1, <2>3
  <2> QED
    BY <1>7, <2>2, <2>3 DEF HealthBad
<1>8. CASE UpdateWithoutDaemon \/ UpdateAcknowledged
  BY <1>1, <1>8 DEF UpdateWithoutDaemon, UpdateAcknowledged, Commit
<1>9. CASE UpdateFails \/ DiscardGivesUp
  BY <1>1, <1>9 DEF UpdateFails, ClientAfterFailure, DiscardGivesUp
<1>10. CASE RetryAfterUserRequest
  BY <1>1, <1>10 DEF RetryAfterUserRequest
<1> QED
  BY <1>2, <1>3, <1>4, <1>5, <1>6, <1>7, <1>8, <1>9, <1>10
  DEF Next, RequestStep, TimerStep, UpdateStep

LEMMA ControlStep == Control /\ [Next]_vars => Control'
  BY TypesStep, MutexStep, SlotsStep, BudgetStep DEF Control

LEMMA ControlHolds == Spec => []Control
  BY InitControl, ControlStep, PTL DEF Spec

-----------------------------------------------------------------------------
(***************************************************************************)
(* The daemons: what a running process, a charge and a configuration tell  *)
(* about the slots.                                                        *)
(***************************************************************************)

\* A running process nobody has killed is in a slot, or being started.
Kept ==
    \A d \in running \ told :
        \/ d = client
        \/ d = retired
        \/ \E t \in Task : At(t, "handshake") /\ got[t] = d

\* A running process that was in service is in a slot, or being discarded.
Accounted ==
    \A d \in served \cap running :
        \/ d = client
        \/ d = retired
        \/ At(Saver, "discard") /\ got[Saver] = d

\* Nothing is charged yet to a daemon that serves or is being started.
Charged ==
    /\ FailureChargedOnce
    /\ client # Nobody => charges[client] = 0
    /\ \A t \in Task : At(t, "handshake") => charges[got[t]] = 0
    /\ \A t \in Task : At(t, "start") => got[t] = Nobody

\* The configuration of the daemon in service, before and during an update.
Configured ==
    /\ client # Nobody /\ ~At(Saver, "configure") =>
          /\ applied[client].config = config
          /\ applied[client].revision <= revision
    /\ At(Saver, "configure") \/ At(Saver, "discard") =>
          /\ applied[got[Saver]].revision <= revision + 1
          /\ \/ applied[got[Saver]].config = updates
             \/ applied[got[Saver]].revision <= revision
    /\ \A t \in Task : At(t, "handshake") => got[t] \notin served

Daemons == Kept /\ Accounted /\ Charged /\ Configured

LEMMA InitDaemons == Init => Daemons
<1> SUFFICES ASSUME Init PROVE Daemons
  OBVIOUS
<1>1. Kept /\ Accounted
  BY DEF Init, Kept, Accounted
<1>2. Charged
  BY DEF Init, Charged, FailureChargedOnce, At
<1>3. Configured
  BY DEF Init, Configured, At
<1> QED
  BY <1>1, <1>2, <1>3 DEF Daemons

LEMMA KeptStep == Control /\ Kept /\ [Next]_vars => Kept'
<1> SUFFICES ASSUME Control, Kept, [Next]_vars PROVE Kept'
  OBVIOUS
<1> USE DEF Control, Types, Mutex, Slots, Kept, At, Holding, WithDaemon, MoveTo, Done
<1>1. ASSUME NEW t \in Request \cup {Timer}, Connection(t) PROVE Kept'
  <2>1. CASE ConnectAlive(t) \/ ConnectNone(t) \/ ReapGivesUp(t)
    BY <2>1 DEF ConnectAlive, ConnectNone, ReapGivesUp, state, processes
  <2>2. CASE ConnectDead(t)
    BY <2>2 DEF ConnectDead, RetireClient, Kill
  <2>3. CASE ConnectRetired(t)
    BY <2>3 DEF ConnectRetired, Kill, state
  <2>4. CASE ReapConfirmed(t)
    BY <2>4 DEF ReapConfirmed, Exited, processes
  <2>5. CASE StartSpawns(t)
    BY <2>5 DEF StartSpawns, Spawned, state
  <2>6. CASE StartSucceeds(t)
    BY <2>6 DEF StartSucceeds
  <2>7. CASE StartFails(t)
    BY <2>7 DEF StartFails, Kill, Some
  <2> QED
    BY <1>1, <2>1, <2>2, <2>3, <2>4, <2>5, <2>6, <2>7 DEF Connection
<1>2. ASSUME NEW t \in Request, CallSucceeds(t) \/ CallFails(t) \/ RecordResult(t) PROVE Kept'
  BY <1>2 DEF CallSucceeds, CallFails, RecordResult, IsCurrent, state, processes
<1>3. ASSUME NEW t \in Request, Cancel(t) PROVE Kept'
  BY <1>3 DEF Cancel, Kill, Spawned, state, processes
<1>4. CASE HealthAnswers \/ HealthTimesOut \/ HealthOfAnother \/ HealthGood \/ HealthKills
  BY <1>4 DEF HealthAnswers, HealthTimesOut, HealthOfAnother, HealthGood, HealthKills, Kill,
      state, processes
<1>5. CASE HealthBad
  <2>1. CASE RetireClient /\ MoveTo(Timer, "kill", got[Timer])
    <3>1. /\ retired' = client /\ client' = Nobody /\ client \in Daemon /\ lock = Nobody
          /\ running' = running /\ told' = told /\ served' = served
      BY <1>5, <2>1 DEF HealthBad, RetireClient, IsCurrent, processes
    <3>2. \A t \in Task : pc[t] \notin Holding /\ pc'[t] \notin Holding
      BY <2>1, <3>1
    <3> QED
      BY <3>1, <3>2
  <2>2. CASE UNCHANGED <<client, retired, failures, blocked, charges>> /\ Done(Timer)
    BY <1>5, <2>2 DEF HealthBad, processes
  <2> QED
    BY <1>5, <2>1, <2>2 DEF HealthBad
<1>6. CASE UpdateWithoutDaemon \/ UpdateStarts \/ DaemonConfigured \/ UpdateAcknowledged
  BY <1>6 DEF UpdateWithoutDaemon, UpdateStarts, DaemonConfigured, UpdateAcknowledged, Commit,
      state, tasks, processes
<1>7. CASE UpdateFails \/ DiscardConfirmed \/ DiscardGivesUp
  BY <1>7 DEF UpdateFails, DiscardConfirmed, DiscardGivesUp, Kill, state, processes
<1>8. CASE RetryAfterUserRequest
  BY <1>8 DEF RetryAfterUserRequest, Budget, BlockedWhenExhausted, tasks, processes
<1>9. CASE \E d \in Daemon : DaemonStep(d)
  BY <1>9 DEF DaemonStep, ProcessExits, ReaderFails, WriterFails, Kill, state, tasks
<1>10. CASE UNCHANGED vars
  BY <1>10 DEF vars, state, tasks, processes
<1> QED
  BY <1>1, <1>2, <1>3, <1>4, <1>5, <1>6, <1>7, <1>8, <1>9, <1>10
  DEF Next, RequestStep, TimerStep, UpdateStep

LEMMA AccountedStep == Control /\ Accounted /\ [Next]_vars => Accounted'
<1> SUFFICES ASSUME Control, Accounted, [Next]_vars PROVE Accounted'
  OBVIOUS
<1> USE DEF Control, Types, Mutex, Slots, Accounted, At, Holding, WithDaemon, MoveTo, Done
<1>1. ASSUME NEW t \in Request \cup {Timer}, Connection(t) PROVE Accounted'
  <2>1. CASE ConnectAlive(t) \/ ConnectNone(t) \/ ReapGivesUp(t)
    BY <2>1 DEF ConnectAlive, ConnectNone, ReapGivesUp, state, processes, history
  <2>2. CASE ConnectDead(t) \/ ConnectRetired(t)
    BY <2>2 DEF ConnectDead, ConnectRetired, RetireClient, state, history
  <2>3. CASE ReapConfirmed(t)
    BY <2>3 DEF ReapConfirmed, Exited, processes, history
  <2>4. CASE StartSpawns(t)
    BY <2>4 DEF StartSpawns, Spawned, state
  <2>5. CASE StartSucceeds(t)
    BY <2>5 DEF StartSucceeds
  <2>6. CASE StartFails(t)
    BY <2>6 DEF StartFails
  <2> QED
    BY <1>1, <2>1, <2>2, <2>3, <2>4, <2>5, <2>6 DEF Connection
<1>2. ASSUME NEW t \in Request, CallSucceeds(t) \/ CallFails(t) \/ RecordResult(t)
      PROVE  Accounted'
  BY <1>2 DEF CallSucceeds, CallFails, RecordResult, IsCurrent, state, processes, history
<1>3. ASSUME NEW t \in Request, Cancel(t) PROVE Accounted'
  BY <1>3 DEF Cancel, Spawned, state, processes, history
<1>4. CASE HealthAnswers \/ HealthTimesOut \/ HealthOfAnother \/ HealthGood \/ HealthKills
  BY <1>4 DEF HealthAnswers, HealthTimesOut, HealthOfAnother, HealthGood, HealthKills,
      state, processes, history
<1>5. CASE HealthBad
  <2>1. CASE RetireClient /\ MoveTo(Timer, "kill", got[Timer])
    <3>1. /\ retired' = client /\ client' = Nobody /\ client \in Daemon /\ lock = Nobody
          /\ running' = running /\ told' = told /\ served' = served
      BY <1>5, <2>1 DEF HealthBad, RetireClient, IsCurrent, processes
    <3>2. \A t \in Task : pc[t] \notin Holding /\ pc'[t] \notin Holding
      BY <2>1, <3>1
    <3> QED
      BY <3>1, <3>2
  <2>2. CASE UNCHANGED <<client, retired, failures, blocked, charges>> /\ Done(Timer)
    BY <1>5, <2>2 DEF HealthBad, processes
  <2> QED
    BY <1>5, <2>1, <2>2 DEF HealthBad
<1>6. CASE UpdateWithoutDaemon \/ UpdateStarts \/ DaemonConfigured \/ UpdateAcknowledged
  BY <1>6 DEF UpdateWithoutDaemon, UpdateStarts, DaemonConfigured, UpdateAcknowledged, Commit,
      state, tasks, processes, history
<1>7. CASE UpdateFails \/ DiscardConfirmed \/ DiscardGivesUp
  BY <1>7 DEF UpdateFails, DiscardConfirmed, DiscardGivesUp, Exited, state, processes, history
<1>8. CASE RetryAfterUserRequest
  BY <1>8 DEF RetryAfterUserRequest, Budget, BlockedWhenExhausted, tasks, processes, history
<1>9. CASE \E d \in Daemon : DaemonStep(d)
  BY <1>9 DEF DaemonStep, ProcessExits, ReaderFails, WriterFails, state, tasks, history
<1>10. CASE UNCHANGED vars
  BY <1>10 DEF vars, state, tasks, processes, history
<1> QED
  BY <1>1, <1>2, <1>3, <1>4, <1>5, <1>6, <1>7, <1>8, <1>9, <1>10
  DEF Next, RequestStep, TimerStep, UpdateStep

LEMMA ChargedStep == Control /\ Charged /\ [Next]_vars => Charged'
<1> SUFFICES ASSUME Control, Charged, [Next]_vars PROVE Charged'
  OBVIOUS
<1> USE DEF Control, Types, Mutex, Slots, Charged, FailureChargedOnce, At, Holding, WithDaemon,
        MoveTo, Done
<1>1. ASSUME NEW t \in Request \cup {Timer}, Connection(t) PROVE Charged'
  <2>1. CASE ConnectAlive(t) \/ ConnectRetired(t) \/ ConnectNone(t) \/ ReapGivesUp(t)
    BY <2>1 DEF ConnectAlive, ConnectRetired, ConnectNone, ReapGivesUp, state, history
  <2>2. CASE ConnectDead(t)
    BY <2>2 DEF ConnectDead, RetireClient, RecordProcessFailure
  <2>3. CASE ReapConfirmed(t)
    BY <2>3 DEF ReapConfirmed, history
  <2>4. CASE StartSpawns(t)
    BY <2>4 DEF StartSpawns, Fresh, state
  <2>5. CASE StartSucceeds(t)
    BY <2>5 DEF StartSucceeds
  <2>6. CASE StartFails(t)
    BY <2>6 DEF StartFails, RecordProcessFailure, Some
  <2> QED
    BY <1>1, <2>1, <2>2, <2>3, <2>4, <2>5, <2>6 DEF Connection
<1>2. ASSUME NEW t \in Request, CallSucceeds(t) \/ CallFails(t) PROVE Charged'
  BY <1>2 DEF CallSucceeds, CallFails, state, history
<1>3. ASSUME NEW t \in Request, RecordResult(t) PROVE Charged'
  <2>1. CASE UNCHANGED <<retired, client, failures, blocked, charges>>
    BY <1>3, <2>1 DEF RecordResult
  <2>2. CASE IsCurrent(got[t]) /\ client' = Nobody /\ RecordProcessFailure({got[t]})
    BY <1>3, <2>2 DEF RecordResult, IsCurrent, RecordProcessFailure
  <2> QED
    BY <1>3, <2>1, <2>2 DEF RecordResult
<1>4. ASSUME NEW t \in Request, Cancel(t) PROVE Charged'
  BY <1>4 DEF Cancel, Fresh, state, history
<1>5. CASE HealthAnswers \/ HealthTimesOut \/ HealthOfAnother \/ HealthGood \/ HealthKills
  BY <1>5 DEF HealthAnswers, HealthTimesOut, HealthOfAnother, HealthGood, HealthKills,
      state, history
<1>6. CASE HealthBad
  <2>1. CASE RetireClient /\ MoveTo(Timer, "kill", got[Timer])
    BY <1>6, <2>1 DEF HealthBad, RetireClient, RecordProcessFailure
  <2>2. CASE UNCHANGED <<client, retired, failures, blocked, charges>> /\ Done(Timer)
    BY <1>6, <2>2 DEF HealthBad
  <2> QED
    BY <1>6, <2>1, <2>2 DEF HealthBad
<1>7. CASE UpdateWithoutDaemon \/ UpdateStarts \/ UpdateStep
  BY <1>7 DEF UpdateWithoutDaemon, UpdateStarts, UpdateStep, DaemonConfigured, UpdateAcknowledged,
      UpdateFails, ClientAfterFailure, DiscardConfirmed, DiscardGivesUp, state, tasks, history
<1>8. CASE RetryAfterUserRequest
  BY <1>8 DEF RetryAfterUserRequest, tasks, history
<1>9. CASE \E d \in Daemon : DaemonStep(d)
  BY <1>9 DEF DaemonStep, ProcessExits, ReaderFails, WriterFails, state, tasks, history
<1>10. CASE UNCHANGED vars
  BY <1>10 DEF vars, state, tasks, history
<1> QED
  BY <1>1, <1>2, <1>3, <1>4, <1>5, <1>6, <1>7, <1>8, <1>9, <1>10
  DEF Next, RequestStep, TimerStep

LEMMA ConfiguredStep == Control /\ Configured /\ [Next]_vars => Configured'
<1> SUFFICES ASSUME Control, Configured, [Next]_vars PROVE Configured'
  OBVIOUS
<1> USE DEF Control, Types, Mutex, Slots, Configured, At, Holding, WithDaemon, MoveTo, Done
<1>1. ASSUME NEW t \in Request \cup {Timer}, Connection(t) PROVE Configured'
  <2>1. CASE ConnectAlive(t) \/ ConnectNone(t) \/ ReapGivesUp(t)
    BY <2>1 DEF ConnectAlive, ConnectNone, ReapGivesUp, state, settings, processes, history
  <2>2. CASE ConnectDead(t) \/ ConnectRetired(t)
    BY <2>2 DEF ConnectDead, ConnectRetired, RetireClient, state, settings, history
  <2>3. CASE ReapConfirmed(t)
    BY <2>3 DEF ReapConfirmed, settings, processes, history
  <2>4. CASE StartSpawns(t)
    BY <2>4 DEF StartSpawns, Spawned, Fresh, state, settings
  <2>5. CASE StartSucceeds(t)
    <3>1. applied'[client'] = [revision |-> revision, config |-> config]
      BY <2>5 DEF StartSucceeds
    <3> QED
      BY <2>5, <3>1 DEF StartSucceeds, settings
  <2>6. CASE StartFails(t)
    BY <2>6 DEF StartFails, settings
  <2> QED
    BY <1>1, <2>1, <2>2, <2>3, <2>4, <2>5, <2>6 DEF Connection
<1>2. ASSUME NEW t \in Request, CallSucceeds(t) \/ CallFails(t) \/ RecordResult(t)
      PROVE  Configured'
  BY <1>2 DEF CallSucceeds, CallFails, RecordResult, state, settings, processes, history
<1>3. ASSUME NEW t \in Request, Cancel(t) PROVE Configured'
  BY <1>3 DEF Cancel, Spawned, Fresh, state, settings, processes, history
<1>4. CASE HealthAnswers \/ HealthTimesOut \/ HealthOfAnother \/ HealthGood \/ HealthKills
  BY <1>4 DEF HealthAnswers, HealthTimesOut, HealthOfAnother, HealthGood, HealthKills,
      state, settings, processes, history
<1>5. CASE HealthBad
  <2>1. CASE RetireClient /\ MoveTo(Timer, "kill", got[Timer])
    BY <1>5, <2>1 DEF HealthBad, RetireClient, settings, processes
  <2>2. CASE UNCHANGED <<client, retired, failures, blocked, charges>> /\ Done(Timer)
    BY <1>5, <2>2 DEF HealthBad, settings, processes
  <2> QED
    BY <1>5, <2>1, <2>2 DEF HealthBad
<1>6. CASE UpdateWithoutDaemon \/ UpdateStarts
  <2>1. CASE UpdateWithoutDaemon
    BY <1>6, <2>1 DEF UpdateWithoutDaemon, Commit, tasks, processes, history
  <2>2. CASE UpdateStarts
    <3>1. applied[client].revision <= revision /\ applied[client].revision \in Nat
      BY <2>2 DEF UpdateStarts, Configuration
    <3> QED
      BY <2>2, <3>1 DEF UpdateStarts, state, processes, history
  <2> QED
    BY <1>6, <2>1, <2>2
<1>7. CASE DaemonConfigured
  <2>1. applied'[got[Saver]] = [revision |-> revision + 1, config |-> updates]
    BY <1>7 DEF DaemonConfigured, NextRevision
  <2> QED
    BY <1>7, <2>1 DEF DaemonConfigured, state, settings, tasks, history
<1>8. CASE UpdateAcknowledged
  BY <1>8 DEF UpdateAcknowledged, Commit, NextRevision, processes, history
<1>9. CASE UpdateFails \/ DiscardConfirmed \/ DiscardGivesUp
  BY <1>9 DEF UpdateFails, ClientAfterFailure, DiscardConfirmed, DiscardGivesUp, state, settings,
      processes, history
<1>10. CASE RetryAfterUserRequest
  BY <1>10 DEF RetryAfterUserRequest, settings, tasks, processes, history
<1>11. CASE \E d \in Daemon : DaemonStep(d)
  BY <1>11 DEF DaemonStep, ProcessExits, ReaderFails, WriterFails, state, settings, tasks, history
<1>12. CASE UNCHANGED vars
  BY <1>12 DEF vars, state, settings, tasks, processes, history
<1> QED
  BY <1>1, <1>2, <1>3, <1>4, <1>5, <1>6, <1>7, <1>8, <1>9, <1>10, <1>11, <1>12
  DEF Next, RequestStep, TimerStep, UpdateStep

LEMMA DaemonsHold == Spec => [](Control /\ Daemons)
<1>1. Init => Control /\ Daemons
  BY InitControl, InitDaemons
<1>2. Control /\ Daemons /\ [Next]_vars => (Control /\ Daemons)'
  BY ControlStep, KeptStep, AccountedStep, ChargedStep, ConfiguredStep DEF Daemons
<1> QED
  BY <1>1, <1>2, PTL DEF Spec

-----------------------------------------------------------------------------
(***************************************************************************)
(* The theorems.                                                           *)
(***************************************************************************)

\* Every variable of the supervisor keeps its type; in particular no failure is
\* recorded beyond the restart budget, and no health check is counted against a
\* daemon beyond the limit that retires it.
THEOREM SupervisorTypes == Spec => []TypeOK
<1>1. Control => TypeOK
  BY DEF Control, Types, Budget, TypeOK
<1> QED
  BY <1>1, ControlHolds, PTL

\* record_process_failure, health, update_config and retry_after_user_request
\* agree on the budget: restarts are blocked exactly when it is exhausted, and
\* then nothing is in service.
THEOREM RestartsAreBudgeted == Spec => []BlockedWhenExhausted
<1>1. Control => BlockedWhenExhausted
  BY DEF Control, Budget
<1> QED
  BY <1>1, ControlHolds, PTL

\* However many requests are aborted in the middle of a start, two processes that
\* nobody told to stop never run side by side.
THEOREM DaemonsAreKilledFirst == Spec => []AtMostOneDaemon
<1>1. Control /\ Kept => AtMostOneDaemon
  BY DEF Control, Types, Mutex, Slots, Kept, AtMostOneDaemon, At, Holding
<1> QED
  BY <1>1, DaemonsHold, PTL DEF Daemons

\* A daemon is started only when the exit of every daemon that served before it
\* is confirmed, whether connection(), health() or update_config() gave it up.
THEOREM DaemonsDoNotOverlap == Spec => []NoOverlap
<1>1. Control /\ Accounted => NoOverlap
  BY DEF Control, Types, Mutex, Slots, Accounted, NoOverlap, At, Holding
<1> QED
  BY <1>1, DaemonsHold, PTL DEF Daemons

\* DaemonsAreSingle: the two theorems above, for the run's property.
THEOREM DaemonsStaySingle == Spec => []DaemonsAreSingle
<1>1. AtMostOneDaemon /\ NoOverlap => DaemonsAreSingle
  BY DEF DaemonsAreSingle
<1>2. QED
  BY DaemonsAreKilledFirst, DaemonsDoNotOverlap, <1>1, PTL

\* The end of one daemon, noticed by any number of requests and by the timer, is
\* recorded as one failure.
THEOREM FailuresAreChargedOnce == Spec => []FailureChargedOnce
<1>1. Charged => FailureChargedOnce
  BY DEF Charged
<1> QED
  BY <1>1, DaemonsHold, PTL DEF Daemons

\* Between updates the daemon in service works with the configuration that
\* update_config() committed last, even when an acknowledgement was lost.
THEOREM ServiceIsConfigured == Spec => []ClientRunsCommittedConfig
<1>1. Control /\ Configured => ClientRunsCommittedConfig
  BY DEF Control, Mutex, Configured, ClientRunsCommittedConfig, At, Holding
<1> QED
  BY <1>1, DaemonsHold, PTL DEF Daemons

\* While restarts are blocked, no step starts a process.
THEOREM BlockedStartsNothing == Spec => NoStartWhileBlocked
<1>1. Control /\ [Next]_vars => [blocked /\ blocked' => running' \subseteq running]_vars
  <2> SUFFICES ASSUME Control, blocked, Next PROVE running' \subseteq running
    OBVIOUS
  <2> USE DEF Control, Slots, At
  <2>1. ASSUME NEW t \in Request \cup {Timer}, Connection(t) PROVE running' \subseteq running
    BY <2>1 DEF Connection, ConnectAlive, ConnectDead, ConnectRetired, ConnectNone, ReapConfirmed,
        ReapGivesUp, StartSpawns, StartSucceeds, StartFails, processes, Task
  <2>2. ASSUME NEW t \in Request,
               CallSucceeds(t) \/ CallFails(t) \/ RecordResult(t) \/ Cancel(t)
        PROVE  running' \subseteq running
    BY <2>2 DEF CallSucceeds, CallFails, RecordResult, Cancel, processes, Task
  <2>3. CASE HealthAnswers \/ HealthTimesOut \/ HealthOfAnother \/ HealthGood \/ HealthBad \/ HealthKills
    BY <2>3 DEF HealthAnswers, HealthTimesOut, HealthOfAnother, HealthGood, HealthBad, HealthKills,
        processes
  <2>4. CASE UpdateWithoutDaemon \/ UpdateStarts \/ UpdateStep \/ RetryAfterUserRequest
    BY <2>4 DEF UpdateWithoutDaemon, UpdateStarts, UpdateStep, DaemonConfigured, UpdateAcknowledged,
        UpdateFails, DiscardConfirmed, DiscardGivesUp, RetryAfterUserRequest, processes
  <2>5. CASE \E d \in Daemon : DaemonStep(d)
    BY <2>5 DEF DaemonStep, ProcessExits, ReaderFails, WriterFails
  <2> QED
    BY <2>1, <2>2, <2>3, <2>4, <2>5 DEF Next, RequestStep, TimerStep
<1> QED
  BY <1>1, ControlHolds, PTL DEF Spec, NoStartWhileBlocked

\* configure_scheduler() never gives a daemon a second configuration under a
\* revision it has seen, not even after an update whose acknowledgement was lost.
THEOREM RevisionsTellConfigurationsApart == Spec => RevisionsGrow
<1> DEFINE Grown == \A d \in running \cap running' :
                       applied'[d].config # applied[d].config /\ d \in served
                          => applied'[d].revision > applied[d].revision
<1>1. Control /\ Configured /\ [Next]_vars => [Grown]_vars
  <2> SUFFICES ASSUME Control, Configured, Next PROVE Grown
    OBVIOUS
  <2> USE DEF Control, Types, Configured, At
  <2>1. UNCHANGED applied => Grown
    OBVIOUS
  <2>2. ASSUME NEW t \in Request \cup {Timer}, Connection(t) PROVE Grown
    <3>1. CASE StartSpawns(t)
      BY <3>1 DEF StartSpawns, Spawned, Fresh
    <3>2. CASE StartSucceeds(t)
      BY <3>2 DEF StartSucceeds, Task
    <3> QED
      BY <2>1, <2>2, <3>1, <3>2 DEF Connection, ConnectAlive, ConnectDead, ConnectRetired,
          ConnectNone, ReapConfirmed, ReapGivesUp, StartFails, processes
  <2>3. ASSUME NEW t \in Request, Cancel(t) PROVE Grown
    BY <2>1, <2>3 DEF Cancel, Spawned, Fresh, processes
  <2>4. CASE DaemonConfigured
    <3>1. applied' = [applied EXCEPT ![got[Saver]] = [revision |-> revision + 1, config |-> updates]]
      BY <2>4 DEF DaemonConfigured, NextRevision
    <3>2. applied[got[Saver]].revision <= revision
      BY <2>4 DEF DaemonConfigured
    <3> QED
      BY <3>1, <3>2 DEF Configuration
  <2>5. ASSUME \/ \E t \in Request : CallSucceeds(t) \/ CallFails(t) \/ RecordResult(t)
               \/ HealthAnswers \/ HealthTimesOut \/ HealthOfAnother \/ HealthGood \/ HealthBad
               \/ HealthKills \/ UpdateWithoutDaemon \/ UpdateStarts \/ UpdateAcknowledged
               \/ UpdateFails \/ DiscardConfirmed \/ DiscardGivesUp \/ RetryAfterUserRequest
               \/ (\E d \in Daemon : DaemonStep(d))
        PROVE  UNCHANGED applied
    BY <2>5 DEF CallSucceeds, CallFails, RecordResult, HealthAnswers, HealthTimesOut,
        HealthOfAnother, HealthGood, HealthBad, HealthKills, UpdateWithoutDaemon, UpdateStarts,
        UpdateAcknowledged, UpdateFails, DiscardConfirmed, DiscardGivesUp, RetryAfterUserRequest,
        DaemonStep, ProcessExits, ReaderFails, WriterFails, processes
  <2> QED
    BY <2>1, <2>2, <2>3, <2>4, <2>5 DEF Next, RequestStep, TimerStep, UpdateStep
<1> QED
  BY <1>1, DaemonsHold, PTL DEF Spec, Daemons, RevisionsGrow

=============================================================================
