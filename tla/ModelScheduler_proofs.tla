------------------------ MODULE ModelScheduler_proofs ------------------------
(***************************************************************************)
(* The scheduler of the model daemon with its two adapters, for any jobs,  *)
(* processes, configurations and times: the processes are owned, replies   *)
(* are fresh, a circuit counts its own failures, the health that is shown  *)
(* is current, and a failover has half of the time.                        *)
(***************************************************************************)
EXTENDS ModelScheduler, TLAPS

-----------------------------------------------------------------------------
(***************************************************************************)
(* The llama adapter.  A step of any request keeps the gate exclusive, and *)
(* the holder of the gate is the only one who changes the slot, except     *)
(* for a shutdown, which waits for all requests.                           *)
(***************************************************************************)

LEMMA SomeKey == AnyKey \in WorkerKey
<1>1. \E k \in WorkerKey : TRUE
  <2>1. PICK m \in RuntimeModel : TRUE
    BY LlamaAssumption
  <2>2. PICK c \in Config : TRUE
    BY ModelJobsAssumption
  <2>3. [model |-> m, config |-> c] \in WorkerKey
    BY <2>1, <2>2 DEF WorkerKey
  <2> QED
    BY <2>3
<1> QED
  BY <1>1, Zenon DEF AnyKey

\* One request at most is past the gate.
OneHoldsGate == \A i, j \in Job : HoldsGate(i) /\ HoldsGate(j) => i = j

\* A request that waits for the old server waits for the one in the slot.
EvictsTheSlot == \A j \in Job : llm[j] = "evict" => slot # NoServer

\* ... and a request that has a server uses an existing one.
UsesItsServer == \A j \in Job : llm[j] \in {"start", "ask"} => uses[j] # NoServer

LlamaInv ==
    /\ LlamaTypeOK /\ OneHoldsGate /\ EvictsTheSlot /\ UsesItsServer
    /\ OneServerRuns /\ ServedByItsOwn

ServerProcess == [up: BOOLEAN, killed: BOOLEAN, active: BOOLEAN, idle: BOOLEAN, key: WorkerKey]

LEMMA ProcessUpdates ==
  ASSUME NEW r \in ServerProcess
  PROVE  /\ [r EXCEPT !.up = FALSE] \in ServerProcess
         /\ [r EXCEPT !.killed = TRUE] \in ServerProcess
         /\ [r EXCEPT !.idle = TRUE] \in ServerProcess
         /\ [r EXCEPT !.idle = FALSE] \in ServerProcess
         /\ [r EXCEPT !.active = FALSE, !.idle = FALSE] \in ServerProcess
BY DEF ServerProcess

LEMMA LlamaStarts == LlamaInit => LlamaInv
<1> SUFFICES ASSUME LlamaInit PROVE LlamaInv
  OBVIOUS
<1>1. LlamaTypeOK
  BY SomeKey DEF LlamaInit, LlamaTypeOK, LlamaStage
<1>2. OneHoldsGate /\ EvictsTheSlot /\ UsesItsServer /\ OneServerRuns /\ ServedByItsOwn
  BY DEF LlamaInit, OneHoldsGate, HoldsGate, EvictsTheSlot, UsesItsServer, OneServerRuns,
      ServedByItsOwn
<1> QED
  BY <1>1, <1>2 DEF LlamaInv

\* Starting a server when none runs.
LEMMA SpawnKeeps ==
  ASSUME LlamaInv, NEW j \in Job, HoldsGate(j), Spawn(j, server), \A s \in Server : ~server[s].up,
         UNCHANGED <<want, metadata>>
  PROVE  LlamaInv'
<1> USE DEF LlamaInv, LlamaTypeOK, HoldsGate
<1>1. CASE Leave(j) /\ slot' = NoServer /\ UNCHANGED server /\ MayDisable(want[j].model)
  <2>1. LlamaTypeOK'
    BY <1>1 DEF Leave, MayDisable, LlamaStage, WorkerKey
  <2>2. \A i \in Job : llm'[i] # "evict" /\ llm'[i] \notin {"start", "ask"}
    BY <1>1 DEF Leave, OneHoldsGate, LlamaStage
  <2> QED
    BY <1>1, <2>1, <2>2 DEF Leave, OneHoldsGate, EvictsTheSlot, UsesItsServer, OneServerRuns,
        ServedByItsOwn
<1>2. ASSUME NEW s \in Server, UNCHANGED disabled, slot' = s,
             server' = [server EXCEPT ![s] = [up |-> TRUE, killed |-> FALSE,
                            active |-> TRUE, idle |-> FALSE, key |-> want[j]]],
             llm' = [llm EXCEPT ![j] = "start"], uses' = [uses EXCEPT ![j] = s]
      PROVE  LlamaInv'
  <2>1. LlamaTypeOK'
    BY <1>2 DEF LlamaStage
  <2>2. \A i \in Job \ {j} : llm'[i] = llm[i] /\ llm[i] \in {"out", "gate"}
    BY <1>2 DEF OneHoldsGate
  <2>3. OneHoldsGate' /\ EvictsTheSlot' /\ UsesItsServer'
    BY <1>2, <2>2, LlamaAssumption DEF OneHoldsGate, EvictsTheSlot, UsesItsServer
  <2>4. OneServerRuns'
    BY <1>2 DEF OneServerRuns
  <2>5. ServedByItsOwn'
    BY <1>2, <2>2 DEF ServedByItsOwn
  <2> QED
    BY <2>1, <2>3, <2>4, <2>5
<1> QED
  BY <1>1, <1>2 DEF Spawn

\* A request that leaves, with its server killed if it had begun to use it.
LEMMA LeavingKeeps ==
  ASSUME LlamaInv, NEW j \in Job, Leave(j), UNCHANGED <<want, metadata, slot>>,
         disabled' \subseteq RuntimeModel,
         \/ UNCHANGED server
         \/ llm[j] \in {"start", "ask"} /\ AbandonWorker(uses[j])
         \/ llm[j] = "ask" /\ server' = [server EXCEPT ![uses[j]].active = FALSE,
                                                       ![uses[j]].idle = FALSE]
  PROVE  LlamaInv'
<1> USE DEF LlamaInv, LlamaTypeOK, Leave, AbandonWorker, UsesItsServer
<1>1. LlamaTypeOK'
  <2>1. llm' \in [Job -> LlamaStage] /\ uses' \in [Job -> Server \cup {NoServer}]
    BY DEF LlamaStage
  <2>2. server' \in [Server -> [up: BOOLEAN, killed: BOOLEAN, active: BOOLEAN,
                                idle: BOOLEAN, key: WorkerKey]]
    <3>1. CASE llm[j] \in {"start", "ask"} /\ AbandonWorker(uses[j])
      <4>1. PICK s \in Server :
              server' = [server EXCEPT ![s].killed = TRUE, ![s].active = FALSE]
        BY <3>1
      <4>2. server[s] \in [up: BOOLEAN, killed: BOOLEAN, active: BOOLEAN, idle: BOOLEAN,
                           key: WorkerKey]
        OBVIOUS
      <4>3. server' = [server EXCEPT ![s] = [server[s] EXCEPT !.killed = TRUE, !.active = FALSE]]
        BY <4>1
      <4> QED
        BY <4>2, <4>3
    <3>2. CASE llm[j] = "ask" /\ server' = [server EXCEPT ![uses[j]].active = FALSE,
                                                          ![uses[j]].idle = FALSE]
      <4>1. uses[j] \in Server /\ server \in [Server -> ServerProcess]
        BY <3>2 DEF ServerProcess
      <4> QED
        <5>0. server' = [server EXCEPT ![uses[j]] =
                           [server[uses[j]] EXCEPT !.active = FALSE, !.idle = FALSE]]
          BY <3>2
        <5> HIDE DEF LlamaInv, LlamaTypeOK
        <5>2. PICK r \in ServerProcess : server' = [server EXCEPT ![uses[j]] = r]
          BY <4>1, <5>0, ProcessUpdates
        <5>1. server' \in [Server -> ServerProcess]
          BY <4>1, <5>2
        <5> QED
          BY <5>1 DEF ServerProcess
    <3> QED
      BY <3>1, <3>2
  <2> QED
    BY <2>1, <2>2
<1>2. OneHoldsGate' /\ EvictsTheSlot' /\ UsesItsServer'
  BY DEF OneHoldsGate, HoldsGate, EvictsTheSlot
<1>3. OneServerRuns'
  BY DEF OneServerRuns
<1>4. ASSUME NEW i \in Job, llm'[i] \in {"start", "ask"}
      PROVE  /\ uses'[i] = slot /\ server'[slot].key = want[i]
             /\ server'[slot].active /\ ~server'[slot].killed
  <2>1. i # j /\ llm[i] \in {"start", "ask"} /\ uses'[i] = uses[i]
    BY <1>4
  <2>2. UNCHANGED server
    BY <2>1 DEF OneHoldsGate, HoldsGate
  <2> QED
    BY <2>1, <2>2 DEF ServedByItsOwn
<1> QED
  BY <1>1, <1>2, <1>3, <1>4 DEF ServedByItsOwn

LEMMA LlamaJobKeeps ==
  ASSUME LlamaInv, NEW j \in Job, LlamaStep(j) \/ LlamaDrop(j) \/ \E k \in WorkerKey : LlamaRequest(j, k)
  PROVE  LlamaInv'
<1> USE DEF LlamaInv, LlamaTypeOK, HoldsGate
<1>1. CASE \E k \in WorkerKey : LlamaRequest(j, k)
  BY <1>1 DEF LlamaRequest, LlamaStage, OneHoldsGate, EvictsTheSlot, UsesItsServer, OneServerRuns,
      ServedByItsOwn
<1>2. CASE EnterGate(j)
  <2>1. CASE Leave(j) /\ UNCHANGED metadata
    BY <1>2, <2>1, LeavingKeeps DEF EnterGate
  <2>2. CASE metadata' = "busy" /\ llm' = [llm EXCEPT ![j] = "metadata"] /\ UNCHANGED uses
    BY <1>2, <2>2 DEF EnterGate, GateFree, LlamaStage, OneHoldsGate, EvictsTheSlot, UsesItsServer,
        OneServerRuns, ServedByItsOwn
  <2> QED
    BY <1>2, <2>1, <2>2 DEF EnterGate
<1>3. CASE ReuseWorker(j)
  <2>1. slot \in Server
    BY <1>3 DEF ReuseWorker
  <2>2. LlamaTypeOK'
    BY <1>3, <2>1 DEF ReuseWorker, LlamaStage
  <2>3. \A i \in Job \ {j} : llm'[i] = llm[i] /\ llm[i] \in {"out", "gate"}
    BY <1>3 DEF ReuseWorker, OneHoldsGate
  <2>4. OneHoldsGate' /\ EvictsTheSlot' /\ UsesItsServer' /\ OneServerRuns'
    BY <1>3, <2>1, <2>3 DEF ReuseWorker, OneHoldsGate, EvictsTheSlot, UsesItsServer, OneServerRuns
  <2>5. ServedByItsOwn'
    BY <1>3, <2>1, <2>3 DEF ReuseWorker, CanReuse, ServedByItsOwn
  <2> QED
    BY <2>2, <2>4, <2>5
<1>4. CASE EvictWorker(j)
  <2>1. slot \in Server
    BY <1>4 DEF EvictWorker
  <2>2. LlamaTypeOK'
    BY <1>4, <2>1 DEF EvictWorker, Terminate, LlamaStage
  <2>3. \A i \in Job \ {j} : llm'[i] = llm[i] /\ llm[i] \in {"out", "gate"}
    BY <1>4 DEF EvictWorker, OneHoldsGate
  <2>4. OneHoldsGate' /\ EvictsTheSlot' /\ UsesItsServer' /\ OneServerRuns' /\ ServedByItsOwn'
    BY <1>4, <2>1, <2>3 DEF EvictWorker, Terminate, OneHoldsGate, EvictsTheSlot, UsesItsServer,
        OneServerRuns, ServedByItsOwn
  <2> QED
    BY <2>2, <2>4
<1>5. CASE StartFirstWorker(j)
  BY <1>5, SpawnKeeps, LlamaAssumption DEF StartFirstWorker, OneServerRuns
<1>6. CASE Evicted(j)
  BY <1>6, SpawnKeeps DEF Evicted, OneServerRuns
<1>7. CASE EvictionTimesOut(j)
  BY <1>7, LeavingKeeps DEF EvictionTimesOut
<1>8. CASE WorkerReady(j)
  <2>1. uses[j] = slot /\ slot \in Server
    BY <1>8 DEF WorkerReady, ServedByItsOwn, UsesItsServer
  <2>2. LlamaTypeOK'
    <3>1. server' = [server EXCEPT ![slot] = [server[slot] EXCEPT !.idle = FALSE]]
      BY <1>8, <2>1 DEF WorkerReady
    <3>2. server \in [Server -> ServerProcess] /\ server[slot] \in ServerProcess
      BY <2>1 DEF ServerProcess
    <3>3. server' \in [Server -> ServerProcess]
      <4> HIDE DEF LlamaInv, LlamaTypeOK
      <4>1. PICK r \in ServerProcess : server' = [server EXCEPT ![slot] = r]
        BY <3>1, <3>2, ProcessUpdates
      <4> QED
        BY <2>1, <3>2, <4>1
    <3>4. llm' \in [Job -> LlamaStage]
      BY <1>8 DEF WorkerReady, LlamaStage
    <3> QED
      BY <1>8, <3>3, <3>4 DEF WorkerReady, ServerProcess
  <2>3. OneHoldsGate' /\ EvictsTheSlot' /\ UsesItsServer' /\ OneServerRuns'
    BY <1>8, <2>1 DEF WorkerReady, OneHoldsGate, EvictsTheSlot, UsesItsServer, OneServerRuns
  <2>4. ServedByItsOwn'
    BY <1>8, <2>1 DEF WorkerReady, ServedByItsOwn
  <2> QED
    BY <2>2, <2>3, <2>4
<1>9. CASE StartFails(j)
  BY <1>9, LeavingKeeps DEF StartFails, MayDisable, WorkerKey
<1>10. CASE LlamaAnswers(j)
  BY <1>10, LeavingKeeps DEF LlamaAnswers
<1>11. CASE LlamaFails(j)
  BY <1>11, LeavingKeeps DEF LlamaFails, MayDisable, WorkerKey
<1>12. CASE LlamaDrop(j)
  BY <1>12, LeavingKeeps DEF LlamaDrop
<1> QED
  BY <1>1, <1>2, <1>3, <1>4, <1>5, <1>6, <1>7, <1>8, <1>9, <1>10, <1>11, <1>12 DEF LlamaStep

LEMMA LlamaKeeps == LlamaInv /\ [LlamaNext]_llamaVars => LlamaInv'
<1> SUFFICES ASSUME LlamaInv, [LlamaNext]_llamaVars PROVE LlamaInv'
  OBVIOUS
<1> USE DEF LlamaInv, LlamaTypeOK, HoldsGate
<1>1. CASE UNCHANGED llamaVars
  BY <1>1 DEF llamaVars, OneHoldsGate, EvictsTheSlot, UsesItsServer, OneServerRuns, ServedByItsOwn
<1>2. CASE MetadataRead
  <2>1. PICK accepted \in BOOLEAN :
          llm' = [j \in Job |-> IF llm[j] # "metadata" THEN llm[j]
                                ELSE IF accepted THEN "ensure" ELSE "out"]
    BY <1>2 DEF MetadataRead
  <2>2. LlamaTypeOK'
    BY <1>2, <2>1 DEF MetadataRead, LlamaStage
  <2>3. \A j \in Job : /\ HoldsGate(j)' => HoldsGate(j)
                       /\ llm'[j] \in {"evict", "start", "ask"} => llm'[j] = llm[j]
    BY <2>1
  <2> QED
    BY <1>2, <2>2, <2>3 DEF MetadataRead, OneHoldsGate, EvictsTheSlot, UsesItsServer,
        OneServerRuns, ServedByItsOwn
<1>3. ASSUME NEW s \in Server, ServerExits(s) \/ ServerIdles(s) PROVE LlamaInv'
  <2>1. LlamaTypeOK'
    <3>1. server \in [Server -> ServerProcess]
      BY DEF ServerProcess
    <3>2. server' \in [Server -> ServerProcess]
      <4>1. \/ server' = [server EXCEPT ![s] = [server[s] EXCEPT !.up = FALSE]]
            \/ server' = [server EXCEPT ![s] = [server[s] EXCEPT !.idle = TRUE]]
        BY <1>3 DEF ServerExits, ServerIdles
      <4>2. server[s] \in ServerProcess
        BY <3>1
      <4> HIDE DEF LlamaInv, LlamaTypeOK
      <4>3. PICK r \in ServerProcess : server' = [server EXCEPT ![s] = r]
        BY <4>1, <4>2, ProcessUpdates
      <4> QED
        BY <3>1, <4>3
    <3> QED
      BY <1>3, <3>2 DEF ServerExits, ServerIdles, ServerProcess
  <2>2. \A t \in Server : /\ server'[t].up => server[t].up
                          /\ server'[t].key = server[t].key
                          /\ server'[t].active = server[t].active
                          /\ server'[t].killed = server[t].killed
    BY <1>3 DEF ServerExits, ServerIdles
  <2> QED
    BY <1>3, <2>1, <2>2 DEF ServerExits, ServerIdles, OneHoldsGate, EvictsTheSlot, UsesItsServer,
        OneServerRuns, ServedByItsOwn
<1>4. CASE LlamaMaintenance
  <2>1. slot \in Server
    BY <1>4 DEF LlamaMaintenance
  <2>2. LlamaTypeOK'
    <3>1. server \in [Server -> ServerProcess]
      BY DEF ServerProcess
    <3>2. server' \in [Server -> ServerProcess]
      <4>1. \/ server' = [server EXCEPT ![slot] = [server[slot] EXCEPT !.killed = TRUE]]
            \/ server' = server
        BY <1>4 DEF LlamaMaintenance, Terminate
      <4>2. server[slot] \in ServerProcess
        BY <2>1, <3>1
      <4> HIDE DEF LlamaInv, LlamaTypeOK
      <4>3. \/ \E r \in ServerProcess : server' = [server EXCEPT ![slot] = r]
            \/ server' = server
        BY <4>1, <4>2, ProcessUpdates
      <4> QED
        BY <3>1, <4>3
    <3> QED
      BY <1>4, <2>1, <3>2 DEF LlamaMaintenance, ServerProcess
  <2> QED
    BY <1>4, <2>1, <2>2 DEF LlamaMaintenance, Terminate, OneHoldsGate, EvictsTheSlot,
        UsesItsServer, OneServerRuns, ServedByItsOwn
<1>5. CASE LlamaReconfigure
  BY <1>5 DEF LlamaReconfigure, OneHoldsGate, EvictsTheSlot, UsesItsServer, OneServerRuns,
      ServedByItsOwn
<1>6. CASE LlamaShutdown
  <2>1. slot \in Server
    BY <1>6 DEF LlamaShutdown
  <2>2. LlamaTypeOK'
    <3>1. server \in [Server -> ServerProcess]
      BY DEF ServerProcess
    <3>2. server' \in [Server -> ServerProcess]
      <4>1. \/ server' = [server EXCEPT ![slot] = [server[slot] EXCEPT !.killed = TRUE]]
            \/ server' = server
        BY <1>6 DEF LlamaShutdown, Terminate
      <4>2. server[slot] \in ServerProcess
        BY <2>1, <3>1
      <4> HIDE DEF LlamaInv, LlamaTypeOK
      <4>3. \/ \E r \in ServerProcess : server' = [server EXCEPT ![slot] = r]
            \/ server' = server
        BY <4>1, <4>2, ProcessUpdates
      <4> QED
        BY <3>1, <4>3
    <3> QED
      BY <1>6, <2>1, <3>2 DEF LlamaShutdown, ServerProcess
  <2>3. OneServerRuns'
    BY <1>6, <2>1 DEF LlamaShutdown, Terminate, OneServerRuns
  <2> QED
    BY <1>6, <2>2, <2>3 DEF LlamaShutdown, OneHoldsGate, EvictsTheSlot, UsesItsServer,
        ServedByItsOwn
<1> QED
  BY <1>1, <1>2, <1>3, <1>4, <1>5, <1>6, LlamaJobKeeps DEF LlamaNext, LlamaEnvironment

-----------------------------------------------------------------------------
(***************************************************************************)
(* The speech adapter.  One job at a time is inside, and what it has of    *)
(* the children excludes the others.                                       *)
(***************************************************************************)

LEMMA SomeConfig == AnyConfig \in Config
<1>1. \E c \in Config : TRUE
  BY ModelJobsAssumption
<1> QED
  BY <1>1, Zenon DEF AnyConfig

\* The lock of the adapter.
OneInside == \A i, j \in Job : asr[i] # "out" /\ asr[j] # "out" => i = j

\* The job inside has a child, and the others have none.
InsideHolds == \A j \in Job : asr[j] = "out" <=> holds[j] = NoChild

\* A new child is asked for only when nothing is kept or retired any more.
NothingElseLives ==
    \A j \in Job : asr[j] \in {"replace", "converse", "kill"} => keptChild = NoChild /\ retired = {}

\* A child has one owner, and the one that is kept owes nothing.
KeptIsClean ==
    keptChild # NoChild =>
        /\ keptChild \notin retired /\ \A j \in Job : holds[j] # keptChild
        /\ owed[keptChild] = << >>

AsrInv ==
    /\ AsrTypeOK /\ OneInside /\ InsideHolds /\ NothingElseLives /\ KeptIsClean
    /\ OneOwnedChild /\ RepliesAreFresh

LEMMA AsrStarts == AsrInit => AsrInv
<1> SUFFICES ASSUME AsrInit PROVE AsrInv
  OBVIOUS
<1>1. << >> \in Seq(Reply)
  OBVIOUS
<1>2. AsrTypeOK
  BY <1>1, SomeConfig DEF AsrInit, AsrTypeOK, AsrStage
<1>3. OneInside /\ InsideHolds /\ NothingElseLives /\ KeptIsClean /\ OneOwnedChild /\ RepliesAreFresh
  BY DEF AsrInit, OneInside, InsideHolds, NothingElseLives, KeptIsClean, OneOwnedChild,
      RepliesAreFresh
<1> QED
  BY <1>2, <1>3 DEF AsrInv

LEMMA StaleReplies ==
  ASSUME NEW replies \in Seq(Reply) PROVE Stale(replies) \in Seq(Reply)
BY DEF Stale, Reply

\* A child is started when none of them runs.
LEMMA StartKeeps ==
  ASSUME AsrInv, NEW j \in Job, NEW config \in Config, StartChild(j, config),
         \A i \in Job \ {j} : asr[i] = "out", \A c \in Child : ~child[c].up,
         retired = {}, UNCHANGED retired, keptChild' = NoChild, asrWant' \in [Job -> Config],
         UNCHANGED stopping
  PROVE  AsrInv'
<1> USE AsrAssumption DEF AsrInv, AsrTypeOK, InsideHolds
<1>1. CASE AsrLeave(j) /\ UNCHANGED <<child, owed>>
  <2>1. AsrTypeOK'
    BY <1>1 DEF AsrLeave, AsrStage
  <2>2. \A i \in Job : asr'[i] = "out" /\ holds'[i] = NoChild
    BY <1>1 DEF AsrLeave
  <2> QED
    BY <1>1, <2>1, <2>2 DEF OneInside, NothingElseLives, KeptIsClean, OneOwnedChild,
        RepliesAreFresh
<1>2. ASSUME NEW c \in Child, Take(j, c, "converse"), owed' = [owed EXCEPT ![c] = <<"current">>],
             child' = [child EXCEPT ![c] = [up |-> TRUE, idle |-> FALSE, config |-> config]]
      PROVE  AsrInv'
  <2>1. <<"current">> \in Seq(Reply)
    BY DEF Reply
  <2>2. AsrTypeOK'
    BY <1>2, <2>1 DEF Take, AsrStage
  <2>3. OneInside' /\ InsideHolds' /\ NothingElseLives' /\ KeptIsClean' /\ RepliesAreFresh'
    BY <1>2 DEF Take, OneInside, NothingElseLives, KeptIsClean, RepliesAreFresh
  <2>4. \A d \in Child : child'[d].up => d = c
    BY <1>2
  <2>5. holds'[j] = c
    BY <1>2 DEF Take
  <2>6. OneOwnedChild'
    BY <2>4, <2>5 DEF OneOwnedChild, Owned
  <2> QED
    BY <2>2, <2>3, <2>6
<1> QED
  BY <1>1, <1>2 DEF StartChild

\* A job that is inside gives its child up, and no other child is touched.
LEMMA RetiringKeeps ==
  ASSUME AsrInv, NEW j \in Job, asr[j] # "out", Retire(j),
         UNCHANGED <<asrWant, keptChild, child, stopping>>
  PROVE  AsrInv'
<1> USE AsrAssumption DEF AsrInv, AsrTypeOK, InsideHolds, Retire, AsrLeave
<1>1. holds[j] \in Child
  OBVIOUS
<1>2. AsrTypeOK'
  BY <1>1, StaleReplies DEF AsrStage
<1>3. \A i \in Job : asr'[i] = "out"
  BY DEF OneInside
<1>4. OneInside' /\ InsideHolds' /\ NothingElseLives' /\ RepliesAreFresh'
  BY <1>3 DEF OneInside, NothingElseLives, RepliesAreFresh
<1>5. KeptIsClean'
  BY <1>1 DEF KeptIsClean
<1>6. Owned \ {NoChild} \subseteq Owned'
  BY <1>1 DEF Owned
<1>7. OneOwnedChild'
  BY <1>6 DEF OneOwnedChild
<1> QED
  BY <1>2, <1>4, <1>5, <1>7

LEMMA ReapOrTakeKeeps ==
  ASSUME AsrInv, NEW j \in Job, NEW config \in Config, ReapOrTake(j, config),
         \A i \in Job \ {j} : asr[i] = "out",
         holds[j] = NoChild \/ ~child[holds[j]].up, asr[j] \in {"out", "reap"},
         asrWant' \in [Job -> Config], UNCHANGED stopping
  PROVE  AsrInv'
<1> USE AsrAssumption DEF AsrInv, AsrTypeOK, InsideHolds
<1>1. ASSUME NEW c \in retired, retired' = retired \ {c}, Take(j, c, "reap"),
             UNCHANGED <<keptChild, child, owed>>
      PROVE  AsrInv'
  <2>1. c \in Child
    OBVIOUS
  <2>2. AsrTypeOK'
    BY <1>1, <2>1 DEF Take, AsrStage
  <2>3. OneInside' /\ InsideHolds' /\ NothingElseLives' /\ RepliesAreFresh' /\ KeptIsClean'
    BY <1>1, <2>1 DEF Take, OneInside, NothingElseLives, RepliesAreFresh, KeptIsClean
  <2>4. \A d \in Child : child[d].up /\ d \in Owned => d \in Owned'
    <3> SUFFICES ASSUME NEW d \in Child, child[d].up, d \in Owned, d # c PROVE d \in Owned'
      BY <1>1, <2>1 DEF Take, Owned
    <3>1. CASE d \in retired \/ d = keptChild
      BY <1>1, <3>1 DEF Owned
    <3>2. ASSUME NEW i \in Job, holds[i] = d PROVE FALSE
      BY <3>2
    <3> QED
      BY <3>1, <3>2 DEF Owned
  <2>5. OneOwnedChild'
    BY <1>1, <2>4 DEF OneOwnedChild
  <2> QED
    BY <2>2, <2>3, <2>5
<1>2. ASSUME retired = {}, UNCHANGED retired, TakeChild(j, config) PROVE AsrInv'
  <2>1. \A d \in Child : child[d].up => d = keptChild
    <3> SUFFICES ASSUME NEW d \in Child, child[d].up, d # keptChild PROVE FALSE
      OBVIOUS
    <3>1. PICK i \in Job : holds[i] = d
      BY <1>2 DEF OneOwnedChild, Owned
    <3> QED
      BY <3>1
  <2>2. CASE keptChild = NoChild /\ StartChild(j, config)
    BY <1>2, <2>1, <2>2, StartKeeps DEF TakeChild
  <2>3. CASE /\ Reusable(keptChild, config)
             /\ owed' = [owed EXCEPT ![keptChild] = Append(@, "current")]
             /\ Take(j, keptChild, "converse")
             /\ UNCHANGED child
    <3>1. keptChild \in Child /\ owed[keptChild] = << >> /\ Append(<< >>, "current") = <<"current">>
      BY <2>3 DEF Reusable, KeptIsClean
    <3>2. owed' = [owed EXCEPT ![keptChild] = <<"current">>] /\ <<"current">> \in Seq(Reply)
      BY <2>3, <3>1 DEF Reply
    <3>3. AsrTypeOK'
      BY <1>2, <2>3, <3>1, <3>2 DEF TakeChild, Take, AsrStage
    <3>4. OneInside' /\ InsideHolds' /\ NothingElseLives' /\ RepliesAreFresh' /\ KeptIsClean'
      BY <1>2, <2>3, <3>1, <3>2 DEF TakeChild, Take, OneInside, NothingElseLives, RepliesAreFresh,
          KeptIsClean
    <3>5. OneOwnedChild'
      BY <2>1, <2>3, <3>1 DEF Take, OneOwnedChild, Owned
    <3> QED
      BY <3>3, <3>4, <3>5
  <2>4. CASE /\ keptChild # NoChild /\ Take(j, keptChild, "replace")
             /\ UNCHANGED <<child, owed>>
    <3>1. keptChild \in Child
      BY <2>4
    <3>3. AsrTypeOK'
      BY <1>2, <2>4, <3>1 DEF TakeChild, Take, AsrStage
    <3>4. OneInside' /\ InsideHolds' /\ NothingElseLives' /\ RepliesAreFresh' /\ KeptIsClean'
      BY <1>2, <2>4, <3>1 DEF TakeChild, Take, OneInside, NothingElseLives, RepliesAreFresh,
          KeptIsClean
    <3>5. OneOwnedChild'
      BY <2>1, <2>4, <3>1 DEF Take, OneOwnedChild, Owned
    <3> QED
      BY <3>3, <3>4, <3>5
  <2> QED
    BY <1>2, <2>2, <2>3, <2>4 DEF TakeChild
<1> QED
  BY <1>1, <1>2 DEF ReapOrTake

\* Past the reaping, the child of the job inside is the only one that may run.
LEMMA OnlyItsChildRuns ==
  ASSUME AsrInv, NEW j \in Job, asr[j] \in {"replace", "converse", "kill"}, NEW c \in Child,
         child[c].up
  PROVE  c = holds[j]
<1>1. c \in Owned /\ keptChild = NoChild /\ retired = {}
  BY DEF AsrInv, OneOwnedChild, NothingElseLives
<1>2. PICK i \in Job : holds[i] = c
  BY <1>1, AsrAssumption DEF Owned
<1>3. asr[i] # "out"
  BY <1>2, AsrAssumption DEF AsrInv, InsideHolds
<1> QED
  BY <1>2, <1>3 DEF AsrInv, OneInside

LEMMA AsrJobKeeps ==
  ASSUME AsrInv, NEW j \in Job, AsrStep(j) \/ AsrDrop(j) \/ \E config \in Config : Transcribe(j, config)
  PROVE  AsrInv'
<1> USE AsrAssumption DEF AsrInv, AsrTypeOK, InsideHolds
<1>1. ASSUME NEW config \in Config, Transcribe(j, config) PROVE AsrInv'
  BY <1>1, ReapOrTakeKeeps DEF Transcribe, WorkerLocked
<1>2. CASE Reaped(j)
  BY <1>2, ReapOrTakeKeeps DEF Reaped, OneInside
<1>3. CASE Replaced(j)
  <2>1. \A i \in Job \ {j} : asr[i] = "out"
    BY <1>3 DEF Replaced, OneInside
  <2>2. \A d \in Child : ~child[d].up
    BY <1>3, OnlyItsChildRuns DEF Replaced
  <2> QED
    BY <1>3, <2>1, <2>2, StartKeeps DEF Replaced, NothingElseLives
<1>4. CASE ExitUnconfirmed(j)
  BY <1>4, RetiringKeeps DEF ExitUnconfirmed
<1>5. CASE AsrDrop(j)
  BY <1>5, RetiringKeeps DEF AsrDrop
<1>6. CASE AsrAnswers(j)
  <2>1. /\ holds[j] \in Child /\ owed[holds[j]] = <<"current">> /\ Tail(<<"current">>) = << >>
        /\ retired = {} /\ keptChild = NoChild
    BY <1>6 DEF AsrAnswers, RepliesAreFresh, NothingElseLives
  <2>2. owed' = [owed EXCEPT ![holds[j]] = << >>] /\ << >> \in Seq(Reply)
    BY <1>6, <2>1 DEF AsrAnswers
  <2>3. AsrTypeOK'
    <3>1. child' \in [Child -> [up: BOOLEAN, idle: BOOLEAN, config: Config]]
      BY <1>6, <2>1 DEF AsrAnswers
    <3>2. owed' \in [Child -> Seq(Reply)]
      BY <2>1, <2>2
    <3> QED
      BY <1>6, <2>1, <3>1, <3>2 DEF AsrAnswers, AsrLeave, AsrStage
  <2>4. \A i \in Job : asr'[i] = "out" /\ holds'[i] = NoChild
    BY <1>6 DEF AsrAnswers, AsrLeave, OneInside
  <2>5. OneInside' /\ InsideHolds' /\ NothingElseLives' /\ RepliesAreFresh' /\ KeptIsClean'
    BY <1>6, <2>1, <2>2, <2>4 DEF AsrAnswers, OneInside, NothingElseLives, RepliesAreFresh,
        KeptIsClean
  <2>6. \A c \in Child : child'[c].up <=> child[c].up
    BY <1>6, <2>1 DEF AsrAnswers
  <2>7. \A c \in Child : child[c].up => c = holds[j]
    BY <1>6, OnlyItsChildRuns DEF AsrAnswers
  <2>8. keptChild' = holds[j] /\ holds[j] \in Owned'
    BY <1>6 DEF AsrAnswers, Owned
  <2>9. OneOwnedChild'
    BY <2>6, <2>7, <2>8 DEF OneOwnedChild
  <2> QED
    BY <2>3, <2>5, <2>9
<1>7. CASE AsrFails(j)
  <2>1. holds[j] \in Child
    BY <1>7 DEF AsrFails
  <2>2. AsrTypeOK'
    BY <1>7, <2>1, StaleReplies DEF AsrFails, AsrStage
  <2> QED
    BY <1>7, <2>1, <2>2 DEF AsrFails, OneInside, NothingElseLives, RepliesAreFresh, KeptIsClean,
        OneOwnedChild, Owned
<1>8. CASE KillConfirmed(j)
  <2>1. AsrTypeOK'
    BY <1>8 DEF KillConfirmed, AsrLeave, AsrStage
  <2>2. \A i \in Job : asr'[i] = "out" /\ holds'[i] = NoChild
    BY <1>8 DEF KillConfirmed, AsrLeave, OneInside
  <2>3. \A c \in Child : ~child[c].up
    BY <1>8, OnlyItsChildRuns DEF KillConfirmed
  <2> QED
    BY <1>8, <2>1, <2>2, <2>3 DEF KillConfirmed, OneInside, NothingElseLives, RepliesAreFresh,
        KeptIsClean, OneOwnedChild
<1> QED
  BY <1>1, <1>2, <1>3, <1>4, <1>5, <1>6, <1>7, <1>8 DEF AsrStep

LEMMA AsrKeeps == AsrInv /\ [AsrNext]_asrVars => AsrInv'
<1> SUFFICES ASSUME AsrInv, [AsrNext]_asrVars PROVE AsrInv'
  OBVIOUS
<1> USE AsrAssumption DEF AsrInv, AsrTypeOK, InsideHolds
<1>1. CASE UNCHANGED asrVars
  BY <1>1 DEF asrVars, OneInside, NothingElseLives, KeptIsClean, OneOwnedChild, Owned,
      RepliesAreFresh
<1>2. ASSUME NEW c \in Child, ChildExits(c) PROVE AsrInv'
  <2>1. AsrTypeOK'
    BY <1>2 DEF ChildExits
  <2>2. \A d \in Child : child'[d].up => child[d].up
    BY <1>2 DEF ChildExits
  <2> QED
    BY <1>2, <2>1, <2>2 DEF ChildExits, OneInside, NothingElseLives, KeptIsClean, OneOwnedChild,
        Owned, RepliesAreFresh
<1>3. CASE ChildIdles
  <2>1. keptChild \in Child
    BY <1>3 DEF ChildIdles
  <2>2. child' = [child EXCEPT ![keptChild] = [child[keptChild] EXCEPT !.idle = TRUE]]
    BY <1>3, <2>1 DEF ChildIdles
  <2>3. [child[keptChild] EXCEPT !.idle = TRUE] \in [up: BOOLEAN, idle: BOOLEAN, config: Config]
    <3>1. child[keptChild] \in [up: BOOLEAN, idle: BOOLEAN, config: Config]
      BY <2>1
    <3> HIDE DEF AsrInv, AsrTypeOK
    <3> QED
      BY <3>1
  <2>4. AsrTypeOK'
    BY <1>3, <2>1, <2>2, <2>3 DEF ChildIdles
  <2>5. \A d \in Child : child'[d].up => child[d].up
    BY <2>1, <2>2
  <2> QED
    BY <1>3, <2>4, <2>5 DEF ChildIdles, OneInside, NothingElseLives, KeptIsClean, OneOwnedChild,
        Owned, RepliesAreFresh
<1>4. CASE UnloadIfIdle
  <2> DEFINE waiting == {c \in retired : child[c].up}
  <2>1. UNCHANGED <<asr, asrWant, holds, child, owed, stopping>>
    BY <1>4 DEF UnloadIfIdle
  <2>2. \/ retired' = waiting /\ keptChild' = keptChild
        \/ /\ retired' = waiting \cup {keptChild} /\ keptChild' = NoChild
           /\ ~WorkerLocked /\ keptChild \in Child
    BY <1>4 DEF UnloadIfIdle
  <2>3. AsrTypeOK'
    BY <2>1, <2>2
  <2>4. OneInside' /\ InsideHolds' /\ NothingElseLives' /\ KeptIsClean' /\ RepliesAreFresh'
    BY <2>1, <2>2 DEF OneInside, NothingElseLives, KeptIsClean, RepliesAreFresh, WorkerLocked
  <2>5. \A c \in Child : child[c].up /\ c \in Owned => c \in Owned'
    BY <2>1, <2>2 DEF Owned
  <2>6. OneOwnedChild'
    BY <2>1, <2>5 DEF OneOwnedChild
  <2> QED
    BY <2>3, <2>4, <2>6
<1>5. CASE AsrShutdown
  <2>1. AsrTypeOK'
    BY <1>5 DEF AsrShutdown
  <2>2. OneInside' /\ InsideHolds' /\ NothingElseLives' /\ KeptIsClean' /\ RepliesAreFresh'
    BY <1>5 DEF AsrShutdown, OneInside, NothingElseLives, KeptIsClean, RepliesAreFresh, WorkerLocked
  <2>3. \A c \in Child : c \in Owned => c \in Owned'
    BY <1>5 DEF AsrShutdown, Owned
  <2>4. OneOwnedChild'
    BY <1>5, <2>3 DEF AsrShutdown, OneOwnedChild
  <2> QED
    BY <2>1, <2>2, <2>4
<1>6. ASSUME NEW c \in Child, ReapAtShutdown(c) PROVE AsrInv'
  <2>1. AsrTypeOK'
    BY <1>6 DEF ReapAtShutdown
  <2>2. OneInside' /\ InsideHolds' /\ NothingElseLives' /\ KeptIsClean' /\ RepliesAreFresh'
    BY <1>6 DEF ReapAtShutdown, OneInside, NothingElseLives, KeptIsClean, RepliesAreFresh
  <2>3. \A d \in Child : child[d].up /\ d \in Owned => d \in Owned'
    BY <1>6 DEF ReapAtShutdown, Owned
  <2>4. OneOwnedChild'
    BY <1>6, <2>3 DEF ReapAtShutdown, OneOwnedChild
  <2> QED
    BY <2>1, <2>2, <2>4
<1> QED
  BY <1>1, <1>2, <1>3, <1>4, <1>5, <1>6, AsrJobKeeps DEF AsrNext, AsrEnvironment

-----------------------------------------------------------------------------
(***************************************************************************)
(* The scheduler moves the adapters by their own steps only.               *)
(***************************************************************************)

LEMMA AdaptersStep == [SchedulerNext]_schedulerVars => [LlamaNext]_llamaVars /\ [AsrNext]_asrVars
<1> SUFFICES ASSUME [SchedulerNext]_schedulerVars PROVE [LlamaNext]_llamaVars /\ [AsrNext]_asrVars
  OBVIOUS
<1>1. ASSUME NEW j \in Job, JobStep(j) PROVE [LlamaNext]_llamaVars /\ [AsrNext]_asrVars
  <2>1. CASE \E c \in Config, left \in 1..Budget : StartRemotePlan(j, c, left)
    BY <2>1 DEF StartRemotePlan
  <2>2. CASE \E c \in Config : StartSpeech(j, c)
    BY <2>2 DEF StartSpeech, AsrNext
  <2>3. CASE \E k \in WorkerKey : StartLocal(j, k)
    BY <2>3 DEF StartLocal, LlamaNext, ownVars
  <2>4. CASE RemotePlanStep(j) \/ TranscribeEnds(j)
    BY <2>4 DEF RemotePlanStep, TranscribeEnds
  <2>5. CASE SpeechStep(j)
    BY <2>5 DEF SpeechStep, AsrNext, AsrStep
  <2>6. CASE LocalStep(j)
    BY <2>6 DEF LocalStep, LlamaNext, ownVars
  <2>7. CASE DropJob(j)
    BY <2>7 DEF DropJob, LlamaNext, AsrNext, ownVars
  <2> QED
    BY <1>1, <2>1, <2>2, <2>3, <2>4, <2>5, <2>6, <2>7 DEF JobStep
<1>2. CASE Configure
  BY <1>2 DEF Configure, ConfigureScheduler, ConfigureRemote, ConfigureModels, LlamaNext
<1>3. CASE Health \/ ProbeEnds \/ AttemptAges \/ Tick \/ ConnectionEnds
  BY <1>3 DEF Health, ProbeEnds, AttemptAges, Tick, ConnectionEnds
<1>4. CASE Maintenance \/ Processes \/ Shutdown
  BY <1>4 DEF Maintenance, Processes, Shutdown, LlamaNext, AsrNext, LlamaEnvironment, AsrEnvironment
<1>5. CASE UNCHANGED schedulerVars
  BY <1>5 DEF schedulerVars
<1> QED
  BY <1>1, <1>2, <1>3, <1>4, <1>5 DEF SchedulerNext

LEMMA AdaptersHold == SchedulerSpec => [](LlamaInv /\ AsrInv)
<1>1. SchedulerInit => LlamaInv /\ AsrInv
  BY LlamaStarts, AsrStarts DEF SchedulerInit
<1>2. LlamaInv /\ AsrInv /\ [SchedulerNext]_schedulerVars => LlamaInv' /\ AsrInv'
  BY AdaptersStep, LlamaKeeps, AsrKeeps
<1> QED
  BY <1>1, <1>2, PTL DEF SchedulerSpec

\* Whatever requests, configurations and ends of connections the daemon goes through, it
\* runs one llama server, which serves the configuration it was started for, and one
\* child of the speech recognition; and no process is lost (ensure_worker,
\* ActiveRequest::drop, reap_cancelled).
THEOREM ProcessesStayOwned == SchedulerSpec => []ProcessesAreOwned
<1>1. LlamaInv /\ AsrInv => ProcessesAreOwned
  BY DEF LlamaInv, AsrInv, ProcessesAreOwned
<1> QED
  BY <1>1, AdaptersHold, PTL

\* A transcription never reads the reply to a recording that was given up
\* (transcribe_wav, ActiveAsr::drop).
THEOREM RepliesStayFresh == SchedulerSpec => []RepliesAreFresh
<1>1. AsrInv => RepliesAreFresh
  BY DEF AsrInv
<1> QED
  BY <1>1, AdaptersHold, PTL

\* The scheduler uses its adapters as they are specified alone: what holds of a step of
\* LlamaWorker or AsrWorker holds of the daemon (scheduler.rs).
THEOREM AdaptersAreImplemented == SchedulerSpec => LlamaSpec /\ AsrSpec
<1>1. SchedulerInit => LlamaInit /\ AsrInit
  BY DEF SchedulerInit
<1> QED
  BY <1>1, AdaptersStep, PTL DEF SchedulerSpec, LlamaSpec, AsrSpec

-----------------------------------------------------------------------------
(***************************************************************************)
(* The scheduler's own state.                                              *)
(***************************************************************************)

PlanRecord == [stage: PlanStage, config: Config \cup {NoConfig}, left: 0..Budget,
               share: 0..Budget, pause: 0..Budget, retried: BOOLEAN, budget: 0..Budget]

OwnTypes ==
    /\ capability \in [Job -> Capability]
    /\ plan \in [Job -> PlanRecord]
    /\ remote \in Config \cup {NoConfig} /\ models \in Config \cup {NoConfig}
    /\ received \subseteq Config
    /\ circuit \in [revision: Config \cup {NoConfig}, failures: 0..Threshold, open: 0..OpenFor]
    /\ cache \in [generation: Nat, attempt: {"none", "recent", "old"},
                  config: Config \cup {NoConfig}]
    /\ probe \in [running: BOOLEAN, generation: Nat, config: Config \cup {NoConfig}]
    /\ down \in BOOLEAN
    /\ blamed \in [Config -> 0..Threshold]

\* A request at the primary or the backup has a configuration.
Pinned == \A j \in Job : plan[j].stage \in {"primary", "pause", "backup"} => plan[j].config \in Config

\* What the primary does not get of the time is at least half of it, and a request is
\* retried at the primary only when there is no backup to keep it for.
HalfIsKept ==
    \A j \in Job :
        /\ plan[j].stage = "primary" /\ HasBackup(plan[j].config)
              => 2 * (plan[j].left - plan[j].share) >= plan[j].budget
        /\ plan[j].stage = "pause" => ~HasBackup(plan[j].config)

\* A probe of the present generation looks at the models in force; without a probe, what
\* is shown is theirs, or the next health request or maintenance starts one.
ProbesAreCurrent ==
    /\ probe.generation <= cache.generation
    /\ probe.running /\ probe.generation = cache.generation => probe.config = models
    /\ ~probe.running => cache.attempt = "none" \/ cache.config = models

OwnInv == OwnTypes /\ Pinned /\ HalfIsKept /\ ProbesAreCurrent /\ OnlyOwnFailures

USE DEF planVars, configVars, healthVars

LEMMA NoPlanIsARecord == NoPlan \in PlanRecord /\ NoProbe.generation = 0 /\ ~NoProbe.running
BY SchedulerAssumption DEF NoPlan, NoProbe, PlanRecord, PlanStage

\* Fields of a plan, set one after the other.
LEMMA SetFields ==
  ASSUME NEW p \in PlanRecord
  PROVE  /\ \A v \in PlanStage : [p EXCEPT !.stage = v] \in PlanRecord
         /\ \A v \in 0..Budget : [p EXCEPT !.left = v] \in PlanRecord
         /\ \A v \in 0..Budget : [p EXCEPT !.share = v] \in PlanRecord
         /\ \A v \in 0..Budget : [p EXCEPT !.pause = v] \in PlanRecord
         /\ \A v \in BOOLEAN : [p EXCEPT !.retried = v] \in PlanRecord
<1>1. \A v \in PlanStage : [p EXCEPT !.stage = v] \in PlanRecord
  BY DEF PlanRecord
<1>2. \A v \in 0..Budget : [p EXCEPT !.left = v] \in PlanRecord
  BY DEF PlanRecord
<1>3. \A v \in 0..Budget : [p EXCEPT !.share = v] \in PlanRecord
  BY DEF PlanRecord
<1>4. \A v \in 0..Budget : [p EXCEPT !.pause = v] \in PlanRecord
  BY DEF PlanRecord
<1>5. \A v \in BOOLEAN : [p EXCEPT !.retried = v] \in PlanRecord
  BY DEF PlanRecord
<1> QED
  BY <1>1, <1>2, <1>3, <1>4, <1>5

LEMMA OwnStarts == SchedulerInit => OwnInv
<1> SUFFICES ASSUME SchedulerInit PROVE OwnInv
  OBVIOUS
<1>1. OwnTypes
  <2>1. plan \in [Job -> PlanRecord] /\ capability \in [Job -> Capability]
    BY NoPlanIsARecord DEF SchedulerInit
  <2>2. circuit \in [revision: Config \cup {NoConfig}, failures: 0..Threshold, open: 0..OpenFor]
    BY SchedulerAssumption DEF SchedulerInit, Closed
  <2>3. /\ cache \in [generation: Nat, attempt: {"none", "recent", "old"},
                      config: Config \cup {NoConfig}]
        /\ probe \in [running: BOOLEAN, generation: Nat, config: Config \cup {NoConfig}]
    BY DEF SchedulerInit, NoProbe
  <2>4. /\ remote \in Config \cup {NoConfig} /\ models \in Config \cup {NoConfig}
        /\ received \subseteq Config /\ down \in BOOLEAN
    BY DEF SchedulerInit
  <2>5. blamed \in [Config -> 0..Threshold]
    BY SchedulerAssumption DEF SchedulerInit
  <2> QED
    BY <2>1, <2>2, <2>3, <2>4, <2>5 DEF OwnTypes
<1>2. Pinned /\ HalfIsKept /\ ProbesAreCurrent /\ OnlyOwnFailures
  BY SchedulerAssumption DEF SchedulerInit, Pinned, HalfIsKept, ProbesAreCurrent, OnlyOwnFailures,
      Closed, NoPlan, NoProbe
<1> QED
  BY <1>1, <1>2 DEF OwnInv

\* What a step does to the plan of one job, when the circuit stays as it is.
LEMMA OnePlanKeeps ==
  ASSUME OwnInv, NEW j \in Job, NEW p \in PlanRecord, plan' = [plan EXCEPT ![j] = p],
         UNCHANGED <<capability, configVars, circuit, blamed, healthVars, down>>,
         p.stage \in {"primary", "pause", "backup"} => p.config \in Config,
         p.stage = "primary" /\ HasBackup(p.config) => 2 * (p.left - p.share) >= p.budget,
         p.stage = "pause" => ~HasBackup(p.config)
  PROVE  OwnInv'
<1>1. OwnTypes'
  BY DEF OwnInv, OwnTypes
<1>2. Pinned' /\ HalfIsKept'
  BY DEF OwnInv, OwnTypes, Pinned, HalfIsKept, HasBackup
<1>3. ProbesAreCurrent' /\ OnlyOwnFailures'
  BY DEF OwnInv, ProbesAreCurrent, OnlyOwnFailures
<1> QED
  BY <1>1, <1>2, <1>3 DEF OwnInv

\* A job that ends has no plan.
LEMMA EndedPlanKeeps ==
  ASSUME OwnInv, NEW j \in Job, PlanEnds(j),
         UNCHANGED <<capability, configVars, circuit, blamed, healthVars, down>>
  PROVE  OwnInv'
BY NoPlanIsARecord, OnePlanKeeps DEF PlanEnds, NoPlan

LEMMA CountedTogether ==
  ASSUME NEW f \in 0..Threshold, NEW b \in 0..Threshold
  PROVE  /\ AtMost(f + 1, Threshold) \in 0..Threshold
         /\ f <= b => /\ AtMost(f + 1, Threshold) <= AtMost(b + 1, Threshold)
                      /\ AtMost(f + 1, Threshold) >= Threshold => AtMost(b + 1, Threshold) = Threshold
         /\ b = Threshold => AtMost(b + 1, Threshold) = Threshold
BY SchedulerAssumption DEF AtMost

LEMMA CircuitKeeps ==
  ASSUME OwnInv, NEW c \in Config,
         circuit' = CircuitAfterFailure(c),
         blamed' = [blamed EXCEPT ![c] = AtMost(@ + 1, Threshold)]
  PROVE  /\ circuit' \in [revision: Config \cup {NoConfig}, failures: 0..Threshold, open: 0..OpenFor]
         /\ blamed' \in [Config -> 0..Threshold]
         /\ OnlyOwnFailures'
<1> USE SchedulerAssumption DEF OwnInv, OwnTypes
<1>1. blamed' \in [Config -> 0..Threshold]
  BY CountedTogether
<1>2. CASE circuit.revision # c
  BY <1>1, <1>2 DEF CircuitAfterFailure, CircuitOf, OnlyOwnFailures
<1>3. CASE circuit.revision = c
  <2> DEFINE f == AtMost(circuit.failures + 1, Threshold)
             open == IF f >= Threshold THEN OpenFor ELSE circuit.open
  <2>1. circuit.failures \in 0..Threshold /\ circuit.open \in 0..OpenFor /\ blamed[c] \in 0..Threshold
    OBVIOUS
  <2>2. f \in 0..Threshold /\ open \in 0..OpenFor
    BY <2>1, CountedTogether
  <2>3. circuit' = [circuit EXCEPT !.failures = f, !.open = open]
    BY <1>3 DEF CircuitAfterFailure, CircuitOf, Charged
  <2> HIDE DEF f, open
  <2>4. circuit' = [revision |-> c, failures |-> f, open |-> open]
    BY <1>3, <2>3
  <2>5. circuit' \in [revision: Config \cup {NoConfig}, failures: 0..Threshold, open: 0..OpenFor]
    BY <2>2, <2>4
  <2>6. circuit.failures <= blamed[c] /\ (circuit.open > 0 => blamed[c] = Threshold)
    BY <1>3 DEF OnlyOwnFailures
  <2>7. blamed'[c] = AtMost(blamed[c] + 1, Threshold)
    OBVIOUS
  <2>8. f <= blamed'[c] /\ (open > 0 => blamed'[c] = Threshold)
    BY <2>1, <2>6, <2>7, CountedTogether DEF f, open
  <2> QED
    BY <1>1, <2>4, <2>5, <2>8 DEF OnlyOwnFailures
<1> QED
  BY <1>2, <1>3

LEMMA RemoteStepKeeps ==
  ASSUME OwnInv, NEW j \in Job, RemotePlanStep(j)
  PROVE  OwnInv'
<1> USE SchedulerAssumption
<1>0. UNCHANGED <<capability, configVars, healthVars, down>> /\ plan[j] \in PlanRecord
  BY DEF RemotePlanStep, OwnInv, OwnTypes
<1>1. CASE PrimaryRejects(j) \/ BackupEnds(j) \/ DeadlineExceeded(j)
  BY <1>0, <1>1, EndedPlanKeeps DEF PrimaryRejects, BackupEnds, DeadlineExceeded
<1>2. CASE PrimaryAnswers(j)
  <2>1. /\ circuit' \in [revision: Config \cup {NoConfig}, failures: 0..Threshold, open: 0..OpenFor]
        /\ UNCHANGED blamed /\ OnlyOwnFailures'
    BY <1>2 DEF PrimaryAnswers, CircuitOf, Closed, OwnInv, OwnTypes, OnlyOwnFailures
  <2>2. plan' = [plan EXCEPT ![j] = NoPlan]
    BY <1>2 DEF PrimaryAnswers, PlanEnds
  <2>3. OwnTypes'
    BY <1>0, <2>1, <2>2, NoPlanIsARecord DEF OwnInv, OwnTypes
  <2>4. Pinned' /\ HalfIsKept' /\ ProbesAreCurrent'
    BY <1>0, <2>2 DEF OwnInv, OwnTypes, Pinned, HalfIsKept, HasBackup, NoPlan, ProbesAreCurrent
  <2> QED
    BY <2>1, <2>3, <2>4 DEF OwnInv
<1>3. CASE \E delay \in 1..Budget : PrimaryRetries(j, delay)
  <2>1. PICK delay \in 1..Budget : PrimaryRetries(j, delay)
    BY <1>3
  <2> DEFINE p == [plan[j] EXCEPT !.stage = "pause", !.pause = delay, !.retried = TRUE]
  <2>2. p \in PlanRecord /\ p.stage = "pause" /\ p.config = plan[j].config
    <3> DEFINE p1 == [plan[j] EXCEPT !.stage = "pause"]
               p2 == [p1 EXCEPT !.pause = delay]
    <3>1. p1 \in PlanRecord /\ p1.stage = "pause" /\ p1.config = plan[j].config
      BY <1>0, SetFields DEF PlanStage, PlanRecord
    <3>2. p = [p2 EXCEPT !.retried = TRUE]
      OBVIOUS
    <3> HIDE DEF p1, p
    <3>3. p2 \in PlanRecord /\ p2.stage = "pause" /\ p2.config = plan[j].config
      BY <3>1, SetFields DEF PlanRecord
    <3> HIDE DEF p2
    <3> QED
      BY <3>2, <3>3, SetFields DEF PlanRecord
  <2>3. plan' = [plan EXCEPT ![j] = p] /\ UNCHANGED <<circuit, blamed>>
        /\ plan[j].stage = "primary" /\ ~HasBackup(plan[j].config)
    BY <2>1 DEF PrimaryRetries, OwnInv, OwnTypes
  <2>4. p.config \in Config
    BY <2>2, <2>3 DEF OwnInv, Pinned
  <2> QED
    BY <1>0, <2>2, <2>3, <2>4, OnePlanKeeps
<1>4. CASE RetryBegins(j)
  <2> DEFINE p == [plan[j] EXCEPT !.stage = "primary"]
  <2>1. p \in PlanRecord /\ p.stage = "primary" /\ p.config = plan[j].config
    BY <1>0 DEF PlanRecord, PlanStage
  <2>2. plan' = [plan EXCEPT ![j] = p] /\ UNCHANGED <<circuit, blamed>> /\ plan[j].stage = "pause"
    BY <1>4 DEF RetryBegins, SetStage, OwnInv, OwnTypes
  <2>3. p.config \in Config /\ ~HasBackup(p.config)
    BY <2>1, <2>2 DEF OwnInv, Pinned, HalfIsKept
  <2> QED
    BY <1>0, <2>1, <2>2, <2>3, OnePlanKeeps
<1>5. CASE PrimaryFails(j)
  <2>1. plan[j].config \in Config /\ plan[j].stage = "primary"
    BY <1>5 DEF PrimaryFails, OwnInv, Pinned
  <2>2. /\ circuit' \in [revision: Config \cup {NoConfig}, failures: 0..Threshold, open: 0..OpenFor]
        /\ blamed' \in [Config -> 0..Threshold]
        /\ OnlyOwnFailures'
    BY <1>5, <2>1, CircuitKeeps DEF PrimaryFails
  <2> DEFINE p == [plan[j] EXCEPT !.stage = "backup"]
  <2>3. p \in PlanRecord /\ p.stage = "backup" /\ p.config \in Config
    BY <1>0, <2>1 DEF PlanRecord, PlanStage
  <2>4. PICK q \in PlanRecord : /\ plan' = [plan EXCEPT ![j] = q] /\ q.stage \in {"out", "backup"}
                                /\ q.stage = "backup" => q.config \in Config
    <3>1. CASE SetStage(j, "backup")
      BY <2>3, <3>1 DEF SetStage, OwnInv, OwnTypes
    <3>2. CASE PlanEnds(j)
      BY <3>2, NoPlanIsARecord DEF PlanEnds, NoPlan
    <3> QED
      BY <1>5, <3>1, <3>2 DEF PrimaryFails
  <2>5. OwnTypes'
    BY <1>0, <2>2, <2>4 DEF OwnInv, OwnTypes
  <2>6. Pinned' /\ HalfIsKept' /\ ProbesAreCurrent'
    BY <1>0, <2>4 DEF OwnInv, OwnTypes, Pinned, HalfIsKept, HasBackup, ProbesAreCurrent
  <2> QED
    BY <2>2, <2>5, <2>6 DEF OwnInv
<1> QED
  BY <1>1, <1>2, <1>3, <1>4, <1>5 DEF RemotePlanStep

LEMMA FallBackKeeps ==
  ASSUME OwnInv, NEW j \in Job, FallBack(j) \/ UNCHANGED plan,
         UNCHANGED <<capability, configVars, circuit, blamed, healthVars, down>>
  PROVE  OwnInv'
<1>1. CASE UNCHANGED plan
  BY <1>1 DEF OwnInv, OwnTypes, Pinned, HalfIsKept, HasBackup, ProbesAreCurrent, OnlyOwnFailures
<1>2. ASSUME NEW left \in 1..Budget,
             plan' = [plan EXCEPT ![j] = [NoPlan EXCEPT !.stage = "transcribe", !.left = left]]
      PROVE  OwnInv'
  <2> DEFINE p == [NoPlan EXCEPT !.stage = "transcribe", !.left = left]
  <2> DEFINE q == [NoPlan EXCEPT !.stage = "transcribe"]
  <2>1. q \in PlanRecord /\ q.stage = "transcribe"
    BY NoPlanIsARecord, SetFields DEF PlanStage, NoPlan
  <2>2. p \in PlanRecord /\ p.stage = "transcribe"
    <3>1. p = [q EXCEPT !.left = left]
      OBVIOUS
    <3> HIDE DEF p, q
    <3> QED
      BY <2>1, <3>1, SetFields DEF PlanRecord
  <2>3. plan' = [plan EXCEPT ![j] = p]
    BY <1>2
  <2> HIDE DEF p
  <2> QED
    BY <2>2, <2>3, OnePlanKeeps
<1> QED
  BY <1>1, <1>2 DEF FallBack

LEMMA OwnJobKeeps ==
  ASSUME OwnInv, NEW j \in Job, JobStep(j)
  PROVE  OwnInv'
<1>1. ASSUME NEW c \in Config, NEW left \in 1..Budget, StartRemotePlan(j, c, left) PROVE OwnInv'
  <2>1. UNCHANGED <<capability, configVars, circuit, blamed, healthVars, down>>
    BY <1>1 DEF StartRemotePlan
  <2>2. CASE plan' = [plan EXCEPT ![j] = NoPlan]
    BY <2>1, <2>2, EndedPlanKeeps DEF PlanEnds
  <2>3. ASSUME NEW stage \in {"primary", "backup"},
               plan' = [plan EXCEPT ![j] = [stage |-> stage, config |-> c, left |-> left,
                   share |-> Share(c, left), pause |-> 0, retried |-> FALSE, budget |-> left]]
        PROVE  OwnInv'
    <3> DEFINE p == [stage |-> stage, config |-> c, left |-> left, share |-> Share(c, left),
                     pause |-> 0, retried |-> FALSE, budget |-> left]
    <3>1. p \in PlanRecord /\ (HasBackup(c) => 2 * (left - Share(c, left)) >= left)
      BY SchedulerAssumption DEF Share, PlanRecord, PlanStage
    <3>2. p.stage # "pause" /\ p.config = c /\ p.left = left /\ p.share = Share(c, left)
          /\ p.budget = left
      OBVIOUS
    <3> QED
      BY <2>1, <2>3, <3>1, <3>2, OnePlanKeeps
  <2> QED
    BY <1>1, <2>2, <2>3 DEF StartRemotePlan
<1>2. ASSUME NEW c \in Config, StartSpeech(j, c) PROVE OwnInv'
  BY <1>2, FallBackKeeps DEF StartSpeech, AfterLocal
<1>3. ASSUME NEW k \in WorkerKey, StartLocal(j, k) PROVE OwnInv'
  BY <1>3, FallBackKeeps DEF StartLocal, ownVars
<1>4. CASE SpeechStep(j)
  BY <1>4, FallBackKeeps DEF SpeechStep, AfterLocal
<1>5. CASE TranscribeEnds(j)
  BY <1>5, EndedPlanKeeps DEF TranscribeEnds
<1>6. CASE LocalStep(j)
  BY <1>6, FallBackKeeps DEF LocalStep, ownVars
<1>7. CASE DropJob(j)
  BY <1>7, FallBackKeeps, EndedPlanKeeps DEF DropJob, ownVars
<1> QED
  BY <1>1, <1>2, <1>3, <1>4, <1>5, <1>6, <1>7, RemoteStepKeeps DEF JobStep

\* A tick takes as much from the share as from the time.
LEMMA TickKeeps == OwnInv /\ Tick => OwnInv'
<1> SUFFICES ASSUME OwnInv, Tick PROVE OwnInv'
  OBVIOUS
<1> USE SchedulerAssumption
<1>0. UNCHANGED <<capability, configVars, healthVars, down, blamed>>
  BY DEF Tick
<1> DEFINE Later(p) == [p EXCEPT !.left = Less(@), !.share = Less(@), !.pause = Less(@)]
<1>1. ASSUME NEW p \in PlanRecord
      PROVE  /\ Later(p) \in PlanRecord
             /\ Later(p).stage = p.stage /\ Later(p).config = p.config
             /\ Later(p).budget = p.budget /\ Later(p).left = Less(p.left)
             /\ Later(p).share = Less(p.share)
  <2>1. /\ p.stage \in PlanStage /\ p.config \in Config \cup {NoConfig} /\ p.left \in 0..Budget
        /\ p.share \in 0..Budget /\ p.pause \in 0..Budget /\ p.retried \in BOOLEAN
        /\ p.budget \in 0..Budget
    BY DEF PlanRecord
  <2>2. Less(p.left) \in 0..Budget /\ Less(p.share) \in 0..Budget /\ Less(p.pause) \in 0..Budget
    BY <2>1 DEF Less
  <2> DEFINE p1 == [p EXCEPT !.left = Less(p.left)]
             p2 == [p1 EXCEPT !.share = Less(p.share)]
             same(q) == q.stage = p.stage /\ q.config = p.config /\ q.budget = p.budget
                        /\ q.left = Less(p.left)
  <2>3. p1 \in PlanRecord /\ same(p1) /\ p1.share = p.share /\ p1.pause = p.pause
    BY <2>2, SetFields DEF PlanRecord
  <2>4. Later(p) = [p2 EXCEPT !.pause = Less(p.pause)]
    BY <2>3
  <2> HIDE DEF p1
  <2>5. p2 \in PlanRecord /\ same(p2) /\ p2.share = Less(p.share)
    BY <2>2, <2>3, SetFields DEF PlanRecord
  <2> HIDE DEF p2, Later
  <2> QED
    BY <2>2, <2>4, <2>5, SetFields DEF PlanRecord
<1>2. \A j \in Job : plan[j] \in PlanRecord /\ plan'[j] = Later(plan[j])
  BY DEF Tick, OwnInv, OwnTypes
<1>3. plan' \in [Job -> PlanRecord]
  <2>1. plan' = [j \in Job |-> Later(plan[j])]
    BY DEF Tick
  <2> HIDE DEF Later
  <2> QED
    BY <1>1, <1>2, <2>1
<1> HIDE DEF Later
<1>4. /\ circuit' \in [revision: Config \cup {NoConfig}, failures: 0..Threshold, open: 0..OpenFor]
      /\ circuit'.revision = circuit.revision /\ circuit'.failures = circuit.failures
      /\ circuit'.open > 0 => circuit.open > 0
  <2>1. circuit.open \in 0..OpenFor /\ Less(circuit.open) \in 0..OpenFor
        /\ (Less(circuit.open) > 0 => circuit.open > 0)
    BY DEF Less, OwnInv, OwnTypes
  <2>2. circuit' = [circuit EXCEPT !.open = Less(circuit.open)]
    BY DEF Tick
  <2> QED
    BY <2>1, <2>2 DEF OwnInv, OwnTypes
<1>5. OwnTypes'
  BY <1>0, <1>3, <1>4 DEF OwnInv, OwnTypes
<1>6. Pinned'
  BY <1>1, <1>2 DEF OwnInv, Pinned
<1>7. HalfIsKept'
  <2> SUFFICES ASSUME NEW j \in Job
               PROVE  /\ plan'[j].stage = "primary" /\ HasBackup(plan'[j].config)
                            => 2 * (plan'[j].left - plan'[j].share) >= plan'[j].budget
                      /\ plan'[j].stage = "pause" => ~HasBackup(plan'[j].config)
    BY DEF HalfIsKept, HasBackup
  <2>1. ~Due(plan[j])
    BY DEF Tick
  <2>2. plan[j].left \in 0..Budget /\ plan[j].share \in 0..Budget /\ plan[j].budget \in 0..Budget
    BY <1>2 DEF PlanRecord
  <2>3. plan[j].stage = "primary" =>
            plan'[j].left = plan[j].left - 1 /\ plan'[j].share = plan[j].share - 1
    BY <1>1, <1>2, <2>1, <2>2 DEF Due, Less
  <2> QED
    BY <1>1, <1>2, <2>2, <2>3 DEF OwnInv, HalfIsKept, HasBackup
<1>8. ProbesAreCurrent' /\ OnlyOwnFailures'
  BY <1>0, <1>4 DEF OwnInv, ProbesAreCurrent, OnlyOwnFailures
<1> QED
  BY <1>5, <1>6, <1>7, <1>8 DEF OwnInv

\* A refresh of the cache, by force after a configuration of the models.
LEMMA RefreshKeeps ==
  ASSUME OwnInv, NEW c, NEW m \in Config \cup {NoConfig}, NEW force \in BOOLEAN,
         Refresh(c, m, force), models' = m,
         \/ c = cache /\ m = models
         \/ c = NewGeneration /\ force
  PROVE  /\ cache' \in [generation: Nat, attempt: {"none", "recent", "old"},
                        config: Config \cup {NoConfig}]
         /\ probe' \in [running: BOOLEAN, generation: Nat, config: Config \cup {NoConfig}]
         /\ ProbesAreCurrent'
<1> USE DEF OwnInv, OwnTypes
<1>1. /\ c \in [generation: Nat, attempt: {"none", "recent", "old"}, config: Config \cup {NoConfig}]
      /\ c.generation >= cache.generation
      /\ \/ c = cache /\ m = models
         \/ c.generation > cache.generation /\ c.attempt = "none"
  <2> DEFINE n == [cache EXCEPT !.generation = cache.generation + 1]
  <2>1. n \in [generation: Nat, attempt: {"none", "recent", "old"}, config: Config \cup {NoConfig}]
        /\ n.generation > cache.generation
    OBVIOUS
  <2>2. NewGeneration = [n EXCEPT !.attempt = "none"]
    BY DEF NewGeneration
  <2> HIDE DEF n
  <2>3. /\ NewGeneration \in [generation: Nat, attempt: {"none", "recent", "old"},
                              config: Config \cup {NoConfig}]
        /\ NewGeneration.generation > cache.generation /\ NewGeneration.attempt = "none"
    BY <2>1, <2>2
  <2> QED
    BY <2>3
<1>2. CASE ~probe.running /\ probe' = [running |-> TRUE, generation |-> c.generation, config |-> m]
           /\ cache' = [c EXCEPT !.attempt = "recent"]
  BY <1>1, <1>2 DEF ProbesAreCurrent
<1>3. CASE cache' = c /\ UNCHANGED probe /\ c = cache /\ m = models
  BY <1>1, <1>3 DEF ProbesAreCurrent
<1>4. CASE cache' = c /\ UNCHANGED probe /\ c.generation > cache.generation /\ c.attempt = "none"
  BY <1>1, <1>4 DEF ProbesAreCurrent
<1> QED
  BY <1>1, <1>2, <1>3, <1>4 DEF Refresh

LEMMA ClosedIsOwn ==
  ASSUME NEW c \in Config
  PROVE  /\ Closed(c) \in [revision: Config \cup {NoConfig}, failures: 0..Threshold, open: 0..OpenFor]
         /\ Closed(c).failures = 0 /\ Closed(c).open = 0 /\ Closed(c).revision = c
BY SchedulerAssumption DEF Closed

LEMMA ConfigureKeeps == OwnInv /\ Configure => OwnInv'
<1> SUFFICES ASSUME OwnInv, NEW c \in Config,
                    ConfigureScheduler(c) \/ ConfigureRemote(c) \/ ConfigureModels(c)
             PROVE  OwnInv'
  BY DEF Configure
<1> USE DEF OwnInv, OwnTypes
<1>1. UNCHANGED <<capability, plan, blamed, down>> /\ received' \subseteq Config
  BY DEF ConfigureScheduler, ConfigureRemote, ConfigureModels
<1>2. Pinned' /\ HalfIsKept'
  BY <1>1 DEF Pinned, HalfIsKept, HasBackup
<1>3. /\ circuit' \in [revision: Config \cup {NoConfig}, failures: 0..Threshold, open: 0..OpenFor]
      /\ OnlyOwnFailures'
  <2>1. circuit' = Closed(c) \/ UNCHANGED circuit
    BY DEF ConfigureScheduler, ConfigureRemote, ConfigureModels
  <2>2. CASE circuit' = Closed(c)
    <3>1. blamed[c] \in 0..Threshold
      OBVIOUS
    <3> QED
      BY <1>1, <2>2, <3>1, ClosedIsOwn DEF OnlyOwnFailures
  <2> QED
    BY <1>1, <2>1, <2>2 DEF OnlyOwnFailures
<1>4. CASE ConfigureRemote(c)
  BY <1>1, <1>2, <1>3, <1>4 DEF ConfigureRemote, ProbesAreCurrent
<1>5. CASE ConfigureScheduler(c) \/ ConfigureModels(c)
  <2>1. models' = c /\ remote' \in Config \cup {NoConfig} /\ Refresh(NewGeneration, c, TRUE)
    BY <1>5 DEF ConfigureScheduler, ConfigureModels
  <2> QED
    BY <1>1, <1>2, <1>3, <2>1, RefreshKeeps
<1> QED
  BY <1>4, <1>5

LEMMA HealthKeeps == OwnInv /\ (Health \/ ProbeEnds \/ AttemptAges) => OwnInv'
<1> SUFFICES ASSUME OwnInv, Health \/ ProbeEnds \/ AttemptAges PROVE OwnInv'
  OBVIOUS
<1> USE DEF OwnInv, OwnTypes
<1>1. UNCHANGED <<capability, planVars, configVars, down>>
  BY DEF Health, ProbeEnds, AttemptAges
<1>2. Pinned' /\ HalfIsKept' /\ OnlyOwnFailures'
  BY <1>1 DEF Pinned, HalfIsKept, HasBackup, OnlyOwnFailures
<1>3. /\ cache' \in [generation: Nat, attempt: {"none", "recent", "old"},
                     config: Config \cup {NoConfig}]
      /\ probe' \in [running: BOOLEAN, generation: Nat, config: Config \cup {NoConfig}]
      /\ ProbesAreCurrent'
  <2>1. CASE Health
    BY <1>1, <2>1, RefreshKeeps DEF Health
  <2>2. CASE ProbeEnds
    BY <1>1, <2>2 DEF ProbeEnds, NoProbe, ProbesAreCurrent
  <2>3. CASE AttemptAges
    BY <1>1, <2>3 DEF AttemptAges, ProbesAreCurrent
  <2> QED
    BY <2>1, <2>2, <2>3
<1> QED
  BY <1>1, <1>2, <1>3

LEMMA OwnKeeps == OwnInv /\ [SchedulerNext]_schedulerVars => OwnInv'
<1> SUFFICES ASSUME OwnInv, [SchedulerNext]_schedulerVars PROVE OwnInv'
  OBVIOUS
<1>1. UNCHANGED ownVars => OwnInv'
  BY DEF ownVars, OwnInv, OwnTypes, Pinned, HalfIsKept, HasBackup, ProbesAreCurrent, OnlyOwnFailures
<1>2. CASE Maintenance \/ Processes \/ Shutdown \/ UNCHANGED schedulerVars
  BY <1>1, <1>2 DEF Maintenance, Processes, Shutdown, schedulerVars, ownVars
<1>3. CASE ConnectionEnds
  BY <1>3 DEF ConnectionEnds, OwnInv, OwnTypes, Pinned, HalfIsKept, HasBackup, ProbesAreCurrent,
      OnlyOwnFailures
<1> QED
  BY <1>2, <1>3, OwnJobKeeps, TickKeeps, ConfigureKeeps, HealthKeeps DEF SchedulerNext

LEMMA OwnHolds == SchedulerSpec => []OwnInv
BY OwnStarts, OwnKeeps, PTL DEF SchedulerSpec

\* The types of the scheduler and of its adapters.
THEOREM SchedulerTypes == SchedulerSpec => []SchedulerTypeOK
<1>1. LlamaInv /\ AsrInv /\ OwnInv => SchedulerTypeOK
  BY DEF LlamaInv, AsrInv, OwnInv, OwnTypes, SchedulerTypeOK, PlanRecord
<1> QED
  BY <1>1, AdaptersHold, OwnHolds, PTL

\* Failures of requests that were pinned to an old configuration, and end after a new one
\* came, never count for the circuit of the new one (remote_plan).
THEOREM CircuitsCountTheirOwn == SchedulerSpec => []OnlyOwnFailures
<1>1. OwnInv => OnlyOwnFailures
  BY DEF OwnInv
<1> QED
  BY <1>1, OwnHolds, PTL

\* A probe that began before a configuration never leaves its answer in the cache of the
\* new models (refresh_health, configure).
THEOREM HealthStaysCurrent == SchedulerSpec => []HealthIsCurrent
<1>1. OwnInv => HealthIsCurrent
  BY DEF OwnInv, ProbesAreCurrent, HealthIsCurrent
<1> QED
  BY <1>1, OwnHolds, PTL

\* However slowly the primary fails, a request that goes on to the backup has at least
\* half of its time left (remote_plan).
THEOREM BackupsHaveTime == SchedulerSpec => FailoverHasHalf
<1> DEFINE Half == \A j \in Job : plan[j].stage = "primary" /\ plan'[j].stage = "backup"
                      => 2 * plan[j].left >= plan[j].budget
<1>1. OwnInv /\ [SchedulerNext]_schedulerVars => [Half]_schedulerVars
  <2> SUFFICES ASSUME OwnInv, SchedulerNext, NEW j \in Job,
                      plan[j].stage = "primary", plan'[j].stage = "backup"
               PROVE  2 * plan[j].left >= plan[j].budget
    BY DEF Half
  <2>1. plan[j] \in PlanRecord
    BY DEF OwnInv, OwnTypes
  <2>2. HasBackup(plan[j].config)
    <3>1. ASSUME NEW i \in Job, RemotePlanStep(i) PROVE HasBackup(plan[j].config)
      <4>1. ASSUME NEW q, plan' = [plan EXCEPT ![i] = q], q.stage # "backup" PROVE FALSE
        BY <2>1, <4>1 DEF OwnInv, OwnTypes
      <4>2. CASE PrimaryFails(i)
        BY <4>1, <4>2 DEF PrimaryFails, SetStage, PlanEnds, NoPlan, OwnInv, OwnTypes
      <4>3. CASE PrimaryAnswers(i) \/ PrimaryRejects(i) \/ BackupEnds(i) \/ DeadlineExceeded(i)
        BY <4>1, <4>3 DEF PrimaryAnswers, PrimaryRejects, BackupEnds, DeadlineExceeded, PlanEnds,
            NoPlan
      <4>4. plan[i] \in PlanRecord
        BY DEF OwnInv, OwnTypes
      <4>5. CASE RetryBegins(i)
        BY <4>1, <4>4, <4>5 DEF RetryBegins, SetStage, PlanRecord
      <4>6. ASSUME NEW delay \in 1..Budget, PrimaryRetries(i, delay) PROVE FALSE
        <5> DEFINE q == [plan[i] EXCEPT !.stage = "pause", !.pause = delay, !.retried = TRUE]
        <5>1. q.stage = "pause"
          BY <4>4 DEF PlanRecord
        <5> QED
          BY <4>1, <4>6, <5>1 DEF PrimaryRetries
      <4> QED
        BY <3>1, <4>2, <4>3, <4>5, <4>6 DEF RemotePlanStep
    <3>2. ASSUME NEW i \in Job, FallBack(i) \/ PlanEnds(i) PROVE FALSE
      <4>1. NoPlan.stage # "backup"
            /\ \A left \in 1..Budget :
                   [NoPlan EXCEPT !.stage = "transcribe", !.left = left].stage # "backup"
        BY DEF NoPlan
      <4>2. ASSUME NEW q, plan' = [plan EXCEPT ![i] = q], q.stage # "backup" PROVE FALSE
        BY <2>1, <4>2 DEF OwnInv, OwnTypes
      <4>3. ~UNCHANGED plan
        OBVIOUS
      <4> QED
        BY <3>2, <4>1, <4>2, <4>3 DEF FallBack, PlanEnds
    <3>3. ASSUME NEW i \in Job, NEW c \in Config, NEW left \in 1..Budget, StartRemotePlan(i, c, left)
          PROVE  FALSE
      BY <3>3 DEF StartRemotePlan, Idle, OwnInv, OwnTypes
    <3>4. ASSUME NEW i \in Job, JobStep(i) PROVE HasBackup(plan[j].config)
      BY <3>1, <3>2, <3>3, <3>4 DEF JobStep, StartSpeech, AfterLocal, StartLocal, SpeechStep,
          TranscribeEnds, LocalStep, DropJob, ownVars, planVars
    <3>5. CASE Tick
      <4>1. plan'[j] = [plan[j] EXCEPT !.left = Less(@), !.share = Less(@), !.pause = Less(@)]
        BY <3>5 DEF Tick
      <4>2. plan'[j].stage = plan[j].stage
        BY <2>1, <4>1 DEF PlanRecord
      <4> QED
        BY <4>2
    <3>6. CASE Configure \/ Health \/ ProbeEnds \/ AttemptAges \/ Maintenance \/ Processes
               \/ ConnectionEnds \/ Shutdown
      BY <3>6 DEF Configure, ConfigureScheduler, ConfigureRemote, ConfigureModels, Health,
          ProbeEnds, AttemptAges, Maintenance, Processes, ConnectionEnds, Shutdown, ownVars
    <3> QED
      BY <3>4, <3>5, <3>6 DEF SchedulerNext
  <2>3. 2 * (plan[j].left - plan[j].share) >= plan[j].budget
    BY <2>2 DEF OwnInv, HalfIsKept
  <2>4. plan[j].left \in Nat /\ plan[j].share \in Nat /\ plan[j].budget \in Nat
    BY <2>1, SchedulerAssumption DEF PlanRecord
  <2> QED
    BY <2>3, <2>4
<1> QED
  BY <1>1, OwnHolds, PTL DEF SchedulerSpec, FailoverHasHalf

=============================================================================
