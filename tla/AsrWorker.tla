----------------------------- MODULE AsrWorker -----------------------------
(***************************************************************************)
(* The speech recognition adapter of the model daemon (SenseVoiceAdapter,  *)
(* sensevoice.rs): a child process transcribes one recording at a time     *)
(* over a pipe.  A child that was cancelled, timed out or did not answer   *)
(* correctly is killed, and is kept in "retired" until its exit has been   *)
(* seen; no other child is started before that.                            *)
(*                                                                         *)
(* As in LlamaWorker a step lasts from one await to the next.              *)
(***************************************************************************)
EXTENDS ModelJobs, Naturals, Sequences, FiniteSets

CONSTANTS Child, NoChild

ASSUME AsrAssumption == NoChild \notin Child

AnyConfig == CHOOSE c \in Config : TRUE

VARIABLES
    asr,        \* where transcribe_wav stands for each job
    asrWant,    \* the model and tokens the job asks for
    holds,      \* the child owned by the job's future (ActiveAsr)
    keptChild,  \* worker, whose lock is held while some job is not "out"
    retired,    \* cancelled children whose exit nobody has seen
    child,      \* the processes
    owed,       \* the replies each child still has to write or nobody has read
    stopping    \* shutdown has begun

asrVars == <<asr, asrWant, holds, keptChild, retired, child, owed, stopping>>

AsrStage == {"out", "reap", "replace", "converse", "kill"}

\* A reply answers the conversation of the job that holds the child, or one
\* that has been given up.
Reply == {"current", "stale"}

AsrTypeOK ==
    /\ asr \in [Job -> AsrStage]
    /\ asrWant \in [Job -> Config]
    /\ holds \in [Job -> Child \cup {NoChild}]
    /\ keptChild \in Child \cup {NoChild}
    /\ retired \subseteq Child
    /\ child \in [Child -> [up: BOOLEAN, idle: BOOLEAN, config: Config]]
    /\ owed \in [Child -> Seq(Reply)]
    /\ stopping \in BOOLEAN

AsrInit ==
    /\ asr = [j \in Job |-> "out"]
    /\ asrWant = [j \in Job |-> AnyConfig]
    /\ holds = [j \in Job |-> NoChild]
    /\ keptChild = NoChild
    /\ retired = {}
    /\ child = [c \in Child |-> [up |-> FALSE, idle |-> FALSE, config |-> AnyConfig]]
    /\ owed = [c \in Child |-> << >>]
    /\ stopping = FALSE

\* worker.try_lock fails (ASR_BUSY).
WorkerLocked == \E j \in Job : asr[j] # "out"

Owned == {holds[j] : j \in Job} \cup {keptChild} \cup retired

\* The replies of a child whose conversation is given up.
Stale(replies) == [i \in DOMAIN replies |-> "stale"]

AsrLeave(j) ==
    /\ asr' = [asr EXCEPT ![j] = "out"]
    /\ holds' = [holds EXCEPT ![j] = NoChild]

Take(j, c, stage) ==
    /\ asr' = [asr EXCEPT ![j] = stage]
    /\ holds' = [holds EXCEPT ![j] = c]

\* ActiveAsr::drop: the child is killed and stays owned by the adapter.
Retire(j) ==
    /\ AsrLeave(j)
    /\ retired' = retired \cup {holds[j]}
    /\ owed' = [owed EXCEPT ![holds[j]] = Stale(@)]

\* A new child and its first recording, unless the process cannot be started.
StartChild(j, config) ==
    \/ AsrLeave(j) /\ UNCHANGED <<child, owed>>
    \/ \E c \in Child \ Owned :
          /\ ~child[c].up
          /\ child' = [child EXCEPT ![c] = [up |-> TRUE, idle |-> FALSE, config |-> config]]
          /\ owed' = [owed EXCEPT ![c] = <<"current">>]
          /\ Take(j, c, "converse")

Reusable(c, config) == c # NoChild /\ child[c].up /\ child[c].config = config

\* transcribe_wav from the end of reap_cancelled to its next await: the kept
\* child is reused, or killed first, or there is none and one is started.
TakeChild(j, config) ==
    /\ keptChild' = NoChild
    /\ \/ /\ Reusable(keptChild, config)
          /\ owed' = [owed EXCEPT ![keptChild] = Append(@, "current")]
          /\ Take(j, keptChild, "converse")
          /\ UNCHANGED child
       \/ /\ keptChild # NoChild /\ ~Reusable(keptChild, config)
          /\ Take(j, keptChild, "replace")
          /\ UNCHANGED <<child, owed>>
       \/ keptChild = NoChild /\ StartChild(j, config)

\* reap_cancelled: the next retired child, or the rest when there is none.
ReapOrTake(j, config) ==
    IF retired = {} THEN TakeChild(j, config) /\ UNCHANGED retired
    ELSE \E c \in retired :
           /\ retired' = retired \ {c}
           /\ Take(j, c, "reap")
           /\ UNCHANGED <<keptChild, child, owed>>

----------------------------------------------------------------------------
Transcribe(j, config) ==
    /\ ~stopping /\ ~WorkerLocked
    /\ asrWant' = [asrWant EXCEPT ![j] = config]
    /\ ReapOrTake(j, config)
    /\ UNCHANGED stopping

\* The exit of the child was seen within the two seconds: on to the next one.
Reaped(j) ==
    /\ asr[j] = "reap"
    /\ ~child[holds[j]].up
    /\ ReapOrTake(j, asrWant[j])
    /\ UNCHANGED <<asrWant, stopping>>

Replaced(j) ==
    /\ asr[j] = "replace"
    /\ ~child[holds[j]].up
    /\ StartChild(j, asrWant[j])
    /\ UNCHANGED <<asrWant, keptChild, retired, stopping>>

\* ASR_WORKER_EXIT_UNCONFIRMED, or the failed child that does not die.
ExitUnconfirmed(j) ==
    /\ asr[j] \in {"reap", "replace", "kill"}
    /\ child[holds[j]].up
    /\ Retire(j)
    /\ UNCHANGED <<asrWant, keptChild, child, stopping>>

\* The reply to this request: the child is kept for the next one.
AsrAnswers(j) ==
    /\ asr[j] = "converse"
    /\ owed[holds[j]] # << >> /\ Head(owed[holds[j]]) = "current"
    /\ owed' = [owed EXCEPT ![holds[j]] = Tail(@)]
    /\ child' = [child EXCEPT ![holds[j]].idle = FALSE]
    /\ keptChild' = holds[j]
    /\ AsrLeave(j)
    /\ UNCHANGED <<asrWant, retired, stopping>>

\* Broken pipe, a reply to something else, a failed transcription, ASR_TIMEOUT.
AsrFails(j) ==
    /\ asr[j] = "converse"
    /\ owed' = [owed EXCEPT ![holds[j]] = Stale(@)]
    /\ asr' = [asr EXCEPT ![j] = "kill"]
    /\ UNCHANGED <<asrWant, holds, keptChild, retired, child, stopping>>

KillConfirmed(j) ==
    /\ asr[j] = "kill"
    /\ ~child[holds[j]].up
    /\ AsrLeave(j)
    /\ UNCHANGED <<asrWant, keptChild, retired, child, owed, stopping>>

\* Variant: the child goes back to the slot.
AsrDropKeeps(j) ==
    /\ asr[j] # "out"
    /\ AsrLeave(j)
    /\ keptChild' = holds[j]
    /\ owed' = [owed EXCEPT ![holds[j]] = Stale(@)]
    /\ UNCHANGED <<asrWant, retired, child, stopping>>

\* The future is dropped at one of its awaits.
AsrDrop(j) ==
    /\ asr[j] # "out"
    /\ Retire(j)
    /\ UNCHANGED <<asrWant, keptChild, child, stopping>>

----------------------------------------------------------------------------
ChildExits(c) ==
    /\ child[c].up
    /\ child' = [child EXCEPT ![c].up = FALSE]
    /\ UNCHANGED <<asr, asrWant, holds, keptChild, retired, owed, stopping>>

\* MODEL_IDLE_TTL passes since the last answer of the kept child.
ChildIdles ==
    /\ keptChild # NoChild /\ ~child[keptChild].idle
    /\ child' = [child EXCEPT ![keptChild].idle = TRUE]
    /\ UNCHANGED <<asr, asrWant, holds, keptChild, retired, owed, stopping>>

\* unload_if_idle: exits are noted, and an idle child is killed, unless the
\* lock is taken.
UnloadIfIdle ==
    LET waiting == {c \in retired : child[c].up}
        unload == ~WorkerLocked /\ keptChild # NoChild /\ child[keptChild].idle
    IN /\ ~stopping
       /\ retired' = IF unload THEN waiting \cup {keptChild} ELSE waiting
       /\ keptChild' = IF unload THEN NoChild ELSE keptChild
       /\ UNCHANGED <<asr, asrWant, holds, child, owed, stopping>>

\* shutdown, after every job has been dropped: every child is killed, and
\* waited for during two seconds.
AsrShutdown ==
    /\ ~stopping /\ ~WorkerLocked
    /\ stopping' = TRUE
    /\ retired' = retired \cup ({keptChild} \ {NoChild})
    /\ keptChild' = NoChild
    /\ UNCHANGED <<asr, asrWant, holds, child, owed>>

ReapAtShutdown(c) ==
    /\ stopping /\ c \in retired /\ ~child[c].up
    /\ retired' = retired \ {c}
    /\ UNCHANGED <<asr, asrWant, holds, keptChild, child, owed, stopping>>

AsrStep(j) ==
    \/ Reaped(j) \/ Replaced(j) \/ ExitUnconfirmed(j)
    \/ AsrAnswers(j) \/ AsrFails(j) \/ KillConfirmed(j)

AsrEnvironment ==
    \/ \E c \in Child : ChildExits(c) \/ ReapAtShutdown(c)
    \/ ChildIdles

AsrNext ==
    \/ \E j \in Job : AsrStep(j) \/ AsrDrop(j) \/ \E config \in Config : Transcribe(j, config)
    \/ AsrEnvironment \/ UnloadIfIdle \/ AsrShutdown

AsrSpec == AsrInit /\ [][AsrNext]_asrVars

----------------------------------------------------------------------------
(* What makes the adapter correct. *)

\* One child runs at most, and it is never lost: the job that talks to it, the
\* adapter's slot or the list of retired children owns it, so that the next job
\* waits for its exit.
OneOwnedChild ==
    /\ \A c, d \in Child : child[c].up /\ child[d].up => c = d
    /\ \A c \in Child : child[c].up => c \in Owned

\* The first reply that a job reads from its child answers its own recording:
\* a child that owes a reply to somebody who has gone is never used again.
RepliesAreFresh ==
    \A j \in Job : asr[j] = "converse" => owed[holds[j]] = <<"current">>
=============================================================================
