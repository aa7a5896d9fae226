--------------------------------- MODULE EventLog ---------------------------------
(* The log of events of one process, and the retention that every process of the program
   runs over the directory they share (ale-core/src/diagnostics.rs).  Events are queued
   for one writer thread, which opens, rotates and, when the directory fails it, moves
   its file; a file is protected from the others by the locks its writer holds. *)
EXTENDS Naturals, Sequences, FiniteSets

CONSTANTS QueueRoom,    \* tasks in the queue; 4096 in the code
          RotateAfter,  \* events of a file; four megabytes in the code
          MaxRecords,    \* bound: events
          MaxLogs,      \* bound: files
          Others        \* the other processes that prune the directory

Writer == "writer"
Pruners == Others \cup {Writer}
Nobody == "nobody"

ASSUME LogAssumption ==
    /\ {QueueRoom, RotateAfter, MaxRecords, MaxLogs} \subseteq Nat
    /\ Others \cap {Writer, Nobody} = {}

VARIABLES
    system,     \* the locks that the system knows: of the log itself, or of its receipt
    queued,     \* the tasks: an event, or a request to flush
    events,     \* events submitted, written and dropped, and the request to flush
    log,        \* the writer: its step, its file, what is in it, the root
    logFiles,      \* file -> it exists, its receipt, the locks on both
    pruners     \* process -> its step in prune, the files it still looks at
logVars == <<system, queued, events, log, logFiles, pruners>>

Ids == 1..MaxLogs
NoLog == [exists |-> FALSE, receipt |-> "none", fileLock |-> Nobody, lock |-> Nobody]
NotPruning == [step |-> "idle", left |-> {}, at |-> 0]

LogInit ==
    /\ system \in {"unix", "windows"}
    /\ queued = << >>
    /\ events = [submitted |-> 0, written |-> 0, dropped |-> 0, flush |-> "no",
                 before |-> 0]
    /\ log = [step |-> "wait", file |-> 0, made |-> 0, holds |-> 0, fallback |-> FALSE,
              resting |-> FALSE]
    /\ logFiles = [i \in Ids |-> NoLog]
    /\ pruners = [p \in Pruners |-> NotPruning]

--------------------------------------------------------------------------------
(* The threads that record events. *)

\* An event that finds the queue full is counted as dropped.
RecordEvent ==
    /\ events.submitted < MaxRecords
    /\ IF Len(queued) < QueueRoom
       THEN /\ queued' = Append(queued, "event")
            /\ events' = [events EXCEPT !.submitted = @ + 1]
       ELSE /\ events' = [events EXCEPT !.submitted = @ + 1, !.dropped = @ + 1]
            /\ UNCHANGED queued
    /\ UNCHANGED <<system, log, logFiles, pruners>>

AskFlush ==
    /\ events.flush = "no" /\ Len(queued) < QueueRoom
    /\ queued' = Append(queued, "flush")
    /\ events' = [events EXCEPT !.flush = "asked", !.before = events.submitted]
    /\ UNCHANGED <<system, log, logFiles, pruners>>

--------------------------------------------------------------------------------
(* The writer. *)

Flush ==
    /\ log.step = "wait" /\ queued # << >> /\ Head(queued) = "flush"
    /\ queued' = Tail(queued)
    /\ \E answer \in {"failed"} \cup (IF log.file # 0 THEN {"flushed"} ELSE {}) :
          events' = [events EXCEPT !.flush = answer]
    /\ UNCHANGED <<system, log, logFiles, pruners>>

Lost == events' = [events EXCEPT !.dropped = @ + 1]
Unlocked(i) == [logFiles EXCEPT ![i].fileLock = Nobody, ![i].lock = Nobody]

\* An event is dropped for a second after a failure; it may need a new file, and then
\* the old one and its lock are let go first.
TakeEvent ==
    /\ log.step = "wait" /\ queued # << >> /\ Head(queued) = "event"
    /\ queued' = Tail(queued)
    /\ \/ log.resting /\ Lost /\ UNCHANGED <<log, logFiles>>
       \/ /\ ~log.resting /\ (log.file = 0 \/ log.holds >= RotateAfter)
          /\ log.made < MaxLogs
          /\ log' = [log EXCEPT !.step = "create", !.file = 0, !.made = @ + 1]
          /\ logFiles' = IF log.file = 0 THEN logFiles ELSE Unlocked(log.file)
          /\ UNCHANGED events
       \/ /\ ~log.resting /\ log.file # 0 /\ log.holds < RotateAfter
          /\ log' = [log EXCEPT !.step = "write"]
          /\ UNCHANGED <<events, logFiles>>
    /\ UNCHANGED <<system, pruners>>

\* A variant: the receipt is marked before it is locked.
NextStepMarked == [create |-> IF system = "unix" THEN "lock file" ELSE "receipt",
                   receipt |-> "mark", mark |-> "lock", lock |-> "opened"]

\* open_event_file: the file, its lock, the receipt, its lock, and only then the mark.
NextStep == [create |-> IF system = "unix" THEN "lock file" ELSE "receipt",
             receipt |-> "lock", lock |-> "mark", mark |-> "opened"]
Opened(i, step) ==
    CASE step = "create" -> [logFiles EXCEPT ![i].exists = TRUE]
      [] step = "lock file" -> [logFiles EXCEPT ![i].fileLock = Writer]
      [] step = "receipt" -> [logFiles EXCEPT ![i].receipt = "empty"]
      [] step = "lock" -> [logFiles EXCEPT ![i].lock = Writer]
      [] step = "mark" -> [logFiles EXCEPT ![i].receipt = "marked"]

OpenStep ==
    /\ log.step \in {"create", "lock file", "receipt", "lock", "mark"}
    /\ logFiles' = Opened(log.made, log.step)
    /\ log' = [log EXCEPT !.step = IF @ = "lock file" THEN "receipt" ELSE NextStep[@]]
    /\ UNCHANGED <<system, queued, events, pruners>>

Failed ==
    log' = [log EXCEPT !.step = "wait", !.file = 0, !.fallback = TRUE, !.resting = TRUE]

\* Any step may fail: what was made is removed, the event is dropped, and the writer
\* moves to the other directory.
OpenFails ==
    /\ log.step \in {"create", "lock file", "receipt", "lock", "mark"}
    /\ logFiles' = [logFiles EXCEPT ![log.made] = NoLog]
    /\ Lost /\ Failed
    /\ UNCHANGED <<system, queued, pruners>>

\* The writer prunes the directory itself before it writes.
FileOpened ==
    /\ log.step = "opened" /\ pruners[Writer] = NotPruning
    /\ log' = [log EXCEPT !.step = "prune", !.file = log.made, !.holds = 0]
    /\ pruners' = [pruners EXCEPT ![Writer].step = "list"]
    /\ UNCHANGED <<system, queued, events, logFiles>>

Pruned ==
    /\ log.step = "prune" /\ pruners[Writer] = NotPruning
    /\ log' = [log EXCEPT !.step = "write"]
    /\ UNCHANGED <<system, queued, events, logFiles, pruners>>

Write ==
    /\ log.step = "write"
    /\ \/ /\ events' = [events EXCEPT !.written = @ + 1]
          /\ log' = [log EXCEPT !.step = "wait", !.holds = @ + 1]
          /\ UNCHANGED logFiles
       \/ Lost /\ Failed /\ logFiles' = Unlocked(log.file)
    /\ UNCHANGED <<system, queued, pruners>>

RestEnds ==
    /\ log.resting
    /\ log' = [log EXCEPT !.resting = FALSE]
    /\ UNCHANGED <<system, queued, events, logFiles, pruners>>

--------------------------------------------------------------------------------
(* prune: which files are too old or too many is left open. *)

Prunes(p, r) ==
    /\ pruners' = [pruners EXCEPT ![p] = r]
    /\ UNCHANGED <<system, queued, events, log>>

StartPruning(p) ==
    /\ p \in Others /\ pruners[p] = NotPruning
    /\ Prunes(p, [NotPruning EXCEPT !.step = "list"]) /\ UNCHANGED logFiles

\* Only files with a marked receipt are looked at.
ListFiles(p) ==
    /\ pruners[p].step = "list"
    /\ \E old \in SUBSET {i \in Ids : /\ logFiles[i].exists
                                      /\ logFiles[i].receipt = "marked"} :
          Prunes(p, [step |-> "next", left |-> old, at |-> 0])
    /\ UNCHANGED logFiles

NextOld(p) ==
    /\ pruners[p].step = "next"
    /\ IF pruners[p].left = {} THEN Prunes(p, NotPruning)
       ELSE \E i \in pruners[p].left :
               Prunes(p, [step |-> IF logFiles[i].receipt = "none" THEN "next" ELSE "lock",
                          left |-> pruners[p].left \ {i}, at |-> i])
    /\ UNCHANGED logFiles

\* remove_inactive: nothing is removed whose locks cannot be had at once.
LockReceipt(p) ==
    LET i == pruners[p].at IN
    /\ pruners[p].step = "lock"
    /\ IF logFiles[i].lock = Nobody
       THEN /\ logFiles' = [logFiles EXCEPT ![i].lock = p]
            /\ Prunes(p, [pruners[p] EXCEPT !.step = "lock file"])
       ELSE Prunes(p, [pruners[p] EXCEPT !.step = "next"]) /\ UNCHANGED logFiles

RemoveFile(p) ==
    LET i == pruners[p].at IN
    /\ pruners[p].step = "lock file"
    /\ IF logFiles[i].exists /\ logFiles[i].fileLock = Nobody
       THEN /\ logFiles' = [logFiles EXCEPT ![i].exists = FALSE]
            /\ Prunes(p, [pruners[p] EXCEPT !.step = "receipt"])
       ELSE /\ logFiles' = [logFiles EXCEPT ![i].lock = Nobody]
            /\ Prunes(p, [pruners[p] EXCEPT !.step = "next"])

RemoveReceipt(p) ==
    /\ pruners[p].step = "receipt"
    /\ logFiles' = [logFiles EXCEPT ![pruners[p].at] = NoLog]
    /\ Prunes(p, [pruners[p] EXCEPT !.step = "next"])

LogNext ==
    \/ RecordEvent \/ AskFlush
    \/ Flush \/ TakeEvent \/ OpenStep \/ OpenFails \/ FileOpened \/ Pruned \/ Write
    \/ RestEnds
    \/ \E p \in Pruners : \/ StartPruning(p) \/ ListFiles(p) \/ NextOld(p)
                          \/ LockReceipt(p) \/ RemoveFile(p) \/ RemoveReceipt(p)

--------------------------------------------------------------------------------
\* The file that is written to stays where it is, with its receipt, whoever prunes.
LiveLogsStay ==
    log.file # 0 => logFiles[log.file].exists /\ logFiles[log.file].receipt = "marked"

\* Every event is written, counted as dropped, in the queue, or in the writer's hand.
EventsAreAccounted ==
    events.submitted = events.written + events.dropped
        + Cardinality({i \in DOMAIN queued : queued[i] = "event"})
        + (IF log.step = "wait" THEN 0 ELSE 1)

\* A flush that succeeds leaves no event behind that was recorded before it.
FlushedIsWritten ==
    events.flush = "flushed" => events.written + events.dropped >= events.before

LogsAreKept == LiveLogsStay /\ EventsAreAccounted /\ FlushedIsWritten
================================================================================
