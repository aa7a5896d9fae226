------------------------------- MODULE CrashMonitor -------------------------------
(* The process that watches the program for crashes and hangs and has it dumped
   (ale-gui/src/diagnostics/windows.rs).  A thread that faults or panics leaves its
   record in shared memory and waits for an event, ten seconds at most; the helper
   looks at the memory, starts one capture process at a time, and sets the event when
   the dump is made, given up or not going to be made. *)
EXTENDS Naturals, Sequences, FiniteSets

CONSTANTS Threads,       \* the threads of the program that may crash
          Faulting,      \* those that fault, which ends the process; the others panic
          None,          \* no thread
          MaxCaptures    \* bound: dumps that are begun

VARIABLES
    program,    \* the watched process runs
    hook,       \* thread -> where it is in notify_crash
    shared,     \* the shared memory and the event that answers a crash
    helper,     \* the loop of the helper
    captures,   \* the capture processes, in the order of their start
    writing     \* the captures whose temporary file the helper's writer is to remove
monitorVars == <<program, hook, shared, helper, captures, writing>>

Untouched == [step |-> "no", number |-> 0]
NoSlot == [capture |-> 0, crash |-> 0, late |-> FALSE]
CaptureAt(step, crash, ok, partial) ==
    [step |-> step, crash |-> crash, of |-> None, partial |-> partial, ok |-> ok,
     old |-> FALSE, killed |-> FALSE]
Exited(ok, partial) == CaptureAt("exited", 0, ok, partial)
StillRuns(c) == captures[c].step # "exited"
Watching == helper.step \notin {"left", "gone", "died"}

\* The mapping is made and the helper runs before the exception hook is set.
MonitorInit ==
    /\ program = "runs"
    /\ hook = [t \in Threads |-> Untouched]
    /\ shared = [number |-> 0, thread |-> None, enabled |-> FALSE, active |-> FALSE,
                 answered |-> FALSE, watched |-> TRUE]
    /\ helper = [step |-> "look", enabled |-> FALSE, exited |-> FALSE, hang |-> FALSE,
                 crash |-> FALSE, seen |-> 0, slot |-> NoSlot]
    /\ captures = << >>
    /\ writing = {}

--------------------------------------------------------------------------------
(* The program. *)

ThreadEnded == [Untouched EXCEPT !.step = "ended"]
ProgramEnds == program' = "ended" /\ hook' = [t \in Threads |-> ThreadEnded]

\* The end of notify_crash: a panic ends its thread, a fault ends the process.
LetGo(t) ==
    IF t \in Faulting THEN ProgramEnds
    ELSE hook' = [hook EXCEPT ![t] = ThreadEnded] /\ UNCHANGED program

\* One thread at a time reports; another that crashes meanwhile is not recorded.  The
\* event is reset before the number of the crash is raised.
Crash(t) ==
    /\ program = "runs" /\ hook[t].step = "no"
    /\ IF shared.watched /\ ~shared.active
       THEN /\ hook' = [hook EXCEPT ![t] = [@ EXCEPT !.step = "reset"]]
            /\ shared' = [shared EXCEPT !.active = TRUE, !.answered = FALSE]
            /\ UNCHANGED program
       ELSE LetGo(t) /\ UNCHANGED shared
    /\ UNCHANGED <<helper, captures, writing>>

Publish(t) ==
    /\ program = "runs" /\ hook[t].step = "reset"
    /\ shared' = [shared EXCEPT !.number = @ + 1, !.thread = t]
    /\ hook' = [hook EXCEPT ![t] = [step |-> "waits", number |-> shared.number + 1]]
    /\ UNCHANGED <<program, helper, captures, writing>>

\* The wait is over when the event is set or ten seconds have passed; with the dumps
\* switched off there is none.
StopWaiting(t) ==
    /\ program = "runs" /\ hook[t].step = "waits"
    /\ shared' = [shared EXCEPT !.active = FALSE]
    /\ LetGo(t)
    /\ UNCHANGED <<helper, captures, writing>>

\* The mirror thread copies the switch, which the user may turn on and off, and forgets
\* the helper when it has ended.
Mirror ==
    /\ program = "runs" /\ shared.watched
    /\ \/ \E on \in BOOLEAN : shared' = [shared EXCEPT !.enabled = on]
       \/ /\ helper.step \in {"gone", "died"}
          /\ shared' = [shared EXCEPT !.watched = FALSE]
    /\ UNCHANGED <<program, hook, helper, captures, writing>>

\* The program is closed, or ended by force.
Quit ==
    /\ program = "runs" /\ ProgramEnds
    /\ UNCHANGED <<shared, helper, captures, writing>>

--------------------------------------------------------------------------------
(* The helper. *)

Go(step) == helper' = [helper EXCEPT !.step = step]

\* It reads the switch and whether the process has ended before it reads the crashes.
Look ==
    /\ helper.step = "look"
    /\ \E hang \in BOOLEAN :
          /\ hang => program = "runs"
          /\ helper' = [helper EXCEPT !.step = "count", !.enabled = shared.enabled,
                                      !.exited = program = "ended", !.hang = hang]
    /\ UNCHANGED <<program, hook, shared, captures, writing>>

SeeCrash ==
    /\ helper.step = "count"
    /\ helper' = [helper EXCEPT !.step = "decide", !.seen = shared.number,
                                !.crash = shared.number > helper.seen]
    /\ UNCHANGED <<program, hook, shared, captures, writing>>

\* A crash is dumped at once, a hang only when five minutes have passed since the last
\* dump was begun.
Dump(cooled) ==
    /\ helper.crash \/ (helper.hang /\ cooled)
    /\ helper.enabled /\ helper.slot = NoSlot

SetEvent(when) == shared' = [shared EXCEPT !.answered = @ \/ when]

StartCapture ==
    /\ helper.step = "decide" /\ Dump(TRUE) /\ Len(captures) < MaxCaptures
    /\ LET crash == IF helper.crash THEN helper.seen ELSE 0 IN
       /\ captures' = Append(captures, CaptureAt("starts", crash, FALSE, FALSE))
       /\ helper' = [helper EXCEPT !.step = "tend",
                        !.slot = [capture |-> Len(captures) + 1, crash |-> crash,
                                  late |-> FALSE]]
    /\ UNCHANGED <<program, hook, shared, writing>>

\* A variant: a crash that finds the slot taken, or the dumps switched off, is forgotten.
UnansweredQuietly(cooled) == Dump(cooled)

\* The answer of a crash that gets no dump.
Unanswered(cooled) == Dump(cooled) \/ helper.crash

StartNone ==
    /\ helper.step = "decide"
    /\ \E cooled \in BOOLEAN :      \* when Dump holds, the process could not be started
          SetEvent(Unanswered(cooled))
    /\ Go("tend")
    /\ UNCHANGED <<program, hook, captures, writing>>

Rest(step, slot) ==
    [step |-> step, enabled |-> FALSE, exited |-> FALSE, hang |-> FALSE, crash |-> FALSE,
     seen |-> helper.seen, slot |-> slot]

\* The end of a round: a capture is killed after fifteen seconds, and its slot is kept
\* until it has ended.  The writer is asked to remove what a failed one has left, unless
\* its queue is full of snapshots.
Tend ==
    /\ helper.step = "tend"
    /\ LET c == helper.slot.capture
           some == helper.slot # NoSlot
           late == helper.slot.late \/ (some /\ captures[c].old)
           ended == some /\ ~StillRuns(c)
           slot == IF ended THEN NoSlot ELSE [helper.slot EXCEPT !.late = late] IN
       /\ captures' = IF some THEN [captures EXCEPT ![c].killed = late /\ ~ended]
                      ELSE captures
       /\ SetEvent((late /\ ~helper.slot.late) \/ (ended /\ helper.slot.crash # 0))
       /\ writing' \in IF ended /\ (late \/ ~captures[c].ok)
                       THEN {writing, writing \cup {c}} ELSE {writing}
       /\ helper' = Rest(IF helper.exited /\ slot = NoSlot THEN "left" ELSE "look", slot)
    /\ UNCHANGED <<program, hook>>

\* The process of the helper ends 0.3 seconds after its loop, or when it cannot find its
\* own program.
HelperEnds ==
    /\ \/ helper.step = "left" /\ Go("gone")
       \/ helper.step = "decide" /\ Dump(TRUE) /\ Go("died")
    /\ UNCHANGED <<program, hook, shared, captures, writing>>

\* The writer of the helper.
RemovePartial ==
    /\ helper.step \notin {"gone", "died"}
    /\ \E c \in writing :
          /\ writing' = writing \ {c}
          /\ captures' = [captures EXCEPT ![c].partial = FALSE]
    /\ UNCHANGED <<program, hook, shared, helper>>

--------------------------------------------------------------------------------
(* A capture process. *)

CaptureIs(c, r) ==
    /\ captures' = [captures EXCEPT ![c] = r]
    /\ UNCHANGED <<program, hook, shared, helper, writing>>

\* It clones the process, which must still be there, and opens its temporary file.
CloneProcess(c) ==
    /\ captures[c].step = "starts" /\ ~captures[c].killed
    /\ \/ /\ program = "runs"
          /\ CaptureIs(c, [captures[c] EXCEPT !.step = "cloned", !.partial = TRUE])
       \/ CaptureIs(c, Exited(FALSE, FALSE))

\* It reads the record of the crash from the shared memory.
ReadRecord(c) ==
    /\ captures[c].step = "cloned" /\ ~captures[c].killed
    /\ CaptureIs(c, [captures[c] EXCEPT !.step = "read", !.of = shared.thread])

\* How a dump can end: it is stopped when it grows too large or takes twelve seconds,
\* and a write of its own may fail.
DumpEnds == {end \in [ok : BOOLEAN, partial : BOOLEAN] : end.ok => ~end.partial}

\* A dump that fails, or is empty or too large, is removed; one that cannot be
\* flushed stays.
FinishDump(c) ==
    /\ captures[c].step = "read" /\ ~captures[c].killed
    /\ \E end \in DumpEnds : CaptureIs(c, Exited(end.ok, end.partial))

\* TerminateProcess: the process is gone a little later.
KilledEnds(c) ==
    /\ captures[c].killed /\ StillRuns(c)
    /\ CaptureIs(c, Exited(FALSE, captures[c].partial))

\* Fifteen seconds have passed since it was started (the helper asks once a round).
GrowOld(c) ==
    /\ StillRuns(c) /\ ~captures[c].old /\ helper.step = "look"
    /\ CaptureIs(c, [captures[c] EXCEPT !.old = TRUE])

--------------------------------------------------------------------------------
HelperStep == Look \/ SeeCrash \/ StartCapture \/ StartNone \/ Tend

MonitorNext ==
    \/ \E t \in Threads : Crash(t) \/ Publish(t) \/ StopWaiting(t)
    \/ Mirror \/ Quit
    \/ HelperStep \/ HelperEnds \/ RemovePartial
    \/ \E c \in DOMAIN captures : \/ CloneProcess(c) \/ ReadRecord(c) \/ FinishDump(c)
                                  \/ KilledEnds(c) \/ GrowOld(c)

MonitorSpec == MonitorInit /\ [][MonitorNext]_monitorVars

--------------------------------------------------------------------------------
\* A thread whose crash the helper has looked at is answered, or the dump of that very
\* crash is still being made and will be (windows.rs, helper).
Answered ==
    \A t \in Threads :
        /\ hook[t].step = "waits" /\ hook[t].number <= helper.seen
        /\ Watching /\ helper.step \notin {"decide", "tend"}
        => shared.answered \/ (helper.slot.crash = hook[t].number /\ ~helper.slot.late)

\* The one slot: no two captures clone the process at once (CaptureChild).
OneCapture ==
    Watching => \A c \in DOMAIN captures : StillRuns(c) => helper.slot.capture = c

\* The helper does not leave before it has seen every crash (the order of its reads).
NoneIsMissed == helper.step \in {"left", "gone"} => helper.seen = shared.number

\* The dump made for a crash whose thread still waits is about that thread.
DumpsMatch ==
    \A c \in DOMAIN captures, t \in Threads :
        /\ captures[c].crash # 0 /\ captures[c].of # None
        /\ hook[t].step = "waits" /\ hook[t].number = captures[c].crash
        => captures[c].of = t

\* A temporary file is removed only when nobody writes it any more.
PartialsAreDone == \A c \in writing : ~StillRuns(c)

\* What the helper promises: a crash it sees is answered, one dump is made at a time,
\* and no crash is missed (helper, notify_crash).
CrashesAreAnswered ==
    Answered /\ OneCapture /\ NoneIsMissed /\ DumpsMatch /\ PartialsAreDone
================================================================================
