------------------------------ MODULE ModelIpc ------------------------------
(***************************************************************************)
(* The connection between the desktop application and its model daemon:    *)
(* ModeldClient (ale-gui/src/modeld.rs) with its reader and writer tasks,  *)
(* the two directions of the pipe, and serve_connection                    *)
(* (ale-modeld/src/main.rs) with the jobs it runs.                         *)
(*                                                                         *)
(* Calls are scheduled jobs, the cancellation a dropped job sends, and     *)
(* control calls (health, configuration).  Bytes are abstracted: every     *)
(* frame has the same size, a limit by bytes that refuses a call or closes *)
(* the connection may be met at any time, and the sum the server keeps of  *)
(* the jobs it admitted counts one for each.                               *)
(***************************************************************************)
EXTENDS Integers, Sequences, FiniteSets

CONSTANTS
    Job,         \* scheduled jobs; every stage has an id of its own
    Control,     \* control calls
    NoCall,
    MaxPending,  \* MAX_PENDING: entries of the map, and of the writer's queue
    JobSlots,    \* permits of job_slots
    ServedJobs,  \* jobs the server admits
    ServedBytes, \* bytes of jobs the server admits
    ReplyCap     \* the server's queue of replies

ASSUME IpcAssumption ==
    /\ MaxPending \in Nat /\ ReplyCap \in Nat
    /\ JobSlots \in Nat /\ ServedJobs \in Nat /\ ServedBytes \in Nat

\* The server has room for all that the client may send: 32 jobs and 128 MiB on
\* both sides.
LimitsFit == JobSlots <= ServedJobs /\ JobSlots <= ServedBytes

JobCall == [kind: {"job"}, of: Job]
CancelCall == [kind: {"cancel"}, of: Job]
ControlCall == [kind: {"control"}, of: Control]
Call == JobCall \cup CancelCall \cup ControlCall

\* The call that cancels a job.
CancelOf(c) == [kind |-> "cancel", of |-> c.of]

ASSUME CallAssumption == NoCall \notin Call /\ IsFiniteSet(Call)

Reply == [call: Call, what: {"done", "cancelled", "refused"}]

VARIABLES
    caller,    \* none: not called yet; new, reserved, waiting, told; its end
    alive,     \* ModeldClient.alive
    pending,   \* ModeldClient.pending; an entry holds a permit of the job slots
    queue,     \* the channel to the writer task
    writer,    \* whether the writer task runs
    writing,   \* the call whose frame it writes
    reader,    \* whether the reader task runs
    toServer,  \* frames in the pipe and in the server's incoming channel
    toClient,  \* frames in the pipe
    serving,   \* whether serve_connection runs
    admitted,  \* keys of cancellations
    cancelled, \* those whose cancellation was sent
    bytes,     \* admitted_bytes
    running,   \* jobs of the FuturesUnordered
    replies    \* the channel of the server's writer task

\* History, read by properties only.
VARIABLES
    ran,       \* jobs the server ever ran
    answer,    \* what a caller was answered
    stopped    \* jobs whose cancellation the server has handled

callers == <<caller, answer>>
connection == <<alive, pending, queue, writer, writing, reader>>
server == <<serving, admitted, cancelled, bytes, running, replies, ran, stopped>>
vars == <<callers, connection, toServer, toClient, server>>

\* The type invariant, with the capacities of the two channels.
TypeOK ==
    /\ caller \in [Call -> {"none", "new", "reserved", "waiting", "told", "dropped",
                            "answered", "rejected", "failed", "refused", "gone"}]
    /\ alive \in BOOLEAN /\ writer \in BOOLEAN /\ reader \in BOOLEAN
    /\ pending \in SUBSET Call
    /\ queue \in Seq(Call) /\ Len(queue) <= MaxPending
    /\ toServer \in Seq(Call)
    /\ writing \in Call \cup {NoCall}
    /\ toClient \in Seq(Reply) /\ replies \in Seq(Reply)
    /\ Len(replies) <= ReplyCap
    /\ serving \in BOOLEAN
    /\ admitted \in SUBSET JobCall /\ cancelled \in SUBSET JobCall
    /\ running \in SUBSET JobCall
    /\ bytes \in Nat
    /\ ran \in SUBSET JobCall /\ stopped \in SUBSET JobCall
    /\ answer \in [Call -> {"none", "done", "cancelled", "refused"}]

\* from_stream, after the authentication; serve_connection before its loop.
Init ==
    /\ caller = [c \in Call |-> IF c \in CancelCall THEN "none" ELSE "new"]
    /\ alive = TRUE /\ writer = TRUE /\ reader = TRUE /\ serving = TRUE
    /\ pending = {} /\ queue = <<>> /\ writing = NoCall
    /\ toServer = <<>> /\ toClient = <<>> /\ replies = <<>>
    /\ admitted = {} /\ cancelled = {} /\ bytes = 0 /\ running = {}
    /\ ran = {} /\ stopped = {}
    /\ answer = [c \in Call |-> "none"]

-----------------------------------------------------------------------------
(***************************************************************************)
(* ModeldClient::call.                                                     *)
(***************************************************************************)

\* Variant: a job whose caller went away gives its permit back at once.
WaitingHolders == {c \in JobCall : caller[c] \in {"reserved", "waiting"}}

\* Jobs that hold a permit: those with an entry, and those about to make one.
SlotHolders == {c \in JobCall : c \in pending \/ caller[c] = "reserved"}

JobSlotFree == Cardinality(SlotHolders) < JobSlots

Set(c, place) == caller' = [caller EXCEPT ![c] = place] /\ UNCHANGED answer

\* The checks before the first await; the job's permit and the bytes are taken.
Reserve(c) ==
    /\ caller[c] = "new"
    /\ alive
    /\ c \in JobCall => JobSlotFree
    /\ Set(c, "reserved")
    /\ UNCHANGED <<connection, toServer, toClient, server>>

\* DEADLINE_EXCEEDED, IPC_CONNECTION_CLOSED, SCHEDULER_BUSY, IPC_FRAME_TOO_LARGE,
\* IPC_INFLIGHT_LIMIT.
Refuse(c) ==
    /\ caller[c] = "new"
    /\ Set(c, "refused")
    /\ UNCHANGED <<connection, toServer, toClient, server>>

\* The entry is made and the frame queued without an await in between.
Enqueue(c) ==
    /\ caller[c] = "reserved"
    /\ Cardinality(pending) < MaxPending
    /\ writer /\ Len(queue) < MaxPending
    /\ pending' = pending \cup {c}
    /\ queue' = Append(queue, c)
    /\ Set(c, "waiting")
    /\ UNCHANGED <<alive, writer, writing, reader, toServer, toClient, server>>

\* IPC_QUEUE_FULL, IPC_QUEUE_FULL_OR_CLOSED.
RefuseLate(c) ==
    /\ caller[c] = "reserved"
    /\ Cardinality(pending) >= MaxPending \/ ~writer \/ Len(queue) >= MaxPending
    /\ Set(c, "refused")
    /\ UNCHANGED <<connection, toServer, toClient, server>>

\* Variant: an error reply is taken for a result.
AnyReply(c) == "answered"

\* What the call returns: a reply with status Error is an error.
Returned(c) == IF answer[c] = "done" THEN "answered" ELSE "rejected"

\* The oneshot channel is read: the call returns.
TakeAnswer(c) ==
    /\ caller[c] = "told"
    /\ Set(c, Returned(c))
    /\ UNCHANGED <<connection, toServer, toClient, server>>

\* The caller's task is aborted, or its deadline has passed; the answer may be
\* in the oneshot channel already.
Abandon(c) ==
    /\ \/ caller[c] = "reserved" /\ Set(c, "gone")
       \/ caller[c] \in {"waiting", "told"} /\ Set(c, "dropped")
    /\ UNCHANGED <<connection, toServer, toClient, server>>

\* The task that PendingCall::drop spawns: a job keeps its entry and is
\* cancelled; any other call gives its entry up.
Cleanup(c) ==
    /\ caller[c] = "dropped"
    /\ \/ /\ c \in JobCall
          /\ caller' = [caller EXCEPT ![c] = "gone",
                ![CancelOf(c)] = IF alive THEN "new" ELSE @]
          /\ UNCHANGED pending
       \/ /\ c \notin JobCall
          /\ caller' = [caller EXCEPT ![c] = "gone"]
          /\ pending' = pending \ {c}
    /\ UNCHANGED <<answer, alive, queue, writer, writing, reader, toServer, toClient, server>>

\* Variant: whoever waits is told, but the entries stay.
TellOnly ==
    /\ UNCHANGED pending
    /\ caller' = [c \in Call |->
          IF c \in pending /\ caller[c] = "waiting" THEN "failed" ELSE caller[c]]
    /\ UNCHANGED answer

\* Every entry is drained, and whoever waits for it gets an error.
Drain ==
    /\ pending' = {}
    /\ caller' = [c \in Call |->
          IF c \in pending /\ caller[c] = "waiting" THEN "failed" ELSE caller[c]]
    /\ UNCHANGED answer

\* ModeldClient::terminate, by the supervisor; the process is killed as well.
Terminate ==
    /\ alive
    /\ alive' = FALSE
    /\ Drain
    /\ UNCHANGED <<queue, writer, writing, reader, toServer, toClient, server>>

-----------------------------------------------------------------------------
(***************************************************************************)
(* The writer and the reader task.                                         *)
(***************************************************************************)

\* The loop is left: the channel closes, whatever it holds is lost.
WriterEnds ==
    /\ alive' = FALSE
    /\ writer' = FALSE
    /\ writing' = NoCall
    /\ queue' = <<>>
    /\ Drain
    /\ UNCHANGED <<reader, toServer, toClient, server>>

Wanted(c) == c \in pending /\ caller[c] = "waiting"

WriterTakes ==
    /\ writer /\ writing = NoCall /\ queue # <<>> /\ alive
    /\ queue' = Tail(queue)
    /\ IF Wanted(Head(queue))
       THEN writing' = Head(queue) /\ UNCHANGED pending
       ELSE pending' = pending \ {Head(queue)} /\ UNCHANGED writing
    /\ UNCHANGED <<callers, alive, writer, reader, toServer, toClient, server>>

WriterSeesEnd ==
    /\ writer /\ writing = NoCall /\ queue # <<>> /\ ~alive
    /\ WriterEnds

WriterWrites ==
    /\ writing # NoCall
    /\ toServer' = IF serving THEN Append(toServer, writing) ELSE toServer
    /\ writing' = NoCall
    /\ UNCHANGED <<callers, alive, pending, queue, writer, reader, toClient, server>>

\* An error, or three seconds without progress.
WriterFails ==
    /\ writing # NoCall
    /\ WriterEnds

ReaderReceives ==
    LET reply == Head(toClient) IN
    /\ reader /\ toClient # <<>>
    /\ toClient' = Tail(toClient)
    /\ pending' = pending \ {reply.call}
    /\ IF Wanted(reply.call)
       THEN /\ caller' = [caller EXCEPT ![reply.call] = "told"]
            /\ answer' = [answer EXCEPT ![reply.call] = reply.what]
       ELSE UNCHANGED callers
    /\ UNCHANGED <<alive, queue, writer, writing, reader, toServer, server>>

\* The end of the stream, a bad frame, or IPC_INFLIGHT_LIMIT.
ReaderFails ==
    /\ reader
    /\ reader' = FALSE
    /\ alive' = FALSE
    /\ Drain
    /\ UNCHANGED <<queue, writer, writing, toServer, toClient, server>>

-----------------------------------------------------------------------------
(***************************************************************************)
(* serve_connection.                                                       *)
(***************************************************************************)

\* Shutdown, an error, a limit, or the end of the process: the jobs are dropped,
\* and so are the frames that were not read.  The writer task still has time for
\* the replies it holds; a reader that fails before loses them.
ServerEnds ==
    /\ serving
    /\ serving' = FALSE
    /\ admitted' = {} /\ cancelled' = {} /\ running' = {} /\ bytes' = 0
    /\ toServer' = <<>>
    /\ UNCHANGED <<callers, connection, toClient, replies, ran, stopped>>

\* replies.try_send: it may fail for a full queue, or for the bytes, and then the
\* connection ends: ServerEnds.
ReplyFits == Len(replies) < ReplyCap
SendReply(c, what) ==
    ReplyFits /\ replies' = Append(replies, [call |-> c, what |-> what])

\* Variant: frames are handled as tasks get hold of them.
ReceiveAny(c) ==
    /\ serving
    /\ \E i \in 1..Len(toServer) :
          /\ c = toServer[i]
          /\ toServer' = SubSeq(toServer, 1, i - 1) \o SubSeq(toServer, i + 1, Len(toServer))

Receive(c) ==
    /\ serving /\ toServer # <<>>
    /\ c = Head(toServer)
    /\ toServer' = Tail(toServer)

\* Neither SCHEDULER_BUSY nor DUPLICATE_REQUEST_ID.
Admissible(c) ==
    /\ c \notin admitted
    /\ Cardinality(admitted) < ServedJobs
    /\ bytes + 1 <= ServedBytes

AdmitJob(c) ==
    /\ Receive(c)
    /\ Admissible(c)
    /\ admitted' = admitted \cup {c}
    /\ bytes' = bytes + 1
    /\ running' = running \cup {c}
    /\ ran' = ran \cup {c}
    /\ UNCHANGED <<callers, connection, toClient, serving, cancelled, replies, stopped>>

RefuseJob(c) ==
    /\ Receive(c)
    /\ ~Admissible(c)
    /\ SendReply(c, "refused")
    /\ UNCHANGED <<callers, connection, toClient, serving, admitted, cancelled, bytes>>
    /\ UNCHANGED <<running, ran, stopped>>

\* Variant: a cancelled job loses its admission before it has ended.
AdmittedWithout(c) == admitted \ {c}

\* The entry is replaced by one nobody listens to: the admission is kept until
\* the cancelled job has been dropped.
AdmittedAfterCancel(c) == admitted

CancelJob(c) ==
    /\ Receive(CancelOf(c))
    /\ admitted' = AdmittedAfterCancel(c)
    /\ cancelled' = cancelled \cup (admitted \cap {c})
    /\ stopped' = stopped \cup {c}
    /\ SendReply(CancelOf(c), "done")
    /\ UNCHANGED <<callers, connection, toClient, serving, bytes, running, ran>>

ServeControl(c) ==
    /\ Receive(c)
    /\ SendReply(c, "done")
    /\ UNCHANGED <<callers, connection, toClient, serving, admitted, cancelled, bytes>>
    /\ UNCHANGED <<running, ran, stopped>>

\* The job's future ends, by itself or by its cancellation; both may be ready.
JobEnds(c) ==
    /\ serving
    /\ c \in running
    /\ running' = running \ {c}
    /\ IF c \in admitted
       THEN admitted' = admitted \ {c} /\ bytes' = bytes - 1
       ELSE UNCHANGED <<admitted, bytes>>
    /\ cancelled' = cancelled \ {c}
    /\ SendReply(c, "done") \/ (c \in cancelled /\ SendReply(c, "cancelled"))
    /\ UNCHANGED <<callers, connection, toServer, toClient, serving, ran, stopped>>

ServerWrites ==
    /\ replies # <<>>
    /\ toClient' = Append(toClient, Head(replies))
    /\ replies' = Tail(replies)
    /\ UNCHANGED <<callers, connection, toServer, serving, admitted, cancelled, bytes>>
    /\ UNCHANGED <<running, ran, stopped>>

-----------------------------------------------------------------------------

CallStep(c) ==
    \/ Reserve(c)
    \/ Refuse(c)
    \/ Enqueue(c)
    \/ RefuseLate(c)
    \/ TakeAnswer(c)

Transport ==
    \/ WriterTakes
    \/ WriterSeesEnd
    \/ WriterWrites
    \/ ReaderReceives

Serve ==
    \/ \E c \in JobCall : AdmitJob(c) \/ RefuseJob(c) \/ CancelJob(c) \/ JobEnds(c)
    \/ \E c \in ControlCall : ServeControl(c)
    \/ ServerWrites

Next ==
    \/ \E c \in Call : CallStep(c) \/ Abandon(c) \/ Cleanup(c)
    \/ Terminate
    \/ Transport
    \/ WriterFails
    \/ ReaderFails
    \/ Serve
    \/ ServerEnds

Spec == Init /\ [][Next]_vars
(***************************************************************************)
(* Fairness.  The tasks of both sides are scheduled; a job ends, since     *)
(* schedule() gives it a deadline, whenever the queue of replies has room; *)
(* the end of the stream is noticed.  Calls are finite in number, so it is *)
(* enough that some job ends and some dropped call is cleaned up.  The     *)
(* callers owe nothing.                                                    *)
(***************************************************************************)
Fairness ==
    /\ WF_vars(Transport)
    /\ WF_vars(Serve)
    /\ WF_vars(~serving /\ replies = <<>> /\ toClient = <<>> /\ ReaderFails)
    /\ WF_vars(\E c \in Call : Cleanup(c))
    /\ SF_vars(\E c \in JobCall : JobEnds(c))

FairSpec == Spec /\ Fairness

-----------------------------------------------------------------------------
(***************************************************************************)
(* Properties.                                                             *)
(***************************************************************************)

\* Whoever waits for a job is answered with the result of its run, never with a
\* cancellation or a refusal: a job is cancelled only after its caller has gone,
\* and the permits of the client keep the server from being busy (LimitsFit),
\* although a dropped waiter gives up its call long before the job ends.
AnswersAreGenuine ==
    \A c \in JobCall : caller[c] \in {"told", "answered"} => answer[c] = "done" /\ c \in ran

\* The admission of a job is kept until the job has really been dropped, and what
\* is admitted is what is counted.
AdmissionIsExact == running = admitted /\ bytes = Cardinality(admitted)

\* A cancellation never overtakes its job: once the server has handled it, the job
\* does not start.
CancelledNeverStarts ==
    [][\A c \in stopped : c \in running' => c \in running]_vars

\* The entries of all calls, and the permits jobs hold with them, come back:
\* whether a call is answered, dropped and cancelled, or its connection is lost.
EntriesReturn == <>[](pending = {})

\* What a caller sees of a job, in terms of ModelCalls.
Outcome(place) ==
    CASE place \in {"none", "new"} -> "new"
      [] place \in {"reserved", "waiting", "told"} -> "open"
      [] place \in {"dropped", "failed", "gone"} -> "lost"
      [] place \in {"refused", "rejected"} -> "refused"
      [] OTHER -> place

Calls == INSTANCE ModelCalls WITH
    Job <- JobCall,
    outcome <- [c \in JobCall |-> Outcome(caller[c])]

\* The connection does for each job what ModelCalls promises.
ImplementsCalls == Calls!Spec

=============================================================================
