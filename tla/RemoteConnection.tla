-------------------------- MODULE RemoteConnection --------------------------
(***************************************************************************)
(* One authenticated phone connection of the desktop application: the      *)
(* select loop of handle_connection in ale-gui/src/remote_server.rs, the   *)
(* inference task and the execution task it spawns, the native worker that *)
(* performs a confirmed plan, and the decision card the desktop shows.     *)
(*                                                                         *)
(* A JOB is one request the server accepted (a text command or an audio    *)
(* upload).  The code knows jobs only by the request id the phone chose,   *)
(* so idOf maps a job to its id and two jobs may share one.  The plan a    *)
(* job produced is named by the job.  0 (None) is the code's Option::None. *)
(***************************************************************************)
EXTENDS Integers, Sequences, FiniteSets

CONSTANTS
    RequestId,        \* the request ids the phone uses
    MaxJobs,          \* bound: jobs accepted in one behaviour
    MaxPendingPlans,  \* MAX_PENDING_PLANS
    PlanLength,       \* actions in a plan (a plan is never empty)
    MaxUnexpected,    \* unexpected messages in a row that end the connection
    Modes,            \* the planning modes of the desktop under study
    ReuseIds,         \* may the phone use a request id a second time?
    MixUploads        \* may the phone mix an upload with other requests?

ASSUME BoundsAssumption ==
    /\ RequestId # {}
    /\ MaxJobs \in Nat \ {0}
    /\ MaxPendingPlans \in Nat \ {0}
    /\ PlanLength \in Nat \ {0}
    /\ MaxUnexpected \in Nat \ {0}
    /\ Modes \subseteq {"local", "askModel", "askScreenshot", "unavailable"}
    /\ ReuseIds \in BOOLEAN
    /\ MixUploads \in BOOLEAN

None == 0
Jobs == 1..MaxJobs
JobOrNone == 0..MaxJobs

DecisionKind == {"UseRemoteModel", "UploadFullScreenshot"}
Outcome == {"plan", "answer", "error"}
EventKind == {"completed", "failed", "timeout", "TimedOut", "FinishedAfterTimeout"}

VARIABLES
    mode,         \* how a request is planned: fixed when the server starts
    phase,        \* "hello" until ClientHello, then "ready", then "closed"
    paused,       \* the desktop paused this connection
    unexpected,   \* unexpected_messages
    lastJob,      \* jobs accepted so far
    idOf,         \* request id of a job: the phone's choice, made beforehand
    audio,        \* active_audio: the job being uploaded
    hasAudio,     \* the upload holds at least one chunk
    processing,   \* the job whose inference task runs
    deferred,     \* the job waiting for a decision ...
    decisionKind, \* ... and what is being decided
    pending,      \* PendingPlans: jobs whose plan waits for confirmation
    execution,    \* the job whose plan runs, as the connection sees it
    shown,        \* the decision card of the desktop session
    task,         \* the inference task of a job
    results,      \* processing_tx -> processing_rx
    run,          \* the execution task of a job
    detached,     \* jobs whose execution task was aborted
    cancelled,    \* jobs whose ExecutionControl is cancelled
    expired,      \* jobs whose execution deadline has passed
    worker,       \* the native worker of a job (spawn_blocking)
    acts,         \* native actions the worker has performed
    automation,   \* holder of the automation lock
    events        \* execution_tx -> execution_rx

(***************************************************************************)
(* History, read by properties only.                                       *)
(***************************************************************************)
VARIABLES
    owed,         \* accepted requests that still await an answer
    owedRun,      \* confirmed plans that still await a report
    withdrawn,    \* jobs cancelled by the phone or by a pause
    previewed,    \* jobs whose plan was shown to the user
    approved,     \* jobs whose shown plan the user approved
    starts,       \* times the plan of a job was handed to the worker
    lateActs,     \* native actions begun after a stop was requested
    reported      \* jobs reported "completed" to the phone

conn == <<mode, phase, paused, unexpected, lastJob, idOf>>
slots == <<audio, hasAudio, processing, deferred, decisionKind, pending, execution, shown>>
inference == <<task, results>>
executor == <<run, detached, cancelled, expired, worker, acts, automation, events>>
history == <<owed, owedRun, withdrawn, previewed, approved, starts, lateActs, reported>>
vars == <<conn, slots, inference, executor, history>>

NoCard == [job |-> None, kind |-> "none"]
Card == [job: JobOrNone, kind: {"none", "plan"} \cup DecisionKind]

Result == [job: Jobs, outcome: Outcome]
Event == [job: Jobs, kind: EventKind]

ConnType ==
    /\ mode \in Modes
    /\ phase \in {"hello", "ready", "closed"}
    /\ paused \in BOOLEAN
    /\ unexpected \in 0..(MaxUnexpected - 1)
    /\ lastJob \in JobOrNone
    /\ idOf \in [Jobs -> RequestId]

SlotsType ==
    /\ audio \in JobOrNone /\ hasAudio \in BOOLEAN
    /\ processing \in JobOrNone
    /\ deferred \in JobOrNone /\ decisionKind \in DecisionKind
    /\ pending \in SUBSET Jobs
    /\ execution \in JobOrNone
    /\ shown \in Card

InferenceType ==
    /\ task \in [Jobs -> {"none", "running", "aborted", "ended"}]
    /\ results \in Seq(Result)

ExecutorType ==
    /\ run \in [Jobs -> {"none", "capturing", "waiting", "verifying", "late", "ended"}]
    /\ detached \in SUBSET Jobs
    /\ cancelled \in SUBSET Jobs
    /\ expired \in SUBSET Jobs
    /\ worker \in [Jobs -> {"none", "lock", "check", "armed", "done", "failed"}]
    /\ acts \in [Jobs -> 0..PlanLength]
    /\ automation \in JobOrNone
    /\ events \in Seq(Event)

HistoryType ==
    /\ owed \in SUBSET Jobs /\ owedRun \in SUBSET Jobs
    /\ withdrawn \in SUBSET Jobs /\ previewed \in SUBSET Jobs
    /\ approved \in SUBSET Jobs /\ reported \in SUBSET Jobs
    /\ starts \in [Jobs -> Nat]
    /\ lateActs \in [Jobs -> Nat]

\* The type invariant.  It is not trivial for two fields: the counter of
\* unexpected messages stays below the limit that ends the connection, and a
\* worker never performs more actions than its plan has.
TypeOK == ConnType /\ SlotsType /\ InferenceType /\ ExecutorType /\ HistoryType

Init ==
    /\ mode \in Modes
    /\ phase = "hello" /\ paused = FALSE /\ unexpected = 0
    /\ lastJob = 0
    /\ idOf \in [Jobs -> RequestId]
    /\ ~ReuseIds => \A m, n \in Jobs : idOf[m] = idOf[n] => m = n
    /\ audio = None /\ hasAudio = FALSE
    /\ processing = None
    /\ deferred = None /\ decisionKind = "UseRemoteModel"
    /\ pending = {} /\ execution = None /\ shown = NoCard
    /\ task = [n \in Jobs |-> "none"] /\ results = <<>>
    /\ run = [n \in Jobs |-> "none"] /\ detached = {}
    /\ cancelled = {} /\ expired = {}
    /\ worker = [n \in Jobs |-> "none"]
    /\ acts = [n \in Jobs |-> 0]
    /\ automation = None /\ events = <<>>
    /\ owed = {} /\ owedRun = {} /\ withdrawn = {}
    /\ previewed = {} /\ approved = {} /\ reported = {}
    /\ starts = [n \in Jobs |-> 0]
    /\ lateActs = [n \in Jobs |-> 0]

-----------------------------------------------------------------------------
(***************************************************************************)
(* Helpers.                                                                *)
(***************************************************************************)

Some(n) == {n} \ {None}

\* The jobs, accepted so far, that carry this request id.
WithId(S, id) == {n \in S \ {None} : idOf[n] = id}

\* Dropping a ProcessingRequest aborts its task.
AbortTasks(S) ==
    task' = [n \in Jobs |-> IF n \in S /\ task[n] = "running" THEN "aborted" ELSE task[n]]

\* Variant: the task is aborted, but its control is not cancelled.
AbortWithoutCancel(S) == detached' = detached \cup S /\ UNCHANGED cancelled

\* Dropping a RemoteExecution cancels its control, then aborts its task.
DropExecutions(S) ==
    /\ cancelled' = cancelled \cup S
    /\ detached' = detached \cup S

\* Variant: a reply leaves the card.
CardKept(card, id) == card

\* The card is cleared by an Error or ExecutionStatus that names its request.
CardAfterReply(card, id) == IF card.job \in WithId({card.job}, id) THEN NoCard ELSE card

\* A reply that names a request id settles what the phone awaits under it.
Settle(id) ==
    /\ owed' = owed \ WithId(owed, id)
    /\ owedRun' = owedRun \ WithId(owedRun, id)

ErrorReply(id) ==
    /\ shown' = CardAfterReply(shown, id)
    /\ Settle(id)

Send(queue, message) == IF phase = "closed" THEN queue ELSE Append(queue, message)

\* The connection ends: every local of handle_connection is dropped, the
\* session leaves the hub, and the channels close.
EndConnection ==
    /\ phase' = "closed"
    /\ AbortTasks(Some(processing))
    /\ DropExecutions(Some(execution))
    /\ audio' = None /\ hasAudio' = FALSE /\ processing' = None
    /\ deferred' = None /\ execution' = None /\ pending' = {}
    /\ shown' = NoCard
    /\ results' = <<>> /\ events' = <<>>
    /\ owed' = {} /\ owedRun' = {}
    /\ UNCHANGED <<mode, paused, unexpected, lastJob, idOf, decisionKind>>
    /\ UNCHANGED <<run, expired, worker, acts, automation>>
    /\ UNCHANGED <<withdrawn, previewed, approved, starts, lateActs, reported>>

-----------------------------------------------------------------------------
(***************************************************************************)
(* The wire and the desktop's controls.                                    *)
(***************************************************************************)

Ready == phase = "ready"

\* Variant: no message filter while paused.
AcceptingAlways == Ready

\* While paused, requests, uploads, confirmations and decisions are refused.
Accepting == Ready /\ ~paused

\* Variant: a request that is being planned does not keep a new one out.
BusyWhileDeciding == deferred # None \/ execution # None

\* The three slots a new request is checked against; not active_audio.
Busy == deferred # None \/ processing # None \/ execution # None

\* Variant: every result is taken for the current one.
AnyMatches(n, current) == TRUE

\* Results and events are matched with the current request by its id alone.
Matches(n, current) == idOf[n] = idOf[current]

\* Variant: the plan is copied out of the map.
CopiedPlans(id) == pending

\* PendingPlans::take removes the plan of a request id.
PlansLeft(id) == pending \ WithId(pending, id)

\* Variant: any pending plan is confirmed.
AnyPlan(id) == pending

\* The plan a confirmation of this request id finds.
Confirmable(id) == WithId(pending, id)

\* Before ClientHello nothing is accepted; a ClientHello whose pairing code
\* was rotated or has expired ends the connection (see Close).
ClientHello ==
    /\ phase = "hello"
    /\ phase' = "ready"
    /\ UNCHANGED <<mode, paused, unexpected, lastJob, idOf>>
    /\ UNCHANGED <<slots, inference, executor, history>>

\* Socket closed or failed, idle timeout, send timeout, Control::Disconnect,
\* expired pairing, a message before ClientHello.
Close == phase # "closed" /\ EndConnection

\* So many unexpected messages in a row are a protocol violation.
TooMany(count) == count >= MaxUnexpected

\* A message the handler does not expect.
Unexpected(card) ==
    IF TooMany(unexpected + 1)
    THEN EndConnection
    ELSE /\ unexpected' = unexpected + 1
         /\ shown' = card
         /\ UNCHANGED <<mode, phase, paused, lastJob, idOf, audio, hasAudio, processing>>
         /\ UNCHANGED <<deferred, decisionKind, pending, execution>>
         /\ UNCHANGED <<inference, executor, history>>

UnexpectedMessage == Ready /\ Unexpected(shown)

Handled ==
    /\ unexpected' = 0
    /\ UNCHANGED <<mode, phase, paused>>

FreshId(id) == ~ReuseIds => \A n \in 1..lastJob : idOf[n] # id

NewJob ==
    /\ lastJob < MaxJobs
    /\ lastJob' = lastJob + 1
    /\ idOf' = idOf

\* A message refused with an Error that names its request: the paused filter,
\* the rate limiter, validation, SERVER_BUSY, AUDIO_BUSY.  While paused the
\* counter of unexpected messages keeps its value.
Refuse(id) ==
    /\ Ready /\ FreshId(id)
    /\ unexpected' = IF paused THEN unexpected ELSE 0
    /\ ErrorReply(id)
    /\ UNCHANGED <<mode, phase, paused, lastJob, idOf, inference, executor>>
    /\ UNCHANGED <<audio, hasAudio, processing, deferred, decisionKind, pending, execution>>
    /\ UNCHANGED <<withdrawn, previewed, approved, starts, lateActs, reported>>

\* start_remote_request: the task that was in the slot, if any, is dropped.
StartInference(n) ==
    /\ processing' = n
    /\ task' = [m \in Jobs |-> IF m = n THEN "running"
                               ELSE IF m = processing /\ task[m] = "running" THEN "aborted"
                               ELSE task[m]]

\* send_decision_request: whatever was deferred before is replaced.
AskDecision(n, kind) ==
    /\ deferred' = n
    /\ decisionKind' = kind
    /\ shown' = [job |-> n, kind |-> kind]

\* The tail that CommandRequest and AudioEnd share: plan locally, ask the user
\* first, or report that no scheduler or no global request slot is available.
Admit(n, id) ==
    \/ /\ mode \in {"unavailable", "local"}
       /\ ErrorReply(id)
       /\ UNCHANGED <<processing, deferred, decisionKind, task>>
    \/ /\ mode = "local"
       /\ StartInference(n)
       /\ owed' = owed \cup {n}
       /\ UNCHANGED <<deferred, decisionKind, shown, owedRun>>
    \/ /\ mode \in {"askModel", "askScreenshot"}
       /\ AskDecision(n, IF mode = "askModel" THEN "UseRemoteModel" ELSE "UploadFullScreenshot")
       /\ owed' = owed \cup {n}
       /\ UNCHANGED <<processing, task, owedRun>>

\* A text request may arrive during an upload: the server does not look at it.
CommandRequest ==
    /\ Accepting
    /\ ~MixUploads => audio = None
    /\ ~Busy
    /\ Handled
    /\ NewJob
    /\ Admit(lastJob + 1, idOf[lastJob + 1])
    /\ UNCHANGED <<audio, hasAudio, pending, execution, results, executor>>
    /\ UNCHANGED <<withdrawn, previewed, approved, starts, lateActs, reported>>

AudioStart ==
    /\ Accepting
    /\ audio = None /\ ~Busy
    /\ Handled
    /\ NewJob
    /\ audio' = lastJob + 1 /\ hasAudio' = FALSE
    /\ owed' = owed \cup {lastJob + 1}
    /\ UNCHANGED <<processing, deferred, decisionKind, pending, execution, shown>>
    /\ UNCHANGED <<inference, executor>>
    /\ UNCHANGED <<owedRun, withdrawn, previewed, approved, starts, lateActs, reported>>

\* A phone that does not mix its requests names the upload it started.
UploadId(id) == ~MixUploads /\ audio # None => id = idOf[audio]

\* AudioAssembler::push: a chunk of another request, out of sequence, badly
\* encoded or beyond the limit discards the upload.
AudioChunk(id) ==
    /\ Accepting
    /\ UploadId(id)
    /\ Handled
    /\ \/ /\ audio # None /\ id = idOf[audio]
          /\ hasAudio' = TRUE
          /\ UNCHANGED <<audio, shown, owed, owedRun>>
       \/ /\ audio' = None /\ hasAudio' = FALSE
          /\ ErrorReply(id)
    /\ UNCHANGED <<lastJob, idOf, processing, deferred, decisionKind, pending, execution>>
    /\ UNCHANGED <<inference, executor>>
    /\ UNCHANGED <<withdrawn, previewed, approved, starts, lateActs, reported>>

\* AudioEnd takes the upload whatever the outcome of AudioAssembler::finish.
\* It looks neither at processing nor at deferred nor at execution.
AudioEnd(id) ==
    /\ Accepting
    /\ UploadId(id)
    /\ Handled
    /\ audio' = None /\ hasAudio' = FALSE
    /\ \/ /\ audio # None /\ id = idOf[audio] /\ hasAudio
          /\ Admit(audio, id)
       \/ /\ ErrorReply(id)
          /\ UNCHANGED <<processing, deferred, decisionKind, task>>
    /\ UNCHANGED <<lastJob, idOf, pending, execution, results, executor>>
    /\ UNCHANGED <<withdrawn, previewed, approved, starts, lateActs, reported>>

\* CancelRequest is served while paused too.
CancelRequest(id) ==
    LET mine(n) == n # None /\ idOf[n] = id
        dropped == WithId({audio, processing, execution, deferred} \cup pending, id)
    IN  /\ Ready
        /\ Handled
        /\ audio' = IF mine(audio) THEN None ELSE audio
        /\ hasAudio' = (hasAudio /\ ~mine(audio))
        /\ processing' = IF mine(processing) THEN None ELSE processing
        /\ deferred' = IF mine(deferred) THEN None ELSE deferred
        /\ execution' = IF mine(execution) THEN None ELSE execution
        /\ pending' = PlansLeft(id)
        /\ AbortTasks(WithId({processing}, id))
        /\ DropExecutions(WithId({execution}, id))
        /\ shown' = CardAfterReply(shown, id)
        /\ Settle(id)
        /\ withdrawn' = withdrawn \cup dropped
        /\ UNCHANGED <<lastJob, idOf, decisionKind, results>>
        /\ UNCHANGED <<run, expired, worker, acts, automation, events>>
        /\ UNCHANGED <<previewed, approved, starts, lateActs, reported>>

\* Pause and resume both drop everything the connection holds and answer each
\* dropped request with CANCELLED.
Pause(value) ==
    /\ Ready
    /\ paused' = value
    /\ audio' = None /\ hasAudio' = FALSE /\ processing' = None
    /\ execution' = None /\ deferred' = None /\ pending' = {}
    /\ AbortTasks(Some(processing))
    /\ DropExecutions(Some(execution))
    /\ shown' = NoCard
    /\ withdrawn' = withdrawn \cup pending \cup ({audio, processing, execution, deferred} \ {None})
    /\ owed' = owed \ {audio, processing, deferred}
    /\ owedRun' = owedRun \ {execution}
    /\ UNCHANGED <<mode, phase, unexpected, lastJob, idOf, decisionKind, results>>
    /\ UNCHANGED <<run, expired, worker, acts, automation, events>>
    /\ UNCHANGED <<previewed, approved, starts, lateActs, reported>>

\* The desktop user answers the card: it disappears at once and the reply
\* reaches the loop later, as a ConfirmExecution or a DecisionResponse.
DesktopDecide ==
    /\ Ready /\ ~paused /\ shown # NoCard
    /\ shown' = NoCard
    /\ UNCHANGED <<conn, audio, hasAudio, processing, deferred, decisionKind, pending, execution>>
    /\ UNCHANGED <<inference, executor, history>>
-----------------------------------------------------------------------------
(***************************************************************************)
(* Confirmation and decisions: the user, on the phone or at the desktop,   *)
(* answers what he was shown for job n; the message carries its id only.   *)
(***************************************************************************)

\* PendingPlans keeps the plan under its request id, so a confirmation takes
\* whichever plan is pending under that id.
ConfirmExecution(n, yes) ==
    LET id == idOf[n]
        card == IF shown.kind = "plan" THEN CardAfterReply(shown, id) ELSE shown
        taken == Confirmable(id)
    IN
    /\ Accepting
    /\ n <= lastJob
    /\ Handled
    /\ \/ /\ execution # None
          /\ shown' = CardAfterReply(shown, id)
          /\ UNCHANGED <<pending, execution, run, owedRun, withdrawn, approved, starts>>
       \/ /\ execution = None
          /\ ~yes
          /\ pending' = PlansLeft(id)
          /\ withdrawn' = withdrawn \cup taken
          /\ shown' = CardAfterReply(card, id)
          /\ UNCHANGED <<execution, run, owedRun, approved, starts>>
       \/ /\ execution = None
          /\ yes
          /\ taken = {}
          /\ shown' = CardAfterReply(card, id)
          /\ UNCHANGED <<pending, execution, run, owedRun, withdrawn, approved, starts>>
       \/ /\ execution = None
          /\ yes
          /\ \E p \in taken :
                /\ pending' = PlansLeft(id)
                /\ execution' = p
                /\ run' = [run EXCEPT ![p] = "capturing"]
                /\ owedRun' = owedRun \cup {p}
                /\ starts' = [starts EXCEPT ![p] = @ + 1]
          /\ shown' = card
          /\ approved' = approved \cup ({n} \cap previewed)
          /\ UNCHANGED withdrawn
    /\ UNCHANGED <<lastJob, idOf, audio, hasAudio, processing, deferred, decisionKind>>
    /\ UNCHANGED <<inference, detached, cancelled, expired, worker, acts, automation, events>>
    /\ UNCHANGED <<owed, previewed, lateActs, reported>>

\* The card is cleared when its own decision is answered.
CardAfterDecision(n, kind) == IF shown = [job |-> n, kind |-> kind] THEN NoCard ELSE shown

\* handle_decision_response.  The decision id names one job and one kind.
DecisionResponse(n, kind, yes) ==
    /\ Accepting
    /\ n <= lastJob
    /\ deferred = n /\ decisionKind = kind
    /\ Handled
    /\ \/ \* refused, expired, busy, or no global request slot: an Error reply
          /\ deferred' = None
          /\ ErrorReply(idOf[n])
          /\ UNCHANGED <<processing, decisionKind, task>>
       \/ /\ kind = "UseRemoteModel" /\ yes
          /\ AskDecision(n, "UploadFullScreenshot")
          /\ UNCHANGED <<processing, task, owed, owedRun>>
       \/ /\ kind = "UploadFullScreenshot"
          /\ processing = None /\ execution = None
          /\ deferred' = None
          /\ StartInference(n)
          /\ shown' = CardAfterDecision(n, kind)
          /\ UNCHANGED <<decisionKind, owed, owedRun>>
    /\ UNCHANGED <<lastJob, idOf, audio, hasAudio, pending, execution>>
    /\ UNCHANGED <<results, executor>>
    /\ UNCHANGED <<withdrawn, previewed, approved, starts, lateActs, reported>>

\* An answer to a decision that is not open.
StaleDecision(n, kind) ==
    /\ Accepting
    /\ n <= lastJob
    /\ ~(deferred = n /\ decisionKind = kind)
    /\ Unexpected(CardAfterDecision(n, kind))

\* Variant: the tick is polled while a request is processed.
DecisionTickIfProcessing == Ready /\ deferred # None /\ processing # None

\* The 250 ms maintenance tick is polled while a decision is open.
DecisionTick == Ready /\ deferred # None

\* The tick finds the decision older than 30 s.
DecisionTimeout ==
    /\ DecisionTick
    /\ deferred' = None
    /\ ErrorReply(idOf[deferred])
    /\ UNCHANGED <<conn, audio, hasAudio, processing, decisionKind, pending, execution>>
    /\ UNCHANGED <<inference, executor>>
    /\ UNCHANGED <<withdrawn, previewed, approved, starts, lateActs, reported>>

\* PENDING_PLAN_TTL passes.  The map is purged lazily, before every lookup,
\* so the plan can no longer be taken from this moment on; the card carries
\* the same expiry.
PlanExpires(n) ==
    /\ Ready
    /\ n \in pending
    /\ pending' = pending \ {n}
    /\ shown' = IF shown = [job |-> n, kind |-> "plan"] THEN NoCard ELSE shown
    /\ UNCHANGED <<conn, audio, hasAudio, processing, deferred, decisionKind, execution>>
    /\ UNCHANGED <<inference, executor, history>>

-----------------------------------------------------------------------------
(***************************************************************************)
(* The inference task and its results.                                     *)
(***************************************************************************)

\* The task ends by itself or at REQUEST_TIMEOUT.  An aborted task that was in
\* its last poll still sends.
TaskFinishes(n, outcome) ==
    /\ task[n] \in {"running", "aborted"}
    /\ task' = [task EXCEPT ![n] = "ended"]
    /\ results' = Send(results, [job |-> n, outcome |-> outcome])
    /\ UNCHANGED <<conn, slots, executor, history>>

AbortLands(n) ==
    /\ task[n] = "aborted"
    /\ task' = [task EXCEPT ![n] = "ended"]
    /\ UNCHANGED <<conn, slots, results, executor, history>>

\* PendingPlans::insert: an older plan of the same request id is replaced.
RoomFor(id) == Cardinality(PlansLeft(id)) < MaxPendingPlans
                \/ WithId(pending, id) # {}

\* publish_processing_result for a result that matches the current request.
Publish(r) ==
    LET id == idOf[r.job] IN
    \/ /\ r.outcome = "plan"
       /\ RoomFor(id)
       /\ pending' = PlansLeft(id) \cup {r.job}
       /\ shown' = [job |-> r.job, kind |-> "plan"]
       /\ previewed' = previewed \cup {r.job}
       /\ Settle(id)
    \/ /\ r.outcome = "answer"
       /\ Settle(id)
       /\ UNCHANGED <<pending, shown, previewed>>
    \/ /\ r.outcome = "error" \/ (r.outcome = "plan" /\ ~RoomFor(id))
       /\ ErrorReply(id)
       /\ UNCHANGED <<pending, previewed>>

\* processing_rx is polled only while a request is being processed.
ReceiveResult ==
    LET r == Head(results) IN
    /\ Ready
    /\ processing # None
    /\ results # <<>>
    /\ results' = Tail(results)
    /\ IF Matches(r.job, processing)
       THEN /\ processing' = None
            /\ AbortTasks({processing})
            /\ Publish(r)
       ELSE UNCHANGED <<processing, task, pending, shown, previewed, owed, owedRun>>
    /\ UNCHANGED <<conn, audio, hasAudio, deferred, decisionKind, execution, executor>>
    /\ UNCHANGED <<withdrawn, approved, starts, lateActs, reported>>
-----------------------------------------------------------------------------
(***************************************************************************)
(* The execution task of job n (start_remote_execution).  A task that was  *)
(* aborted may complete the poll it was in, and nothing after it.          *)
(***************************************************************************)

AfterStep(n, state) == IF n \in detached THEN "ended" ELSE state

Emit(n, kind) == events' = Send(events, [job |-> n, kind |-> kind])

StopRequested(n) == n \in cancelled \cup expired
WorkerEnded(n) == worker[n] \in {"done", "failed"}

\* The screen no longer is the one the plan was made for.
SnapshotExpired(n) ==
    /\ run[n] = "capturing"
    /\ run' = [run EXCEPT ![n] = "ended"]
    /\ Emit(n, "failed")
    /\ UNCHANGED <<conn, slots, inference, history>>
    /\ UNCHANGED <<detached, cancelled, expired, worker, acts, automation>>

StartWorker(n) ==
    /\ run[n] = "capturing"
    /\ run' = [run EXCEPT ![n] = AfterStep(n, "waiting")]
    /\ worker' = [worker EXCEPT ![n] = "lock"]
    /\ UNCHANGED <<conn, slots, inference, history>>
    /\ UNCHANGED <<detached, cancelled, expired, acts, automation, events>>

\* Variants: the worker's own result is not looked at; a report is made only
\* before the deadline.
VerdictOfPlan(n) == IF n \in expired THEN "timeout" ELSE "completed"
InTimeOnly(n) == WorkerEnded(n) /\ n \notin expired

\* What an execution whose worker has ended reports: CONFIRM_TIMEOUT when the
\* deadline has passed meanwhile, else the worker's own status.
Verdict(n) ==
    IF n \in expired THEN "timeout" ELSE IF worker[n] = "done" THEN "completed" ELSE "failed"

\* timeout_at prefers the worker's end to the deadline.
Joinable(n) == WorkerEnded(n)

WorkerJoined(n) ==
    /\ run[n] = "waiting" /\ Joinable(n)
    /\ run' = [run EXCEPT ![n] = "ended"]
    /\ Emit(n, Verdict(n))
    /\ UNCHANGED <<conn, slots, inference, history>>
    /\ UNCHANGED <<detached, cancelled, expired, worker, acts, automation>>

\* A plan of the controlled test is verified first: a new screenshot goes to
\* the model, which may not observe the expected state.
VerifyOutcome(n) ==
    /\ run[n] = "waiting" /\ Joinable(n)
    /\ Verdict(n) = "completed"
    /\ run' = [run EXCEPT ![n] = AfterStep(n, "verifying")]
    /\ UNCHANGED <<conn, slots, inference, history>>
    /\ UNCHANGED <<detached, cancelled, expired, worker, acts, automation, events>>

OutcomeVerified(n) ==
    /\ run[n] = "verifying"
    /\ run' = [run EXCEPT ![n] = "ended"]
    /\ \E kind \in {"completed", "failed"} : Emit(n, kind)
    /\ UNCHANGED <<conn, slots, inference, history>>
    /\ UNCHANGED <<detached, cancelled, expired, worker, acts, automation>>

\* EXECUTION_TIMEOUT fires first: the worker is cancelled, the phone is told,
\* and the task waits for the worker.
RunTimesOut(n) ==
    /\ run[n] = "waiting" /\ n \in expired /\ ~WorkerEnded(n)
    /\ run' = [run EXCEPT ![n] = AfterStep(n, "late")]
    /\ cancelled' = cancelled \cup {n}
    /\ Emit(n, "TimedOut")
    /\ UNCHANGED <<conn, slots, inference, history>>
    /\ UNCHANGED <<detached, expired, worker, acts, automation>>

LateWorkerJoined(n) ==
    /\ run[n] = "late" /\ WorkerEnded(n)
    /\ run' = [run EXCEPT ![n] = "ended"]
    /\ Emit(n, "FinishedAfterTimeout")
    /\ UNCHANGED <<conn, slots, inference, history>>
    /\ UNCHANGED <<detached, cancelled, expired, worker, acts, automation>>

RunAbortLands(n) ==
    /\ n \in detached /\ run[n] # "ended"
    /\ run' = [run EXCEPT ![n] = "ended"]
    /\ UNCHANGED <<conn, slots, inference, history>>
    /\ UNCHANGED <<detached, cancelled, expired, worker, acts, automation, events>>

DeadlinePasses(n) ==
    /\ n \notin expired
    /\ run[n] \in {"capturing", "waiting"} \/ worker[n] \in {"lock", "check", "armed"}
    /\ expired' = expired \cup {n}
    /\ UNCHANGED <<conn, slots, inference, history>>
    /\ UNCHANGED <<run, detached, cancelled, worker, acts, automation, events>>

\* execution_rx is polled only while a plan executes.
ReceiveEvent ==
    LET e == Head(events)
        id == idOf[e.job]
    IN
    /\ Ready
    /\ execution # None
    /\ events # <<>>
    /\ events' = Tail(events)
    /\ \/ /\ ~Matches(e.job, execution)
          /\ UNCHANGED <<execution, cancelled, detached, shown, owed, owedRun, reported>>
       \/ /\ Matches(e.job, execution) /\ e.kind \in {"completed", "failed", "timeout"}
          /\ execution' = None
          /\ DropExecutions({execution})
          /\ ErrorReply(id)
          /\ reported' = IF e.kind = "completed" THEN reported \cup {execution} ELSE reported
       \/ /\ Matches(e.job, execution) /\ e.kind = "TimedOut"
          /\ ErrorReply(id)
          /\ UNCHANGED <<execution, cancelled, detached, reported>>
       \/ /\ Matches(e.job, execution) /\ e.kind = "FinishedAfterTimeout"
          /\ execution' = None
          /\ DropExecutions({execution})
          /\ UNCHANGED <<shown, owed, owedRun, reported>>
    /\ UNCHANGED <<conn, audio, hasAudio, processing, deferred, decisionKind, pending>>
    /\ UNCHANGED <<inference, run, expired, worker, acts, automation>>
    /\ UNCHANGED <<withdrawn, previewed, approved, starts, lateActs>>

-----------------------------------------------------------------------------
(***************************************************************************)
(* The native worker of job n: execute_plan_controlled of platform/        *)
(* desktop.rs (the lock) and of automation.rs (the actions).  It runs on a *)
(* blocking thread, so nothing but its own checks ends it.                 *)
(***************************************************************************)

WorkerStep(n, state) ==
    /\ worker' = [worker EXCEPT ![n] = state]
    /\ UNCHANGED <<conn, slots, inference, run, detached, cancelled, expired, events>>
    /\ UNCHANGED <<owed, owedRun, withdrawn, previewed, approved, starts, reported>>

WorkerLocks(n) ==
    /\ worker[n] = "lock" /\ ~StopRequested(n)
    /\ automation = None
    /\ automation' = n
    /\ WorkerStep(n, "check")
    /\ UNCHANGED <<acts, lateActs>>

WorkerGivesUp(n) ==
    /\ worker[n] = "lock" /\ StopRequested(n)
    /\ WorkerStep(n, "failed")
    /\ UNCHANGED <<acts, automation, lateActs>>

WorkerStops(n) ==
    /\ worker[n] = "check" /\ StopRequested(n)
    /\ automation' = None
    /\ WorkerStep(n, "failed")
    /\ UNCHANGED <<acts, lateActs>>

WorkerCompletes(n) ==
    /\ worker[n] = "check" /\ ~StopRequested(n) /\ acts[n] = PlanLength
    /\ automation' = None
    /\ WorkerStep(n, "done")
    /\ UNCHANGED <<acts, lateActs>>

\* Variant: the control is not asked before an action.
WorkerSkipsCheck(n) ==
    /\ worker[n] = "check" /\ acts[n] < PlanLength
    /\ WorkerStep(n, "armed")
    /\ UNCHANGED <<acts, automation, lateActs>>

WorkerPassesCheck(n) ==
    /\ worker[n] = "check" /\ ~StopRequested(n) /\ acts[n] < PlanLength
    /\ WorkerStep(n, "armed")
    /\ UNCHANGED <<acts, automation, lateActs>>

\* The native action: input is sent to the desktop, then the loop goes on.
WorkerActs(n) ==
    /\ worker[n] = "armed"
    /\ acts' = [acts EXCEPT ![n] = @ + 1]
    /\ lateActs' = IF StopRequested(n) THEN [lateActs EXCEPT ![n] = @ + 1] ELSE lateActs
    /\ WorkerStep(n, "check")
    /\ UNCHANGED automation

WorkerActionFails(n) ==
    /\ worker[n] = "armed"
    /\ automation' = None
    /\ WorkerStep(n, "failed")
    /\ UNCHANGED <<acts, lateActs>>
-----------------------------------------------------------------------------

FromPhone ==
    \/ ClientHello
    \/ UnexpectedMessage
    \/ CommandRequest
    \/ AudioStart
    \/ \E id \in RequestId :
          \/ Refuse(id)
          \/ AudioChunk(id)
          \/ AudioEnd(id)
          \/ CancelRequest(id)

Answers ==
    \/ \E n \in Jobs, yes \in BOOLEAN :
          \/ ConfirmExecution(n, yes)
          \/ \E kind \in DecisionKind : DecisionResponse(n, kind, yes)
    \/ \E n \in Jobs, kind \in DecisionKind : StaleDecision(n, kind)

FromDesktop ==
    \/ \E value \in BOOLEAN : Pause(value)
    \/ DesktopDecide

Inference ==
    \/ ReceiveResult
    \/ \E n \in Jobs :
          \/ AbortLands(n)
          \/ \E outcome \in Outcome : TaskFinishes(n, outcome)

Executor(n) ==
    \/ SnapshotExpired(n)
    \/ StartWorker(n)
    \/ WorkerJoined(n)
    \/ VerifyOutcome(n)
    \/ OutcomeVerified(n)
    \/ RunTimesOut(n)
    \/ LateWorkerJoined(n)
    \/ RunAbortLands(n)

Worker(n) ==
    \/ WorkerLocks(n)
    \/ WorkerGivesUp(n)
    \/ WorkerStops(n)
    \/ WorkerCompletes(n)
    \/ WorkerPassesCheck(n)
    \/ WorkerActs(n)
    \/ WorkerActionFails(n)

Next ==
    \/ FromPhone
    \/ Answers
    \/ FromDesktop
    \/ Inference
    \/ ReceiveEvent
    \/ Close
    \/ DecisionTimeout
    \/ \E n \in Jobs : PlanExpires(n) \/ DeadlinePasses(n) \/ Executor(n) \/ Worker(n)

Spec == Init /\ [][Next]_vars

(***************************************************************************)
(* Fairness.  The tasks run on tokio's scheduler and blocking pool, every  *)
(* wait of theirs has a deadline, and select! polls its ready branches in  *)
(* random order, so a branch that stays ready is taken.  A native action   *)
(* is assumed to return.  The phone, the desktop user and an abort that    *)
(* overtakes a task's last poll owe nothing.                               *)
(***************************************************************************)
Fairness ==
    /\ WF_vars(ReceiveResult)
    /\ WF_vars(ReceiveEvent)
    /\ WF_vars(DecisionTimeout)
    /\ \A n \in Jobs :
          /\ WF_vars(\E outcome \in Outcome : TaskFinishes(n, outcome))
          /\ WF_vars(DeadlinePasses(n))
          /\ WF_vars(Executor(n))
          /\ WF_vars(Worker(n))

FairSpec == Spec /\ Fairness

-----------------------------------------------------------------------------
(***************************************************************************)
(* Properties that hold for every phone.                                   *)
(***************************************************************************)

WorkerActive(n) == worker[n] \in {"lock", "check", "armed"}

\* While a connection is paused it holds no upload, no request, no decision,
\* no confirmable plan and no execution, whatever the phone and the desktop
\* send (FRONTEND.md: pause cancels them while preserving the connection).
PausedIsIdle ==
    paused => /\ audio = None /\ processing = None /\ deferred = None
              /\ execution = None /\ pending = {} /\ shown = NoCard

\* Automation that nobody has told to stop belongs to the execution slot of a
\* live connection: cancel, pause, disconnect and replacement leave no worker
\* behind that would run its plan to the end.
OnlyOwnedAutomationRuns ==
    \A n \in Jobs : WorkerActive(n) /\ n \notin cancelled => Ready /\ execution = n

\* After a stop was requested (cancel, pause, disconnect, deadline) at most one
\* more native action of the plan begins: the one whose check had passed.
AtMostOneLateAction == \A n \in Jobs : lateActs[n] <= 1

\* A plan is handed to the executor at most once, and once it was it cannot be
\* confirmed again (FRONTEND.md: consumed requests cannot be executed again).
PlanRunsOnce == \A n \in Jobs : starts[n] <= 1 /\ (n \in pending => starts[n] = 0)

\* The card on the desktop can be acted on: a plan is still pending under that
\* request id, and a decision is the one the connection waits for.
CardIsAnswerable ==
    /\ shown.kind = "plan" => WithId(pending, idOf[shown.job]) # {}
    /\ shown.kind \in DecisionKind => deferred = shown.job /\ decisionKind = shown.kind

\* The connection handles one request at a time: what is being planned or
\* decided gives way to nothing but its own end (the SERVER_BUSY reply says
\* that the connection is processing another request).
RequestsAreNotDisplaced ==
    [][/\ processing # None => processing' \in {None, processing}
       /\ deferred # None => deferred' \in {None, deferred}]_vars

(***************************************************************************)
(* Properties that hold when the phone never reuses a request id.          *)
(***************************************************************************)

\* Work that was cancelled, by the phone or by a pause, is never offered for
\* confirmation or executed later: not even by a result that was already on
\* its way (FRONTEND.md: resume does not replay cancelled work).
CancelledWorkStaysCancelled ==
    [][\A n \in withdrawn : /\ n \in previewed' => n \in previewed
                             /\ starts'[n] = starts[n]]_vars

\* What runs is what the user was shown and approved, although a confirmation
\* carries nothing but a request id.
RunsOnlyReviewedPlans == \A n \in Jobs : starts[n] > 0 => n \in approved

\* A plan is reported completed only if its worker performed every action and
\* found no stop request afterwards (the timed-out execution test of the
\* repository: it must never report success).
HonestReport == \A n \in reported : acts[n] = PlanLength /\ worker[n] = "done"

(***************************************************************************)
(* Properties that need, besides, a phone that does not mix an upload with *)
(* other requests.                                                         *)
(***************************************************************************)

\* Whatever the phone still awaits is held by the connection: no accepted
\* request is displaced or dropped without a reply.
NothingForgotten ==
    Ready => /\ owed \subseteq {audio, processing, deferred}
             /\ owedRun \subseteq {execution}

\* An accepted request that is being planned or decided is answered, refused
\* or cancelled in the end.
RequestsSettle ==
    \A n \in Jobs : (n \in owed /\ audio # n) ~> (n \notin owed)

\* A confirmed plan is reported in the end.
RunsSettle == \A n \in Jobs : (n \in owedRun) ~> (n \notin owedRun)

=============================================================================
