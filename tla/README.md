# A verification project for ale-my-eyes-desktop

The repository is a Rust desktop assistant: a phone sends requests, a model
plans actions, the user confirms them, and the desktop performs them. This
directory holds TLA+ modules translated from that code, the TLC configurations
that check them on small instances, and TLAPS proofs of the results that
matter most. Paths below are relative to the repository.

## 1. Inventory

Four programs share the code: `ale-gui` (the desktop application with its
server for phones), `ale-modeld` (a separate process that owns the models),
`ale-core` (engine, storage, protocols) and `ale-cli`.

| component | state it keeps | operations | hard behaviour | what makes it correct |
|---|---|---|---|---|
| **phone connection** `remote_server.rs` `handle_connection` | the upload, the request being planned, the decision waited for, the pending plans, the execution; paused; unexpected messages | every `RemoteMessage`, the desktop's controls, results, execution events, the decision tick, the idle timeout | results and events of aborted tasks are still queued; ids are the phone's; cancellation races everything | one request at a time; cancelled work stays cancelled; a plan runs once and only if approved; every accepted request is answered |
| **decision card** `ui_state.rs`, `desktop_ui.rs` | per session, the decision shown | observe a message, decide, pause, disconnect | written by the loop, by its replies and by the user | a card can always be acted on |
| **plans and actions** `handle_request`, `actions.rs`, `automation.rs` | a request's picture, tree, target and plan; the engine's lock | capture, read the tree, ground, plan, confirm, compare, find, click, verify | the desktop changes between any two of these | a plan is for the screen it was made on; the click lands on the element |
| **execution and native worker** `platform/`, `automation.rs`, `platform_worker.rs`, `child_process.rs` | the control (cancelled, deadline), the automation lock, actions done; on Windows the worker process, its journal of modifier keys, the failed latch | lock, check, act, stop, kill, reap | a blocking thread cannot be aborted; the check and the action are two steps; a process that does not die | at most one action after a stop; no ownerless worker; no false success; no key stays down |
| **screen capture** `screen_capture.rs`, `capture_async` | the last frame, the flag, the generation | loop, capture on demand, veil | a capture overlaps the change to a page with secrets | no picture of keys or codes is handed out |
| **admission** `remote_server.rs` | 8 connections, rate limits per address, failures, pairing code | accept, upgrade, handshake, hello, refresh, record | the code is rotated between handshake and hello; tables are full | limits hold; a code that was replaced or expired before the phone's hello pairs nobody |
| **pairing page** `desktop_ui.rs`, `maintain_mdns` | the code, the addresses, the QR image, what is announced | refresh, choose, encode, announce, drop | refreshes, choices and encodings overlap | text and image agree; one address is announced, and withdrawn at the end |
| **secure channel** `remote_crypto.rs` | counters, fragments | encrypt, decrypt | cut messages, limits on either side | whole, in order, once; nothing legal is refused |
| **sound** `AudioAssembler`, `audio.rs`, `vad.rs` | the pieces of an upload; the resampler, ring and listener; the detector of speech | chunk, end; push, read; hear | pieces lost, repeated or renumbered; a ring that is overrun | what is transcribed is what was recorded |
| **daemon connection** `ale-modeld/main.rs`, `model_ipc.rs` | cancellations, jobs, admitted bytes, reply queue | schedule, cancel, shutdown, job end | a cancellation races the reply; bytes are given back on every path | one reply per request; limits hold; nothing leaks |
| **daemon client** `ale-gui/modeld.rs` | pending calls, outgoing queue, byte budget | call, drop a call, reader, writer, terminate | a call registers while the reader fails | every call ends; a reply reaches its own call |
| **daemon supervisor** `ale-gui/modeld.rs` | client, retired process, configuration and its revision, failures, backoff | connect, health, update, user retry, failure | restart while the old process is not reaped; a health check across an update | never two daemons; configuration committed only after its acknowledgement |
| **scheduler** `ale-modeld/scheduler.rs` | models, circuit breaker, health cache, revisions | schedule, configure, probe, shut down | failures of an old configuration; failover within one deadline; a probe across an update | a circuit is opened by its own failures only; reported health is that of the models in force |
| **llama worker** `ale-modeld/llama.rs` | hot worker, child process, lease | run, start, cancel, idle unload, reconfigure | cancellation during start | at most one server; none is left behind |
| **speech worker** `ale-modeld/sensevoice.rs` | child, cancelled children | transcribe, reap, unload | a cancelled call is reaped later | a reply is not taken for that of another call |
| **local models of the engine** `inference.rs`, `blocking_worker.rs` | permits, one slot per model | choose a side, run a kernel, leave | a kernel outlives its caller | no two kernels of a model; no permit is lost |
| **settings** `settings_service.rs`, `config.rs`, `lib.rs` | file, key store, engine, running daemon | load, migrate, save, apply, roll back, drain | one step of several fails; a crash between two | file, keys, engine and daemon agree |
| **downloads** `downloader.rs`, `desktop_download.rs`, `model_download_ui.rs` | files, temporary files, slots, lock file, stage | place, verify, rename, cancel, delete | interruption; two programs; one dialog's guard and the next one's flag | an installed model is whole; a transfer that ended has tried to remove what it wrote |
| **session, memory** `memory.rs`, `context.rs` | the memories and their file; messages, summary, pictures | open, add, delete, clear; add, compress | write errors, crashes, a damaged file | the engine's memories are those on disk; no message is lost but into the summary |
| **diagnostics** `ale-core/diagnostics.rs`, `ale-gui/diagnostics.rs`, `windows.rs` | the queue of events and its file; the switch for dumps; shared memory with a helper process | record, flush, rotate, prune; change, save; crash, capture, answer, probe | two processes prune one directory; a crash while a dump is made | no event is lost unnoticed; a crash is answered; a hang is one |
| **model API** `model_api.rs`, `llm.rs`, `cloud.rs` | none | request, retry | deadline | retries stay inside the deadline |
| command line, speech output | none | I/O | none for a model checker | — |

`PROJECT.json` lists the same components with their status, and the hazards of
each at the line where they bite.

How they interact: the accept loop starts one `handle_connection` per phone.
The loop spawns an inference task (`start_remote_request`), which looks at the
screen, calls the daemon through the supervised client and sends its result over
an unbounded channel, and an execution task (`start_remote_execution`), which
runs the native worker on a blocking thread and sends events over another one.
The desktop's window reads the session's card and sends controls back; it also
raises the veil over captures, shows the pairing code and submits saves to the
settings service, which writes the file and the key store and tells the daemon.
Dropping a request aborts its task; dropping an execution cancels its control and
aborts its task, but never the thread.

## 2. Modules

| module | models |
|---|---|
| `RemoteConnection` | one authenticated phone connection with its inference tasks, execution tasks, native workers and decision card |
| `RemoteConnection_proofs` | its types; pause, stop, ownership, card; a plan runs once, for every phone; what a phone that uses an id once can rely on |
| `Supervisor`, `Supervisor_proofs` | the life of the model daemon's process and configuration, as the application supervises it; all of its safety properties |
| `ModelIpc`, `ModelIpc_proofs` | the connection between the application and its daemon: client, pipe, server, jobs; all of its safety properties, and that it implements `ModelCalls` |
| `ModelCalls` | what that connection promises to the code that schedules a job |
| `ModelJobs` | what the parts of the daemon share: the places for jobs, the configurations |
| `ModelScheduler` | the daemon's scheduler: configurations, circuit and failover, health cache, composed with the two adapters |
| `LlamaWorker`, `AsrWorker` | the adapters with their child processes |
| `ModelScheduler_proofs` | all safety properties of the scheduler and its adapters |
| `PairingCredentials` | the code and the addresses, shared by the next two |
| `PairingPage` | the page that shows them, its QR image, and the announcement on the network |
| `RemoteAdmission` | from an accepted socket to a session, with both limiters |
| `SecureChannel` | one direction of the encrypted channel: cutting and reassembly |
| `MessageFifo` | what that channel promises: the messages, whole, once, in order |
| `SecureChannel_proofs` | every step of the channel is a step of that queue |
| `AudioUpload`, `Microphone` | a phone's recording; the desktop's recorder and its detector of speech |
| `Edge_proofs` | the limits, the pairing, the page, the announcement and the sound |
| `PlanMaking` | from a request to the click, with the desktop changing meanwhile |
| `ClickGeometry` | the way of one coordinate from an element to the pixel that is clicked |
| `NativeExecutor` | the worker process of Windows, its parent and its journal of modifiers |
| `ScreenCapture` | which pictures leave the desktop while it shows secrets |
| `LocalInference` | which side answers a task, and how a local kernel runs |
| `CrashMonitor`, `HangDetector` | the helper process that has crashes dumped; how it tells a hang |
| `Desktop_proofs` | all safety properties of the seven models above, from `PlanMaking` on |
| `Settings` | load, save, rollback and drain over file, key store, engine and daemon |
| `Downloads`, `DesktopInstall` | the transfers of the engine's models and of the desktop's |
| `EventLog`, `DumpSetting`, `Memories`, `Conversation` | the log with its rotation and retention; the switch for dumps; the memories; the session's context |
| `Storage_proofs` | all safety properties of the seven models above, from `Settings` on |
| `MCRemoteConnection`, `MCSupervisor`, `MCModelIpc`, `MCModelScheduler`, `MCEdge`, `MCDesktop`, `MCStorage` | finite instances |

`ModelScheduler` EXTENDS its two adapters and moves them in its own steps, for a
request's deadline, a configuration and a shutdown reach into both; `PairingPage`
and `RemoteAdmission` share the credentials. The other models meet at narrow
interfaces. `RemoteConnection` sees the daemon only as an inference task that
ends with a plan, an error or an abort (`PlanMaking` opens that task up);
`Supervisor` takes a call as one step that succeeds or fails; `ModelIpc` opens
that step up for one daemon process, and `ModelScheduler` says what a job does in
it. They are not composed further: a product of them has no property that one of
them does not state. `MCEdge`, `MCDesktop` and `MCStorage` put several models that
share no state into one run: `part` chooses one of them at the start, and the
others stand still in one state, so that the run explores their sum and not their
product.

### RemoteConnection

The state follows the locals of `handle_connection`. A *job* is an accepted
request; the code has no such notion, it knows only the request id the phone
chose. `idOf` maps a job to its id, so that two jobs can share an id and the
model shows where the code takes one for the other (`Matches`, `PlansLeft`,
`Confirmable`).

| code | model |
|---|---|
| `active_audio`, `processing`, `deferred`, `pending`, `execution` | `audio`, `hasAudio`, `processing`, `deferred`, `decisionKind`, `pending`, `execution` |
| `session.decision` | `shown` |
| `processing_tx/rx`, `execution_tx/rx` | `results`, `events` |
| inference task | `task`: none, running, aborted, ended |
| execution task | `run`: capturing, waiting, verifying, late, ended; `detached` once aborted |
| `ExecutionControl` | `cancelled`, `expired` |
| blocking worker | `worker`: lock, check, armed, done, failed; `acts` |
| `Mutex` around the automation engine | `automation` |

Each message is one action (`CommandRequest`, `AudioStart`, `AudioChunk`,
`AudioEnd`, `CancelRequest`, `ConfirmExecution`, `DecisionResponse`, the
unexpected ones), and so are the desktop's controls (`Pause`, `DesktopDecide`,
`Close`), the two receive branches of the select loop, the decision tick and
the expiry of a plan. The tasks move by themselves: `TaskFinishes`,
`StartWorker`, `WorkerJoined`, `RunTimesOut` and so on, and the worker by its
checks and actions. `abort()` is not instantaneous: an aborted task may
complete the poll it is in, and send its result, before it ends (`AbortLands`
against `TaskFinishes`, `RunAbortLands` and `AfterStep`).

What is abstracted: the content of requests, plans and replies; time, which
appears as the events of its deadlines, so that any order of deadlines is
considered; `Progress` results, which change nothing but the phone's display;
the rate limiter and the global request slots, which may refuse at any time;
the controls channel, whose bound of 16 only makes the desktop's click fail
(the model lets confirmations and decisions arrive in any order and at any
time, a superset of what the phone and the channel deliver). The Windows
build runs the worker in a process of its own (`platform_worker.rs`); the
model is of the other build, where `execute_plan_controlled` takes the lock
and loops over the actions itself.

### Supervisor

The state is `SupervisorState`, field by field (`client`, `retired`, `revision`
and `config`, `failures`, `unhealthy` for `health_failures`, `steady` for
`healthy_since`, `blocked` for `restart_blocked`), plus the tokio `Mutex` around
it (`lock`), a program counter for every task that takes it (requests, the
timer, an update: `pc`, `got`), and the daemon processes (`running`, `told` to
stop, `alive` as the client sees it, `applied` configuration). Every `await` under the mutex is
a step of its own, because that is where a request can be aborted: `Cancel`
drops its locals, which kills the child of a start that is under way
(`kill_on_drop`) and releases the mutex.

| code | model |
|---|---|
| `connection` | `ConnectAlive`, `ConnectDead`, `ConnectRetired`, `ConnectNone`, the wait for the old process (`ReapConfirmed`, `ReapGivesUp`), `StartSpawns`, `StartSucceeds`, `StartFails` |
| a call and `record_result` | `CallSucceeds`, `CallFails`, `RecordResult` |
| `health` and its timer | `HealthAnswers`, `HealthTimesOut`, then `HealthOfAnother`, `HealthGood`, `HealthBad`, `HealthKills` |
| `update_config` | `UpdateWithoutDaemon`, `UpdateStarts`, `DaemonConfigured`, `UpdateAcknowledged`, `UpdateFails`, `DiscardConfirmed`, `DiscardGivesUp` |
| `retry_after_user_request` | `RetryAfterUserRequest` |
| the process, the reader, the writer | `ProcessExits`, `ReaderFails`, `WriterFails` |

A request keeps the daemon it was connected to for all its stages
(`REQUEST_CONTEXT`), so it may call a daemon that has been replaced since; that
is why `record_result` compares instances. Abstracted: backoff times (any delay
is possible), the text of the last error, the cache of the last health reply,
and the snapshot of the configuration a request carries.

### ModelIpc

A call is a record: a job, the cancellation of a job, or a control call; each
stage of a request has an id of its own in the code, so a call is its id.
`caller` is where the caller of a call stands, `pending` the map of entries,
`queue` and `writing` the writer's channel and the frame it writes, `toServer`
and `toClient` the frames under way, and the rest the locals of
`serve_connection`. `ran`, `answer` and `stopped` are history.

| code | model |
|---|---|
| `call` | `Reserve`, `Refuse` before the first await; `Enqueue`, `RefuseLate` under the map's lock; `TakeAnswer` |
| `PendingCall::drop` | `Abandon` (the caller goes, its answer perhaps already in the channel), `Cleanup` (the spawned task) |
| writer task | `WriterTakes`, `WriterSeesEnd`, `WriterWrites`, `WriterFails` |
| reader task, `terminate` | `ReaderReceives`, `ReaderFails`, `Terminate`; all that end the connection `Drain` the map |
| loop of `serve_connection` | `AdmitJob`, `RefuseJob`, `CancelJob`, `ServeControl`, `JobEnds`; its end, for whatever reason, is `ServerEnds` |
| its writer task | `ServerWrites`, which still flushes after the loop has ended |

Abstracted: bytes. A frame of the wrong size, an exhausted byte budget or a
reply that does not fit refuses a call or ends the connection, and the model
lets both happen at any time; the server's sum of admitted bytes counts one for
each job. `try_send` follows the insertion without an `await` but another
thread may drain the map in between; each such interleaving ends like one in
which `Enqueue` is atomic (an entry drained just before its frame is queued is
an entry drained just after; a closed channel is `RefuseLate`).
`ModelCalls` is the abstract specification: per job, the outcome its caller
sees and whether it ran.

### The daemon: ModelScheduler, LlamaWorker, AsrWorker

The requests of a connection are futures of one task, so a step lasts from one
`await` to the next, and the maintenance, a configuration or the end of the
connection happen between two steps. A `Job` is a place for a request and is
used again.

| code | model |
|---|---|
| `schedule` by capability; deadlines | `StartRemotePlan`, `StartSpeech`, `StartLocal`; `Tick`, before which every due timer fires; `DropJob` for a cancelled request |
| `remote_plan`: primary, circuit, backup | `circuit` (revision, failures, open until), `blamed` counts the failures that belong to a configuration |
| the three configuration messages | `ConfigureScheduler` (all at once), `ConfigureRemote` and `ConfigureModels` (in parts): providers and circuit, models and health; a job keeps the configuration it began with |
| `health`, its cache and the probe | `cache`, `probe`: `Health`, `ProbeEnds`, `AttemptAges` |
| `LlamaAdapter::run_model`, `start`, `HotWorker` | `llm`, `want`, the slot and the `Server` processes; `LlamaStep`, `LlamaDrop` |
| idle timer, eviction, out-of-memory retry | `LlamaMaintenance`, `LlamaReconfigure`, steps of `LlamaStep` |
| `transcribe_wav`, `ActiveAsr::drop`, `reap_retired` | `AsrStep`, `AsrDrop`, `retired` |

What a provider answers is a choice. `Focus` (a `CONSTRAINT`) leaves out states in
which nothing new can meet: its comment in `MCModelScheduler` gives the reason for
each conjunct. The properties are about what a dropped, late or failing request
leaves behind: a process (`OneServerRuns`, `OneOwnedChild`), a reply
(`RepliesAreFresh`), a failure charged to somebody else (`OnlyOwnFailures`), a
report about models that are gone (`HealthIsCurrent`), or no time
(`FailoverHasHalf`).

### The edge: admission, pairing page, channel, sound

`RemoteAdmission` has one record per connection slot, which goes through
`upgrade`, `handshake`, `hello`, `checked` and `open`; the limiters are functions from
addresses to times. The clock moves at any time, so that the code expires between
any two steps, and `Rotate` replaces it. A ClientHello is two steps, since the lock on
the credentials is given back before the hub gets the session: `Hello` looks at the
code, `Join` enters the session, and the code may be replaced in between. What holds is
that a phone overtaken before its hello was looked at never joins
(`OvertakenNeverPairs`; `overtaken` is history). `PairingPage` keeps what the page shows
apart from what the credentials hold; blocking threads that look for addresses or
make an image are steps of their own. In `SecureChannel` a payload is its length:
encryption turns any loss into the end of the connection, which is the channel's
promise in `MessageFifo`, refined by the messages that were cut, put together
again and delivered. A frame also has its length on the wire, with the header of a
chunk and the tag of the encryption (`Encrypted`), and one larger than `MaxFrame` is
refused before it is read, by the socket and by `decrypt_frame` alike. `AudioUpload` and
`Microphone` know a sample or a piece by its number, so that loss, repetition and order
are visible; the resampler's position is a fraction.

### The desktop: plans, clicks, worker, pictures, kernels, crashes

`PlanMaking` follows `handle_request` through its lock of the engine, the picture,
the tree of elements, the model's target and the plan, then the confirmation and
the checks of the automation. `drifted` records between which two of these the
desktop changed, because the code can only promise what holds when it did not
change between its last check and the click. `ClickGeometry` computes one axis
with fractions over one denominator and rounds where the code rounds.
`NativeExecutor` has the two processes: the parent's pipe, cancellation, kill and
reaping, and the worker with its journal, which the parent reads to release the
modifiers of a worker it had to kill; `Touch` is the user's hand on the same keys.
`ScreenCapture` has the flag, the generation and the veil as the code has them,
and `Paint` when the screen catches up with the window. `LocalInference` gives a
kernel its permits until it has really ended. `CrashMonitor` has the threads that
crash, the shared memory, the helper and its capture processes; `HangDetector` is
the function `update` with the intervals of its rounds.

### The disk: settings, downloads, records

`Settings` has two services, the one without a daemon that exists while the server
starts and the one with it; a save is its transaction, step by step, each of which
may fail, and `Crash` may end the program between any two. A configuration is a
body and a key per account; `Uses` says which accounts a body has. A worker that finds
no request looks at the flag of a dropped service in a step of its own (`TakeRequest`,
then `LookAtClosed`): a save may come between the two, and is then dropped with the
service. `Downloads` has a task per transfer, which outlives its waiter; the network may
end, truncate or corrupt anything, and the system may refuse to remove a temporary file
(`Clean`). Either all transfers are single or all are one batch: that a transfer of a
batch is refused because a single one holds the last slot is left out.
`DesktopInstall` has two programs at one directory, and a user who puts a directory of
his own there, empty or not, at any time; the rename replaces an empty one. `EventLog`
has the writer's queue, its file with its locks, and the pruners of the same
directory; `DumpSetting` one thread and one file; `Memories` the file, the copy
beside it and the engine's list; `Conversation` the messages and an estimate of
their tokens.

## 3. What the runs show

| run | instance | shows |
|---|---|---|
| `remote_any` | 2 ids, 2 jobs, plans of 2 actions, one pending plan, 2 unexpected messages, all four modes; the phone reuses ids and mixes uploads with requests | safety for every phone: `PausedIsIdle`, `OnlyOwnedAutomationRuns`, `AtMostOneLateAction`, `PlanRunsOnce`, `CardIsAnswerable` |
| `remote_orderly` | 2 jobs with different ids, plans of 1 action, uploads not mixed, fairness | `RunsOnlyReviewedPlans`, `HonestReport`, `NothingForgotten`, `CancelledWorkStaysCancelled`, and the liveness of requests and of runs |
| `remote_replay` | ids may be reused | a *violation*: see below |
| `remote_mixed` | an upload mixed with a request | a *violation*: see below |
| `supervisor_live` | 2 daemons, 2 requests, 1 update, a budget of 2 failures; fairness | `DaemonsAreSingle`, `ClientRunsCommittedConfig`, `FailureChargedOnce` wherever requests are aborted and processes die, and `ServiceReturns`: a lost daemon is replaced unless the budget is exhausted |
| `ipc_safety` | 2 jobs that compete for one permit, their cancellations, 1 control call; limits as in the code, the server's no smaller than the client's | `AnswersAreGenuine`, `AdmissionIsExact`, `CancelledNeverStarts` |
| `ipc_live` | 2 jobs with a permit each on a server with room for one; fairness | `EntriesReturn`: every entry of the map, and the permit it holds, comes back; and the refinement `ImplementsCalls`, also when the server refuses a job |
| `modeld_jobs` | 2 jobs of one capability, 2 server processes, 2 children, 2 configurations (the second with a backup), 3 ticks of budget, a circuit that opens at 2 failures | `ProcessesAreOwned`, `RepliesAreFresh`, `OnlyOwnFailures`, `HealthIsCurrent`, `FailoverHasHalf` |
| `edge` | messages at and around every limit; 3 codes, 2 networks; 2 connections from 2 addresses; 2 uploads of up to 3 pieces; a recorder at 5 rates with buffers of up to 3 samples; 8 frames of speech | `ImplementsFifo`, `PageAndNetworkAreCurrent`, `AnnouncementEnds`, `LimitsHold`, `OvertakenNeverPairs`, `SoundIsWhole` |
| `desktop` | 2 executions; 3 contents of the screen that change 3 times; 5 widths of a monitor; 2 captures over 4 changes of page; 3 calls of the local models; 2 threads that crash, 2 dumps; 4 probes | `ActionsAreContained`, `PicturesArePrivate`, `LocalWorkIsBounded`, `FailuresAreWatched`, and that every execution returns (`ExecutionsReturn`) |
| `storage` | 2 saves (the second of one fixed draft), or a save and a crash, from a new and from an old disk; 2 transfers of a package, of a model or of two; 2 programs at one directory; a log of 2 files; 2 changes of the switch; 2 memories; 7 messages | `SettingsAreKept`, `DownloadsAreWhole`, `RecordsAreKept`, and that closing and cancelled transfers end (`StorageEnds`) |
| `settings_startup` | the settings alone | a *violation*: see below |

**Bounds.** *Connection.* `MaxJobs = 2` lets one job be current while the result,
the event, the worker or the card of the other is still around, which is what every
property here is about: each of them speaks of one job and the slot that
another may occupy. Two ids give both the case where the jobs share an id and
where they do not. `MaxPendingPlans = 1` (16 in the code) fills the map with
the first plan. `PlanLength = 2` lets a stop arrive before, between and after
two actions, so that a second late action would be possible.
`MaxUnexpected = 2` (3 in the code) is enough for a counter that counts and is
reset. `remote_any` compares states without the history that its properties
do not read (`VIEW WithoutBookkeeping`).

*Daemon.* In the supervisor, two requests let one hold the mutex while the other
calls a daemon that is replaced under it; an identifier of a daemon that is gone is
used again, so that two are enough for the one in service and the one that is
still dying; the limits of failures and of health checks (3 in the code) are
enough to count, to be reset and to be reached. In `ipc_safety` one permit makes the second job depend on
the first one's entry, `MaxPending = 2` fills the map and the channel (a job and
a cancellation), and one place on the server makes an admission that is lost or
doubled visible; the control call occupies the same queues but holds no permit.
`ipc_live` sets the limits so that the server has to refuse (the limits of the
code never let it: `NeverRefused` below). In `modeld_jobs` two jobs are one that
works and one that waits, replaces it or finds what it left behind; a budget of
3 ticks has a half that is rounded.

*Edge.* `MaxPlain = 3` with a header of 1 and a tag of 1 cuts messages of 4, 5 and 6
into two or three chunks, the first of which fill their frames to the last unit that
`MaxFrame` = 4 allows; 6 is the limit of a message and 7 beyond it. Three codes are one that expires,
one that replaces it and one more while the first image is still encoded. A window
of 2 ticks in a time of 2 lets an entry be on its edge; a table of one address is
full with the first. The five rates (in halves of a sample) are below, at and
above the target's, whole and not.

*Desktop.* Widths 1, 2, 3, 10 and 30 are a monitor of one pixel, the smallest with
an inside, odd ones and those where a picture is smaller than the monitor. Three
contents are the window under test, the same with its target moved, and another
window; three changes let it leave and come back. Three calls share two workers,
and in two of the four assignments two of them ask for the same model.

*Disk.* Two saves are one that supersedes and one that fails; the second stores one
draft, whichever of the two the first one stored (`SecondDraftIsOther`); after the one
crash the program starts again from what it left. Two transfers meet in one
destination, in one batch or for one slot. In one behaviour either a model is deleted
or the process ends (`DeletedOrStopped`): a process that starts after a deletion finds
the model absent, as on two of the three first disks. Two records with a rotation
after each fill both files; the second pruner is another process.

The proofs do not depend on any of these bounds.

**Fairness.** *Connection* (`remote_orderly`). Tasks and blocking threads are scheduled by
tokio and by the operating system; `select!` polls its ready branches in
random order, so that a branch that stays ready is taken
(`WF(ReceiveResult)`, `WF(ReceiveEvent)`, `WF(DecisionTimeout)`); every wait
of a task has a deadline (`REQUEST_TIMEOUT`, `EXECUTION_TIMEOUT`, the deadline
of the verification call), so that `TaskFinishes`, `Executor` and
`DeadlinePasses` happen. A native action is assumed to return. The phone, the
desktop user and an abort owe nothing: no fairness is put on them.

*Supervisor* (`supervisor_live`). The tokio mutex is fair (first in, first
out), so the timer gets it however often requests take it (strong fairness);
every wait under it has a timeout, so a task that holds it goes on; a process
that was killed exits; a reader notices the end of its stream. Updates are
finite in number, and users, requests and crashes owe nothing.

*Daemon connection* (`ipc_live`). The tasks on both sides are scheduled, and
`select!` polls its ready branches in random order. A job ends because it
carries a deadline (`schedule`), and since a full reply queue can disable its
end over and over, this is strong fairness. The end of the server is noticed by
the reader, and the cleanup task of a dropped call runs. Callers owe nothing: an
entry returns even if its caller never does. Calls are finite in number, so
fairness is put on "some job ends" and "some dropped call is cleaned up".

*Edge, desktop, disk.* A sender and a receiver that can go on do, and the task of
the announcement is scheduled; the network and the user owe nothing. The caller's
side of an execution is scheduled and its deadlines pass, but the worker process
may hang at any step. The program's own threads and tasks run: the settings
services, the tasks of transfers and the installers; a network that never answers is
ended by the code's own cancellation only, which is why `StorageEnds` speaks of
closing and of transfers that were cancelled or abandoned.

**Findings.**
- *A reused request id revives cancelled work* (`remote_replay`). A result is
  matched by its id only, and the result of an aborted task may already be in
  the unbounded channel, which a cancellation or a pause does not drain. If
  the phone reuses the id, the plan of the cancelled request is shown as the
  new one's. `FRONTEND.md` says that resume does not replay cancelled work.
  With distinct ids the property holds (`remote_orderly`, and it is proved).
- *The end of an upload displaces another request* (`remote_mixed`).
  `CommandRequest` does not look at `active_audio`, and `AudioEnd` looks at no
  other slot: the request accepted in between is aborted, or replaced as the
  deferred one, without a reply, though the server refuses a second request as
  `SERVER_BUSY` everywhere else.
- *A save during the start does not reach the daemon* (`settings_startup`). While
  the server starts, the window's settings service has no daemon to tell
  (`desktop_ui.rs:266`), and the server has already copied the configuration it
  starts the daemon with (`remote_server.rs:438`). A save in between is reported as
  saved and is on disk, yet new requests keep the old configuration until the next
  save or start; `MODEL-CALLING.md:75` says "Hot updates apply to new requests".

**Observations** made while modelling, which no property contradicts. The models
take the code as it is in each of these.
- A save can be dropped. The worker of the settings takes what is queued
  (`settings_service.rs:58-59`), and only after it has found nothing looks whether its
  service was dropped (`settings_service.rs:79`). A save that is submitted between the
  two, to a service that is dropped before the second (the server became ready, or the
  program closes), goes with the queue: its page is told `SETTINGS_SERVICE_STOPPED`
  (`desktop_ui.rs:853`), and a closing program ends without it. The comment at the head
  of the file, "A save belongs to the service, not to the UI future waiting for its
  result", does not say so. `DrainedMeansDone` allows such a save to be dropped (`late`)
  and no other.
- An empty directory of the user's can be replaced. `desktop_download.rs:239` says
  "Never replace an existing installation or user-owned directory", and looks for one
  before the rename; one that is made after the look is replaced by the rename if it is
  empty and the system is a Unix (`Commit`). One with files in it makes the rename fail.
- A phone whose hello was looked at joins even if the code is replaced before the hub
  gets its session (`remote_server.rs:967-975`).
- A temporary file that the system refuses to remove stays, and no later transfer knows
  its name (`downloader.rs:303-308`, `505`).
- `MODEL-CALLING.md` says that a SenseVoice call cannot be interrupted; the adapter
  kills its child when the call is dropped (`AsrDrop`).
- The window's `saved` may be stale when a save commits after the next one was
  submitted and that one fails. A first run without a file does not read the key
  store.
- `delete_model` reserves nothing, so the manager's status may differ from the disk
  while a transfer of the same model runs.
- `qr` gives up when the credentials are locked (`missed`); the page is right again
  at the next refresh.
- A waiter for the execution slot does not look again whether reaping failed while it
  waited (`desktop.rs:100-120`).
- The 250 ms timer of an earlier visit to a page may lower the veil of a later one
  before the screen was repainted (`desktop_ui.rs:161`); such pictures are "early" and
  outside `ScreenIsPrivate`.
- `normalize_coordinate` takes an answer in pixels such as (1, 1) for relative ones;
  a plan of the engine's own path is not compared with the screen again; without a
  daemon the engine's lock is held during the model call.
- In adaptive mode with a cloud API but no transcription API, a transcription fails
  although a local model is loaded.
- A crash during the capture of a hang is answered but not dumped; a crash ignores the
  cooldown that `DIAGNOSTICS.md` states; a capture killed between its rename and its
  registration leaves a dump that is never pruned; a normal exit may be recorded as
  unexpected; two pruners at once may remove more than needed.
- The user's change of the switch may be overwritten by the settings thread's first
  read; `SwitchIsKept` is about what is shown afterwards.

## 4. What is proved

Every theorem holds for all values of the constants that satisfy the named
assumptions of the modules, which say only what the code fixes or what a constant
must be to make sense: a limit is a number, "none" is not an element. Two are worth
a word. `GeometryAssumption` wants a virtual desktop of at most 65536 pixels on each
axis, since that is what `SendInput` can name. The four theorems about distinct ids
assume `~ReuseIds`, and `NothingIsForgotten` assumes `~MixUploads` besides: without
either, the runs `remote_replay` and `remote_mixed` have the counterexamples.
`AnswersAreTrue` assumes `LimitsFit`. What a disk holds when a program first finds it
is bounded by the assumptions of `Settings`, `Downloads` and `Memories`: a file of
settings is absent or has a body and keys, a model's file is absent, whole or wrong (a
cut transfer never gets the final name), and the memories are absent, damaged or any
list. `LogAssumption` keeps the writer, the other pruners and "nobody" apart,
`ConversationAssumption` says that a summary takes at least one message.

A run with several parts has an invariant that is the conjunction of those of its
parts, and each part keeps its own because the others leave its variables alone.

### The connection

`RemoteConnection_proofs` is about `Spec` for every set of request ids, every number
of jobs, plan length, capacity and mode.

- `TypeCorrect`: `TypeOK`, strengthened by `ArmedInPlan` (a worker that is
  about to act has actions left), without which the bound on `acts` is not
  inductive.
- `StopsAreEffective` (`AtMostOneLateAction`): inductive with `LateBound`: a
  worker that has begun a late action is past its last check, because the stop
  it was late for never goes away.
- `AutomationIsOwned` (`OnlyOwnedAutomationRuns`): inductive with `Owned`,
  which says the same of the execution task between the confirmation and the
  start of its worker. The gap between an abort and the spawn of the worker is
  closed by the control alone, which is cancelled before the abort.
- `PausedConnectionsAreIdle`, `CardsAreAnswerable`: the latter with
  `CardIsCurrent`, which names what a card can be about.
- `PlansRunOnce`: a plan is the result of one task, and a task sends one
  result. The invariant (`Unplanned`, `OneResult`, `OnePlan`) follows a plan
  from its task to the queue, the map of pending plans and the executor, and
  says that it is in one of these places only.
- `CancelledStaysCancelled`, `OnlyReviewedPlansRun`, `ReportsAreHonest`: with
  `Distinct` (ids tell jobs apart), the slots and queues are tied to their
  jobs (`Occupied`, `Gone`), a pending plan was shown (`Reviewed`), and an
  event "completed" stands for a worker that finished (`Performed`,
  `Announced`).
- `NothingIsForgotten` (`NothingForgotten`): of the upload, the inference and the
  decision at most one is open (`Alone`), so none is displaced, and what the phone
  awaits is in a slot (`Awaited`). One event closes an execution without a word to
  the phone, `FinishedAfterTimeout`; `Overdue` says that the notice of the deadline
  is in front of it in the queue for as long as the phone still awaits the run.

### The daemon

`Supervisor_proofs` proves every safety property of the supervisor for any
number of daemons, requests, updates and failures. Its invariant has two parts.
`Control` says what the task that holds the mutex may rely on at each of its
awaits: who holds it (`Mutex`), what `client` and `retired` are there (`Slots`)
and that restarts are blocked exactly when the budget is spent (`Budget`).
`Daemons` follows the processes: one that nobody killed is in a slot or being
started (`Kept`), one that was in service and still runs is in a slot or being
discarded by the update (`Accounted`), nothing is charged yet to a daemon that
serves (`Charged`), and the client has the committed configuration unless an
update is under way (`Configured`). `DaemonsStaySingle` joins the two results about
the number of daemons into the property that `supervisor_live` runs; the budget
(`RestartsAreBudgeted`, `BlockedStartsNothing`) and the revisions
(`RevisionsTellConfigurationsApart`) are proved and need no run.

`ModelIpc_proofs` proves the safety of the connection for any jobs and limits;
`AnswersAreTrue` alone assumes `LimitsFit`, that the server has room for what
the client may send (32 jobs and 128 MiB on either side in the code). The
invariant:
- `Line`: a frame is in one place between the writer's channel and the server,
  once;
- `Cancels`: a cancellation exists only for a job whose caller has gone;
- `Order`: on the wire a cancellation follows its job. The channel needs no
  order of its own, since the writer never takes a job nobody waits for;
- `Replies`: a queued reply tells of a job that ran and is no longer admitted,
  or of one that was refused and will not run, and so does what a caller was
  told;
- `Slots`: what is on the wire or admitted still has its entry, hence its
  permit, while the connection lives. When it does not, the set can only
  shrink. So a server with room for all permits never refuses a job
  (`NeverRefused`), which is what makes answers genuine.

`ImplementsModelCalls` maps each step to a step of `ModelCalls` or a stutter.

`ModelScheduler_proofs` is about `SchedulerSpec`, for any jobs, processes,
configurations, budget and limit of failures.
- `ProcessesStayOwned` rests on `LlamaInv` and `AsrInv`. In the first, the gate lets
  in one request (`OneHoldsGate`), who waits for an eviction waits for the server in
  the slot (`EvictsTheSlot`), and a request past its start has a server
  (`UsesItsServer`). In the second, a new child is asked for only when no other is
  kept or retired (`NothingElseLives`); without it two children could be owned at once.
- `RepliesStayFresh` needs `KeptIsClean`: a child that is kept owes no reply, so the
  next reply it gives is to the next request.
- `CircuitsCountTheirOwn`, `HealthStaysCurrent`, `BackupsHaveTime`: `OwnInv` ties a
  probe to the generation it began in (`ProbesAreCurrent`), a request to the
  configuration it was pinned to (`Pinned`), and what is left of a request's time to
  its share (`HalfIsKept`).
- `AdaptersAreImplemented`: the scheduler moves each adapter only as the adapter's own
  specification allows. The invariants of the adapters are proved of those, and hold
  of the scheduler through this theorem.

### The edge

- `LimitsAreKept` (`LimitsHold`) and `CodesStayCurrent`. A limiter forgets entries, so
  that its own table says nothing of the past; `Aligned` says that the history of an
  address ends with what the table keeps, and that the rest is older than the window.
  Failures are recorded when a connection ends, so their table may pass its limit:
  `FailuresLeft` and `TableLeft` count the connections that have yet to record one.
  For the pairing, `SessionsInv` follows a connection from its handshake to its session:
  one that was overtaken still waits for its hello, and has a code that is no longer the
  current one or a code that has expired, which stays so because a code never comes
  back and its time never moves forward; so its hello is refused, and what was looked at
  or is open was not overtaken.
- `PageStaysCurrent`: `PageInv` adds to the property what the task of the announcement
  knows: at most one host is announced, while it waits it is the one the task was last
  told of, and that is the one chosen unless a choice is still unseen.
- `SoundStaysWhole`: `UploadInv` has the sum of the pieces' sizes as a fold
  (`SumsUp`), `SamplerInv` the position of the resampler (`ResamplerAligned`: what
  comes out of several buffers is what would come out of one), the ring and its
  listener, and `VoiceInv` what the two counters of the detector count
  (`SpeechCounted`, `SilenceCounted`), frame by frame back to the one that reset them.
- `ChannelIsQueue` (the steps of `ImplementsFifo`) and `NothingIsRefused`. The
  invariant `ChannelInv` reads the frames on the way as a sequence (`Flow`): the rest
  of the message the receiver has begun, then whole messages, in the order they were
  accepted. That the chunks of a message add up to it, and that none is longer than a
  frame may be, is arithmetic (`ChunksCover`). The fairness of `ImplementsFifo` is left to the run `edge`.

### The desktop

- `ActionsStayContained` joins three results. `WorkersAreContained` is the hard one:
  `ExecutorInv` says who has the automation slot and whose worker may still live
  (`TurnInv`), how far it is (`ProgressInv`), which keys its journal has (`HeldInv`),
  and that a modifier that is down, and neither the user's nor given up as stuck, is
  one that some execution will release (`KeptInv`). `PlansFitTheScreen` needs
  `PlanningInv`: what each stage may use, and what a check has shown if nothing has
  changed since. `ClicksLandOnElement` is arithmetic with the two roundings of
  `normalize_virtual_desktop_point` and of the system; products are kept closed
  (`Times`) because the provers do not do nonlinear arithmetic.
- `PicturesAreKeptPrivate`: `ScreenInv` has the veil (`VeilInv`: while captures are
  allowed, no secret is on the screen but an early one) and the generations
  (`CapturesInv`: a capture that shows a secret is older than what a request noted).
- `LocalModelsAreBounded`: `PermitInv` counts permits as the cardinalities of sets of
  calls, for any number of calls and workers.
- `FailuresAreSeen`: `MonitorInv` ties the number of a crash to the capture that is
  made for it (`Served`: a crash that was seen is answered, being dumped or about to
  be decided). `HangInv` says what the four numbers of the detector say of all
  earlier rounds: how long the present row without an answer is (`RowInv`), and how
  long the grace after a suspension holds (`GraceInv`).

One property was corrected by its proof. `ClicksLandOnElement` used to say that the
pixel clicked is at most one away from the point; on a desktop of tens of thousands
of pixels the two roundings can reach the pixel after the one the point is in, and
this is what it says now. The widths of the run never showed the difference.

### The disk

`Storage_proofs` is about `StorageSpec`, a behaviour of one of its parts.

- `SettingsStayKept` (`SettingsAreKept`): `SettingsInv` follows the save's transaction.
  `RequestsInv`: a save that is open is kept for a service or taken by it, and by one
  only, so each gets one answer. `QueueInv`: while a worker that found nothing has yet to
  look at the flag, whatever its service keeps came since, so what it drops was late.
  `LifeInv`: who runs in which part of the program's
  life, so that what has ended owes nothing. `DiskInv`: between the first key that is
  written and the commit it is the keys the update found, not those in the store, that
  agree with the engine, and the store has those of the target account by account
  (`WrittenKeys`); a rollback that failed, and nothing else, ends this (`torn`).
  `DaemonInv`: if every save is made with the daemon at hand, the daemon has the
  engine's configuration, or, until it is told, the previous one that a failed save
  goes back to.
- `DownloadsStayWhole` (`DownloadsAreWhole`) joins two. Each transfer has whole files up
  to its place in its list (`WholeUpTo`), and nobody else can put anything but a whole
  file there, because every file passes the same pinned hash on its way to its final
  name (`Pieces`); a temporary file is only beside a task that receives, is about to
  remove it or was not let to (`Beside`, `Holds`), and a batch that failed or returned starts nothing
  (`BatchInv`). Of the desktop's installers, one program holds the lock and a stage
  exists only behind it (`LockInv`); what a stage has received is the model's, with
  the hashes that are known (`OwnInstall`).
- `RecordsStayKept` (`RecordsAreKept`) joins four. *The log*: a file is unknown to those
  who prune until its receipt is marked, and from then on the writer holds the lock on
  the receipt that a pruner would have to take (`WriterInv`, `MarkedInv`,
  `PrunerInv`); every event is written, dropped, queued or in hand, and a request to
  flush stands behind those it is about (`EventsInv`). *The switch*: the number of changes
  is raised after the switch is stored and read before it is written, so what the file
  has for a number is that change or a later one (`SwitchInv`). *The memories*:
  `MemoryInv` says at each step of the copy and the rename what the file, the list and
  the context have, and `Keepable` which lists may be kept (a file that was loaded with
  duplicates excepts itself). *The context*: `UpTo` numbers the messages, so that a lost
  one would leave a gap; the estimate of tokens is the sum over the messages, a
  recursive function. The library's induction theorems cannot be used, so the module
  proves induction for a set of naturals from the least element outside it
  (`SetInduction`), from it that a recursive function exists (`RecursionExists`), and
  from that the sum of a sequence that grew or was cut.

### Only model-checked

Every safety property of the passing runs is stated by a theorem. What stays with TLC
is out of the prover's reach:
- liveness under fairness: `RequestsSettle`, `RunsSettle`, `ServiceReturns`,
  `EntriesReturn`, `ExecutionsReturn`, `AnnouncementEnds`, `StorageEnds`;
- the fairness of `ImplementsFifo`. Its initial states and steps are proved, and
  `ImplementsCalls` has no fairness, so that refinement is proved as a whole.

## 5. Plan

Done: the models of all parts, with their runs, and the proofs of the safety of all of
them.

Left, for a project that goes on: the composition of the connection with the supervisor
(the select loop awaits the supervisor's mutex), and the validation of configurations
and plans as operators checked against their tables of cases.

## 6. What is not modelled

- *Connection and supervisor.* The cached health reply of the window, the
  configuration a request is pinned to, the text of the last error, backoff times,
  and that the select loop awaits the supervisor's mutex (the modules are not
  composed). In the daemon connection: bytes, authentication and what a job
  computes.
- *Data.* Cryptography, the wire format, prompts, what a model answers, the
  validation of a configuration (`config.rs`), of a plan (`actions.rs` `validate`,
  the semantic plan of `model_scheduler.rs`) and the choice of a model to recommend
  (`manager.rs`): pure functions of their input, which keep no state.
- *Devices.* The sound device and the energy of a frame, speech output, the choice
  and scaling of a monitor, widgets and layout, the command line.
- *Executor.* The end of the parent while a worker holds a modifier, and errors of
  `try_wait`; a worker that ends by itself before it has read its request
  (`platform_worker.rs:128-141`), which has pressed nothing. That no key of the
  user's is released is no property: one that is down already is refused (`Own`), but
  one the user presses after the worker did is released with it.
- *Clicks.* The part of the virtual desktop to the right of the monitor
  (`ClickGeometry.Extent` ends with it), and the rounding of `f32`.
- *Downloads.* A batch beside single transfers, as above.
- *Diagnostics.* The contents of records and the audit file; that temporary dump
  files of a killed helper stay.
- *Memories.* The search; two processes at one file; duplicates that a loaded file
  already has stay, and the properties exempt them. The operations on memories and
  on the conversation, the recorder and the detector of speech are a library: the
  application calls only some of them, and the models take any order of calls.
- *Sound.* A buffer with an incomplete frame of several channels.
- *Tests only.* `route_planning` and its `ConfidenceEvidence` have no caller.

Components without a module are listed as `not_modelled` in `PROJECT.json`, and
those of which something is left out as `partly`.
