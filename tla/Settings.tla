-------------------------------- MODULE Settings --------------------------------
(* How the desktop stores its settings: a save is a transaction of a service,
   over the credential store, the configuration file, the engine's memory and
   the model daemon, and the program may end between any two of its steps
   (src/ale-gui/src/settings_service.rs, src/ale-core/src/config.rs,
   src/ale-core/src/lib.rs and the start of src/ale-gui/src/desktop_ui.rs).

   A configuration is a body, which goes to the file, and one key per account,
   which goes to the credential store.  A body that does not use an account
   never has its key. *)
EXTENDS Naturals, FiniteSets

CONSTANTS
    Body, Key, NoKey,      \* what the file holds, what the store holds
    Uses(_),               \* the accounts whose keys a body has
    DefaultBody,           \* AppConfig::default()
    LegacyBody,            \* a file without a "transcription" section ...
    MigratedBody,          \* ... and the body it is read as
    NoFile, NoConfig, NoRequest,
    Drafts,                \* the configurations the user saves
    InitialDisk,           \* what earlier runs of the program left behind
    MaxSaves,              \* bound: saves in one behaviour
    MaxCrashes,            \* bound: ends of the process that are not a close
    MaxEvents,             \* bound: saves and crashes together
    SaveEarly              \* the user may save before the server is up

Account == {"primary", "backup", "transcription"}
Keys == [Account -> Key \union {NoKey}]
Config == [body : Body \ {LegacyBody}, keys : Keys]

ASSUME SettingsAssumption ==
    /\ NoKey \notin Key
    /\ {DefaultBody, MigratedBody} \subseteq Body \ {LegacyBody}
    /\ \A b \in Body : Uses(b) \subseteq Account
    /\ Drafts \subseteq Config
    /\ InitialDisk \subseteq [file : {NoFile} \union [body : Body, keys : Keys], store : Keys]
    /\ NoRequest \notin Nat \ {0}
    /\ MaxSaves \in Nat /\ MaxCrashes \in Nat /\ MaxEvents \in Nat
    /\ SaveEarly \in BOOLEAN

\* The service that exists before the server has started has no daemon to tell.
Service == {"early", "full"}

VARIABLES
    program,   \* "down", "loading", "broken", "running", "closing", "ended"
    file,      \* the configuration file: a body, and keys of older versions
    temporary, \* is there a sibling temporary file?
    store,     \* the credential store
    engine,    \* the engine's configuration, or NoConfig
    daemon,    \* the configuration of the model daemon, or NoConfig
    server,    \* "off", "starting", "read" (its configuration), "ready"
    saves,     \* the requests so far: their configuration, their outcome, and (history)
               \* whether they came "late", when the worker had found nothing to save
    pending,   \* the request each service keeps for its worker
    worker,    \* "absent", "waiting", "looking", "saving", "idle" of each service
    taken,     \* the request each worker has taken
    wake,      \* has each worker's Notify a permit?
    closed,    \* the services that were dropped
    update,    \* the update_config that runs, the holder of the engine's lock
    drain,     \* "off", "check", "wait": finish_settings_writes
    drained,   \* has DRAINED a permit?
    torn,      \* where a rollback failed, and was reported: "disk", "daemon"
    crashes

disk == <<file, temporary, store>>
services == <<pending, worker, taken, wake, closed>>
settingsVars == <<program, disk, engine, daemon, server, saves, services, update,
                  drain, drained, torn, crashes>>

NoKeys == [a \in Account |-> NoKey]
Idle == [stage |-> "idle"]

SettingsInit ==
    /\ program = "down"
    /\ \E d \in InitialDisk : file = d.file /\ store = d.store
    /\ temporary = FALSE
    /\ engine = NoConfig /\ daemon = NoConfig /\ server = "off"
    /\ saves = << >>
    /\ pending = [s \in Service |-> NoRequest]
    /\ worker = [s \in Service |-> "absent"]
    /\ taken = [s \in Service |-> NoRequest]
    /\ wake = [s \in Service |-> FALSE]
    /\ closed = {}
    /\ update = Idle
    /\ drain = "off" /\ drained = FALSE
    /\ torn = {} /\ crashes = 0

------------------------------------------------------------------------------
(* ConfigManager::update_config, the only writer of the disk.  It runs to its
   end on a blocking thread, for the load of the program ("load"), or for the
   service that holds the engine's lock. *)

\* The next step of the update: `target` is what it writes, `old` the keys it
\* found, `previous` what save_transaction goes back to.
At(stage) == update' = [update EXCEPT !.stage = stage]

Begin(owner, target, previous, undoing) ==
    update' = [stage |-> "read", owner |-> owner, target |-> target, old |-> store,
               previous |-> previous, undoing |-> undoing]

\* The endpoints are validated and the three keys read; a failure changes nothing.
ReadKeys ==
    /\ update.stage = "read"
    /\ \/ update' = [update EXCEPT !.stage = "primary", !.old = store]
       \/ At("failed")
    /\ UNCHANGED <<program, disk, engine, daemon, server, saves, services, drain,
                   drained, torn, crashes>>

KeyOrder == [primary |-> "backup", backup |-> "transcription",
             transcription |-> "write"]

\* The key of one account is set, or deleted where the target has none.
WriteKey ==
    /\ update.stage \in Account
    /\ \/ /\ store' = [store EXCEPT ![update.stage] = update.target.keys[update.stage]]
          /\ At(KeyOrder[update.stage])
       \/ At("restore") /\ UNCHANGED store
    /\ UNCHANGED <<program, file, temporary, engine, daemon, server, saves, services,
                   drain, drained, torn, crashes>>

\* atomic_config_write: a synced sibling file, then a rename; keys are not written.
WriteTemporary ==
    /\ update.stage = "write"
    /\ \/ temporary' = TRUE /\ At("rename")
       \/ temporary' = FALSE /\ At("restore")
    /\ UNCHANGED <<program, file, store, engine, daemon, server, saves, services,
                   drain, drained, torn, crashes>>

Written(c) == [body |-> c.body, keys |-> NoKeys]

Rename ==
    /\ update.stage = "rename"
    /\ temporary' = FALSE
    /\ \/ file' = Written(update.target) /\ At("commit")
       \/ At("restore") /\ UNCHANGED file
    /\ UNCHANGED <<program, store, engine, daemon, server, saves, services, drain,
                   drained, torn, crashes>>

\* What a restore that could not write the accounts of `failing` leaves.
Restored(failing) ==
    [a \in Account |-> IF a \in failing THEN store[a] ELSE update.old[a]]

\* The credentials are rolled back, each account whatever becomes of the others.
RestoreKeys ==
    /\ update.stage = "restore"
    /\ \E failing \in SUBSET Account :
          /\ store' = Restored(failing)
          /\ torn' = IF Restored(failing) = update.old THEN torn ELSE torn \union {"disk"}
    /\ At("failed")
    /\ UNCHANGED <<program, file, temporary, engine, daemon, server, saves, services,
                   drain, drained, crashes>>

UpdateStep == ReadKeys \/ WriteKey \/ WriteTemporary \/ Rename \/ RestoreKeys

------------------------------------------------------------------------------
(* The start of the program: ConfigManager::load, AleEngine::new and the first
   part of setup_app_with_engine. *)

\* The keys of a configuration that is read from the file.
ReadKey(a) ==
    IF a \notin Uses(file.body) THEN NoKey
    ELSE IF file.keys[a] # NoKey THEN file.keys[a] ELSE store[a]

LoadedConfig ==
    IF file.body = LegacyBody
    THEN [body |-> MigratedBody,
          keys |-> [a \in Account |->
                       IF a = "backup" THEN ReadKey(a) ELSE ReadKey("primary")]]
    ELSE [body |-> file.body, keys |-> [a \in Account |-> ReadKey(a)]]

\* Without a file the defaults are written, and no key is read.
LoadNoFile ==
    /\ program = "down" /\ file = NoFile
    /\ file' = Written([body |-> DefaultBody])
    /\ engine' = [body |-> DefaultBody, keys |-> NoKeys]
    /\ program' = "running"
    /\ worker' = [worker EXCEPT !["early"] = "waiting"]
    /\ server' = "starting"
    /\ UNCHANGED <<temporary, store, daemon, saves, pending, taken, wake, closed, update,
                   drain, drained, torn, crashes>>

Load ==
    /\ program = "down" /\ file # NoFile
    /\ program' = "loading"
    /\ Begin("load", LoadedConfig, NoConfig, FALSE)
    /\ UNCHANGED <<disk, engine, daemon, server, saves, services, drain, drained,
                   torn, crashes>>

LoadEnds ==
    /\ program = "loading" /\ update.stage \in {"commit", "failed"}
    /\ IF update.stage = "commit"
       THEN /\ engine' = update.target
            /\ program' = "running"
            /\ worker' = [worker EXCEPT !["early"] = "waiting"]
            /\ server' = "starting"
            /\ torn' = torn \ {"disk"}
       ELSE program' = "broken" /\ UNCHANGED <<engine, worker, server, torn>>
    /\ update' = Idle
    /\ UNCHANGED <<disk, daemon, saves, pending, taken, wake, closed, drain, drained,
                   crashes>>

\* remote_server::start copies the configuration for the daemon it starts.
ServerReadsConfig ==
    /\ program = "running" /\ server = "starting" /\ update.stage = "idle"
    /\ server' = "read"
    /\ daemon' = engine /\ torn' = torn \ {"daemon"}
    /\ UNCHANGED <<program, disk, engine, saves, services, update, drain, drained,
                   crashes>>

\* The server is up: a service with its daemon replaces the first one.
ServerReady ==
    /\ program = "running" /\ server = "read"
    /\ server' = "ready"
    /\ worker' = [worker EXCEPT !["full"] = "waiting"]
    /\ closed' = closed \union {"early"}
    /\ wake' = [wake EXCEPT !["early"] = TRUE]
    /\ UNCHANGED <<program, disk, engine, daemon, saves, pending, taken, update, drain,
                   drained, torn, crashes>>

------------------------------------------------------------------------------
(* SettingsService and save_transaction. *)

Current == IF server = "ready" THEN "full" ELSE "early"
Outstanding == {r \in DOMAIN saves : saves[r].outcome = "open"}

\* The request is answered, and gone with its configuration.
Settled(r, outcome) ==
    [saves EXCEPT ![r].outcome = outcome, ![r].config = NoConfig]

\* SettingsService::submit: a request that no worker has taken is superseded.
Submit(draft) ==
    /\ program = "running" /\ Cardinality(DOMAIN saves) < MaxSaves
    /\ Cardinality(DOMAIN saves) + crashes < MaxEvents
    /\ SaveEarly \/ server = "ready"
    /\ LET r == Cardinality(DOMAIN saves) + 1
           before == pending[Current]
           kept == IF before = NoRequest THEN saves ELSE Settled(before, "superseded")
       IN /\ saves' = [i \in DOMAIN saves \union {r} |->
                          IF i = r THEN [config |-> draft, by |-> Current, outcome |-> "open",
                                         late |-> worker[Current] = "idle"]
                                   ELSE kept[i]]
          /\ pending' = [pending EXCEPT ![Current] = r]
          /\ drained' = (drained \/ before # NoRequest)
    /\ wake' = [wake EXCEPT ![Current] = TRUE]
    /\ UNCHANGED <<program, disk, engine, daemon, server, worker, taken, closed, update,
                   drain, torn, crashes>>

Wake(s) ==
    /\ worker[s] = "waiting" /\ wake[s]
    /\ wake' = [wake EXCEPT ![s] = FALSE]
    /\ worker' = [worker EXCEPT ![s] = "looking"]
    /\ UNCHANGED <<program, disk, engine, daemon, server, saves, pending, taken, closed,
                   update, drain, drained, torn, crashes>>

\* The worker takes the request, if there is one, under the lock of `pending` ...
TakeRequest(s) ==
    /\ worker[s] = "looking"
    /\ IF pending[s] # NoRequest
       THEN /\ worker' = [worker EXCEPT ![s] = "saving"]
            /\ taken' = [taken EXCEPT ![s] = pending[s]]
            /\ pending' = [pending EXCEPT ![s] = NoRequest]
       ELSE worker' = [worker EXCEPT ![s] = "idle"] /\ UNCHANGED <<taken, pending>>
    /\ UNCHANGED <<program, disk, engine, daemon, server, saves, wake, closed, update,
                   drain, drained, torn, crashes>>

\* ... and, when there was none, looks afterwards whether its service was dropped: then
\* it ends, and what was submitted in between goes with the queue, its ticket too.
LookAtClosed(s) ==
    /\ worker[s] = "idle"
    /\ worker' = [worker EXCEPT ![s] = IF s \in closed THEN "absent" ELSE "waiting"]
    /\ IF s \in closed /\ pending[s] # NoRequest
       THEN /\ saves' = Settled(pending[s], "dropped")
            /\ pending' = [pending EXCEPT ![s] = NoRequest]
            /\ drained' = TRUE
       ELSE UNCHANGED <<saves, pending, drained>>
    /\ UNCHANGED <<program, disk, engine, daemon, server, taken, wake, closed, update,
                   drain, torn, crashes>>

Saving(s) == worker[s] = "saving"

LockEngine(s) ==
    /\ Saving(s) /\ update.stage = "idle"
    /\ Begin(s, saves[taken[s]].config, engine, FALSE)
    /\ UNCHANGED <<program, disk, engine, daemon, server, saves, services, drain,
                   drained, torn, crashes>>

\* The transaction is over: its reply is sent, its ticket and the lock dropped.
Finish(s, outcome) ==
    /\ saves' = Settled(taken[s], outcome)
    /\ worker' = [worker EXCEPT ![s] = "looking"]
    /\ taken' = [taken EXCEPT ![s] = NoRequest]
    /\ update' = Idle
    /\ drained' = TRUE

\* update_config_async has written: the engine takes the configuration over.
CommitSave(s) ==
    /\ Saving(s) /\ update.stage = "commit" /\ update.owner = s
    /\ engine' = update.target
    /\ torn' = torn \ {"disk"}
    /\ IF update.undoing THEN Finish(s, "failed")
       ELSE IF s = "full" THEN At("daemon") /\ UNCHANGED <<saves, worker, taken, drained>>
       ELSE Finish(s, "saved")
    /\ UNCHANGED <<program, disk, daemon, server, pending, wake, closed, drain, crashes>>

\* A failed update ends the save; a failed rollback leaves what it was to undo.
SaveFails(s) ==
    /\ Saving(s) /\ update.stage = "failed" /\ update.owner = s
    /\ torn' = IF update.undoing THEN torn \union {"daemon"} ELSE torn
    /\ Finish(s, "failed")
    /\ UNCHANGED <<program, disk, engine, daemon, server, pending, wake, closed, drain,
                   crashes>>

UndoSave(s) == Begin(s, update.previous, NoConfig, TRUE)

\* SupervisedModeldClient::update_config: the daemon takes the configuration or
\* keeps its own, and then the disk and the engine go back to the previous one.
TellDaemon(s) ==
    /\ Saving(s) /\ update.stage = "daemon" /\ update.owner = s
    /\ \/ /\ daemon' = update.target /\ torn' = torn \ {"daemon"}
          /\ Finish(s, "saved")
       \/ UndoSave(s) /\ UNCHANGED <<daemon, torn, saves, worker, taken, drained>>
    /\ UNCHANGED <<program, disk, engine, server, pending, wake, closed, drain, crashes>>

ServiceStep(s) ==
    \/ Wake(s) \/ TakeRequest(s) \/ LookAtClosed(s) \/ LockEngine(s)
    \/ CommitSave(s) \/ SaveFails(s) \/ TellDaemon(s)

------------------------------------------------------------------------------
(* The end of the program: main waits for the saves before it leaves. *)

\* The event loop has ended: no save is submitted any more, no service started.
Close ==
    /\ program \in {"running", "broken"}
    /\ program' = "closing"
    /\ drain' = "check"
    /\ closed' = closed \union {s \in Service : worker[s] # "absent"}
    /\ wake' = [s \in Service |-> wake[s] \/ worker[s] # "absent"]
    /\ UNCHANGED <<disk, engine, daemon, server, saves, pending, worker, taken, update, drained,
                   torn, crashes>>

\* Mutant: only the saves that a worker has taken are counted.
DrainChecksTaken ==
    /\ drain = "check"
    /\ IF \A s \in Service : ~Saving(s) THEN drain' = "off" /\ program' = "ended"
                                      ELSE drain' = "wait" /\ UNCHANGED program
    /\ UNCHANGED <<disk, engine, daemon, server, saves, services, update, drained, torn,
                   crashes>>

DrainChecks ==
    /\ drain = "check"
    /\ IF Outstanding = {} THEN drain' = "off" /\ program' = "ended"
                           ELSE drain' = "wait" /\ UNCHANGED program
    /\ UNCHANGED <<disk, engine, daemon, server, saves, services, update, drained, torn,
                   crashes>>

DrainNotified ==
    /\ drain = "wait" /\ drained
    /\ drained' = FALSE /\ drain' = "check"
    /\ UNCHANGED <<program, disk, engine, daemon, server, saves, services, update, torn,
                   crashes>>

\* The process is killed, or the machine stops: only the disk is left.
Crash ==
    /\ program \in {"loading", "running", "closing", "broken"} /\ crashes < MaxCrashes
    /\ Cardinality(DOMAIN saves) + crashes < MaxEvents
    /\ crashes' = crashes + 1
    /\ program' = "down"
    /\ engine' = NoConfig /\ daemon' = NoConfig /\ server' = "off"
    /\ saves' = [r \in DOMAIN saves |->
                    IF r \in Outstanding THEN Settled(r, "lost")[r] ELSE saves[r]]
    /\ pending' = [s \in Service |-> NoRequest]
    /\ worker' = [s \in Service |-> "absent"]
    /\ taken' = [s \in Service |-> NoRequest]
    /\ wake' = [s \in Service |-> FALSE]
    /\ closed' = {} /\ update' = Idle /\ drain' = "off" /\ drained' = FALSE
    /\ UNCHANGED <<disk, torn>>

SettingsNext ==
    \/ LoadNoFile \/ Load \/ LoadEnds \/ UpdateStep
    \/ ServerReadsConfig \/ ServerReady
    \/ \E draft \in Drafts : Submit(draft)
    \/ \E s \in Service : ServiceStep(s)
    \/ Close \/ DrainChecks \/ DrainNotified \/ Crash

\* The user saves, closes and restarts at will.  Of the tasks and threads of the
\* program no more is assumed than that some one of them runs when one can.
ProgramStep ==
    \/ UpdateStep \/ LoadEnds \/ DrainChecks \/ DrainNotified
    \/ \E s \in Service : ServiceStep(s)

SettingsFairness == WF_settingsVars(ProgramStep)

------------------------------------------------------------------------------
(* Properties. *)

Quiet == program \in {"running", "ended"} /\ update.stage = "idle"

DiskHolds(c) == file = Written(c) /\ store = c.keys

\* Nothing was saved since the program found no file: the store was not read.
Untouched == engine = [body |-> DefaultBody, keys |-> NoKeys] /\ file = Written(engine)

\* When no save runs, the file and the three accounts hold the configuration of
\* the engine, and so does the daemon if every save went through a service that
\* knows it; whatever step failed, wherever the program was killed, unless a
\* rollback failed and was reported (update_config, save_transaction;
\* MODEL-CALLING.md: "A failed save restores the prior credentials and leaves
\* the in-memory configuration unchanged. A failed scheduler update rolls back
\* the saved configuration").
SavedSettingsAgree ==
    Quiet =>
        /\ (engine # NoConfig /\ "disk" \notin torn) => DiskHolds(engine) \/ Untouched
        /\ (server = "ready" /\ "daemon" \notin torn /\ \A r \in DOMAIN saves : saves[r].by = "full")
              => daemon = engine

\* When the program has waited for its saves and ends, none is open, and the last one
\* that was submitted to a service has run; unless it came in the moment between the
\* worker's last look for a request and its look whether the service was dropped: only
\* such a save is ever dropped, and none that was submitted while the worker waited or
\* saved (drain, Ticket; Drop of SettingsService: "A started transaction still owns its
\* request and finishes/rolls back").
DrainedMeansDone ==
    /\ \A r \in DOMAIN saves : saves[r].outcome = "dropped" => saves[r].late
    /\ program = "ended" =>
          /\ update.stage = "idle"
          /\ \A r \in DOMAIN saves :
                /\ saves[r].outcome # "open"
                /\ saves[r].outcome = "superseded" =>
                      r + 1 \in DOMAIN saves /\ saves[r + 1].by = saves[r].by

\* A program that was closed ends: no wake-up of the workers or of drain is lost.
ClosingEnds == program = "closing" ~> program # "closing"

\* A saved setting is in force for the next request: "Hot updates apply to new
\* requests" (MODEL-CALLING.md:75).
SavedIsInForce ==
    (program = "running" /\ server = "ready" /\ Outstanding = {} /\ torn = {})
        => daemon = engine
=================================================================================
