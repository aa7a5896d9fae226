------------------------------- MODULE Downloads -------------------------------
(* The transfers of the model downloader (src/ale-core/src/downloader.rs, and the
   engine's calls of it in src/ale-core/src/lib.rs): a detached task per transfer,
   a cancellation flag that its waiter sets when it is dropped, a bounded number of
   slots, one task per destination, and a temporary file that becomes the model by
   a rename.  A "package" has pinned artifacts, whose size and hash are checked; a
   "model" is one file whose length is checked when the server states it. *)
EXTENDS Naturals, Sequences, FiniteSets

CONSTANTS
    Transfer,     \* the transfers the program is asked for
    Requests,     \* what they may be asked to place
    InitialFiles, \* what earlier runs and the user left on the disk
    Artifacts,    \* the artifacts of the package, in their order
    Model,        \* the files of the known models
    Slots,        \* the values of max_concurrent
    MaxDeletes,   \* bound: calls of delete_model
    MaxStops      \* bound: ends of the process

File == {Artifacts[i] : i \in DOMAIN Artifacts} \union Model

ASSUME DownloadsAssumption ==
    /\ Artifacts \in Seq(File)
    /\ Slots \subseteq Nat \ {0}
    /\ Requests \subseteq [Transfer -> {Artifacts} \union {<<m>> : m \in Model}]
    /\ InitialFiles \subseteq [File -> {"absent", "whole", "wrong"}]
    /\ MaxDeletes \in Nat /\ MaxStops \in Nat
    /\ \A i \in DOMAIN Artifacts : Artifacts[i] \notin Model

VARIABLES
    slots,     \* max_concurrent: at most that many tasks run
    want,      \* the files each transfer is to place, in their order
    batch,     \* are the transfers one batch? "none", "running", "failed", "ended"
    stage,     \* where its task stands
    place,     \* the index of the file it is at
    temp,      \* its temporary file: "none", what has been written to it, or "left"
    stated,    \* has the server stated the length?
    cancelled, \* the transfers whose flag is set
    awaited,   \* the transfers somebody still waits for
    outcome,   \* "none", "installed", "failed"
    files,     \* each file: "absent", "whole", "short" or "wrong"
    recorded,  \* the models the manager believes to be downloaded
    deleting,  \* the models that were removed from the disk and not yet recorded
    spent      \* deletes and stops so far

downloadVars == <<slots, want, batch, stage, place, temp, stated, cancelled, awaited,
                  outcome, files, recorded, deleting, spent>>
given == <<slots, want>>
beside == <<recorded, deleting, spent>>

Running(t) == stage[t] \notin {"idle", "ended"}
Pinned(t) == want[t] = Artifacts
Target(t) == want[t][1]
CurrentFile(t) == want[t][place[t]]

DownloadsInit ==
    /\ slots \in Slots
    /\ want \in Requests
    /\ batch \in IF \A t \in Transfer : ~Pinned(t) THEN {"none", "running"} ELSE {"none"}
    /\ stage = [t \in Transfer |-> "idle"]
    /\ place = [t \in Transfer |-> 1]
    /\ temp = [t \in Transfer |-> "none"]
    /\ stated = [t \in Transfer |-> TRUE]
    /\ cancelled = {} /\ awaited = Transfer
    /\ outcome = [t \in Transfer |-> "none"]
    /\ files \in InitialFiles
    /\ recorded = {} /\ deleting = {}
    /\ spent = [deletes |-> 0, stops |-> 0]

------------------------------------------------------------------------------
(* The life of a task. *)

GoTo(t, s) == stage' = [stage EXCEPT ![t] = s]

\* A failed step leaves the temporary file to be removed.
FailStep(t) == GoTo(t, "clean")

SlotFree == Cardinality({t \in Transfer : Running(t)}) < slots

\* run_owned, or the batch's supervisor, takes a slot, or answers that it is busy.
BeginTransfer(t) ==
    /\ stage[t] = "idle" /\ batch # "failed" /\ t \notin cancelled
    /\ IF SlotFree
       THEN GoTo(t, "started") /\ UNCHANGED <<outcome, batch, cancelled>>
       ELSE /\ batch = "none"
            /\ GoTo(t, "ended")
            /\ outcome' = [outcome EXCEPT ![t] = "failed"]
            /\ UNCHANGED <<batch, cancelled>>
    /\ UNCHANGED <<given, place, temp, stated, awaited, files, beside>>

\* A second task for the same destination is refused.
Reserve(t) ==
    /\ stage[t] = "started"
    /\ IF \E u \in Transfer : Running(u) /\ stage[u] # "started" /\ Target(u) = Target(t)
       THEN FailStep(t) ELSE GoTo(t, "file")
    /\ UNCHANGED <<given, batch, place, temp, stated, cancelled, awaited, outcome, files, beside>>

\* What exists is verified (an artifact) or accepted (a model).
NextFile(t) ==
    /\ stage[t] = "file"
    /\ IF place[t] > Len(want[t]) THEN GoTo(t, "done")
       ELSE IF Pinned(t) /\ t \in cancelled THEN FailStep(t)
       ELSE IF files[CurrentFile(t)] = "absent" THEN GoTo(t, "request")
       ELSE GoTo(t, IF Pinned(t) THEN "verify" ELSE "done")
    /\ UNCHANGED <<given, batch, place, temp, stated, cancelled, awaited, outcome, files, beside>>

Placed(t) == place' = [place EXCEPT ![t] = @ + 1] /\ GoTo(t, "file")

\* verify_artifact_cancellable reads the whole file, and looks at the flag.
Verify(t) ==
    /\ stage[t] = "verify"
    /\ IF files[CurrentFile(t)] = "whole" /\ t \notin cancelled
       THEN Placed(t) ELSE FailStep(t) /\ UNCHANGED place
    /\ UNCHANGED <<given, batch, temp, stated, cancelled, awaited, outcome, files, beside>>

\* The server answers; a length other than the pinned one is refused.
Respond(t) ==
    /\ stage[t] = "request"
    /\ \/ /\ stated' \in {[stated EXCEPT ![t] = s] : s \in BOOLEAN}
          /\ temp' = [temp EXCEPT ![t] = "short"]
          /\ GoTo(t, "stream")
       \/ FailStep(t) /\ UNCHANGED <<stated, temp>>
    /\ UNCHANGED <<given, batch, place, cancelled, awaited, outcome, files, beside>>

\* The stream ends: complete, early, with other bytes, or with an error.
Receive(t) ==
    /\ stage[t] = "stream"
    /\ \/ \E content \in {"whole", "short", "wrong"} :
             temp' = [temp EXCEPT ![t] = content]
          /\ GoTo(t, "check")
       \/ FailStep(t) /\ UNCHANGED temp
    /\ UNCHANGED <<given, batch, place, stated, cancelled, awaited, outcome, files, beside>>

\* Mutant: the flag is looked at only while bytes are awaited.
GiveUpStreaming(t) ==
    /\ stage[t] = "stream" /\ t \in cancelled
    /\ FailStep(t)
    /\ UNCHANGED <<given, batch, place, temp, stated, cancelled, awaited, outcome, files, beside>>

\* The awaits of the network give up when the flag is set.
GiveUp(t) ==
    /\ stage[t] \in {"request", "stream"} /\ t \in cancelled
    /\ FailStep(t)
    /\ UNCHANGED <<given, batch, place, temp, stated, cancelled, awaited, outcome, files, beside>>

\* The flag, the size, and for an artifact the hash; a model that has appeared
\* meanwhile is preserved.
Acceptable(t) ==
    /\ t \notin cancelled
    /\ IF Pinned(t) THEN temp[t] = "whole"
       ELSE (stated[t] => temp[t] # "short") /\ files[CurrentFile(t)] = "absent"

Check(t) ==
    /\ stage[t] = "check"
    /\ IF Acceptable(t) THEN GoTo(t, "rename") ELSE FailStep(t)
    /\ UNCHANGED <<given, batch, place, temp, stated, cancelled, awaited, outcome, files, beside>>

PlaceFile(t) ==
    /\ stage[t] = "rename"
    /\ \/ /\ files' = [files EXCEPT ![CurrentFile(t)] = temp[t]]
          /\ temp' = [temp EXCEPT ![t] = "none"]
          /\ Placed(t)
       \/ FailStep(t) /\ UNCHANGED <<files, temp, place>>
    /\ UNCHANGED <<given, batch, stated, cancelled, awaited, outcome, beside>>

\* The temporary file is removed after a failure, unless the system refuses that,
\* which is ignored; its name is never used again.
Clean(t) ==
    /\ stage[t] = "clean"
    /\ \/ temp' = [temp EXCEPT ![t] = "none"]
       \/ temp[t] # "none" /\ temp' = [temp EXCEPT ![t] = "left"]
    /\ GoTo(t, "undone")
    /\ UNCHANGED <<given, batch, place, stated, cancelled, awaited, outcome, files, beside>>

\* The first failure of a batch cancels the rest of it.
AfterFailure == IF batch = "running" THEN Transfer ELSE {}

\* The task ends; its reservation and its slot are given back.
End(t) ==
    /\ stage[t] \in {"done", "undone"}
    /\ GoTo(t, "ended")
    /\ outcome' = [outcome EXCEPT ![t] = IF stage[t] = "done" THEN "installed" ELSE "failed"]
    /\ IF stage[t] = "undone" /\ batch # "none"
       THEN batch' = "failed" /\ cancelled' = cancelled \union AfterFailure
       ELSE UNCHANGED <<batch, cancelled>>
    /\ place' = [place EXCEPT ![t] = 1] /\ stated' = [stated EXCEPT ![t] = TRUE]
    /\ UNCHANGED <<given, temp, awaited, files, beside>>

\* Mutant: the batch returns at its first failure.
JoinedOrFailed ==
    \/ batch = "failed"
    \/ \A t \in Transfer : ~Running(t) /\ (stage[t] = "idle" => t \in cancelled)

\* download_models_concurrent returns when nothing of the batch runs any more.
Joined == \A t \in Transfer : ~Running(t) /\ (stage[t] = "idle" => t \in cancelled \/ batch = "failed")

BatchEnds ==
    /\ batch \in {"running", "failed"} /\ Joined
    /\ batch' = "ended"
    /\ UNCHANGED <<given, stage, place, temp, stated, cancelled, awaited, outcome, files, beside>>

\* CancelOnDrop: the future that waits for the task is dropped.
Abandon(t) ==
    /\ t \in awaited /\ Running(t)
    /\ IF batch = "none" THEN awaited' = awaited \ {t} /\ cancelled' = cancelled \union {t}
                         ELSE awaited' = {} /\ cancelled' = Transfer
    /\ UNCHANGED <<given, batch, stage, place, temp, stated, outcome, files, beside>>

------------------------------------------------------------------------------
(* The engine beside the transfers. *)

\* AleEngine::download_model: the waiter tells the manager.
RecordDownload(t) ==
    /\ outcome[t] = "installed" /\ ~Pinned(t) /\ t \in awaited /\ batch = "none"
    /\ recorded' = recorded \union {want[t][1]}
    /\ awaited' = awaited \ {t}
    /\ UNCHANGED <<given, batch, stage, place, temp, stated, cancelled, outcome, files,
                   deleting, spent>>

\* AleEngine::delete_model: the file is removed, whoever transfers it ...
Delete(m) ==
    /\ m \notin deleting /\ spent.deletes < MaxDeletes
    /\ spent' = [spent EXCEPT !.deletes = @ + 1]
    /\ files' = [files EXCEPT ![m] = "absent"]
    /\ deleting' = deleting \union {m}
    /\ UNCHANGED <<given, batch, stage, place, temp, stated, cancelled, awaited, outcome,
                   recorded>>

\* ... and then the manager is told.
RecordDelete(m) ==
    /\ m \in deleting
    /\ deleting' = deleting \ {m}
    /\ recorded' = recorded \ {m}
    /\ UNCHANGED <<given, batch, stage, place, temp, stated, cancelled, awaited, outcome,
                   files, spent>>

\* The process ends: its tasks are gone, its temporary files stay, and the next
\* process may be asked for the same files.
Stop ==
    /\ spent.stops < MaxStops
    /\ spent' = [spent EXCEPT !.stops = @ + 1]
    /\ stage' = [t \in Transfer |-> "idle"]
    /\ place' = [t \in Transfer |-> 1]
    /\ temp' = [t \in Transfer |-> "none"]
    /\ outcome' = [t \in Transfer |-> "none"]
    /\ cancelled' = {} /\ awaited' = Transfer
    /\ batch' = IF batch = "none" THEN "none" ELSE "running"
    /\ recorded' = {} /\ deleting' = {}
    /\ stated' = [t \in Transfer |-> TRUE]
    /\ UNCHANGED <<given, files>>

TaskStep(t) ==
    \/ Reserve(t) \/ NextFile(t) \/ Verify(t) \/ GiveUp(t)
    \/ Check(t) \/ PlaceFile(t) \/ Clean(t) \/ End(t)

NetworkStep(t) == Respond(t) \/ Receive(t)

DownloadsNext ==
    \/ \E t \in Transfer : \/ BeginTransfer(t) \/ TaskStep(t) \/ NetworkStep(t)
                           \/ Abandon(t) \/ RecordDownload(t)
    \/ BatchEnds
    \/ \E m \in Model : Delete(m) \/ RecordDelete(m)
    \/ Stop

\* Some task runs when one can; nothing is assumed of the network, the user or the
\* callers.
DownloadsFairness == WF_downloadVars(\E t \in Transfer : TaskStep(t))

------------------------------------------------------------------------------
(* Properties. *)

\* A package that was installed is complete and every artifact is the pinned one,
\* and no artifact is ever placed otherwise: what is wrong was there before
\* (install_package_inner, download_pinned_artifact).
PackagesAreWhole ==
    \A t \in Transfer : Pinned(t) =>
        /\ outcome[t] = "installed" => \A i \in DOMAIN want[t] : files[want[t][i]] = "whole"
        /\ \A i \in DOMAIN want[t] : files[want[t][i]] # "short"

\* No transfer ends, and no batch returns, before the removal of every temporary file
\* was tried, and no task goes on behind a batch that has returned: "Supervisor
\* outlives an abandoned waiter and joins every active transfer before exit"
\* (downloader.rs:676).
NoTransferLeft ==
    /\ \A t \in Transfer : ~Running(t) => temp[t] \in {"none", "left"}
    /\ batch = "ended" => \A t \in Transfer : ~Running(t)

\* A transfer that nobody waits for ends, whatever the network does (cancelled,
\* check_cancel).
AbandonedTransfersEnd ==
    \A t \in Transfer : (t \in cancelled /\ Running(t)) ~> ~Running(t)
=================================================================================
