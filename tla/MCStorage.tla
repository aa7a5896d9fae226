-------------------------------- MODULE MCStorage --------------------------------
(* Small instances of what the program keeps on the disk: its settings, the models of
   the engine and of the desktop, its log, the switch for dumps, the memories, and with
   them the context of the session.  They share no state; a behaviour is of one of
   them, chosen at the start. *)
EXTENDS Settings, Downloads, DesktopInstall, EventLog, DumpSetting, Memories,
        Conversation, TLC

VARIABLE part
keptVars == <<logVars, switchVars, memoryVars, conversationVars>>
storageVars == <<settingsVars, downloadVars, installVars, keptVars, part>>

\* The settings.
CONSTANTS plain, other, legacy, k1, k2
UsesMost(c) == IF c = other THEN {"primary", "transcription"} ELSE Account
Of(body, p, s, t) ==
    [body |-> body, keys |-> [primary |-> p, backup |-> s, transcription |-> t]]
OtherDraft == Of(other, k2, NoKey, k2)
TwoDrafts == {Of(plain, k1, k1, k2), OtherDraft}
\* Bound: what a second save stores is one draft, whichever the first one stored.
SecondDraftIsOther ==
    \A r \in DOMAIN saves' \ {1} : saves'[r].outcome = "open" => saves'[r].config = OtherDraft
StoreOf(k) == [primary |-> k, backup |-> NoKey, transcription |-> NoKey]
NewDisk == [file |-> NoFile, store |-> StoreOf(k2)]
OldDisk == [file |-> [body |-> legacy, keys |-> StoreOf(k2)], store |-> StoreOf(k1)]
Disks == {NewDisk, OldDisk}

\* The downloads: a package twice, a model twice, or two models.
CONSTANTS t1, t2, a, b, m, n
TwoArtifacts == <<a, b>>
Asks == {[t \in Transfer |-> TwoArtifacts], [t \in Transfer |-> <<m>>],
         (t1 :> <<m>> @@ t2 :> <<n>>)}
WrongAt(f) == [g \in File |-> IF g = f THEN "wrong" ELSE "absent"]
FilesBefore == {[g \in File |-> "absent"], WrongAt(b), WrongAt(m)}
\* Bound: one file is deleted, or the process ends once.
DeletedOrStopped == spent'.deletes + spent'.stops <= 1

\* The memories: two of the same content, one that is refused, and the files that a
\* start may find.
Recall(id, content) == [id |-> id, content |-> content]
SomeMemories ==
    {Recall(1, "tea"), Recall(2, "TEA"), Recall(2, "cat"), Recall(3, "empty")}
LowerCase(memory) == IF memory.content = "TEA" THEN "tea" ELSE memory.content
SomeFiles ==
    {NoMemories, DamagedFile, Holding(<< >>),
     Holding(<<Recall(1, "tea"), Recall(2, "TEA")>>),
     Holding(<<Recall(1, "cat"), Recall(2, "tea"), Recall(2, "dog")>>)}

\* The parts that a behaviour does not run stand still in one state.
StorageInit ==
    /\ part \in {"settings", "downloads", "install", "log", "switch", "memories",
                "context"}
    /\ SettingsInit /\ (part # "settings" => file = NoFile)
    /\ DownloadsInit
    /\ batch = "running" => want[t1] # want[t2]
    /\ want[t1] # want[t2] => files[m] = "absent" /\ (batch = "none" => slots = 1)
    /\ Pinned(t1) => slots = 2 /\ files[m] = "absent"
    /\ ~Pinned(t1) => files[b] = "absent"
    /\ part # "downloads" => /\ slots = 2 /\ batch = "none"
                             /\ want[t1] = TwoArtifacts /\ files[b] = "absent"
                             /\ files[m] = "absent"
    /\ InstallInit /\ (part # "install" => archive)
    /\ LogInit /\ (part # "log" => system = "unix")
    /\ SwitchInit /\ (part # "switch" => ~switchFile)
    /\ MemoriesInit /\ (part # "memories" => memoryFile = NoMemories)
    /\ ConversationInit

KeptNext ==
    \/ /\ part = "log" /\ LogNext
       /\ UNCHANGED <<switchVars, memoryVars, conversationVars>>
    \/ /\ part = "switch" /\ SwitchNext
       /\ UNCHANGED <<logVars, memoryVars, conversationVars>>
    \/ /\ part = "memories" /\ MemoriesNext
       /\ UNCHANGED <<logVars, switchVars, conversationVars>>
    \/ /\ part = "context" /\ ConversationNext
       /\ UNCHANGED <<logVars, switchVars, memoryVars>>

StorageNext ==
    /\ UNCHANGED part
    /\ \/ /\ part = "settings" /\ SettingsNext /\ SecondDraftIsOther
          /\ UNCHANGED <<downloadVars, installVars, keptVars>>
       \/ /\ part = "downloads" /\ DownloadsNext /\ DeletedOrStopped
          /\ UNCHANGED <<settingsVars, installVars, keptVars>>
       \/ /\ part = "install" /\ InstallNext
          /\ UNCHANGED <<settingsVars, downloadVars, keptVars>>
       \/ KeptNext /\ UNCHANGED <<settingsVars, downloadVars, installVars>>

StorageSpec ==
    /\ StorageInit /\ [][StorageNext]_storageVars
    /\ SettingsFairness /\ DownloadsFairness /\ InstallFairness

\* The settings alone, from the start of the program.
StartupSpec == StorageInit /\ part = "settings" /\ [][StorageNext]_storageVars

\* The settings that were saved agree wherever they are kept, and a program that closes
\* has answered its saves; only one that came as its worker ended was dropped
\* (SettingsService).
SettingsAreKept == SavedSettingsAgree /\ DrainedMeansDone

\* What is installed, by either installer, is what was pinned; and nothing of a transfer
\* that has ended is left to disturb the next one: no task, no stage, no cancellation,
\* and no temporary file but what the system would not remove (download_pinned_artifact,
\* fetch, run_owned, download_owned).
InstalledIsWhole == PackagesAreWhole /\ ModelsAreWhole
DownloadsAreWhole ==
    InstalledIsWhole /\ NoTransferLeft /\ OneStage /\ OnlyTheUserCancels

\* The events of the program and its switch for dumps reach their files, and the
\* retention leaves a file alone that is written to; the memories of the engine are
\* those in their file, and the context of the session loses nothing but what its
\* summary has no room for (diagnostics.rs of both crates, memory.rs, context.rs).
RecordsAreKept ==
    LogsAreKept /\ SwitchIsKept /\ SavedIsWritten /\ MemoriesAreKept /\ ContextIsWhole

\* The program closes, and a transfer that was cancelled or abandoned ends, in either
\* installer.
CancelledTransfersEnd == AbandonedTransfersEnd /\ CancelledInstallsEnd
StorageEnds == ClosingEnds /\ CancelledTransfersEnd
================================================================================
