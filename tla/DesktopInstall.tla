---------------------------- MODULE DesktopInstall ----------------------------
(* The installer of desktop models (src/ale-core/src/desktop_download.rs) and the
   dialog that starts and cancels it (src/ale-gui/src/model_download_ui.rs): each
   program stages the files in a directory of its own, behind a lock file that all
   programs with the same download directory share, and makes the stage the
   model's directory by one rename.  The first model is an archive, which is
   extracted; the others are lists of files, of which some have a pinned hash.  *)
EXTENDS Naturals, FiniteSets

CONSTANTS
    Program,     \* the running desktops that share the download directory
    Listed,      \* the files of the model
    Hashed,      \* those with a hash; the content of the others is not checked
    Archives,    \* the values of "the model is an archive"
    MaxStarts    \* bound: installations that are started

ASSUME DesktopInstallAssumption ==
    Hashed \subseteq Listed /\ Archives \subseteq BOOLEAN /\ MaxStarts \in Nat

VARIABLES
    archive,   \* is the model an archive?
    active,    \* DownloadState::active of each dialog
    cancel,    \* the flag that the dialog and the task share
    asked,     \* has the user cancelled this installation?
    step,      \* where each task stands
    got,       \* the files in each stage: what each one holds
    staged,    \* does the stage of each task exist?
    success,   \* the result the task will return
    shown,     \* the result each dialog has: "none", "installed", "failed"
    installed, \* who made the model's directory ("nobody", "user", "program"), its files
    litter,    \* is there a stage that no task owns?
    starts

installVars == <<archive, active, cancel, asked, step, got, staged, success, shown,
                 installed, litter, starts>>

Nothing == [f \in {} |-> "whole"]
Absent == [by |-> "nobody", files |-> Nothing]
Theirs == [f \in Listed |-> "wrong"]

InstallInit ==
    /\ archive \in Archives
    /\ active = [p \in Program |-> FALSE]
    /\ cancel = [p \in Program |-> FALSE]
    /\ asked = [p \in Program |-> FALSE]
    /\ step = [p \in Program |-> "idle"]
    /\ got = [p \in Program |-> Nothing]
    /\ staged = [p \in Program |-> FALSE]
    /\ success = [p \in Program |-> FALSE]
    /\ shown = [p \in Program |-> "none"]
    /\ installed = Absent /\ litter = FALSE /\ starts = 0

------------------------------------------------------------------------------
(* The dialog. *)

\* on_start_download: one installation at a time, and the flag is cleared.
StartInstall(p) ==
    /\ ~active[p] /\ starts < MaxStarts
    /\ starts' = starts + 1
    /\ active' = [active EXCEPT ![p] = TRUE]
    /\ shown' = [shown EXCEPT ![p] = "none"]
    /\ cancel' = [cancel EXCEPT ![p] = FALSE]
    /\ asked' = [asked EXCEPT ![p] = FALSE]
    /\ step' = [step EXCEPT ![p] = "lock"]
    /\ UNCHANGED <<archive, got, staged, success, installed, litter>>

\* on_cancel_download, and Tools::drop when the window goes.
CancelInstall(p) ==
    /\ active[p]
    /\ cancel' = [cancel EXCEPT ![p] = TRUE]
    /\ asked' = [asked EXCEPT ![p] = TRUE]
    /\ UNCHANGED <<archive, active, step, got, staged, success, shown, installed, litter,
                   starts>>

------------------------------------------------------------------------------
(* download_owned, the task that outlives its waiter. *)

Advance(p, s) == step' = [step EXCEPT ![p] = s]

\* The lock of the model is held from try_lock to the end of the task.
HoldsLock(p) == step[p] \in {"look", "list", "fetch", "extract", "check", "rename", "remove"}

\* Everything between the stage's creation and its removal ends in the removal.
Breaks(p) == Advance(p, "remove") /\ UNCHANGED <<success, installed>>

TakeLock(p) ==
    /\ step[p] = "lock"
    /\ \/ ~(\E q \in Program \ {p} : HoldsLock(q)) /\ Advance(p, "look")
       \/ Advance(p, "return")
    /\ UNCHANGED <<archive, active, cancel, asked, got, staged, success, shown, installed,
                   litter, starts>>

\* An existing directory is refused; else a stage of a new name is created.
Look(p) ==
    /\ step[p] = "look"
    /\ IF installed # Absent THEN Advance(p, "return") /\ UNCHANGED staged
       ELSE \/ /\ staged' = [staged EXCEPT ![p] = TRUE]
               /\ Advance(p, IF archive THEN "fetch" ELSE "list")
            \/ Advance(p, "return") /\ UNCHANGED staged
    /\ UNCHANGED <<archive, active, cancel, asked, got, success, shown, installed, litter,
                   starts>>

\* The files of the revision are asked for; an empty list is refused.
List(p) ==
    /\ step[p] = "list"
    /\ Advance(p, "fetch") \/ Advance(p, "remove")
    /\ UNCHANGED <<archive, active, cancel, asked, got, staged, success, shown, installed,
                   litter, starts>>

\* What a fetch accepts: the stated length, if there is one, and the hash.
Accepts(f, content) == f \in Hashed => content = "whole"

\* fetch, of the archive (which has a hash) or of the next file.
Fetch(p) ==
    /\ step[p] = "fetch"
    /\ IF archive
       THEN UNCHANGED <<got, success, installed>> /\ (Advance(p, "extract") \/ Advance(p, "remove"))
       ELSE IF DOMAIN got[p] = Listed
       THEN Advance(p, "check") /\ UNCHANGED <<got, success, installed>>
       ELSE \/ Breaks(p) /\ UNCHANGED got
            \/ /\ ~cancel[p]
               /\ \E f \in Listed \ DOMAIN got[p], content \in {"whole", "short", "wrong"} :
                     /\ Accepts(f, content)
                     /\ got' = [got EXCEPT ![p] =
                                   [g \in DOMAIN @ \union {f} |-> IF g = f THEN content ELSE @[g]]]
               /\ UNCHANGED <<step, success, installed>>
    /\ UNCHANGED <<archive, active, cancel, asked, staged, shown, litter, starts>>

\* cancelled() polls the flag beside every request.
GiveUpRequest(p) ==
    /\ step[p] \in {"list", "fetch"} /\ cancel[p]
    /\ Breaks(p)
    /\ UNCHANGED <<archive, active, cancel, asked, got, staged, shown, litter, starts>>

\* The blocking extraction and verification look at the flag between chunks.
Extract(p) ==
    /\ step[p] = "extract"
    /\ \/ /\ ~cancel[p]
          /\ got' = [got EXCEPT ![p] = [f \in Listed |-> "whole"]]
          /\ Advance(p, "check")
       \/ Advance(p, "remove") /\ UNCHANGED got
    /\ UNCHANGED <<archive, active, cancel, asked, staged, success, shown, installed,
                   litter, starts>>

\* The last look at the flag and at the destination.
CheckInstall(p) ==
    /\ step[p] = "check"
    /\ Advance(p, IF cancel[p] \/ installed # Absent THEN "remove" ELSE "rename")
    /\ UNCHANGED <<archive, active, cancel, asked, got, staged, success, shown, installed,
                   litter, starts>>

\* A directory that has appeared since makes the rename fail, unless it is empty: then
\* most systems replace it.
Commit(p) ==
    /\ step[p] = "rename"
    /\ \/ /\ installed.files = Nothing
          /\ installed' = [by |-> "program", files |-> got[p]]
          /\ staged' = [staged EXCEPT ![p] = FALSE]
          /\ success' = [success EXCEPT ![p] = TRUE]
          /\ Advance(p, "remove")
       \/ Breaks(p) /\ UNCHANGED staged
    /\ UNCHANGED <<archive, active, cancel, asked, got, shown, litter, starts>>

\* The stage is removed, as far as the file system lets it; then the lock goes.
RemoveStage(p) ==
    /\ step[p] = "remove"
    /\ litter' \in {litter, litter \/ staged[p]}
    /\ staged' = [staged EXCEPT ![p] = FALSE]
    /\ got' = [got EXCEPT ![p] = Nothing]
    /\ Advance(p, "return")
    /\ UNCHANGED <<archive, active, cancel, asked, success, shown, installed, starts>>

\* download: the guard that cancels an abandoned installation is dropped ...
Return(p) ==
    /\ step[p] = "return"
    /\ cancel' = [cancel EXCEPT ![p] = TRUE]
    /\ Advance(p, "settle")
    /\ UNCHANGED <<archive, active, asked, got, staged, success, shown, installed, litter,
                   starts>>

\* ... before the dialog may start the next one.
Settle(p) ==
    /\ step[p] = "settle"
    /\ active' = [active EXCEPT ![p] = FALSE]
    /\ shown' = [shown EXCEPT ![p] = IF success[p] THEN "installed" ELSE "failed"]
    /\ success' = [success EXCEPT ![p] = FALSE]
    /\ Advance(p, "idle")
    /\ UNCHANGED <<archive, cancel, asked, got, staged, installed, litter, starts>>

InstallStep(p) ==
    \/ TakeLock(p) \/ Look(p) \/ GiveUpRequest(p) \/ Extract(p) \/ CheckInstall(p)
    \/ Commit(p) \/ RemoveStage(p) \/ Return(p) \/ Settle(p)

------------------------------------------------------------------------------
(* What happens around the task. *)

\* A program ends: the system releases its lock, its stage stays.
Kill(p) ==
    /\ step[p] # "idle"
    /\ litter' = (litter \/ staged[p])
    /\ staged' = [staged EXCEPT ![p] = FALSE]
    /\ got' = [got EXCEPT ![p] = Nothing]
    /\ active' = [active EXCEPT ![p] = FALSE]
    /\ cancel' = [cancel EXCEPT ![p] = FALSE]
    /\ asked' = [asked EXCEPT ![p] = FALSE]
    /\ success' = [success EXCEPT ![p] = FALSE]
    /\ shown' = [shown EXCEPT ![p] = "none"]
    /\ Advance(p, "idle")
    /\ UNCHANGED <<archive, installed, starts>>

\* The user puts a directory of his own there, empty or with files in it.
PutForeign ==
    /\ installed.by # "program" /\ installed.files = Nothing
    /\ \E content \in {Nothing, Theirs} : installed' = [by |-> "user", files |-> content]
    /\ UNCHANGED <<archive, active, cancel, asked, step, got, staged, success, shown,
                   litter, starts>>

InstallNext ==
    \/ \E p \in Program : \/ StartInstall(p) \/ CancelInstall(p) \/ Kill(p)
                          \/ InstallStep(p) \/ List(p) \/ Fetch(p)
    \/ PutForeign

\* Some task runs when one can; nothing is assumed of the network and of the user.
InstallFairness == WF_installVars(\E p \in Program : InstallStep(p))

------------------------------------------------------------------------------
(* Properties. *)

\* What an installer has put in the model's directory is complete, and is what was
\* pinned as far as anything was, whoever else installs, cancels, ends or makes the
\* directory meanwhile (download_owned).
ModelsAreWhole ==
    installed.by = "program" =>
        /\ DOMAIN installed.files = Listed
        /\ \A f \in Hashed : installed.files[f] = "whole"

\* At most one stage of a model is being filled, and none is left by a program
\* whose dialog is ready again (the lock file, remove_dir_all).
OneStage ==
    /\ Cardinality({p \in Program : staged[p]}) <= 1
    /\ \A p \in Program : staged[p] => active[p]

\* An installation is cancelled by its own user only: the guard of the one before,
\* which sets the same flag, never stops it (CancelOnDrop, on_start_download).
OnlyTheUserCancels ==
    \A p \in Program : (cancel[p] /\ active[p] /\ step[p] # "settle") => asked[p]

\* A cancelled installation ends, and its dialog is ready again (cancelled,
\* CancellableReader).
CancelledInstallsEnd == \A p \in Program : (active[p] /\ cancel[p]) ~> ~active[p]
=================================================================================
