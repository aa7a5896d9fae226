-------------------------------- MODULE DumpSetting --------------------------------
(* The switch for the dumps: a thread of its own reads it from its file, writes it back
   when the user has changed it, and gets a last chance when the program closes
   (start_settings_worker and set_auto_dump_enabled, ale-gui/src/diagnostics.rs). *)
EXTENDS Naturals

CONSTANT MaxChanges    \* bound: changes by the user

VARIABLES
    switch,     \* the switch, the number of changes, and the change that is half made
    keeper,     \* the thread: its step and what it has read and saved
    switchFile  \* what the file says
switchVars == <<switch, keeper, switchFile>>

SwitchInit ==
    /\ switch = [on |-> FALSE, changes |-> 0, changing |-> FALSE, closing |-> FALSE]
    /\ switchFile \in BOOLEAN
    /\ keeper = [step |-> "open", read |-> FALSE, change |-> 0, saved |-> 0,
                 closing |-> FALSE, flushed |-> FALSE, failed |-> FALSE]

\* The user's thread stores the switch and then raises the number of changes.
Choose ==
    /\ ~switch.changing /\ ~switch.closing /\ switch.changes < MaxChanges
    /\ \E on \in BOOLEAN : switch' = [switch EXCEPT !.on = on, !.changing = TRUE]
    /\ UNCHANGED <<keeper, switchFile>>

CountChange ==
    /\ switch.changing
    /\ switch' = [switch EXCEPT !.changing = FALSE, !.changes = @ + 1]
    /\ UNCHANGED <<keeper, switchFile>>

\* shutdown_requested, on the same thread when the window is closed.
Shutdown ==
    /\ ~switch.changing /\ ~switch.closing
    /\ switch' = [switch EXCEPT !.closing = TRUE]
    /\ UNCHANGED <<keeper, switchFile>>

Keep(k) == keeper' = k /\ UNCHANGED <<switch, switchFile>>

\* What the file says is taken unless the user has changed the switch meanwhile; the
\* thread starts before there is a window, and so before any change.
OpenFile ==
    /\ keeper.step = "open"
    /\ \E readable \in BOOLEAN :
          Keep([keeper EXCEPT !.step = "compare", !.read = switchFile \/ ~readable])

Compare ==
    /\ keeper.step = "compare"
    /\ Keep([keeper EXCEPT !.step = IF switch.changes = keeper.saved THEN "take"
                                    ELSE "loop"])

TakeSwitch ==
    /\ keeper.step = "take"
    /\ switch' = [switch EXCEPT !.on = keeper.read]
    /\ keeper' = [keeper EXCEPT !.step = "loop"]
    /\ UNCHANGED switchFile

\* It reads whether the program closes before it reads the number of changes.
Turn ==
    /\ keeper.step = "loop" /\ ~keeper.flushed
    /\ Keep([keeper EXCEPT !.step = "number", !.closing = switch.closing])

NumberRead ==
    /\ keeper.step = "number"
    /\ \E waits \in BOOLEAN :      \* a minute after a failure, unless it closes
          /\ waits => keeper.failed /\ ~keeper.closing
          /\ Keep([keeper EXCEPT !.change = switch.changes,
                      !.step = IF switch.changes # keeper.saved /\ ~waits
                               THEN "write" ELSE "end"])

\* The file is written beside the old one, which it then replaces.
WriteSwitch ==
    /\ keeper.step = "write"
    /\ Keep([keeper EXCEPT !.step = "replace", !.read = switch.on])

ReplaceFile ==
    /\ keeper.step = "replace"
    /\ \/ /\ switchFile' = keeper.read
          /\ keeper' = [keeper EXCEPT !.step = "end", !.saved = keeper.change,
                                      !.failed = FALSE]
       \/ /\ keeper' = [keeper EXCEPT !.step = "end", !.failed = TRUE]
          /\ UNCHANGED switchFile
    /\ UNCHANGED switch

EndTurn ==
    /\ keeper.step = "end"
    /\ Keep([keeper EXCEPT !.step = "loop", !.flushed = keeper.closing])

SwitchNext ==
    \/ Choose \/ CountChange \/ Shutdown
    \/ OpenFile \/ Compare \/ TakeSwitch
    \/ Turn \/ NumberRead \/ WriteSwitch \/ ReplaceFile \/ EndTurn

--------------------------------------------------------------------------------
\* When the program has closed, the file holds the switch as it was shown, unless the
\* file could not be written; a program in which nothing was changed writes nothing.
SwitchIsKept ==
    keeper.flushed =>
        IF keeper.saved = switch.changes
        THEN switch.changes > 0 => switchFile = switch.on
        ELSE keeper.failed

\* Between its turns, the thread never takes a change for saved that the file misses.
SavedIsWritten ==
    /\ keeper.step = "loop" /\ keeper.saved = switch.changes /\ switch.changes > 0
    /\ ~switch.changing
    => switchFile = switch.on
================================================================================
