---------------------------------- MODULE Memories ----------------------------------
(* The memories that the engine keeps in a file of its own: MemoryStore of
   ale-core/src/memory.rs, and the operations of the engine on it and on the context
   that its prompts are made from (ale-core/src/lib.rs).  A memory has an identifier
   and a content; contents that differ only in the case of their letters are the
   same.  The file is the engine's while it runs; a crash ends the engine at any step,
   and the file may be changed or damaged before the next start. *)
EXTENDS Naturals, Sequences

CONSTANTS Memory,        \* records with an id and a content
          Folded(_),     \* the content of a memory in one case of letters
          Bad,           \* a content that is refused: empty, or of no finite importance
          MaxMemories,   \* what the file can hold; 32 megabytes in the code
          Found          \* what the file may say when the engine has not written it

\* The memories that may be asked for, or found.
AnyMemory == Memory \cup UNION {{f.entries[i] : i \in DOMAIN f.entries} : f \in Found}

ASSUME MemoriesAssumption ==
    /\ MaxMemories \in Nat
    /\ Found \subseteq [kind : {"none", "damaged", "whole"}, entries : Seq(AnyMemory)]

VARIABLES
    memoryFile,  \* the file: none, damaged, or the memories in it
    memories,    \* the engine: its step, its memories, its context, the ones to save
    before       \* what the file said when the last operation or start began
memoryVars == <<memoryFile, memories, before>>

NoMemories == [kind |-> "none", entries |-> << >>]
DamagedFile == [kind |-> "damaged", entries |-> << >>]
Holding(entries) == [kind |-> "whole", entries |-> entries]

Off == [step |-> "off", entries |-> << >>, context |-> << >>, next |-> << >>,
        available |-> TRUE, starts |-> FALSE, answer |-> "none", twins |-> FALSE]

Twins(entries) ==
    \E i, j \in DOMAIN entries : i < j /\ Folded(entries[i]) = Folded(entries[j])

MemoriesInit ==
    /\ memoryFile \in Found
    /\ memories = Off
    /\ before = NoMemories

--------------------------------------------------------------------------------
\* load: a file that is damaged, too large or holds a bad memory is not taken; an empty
\* file holds no memories.
Loadable(saved) ==
    /\ saved.kind = "whole" /\ Len(saved.entries) <= MaxMemories
    /\ \A i \in DOMAIN saved.entries : Folded(saved.entries[i]) # Bad

Loaded(saved) ==
    CASE saved.kind = "none" -> [Off EXCEPT !.step = "write", !.starts = TRUE]
      [] Loadable(saved) -> [Off EXCEPT !.step = "idle", !.entries = saved.entries,
                                 !.context = saved.entries, !.twins = Twins(saved.entries)]
      [] OTHER -> [Off EXCEPT !.step = "idle", !.available = FALSE]

\* load_preserving: a first file is made when there is none; a file that cannot be
\* loaded makes the store unavailable.
OpenMemories ==
    /\ memories.step = "off"
    /\ memories' = Loaded(memoryFile)
    /\ before' = memoryFile
    /\ UNCHANGED memoryFile

\* add_many: memories that are there already are left out, also those of the batch.
Added(entries, batch) ==
    LET all[i \in 0..Len(batch)] ==
            IF i = 0 THEN entries
            ELSE IF \E j \in DOMAIN all[i - 1] : Folded(all[i - 1][j]) = Folded(batch[i])
                 THEN all[i - 1] ELSE Append(all[i - 1], batch[i])
    IN all[Len(batch)]

\* delete: the memories with another identifier.
Without(entries, id) ==
    LET kept[i \in 0..Len(entries)] ==
            IF i = 0 THEN << >>
            ELSE IF entries[i].id = id THEN kept[i - 1] ELSE Append(kept[i - 1], entries[i])
    IN kept[Len(entries)]

\* An operation is answered at once, or the new memories have to be saved.
Answers(how) == memories' = [memories EXCEPT !.answer = how]
SavesNext(next) == memories' = [memories EXCEPT !.step = "write", !.next = next]

\* A bad memory refuses the whole batch.
AddMany(batch) ==
    LET next == Added(memories.entries, batch) IN
    IF ~memories.available \/ \E i \in DOMAIN batch : Folded(batch[i]) = Bad
    THEN Answers("failed")
    ELSE IF next = memories.entries THEN Answers("nothing") ELSE SavesNext(next)

DeleteMemory(id) ==
    LET next == Without(memories.entries, id) IN
    IF ~memories.available THEN Answers("failed")
    ELSE IF next = memories.entries THEN Answers("nothing") ELSE SavesNext(next)

\* clear saves even when there is nothing to clear.
ClearMemories == IF memories.available THEN SavesNext(<< >>) ELSE Answers("failed")

Batches == {<<m>> : m \in Memory} \cup {<<m, o>> : m, o \in Memory}

OperateMemories ==
    /\ memories.step = "idle"
    /\ \/ \E batch \in Batches : AddMany(batch)
       \/ \E id \in {m.id : m \in Memory} : DeleteMemory(id)
       \/ ClearMemories
    /\ before' = memoryFile
    /\ UNCHANGED memoryFile

--------------------------------------------------------------------------------
(* save_entries: the new file is written and synced beside the old one, which it then
   replaces. *)

\* A first file that cannot be saved makes the store unavailable.
SavingFails ==
    memories' = [memories EXCEPT !.step = "idle", !.next = << >>, !.answer = "failed",
                     !.available = ~memories.starts, !.starts = FALSE]

WriteBeside ==
    /\ memories.step = "write"
    /\ \/ SavingFails
       \/ /\ Len(memories.next) <= MaxMemories
          /\ memories' = [memories EXCEPT !.step = "rename"]
    /\ UNCHANGED <<memoryFile, before>>

ReplaceOld ==
    /\ memories.step = "rename"
    /\ \/ SavingFails /\ UNCHANGED memoryFile
       \/ /\ memoryFile' = Holding(memories.next)
          /\ memories' = [memories EXCEPT !.step = "adopt"]
    /\ UNCHANGED before

\* Only then does the engine take the new memories, and give them to its context.
Adopt ==
    /\ memories.step = "adopt"
    /\ memories' = [memories EXCEPT !.step = "idle", !.entries = memories.next,
                        !.context = memories.next, !.next = << >>,
                        !.answer = "changed", !.starts = FALSE]
    /\ UNCHANGED <<memoryFile, before>>

EngineEnds ==
    /\ memories.step # "off"
    /\ memories' = Off
    /\ UNCHANGED <<memoryFile, before>>

\* Between two runs the file may be changed, removed or damaged.
ChangeFile ==
    /\ memories.step = "off"
    /\ memoryFile' \in Found
    /\ before' = memoryFile'
    /\ UNCHANGED memories

MemoriesNext ==
    \/ OpenMemories \/ OperateMemories \/ WriteBeside \/ ReplaceOld \/ Adopt
    \/ EngineEnds \/ ChangeFile

--------------------------------------------------------------------------------
\* A file that could not be loaded is never written over (load_preserving: it "must
\* never ... be overwritten by an empty store").
DamagedIsPreserved ==
    memories.step = "idle" /\ ~memories.available => memoryFile = before

\* Between two operations the engine, its context and the file agree.
EngineAgreesWithFile ==
    memories.step = "idle" /\ memories.available =>
        /\ memoryFile = Holding(memories.entries)
        /\ memories.context = memories.entries

\* An operation is done whole or not at all, and one that reports a failure has changed
\* nothing; a crash leaves the old file or the new one, which can be loaded again.
OperationsAreWhole ==
    /\ memories.step \in {"write", "rename"} => memoryFile = before
    /\ memories.step = "adopt" => memoryFile = Holding(memories.next)
    /\ memories.answer \in {"failed", "nothing"} /\ memories.step = "idle" =>
           memoryFile = before
    /\ memories.step = "adopt" => Loadable(memoryFile)

\* No memory is kept twice, unless the file said so when it was loaded.
NoTwins == ~memories.twins => ~Twins(memories.entries)

MemoriesAreKept ==
    DamagedIsPreserved /\ EngineAgreesWithFile /\ OperationsAreWhole /\ NoTwins
================================================================================
