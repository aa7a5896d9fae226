------------------------------ MODULE Storage_proofs ------------------------------
(* What the program keeps on its disk, for every number of files, transfers and
   programs: what is installed, by either installer, is what was pinned, and a transfer
   that has ended has tried to remove what it wrote; the settings agree wherever they are
   kept; events reach their file, and no process prunes a file that is written to; the
   switch for dumps, the memories of the engine and the context of the session are kept. *)
EXTENDS MCStorage, FiniteSetTheorems, SequenceTheorems, WellFoundedInduction, TLAPS

-----------------------------------------------------------------------------
(***************************************************************************)
(* The transfers of the engine's models.  A task knows of its files only   *)
(* that those before its place were whole when it passed them; it is the   *)
(* pinned hash that keeps them so, since no other task can put anything    *)
(* else in the place of an artifact.                                       *)
(***************************************************************************)
Stages == {"idle", "started", "file", "verify", "request", "stream", "check", "rename",
           "clean", "done", "undone", "ended"}
Contents == {"whole", "short", "wrong"}
Temporary == {"none", "left"} \union Contents
Orders == {Artifacts} \union {<<f>> : f \in Model}

TransferTypes ==
    /\ want \in [Transfer -> Orders]
    /\ batch \in {"none", "running", "failed", "ended"}
    /\ stage \in [Transfer -> Stages]
    /\ place \in [Transfer -> Nat \ {0}]
    /\ temp \in [Transfer -> Temporary]
    /\ stated \in [Transfer -> BOOLEAN]
    /\ cancelled \subseteq Transfer
    /\ outcome \in [Transfer -> {"none", "installed", "failed"}]
    /\ files \in [File -> {"absent"} \union Contents]

\* The files of the package up to the k-th are whole.
WholeUpTo(k) == \A i \in DOMAIN Artifacts : i < k => files[Artifacts[i]] = "whole"
AllWhole == \A i \in DOMAIN Artifacts : files[Artifacts[i]] = "whole"
NoneShort == \A i \in DOMAIN Artifacts : files[Artifacts[i]] # "short"

\* Where a task stands in its list of files.
AtFile(t) ==
    /\ stage[t] \in {"verify", "request", "stream", "check", "rename"} =>
          place[t] <= Len(want[t])
    /\ Pinned(t) /\ stage[t] = "done" => place[t] > Len(want[t])

\* What a transfer of the package has found or placed.
Pieces(t) ==
    Pinned(t) =>
        /\ WholeUpTo(place[t])
        /\ stage[t] = "rename" => temp[t] = "whole"
        /\ outcome[t] = "installed" => AllWhole

\* Only a task that receives has a temporary file, or one that is to remove it, or one
\* that could not.
Beside(t) ==
    /\ stage[t] \notin {"stream", "check", "rename", "clean", "undone", "ended"} =>
          temp[t] = "none"
    /\ stage[t] \in {"undone", "ended"} => temp[t] \in {"none", "left"}
Holds(t) == stage[t] \in {"stream", "check", "rename"} => temp[t] \in Contents

TransferInv(t) == AtFile(t) /\ Pieces(t) /\ Beside(t) /\ Holds(t)

\* A batch that has failed or returned starts nothing any more.
BatchInv ==
    /\ batch = "failed" => cancelled = Transfer
    /\ batch = "ended" => \A t \in Transfer : ~Running(t) /\ (stage[t] = "idle" => t \in cancelled)

DownloadsInv ==
    /\ TransferTypes /\ NoneShort /\ BatchInv
    /\ \A t \in Transfer : TransferInv(t)

\* What happens to the files leaves whole artifacts whole.
ArtifactsStay ==
    \A i \in DOMAIN Artifacts :
        \/ files'[Artifacts[i]] = files[Artifacts[i]]
        \/ files'[Artifacts[i]] = "whole"

LEMMA ArtifactsAreFiles ==
  /\ Artifacts \in Seq(File)
  /\ \A i \in DOMAIN Artifacts : Artifacts[i] \in File /\ Artifacts[i] \notin Model
BY DownloadsAssumption DEF File

LEMMA CurrentIsFile ==
  ASSUME TransferTypes, NEW t \in Transfer, place[t] <= Len(want[t])
  PROVE  /\ place[t] \in DOMAIN want[t]
         /\ CurrentFile(t) \in File
         /\ Pinned(t) => CurrentFile(t) = Artifacts[place[t]] /\ place[t] \in DOMAIN Artifacts
         /\ ~Pinned(t) => CurrentFile(t) \in Model
<1>1. want[t] \in Orders /\ place[t] \in Nat \ {0}
  BY DEF TransferTypes
<1>2. CASE want[t] = Artifacts
  BY <1>1, <1>2, ArtifactsAreFiles DEF CurrentFile, Pinned
<1>3. CASE \E f \in Model : want[t] = <<f>>
  <2>1. PICK f \in Model : want[t] = <<f>>
    BY <1>3
  <2>2. Len(want[t]) = 1 /\ DOMAIN want[t] = {1} /\ place[t] = 1 /\ want[t][1] = f
    BY <1>1, <2>1
  <2>3. want[t] # Artifacts
    BY <2>2, ArtifactsAreFiles
  <2> QED
    BY <2>2, <2>3 DEF CurrentFile, Pinned, File
<1> QED
  BY <1>1, <1>2, <1>3 DEF Orders

\* A task that does not move keeps what it knows.
LEMMA TransferStands ==
  ASSUME TransferTypes, NEW t \in Transfer, TransferInv(t), ArtifactsStay, want' = want,
         stage'[t] = stage[t], place'[t] = place[t], temp'[t] = temp[t],
         outcome'[t] = outcome[t]
  PROVE  TransferInv(t)'
<1>1. AtFile(t)'
  BY DEF TransferInv, AtFile, Pinned
<1>2. WholeUpTo(place[t]) => WholeUpTo(place[t])'
  BY DEF WholeUpTo, ArtifactsStay
<1>3. AllWhole => AllWhole'
  BY DEF AllWhole, ArtifactsStay
<1>4. Pieces(t)'
  BY <1>2, <1>3 DEF TransferInv, Pieces, Pinned
<1>5. Beside(t)'
  BY DEF TransferInv, Beside
<1>6. Holds(t)'
  BY DEF TransferInv, Holds
<1> QED
  BY <1>1, <1>4, <1>5, <1>6 DEF TransferInv

LEMMA ShortStays ==
  ASSUME NoneShort, ArtifactsStay
  PROVE  NoneShort'
BY DEF NoneShort, ArtifactsStay

\* The tasks but one stand still.
OthersStand(t) ==
    \A u \in Transfer \ {t} :
        /\ stage'[u] = stage[u] /\ place'[u] = place[u]
        /\ temp'[u] = temp[u] /\ outcome'[u] = outcome[u]

LEMMA TaskMoves ==
  ASSUME DownloadsInv, NEW t \in Transfer, OthersStand(t), ArtifactsStay, want' = want,
         TransferTypes', BatchInv', TransferInv(t)'
  PROVE  DownloadsInv'
<1>1. ASSUME NEW u \in Transfer PROVE TransferInv(u)'
  <2>1. CASE u = t
    BY <2>1
  <2>2. CASE u # t
    BY <2>2, TransferStands DEF OthersStand, DownloadsInv
  <2> QED
    BY <2>1, <2>2
<1> QED
  BY <1>1, ShortStays DEF DownloadsInv

LEMMA DownloadsStart ==
  ASSUME DownloadsInit
  PROVE  DownloadsInv
<1>1. want \in [Transfer -> Orders] /\ files \in [File -> {"absent", "whole", "wrong"}]
  BY DownloadsAssumption DEF DownloadsInit, Orders
<1>2. TransferTypes
  BY <1>1 DEF DownloadsInit, TransferTypes, Stages, Contents, Temporary
<1>3. NoneShort
  BY <1>1, ArtifactsAreFiles DEF NoneShort
<1>4. BatchInv
  BY DEF BatchInv, DownloadsInit
<1>5. ASSUME NEW t \in Transfer PROVE TransferInv(t)
  <2>1. stage[t] = "idle" /\ place[t] = 1 /\ temp[t] = "none" /\ outcome[t] = "none"
    BY DEF DownloadsInit
  <2>2. WholeUpTo(1)
    BY ArtifactsAreFiles DEF WholeUpTo
  <2> QED
    BY <2>1, <2>2 DEF TransferInv, AtFile, Pieces, Beside, Holds
<1> QED
  BY <1>2, <1>3, <1>4, <1>5 DEF DownloadsInv

\* A task that goes from one step to another, with a file that it may have got.
LEMMA StepKeeps ==
  ASSUME DownloadsInv, NEW t \in Transfer, NEW s \in Stages, NEW x \in Temporary,
         Running(t), s \notin {"idle", "ended"},
         stage' = [stage EXCEPT ![t] = s], temp' = [temp EXCEPT ![t] = x],
         stated' \in [Transfer -> BOOLEAN],
         UNCHANGED <<want, batch, place, cancelled, outcome, files>>,
         s \in {"verify", "request", "stream", "check", "rename"} => place[t] <= Len(want[t]),
         Pinned(t) /\ s = "done" => place[t] > Len(want[t]),
         Pinned(t) /\ s = "rename" => x = "whole",
         s \notin {"stream", "check", "rename", "clean", "undone"} => x = "none",
         s = "undone" => x \in {"none", "left"},
         s \in {"stream", "check", "rename"} => x \in Contents
  PROVE  DownloadsInv'
<1>1. TransferTypes /\ TransferInv(t) /\ BatchInv
  BY DEF DownloadsInv
<1>2. stage'[t] = s /\ temp'[t] = x /\ place'[t] = place[t] /\ outcome'[t] = outcome[t]
  BY <1>1 DEF TransferTypes
<1>3. TransferTypes'
  BY <1>1 DEF TransferTypes
<1>4. OthersStand(t)
  BY <1>1 DEF OthersStand, TransferTypes
<1>5. ArtifactsStay
  BY DEF ArtifactsStay
<1>6. BatchInv'
  BY <1>1, <1>4 DEF BatchInv, OthersStand, Running
<1>7. WholeUpTo(place[t]) => WholeUpTo(place[t])'
  BY DEF WholeUpTo
<1>8. AllWhole => AllWhole'
  BY DEF AllWhole
<1>9. TransferInv(t)'
  BY <1>1, <1>2, <1>7, <1>8 DEF TransferInv, AtFile, Pieces, Beside, Holds, Pinned
<1> QED
  BY <1>3, <1>4, <1>5, <1>6, <1>9, TaskMoves

\* The steps of a task that put no file in its place.
LEMMA WaitingStepKeeps ==
  ASSUME DownloadsInv, NEW t \in Transfer,
         \/ Reserve(t) \/ NextFile(t) \/ GiveUp(t) \/ Check(t) \/ Clean(t)
         \/ Respond(t) \/ Receive(t)
  PROVE  DownloadsInv'
<1>1. TransferTypes /\ TransferInv(t) /\ stage \in [Transfer -> Stages]
       /\ temp \in [Transfer -> Temporary] /\ stated \in [Transfer -> BOOLEAN]
       /\ place[t] \in Nat
  BY DEF DownloadsInv, TransferTypes
<1>2. temp' = temp => temp' = [temp EXCEPT ![t] = temp[t]]
  BY <1>1
<1>3. temp[t] \in Temporary
  BY <1>1
<1>4. Len(want[t]) \in Nat
  BY <1>1, ArtifactsAreFiles DEF TransferTypes, Orders
<1>5. CASE Reserve(t)
  <2>1. PICK s \in {"clean", "file"} : stage' = [stage EXCEPT ![t] = s]
    BY <1>5 DEF Reserve, FailStep, GoTo
  <2> QED
    BY <1>1, <1>2, <1>3, <1>5, <2>1, StepKeeps
    DEF Reserve, given, beside, Running, Stages, TransferInv, Beside
<1>6. CASE NextFile(t)
  <2>1. PICK s \in {"done", "clean", "request", "verify"} :
           /\ stage' = [stage EXCEPT ![t] = s]
           /\ s \in {"request", "verify"} => place[t] <= Len(want[t])
           /\ Pinned(t) /\ s = "done" => place[t] > Len(want[t])
    BY <1>1, <1>4, <1>6 DEF NextFile, FailStep, GoTo
  <2> QED
    BY <1>1, <1>2, <1>3, <1>6, <2>1, StepKeeps
    DEF NextFile, given, beside, Running, Stages, TransferInv, Beside
<1>7. CASE GiveUp(t)
  BY <1>1, <1>2, <1>3, <1>7, StepKeeps
  DEF GiveUp, FailStep, GoTo, given, beside, Running, Stages
<1>8. CASE Check(t)
  <2>1. PICK s \in {"rename", "clean"} :
           /\ stage' = [stage EXCEPT ![t] = s]
           /\ Pinned(t) /\ s = "rename" => temp[t] = "whole"
    BY <1>8 DEF Check, Acceptable, FailStep, GoTo
  <2> QED
    BY <1>1, <1>2, <1>3, <1>8, <2>1, StepKeeps
    DEF Check, given, beside, Running, Stages, TransferInv, AtFile, Holds
<1>9. CASE Clean(t)
  <2>1. PICK x \in {"none", "left"} : temp' = [temp EXCEPT ![t] = x]
    BY <1>9 DEF Clean
  <2>2. x \in Temporary /\ stage' = [stage EXCEPT ![t] = "undone"] /\ Running(t)
    BY <1>9 DEF Clean, GoTo, Running, Temporary
  <2>3. /\ UNCHANGED <<want, batch, place, cancelled, outcome, files>>
        /\ stated' \in [Transfer -> BOOLEAN]
    BY <1>1, <1>9 DEF Clean, given, beside
  <2>4. "undone" \in Stages
    BY DEF Stages
  <2> QED
    BY <2>1, <2>2, <2>3, <2>4, StepKeeps
<1>10. CASE Respond(t)
  <2>1. CASE FailStep(t) /\ UNCHANGED <<stated, temp>>
    <3>1. /\ stage' = [stage EXCEPT ![t] = "clean"] /\ temp' = [temp EXCEPT ![t] = temp[t]]
          /\ "clean" \in Stages /\ Running(t) /\ stated' \in [Transfer -> BOOLEAN]
      BY <1>1, <1>2, <1>10, <2>1 DEF Respond, FailStep, GoTo, Running, Stages
    <3>2. UNCHANGED <<want, batch, place, cancelled, outcome, files>>
      BY <1>10 DEF Respond, given
    <3> QED
      BY <1>3, <3>1, <3>2, StepKeeps
  <2>2. CASE /\ stated' \in {[stated EXCEPT ![t] = b1] : b1 \in BOOLEAN}
             /\ temp' = [temp EXCEPT ![t] = "short"] /\ GoTo(t, "stream")
    <3>1. stated' \in [Transfer -> BOOLEAN]
      BY <1>1, <2>2
    <3>2. place[t] <= Len(want[t])
      BY <1>1, <1>10 DEF Respond, TransferInv, AtFile
    <3> QED
      BY <1>1, <1>10, <2>2, <3>1, <3>2, StepKeeps
      DEF Respond, GoTo, given, beside, Running, Stages, Contents, Temporary
  <2> QED
    BY <1>10, <2>1, <2>2 DEF Respond
<1>11. CASE Receive(t)
  <2>1. CASE FailStep(t) /\ UNCHANGED temp
    <3>1. /\ stage' = [stage EXCEPT ![t] = "clean"] /\ temp' = [temp EXCEPT ![t] = temp[t]]
          /\ "clean" \in Stages /\ Running(t) /\ stated' \in [Transfer -> BOOLEAN]
      BY <1>1, <1>2, <1>11, <2>1 DEF Receive, FailStep, GoTo, Running, Stages
    <3>2. UNCHANGED <<want, batch, place, cancelled, outcome, files>>
      BY <1>11 DEF Receive, given
    <3> QED
      BY <1>3, <3>1, <3>2, StepKeeps
  <2>2. CASE /\ \E content \in Contents : temp' = [temp EXCEPT ![t] = content]
             /\ GoTo(t, "check")
    <3>1. PICK content \in Contents : temp' = [temp EXCEPT ![t] = content]
      BY <2>2
    <3>2. place[t] <= Len(want[t])
      BY <1>1, <1>11 DEF Receive, TransferInv, AtFile
    <3> QED
      BY <1>1, <1>11, <2>2, <3>1, <3>2, StepKeeps
      DEF Receive, GoTo, given, beside, Running, Stages, Contents, Temporary
  <2> QED
    BY <1>11, <2>1, <2>2 DEF Receive, Contents
<1> QED
  BY <1>5, <1>6, <1>7, <1>8, <1>9, <1>10, <1>11

LEMMA BeginKeeps ==
  ASSUME DownloadsInv, NEW t \in Transfer, BeginTransfer(t)
  PROVE  DownloadsInv'
<1>1. TransferTypes /\ TransferInv(t) /\ BatchInv
  BY DEF DownloadsInv
<1>2. PICK s \in {"started", "ended"} : stage' = [stage EXCEPT ![t] = s]
  BY DEF BeginTransfer, GoTo
<1>3. /\ outcome' = outcome \/ outcome' = [outcome EXCEPT ![t] = "failed"]
      /\ outcome' \in [Transfer -> {"none", "installed", "failed"}]
  BY <1>1 DEF BeginTransfer, TransferTypes
<1>4. UNCHANGED <<want, batch, place, temp, stated, cancelled, files>>
  BY DEF BeginTransfer, given
<1>5. TransferTypes'
  BY <1>1, <1>2, <1>3, <1>4 DEF TransferTypes, Stages
<1>6. OthersStand(t)
  BY <1>1, <1>2, <1>3, <1>4 DEF OthersStand, TransferTypes
<1>7. ArtifactsStay
  BY <1>4 DEF ArtifactsStay
<1>8. batch \notin {"failed", "ended"}
  BY <1>1 DEF BeginTransfer, BatchInv
<1>9. BatchInv'
  BY <1>4, <1>8 DEF BatchInv
<1>10. stage'[t] = s /\ (outcome'[t] = outcome[t] \/ outcome'[t] = "failed") /\ stage[t] = "idle"
  BY <1>1, <1>2, <1>3 DEF TransferTypes, BeginTransfer
<1>11. WholeUpTo(place[t]) => WholeUpTo(place[t])'
  BY <1>4 DEF WholeUpTo
<1>12. AllWhole => AllWhole'
  BY <1>4 DEF AllWhole
<1>13. TransferInv(t)'
  BY <1>1, <1>4, <1>10, <1>11, <1>12 DEF TransferInv, AtFile, Pieces, Beside, Holds, Pinned
<1> QED
  BY <1>4, <1>5, <1>6, <1>7, <1>9, <1>13, TaskMoves

\* One more file is in its place: the next one is looked for.
LEMMA PlacedKeeps ==
  ASSUME DownloadsInv, NEW t \in Transfer, Running(t), Placed(t), ArtifactsStay,
         place[t] <= Len(want[t]),
         files' \in [File -> {"absent"} \union Contents],
         temp' = [temp EXCEPT ![t] = "none"],
         Pinned(t) => files'[CurrentFile(t)] = "whole",
         UNCHANGED <<want, batch, stated, cancelled, outcome>>
  PROVE  DownloadsInv'
<1>1. TransferTypes /\ TransferInv(t) /\ BatchInv
  BY DEF DownloadsInv
<1>2. /\ stage' = [stage EXCEPT ![t] = "file"] /\ place' = [place EXCEPT ![t] = @ + 1]
      /\ place[t] \in Nat \ {0}
  BY <1>1 DEF Placed, GoTo, TransferTypes
<1>3. stage'[t] = "file" /\ place'[t] = place[t] + 1 /\ temp'[t] = "none"
       /\ outcome'[t] = outcome[t]
  BY <1>1, <1>2 DEF TransferTypes
<1>4. TransferTypes'
  BY <1>1, <1>2 DEF TransferTypes, Stages, Temporary
<1>5. OthersStand(t)
  BY <1>1, <1>2 DEF OthersStand, TransferTypes
<1>6. BatchInv'
  BY <1>1, <1>2, <1>3, <1>5 DEF BatchInv, OthersStand, Running
<1>7. AllWhole => AllWhole'
  BY DEF AllWhole, ArtifactsStay
<1>8. Pinned(t) => WholeUpTo(place[t])'
  <2> SUFFICES ASSUME Pinned(t), NEW i \in DOMAIN Artifacts, i < place[t] + 1
               PROVE  files'[Artifacts[i]] = "whole"
    BY <1>3 DEF WholeUpTo
  <2>1. i \in Nat
    BY ArtifactsAreFiles
  <2>2. CASE i = place[t]
    BY <1>1, <2>2, CurrentIsFile
  <2>3. CASE i < place[t]
    BY <1>1, <2>3 DEF TransferInv, Pieces, WholeUpTo, ArtifactsStay
  <2> QED
    BY <1>2, <2>1, <2>2, <2>3
<1>9. TransferInv(t)'
  BY <1>1, <1>3, <1>7, <1>8 DEF TransferInv, AtFile, Pieces, Beside, Holds, Pinned
<1> QED
  BY <1>4, <1>5, <1>6, <1>9, TaskMoves

LEMMA VerifyKeeps ==
  ASSUME DownloadsInv, NEW t \in Transfer, Verify(t)
  PROVE  DownloadsInv'
<1>1. /\ TransferTypes /\ TransferInv(t) /\ temp \in [Transfer -> Temporary]
      /\ stated \in [Transfer -> BOOLEAN] /\ files \in [File -> {"absent"} \union Contents]
  BY DEF DownloadsInv, TransferTypes
<1>2. /\ stage[t] = "verify" /\ place[t] <= Len(want[t]) /\ temp[t] = "none"
  BY <1>1 DEF Verify, TransferInv, AtFile, Beside
<1>3. UNCHANGED <<want, batch, temp, stated, cancelled, outcome, files>>
  BY DEF Verify, given
<1>4. temp' = [temp EXCEPT ![t] = "none"]
  BY <1>1, <1>2, <1>3
<1>5. CASE FailStep(t) /\ UNCHANGED place
  BY <1>1, <1>2, <1>3, <1>4, <1>5, StepKeeps DEF FailStep, GoTo, Running, Stages
<1>6. CASE files[CurrentFile(t)] = "whole" /\ Placed(t)
  <2>1. ArtifactsStay
    BY <1>3 DEF ArtifactsStay
  <2> QED
    BY <1>1, <1>2, <1>3, <1>4, <1>6, <2>1, PlacedKeeps DEF Running
<1> QED
  BY <1>5, <1>6 DEF Verify

LEMMA PlaceFileKeeps ==
  ASSUME DownloadsInv, NEW t \in Transfer, PlaceFile(t)
  PROVE  DownloadsInv'
<1>1. /\ TransferTypes /\ TransferInv(t) /\ temp \in [Transfer -> Temporary]
      /\ stated \in [Transfer -> BOOLEAN] /\ files \in [File -> {"absent"} \union Contents]
  BY DEF DownloadsInv, TransferTypes
<1>2. /\ stage[t] = "rename" /\ place[t] <= Len(want[t])
      /\ Pinned(t) => temp[t] = "whole"
  BY <1>1 DEF PlaceFile, TransferInv, AtFile, Pieces
<1>3. UNCHANGED <<want, batch, stated, cancelled, outcome>>
  BY DEF PlaceFile, given
<1>4. CASE FailStep(t) /\ UNCHANGED <<files, temp, place>>
  <2>1. temp' = [temp EXCEPT ![t] = temp[t]]
    BY <1>1, <1>4
  <2> QED
    BY <1>1, <1>2, <1>3, <1>4, <2>1, StepKeeps DEF FailStep, GoTo, Running, Stages
<1>5. CASE /\ files' = [files EXCEPT ![CurrentFile(t)] = temp[t]]
           /\ temp' = [temp EXCEPT ![t] = "none"] /\ Placed(t)
  <2>1. /\ CurrentFile(t) \in File
        /\ ~Pinned(t) => CurrentFile(t) \in Model
    BY <1>1, <1>2, CurrentIsFile
  <2>2. temp[t] \in Contents => files' \in [File -> {"absent"} \union Contents]
    BY <1>1, <1>5, <2>1
  <2>3. ArtifactsStay
    BY <1>1, <1>2, <1>5, <2>1, ArtifactsAreFiles DEF ArtifactsStay
  <2>4. Pinned(t) => files'[CurrentFile(t)] = "whole"
    BY <1>1, <1>2, <1>5, <2>1
  <2>5. temp[t] \in Contents
    BY <1>1, <1>2 DEF TransferInv, Holds
  <2>6. Running(t)
    BY <1>2 DEF Running
  <2> QED
    BY <1>1, <1>2, <1>3, <1>5, <2>2, <2>3, <2>4, <2>5, <2>6, PlacedKeeps
<1> QED
  BY <1>4, <1>5 DEF PlaceFile

LEMMA EndKeeps ==
  ASSUME DownloadsInv, NEW t \in Transfer, End(t)
  PROVE  DownloadsInv'
<1>1. TransferTypes /\ TransferInv(t) /\ BatchInv
  BY DEF DownloadsInv
<1>2. PICK o \in {"installed", "failed"} :
         /\ outcome' = [outcome EXCEPT ![t] = o]
         /\ o = "installed" => stage[t] = "done"
  BY DEF End
<1>3. /\ stage' = [stage EXCEPT ![t] = "ended"] /\ place' = [place EXCEPT ![t] = 1]
      /\ stated' = [stated EXCEPT ![t] = TRUE] /\ stage[t] \in {"done", "undone"}
      /\ UNCHANGED <<want, temp, files>>
  BY DEF End, GoTo, given
<1>4. /\ batch' \in {"none", "running", "failed", "ended"}
      /\ cancelled' \subseteq Transfer /\ cancelled \subseteq cancelled'
  BY <1>1 DEF End, AfterFailure, TransferTypes
<1>5. TransferTypes'
  <2>1. want' \in [Transfer -> Orders] /\ temp' \in [Transfer -> Temporary]
        /\ files' \in [File -> {"absent"} \union Contents]
    BY <1>1, <1>3 DEF TransferTypes
  <2>2. stage' \in [Transfer -> Stages] /\ place' \in [Transfer -> Nat \ {0}]
        /\ stated' \in [Transfer -> BOOLEAN]
    BY <1>1, <1>3 DEF TransferTypes, Stages
  <2>3. outcome' \in [Transfer -> {"none", "installed", "failed"}]
    BY <1>1, <1>2 DEF TransferTypes
  <2> QED
    BY <1>4, <2>1, <2>2, <2>3 DEF TransferTypes
<1>6. OthersStand(t)
  BY <1>1, <1>2, <1>3 DEF OthersStand, TransferTypes
<1>7. ArtifactsStay
  BY <1>3 DEF ArtifactsStay
<1>8. stage'[t] = "ended" /\ place'[t] = 1 /\ outcome'[t] = o /\ temp'[t] = temp[t]
  BY <1>1, <1>2, <1>3 DEF TransferTypes
<1>9. batch # "ended"
  BY <1>1, <1>3 DEF BatchInv, Running
<1>10. BatchInv'
  <2>1. batch' # "ended"
    BY <1>9 DEF End
  <2>2. batch' = "failed" => cancelled' = Transfer
    BY <1>1, <1>4, <1>9 DEF End, AfterFailure, BatchInv, TransferTypes
  <2> QED
    BY <2>1, <2>2 DEF BatchInv
<1>11. Pinned(t) /\ o = "installed" => AllWhole'
  <2> SUFFICES ASSUME Pinned(t), stage[t] = "done", NEW i \in DOMAIN Artifacts
               PROVE  files[Artifacts[i]] = "whole"
    BY <1>2, <1>3 DEF AllWhole
  <2>1. i \in 1..Len(Artifacts) /\ Len(Artifacts) \in Nat
    BY ArtifactsAreFiles
  <2>2. place[t] > Len(Artifacts) /\ place[t] \in Nat
    BY <1>1 DEF TransferInv, AtFile, Pinned, TransferTypes
  <2>3. i < place[t]
    BY <2>1, <2>2
  <2> QED
    BY <1>1, <2>3 DEF TransferInv, Pieces, WholeUpTo
<1>12. WholeUpTo(1)'
  BY ArtifactsAreFiles DEF WholeUpTo
<1>13. temp[t] \in {"none", "left"}
  BY <1>1, <1>3 DEF TransferInv, Beside
<1>14. TransferInv(t)'
  BY <1>3, <1>8, <1>11, <1>12, <1>13 DEF TransferInv, AtFile, Pieces, Beside, Holds, Pinned, WholeUpTo
<1> QED
  BY <1>3, <1>5, <1>6, <1>7, <1>10, <1>14, TaskMoves

\* What happens beside the tasks: they stand still.
LEMMA BesideKeeps ==
  ASSUME DownloadsInv, TransferTypes', BatchInv', ArtifactsStay,
         UNCHANGED <<want, stage, place, temp, outcome>>
  PROVE  DownloadsInv'
BY TransferStands, ShortStays DEF DownloadsInv

LEMMA ManagementKeeps ==
  ASSUME DownloadsInv,
         \/ BatchEnds
         \/ \E t \in Transfer : Abandon(t) \/ RecordDownload(t)
         \/ \E f \in Model : Delete(f) \/ RecordDelete(f)
         \/ UNCHANGED downloadVars
  PROVE  DownloadsInv'
<1>1. TransferTypes /\ BatchInv
  BY DEF DownloadsInv
<1>2. UNCHANGED <<want, stage, place, temp, outcome, stated>>
  BY DEF BatchEnds, Abandon, RecordDownload, Delete, RecordDelete, downloadVars, given, beside
<1>3. files' = files \/ \E f \in Model : files' = [files EXCEPT ![f] = "absent"]
  BY DEF BatchEnds, Abandon, RecordDownload, Delete, RecordDelete, downloadVars, given, beside
<1>4. ArtifactsStay
  BY <1>1, <1>3, ArtifactsAreFiles DEF ArtifactsStay, TransferTypes
<1>5. files' \in [File -> {"absent"} \union Contents]
  BY <1>1, <1>3 DEF TransferTypes
<1>6. CASE BatchEnds
  <2>1. batch' = "ended" /\ cancelled' = cancelled
    BY <1>6 DEF BatchEnds
  <2>2. BatchInv'
    BY <1>1, <1>2, <1>6, <2>1 DEF BatchEnds, Joined, BatchInv, Running
  <2> QED
    BY <1>1, <1>2, <1>4, <1>5, <2>1, <2>2, BesideKeeps DEF TransferTypes
<1>7. CASE \E t \in Transfer : Abandon(t)
  <2>1. batch' = batch /\ cancelled' \subseteq Transfer /\ cancelled \subseteq cancelled'
    BY <1>1, <1>7 DEF Abandon, TransferTypes
  <2>2. BatchInv'
    BY <1>1, <1>2, <2>1 DEF BatchInv, Running
  <2> QED
    BY <1>1, <1>2, <1>4, <1>5, <2>1, <2>2, BesideKeeps DEF TransferTypes
<1>8. CASE UNCHANGED <<batch, cancelled>>
  <2>1. BatchInv'
    BY <1>1, <1>2, <1>8 DEF BatchInv, Running
  <2> QED
    BY <1>1, <1>2, <1>4, <1>5, <1>8, <2>1, BesideKeeps DEF TransferTypes
<1> QED
  BY <1>6, <1>7, <1>8 DEF RecordDownload, Delete, RecordDelete, downloadVars, given, beside

LEMMA StopKeeps ==
  ASSUME DownloadsInv, Stop
  PROVE  DownloadsInv'
<1>1. TransferTypes /\ NoneShort
  BY DEF DownloadsInv
<1>2. /\ stage' = [t \in Transfer |-> "idle"] /\ place' = [t \in Transfer |-> 1]
      /\ temp' = [t \in Transfer |-> "none"] /\ outcome' = [t \in Transfer |-> "none"]
      /\ stated' = [t \in Transfer |-> TRUE] /\ cancelled' = {}
      /\ batch' \in {"none", "running"} /\ UNCHANGED <<want, files>>
  BY DEF Stop, given
<1>3. TransferTypes'
  BY <1>1, <1>2 DEF TransferTypes, Stages, Temporary
<1>4. NoneShort'
  BY <1>1, <1>2 DEF NoneShort
<1>5. BatchInv'
  BY <1>2 DEF BatchInv
<1>6. ASSUME NEW t \in Transfer PROVE TransferInv(t)'
  <2>1. stage'[t] = "idle" /\ place'[t] = 1 /\ temp'[t] = "none" /\ outcome'[t] = "none"
    BY <1>2
  <2>2. WholeUpTo(1)'
    BY ArtifactsAreFiles DEF WholeUpTo
  <2> QED
    BY <2>1, <2>2 DEF TransferInv, AtFile, Pieces, Beside, Holds, WholeUpTo
<1> QED
  BY <1>3, <1>4, <1>5, <1>6 DEF DownloadsInv

LEMMA DownloadsStep ==
  ASSUME DownloadsInv, [DownloadsNext]_downloadVars
  PROVE  DownloadsInv'
BY WaitingStepKeeps, BeginKeeps, VerifyKeeps, PlaceFileKeeps, EndKeeps, ManagementKeeps,
   StopKeeps
DEF DownloadsNext, TaskStep, NetworkStep

LEMMA DownloadsSafe ==
  ASSUME DownloadsInv
  PROVE  PackagesAreWhole /\ NoTransferLeft
<1>1. PackagesAreWhole
  BY DEF DownloadsInv, TransferInv, Pieces, AllWhole, NoneShort, PackagesAreWhole, Pinned
<1>2. NoTransferLeft
  BY DEF DownloadsInv, TransferInv, Beside, BatchInv, NoTransferLeft, Running
<1> QED
  BY <1>1, <1>2

-----------------------------------------------------------------------------
(***************************************************************************)
(* The installer of desktop models.  The lock is held from before the      *)
(* stage is made until it is gone, so that no two stages exist; and what   *)
(* is in a stage was accepted file by file.                                *)
(***************************************************************************)
Steps == {"idle", "lock", "look", "list", "fetch", "extract", "check", "rename", "remove",
          "return", "settle"}

InstallTypes ==
    /\ active \in [Program -> BOOLEAN] /\ cancel \in [Program -> BOOLEAN]
    /\ asked \in [Program -> BOOLEAN] /\ step \in [Program -> Steps]
    /\ staged \in [Program -> BOOLEAN] /\ success \in [Program -> BOOLEAN]
    /\ DOMAIN got = Program

\* The files that have arrived are the model's, and those with a hash are whole.
Received(some) ==
    /\ DOMAIN some \subseteq Listed
    /\ \A f \in DOMAIN some \cap Hashed : some[f] = "whole"

\* One program holds the lock, and a stage exists only behind it.
Filling(p) == step[p] \in {"list", "fetch", "extract", "check", "rename", "remove"}
LockInv ==
    /\ \A p \in Program : staged[p] => Filling(p)
    /\ \A p, q \in Program : HoldsLock(p) /\ HoldsLock(q) => p = q

\* What a program has, and what its dialog may say of it.
OwnInstall(p) ==
    /\ active[p] <=> step[p] # "idle"
    /\ Received(got[p])
    /\ step[p] \in {"check", "rename"} => DOMAIN got[p] = Listed
    /\ cancel[p] /\ active[p] /\ step[p] # "settle" => asked[p]

InstallInv ==
    /\ InstallTypes /\ LockInv /\ ModelsAreWhole
    /\ \A p \in Program : OwnInstall(p)

\* The programs but one stand still.
OtherPrograms(p) ==
    \A q \in Program \ {p} :
        /\ active'[q] = active[q] /\ cancel'[q] = cancel[q] /\ asked'[q] = asked[q]
        /\ step'[q] = step[q] /\ got'[q] = got[q] /\ staged'[q] = staged[q]

LEMMA ProgramMoves ==
  ASSUME InstallInv, NEW p \in Program, OtherPrograms(p), InstallTypes', OwnInstall(p)',
         ModelsAreWhole', staged'[p] => Filling(p)',
         HoldsLock(p)' => HoldsLock(p) \/ ~(\E q \in Program \ {p} : HoldsLock(q))
  PROVE  InstallInv'
<1>1. ASSUME NEW q \in Program, q # p
      PROVE  (HoldsLock(q)' <=> HoldsLock(q)) /\ (Filling(q)' <=> Filling(q))
  BY <1>1 DEF OtherPrograms, HoldsLock, Filling
<1>2. LockInv'
  <2>1. ASSUME NEW q \in Program, staged'[q] PROVE Filling(q)'
    BY <1>1, <2>1 DEF InstallInv, LockInv, OtherPrograms
  <2>2. ASSUME NEW q \in Program, NEW r \in Program, HoldsLock(q)', HoldsLock(r)'
        PROVE  q = r
    BY <1>1, <2>2 DEF InstallInv, LockInv
  <2> QED
    BY <2>1, <2>2 DEF LockInv
<1>3. ASSUME NEW q \in Program PROVE OwnInstall(q)'
  BY DEF InstallInv, OwnInstall, OtherPrograms
<1> QED
  BY <1>2, <1>3 DEF InstallInv

LEMMA InstallStarts ==
  ASSUME InstallInit
  PROVE  InstallInv
<1>1. Received(Nothing)
  BY DEF Received, Nothing
<1>2. ModelsAreWhole
  BY DEF ModelsAreWhole, InstallInit, Absent
<1>3. InstallTypes /\ LockInv
  BY DEF InstallInit, InstallTypes, LockInv, HoldsLock, Filling, Steps
<1>4. \A p \in Program : OwnInstall(p)
  BY <1>1 DEF InstallInit, OwnInstall
<1> QED
  BY <1>2, <1>3, <1>4 DEF InstallInv

\* A task that goes on, with its lock or without it, or gives it back.
LEMMA AdvanceKeeps ==
  ASSUME InstallInv, NEW p \in Program, NEW s \in Steps \ {"idle", "settle"}, Advance(p, s),
         step[p] \notin {"idle", "settle"},
         UNCHANGED <<active, cancel, asked, got, installed>>,
         success' \in [Program -> BOOLEAN],
         staged' \in [Program -> BOOLEAN], \A q \in Program \ {p} : staged'[q] = staged[q],
         s \in {"check", "rename"} => DOMAIN got[p] = Listed,
         staged'[p] => s \in {"list", "fetch", "extract", "check", "rename", "remove"},
         s \notin {"lock", "return"} =>
             HoldsLock(p) \/ ~(\E q \in Program \ {p} : HoldsLock(q))
  PROVE  InstallInv'
<1>1. InstallTypes /\ OwnInstall(p)
  BY DEF InstallInv
<1>2. step' = [step EXCEPT ![p] = s] /\ step'[p] = s
  BY <1>1 DEF Advance, InstallTypes
<1>3. InstallTypes'
  BY <1>1, <1>2 DEF InstallTypes
<1>4. OtherPrograms(p)
  BY <1>1, <1>2 DEF OtherPrograms, InstallTypes
<1>5. OwnInstall(p)'
  BY <1>1, <1>2 DEF OwnInstall
<1>6. ModelsAreWhole'
  BY DEF InstallInv, ModelsAreWhole
<1>7. staged'[p] => Filling(p)'
  BY <1>2 DEF Filling
<1>8. HoldsLock(p)' => s \notin {"lock", "return"}
  BY <1>2 DEF HoldsLock
<1> QED
  BY <1>3, <1>4, <1>5, <1>6, <1>7, <1>8, ProgramMoves

LEMMA QuietStepKeeps ==
  ASSUME InstallInv, NEW p \in Program,
         TakeLock(p) \/ Look(p) \/ List(p) \/ GiveUpRequest(p) \/ CheckInstall(p)
  PROVE  InstallInv'
<1>1. /\ InstallTypes /\ OwnInstall(p) /\ LockInv
      /\ success \in [Program -> BOOLEAN] /\ staged \in [Program -> BOOLEAN]
      /\ step \in [Program -> Steps]
  BY DEF InstallInv, InstallTypes
<1>2. CASE TakeLock(p)
  <2>1. PICK s \in {"look", "return"} :
           /\ Advance(p, s)
           /\ s = "look" => ~(\E q \in Program \ {p} : HoldsLock(q))
    BY <1>2 DEF TakeLock
  <2>2. ~staged[p]
    BY <1>1, <1>2 DEF TakeLock, LockInv, Filling
  <2> QED
    BY <1>1, <1>2, <2>1, <2>2, AdvanceKeeps DEF TakeLock, Steps
<1>3. CASE Look(p)
  <2>1. PICK s \in {"return", "fetch", "list"} :
           /\ Advance(p, s)
           /\ staged' = staged \/ staged' = [staged EXCEPT ![p] = TRUE]
           /\ s = "return" => staged' = staged
    BY <1>3 DEF Look
  <2>2. HoldsLock(p)
    BY <1>3 DEF Look, HoldsLock
  <2>3. ~staged[p]
    BY <1>1, <1>3 DEF Look, LockInv, Filling
  <2> QED
    BY <1>1, <1>3, <2>1, <2>2, <2>3, AdvanceKeeps DEF Look, Steps
<1>4. CASE List(p)
  <2>1. PICK s \in {"fetch", "remove"} : Advance(p, s)
    BY <1>4 DEF List
  <2> QED
    BY <1>1, <1>4, <2>1, AdvanceKeeps DEF List, Steps, HoldsLock
<1>5. CASE GiveUpRequest(p)
  BY <1>1, <1>5, AdvanceKeeps DEF GiveUpRequest, Breaks, Steps, HoldsLock
<1>6. CASE CheckInstall(p)
  <2>1. PICK s \in {"remove", "rename"} : Advance(p, s)
    BY <1>6 DEF CheckInstall
  <2> QED
    BY <1>1, <1>6, <2>1, AdvanceKeeps DEF CheckInstall, Steps, HoldsLock, OwnInstall
<1> QED
  BY <1>2, <1>3, <1>4, <1>5, <1>6

\* A file that is accepted, or an archive that was verified, is what was pinned.
LEMMA FetchKeeps ==
  ASSUME InstallInv, NEW p \in Program, Fetch(p) \/ Extract(p)
  PROVE  InstallInv'
<1>1. /\ InstallTypes /\ OwnInstall(p) /\ LockInv
      /\ success \in [Program -> BOOLEAN] /\ staged \in [Program -> BOOLEAN]
      /\ step \in [Program -> Steps] /\ DOMAIN got = Program
  BY DEF InstallInv, InstallTypes
<1>2. HoldsLock(p) /\ step[p] \in {"fetch", "extract"}
  BY DEF Fetch, Extract, HoldsLock
<1>3. UNCHANGED <<active, cancel, asked, staged, success, installed>>
  BY DEF Fetch, Extract, Breaks
<1>4. ASSUME NEW s \in {"extract", "remove", "check"}, Advance(p, s), UNCHANGED got,
             s = "check" => DOMAIN got[p] = Listed
      PROVE  InstallInv'
  BY <1>1, <1>2, <1>3, <1>4, AdvanceKeeps DEF Steps
<1>5. ASSUME NEW s \in {"fetch", "check"}, NEW some, Received(some),
             step' = [step EXCEPT ![p] = s], got' = [got EXCEPT ![p] = some],
             s = "check" => DOMAIN some = Listed
      PROVE  InstallInv'
  <2>1. step'[p] = s /\ got'[p] = some
    BY <1>1, <1>5
  <2>2. InstallTypes'
    BY <1>1, <1>3, <1>5 DEF InstallTypes, Steps
  <2>3. OtherPrograms(p)
    BY <1>1, <1>3, <1>5 DEF OtherPrograms
  <2>4. OwnInstall(p)'
    BY <1>1, <1>2, <1>3, <1>5, <2>1 DEF OwnInstall
  <2>5. ModelsAreWhole'
    BY <1>3 DEF InstallInv, ModelsAreWhole
  <2>6. staged'[p] => Filling(p)'
    BY <1>5, <2>1 DEF Filling
  <2> QED
    BY <1>2, <2>2, <2>3, <2>4, <2>5, <2>6, ProgramMoves
<1>6. CASE Advance(p, "check") /\ got' = [got EXCEPT ![p] = [f \in Listed |-> "whole"]]
  <2>1. Received([f \in Listed |-> "whole"])
    BY DEF Received
  <2> QED
    BY <1>5, <1>6, <2>1 DEF Advance
<1>7. CASE \E f \in Listed \ DOMAIN got[p], content \in {"whole", "short", "wrong"} :
              /\ Accepts(f, content)
              /\ got' = [got EXCEPT ![p] =
                            [g \in DOMAIN @ \union {f} |-> IF g = f THEN content ELSE @[g]]]
              /\ step' = step /\ step[p] = "fetch"
  <2>1. PICK f \in Listed \ DOMAIN got[p], content \in {"whole", "short", "wrong"} :
              /\ Accepts(f, content)
              /\ got' = [got EXCEPT ![p] =
                            [g \in DOMAIN @ \union {f} |-> IF g = f THEN content ELSE @[g]]]
              /\ step' = step /\ step[p] = "fetch"
    BY <1>7
  <2> DEFINE some == [g \in DOMAIN got[p] \union {f} |-> IF g = f THEN content ELSE got[p][g]]
  <2>2. got' = [got EXCEPT ![p] = some]
    BY <2>1
  <2>3. Received(some)
    BY <1>1, <2>1 DEF Received, OwnInstall, Accepts
  <2>4. step' = [step EXCEPT ![p] = step[p]]
    BY <1>1, <2>1
  <2> HIDE DEF some
  <2> QED
    BY <1>5, <2>1, <2>2, <2>3, <2>4
<1> QED
  BY <1>4, <1>6, <1>7 DEF Fetch, Extract, Breaks

LEMMA CommitKeeps ==
  ASSUME InstallInv, NEW p \in Program, Commit(p)
  PROVE  InstallInv'
<1>1. /\ InstallTypes /\ OwnInstall(p)
      /\ success \in [Program -> BOOLEAN] /\ staged \in [Program -> BOOLEAN]
      /\ step \in [Program -> Steps]
  BY DEF InstallInv, InstallTypes
<1>2. HoldsLock(p) /\ step[p] = "rename" /\ UNCHANGED <<active, cancel, asked, got>>
  BY DEF Commit, HoldsLock
<1>3. CASE Breaks(p) /\ UNCHANGED staged
  BY <1>1, <1>2, <1>3, AdvanceKeeps DEF Breaks, Steps
<1>4. CASE /\ installed' = [by |-> "program", files |-> got[p]]
           /\ staged' = [staged EXCEPT ![p] = FALSE]
           /\ success' = [success EXCEPT ![p] = TRUE]
           /\ Advance(p, "remove")
  <2>1. step' = [step EXCEPT ![p] = "remove"] /\ step'[p] = "remove" /\ ~staged'[p]
    BY <1>1, <1>4 DEF Advance
  <2>2. InstallTypes'
    BY <1>1, <1>2, <1>4, <2>1 DEF InstallTypes, Steps
  <2>3. OtherPrograms(p)
    BY <1>1, <1>2, <1>4, <2>1 DEF OtherPrograms
  <2>4. OwnInstall(p)'
    BY <1>1, <1>2, <2>1 DEF OwnInstall
  <2>5. DOMAIN got[p] = Listed /\ \A f \in Hashed : got[p][f] = "whole"
    BY <1>1, <1>2, DesktopInstallAssumption DEF OwnInstall, Received
  <2>6. ModelsAreWhole'
    BY <1>4, <2>5 DEF ModelsAreWhole
  <2> QED
    BY <1>2, <2>1, <2>2, <2>3, <2>4, <2>6, ProgramMoves
<1> QED
  BY <1>3, <1>4 DEF Commit

\* A program that neither begins nor goes on with a stage.
LEMMA OutsideKeeps ==
  ASSUME InstallInv, NEW p \in Program,
         StartInstall(p) \/ CancelInstall(p) \/ RemoveStage(p) \/ Return(p) \/ Settle(p) \/ Kill(p)
  PROVE  InstallInv'
<1>1. /\ InstallTypes /\ OwnInstall(p) /\ LockInv
      /\ active \in [Program -> BOOLEAN] /\ cancel \in [Program -> BOOLEAN]
      /\ asked \in [Program -> BOOLEAN] /\ success \in [Program -> BOOLEAN]
      /\ staged \in [Program -> BOOLEAN] /\ step \in [Program -> Steps]
      /\ DOMAIN got = Program
  BY DEF InstallInv, InstallTypes
<1>2. ModelsAreWhole'
  BY DEF InstallInv, ModelsAreWhole, StartInstall, CancelInstall, RemoveStage, Return, Settle, Kill
<1>3. Received(Nothing)
  BY DEF Received, Nothing
<1>4. CASE StartInstall(p)
  <2>1. /\ active'[p] /\ ~cancel'[p] /\ step'[p] = "lock" /\ got' = got /\ staged' = staged
        /\ step[p] = "idle"
    BY <1>1, <1>4 DEF StartInstall, OwnInstall
  <2>2. InstallTypes' /\ OtherPrograms(p)
    BY <1>1, <1>4 DEF StartInstall, InstallTypes, OtherPrograms, Steps
  <2>3. OwnInstall(p)' /\ (staged'[p] => Filling(p)') /\ ~HoldsLock(p)'
    BY <1>1, <2>1 DEF OwnInstall, HoldsLock, LockInv, Filling
  <2> QED
    BY <1>2, <2>2, <2>3, ProgramMoves
<1>5. CASE CancelInstall(p)
  <2>1. /\ asked'[p] /\ cancel'[p] /\ UNCHANGED <<active, step, got, staged>>
    BY <1>1, <1>5 DEF CancelInstall
  <2>2. InstallTypes' /\ OtherPrograms(p)
    BY <1>1, <1>5 DEF CancelInstall, InstallTypes, OtherPrograms
  <2>3. OwnInstall(p)' /\ (staged'[p] => Filling(p)') /\ (HoldsLock(p)' => HoldsLock(p))
    BY <1>1, <2>1 DEF OwnInstall, HoldsLock, LockInv, Filling
  <2> QED
    BY <1>2, <2>2, <2>3, ProgramMoves
<1>6. CASE RemoveStage(p)
  <2>1. /\ step'[p] = "return" /\ got'[p] = Nothing /\ ~staged'[p] /\ step[p] = "remove"
        /\ UNCHANGED <<active, cancel, asked>>
    BY <1>1, <1>6 DEF RemoveStage, Advance
  <2>2. InstallTypes' /\ OtherPrograms(p)
    BY <1>1, <1>6 DEF RemoveStage, Advance, InstallTypes, OtherPrograms, Steps
  <2>3. OwnInstall(p)' /\ ~HoldsLock(p)'
    BY <1>1, <1>3, <2>1 DEF OwnInstall, HoldsLock
  <2> QED
    BY <1>2, <2>1, <2>2, <2>3, ProgramMoves
<1>7. CASE Return(p)
  <2>1. step'[p] = "settle" /\ step[p] = "return" /\ UNCHANGED <<active, asked, got, staged>>
    BY <1>1, <1>7 DEF Return, Advance
  <2>2. InstallTypes' /\ OtherPrograms(p)
    BY <1>1, <1>7 DEF Return, Advance, InstallTypes, OtherPrograms, Steps
  <2>3. OwnInstall(p)' /\ (staged'[p] => Filling(p)') /\ ~HoldsLock(p)'
    BY <1>1, <2>1 DEF OwnInstall, HoldsLock, LockInv, Filling
  <2> QED
    BY <1>2, <2>2, <2>3, ProgramMoves
<1>8. CASE Settle(p)
  <2>1. step'[p] = "idle" /\ ~active'[p] /\ step[p] = "settle" /\ UNCHANGED <<got, staged>>
    BY <1>1, <1>8 DEF Settle, Advance
  <2>2. InstallTypes' /\ OtherPrograms(p)
    BY <1>1, <1>8 DEF Settle, Advance, InstallTypes, OtherPrograms, Steps
  <2>3. OwnInstall(p)' /\ (staged'[p] => Filling(p)') /\ ~HoldsLock(p)'
    BY <1>1, <2>1 DEF OwnInstall, HoldsLock, LockInv, Filling
  <2> QED
    BY <1>2, <2>2, <2>3, ProgramMoves
<1>9. CASE Kill(p)
  <2>1. step'[p] = "idle" /\ ~active'[p] /\ got'[p] = Nothing /\ ~staged'[p]
    BY <1>1, <1>9 DEF Kill, Advance
  <2>2. InstallTypes' /\ OtherPrograms(p)
    BY <1>1, <1>9 DEF Kill, Advance, InstallTypes, OtherPrograms, Steps
  <2>3. OwnInstall(p)' /\ ~HoldsLock(p)'
    BY <1>3, <2>1 DEF OwnInstall, HoldsLock
  <2> QED
    BY <1>2, <2>1, <2>2, <2>3, ProgramMoves
<1> QED
  BY <1>4, <1>5, <1>6, <1>7, <1>8, <1>9

LEMMA InstallKeeps ==
  ASSUME InstallInv, [InstallNext]_installVars
  PROVE  InstallInv'
<1>1. CASE PutForeign
  <2>1. ModelsAreWhole'
    BY <1>1 DEF PutForeign, ModelsAreWhole
  <2>2. UNCHANGED <<active, cancel, asked, step, got, staged, success>>
    BY <1>1 DEF PutForeign
  <2> QED
    BY <2>1, <2>2 DEF InstallInv, InstallTypes, LockInv, HoldsLock, Filling, OwnInstall
<1>2. CASE UNCHANGED installVars
  BY <1>2 DEF installVars, InstallInv, InstallTypes, LockInv, HoldsLock, Filling, OwnInstall,
              ModelsAreWhole
<1> QED
  BY <1>1, <1>2, QuietStepKeeps, FetchKeeps, CommitKeeps, OutsideKeeps
  DEF InstallNext, InstallStep

LEMMA InstallSafe ==
  ASSUME InstallInv
  PROVE  ModelsAreWhole /\ OneStage /\ OnlyTheUserCancels
<1>1. \A p, q \in Program : staged[p] /\ staged[q] => p = q
  BY DEF InstallInv, LockInv, Filling, HoldsLock
<1>2. Cardinality({p \in Program : staged[p]}) <= 1
  <2>1. CASE {p \in Program : staged[p]} = {}
    BY <2>1, FS_EmptySet
  <2>2. CASE \E p \in Program : staged[p]
    <3>1. PICK p \in Program : staged[p]
      BY <2>2
    <3>2. {q \in Program : staged[q]} = {p}
      BY <1>1, <3>1
    <3>3. Cardinality({p}) = 1
      BY FS_Singleton
    <3> QED
      BY <3>2, <3>3
  <2> QED
    BY <2>1, <2>2
<1>3. \A p \in Program : staged[p] => active[p]
  BY DEF InstallInv, LockInv, Filling, OwnInstall
<1> QED
  BY <1>2, <1>3 DEF InstallInv, OneStage, OnlyTheUserCancels, OwnInstall

-----------------------------------------------------------------------------
(***************************************************************************)
(* The settings.  Between the steps of an update it is the keys that it    *)
(* found, and not those in the store, that agree with the engine; what is  *)
(* written agrees with its target, account by account.                     *)
(***************************************************************************)
DiskFile == {NoFile} \union [body : Body, keys : Keys]
Verdicts == {"superseded", "saved", "failed", "lost", "dropped"}
Save == [config : Config \union {NoConfig}, by : Service,
         outcome : Verdicts \union {"open"}, late : BOOLEAN]
WriteStages == Account \union {"write", "rename"}
Update == [stage : WriteStages \union {"read", "restore", "commit", "failed", "daemon"},
           owner : Service \union {"load"}, target : Config, old : Keys,
           previous : Config \union {NoConfig}, undoing : BOOLEAN]

SettingsTypes ==
    /\ program \in {"down", "loading", "broken", "running", "closing", "ended"}
    /\ file \in DiskFile /\ store \in Keys
    /\ server \in {"off", "starting", "read", "ready"}
    /\ \E x \in Nat : saves \in [1..x -> Save]
    /\ worker \in [Service -> {"absent", "waiting", "looking", "saving", "idle"}]
    /\ pending \in [Service -> Nat \union {NoRequest}]
    /\ taken \in [Service -> Nat \union {NoRequest}]
    /\ update = Idle \/ update \in Update

\* Request r is one that the service s has still to answer.
OpenFor(r, s) ==
    r \in DOMAIN saves /\ saves[r].by = s /\ saves[r].outcome = "open"
        /\ saves[r].config \in Config

\* Every open request is either kept for a worker or taken by it, and no request is both.
RequestsInv ==
    /\ \A r \in DOMAIN saves :
          saves[r].outcome = "superseded" => r + 1 \in DOMAIN saves /\ saves[r + 1].by = saves[r].by
    /\ \A s \in Service :
          /\ pending[s] # NoRequest => OpenFor(pending[s], s)
          /\ Saving(s) => OpenFor(taken[s], s) /\ taken[s] # pending[s]

\* The request that is kept for the service of the moment is the last one there is, and
\* what is kept for a worker that has found nothing came after it had looked.
QueueInv ==
    /\ \A r \in DOMAIN saves : saves[r].outcome = "dropped" => saves[r].late
    /\ \A s \in Service : worker[s] = "idle" /\ pending[s] # NoRequest
                              => saves[pending[s]].late
    /\ server # "ready" => pending["full"] = NoRequest
    /\ pending[Current] # NoRequest => pending[Current] + 1 \notin DOMAIN saves

\* Who runs, in which part of the life of the program.
LifeInv ==
    /\ program \in {"down", "loading", "broken"} =>
          /\ engine = NoConfig /\ server = "off" /\ drain = "off"
          /\ \A s \in Service : worker[s] = "absent" /\ pending[s] = NoRequest
    /\ program = "loading" => update # Idle /\ update.owner = "load"
    /\ \A s \in Service : worker[s] # "absent" => engine \in Config
    /\ program = "running" => engine \in Config
    /\ server # "ready" => worker["full"] = "absent"
    /\ drain # "off" => program = "closing"
    /\ program = "ended" => update = Idle /\ Outstanding = {}
    /\ update # Idle =>
          IF update.owner = "load"
          THEN program = "loading" /\ ~update.undoing /\ update.stage # "daemon"
          ELSE /\ program \in {"running", "closing"} /\ Saving(update.owner)
               /\ update.previous \in Config \/ update.undoing
               /\ update.stage = "daemon" => update.owner = "full" /\ ~update.undoing
               /\ update.undoing => update.owner = "full"

\* A configuration in the file, with the keys of the store; a program that found no file
\* has not read them.
Agrees(c, keys) ==
    file = Written(c) /\ (keys = c.keys \/ c = [body |-> DefaultBody, keys |-> NoKeys])

\* The accounts that an update has written.
WrittenKeys(at) ==
    CASE at = "backup" -> {"primary"}
      [] at = "transcription" -> {"primary", "backup"}
      [] at \in {"write", "rename", "commit"} -> Account
      [] OTHER -> {}

DiskInv ==
    /\ engine # NoConfig /\ "disk" \notin torn =>
          /\ update = Idle \/ update.stage \in {"read", "failed"} => Agrees(engine, store)
          /\ update # Idle /\ update.stage \in WriteStages \union {"restore"}
                => Agrees(engine, update.old)
    /\ update # Idle =>
          /\ \A account \in WrittenKeys(update.stage) :
                store[account] = update.target.keys[account]
          /\ update.stage = "commit" => file = Written(update.target)
          /\ update.stage = "daemon" => DiskHolds(engine) /\ engine = update.target

\* The daemon that is told of every save has the configuration of the engine, or, until
\* it is told, the one that a failed save goes back to.
Told == server \in {"read", "ready"} /\ "daemon" \notin torn
           /\ \A r \in DOMAIN saves : saves[r].by = "full"
DaemonInv ==
    Told => IF update = Idle THEN daemon = engine
            ELSE IF update.undoing THEN daemon = update.target
            ELSE IF update.stage = "daemon" THEN daemon = update.previous
            ELSE daemon = engine /\ daemon = update.previous

SettingsInv == SettingsTypes /\ RequestsInv /\ LifeInv /\ DiskInv /\ DaemonInv

LEMMA IdleIsNone == Idle \notin Update
<1>1. Idle.stage = "idle"
  BY DEF Idle
<1> QED
  BY <1>1 DEF Update, WriteStages, Account

LEMMA SettingsStart ==
  ASSUME SettingsInit
  PROVE  SettingsInv
<1>1. PICK d \in InitialDisk : file = d.file /\ store = d.store
  BY DEF SettingsInit
<1>2. file \in DiskFile /\ store \in Keys
  BY <1>1, SettingsAssumption DEF DiskFile
<1>3. /\ program = "down" /\ engine = NoConfig /\ server = "off" /\ saves = << >>
      /\ pending = [s \in Service |-> NoRequest] /\ worker = [s \in Service |-> "absent"]
      /\ taken = [s \in Service |-> NoRequest] /\ update = Idle /\ drain = "off"
  BY DEF SettingsInit
<1>4. DOMAIN saves = {} /\ \E x \in Nat : saves \in [1..x -> Save]
  <2>1. 0 \in Nat /\ saves \in [1..0 -> Save] /\ DOMAIN saves = {}
    BY <1>3
  <2> QED
    BY <2>1
<1>5. SettingsTypes
  BY <1>2, <1>3, <1>4 DEF SettingsTypes
<1>6. RequestsInv
  BY <1>3, <1>4 DEF RequestsInv, Saving
<1>7. LifeInv
  <2>1. \A s \in Service : worker[s] = "absent" /\ pending[s] = NoRequest
    BY <1>3
  <2>2. "full" \in Service
    BY DEF Service
  <2> QED
    BY <1>3, <2>1, <2>2 DEF LifeInv
<1>8. DiskInv /\ DaemonInv
  BY <1>3 DEF DiskInv, DaemonInv, Told
<1> QED
  BY <1>5, <1>6, <1>7, <1>8 DEF SettingsInv

LEMMA QueueStarts ==
  ASSUME SettingsInit
  PROVE  QueueInv
<1>1. saves = << >> /\ pending = [s \in Service |-> NoRequest]
  BY DEF SettingsInit
<1>2. DOMAIN saves = {} /\ \A s \in Service : pending[s] = NoRequest
  BY <1>1
<1>3. "full" \in Service /\ Current \in Service
  BY DEF Service, Current
<1> QED
  BY <1>2, <1>3 DEF QueueInv

\* An update goes to its next stage.
LEMMA StageMoves ==
  ASSUME update \in Update, NEW at \in WriteStages \union {"read", "restore", "commit", "failed", "daemon"},
         update' = [update EXCEPT !.stage = at]
  PROVE  /\ update' \in Update /\ update'.stage = at /\ update'.owner = update.owner
         /\ update'.target = update.target /\ update'.old = update.old
         /\ update'.previous = update.previous /\ update'.undoing = update.undoing
BY DEF Update

\* A step of an update, by which nothing but the disk is changed.
LEMMA UpdateMoves ==
  ASSUME SettingsInv, update \in Update, update' \in Update,
         UNCHANGED <<program, engine, daemon, server, saves, services, drain>>,
         update'.owner = update.owner, update'.undoing = update.undoing,
         update'.target = update.target, update'.previous = update.previous,
         update.stage # "daemon", update'.stage # "daemon",
         "daemon" \in torn' <=> "daemon" \in torn,
         file' \in DiskFile, store' \in Keys, DiskInv'
  PROVE  SettingsInv'
<1>1. update # Idle /\ update' # Idle
  BY IdleIsNone
<1>2. UNCHANGED <<pending, worker, taken>>
  BY DEF services
<1>3. SettingsTypes'
  BY <1>2 DEF SettingsInv, SettingsTypes
<1>4. RequestsInv'
  BY <1>2 DEF SettingsInv, RequestsInv, OpenFor, Saving
<1>5. LifeInv'
  BY <1>1, <1>2 DEF SettingsInv, LifeInv, Saving
<1>6. DaemonInv'
  BY <1>1 DEF SettingsInv, DaemonInv, Told
<1> QED
  BY <1>3, <1>4, <1>5, <1>6 DEF SettingsInv

LEMMA UpdateKeeps ==
  ASSUME SettingsInv, UpdateStep
  PROVE  SettingsInv'
<1>1. update \in Update /\ update.stage # "daemon"
  BY DEF SettingsInv, SettingsTypes, UpdateStep, ReadKeys, WriteKey, WriteTemporary, Rename,
         RestoreKeys, Idle, Account
<1>2. /\ DiskInv /\ file \in DiskFile /\ store \in Keys
      /\ update # Idle /\ update.old \in Keys /\ update.target \in Config
  BY <1>1, IdleIsNone DEF SettingsInv, SettingsTypes, Update
<1>3. UNCHANGED <<program, engine, daemon, server, saves, services, drain>>
  BY DEF UpdateStep, ReadKeys, WriteKey, WriteTemporary, Rename, RestoreKeys
<1>4. update.target.keys \in Keys
  BY <1>2 DEF Config
\* All that is left to show of an update that goes on.
<1>5. ASSUME NEW at \in WriteStages \union {"restore", "commit", "failed"},
             update' \in Update, update'.stage = at,
             update'.owner = update.owner, update'.undoing = update.undoing,
             update'.target = update.target, update'.previous = update.previous,
             "daemon" \in torn' <=> "daemon" \in torn,
             file' \in DiskFile, store' \in Keys,
             engine # NoConfig /\ "disk" \notin torn' =>
                IF at = "failed" THEN Agrees(engine, store)'
                ELSE at # "commit" => Agrees(engine, update.old)',
             \A account \in WrittenKeys(at) : store'[account] = update.target.keys[account],
             at = "commit" => file' = Written(update.target)
      PROVE  SettingsInv'
  <2>1. update' # Idle /\ at # "daemon" /\ at # "read"
    BY <1>5, IdleIsNone DEF WriteStages, Account
  <2>2. engine' = engine
    BY <1>3
  <2>3. DiskInv'
    BY <1>5, <2>1, <2>2 DEF DiskInv, WriteStages, Account
  <2> QED
    BY <1>1, <1>3, <1>5, <2>1, <2>3, UpdateMoves
<1>6. CASE ReadKeys
  <2>1. UNCHANGED <<file, store, torn>>
    BY <1>6 DEF ReadKeys, disk
  <2>2. update.stage = "read" /\ (engine # NoConfig /\ "disk" \notin torn => Agrees(engine, store))
    BY <1>2, <1>6 DEF ReadKeys, DiskInv
  <2>3. CASE update' = [update EXCEPT !.stage = "primary", !.old = store]
    <3>1. /\ update' \in Update /\ update'.stage = "primary" /\ update'.owner = update.owner
          /\ update'.target = update.target /\ update'.old = store
          /\ update'.previous = update.previous /\ update'.undoing = update.undoing
      BY <1>1, <1>2, <2>3 DEF Update, WriteStages, Account
    <3>2. WrittenKeys("primary") = {} /\ "primary" \in WriteStages
      BY DEF WrittenKeys, WriteStages, Account
    <3>3. engine # NoConfig /\ "disk" \notin torn' => Agrees(engine, update.old)'
      BY <1>3, <2>1, <2>2, <3>1 DEF Agrees
    <3> QED
      BY <1>2, <1>5, <2>1, <3>1, <3>2, <3>3
  <2>4. CASE At("failed")
    <3>1. update' = [update EXCEPT !.stage = "failed"]
      BY <2>4 DEF At
    <3>2. WrittenKeys("failed") = {}
      BY DEF WrittenKeys
    <3>3. engine # NoConfig /\ "disk" \notin torn' => Agrees(engine, store)'
      BY <1>3, <2>1, <2>2 DEF Agrees
    <3> QED
      BY <1>1, <1>2, <1>5, <2>1, <3>1, <3>2, <3>3, StageMoves
  <2> QED
    BY <1>6, <2>3, <2>4 DEF ReadKeys
<1>7. ASSUME update.stage \in WriteStages \union {"restore"}, file' = file, torn' = torn
      PROVE  engine # NoConfig /\ "disk" \notin torn' /\ update'.old = update.old
                => Agrees(engine, update.old)'
  BY <1>2, <1>3, <1>7 DEF DiskInv, Agrees
<1>8. WrittenKeys("restore") = {} /\ WrittenKeys("failed") = {}
  BY DEF WrittenKeys
\* A step that fails, before the keys are restored.
<1>9. ASSUME update.stage \in WriteStages, At("restore"), UNCHANGED <<file, store, torn>>
      PROVE  SettingsInv'
  <2>1. update' = [update EXCEPT !.stage = "restore"]
    BY <1>9 DEF At
  <2>2. /\ update' \in Update /\ update'.stage = "restore" /\ update'.owner = update.owner
        /\ update'.target = update.target /\ update'.old = update.old
        /\ update'.previous = update.previous /\ update'.undoing = update.undoing
    BY <1>1, <2>1, StageMoves
  <2> QED
    BY <1>2, <1>5, <1>7, <1>8, <1>9, <2>2
<1>10. CASE WriteKey
  <2>1. update.stage \in Account /\ update.stage \in WriteStages /\ UNCHANGED <<file, torn>>
    BY <1>10 DEF WriteKey, WriteStages
  <2>2. CASE At("restore") /\ UNCHANGED store
    BY <1>9, <2>1, <2>2
  <2>3. CASE /\ store' = [store EXCEPT ![update.stage] = update.target.keys[update.stage]]
             /\ At(KeyOrder[update.stage])
    <3>1. KeyOrder[update.stage] \in WriteStages
      BY <2>1 DEF KeyOrder, WriteStages, Account
    <3>2. update' = [update EXCEPT !.stage = KeyOrder[update.stage]]
      BY <2>3 DEF At
    <3>3. /\ update' \in Update /\ update'.stage = KeyOrder[update.stage]
          /\ update'.owner = update.owner
          /\ update'.target = update.target /\ update'.old = update.old
          /\ update'.previous = update.previous /\ update'.undoing = update.undoing
      BY <1>1, <3>1, <3>2, StageMoves
    <3>4. /\ store' \in Keys /\ store'[update.stage] = update.target.keys[update.stage]
          /\ \A account \in Account \ {update.stage} : store'[account] = store[account]
      BY <1>2, <1>4, <2>1, <2>3 DEF Keys
    <3>5. WrittenKeys(KeyOrder[update.stage]) = WrittenKeys(update.stage) \union {update.stage}
      <4>1. CASE update.stage = "primary"
        BY <4>1 DEF KeyOrder, WrittenKeys, Account
      <4>2. CASE update.stage = "backup"
        BY <4>2 DEF KeyOrder, WrittenKeys, Account
      <4>3. CASE update.stage = "transcription"
        BY <4>3 DEF KeyOrder, WrittenKeys, Account
      <4> QED
        BY <2>1, <4>1, <4>2, <4>3 DEF Account
    <3>6. WrittenKeys(update.stage) \subseteq Account
      BY DEF WrittenKeys, Account
    <3>7. \A account \in WrittenKeys(update.stage) :
             store[account] = update.target.keys[account]
      BY <1>2 DEF DiskInv
    <3>8. \A account \in WrittenKeys(KeyOrder[update.stage]) :
             store'[account] = update.target.keys[account]
      BY <3>4, <3>5, <3>6, <3>7
    <3>9. KeyOrder[update.stage] \notin {"failed", "commit"}
      BY <3>1 DEF WriteStages, Account
    <3> QED
      BY <1>2, <1>5, <1>7, <2>1, <3>1, <3>3, <3>4, <3>8, <3>9
  <2> QED
    BY <1>10, <2>2, <2>3 DEF WriteKey
<1>11. CASE WriteTemporary
  <2>1. update.stage = "write" /\ update.stage \in WriteStages /\ UNCHANGED <<file, store, torn>>
    BY <1>11 DEF WriteTemporary, WriteStages
  <2>2. CASE At("restore")
    BY <1>9, <2>1, <2>2
  <2>3. CASE At("rename")
    <3>1. update' = [update EXCEPT !.stage = "rename"]
      BY <2>3 DEF At
    <3>2. WrittenKeys("rename") = WrittenKeys("write") /\ "rename" \in WriteStages
      BY DEF WrittenKeys, WriteStages
    <3>3. /\ update' \in Update /\ update'.stage = "rename" /\ update'.owner = update.owner
          /\ update'.target = update.target /\ update'.old = update.old
          /\ update'.previous = update.previous /\ update'.undoing = update.undoing
      BY <1>1, <3>1, <3>2, StageMoves
    <3>4. \A account \in WrittenKeys("rename") : store'[account] = update.target.keys[account]
      BY <1>2, <2>1, <3>2 DEF DiskInv
    <3> QED
      BY <1>2, <1>5, <1>7, <2>1, <3>2, <3>3, <3>4
  <2> QED
    BY <1>11, <2>2, <2>3 DEF WriteTemporary
<1>12. CASE Rename
  <2>1. update.stage = "rename" /\ update.stage \in WriteStages /\ UNCHANGED <<store, torn>>
    BY <1>12 DEF Rename, WriteStages
  <2>2. CASE At("restore") /\ UNCHANGED file
    BY <1>9, <2>1, <2>2
  <2>3. CASE file' = Written(update.target) /\ At("commit")
    <3>1. update' = [update EXCEPT !.stage = "commit"]
      BY <2>3 DEF At
    <3>2. WrittenKeys("commit") = WrittenKeys("rename")
      BY DEF WrittenKeys
    <3>3. /\ update' \in Update /\ update'.stage = "commit" /\ update'.owner = update.owner
          /\ update'.target = update.target /\ update'.old = update.old
          /\ update'.previous = update.previous /\ update'.undoing = update.undoing
      BY <1>1, <3>1, StageMoves
    <3>4. \A account \in WrittenKeys("commit") : store'[account] = update.target.keys[account]
      BY <1>2, <2>1, <3>2 DEF DiskInv
    <3>5. file' \in DiskFile
      BY <1>2, <2>3 DEF DiskFile, Written, NoKeys, Keys, Config
    <3> QED
      BY <1>2, <1>5, <2>1, <2>3, <3>3, <3>4, <3>5
  <2> QED
    BY <1>12, <2>2, <2>3 DEF Rename
<1>13. CASE RestoreKeys
  <2>1. update.stage = "restore" /\ file' = file /\ At("failed")
    BY <1>13 DEF RestoreKeys
  <2>2. PICK failing \in SUBSET Account :
           /\ store' = Restored(failing)
           /\ torn' = IF Restored(failing) = update.old THEN torn ELSE torn \union {"disk"}
    BY <1>13 DEF RestoreKeys
  <2>3. update' = [update EXCEPT !.stage = "failed"]
    BY <2>1 DEF At
  <2>4. /\ update' \in Update /\ update'.stage = "failed" /\ update'.owner = update.owner
        /\ update'.target = update.target /\ update'.old = update.old
        /\ update'.previous = update.previous /\ update'.undoing = update.undoing
    BY <1>1, <2>3, StageMoves
  <2>5. store' \in Keys
    BY <1>2, <2>2 DEF Restored, Keys
  <2>6. engine # NoConfig /\ "disk" \notin torn' => Agrees(engine, store)'
    BY <1>2, <1>3, <2>1, <2>2 DEF DiskInv, Agrees
  <2>7. "daemon" \in torn' <=> "daemon" \in torn
    BY <2>2
  <2> QED
    BY <1>2, <1>5, <1>8, <2>1, <2>4, <2>5, <2>6, <2>7
<1> QED
  BY <1>6, <1>10, <1>11, <1>12, <1>13 DEF UpdateStep

\* A request that is answered.
LEMMA SettledIsSave ==
  ASSUME NEW x \in Nat, saves \in [1..x -> Save], NEW r \in 1..x,
         NEW outcome1 \in Verdicts
  PROVE  /\ Settled(r, outcome1) \in [1..x -> Save]
         /\ Settled(r, outcome1)[r].by = saves[r].by
         /\ Settled(r, outcome1)[r].late = saves[r].late
         /\ Settled(r, outcome1)[r].outcome = outcome1
         /\ \A i \in 1..x : i # r => Settled(r, outcome1)[i] = saves[i]
<1>1. saves[r] \in Save
  OBVIOUS
<1> DEFINE answered == [saves[r] EXCEPT !.outcome = outcome1, !.config = NoConfig]
<1>2. /\ answered \in Save /\ answered.by = saves[r].by /\ answered.outcome = outcome1
      /\ answered.late = saves[r].late
  BY <1>1 DEF Save, Verdicts
<1>3. Settled(r, outcome1) = [saves EXCEPT ![r] = answered]
  BY DEF Settled
<1> HIDE DEF answered
<1> QED
  BY <1>2, <1>3

\* The program is loaded, or its server starts.
LEMMA StartKeeps ==
  ASSUME SettingsInv,
         LoadNoFile \/ Load \/ LoadEnds \/ ServerReadsConfig \/ ServerReady
  PROVE  SettingsInv'
<1>1. SettingsTypes /\ RequestsInv /\ LifeInv /\ DiskInv /\ DaemonInv
  BY DEF SettingsInv
<1>2. /\ Service = {"early", "full"} /\ NoKeys \in Keys
  BY DEF Service, NoKeys, Keys
<1>3. /\ [body |-> DefaultBody, keys |-> NoKeys] \in Config
      /\ Written([body |-> DefaultBody]) = Written([body |-> DefaultBody, keys |-> NoKeys])
      /\ Written([body |-> DefaultBody]) \in DiskFile
  BY <1>2, SettingsAssumption DEF Config, Written, DiskFile
<1>4. CASE LoadNoFile
  <2>1. /\ program = "down" /\ program' = "running" /\ server' = "starting"
        /\ file' = Written([body |-> DefaultBody])
        /\ engine' = [body |-> DefaultBody, keys |-> NoKeys]
        /\ worker' = [worker EXCEPT !["early"] = "waiting"]
        /\ UNCHANGED <<store, saves, pending, taken, update, drain>>
    BY <1>4 DEF LoadNoFile
  <2>2. update = Idle
    BY <1>1, <2>1 DEF LifeInv
  <2>3. /\ worker' \in [Service -> {"absent", "waiting", "looking", "saving", "idle"}]
        /\ worker'["early"] = "waiting" /\ worker'["full"] = "absent"
    BY <1>1, <1>2, <2>1 DEF SettingsTypes, LifeInv
  <2>4. SettingsTypes'
    BY <1>1, <1>3, <2>1, <2>3 DEF SettingsTypes
  <2>5. RequestsInv'
    BY <1>1, <1>2, <2>1, <2>3 DEF RequestsInv, OpenFor, Saving, LifeInv
  <2>6. LifeInv'
    BY <1>1, <1>2, <1>3, <2>1, <2>2, <2>3 DEF LifeInv
  <2>7. DiskInv' /\ DaemonInv'
    BY <1>3, <2>1, <2>2 DEF DiskInv, DaemonInv, Told, Agrees
  <2> QED
    BY <2>4, <2>5, <2>6, <2>7 DEF SettingsInv
<1>5. CASE Load
  <2>1. /\ program = "down" /\ program' = "loading" /\ file # NoFile
        /\ update' = [stage |-> "read", owner |-> "load", target |-> LoadedConfig,
                      old |-> store, previous |-> NoConfig, undoing |-> FALSE]
        /\ UNCHANGED <<file, store, engine, server, saves, pending, worker, taken, drain>>
    BY <1>5 DEF Load, Begin, disk, services
  <2>2. file \in [body : Body, keys : Keys] /\ store \in Keys
    BY <1>1, <2>1 DEF SettingsTypes, DiskFile
  <2>3. LoadedConfig \in Config
    <3>1. \A account \in Account : ReadKey(account) \in Key \union {NoKey}
      BY <2>2 DEF ReadKey, Keys
    <3>2. [account \in Account |-> ReadKey(account)] \in Keys
      BY <3>1 DEF Keys
    <3>3. [account \in Account |-> IF account = "backup" THEN ReadKey(account)
                                   ELSE ReadKey("primary")] \in Keys
      BY <3>1 DEF Keys, Account
    <3>4. file.body \in Body
      BY <2>2
    <3> QED
      BY <3>2, <3>3, <3>4, SettingsAssumption DEF LoadedConfig, Config
  <2>4. /\ update' \in Update /\ update'.stage = "read" /\ update'.owner = "load"
        /\ ~update'.undoing
    BY <2>1, <2>2, <2>3 DEF Update
  <2>5. update' # Idle /\ engine = NoConfig
    BY <1>1, <2>1, <2>4, IdleIsNone DEF LifeInv
  <2>6. SettingsTypes'
    BY <1>1, <2>1, <2>4 DEF SettingsTypes
  <2>7. RequestsInv'
    BY <1>1, <2>1 DEF RequestsInv, OpenFor, Saving
  <2>8. LifeInv'
    BY <1>1, <2>1, <2>4, <2>5 DEF LifeInv
  <2>9. DiskInv'
    <3>1. WrittenKeys("read") = {}
      BY DEF WrittenKeys
    <3> QED
      BY <2>1, <2>4, <2>5, <3>1 DEF DiskInv
  <2>10. DaemonInv'
    BY <1>1, <2>1 DEF DaemonInv, Told, LifeInv
  <2> QED
    BY <2>6, <2>7, <2>8, <2>9, <2>10 DEF SettingsInv
<1>6. CASE LoadEnds
  <2>1. /\ program = "loading" /\ update' = Idle
        /\ UNCHANGED <<file, store, saves, pending, taken, drain>>
    BY <1>6 DEF LoadEnds, disk
  <2>2. update \in Update /\ update # Idle
    BY <1>1, <2>1, IdleIsNone DEF SettingsTypes, LifeInv
  <2>3. CASE update.stage = "commit"
    <3>1. /\ engine' = update.target /\ program' = "running" /\ server' = "starting"
          /\ worker' = [worker EXCEPT !["early"] = "waiting"]
      BY <1>6, <2>3 DEF LoadEnds
    <3>2. /\ worker' \in [Service -> {"absent", "waiting", "looking", "saving", "idle"}]
          /\ worker'["early"] = "waiting" /\ worker'["full"] = "absent"
      BY <1>1, <1>2, <2>1, <3>1 DEF SettingsTypes, LifeInv
    <3>3. update.target \in Config
      BY <2>2 DEF Update
    <3>4. Agrees(engine, store)'
      <4>1. WrittenKeys("commit") = Account
        BY DEF WrittenKeys, Account
      <4>2. /\ file = Written(update.target)
            /\ \A account \in Account : store[account] = update.target.keys[account]
        BY <1>1, <2>2, <2>3, <4>1 DEF DiskInv
      <4>3. store \in Keys /\ update.target.keys \in Keys
        BY <1>1, <3>3 DEF SettingsTypes, Config
      <4>4. store = update.target.keys
        BY <4>2, <4>3 DEF Keys
      <4> QED
        BY <2>1, <3>1, <4>2, <4>4 DEF Agrees
    <3>5. SettingsTypes'
      BY <1>1, <2>1, <3>1, <3>2 DEF SettingsTypes
    <3>6. RequestsInv'
      BY <1>1, <1>2, <2>1, <3>2 DEF RequestsInv, OpenFor, Saving, LifeInv
    <3>7. LifeInv'
      BY <1>1, <1>2, <2>1, <3>1, <3>2, <3>3 DEF LifeInv
    <3>8. DiskInv' /\ DaemonInv'
      BY <2>1, <3>1, <3>4 DEF DiskInv, DaemonInv, Told
    <3> QED
      BY <3>5, <3>6, <3>7, <3>8 DEF SettingsInv
  <2>4. CASE update.stage # "commit"
    <3>1. program' = "broken" /\ UNCHANGED <<engine, worker, server>>
      BY <1>6, <2>4 DEF LoadEnds
    <3>2. SettingsTypes'
      BY <1>1, <2>1, <3>1 DEF SettingsTypes
    <3>3. RequestsInv'
      BY <1>1, <2>1, <3>1 DEF RequestsInv, OpenFor, Saving
    <3>4. LifeInv'
      BY <1>1, <2>1, <3>1 DEF LifeInv
    <3>5. DiskInv' /\ DaemonInv'
      BY <1>1, <2>1, <3>1 DEF DiskInv, DaemonInv, Told, LifeInv
    <3> QED
      BY <3>2, <3>3, <3>4, <3>5 DEF SettingsInv
  <2> QED
    BY <2>3, <2>4
<1>7. CASE ServerReadsConfig
  <2>1. /\ program = "running" /\ server = "starting" /\ server' = "read"
        /\ daemon' = engine /\ torn' = torn \ {"daemon"} /\ update.stage = "idle"
        /\ UNCHANGED <<program, file, store, engine, saves, pending, worker, taken, update,
                       drain>>
    BY <1>7 DEF ServerReadsConfig, disk, services
  <2>2. update = Idle
    BY <1>1, <2>1 DEF SettingsTypes, Update, WriteStages, Account
  <2>3. SettingsTypes' /\ RequestsInv'
    BY <1>1, <2>1 DEF SettingsTypes, RequestsInv, OpenFor, Saving
  <2>4. LifeInv'
    BY <1>1, <2>1, <2>2 DEF LifeInv, Outstanding
  <2>5. DiskInv' /\ DaemonInv'
    BY <1>1, <2>1, <2>2 DEF DiskInv, DaemonInv, Told, Agrees
  <2> QED
    BY <2>3, <2>4, <2>5 DEF SettingsInv
<1>8. CASE ServerReady
  <2>1. /\ program = "running" /\ server = "read" /\ server' = "ready"
        /\ worker' = [worker EXCEPT !["full"] = "waiting"]
        /\ UNCHANGED <<program, file, store, engine, daemon, saves, pending, taken, update,
                       drain, torn>>
    BY <1>8 DEF ServerReady, disk
  <2>2. /\ worker' \in [Service -> {"absent", "waiting", "looking", "saving", "idle"}]
        /\ worker'["early"] = worker["early"] /\ worker'["full"] = "waiting"
        /\ worker["full"] = "absent"
    BY <1>1, <1>2, <2>1 DEF SettingsTypes, LifeInv
  <2>3. SettingsTypes'
    BY <1>1, <2>1, <2>2 DEF SettingsTypes
  <2>4. RequestsInv'
    BY <1>1, <1>2, <2>1, <2>2 DEF RequestsInv, OpenFor, Saving
  <2>5. LifeInv'
    BY <1>1, <1>2, <2>1, <2>2 DEF LifeInv, Saving, Outstanding
  <2>6. DiskInv' /\ DaemonInv'
    BY <1>1, <2>1 DEF DiskInv, DaemonInv, Told, Agrees, DiskHolds
  <2> QED
    BY <2>3, <2>4, <2>5, <2>6 DEF SettingsInv
<1> QED
  BY <1>4, <1>5, <1>6, <1>7, <1>8

LEMMA SubmitKeeps ==
  ASSUME SettingsInv, QueueInv, NEW draft \in Drafts, Submit(draft)
  PROVE  SettingsInv' /\ QueueInv'
<1>1. SettingsTypes /\ RequestsInv /\ LifeInv /\ DiskInv /\ DaemonInv
  BY DEF SettingsInv
<1>2. PICK top \in Nat : saves \in [1..top -> Save]
  BY <1>1 DEF SettingsTypes
<1>3. top \in Nat /\ saves \in [1..top -> Save] /\ DOMAIN saves = 1..top /\ top + 1 \in Nat
  BY <1>2
<1>4. Cardinality(DOMAIN saves) = top
  <2>1. Cardinality(1..top) = top
    BY <1>3, FS_Interval
  <2> QED
    BY <1>3, <2>1
<1>5. PICK r \in Nat : r = top + 1
  BY <1>3
<1>6. PICK s \in Service : s = Current
  BY DEF Current, Service
<1>7. /\ r = top + 1 /\ r \notin 1..top /\ 1..r = 1..top \union {r} /\ r \in Nat \ {0}
  BY <1>3, <1>5
<1> DEFINE kept == IF pending[s] = NoRequest THEN saves ELSE Settled(pending[s], "superseded")
           new == [config |-> draft, by |-> s, outcome |-> "open", late |-> worker[s] = "idle"]
<1>8. /\ saves' = [i \in DOMAIN saves \union {r} |->
                      IF i = r THEN new ELSE kept[i]]
      /\ pending' = [pending EXCEPT ![s] = r]
  BY <1>4, <1>5, <1>6 DEF Submit
<1>9. /\ program = "running" /\ UNCHANGED <<program, file, store, engine, daemon, server,
                                           worker, taken, update, drain, torn>>
  BY DEF Submit, disk
<1>10. draft \in Config /\ NoRequest # r
  BY <1>7, SettingsAssumption
<1>11. new \in Save /\ new.config = draft /\ new.by = s /\ new.outcome = "open"
       /\ new.late = (worker[s] = "idle")
  BY <1>10 DEF Save
\* The requests there were, but for the one that is superseded.
<1>12. /\ kept \in [1..top -> Save]
       /\ \A i \in 1..top : /\ kept[i].by = saves[i].by /\ kept[i].late = saves[i].late
                            /\ i # pending[s] => kept[i] = saves[i]
                            /\ kept[i].outcome = "dropped" => saves[i].outcome = "dropped"
                            /\ kept[i].outcome = "superseded" =>
                                  saves[i].outcome = "superseded" \/ i = pending[s]
  <2>1. CASE pending[s] = NoRequest
    BY <1>3, <2>1
  <2>2. CASE pending[s] # NoRequest
    <3>1. pending[s] \in 1..top
      BY <1>1, <1>3, <2>2 DEF RequestsInv, OpenFor
    <3>2. PICK x \in 1..top : x = pending[s]
      BY <3>1
    <3>3. /\ Settled(x, "superseded") \in [1..top -> Save]
          /\ Settled(x, "superseded")[x].by = saves[x].by
          /\ Settled(x, "superseded")[x].late = saves[x].late
          /\ Settled(x, "superseded")[x].outcome = "superseded"
          /\ \A i \in 1..top : i # x => Settled(x, "superseded")[i] = saves[i]
      BY <1>3, SettledIsSave DEF Verdicts
    <3>4. kept = Settled(x, "superseded")
      BY <2>2, <3>2
    <3> HIDE DEF kept
    <3> QED
      BY <3>2, <3>3, <3>4
  <2> QED
    BY <2>1, <2>2
<1> HIDE DEF kept, new
<1>13. /\ saves' \in [1..r -> Save] /\ DOMAIN saves' = 1..r
       /\ saves'[r].config = draft /\ saves'[r].by = s /\ saves'[r].outcome = "open"
       /\ saves'[r].late = (worker[s] = "idle")
       /\ \A i \in 1..top : saves'[i] = kept[i]
  BY <1>3, <1>7, <1>8, <1>11, <1>12
<1>14. /\ pending' \in [Service -> Nat \union {NoRequest}] /\ pending'[s] = r
       /\ \A k \in Service : k # s => pending'[k] = pending[k]
  BY <1>1, <1>7, <1>8 DEF SettingsTypes
<1>15. SettingsTypes'
  BY <1>1, <1>7, <1>9, <1>13, <1>14 DEF SettingsTypes
\* A request that is still to be answered, and is not the superseded one, stays so.
<1>16. ASSUME NEW i, NEW k \in Service, OpenFor(i, k), i # pending[s] PROVE OpenFor(i, k)' /\ i # r
  <2>1. i \in 1..top /\ kept[i] = saves[i]
    BY <1>3, <1>12, <1>16 DEF OpenFor
  <2>2. i \in 1..r /\ saves'[i] = saves[i]
    BY <1>7, <1>13, <2>1
  <2> QED
    BY <1>7, <1>13, <1>16, <2>1, <2>2 DEF OpenFor
<1>17. RequestsInv'
  <2>1. ASSUME NEW i \in DOMAIN saves', saves'[i].outcome = "superseded"
        PROVE  i + 1 \in DOMAIN saves' /\ saves'[i + 1].by = saves'[i].by
    <3>1. i \in 1..top /\ saves'[i] = kept[i] /\ kept[i].by = saves[i].by
      BY <1>7, <1>12, <1>13, <2>1
    <3>4. i # NoRequest
      BY <1>3, <3>1, SettingsAssumption
    <3>2. CASE i = pending[s]
      <4>1. i = top
        BY <1>3, <1>6, <3>1, <3>2, <3>4 DEF QueueInv
      <4>2. saves[i].by = s
        BY <1>1, <3>2, <3>4 DEF RequestsInv, OpenFor
      <4> QED
        BY <1>7, <1>13, <3>1, <4>1, <4>2
    <3>3. CASE i # pending[s]
      <4>1. saves[i].outcome = "superseded"
        BY <1>12, <2>1, <3>1, <3>3
      <4>2. i + 1 \in 1..top /\ saves[i + 1].by = saves[i].by
        BY <1>1, <1>3, <3>1, <4>1 DEF RequestsInv
      <4> QED
        BY <1>7, <1>12, <1>13, <3>1, <4>2
    <3> QED
      BY <3>2, <3>3
  <2>2. ASSUME NEW k \in Service, pending'[k] # NoRequest PROVE OpenFor(pending[k], k)'
    <3>1. CASE k = s
      BY <1>7, <1>10, <1>13, <1>14, <3>1 DEF OpenFor
    <3>2. CASE k # s
      <4>1. OpenFor(pending[k], k) /\ pending'[k] = pending[k]
        BY <1>1, <1>14, <2>2, <3>2 DEF RequestsInv
      <4>2. pending[k] # pending[s]
        <5>1. CASE pending[s] = NoRequest
          BY <1>14, <2>2, <3>2, <5>1
        <5>2. CASE pending[s] # NoRequest
          BY <1>1, <3>2, <4>1, <5>2 DEF RequestsInv, OpenFor
        <5> QED
          BY <5>1, <5>2
      <4>3. PICK i : i = pending[k]
        OBVIOUS
      <4>4. OpenFor(i, k)'
        BY <1>16, <4>1, <4>2, <4>3
      <4> QED
        BY <4>1, <4>3, <4>4 DEF OpenFor
    <3> QED
      BY <3>1, <3>2
  <2>3. ASSUME NEW k \in Service, Saving(k)' PROVE OpenFor(taken[k], k)' /\ taken'[k] # pending'[k]
    <3>1. Saving(k) /\ taken'[k] = taken[k] /\ OpenFor(taken[k], k) /\ taken[k] # pending[k]
      BY <1>1, <1>9, <2>3 DEF RequestsInv, Saving
    <3>2. taken[k] # pending[s]
      <4>1. CASE pending[s] = NoRequest
        <5>1. taken[k] \in 1..top
          BY <1>3, <3>1 DEF OpenFor
        <5>2. taken[k] \in Nat \ {0}
          BY <1>3, <5>1
        <5> QED
          BY <4>1, <5>2, SettingsAssumption
      <4>2. CASE pending[s] # NoRequest
        BY <1>1, <3>1, <4>2 DEF RequestsInv, OpenFor
      <4> QED
        BY <4>1, <4>2
    <3>3. PICK i : i = taken[k]
      OBVIOUS
    <3>4. OpenFor(i, k)' /\ i # r
      BY <1>16, <3>1, <3>2, <3>3
    <3>5. OpenFor(taken[k], k)'
      BY <3>1, <3>3, <3>4 DEF OpenFor
    <3> QED
      BY <1>14, <3>1, <3>3, <3>4, <3>5
  <2> QED
    BY <2>1, <2>2, <2>3 DEF RequestsInv
<1>18. LifeInv'
  BY <1>1, <1>9 DEF LifeInv, Saving
<1>19. DiskInv'
  BY <1>1, <1>9 DEF DiskInv, Agrees, DiskHolds
<1>20. DaemonInv'
  <2>1. Told' => Told
    BY <1>3, <1>7, <1>9, <1>12, <1>13 DEF Told
  <2> QED
    BY <1>1, <1>9, <2>1 DEF DaemonInv
<1>21. QueueInv'
  <2>1. server' = server /\ Current' = Current
    BY <1>9 DEF Current
  <2>2. ASSUME NEW i \in DOMAIN saves', saves'[i].outcome = "dropped" PROVE saves'[i].late
    <3>1. i \in 1..top
      BY <1>7, <1>13, <2>2
    <3> QED
      BY <1>3, <1>12, <1>13, <2>2, <3>1 DEF QueueInv
  <2>3. ASSUME NEW k \in Service, worker'[k] = "idle", pending'[k] # NoRequest
        PROVE  saves'[pending'[k]].late
    <3>1. CASE k = s
      BY <1>9, <1>13, <1>14, <2>3, <3>1
    <3>2. CASE k # s
      <4>1. pending'[k] = pending[k] /\ pending[k] \in 1..top /\ saves[pending[k]].late
        BY <1>1, <1>3, <1>9, <1>14, <2>3, <3>2 DEF QueueInv, RequestsInv, OpenFor
      <4> QED
        BY <1>12, <1>13, <4>1
    <3> QED
      BY <3>1, <3>2
  <2>4. server' # "ready" => pending'["full"] = NoRequest
    <3>1. "full" \in Service /\ (server # "ready" => s # "full")
      BY <1>6 DEF Current, Service
    <3> QED
      BY <1>14, <2>1, <3>1 DEF QueueInv
  <2>5. pending'[Current'] + 1 \notin DOMAIN saves'
    BY <1>6, <1>7, <1>13, <1>14, <2>1
  <2> QED
    BY <2>2, <2>3, <2>4, <2>5 DEF QueueInv
<1> QED
  BY <1>15, <1>17, <1>18, <1>19, <1>20, <1>21 DEF SettingsInv

\* The end of the program, and what it waits for.
LEMMA CloseKeeps ==
  ASSUME SettingsInv, Close \/ DrainChecks \/ DrainNotified \/ Crash
  PROVE  SettingsInv'
<1>1. SettingsTypes /\ RequestsInv /\ LifeInv /\ DiskInv /\ DaemonInv
  BY DEF SettingsInv
<1>2. CASE Close
  <2>1. /\ program \in {"running", "broken"} /\ program' = "closing" /\ drain' = "check"
        /\ UNCHANGED <<file, store, engine, daemon, server, saves, pending, worker, taken,
                       update, torn>>
    BY <1>2 DEF Close, disk
  <2>2. SettingsTypes' /\ RequestsInv'
    BY <1>1, <2>1 DEF SettingsTypes, RequestsInv, OpenFor, Saving
  <2>3. LifeInv'
    BY <1>1, <2>1 DEF LifeInv, Saving
  <2>4. DiskInv' /\ DaemonInv'
    BY <1>1, <2>1 DEF DiskInv, DaemonInv, Told, Agrees, DiskHolds
  <2> QED
    BY <2>2, <2>3, <2>4 DEF SettingsInv
<1>3. CASE DrainChecks \/ DrainNotified
  <2>1. /\ drain # "off"
        /\ \/ drain' \in {"wait", "check"} /\ UNCHANGED program
           \/ drain' = "off" /\ program' = "ended" /\ Outstanding = {}
        /\ UNCHANGED <<file, store, engine, daemon, server, saves, pending, worker, taken,
                       update, torn>>
    BY <1>3 DEF DrainChecks, DrainNotified, disk, services
  <2>2. SettingsTypes' /\ RequestsInv'
    BY <1>1, <2>1 DEF SettingsTypes, RequestsInv, OpenFor, Saving
  <2>3. Outstanding = {} => update = Idle
    <3> SUFFICES ASSUME Outstanding = {}, update # Idle PROVE FALSE
      OBVIOUS
    <3>1. program = "closing" /\ update \in Update
      BY <1>1, <2>1 DEF LifeInv, SettingsTypes
    <3>2. update.owner \in Service /\ Saving(update.owner)
      BY <1>1, <3>1 DEF LifeInv, Update
    <3>3. OpenFor(taken[update.owner], update.owner)
      BY <1>1, <3>2 DEF RequestsInv
    <3> QED
      BY <3>3 DEF OpenFor, Outstanding
  <2>4. LifeInv'
    BY <1>1, <2>1, <2>3 DEF LifeInv, Saving, Outstanding
  <2>5. DiskInv' /\ DaemonInv'
    BY <1>1, <2>1 DEF DiskInv, DaemonInv, Told, Agrees, DiskHolds
  <2> QED
    BY <2>2, <2>4, <2>5 DEF SettingsInv
<1>4. CASE Crash
  <2>1. /\ program' = "down" /\ engine' = NoConfig /\ server' = "off" /\ update' = Idle
        /\ saves' = [r \in DOMAIN saves |->
                        IF r \in Outstanding THEN Settled(r, "lost")[r] ELSE saves[r]]
        /\ pending' = [s \in Service |-> NoRequest] /\ worker' = [s \in Service |-> "absent"]
        /\ taken' = [s \in Service |-> NoRequest] /\ drain' = "off"
        /\ UNCHANGED <<file, store>>
    BY <1>4 DEF Crash, disk
  <2>2. PICK top \in Nat : saves \in [1..top -> Save]
    BY <1>1 DEF SettingsTypes
  <2>3. \A r \in 1..top : /\ Settled(r, "lost")[r] \in Save
                          /\ Settled(r, "lost")[r].outcome = "lost"
                          /\ Settled(r, "lost")[r].by = saves[r].by
    BY <2>2, SettledIsSave DEF Verdicts
  <2>4. /\ saves' \in [1..top -> Save] /\ DOMAIN saves' = DOMAIN saves
        /\ \A r \in DOMAIN saves :
              /\ saves'[r].by = saves[r].by
              /\ saves'[r].outcome = "superseded" => saves[r].outcome = "superseded"
    BY <2>1, <2>2, <2>3
  <2>5. SettingsTypes'
    BY <1>1, <2>1, <2>2, <2>4 DEF SettingsTypes
  <2>6. RequestsInv'
    BY <1>1, <2>1, <2>4 DEF RequestsInv, Saving
  <2>7. LifeInv'
    <3>1. \A s \in Service : worker'[s] = "absent" /\ pending'[s] = NoRequest
      BY <2>1
    <3>2. "full" \in Service
      BY DEF Service
    <3> QED
      BY <2>1, <3>1, <3>2 DEF LifeInv
  <2>8. DiskInv' /\ DaemonInv'
    BY <2>1 DEF DiskInv, DaemonInv, Told
  <2> QED
    BY <2>5, <2>6, <2>7, <2>8 DEF SettingsInv
<1> QED
  BY <1>2, <1>3, <1>4

\* A worker that has finished its request looks for the next one.
LEMMA FinishKeeps ==
  ASSUME SettingsInv, NEW s \in Service, Saving(s), update.owner = s, update \in Update,
         NEW outcome1 \in {"saved", "failed"}, Finish(s, outcome1),
         UNCHANGED <<program, file, store, server, pending, drain>>,
         engine' \in Config, torn' \ {"disk"} = torn \ {"disk"} \/ torn' = torn \ {"daemon"}
                             \/ torn' = torn \union {"daemon"},
         engine' # NoConfig /\ "disk" \notin torn' => Agrees(engine, store)',
         server \in {"read", "ready"} /\ "daemon" \notin torn'
            /\ (\A r \in DOMAIN saves : saves[r].by = "full") => daemon' = engine'
  PROVE  SettingsInv'
<1>1. SettingsTypes /\ RequestsInv /\ LifeInv
  BY DEF SettingsInv
<1>2. PICK top \in Nat : saves \in [1..top -> Save]
  BY <1>1 DEF SettingsTypes
<1>3. top \in Nat /\ saves \in [1..top -> Save] /\ DOMAIN saves = 1..top
  BY <1>2
<1>4. OpenFor(taken[s], s) /\ taken[s] # pending[s]
  BY <1>1 DEF RequestsInv
<1>5. PICK r \in 1..top : r = taken[s]
  BY <1>3, <1>4 DEF OpenFor
<1>6. /\ saves' = Settled(r, outcome1) /\ worker' = [worker EXCEPT ![s] = "looking"]
      /\ taken' = [taken EXCEPT ![s] = NoRequest] /\ update' = Idle
  BY <1>5 DEF Finish
<1>7. /\ Settled(r, outcome1) \in [1..top -> Save]
      /\ Settled(r, outcome1)[r].by = saves[r].by
      /\ Settled(r, outcome1)[r].outcome = outcome1
      /\ \A i \in 1..top : i # r => Settled(r, outcome1)[i] = saves[i]
  BY <1>3, SettledIsSave DEF Verdicts
<1>8. /\ saves' \in [1..top -> Save] /\ DOMAIN saves' = 1..top
      /\ saves'[r].outcome = outcome1
      /\ \A i \in 1..top : saves'[i].by = saves[i].by
      /\ \A i \in 1..top : i # r => saves'[i] = saves[i]
  BY <1>6, <1>7
<1>9. /\ worker' \in [Service -> {"absent", "waiting", "looking", "saving", "idle"}]
      /\ taken' \in [Service -> Nat \union {NoRequest}] /\ worker'[s] = "looking"
      /\ \A k \in Service : k # s => worker'[k] = worker[k] /\ taken'[k] = taken[k]
  BY <1>1, <1>6 DEF SettingsTypes
<1>10. SettingsTypes'
  BY <1>1, <1>2, <1>6, <1>8, <1>9 DEF SettingsTypes
<1>11. ASSUME NEW i, NEW k \in Service, OpenFor(i, k), i # r
       PROVE  i \in DOMAIN saves' /\ saves'[i].by = k /\ saves'[i].outcome = "open"
              /\ saves'[i].config \in Config
  <2>1. i \in 1..top
    BY <1>3, <1>11 DEF OpenFor
  <2> QED
    BY <1>8, <1>11, <2>1 DEF OpenFor
<1>12. RequestsInv'
  <2>1. ASSUME NEW i \in DOMAIN saves', saves'[i].outcome = "superseded"
        PROVE  i + 1 \in DOMAIN saves' /\ saves'[i + 1].by = saves'[i].by
    <3>1. i \in 1..top /\ i # r
      BY <1>8, <2>1
    <3>2. i \in DOMAIN saves /\ saves[i].outcome = "superseded"
      BY <1>3, <1>8, <2>1, <3>1
    <3>3. i + 1 \in 1..top /\ saves[i + 1].by = saves[i].by
      BY <1>1, <1>3, <3>2 DEF RequestsInv
    <3> QED
      BY <1>8, <3>1, <3>3
  <2>2. ASSUME NEW k \in Service, pending'[k] # NoRequest PROVE OpenFor(pending[k], k)'
    <3>1. OpenFor(pending[k], k) /\ pending'[k] = pending[k]
      BY <1>1, <2>2 DEF RequestsInv
    <3>2. pending[k] # r
      BY <1>4, <1>5, <3>1 DEF OpenFor
    <3> QED
      BY <1>11, <3>1, <3>2 DEF OpenFor
  <2>3. ASSUME NEW k \in Service, Saving(k)' PROVE OpenFor(taken[k], k)' /\ taken'[k] # pending'[k]
    <3>1. k # s
      BY <1>9, <2>3 DEF Saving
    <3>2. Saving(k) /\ taken'[k] = taken[k] /\ OpenFor(taken[k], k) /\ taken[k] # pending[k]
      BY <1>1, <1>9, <2>3, <3>1 DEF RequestsInv, Saving
    <3>3. taken[k] # r
      BY <1>4, <1>5, <3>1, <3>2 DEF OpenFor
    <3> QED
      BY <1>11, <3>2, <3>3 DEF OpenFor
  <2> QED
    BY <2>1, <2>2, <2>3 DEF RequestsInv
<1>13. LifeInv'
  <2>1. /\ program \in {"running", "closing"} /\ worker[s] # "absent"
    <3>1. s # "load" /\ update # Idle
      BY IdleIsNone DEF Service
    <3> QED
      BY <1>1, <3>1 DEF LifeInv, Saving
  <2>2. server # "ready" => worker'["full"] = "absent"
    <3>1. "full" \in Service
      BY DEF Service
    <3> QED
      BY <1>1, <1>9, <2>1, <3>1 DEF LifeInv
  <2> QED
    BY <1>1, <1>6, <2>1, <2>2 DEF LifeInv
<1>14. DiskInv'
  BY <1>6 DEF DiskInv
<1>15. DaemonInv'
  BY <1>3, <1>6, <1>8 DEF DaemonInv, Told
<1> QED
  BY <1>10, <1>12, <1>13, <1>14, <1>15 DEF SettingsInv

\* Of the lives of the workers no more is asked than this.
LEMMA WorkersMove ==
  ASSUME LifeInv, UNCHANGED <<program, engine, server, saves, update, drain>>,
         program \in {"running", "closing", "ended"}, engine \in Config,
         worker["full"] = "absent" => worker'["full"] = "absent",
         update # Idle /\ update.owner # "load" => Saving(update.owner)'
  PROVE  LifeInv'
<1>1. program \notin {"down", "loading", "broken"}
  OBVIOUS
<1>2. (program = "ended" => update = Idle /\ Outstanding = {})'
  BY DEF LifeInv, Outstanding
<1>3. (server # "ready" => worker["full"] = "absent")'
  BY DEF LifeInv
<1>4. (drain # "off" => program = "closing")'
  BY DEF LifeInv
<1>5. update # Idle =>
          IF update.owner = "load"
          THEN program = "loading" /\ ~update.undoing /\ update.stage # "daemon"
          ELSE /\ program \in {"running", "closing"}
               /\ update.previous \in Config \/ update.undoing
               /\ update.stage = "daemon" => update.owner = "full" /\ ~update.undoing
               /\ update.undoing => update.owner = "full"
  BY DEF LifeInv
<1> QED
  BY <1>1, <1>2, <1>3, <1>4, <1>5 DEF LifeInv

LEMMA ServiceKeeps ==
  ASSUME SettingsInv, NEW s \in Service, ServiceStep(s)
  PROVE  SettingsInv'
<1>1. SettingsTypes /\ RequestsInv /\ LifeInv /\ DiskInv /\ DaemonInv
  BY DEF SettingsInv
<1>2. Service = {"early", "full"} /\ s # "load"
  BY DEF Service
<1>9. update # Idle /\ update.owner # "load" =>
         update.owner \in Service /\ Saving(update.owner)
  <2>1. update # Idle => update.owner \in Service \union {"load"}
    BY <1>1 DEF SettingsTypes, Update
  <2>2. update # Idle /\ update.owner # "load" => Saving(update.owner)
    BY <1>1 DEF LifeInv
  <2> QED
    BY <2>1, <2>2
<1>3. CASE Wake(s)
  <2>1. /\ worker[s] = "waiting" /\ worker' = [worker EXCEPT ![s] = "looking"]
        /\ UNCHANGED <<program, file, store, engine, daemon, server, saves, pending, taken,
                       update, drain, torn>>
    BY <1>3 DEF Wake, disk
  <2>2. /\ worker' \in [Service -> {"absent", "waiting", "looking", "saving", "idle"}]
        /\ \A k \in Service : /\ Saving(k)' <=> Saving(k)
                              /\ worker[k] = "absent" => worker'[k] = "absent"
    BY <1>1, <2>1 DEF SettingsTypes, Saving
  <2>3. SettingsTypes' /\ RequestsInv'
    BY <1>1, <2>1, <2>2 DEF SettingsTypes, RequestsInv, OpenFor
  <2>4. LifeInv'
    <3>1. program \in {"running", "closing", "ended"} /\ engine \in Config
      BY <1>1, <2>1 DEF LifeInv, SettingsTypes
    <3>2. update # Idle /\ update.owner # "load" => Saving(update.owner)'
      BY <1>9, <2>1, <2>2
    <3> QED
      BY <1>1, <1>2, <2>1, <2>2, <3>1, <3>2, WorkersMove
  <2>5. DiskInv' /\ DaemonInv'
    BY <1>1, <2>1 DEF DiskInv, DaemonInv, Told, Agrees, DiskHolds
  <2> QED
    BY <2>3, <2>4, <2>5 DEF SettingsInv
<1>4. CASE TakeRequest(s)
  <2>1. /\ worker[s] = "looking"
        /\ UNCHANGED <<program, file, store, engine, daemon, server, saves, update, drain,
                       torn>>
    BY <1>4 DEF TakeRequest, disk
  <2>2. DiskInv' /\ DaemonInv'
    BY <1>1, <2>1 DEF DiskInv, DaemonInv, Told, Agrees, DiskHolds
  <2>3. program \in {"running", "closing", "ended"} /\ engine \in Config
    BY <1>1, <2>1 DEF LifeInv, SettingsTypes
  <2>4. update # Idle => update.owner # s
    BY <1>1, <1>2, <2>1 DEF LifeInv, Saving
  <2>5. CASE pending[s] # NoRequest
    <3>1. /\ worker' = [worker EXCEPT ![s] = "saving"]
          /\ taken' = [taken EXCEPT ![s] = pending[s]]
          /\ pending' = [pending EXCEPT ![s] = NoRequest]
      BY <1>4, <2>5 DEF TakeRequest
    <3>2. /\ worker' \in [Service -> {"absent", "waiting", "looking", "saving", "idle"}]
          /\ taken' \in [Service -> Nat \union {NoRequest}]
          /\ pending' \in [Service -> Nat \union {NoRequest}]
          /\ worker'[s] = "saving" /\ taken'[s] = pending[s] /\ pending'[s] = NoRequest
          /\ \A k \in Service : k # s => /\ worker'[k] = worker[k] /\ taken'[k] = taken[k]
                                         /\ pending'[k] = pending[k]
      BY <1>1, <3>1 DEF SettingsTypes
    <3>3. SettingsTypes'
      BY <1>1, <2>1, <3>2 DEF SettingsTypes
    <3>4. RequestsInv'
      BY <1>1, <2>1, <2>5, <3>2 DEF RequestsInv, OpenFor, Saving
    <3>6. LifeInv'
      <4>1. worker["full"] = "absent" => worker'["full"] = "absent"
        BY <1>2, <2>1, <3>2
      <4>2. update # Idle /\ update.owner # "load" => Saving(update.owner)'
        BY <1>9, <2>1, <2>4, <3>2 DEF Saving
      <4> QED
        BY <1>1, <2>1, <2>3, <4>1, <4>2, WorkersMove
    <3> QED
      BY <2>2, <3>3, <3>4, <3>6 DEF SettingsInv
  <2>6. CASE pending[s] = NoRequest
    <3>1. worker' = [worker EXCEPT ![s] = "idle"]
      BY <1>4, <2>6 DEF TakeRequest
    <3>2. UNCHANGED <<taken, pending>>
      BY <1>4, <2>6 DEF TakeRequest
    <3>3. /\ worker' \in [Service -> {"absent", "waiting", "looking", "saving", "idle"}]
          /\ \A k \in Service : /\ Saving(k)' <=> Saving(k)
                                /\ worker[k] = "absent" => worker'[k] = "absent"
      BY <1>1, <2>1, <3>1 DEF SettingsTypes, Saving
    <3>4. SettingsTypes' /\ RequestsInv'
      BY <1>1, <2>1, <3>2, <3>3 DEF SettingsTypes, RequestsInv, OpenFor
    <3>5. LifeInv'
      <4>1. update # Idle /\ update.owner # "load" => Saving(update.owner)'
        BY <1>9, <2>1, <3>3
      <4> QED
        BY <1>1, <1>2, <2>1, <2>3, <3>3, <4>1, WorkersMove
    <3> QED
      BY <2>2, <3>4, <3>5 DEF SettingsInv
  <2> QED
    BY <2>5, <2>6
<1>5. CASE LockEngine(s)
  <2>1. /\ Saving(s) /\ update.stage = "idle"
        /\ update' = [stage |-> "read", owner |-> s, target |-> saves[taken[s]].config,
                      old |-> store, previous |-> engine, undoing |-> FALSE]
        /\ UNCHANGED <<program, file, store, engine, daemon, server, saves, pending, worker,
                       taken, drain, torn>>
    BY <1>5 DEF LockEngine, Begin, disk, services
  <2>2. update = Idle
    BY <1>1, <2>1 DEF SettingsTypes, Update, WriteStages, Account
  <2>3. saves[taken[s]].config \in Config /\ engine \in Config /\ store \in Keys
    BY <1>1, <2>1 DEF SettingsTypes, RequestsInv, OpenFor, LifeInv, Saving
  <2>4. /\ update' \in Update /\ update'.stage = "read" /\ update'.owner = s
        /\ update'.previous = engine /\ ~update'.undoing
    BY <2>1, <2>3 DEF Update
  <2>5. update' # Idle
    BY <2>4, IdleIsNone
  <2>6. program \in {"running", "closing"}
    <3>1. program # "ended"
      BY <1>1, <2>1 DEF RequestsInv, OpenFor, LifeInv, Outstanding
    <3> QED
      BY <1>1, <2>1, <3>1 DEF LifeInv, Saving, SettingsTypes
  <2>7. SettingsTypes' /\ RequestsInv'
    BY <1>1, <2>1, <2>4 DEF SettingsTypes, RequestsInv, OpenFor, Saving
  <2>8. LifeInv'
    BY <1>1, <1>2, <2>1, <2>3, <2>4, <2>5, <2>6 DEF LifeInv, Saving
  <2>9. DiskInv'
    <3>1. WrittenKeys("read") = {} /\ "read" \notin WriteStages \union {"restore"}
      BY DEF WrittenKeys, WriteStages, Account
    <3> QED
      BY <1>1, <2>1, <2>2, <2>4, <2>5, <3>1 DEF DiskInv, Agrees
  <2>10. DaemonInv'
    BY <1>1, <2>1, <2>2, <2>4, <2>5 DEF DaemonInv, Told
  <2> QED
    BY <2>7, <2>8, <2>9, <2>10 DEF SettingsInv
<1>6. CASE CommitSave(s)
  <2>1. /\ Saving(s) /\ update.stage = "commit" /\ update.owner = s
        /\ engine' = update.target /\ torn' = torn \ {"disk"}
        /\ UNCHANGED <<program, file, store, daemon, server, pending, drain>>
    BY <1>6 DEF CommitSave, disk
  <2>2. update \in Update /\ update # Idle
    BY <1>1, <2>1, IdleIsNone DEF SettingsTypes, Idle
  <2>3. update.target \in Config /\ update.target.keys \in Keys /\ store \in Keys
    BY <1>1, <2>2 DEF Update, Config, SettingsTypes
  <2>4. file = Written(update.target) /\ store = update.target.keys
    <3>1. WrittenKeys("commit") = Account
      BY DEF WrittenKeys, Account
    <3>2. /\ file = Written(update.target)
          /\ \A account \in Account : store[account] = update.target.keys[account]
      BY <1>1, <2>1, <2>2, <3>1 DEF DiskInv
    <3> QED
      BY <2>3, <3>2 DEF Keys
  <2>5. engine' \in Config /\ Agrees(engine, store)'
    BY <2>1, <2>3, <2>4 DEF Agrees
  <2>6. Told => /\ update.undoing => daemon = update.target
                /\ ~update.undoing => daemon = update.previous
    BY <1>1, <2>1, <2>2 DEF DaemonInv
  <2>7. CASE update.undoing
    <3>1. Finish(s, "failed")
      BY <1>6, <2>7 DEF CommitSave
    <3>2. server \in {"read", "ready"} /\ "daemon" \notin torn'
             /\ (\A r \in DOMAIN saves : saves[r].by = "full") => daemon' = engine'
      BY <2>1, <2>6, <2>7 DEF Told
    <3>3. torn' \ {"disk"} = torn \ {"disk"}
      BY <2>1
    <3> QED
      BY <2>1, <2>2, <2>5, <3>1, <3>2, <3>3, FinishKeeps
  <2>8. CASE ~update.undoing /\ s = "full"
    <3>1. update' = [update EXCEPT !.stage = "daemon"] /\ UNCHANGED <<saves, worker, taken>>
      BY <1>6, <2>8 DEF CommitSave, At
    <3>2. /\ update' \in Update /\ update'.stage = "daemon" /\ update'.owner = s
          /\ update'.target = update.target /\ update'.previous = update.previous
          /\ ~update'.undoing
      BY <2>1, <2>2, <2>8, <3>1, StageMoves
    <3>3. update' # Idle
      BY <3>2, IdleIsNone
    <3>4. SettingsTypes' /\ RequestsInv'
      BY <1>1, <2>1, <3>1, <3>2 DEF SettingsTypes, RequestsInv, OpenFor, Saving
    <3>5. LifeInv'
      BY <1>1, <1>2, <2>1, <2>2, <2>5, <2>8, <3>1, <3>2, <3>3 DEF LifeInv, Saving
    <3>6. DiskInv'
      <4>1. WrittenKeys("daemon") = {} /\ "daemon" \notin WriteStages \union {"restore"}
        BY DEF WrittenKeys, WriteStages, Account
      <4>2. DiskHolds(engine)'
        BY <2>1, <2>4 DEF DiskHolds
      <4> QED
        BY <2>1, <3>2, <3>3, <4>1, <4>2 DEF DiskInv
    <3>7. DaemonInv'
      BY <2>1, <2>6, <2>8, <3>1, <3>2, <3>3 DEF DaemonInv, Told
    <3> QED
      BY <3>4, <3>5, <3>6, <3>7 DEF SettingsInv
  <2>9. CASE ~update.undoing /\ s # "full"
    <3>1. Finish(s, "saved")
      BY <1>6, <2>9 DEF CommitSave
    <3>2. taken[s] \in DOMAIN saves /\ saves[taken[s]].by = s
      BY <1>1, <2>1 DEF RequestsInv, OpenFor
    <3>3. torn' \ {"disk"} = torn \ {"disk"}
      BY <2>1
    <3> QED
      BY <2>1, <2>2, <2>5, <2>9, <3>1, <3>2, <3>3, FinishKeeps
  <2> QED
    BY <2>7, <2>8, <2>9
<1>7. CASE SaveFails(s)
  <2>1. /\ Saving(s) /\ update.stage = "failed" /\ update.owner = s /\ Finish(s, "failed")
        /\ torn' = IF update.undoing THEN torn \union {"daemon"} ELSE torn
        /\ UNCHANGED <<program, file, store, engine, daemon, server, pending, drain>>
    BY <1>7 DEF SaveFails, disk
  <2>2. update \in Update /\ update # Idle
    BY <1>1, <2>1, IdleIsNone DEF SettingsTypes, Idle
  <2>3. engine \in Config
    BY <1>1, <2>1 DEF LifeInv, Saving
  <2>4. engine' # NoConfig /\ "disk" \notin torn' => Agrees(engine, store)'
    BY <1>1, <2>1, <2>2 DEF DiskInv, Agrees
  <2>5. server \in {"read", "ready"} /\ "daemon" \notin torn'
             /\ (\A r \in DOMAIN saves : saves[r].by = "full") => daemon' = engine'
    BY <1>1, <2>1, <2>2 DEF DaemonInv, Told
  <2>6. torn' \ {"disk"} = torn \ {"disk"} \/ torn' = torn \union {"daemon"}
    BY <2>1
  <2> QED
    BY <2>1, <2>2, <2>3, <2>4, <2>5, <2>6, FinishKeeps
<1>8. CASE TellDaemon(s)
  <2>1. /\ Saving(s) /\ update.stage = "daemon" /\ update.owner = s
        /\ UNCHANGED <<program, file, store, engine, server, pending, drain>>
    BY <1>8 DEF TellDaemon, disk
  <2>2. update \in Update /\ update # Idle
    BY <1>1, <2>1, IdleIsNone DEF SettingsTypes, Idle
  <2>3. engine \in Config /\ DiskHolds(engine) /\ engine = update.target
    BY <1>1, <2>1, <2>2 DEF DiskInv, LifeInv, Saving
  <2>4. Agrees(engine, store)
    BY <2>3 DEF Agrees, DiskHolds
  <2>5. CASE daemon' = update.target /\ torn' = torn \ {"daemon"} /\ Finish(s, "saved")
    <3>1. Agrees(engine, store)'
      BY <2>1, <2>4 DEF Agrees
    <3> QED
      BY <2>1, <2>2, <2>3, <2>5, <3>1, FinishKeeps
  <2>6. CASE UndoSave(s) /\ UNCHANGED <<daemon, torn, saves, worker, taken>>
    <3>1. update' = [stage |-> "read", owner |-> s, target |-> update.previous,
                     old |-> store, previous |-> NoConfig, undoing |-> TRUE]
      BY <2>6 DEF UndoSave, Begin
    <3>2. ~update.undoing /\ s = "full" /\ update.previous \in Config /\ store \in Keys
      BY <1>1, <1>2, <2>1, <2>2 DEF LifeInv, SettingsTypes
    <3>3. /\ update' \in Update /\ update'.stage = "read" /\ update'.owner = s
          /\ update'.undoing /\ update'.target = update.previous
      BY <3>1, <3>2 DEF Update
    <3>4. update' # Idle
      BY <3>3, IdleIsNone
    <3>5. SettingsTypes' /\ RequestsInv'
      BY <1>1, <2>1, <2>6, <3>3 DEF SettingsTypes, RequestsInv, OpenFor, Saving
    <3>6. LifeInv'
      BY <1>1, <1>2, <2>1, <2>2, <2>6, <3>2, <3>3, <3>4 DEF LifeInv, Saving
    <3>7. DiskInv'
      <4>1. WrittenKeys("read") = {} /\ "read" \notin WriteStages \union {"restore"}
        BY DEF WrittenKeys, WriteStages, Account
      <4>2. Agrees(engine, store)'
        BY <2>1, <2>4 DEF Agrees
      <4> QED
        BY <3>3, <3>4, <4>1, <4>2 DEF DiskInv
    <3>8. DaemonInv'
      BY <1>1, <2>1, <2>2, <2>6, <3>2, <3>3, <3>4 DEF DaemonInv, Told
    <3> QED
      BY <3>5, <3>6, <3>7, <3>8 DEF SettingsInv
  <2> QED
    BY <1>8, <2>5, <2>6 DEF TellDaemon
<1>10. CASE LookAtClosed(s)
  <2>1. /\ worker[s] = "idle"
        /\ worker' = [worker EXCEPT ![s] = IF s \in closed THEN "absent" ELSE "waiting"]
        /\ UNCHANGED <<program, file, store, engine, daemon, server, taken, update, drain,
                       torn>>
    BY <1>10 DEF LookAtClosed, disk
  <2>2. /\ worker' \in [Service -> {"absent", "waiting", "looking", "saving", "idle"}]
        /\ \A k \in Service : /\ Saving(k)' <=> Saving(k)
                              /\ worker[k] = "absent" => worker'[k] = "absent"
    BY <1>1, <2>1 DEF SettingsTypes, Saving
  <2>3. program \in {"running", "closing", "ended"} /\ engine \in Config
    BY <1>1, <2>1 DEF LifeInv, SettingsTypes
  <2>4. update # Idle /\ update.owner # "load" => Saving(update.owner)'
    BY <1>9, <2>1, <2>2
  <2>5. CASE UNCHANGED <<saves, pending>>
    <3>1. SettingsTypes' /\ RequestsInv'
      BY <1>1, <2>1, <2>2, <2>5 DEF SettingsTypes, RequestsInv, OpenFor
    <3>2. LifeInv'
      BY <1>1, <1>2, <2>1, <2>2, <2>3, <2>4, <2>5, WorkersMove
    <3>3. DiskInv' /\ DaemonInv'
      BY <1>1, <2>1, <2>5 DEF DiskInv, DaemonInv, Told, Agrees, DiskHolds
    <3> QED
      BY <3>1, <3>2, <3>3 DEF SettingsInv
  <2>6. CASE /\ pending[s] # NoRequest /\ saves' = Settled(pending[s], "dropped")
             /\ pending' = [pending EXCEPT ![s] = NoRequest]
    <3>1. PICK top \in Nat : saves \in [1..top -> Save]
      BY <1>1 DEF SettingsTypes
    <3>2. OpenFor(pending[s], s)
      BY <1>1, <2>6 DEF RequestsInv
    <3>3. PICK r \in 1..top : r = pending[s]
      BY <3>1, <3>2 DEF OpenFor
    <3>4. /\ Settled(r, "dropped") \in [1..top -> Save]
          /\ Settled(r, "dropped")[r].by = saves[r].by
          /\ Settled(r, "dropped")[r].outcome = "dropped"
          /\ \A i \in 1..top : i # r => Settled(r, "dropped")[i] = saves[i]
      BY <3>1, SettledIsSave DEF Verdicts
    <3>5. /\ top \in Nat /\ DOMAIN saves = 1..top
          /\ saves' \in [1..top -> Save] /\ DOMAIN saves' = 1..top
          /\ saves'[r].outcome = "dropped"
          /\ \A i \in 1..top : saves'[i].by = saves[i].by
          /\ \A i \in 1..top : i # r => saves'[i] = saves[i]
      BY <2>6, <3>1, <3>3, <3>4
    <3>6. /\ pending' \in [Service -> Nat \union {NoRequest}] /\ pending'[s] = NoRequest
          /\ \A k \in Service : k # s => pending'[k] = pending[k]
      BY <1>1, <2>6 DEF SettingsTypes
    <3>7. SettingsTypes'
      BY <1>1, <2>1, <2>2, <3>1, <3>5, <3>6 DEF SettingsTypes
    <3>8. ASSUME NEW i, NEW k \in Service, OpenFor(i, k), i # r
          PROVE  i \in DOMAIN saves' /\ saves'[i].by = k /\ saves'[i].outcome = "open"
                 /\ saves'[i].config \in Config
      BY <3>5, <3>8 DEF OpenFor
    <3>9. RequestsInv'
      <4>1. ASSUME NEW i \in DOMAIN saves', saves'[i].outcome = "superseded"
            PROVE  i + 1 \in DOMAIN saves' /\ saves'[i + 1].by = saves'[i].by
        <5>1. i \in 1..top /\ i # r /\ saves[i].outcome = "superseded"
          BY <3>5, <4>1
        <5>2. i + 1 \in 1..top /\ saves[i + 1].by = saves[i].by
          BY <1>1, <3>5, <5>1 DEF RequestsInv
        <5> QED
          BY <3>5, <5>1, <5>2
      <4>2. ASSUME NEW k \in Service, pending'[k] # NoRequest PROVE OpenFor(pending[k], k)'
        <5>1. k # s /\ OpenFor(pending[k], k) /\ pending'[k] = pending[k]
          BY <1>1, <3>6, <4>2 DEF RequestsInv
        <5>2. pending[k] # r
          BY <3>2, <3>3, <5>1 DEF OpenFor
        <5> QED
          BY <3>8, <5>1, <5>2 DEF OpenFor
      <4>3. ASSUME NEW k \in Service, Saving(k)'
            PROVE  OpenFor(taken[k], k)' /\ taken'[k] # pending'[k]
        <5>1. Saving(k) /\ taken'[k] = taken[k] /\ OpenFor(taken[k], k) /\ taken[k] # pending[k]
          BY <1>1, <2>1, <2>2, <4>3 DEF RequestsInv
        <5>2. k # s
          BY <2>1, <5>1 DEF Saving
        <5>3. taken[k] # r
          BY <3>2, <3>3, <5>1, <5>2 DEF OpenFor
        <5> QED
          BY <3>6, <3>8, <5>1, <5>2, <5>3 DEF OpenFor
      <4> QED
        BY <4>1, <4>2, <4>3 DEF RequestsInv
\* Every program that has ended has no open request: there is none to drop.
    <3>10. LifeInv'
      <4>1. program # "ended"
        BY <1>1, <3>2 DEF LifeInv, OpenFor, Outstanding
      <4>2. program \in {"running", "closing"}
        BY <2>3, <4>1
      <4>3. server # "ready" => worker'["full"] = "absent"
        <5>1. "full" \in Service
          BY DEF Service
        <5> QED
          BY <1>1, <2>2, <5>1 DEF LifeInv
      <4> QED
        BY <1>1, <2>1, <2>3, <2>4, <4>2, <4>3 DEF LifeInv
    <3>11. DiskInv' /\ DaemonInv'
      <4>1. Told' <=> Told
        BY <2>1, <3>5 DEF Told
      <4> QED
        BY <1>1, <2>1, <4>1 DEF DiskInv, DaemonInv, Agrees, DiskHolds
    <3> QED
      BY <3>7, <3>9, <3>10, <3>11 DEF SettingsInv
  <2> QED
    BY <1>10, <2>5, <2>6 DEF LookAtClosed
<1> QED
  BY <1>3, <1>4, <1>5, <1>6, <1>7, <1>8, <1>10 DEF ServiceStep

\* What the queue of requests asks of a step that submits none.
LEMMA QueueStays ==
  ASSUME SettingsInv, QueueInv, DOMAIN saves' = DOMAIN saves,
         \A r \in DOMAIN saves :
            /\ saves'[r].late = saves[r].late
            /\ saves'[r].outcome = "dropped" => saves[r].outcome = "dropped" \/ saves[r].late,
         \A s \in Service :
            /\ pending'[s] = pending[s] \/ pending'[s] = NoRequest
            /\ worker'[s] = "idle" => worker[s] = "idle" \/ pending'[s] = NoRequest,
         server = "ready" => server' = "ready" \/ \A s \in Service : pending'[s] = NoRequest
  PROVE  QueueInv'
<1>1. "full" \in Service /\ Current \in Service /\ Current' \in Service
  BY DEF Current, Service
<1>2. \A s \in Service : pending[s] # NoRequest => pending[s] \in DOMAIN saves
  BY DEF SettingsInv, RequestsInv, OpenFor
<1>3. \A r \in DOMAIN saves' : saves'[r].outcome = "dropped" => saves'[r].late
  BY DEF QueueInv
<1>4. \A s \in Service : worker'[s] = "idle" /\ pending'[s] # NoRequest
                             => saves'[pending'[s]].late
  BY <1>2 DEF QueueInv
<1>5. server' # "ready" => pending'["full"] = NoRequest
  BY <1>1 DEF QueueInv
<1>6. pending'[Current'] # NoRequest => pending'[Current'] + 1 \notin DOMAIN saves'
  <2>1. CASE Current' = Current
    BY <1>1, <2>1 DEF QueueInv
  <2>2. CASE Current' # Current
    <3>1. \/ server = "ready" /\ server' # "ready"
          \/ server # "ready" /\ server' = "ready" /\ Current' = "full"
      BY <2>2 DEF Current
    <3> QED
      BY <1>1, <3>1 DEF QueueInv
  <2> QED
    BY <2>1, <2>2
<1> QED
  BY <1>3, <1>4, <1>5, <1>6 DEF QueueInv

\* The answer to a request that a worker has taken, or that a service leaves behind.
LEMMA AnswerKeepsQueue ==
  ASSUME SettingsInv, NEW r \in DOMAIN saves, NEW outcome1 \in Verdicts,
         saves' = Settled(r, outcome1), outcome1 = "dropped" => saves[r].late
  PROVE  /\ DOMAIN saves' = DOMAIN saves
         /\ \A i \in DOMAIN saves :
               /\ saves'[i].late = saves[i].late
               /\ saves'[i].outcome = "dropped" => saves[i].outcome = "dropped" \/ saves[i].late
<1>1. PICK top \in Nat : saves \in [1..top -> Save]
  BY DEF SettingsInv, SettingsTypes
<1>2. r \in 1..top /\ DOMAIN saves = 1..top
  BY <1>1
<1>3. /\ Settled(r, outcome1) \in [1..top -> Save]
      /\ Settled(r, outcome1)[r].late = saves[r].late
      /\ Settled(r, outcome1)[r].outcome = outcome1
      /\ \A i \in 1..top : i # r => Settled(r, outcome1)[i] = saves[i]
  BY <1>1, <1>2, SettledIsSave
<1> QED
  BY <1>2, <1>3

LEMMA QueueKeeps ==
  ASSUME SettingsInv, QueueInv, [SettingsNext]_settingsVars
  PROVE  QueueInv'
<1>1. /\ worker \in [Service -> {"absent", "waiting", "looking", "saving", "idle"}]
      /\ pending \in [Service -> Nat \union {NoRequest}]
      /\ \A s \in Service : Saving(s) => taken[s] \in DOMAIN saves
      /\ \A s \in Service : pending[s] # NoRequest => pending[s] \in DOMAIN saves
  BY DEF SettingsInv, SettingsTypes, RequestsInv, OpenFor
<1>2. ASSUME UNCHANGED <<saves, pending>>, server = "ready" => server' = "ready",
             \A s \in Service : worker'[s] = "idle" => worker[s] = "idle" \/ pending[s] = NoRequest
      PROVE  QueueInv'
  BY <1>2, QueueStays
<1>3. ASSUME LoadNoFile \/ LoadEnds \/ ServerReadsConfig \/ ServerReady PROVE QueueInv'
  <2>1. /\ UNCHANGED <<saves, pending>>
        /\ worker' = worker \/ \E s \in Service : worker' = [worker EXCEPT ![s] = "waiting"]
    BY <1>3 DEF LoadNoFile, LoadEnds, ServerReadsConfig, ServerReady, services, Service
  <2>2. \A s \in Service : worker'[s] = "idle" => worker[s] = "idle"
    BY <1>1, <2>1
  <2>3. server # "ready" \/ server' = server
    BY <1>3 DEF LoadNoFile, LoadEnds, ServerReadsConfig, ServerReady, SettingsInv, LifeInv
  <2> QED
    BY <1>2, <2>1, <2>2, <2>3
<1>4. ASSUME \/ Load \/ UpdateStep \/ Close \/ DrainChecks \/ DrainNotified
             \/ UNCHANGED settingsVars
      PROVE  QueueInv'
  <2>1. UNCHANGED <<saves, pending, worker, server>>
    BY <1>4 DEF Load, UpdateStep, ReadKeys, WriteKey, WriteTemporary, Rename, RestoreKeys,
         Close, DrainChecks, DrainNotified, settingsVars, services
  <2> QED
    BY <1>2, <2>1
<1>5. CASE Crash
  <2>1. PICK top \in Nat : saves \in [1..top -> Save]
    BY DEF SettingsInv, SettingsTypes
  <2>2. \A r \in 1..top : /\ Settled(r, "lost")[r].late = saves[r].late
                          /\ Settled(r, "lost")[r].outcome = "lost"
    BY <2>1, SettledIsSave DEF Verdicts
  <2>3. /\ saves' = [r \in DOMAIN saves |->
                        IF r \in Outstanding THEN Settled(r, "lost")[r] ELSE saves[r]]
        /\ pending' = [s \in Service |-> NoRequest]
    BY <1>5 DEF Crash
  <2>4. /\ DOMAIN saves' = DOMAIN saves
        /\ \A r \in DOMAIN saves :
              /\ saves'[r].late = saves[r].late
              /\ saves'[r].outcome = "dropped" => saves[r].outcome = "dropped"
    BY <2>1, <2>2, <2>3
  <2> QED
    BY <2>3, <2>4, QueueStays
<1>6. ASSUME NEW s \in Service, Wake(s) \/ LockEngine(s) PROVE QueueInv'
  <2>1. /\ UNCHANGED <<saves, pending, server>>
        /\ worker' = worker \/ worker' = [worker EXCEPT ![s] = "looking"]
    BY <1>6 DEF Wake, LockEngine, services
  <2> QED
    BY <1>1, <1>2, <2>1
<1>7. ASSUME NEW s \in Service, TakeRequest(s) PROVE QueueInv'
  <2>1. UNCHANGED <<saves, server>>
    BY <1>7 DEF TakeRequest
  <2>2. CASE pending[s] # NoRequest
    <3>1. /\ worker' = [worker EXCEPT ![s] = "saving"]
          /\ pending' = [pending EXCEPT ![s] = NoRequest]
      BY <1>7, <2>2 DEF TakeRequest
    <3>2. \A k \in Service : /\ pending'[k] = pending[k] \/ pending'[k] = NoRequest
                             /\ worker'[k] = "idle" => worker[k] = "idle"
      BY <1>1, <3>1
    <3> QED
      BY <2>1, <3>2, QueueStays
  <2>3. CASE pending[s] = NoRequest
    <3>1. worker' = [worker EXCEPT ![s] = "idle"] /\ pending' = pending
      BY <1>7, <2>3 DEF TakeRequest
    <3> QED
      BY <1>1, <1>2, <2>1, <2>3, <3>1
  <2> QED
    BY <2>2, <2>3
<1>8. ASSUME NEW s \in Service, LookAtClosed(s) PROVE QueueInv'
  <2>1. /\ worker[s] = "idle" /\ server' = server
        /\ worker' = [worker EXCEPT ![s] = IF s \in closed THEN "absent" ELSE "waiting"]
    BY <1>8 DEF LookAtClosed
  <2>2. \A k \in Service : worker'[k] = "idle" => worker[k] = "idle"
    BY <1>1, <2>1
  <2>3. CASE UNCHANGED <<saves, pending>>
    BY <1>2, <2>1, <2>2, <2>3
  <2>4. CASE /\ pending[s] # NoRequest /\ saves' = Settled(pending[s], "dropped")
             /\ pending' = [pending EXCEPT ![s] = NoRequest]
    <3>1. saves[pending[s]].late /\ pending[s] \in DOMAIN saves
      BY <1>1, <2>1, <2>4 DEF QueueInv
    <3>2. /\ DOMAIN saves' = DOMAIN saves
          /\ \A i \in DOMAIN saves :
                /\ saves'[i].late = saves[i].late
                /\ saves'[i].outcome = "dropped" => saves[i].outcome = "dropped" \/ saves[i].late
      BY <2>4, <3>1, AnswerKeepsQueue DEF Verdicts
    <3>3. \A k \in Service : pending'[k] = pending[k] \/ pending'[k] = NoRequest
      BY <1>1, <2>4
    <3> QED
      BY <2>1, <2>2, <3>2, <3>3, QueueStays
  <2> QED
    BY <1>8, <2>3, <2>4 DEF LookAtClosed
<1>9. ASSUME NEW s \in Service, CommitSave(s) \/ SaveFails(s) \/ TellDaemon(s) PROVE QueueInv'
  <2>1. Saving(s) /\ UNCHANGED <<server, pending>>
    BY <1>9 DEF CommitSave, SaveFails, TellDaemon
  <2>2. \/ UNCHANGED <<saves, worker>>
        \/ \E outcome1 \in {"saved", "failed"} : Finish(s, outcome1)
    BY <1>9 DEF CommitSave, SaveFails, TellDaemon
  <2>3. CASE UNCHANGED <<saves, worker>>
    BY <1>2, <2>1, <2>3
  <2>4. CASE \E outcome1 \in {"saved", "failed"} : Finish(s, outcome1)
    <3>1. PICK outcome1 \in {"saved", "failed"} : Finish(s, outcome1)
      BY <2>4
    <3>2. saves' = Settled(taken[s], outcome1) /\ worker' = [worker EXCEPT ![s] = "looking"]
      BY <3>1 DEF Finish
    <3>3. /\ DOMAIN saves' = DOMAIN saves
          /\ \A i \in DOMAIN saves :
                /\ saves'[i].late = saves[i].late
                /\ saves'[i].outcome = "dropped" => saves[i].outcome = "dropped" \/ saves[i].late
      BY <1>1, <2>1, <3>2, AnswerKeepsQueue DEF Verdicts
    <3>4. \A k \in Service : worker'[k] = "idle" => worker[k] = "idle"
      BY <1>1, <3>2
    <3> QED
      BY <2>1, <3>3, <3>4, QueueStays
  <2> QED
    BY <2>2, <2>3, <2>4
<1> QED
  BY <1>3, <1>4, <1>5, <1>6, <1>7, <1>8, <1>9, SubmitKeeps DEF SettingsNext, ServiceStep

LEMMA SettingsKeep ==
  ASSUME SettingsInv, QueueInv, [SettingsNext]_settingsVars
  PROVE  SettingsInv'
<1>1. CASE UNCHANGED settingsVars
  <2>1. UNCHANGED <<program, file, store, engine, daemon, server, saves, pending, worker,
                    taken, update, drain, torn>>
    BY <1>1 DEF settingsVars, disk, services
  <2>2. SettingsTypes' /\ RequestsInv'
    BY <2>1 DEF SettingsInv, SettingsTypes, RequestsInv, OpenFor, Saving
  <2>3. LifeInv'
    BY <2>1 DEF SettingsInv, LifeInv, Saving, Outstanding
  <2>4. DiskInv' /\ DaemonInv'
    BY <2>1 DEF SettingsInv, DiskInv, DaemonInv, Told, Agrees, DiskHolds
  <2> QED
    BY <2>2, <2>3, <2>4 DEF SettingsInv
<1> QED
  BY <1>1, StartKeeps, UpdateKeeps, SubmitKeeps, ServiceKeeps, CloseKeeps DEF SettingsNext

LEMMA SettingsSafe ==
  ASSUME SettingsInv, QueueInv
  PROVE  SettingsAreKept
<1>1. SettingsTypes /\ RequestsInv /\ LifeInv /\ DiskInv /\ DaemonInv
  BY DEF SettingsInv
<1>2. update.stage = "idle" => update = Idle
  BY <1>1 DEF SettingsTypes, Update, WriteStages, Account
<1>3. ASSUME update = Idle, engine # NoConfig, "disk" \notin torn
      PROVE  DiskHolds(engine) \/ Untouched
  BY <1>1, <1>3 DEF DiskInv, Agrees, DiskHolds, Untouched
<1>4. SavedSettingsAgree
  BY <1>1, <1>2, <1>3 DEF SavedSettingsAgree, Quiet, DaemonInv, Told
<1>5. program = "ended" => update.stage = "idle"
  BY <1>1 DEF LifeInv, Idle
<1>6. DrainedMeansDone
  BY <1>1, <1>5 DEF DrainedMeansDone, LifeInv, RequestsInv, QueueInv, Outstanding
<1> QED
  BY <1>4, <1>6 DEF SettingsAreKept

-----------------------------------------------------------------------------
(***************************************************************************)
(* The switch for dumps.  The number of changes is raised after the switch *)
(* is stored, and read before it, so that what is written for a number is  *)
(* the switch of that number or of a later one.                            *)
(***************************************************************************)
KeeperSteps == {"open", "compare", "take", "loop", "number", "write", "replace", "end"}

SwitchTypes ==
    /\ switch \in [on : BOOLEAN, changes : Nat, changing : BOOLEAN, closing : BOOLEAN]
    /\ keeper \in [step : KeeperSteps, read : BOOLEAN, change : Nat, saved : Nat,
                   closing : BOOLEAN, flushed : BOOLEAN, failed : BOOLEAN]
    /\ switchFile \in BOOLEAN

\* What is known of the numbers at each step.
NumbersInv ==
    /\ keeper.saved <= switch.changes /\ keeper.change <= switch.changes
    /\ keeper.step \in {"open", "compare", "take"} => keeper.saved = 0
    /\ keeper.step = "replace" /\ keeper.change = switch.changes /\ ~switch.changing
          => keeper.read = switch.on

\* The file holds the switch whose number is saved.
FileInv ==
    keeper.saved = switch.changes /\ switch.changes > 0 /\ ~switch.changing
        => switchFile = switch.on

\* Nothing changes any more once the thread has seen that the program closes.
ClosingInv ==
    /\ switch.closing => ~switch.changing
    /\ keeper.closing => switch.closing /\ keeper.step \in {"number", "write", "replace", "end", "loop"}
    /\ keeper.closing /\ keeper.step \in {"write", "replace"} => keeper.change = switch.changes
    /\ keeper.closing /\ keeper.step = "end" => keeper.saved = switch.changes \/ keeper.failed
    /\ keeper.flushed => /\ keeper.closing /\ keeper.step = "loop"
                         /\ keeper.saved = switch.changes \/ keeper.failed
    /\ keeper.closing /\ keeper.step = "loop" => keeper.flushed

SwitchInv == SwitchTypes /\ NumbersInv /\ FileInv /\ ClosingInv

LEMMA SwitchStarts ==
  ASSUME SwitchInit
  PROVE  SwitchInv
BY DEF SwitchInit, SwitchInv, SwitchTypes, KeeperSteps, NumbersInv, FileInv, ClosingInv

LEMMA SwitchStep ==
  ASSUME SwitchInv, [SwitchNext]_switchVars
  PROVE  SwitchInv'
<1>1. SwitchTypes /\ NumbersInv /\ FileInv /\ ClosingInv
  BY DEF SwitchInv
<1>2. CASE Choose
  BY <1>1, <1>2 DEF Choose, SwitchInv, SwitchTypes, KeeperSteps, NumbersInv, FileInv, ClosingInv
<1>3. CASE CountChange
  <2>1. PICK x \in Nat :
           /\ x = switch.changes + 1 /\ switch.changes \in Nat
           /\ switch' = [switch EXCEPT !.changing = FALSE, !.changes = x]
           /\ UNCHANGED <<keeper, switchFile>> /\ switch.changing
    <3>1. switch.changes \in Nat
      BY <1>1 DEF SwitchTypes
    <3>2. switch' = [switch EXCEPT !.changing = FALSE, !.changes = switch.changes + 1]
      BY <1>3 DEF CountChange
    <3>3. UNCHANGED <<keeper, switchFile>> /\ switch.changing
      BY <1>3 DEF CountChange
    <3> DEFINE m1 == switch.changes + 1
    <3>4. m1 \in Nat /\ switch' = [switch EXCEPT !.changing = FALSE, !.changes = m1]
      BY <3>1, <3>2
    <3> QED
      BY <3>1, <3>3, <3>4
  <2>2. switch'.changes = switch.changes + 1 /\ ~switch'.changing /\ switch'.closing = switch.closing
    BY <1>1, <2>1 DEF SwitchTypes
  <2>3. SwitchTypes'
    BY <1>1, <2>1 DEF SwitchTypes
  <2>4. keeper.saved \in Nat /\ keeper.change \in Nat
    BY <1>1 DEF SwitchTypes
  <2>5. NumbersInv' /\ FileInv' /\ ClosingInv'
    BY <1>1, <2>1, <2>2, <2>4 DEF NumbersInv, FileInv, ClosingInv
  <2> QED
    BY <2>3, <2>5 DEF SwitchInv
<1>4. CASE Shutdown
  BY <1>1, <1>4 DEF Shutdown, SwitchInv, SwitchTypes, KeeperSteps, NumbersInv, FileInv, ClosingInv
<1>5. CASE OpenFile
  <2>1. PICK r \in BOOLEAN : keeper' = [keeper EXCEPT !.step = "compare", !.read = r]
    BY <1>1, <1>5 DEF OpenFile, Keep, SwitchTypes
  <2>2. keeper.step = "open" /\ UNCHANGED <<switch, switchFile>>
    BY <1>5 DEF OpenFile, Keep
  <2>3. SwitchTypes'
    BY <1>1, <2>1, <2>2 DEF SwitchTypes, KeeperSteps
  <2>4. /\ keeper'.step = "compare" /\ keeper'.saved = keeper.saved
        /\ keeper'.change = keeper.change /\ keeper'.closing = keeper.closing
        /\ keeper'.flushed = keeper.flushed
    BY <1>1, <2>1 DEF SwitchTypes
  <2>5. NumbersInv' /\ FileInv' /\ ClosingInv'
    BY <1>1, <2>2, <2>4 DEF NumbersInv, FileInv, ClosingInv
  <2> QED
    BY <2>3, <2>5 DEF SwitchInv
<1>6. CASE Compare
  BY <1>1, <1>6 DEF Compare, Keep, SwitchInv, SwitchTypes, KeeperSteps, NumbersInv, FileInv, ClosingInv
<1>7. CASE TakeSwitch
  BY <1>1, <1>7 DEF TakeSwitch, SwitchInv, SwitchTypes, KeeperSteps, NumbersInv, FileInv, ClosingInv
<1>8. CASE Turn
  BY <1>1, <1>8 DEF Turn, Keep, SwitchInv, SwitchTypes, KeeperSteps, NumbersInv, FileInv, ClosingInv
<1>9. CASE NumberRead
  <2>1. PICK s \in {"write", "end"} :
           /\ keeper' = [keeper EXCEPT !.change = switch.changes, !.step = s]
           /\ keeper.closing /\ s = "end" => keeper.saved = switch.changes
           /\ keeper.step = "number" /\ UNCHANGED <<switch, switchFile>>
    BY <1>9 DEF NumberRead, Keep
  <2>2. SwitchTypes'
    BY <1>1, <2>1 DEF SwitchTypes, KeeperSteps
  <2>3. /\ keeper'.step = s /\ keeper'.change = switch.changes /\ keeper'.saved = keeper.saved
        /\ keeper'.closing = keeper.closing /\ keeper'.flushed = keeper.flushed
    BY <1>1, <2>1 DEF SwitchTypes
  <2>4. NumbersInv' /\ FileInv' /\ ClosingInv'
    BY <1>1, <2>1, <2>3 DEF SwitchTypes, NumbersInv, FileInv, ClosingInv
  <2> QED
    BY <2>2, <2>4 DEF SwitchInv
<1>10. CASE WriteSwitch
  BY <1>1, <1>10 DEF WriteSwitch, Keep, SwitchInv, SwitchTypes, KeeperSteps, NumbersInv, FileInv, ClosingInv
<1>11. CASE ReplaceFile
  <2>1. keeper.step = "replace" /\ switch' = switch
    BY <1>11 DEF ReplaceFile
  <2>2. CASE /\ switchFile' = keeper.read
             /\ keeper' = [keeper EXCEPT !.step = "end", !.saved = keeper.change,
                                         !.failed = FALSE]
    <3>1. SwitchTypes'
      BY <1>1, <2>1, <2>2 DEF SwitchTypes, KeeperSteps
    <3>2. /\ keeper'.step = "end" /\ keeper'.saved = keeper.change
          /\ keeper'.change = keeper.change /\ keeper'.read = keeper.read
          /\ keeper'.closing = keeper.closing /\ keeper'.flushed = keeper.flushed
      BY <1>1, <2>2 DEF SwitchTypes
    <3>3. NumbersInv' /\ FileInv' /\ ClosingInv'
      BY <1>1, <2>1, <2>2, <3>2 DEF SwitchTypes, NumbersInv, FileInv, ClosingInv
    <3> QED
      BY <3>1, <3>3 DEF SwitchInv
  <2>3. CASE /\ keeper' = [keeper EXCEPT !.step = "end", !.failed = TRUE]
             /\ switchFile' = switchFile
    <3>1. SwitchTypes'
      BY <1>1, <2>1, <2>3 DEF SwitchTypes, KeeperSteps
    <3>2. /\ keeper'.step = "end" /\ keeper'.saved = keeper.saved
          /\ keeper'.change = keeper.change /\ keeper'.read = keeper.read /\ keeper'.failed
          /\ keeper'.closing = keeper.closing /\ keeper'.flushed = keeper.flushed
      BY <1>1, <2>3 DEF SwitchTypes
    <3>3. NumbersInv' /\ FileInv' /\ ClosingInv'
      BY <1>1, <2>1, <2>3, <3>2 DEF SwitchTypes, NumbersInv, FileInv, ClosingInv
    <3> QED
      BY <3>1, <3>3 DEF SwitchInv
  <2> QED
    BY <1>11, <2>2, <2>3 DEF ReplaceFile
<1>12. CASE EndTurn
  BY <1>1, <1>12 DEF EndTurn, Keep, SwitchInv, SwitchTypes, KeeperSteps, NumbersInv, FileInv, ClosingInv
<1>13. CASE UNCHANGED switchVars
  BY <1>1, <1>13 DEF switchVars, SwitchInv, SwitchTypes, NumbersInv, FileInv, ClosingInv
<1> QED
  BY <1>2, <1>3, <1>4, <1>5, <1>6, <1>7, <1>8, <1>9, <1>10, <1>11, <1>12, <1>13 DEF SwitchNext

LEMMA SwitchSafe ==
  ASSUME SwitchInv
  PROVE  SwitchIsKept /\ SavedIsWritten
BY DEF SwitchInv, SwitchTypes, NumbersInv, FileInv, ClosingInv, SwitchIsKept, SavedIsWritten

-----------------------------------------------------------------------------
(***************************************************************************)
(* The log.  A file that the writer opens is unknown to the processes that *)
(* prune, until its receipt is marked, and then the writer holds the lock  *)
(* on the receipt, which a pruner would have to take first.                *)
(***************************************************************************)
OpenSteps == {"create", "lock file", "receipt", "lock", "mark"}
LogSteps == OpenSteps \union {"wait", "opened", "prune", "write"}
PruneSteps == {"idle", "list", "next", "lock", "lock file", "receipt"}
LogFile == [exists : BOOLEAN, receipt : {"none", "empty", "marked"},
            fileLock : Pruners \union {Nobody}, lock : Pruners \union {Nobody}]

LogRecord == [step : LogSteps, file : Nat, made : Nat, holds : Nat,
              fallback : BOOLEAN, resting : BOOLEAN]

EventTypes ==
    /\ queued \in Seq({"event", "flush"})
    /\ events \in [submitted : Nat, written : Nat, dropped : Nat,
                   flush : {"no", "asked", "failed", "flushed"}, before : Nat]
LogTypes ==
    /\ log \in LogRecord
    /\ logFiles \in [Ids -> LogFile]
    /\ pruners \in [Pruners -> [step : PruneSteps, left : SUBSET Ids, at : Nat]]

\* The files that a pruner may have seen.
Known(i) == i \in 1..log.made /\ ~(log.step \in OpenSteps /\ i = log.made)

\* The file that is the writer's, from the mark on.
Live == IF log.step = "opened" THEN log.made ELSE log.file

WriterInv ==
    /\ log.made <= MaxLogs
    /\ log.step \in OpenSteps \union {"opened"} => log.made > 0 /\ log.file = 0
    /\ log.step \in OpenSteps \ {"create"} => logFiles[log.made].exists
    /\ log.step = "mark" => logFiles[log.made].lock = Writer
    /\ log.step \in {"prune", "write"} => log.file # 0
    /\ Live # 0 => /\ Live = log.made /\ logFiles[Live].exists
                   /\ logFiles[Live].receipt = "marked" /\ logFiles[Live].lock = Writer

MarkedInv == \A i \in Ids : logFiles[i].receipt = "marked" => Known(i)

PrunerInv(p) ==
    /\ \A i \in pruners[p].left : Known(i)
    /\ pruners[p].step \in {"lock", "lock file", "receipt"} => Known(pruners[p].at)
    /\ pruners[p].step \in {"lock file", "receipt"} =>
          logFiles[pruners[p].at].lock = p /\ pruners[p].at # Live
    /\ p = Writer /\ pruners[p] # NotPruning => log.step = "prune"

FilesInv == WriterInv /\ MarkedInv /\ \A p \in Pruners : PrunerInv(p)

\* Every event is somewhere, and those before a request to flush are before it.
InHand == IF log.step = "wait" THEN 0 ELSE 1
FlushAt(k) == k \in DOMAIN queued /\ \A i \in DOMAIN queued : queued[i] = "flush" <=> i = k
EventsInv ==
    /\ events.flush # "asked" =>
          /\ \A i \in DOMAIN queued : queued[i] = "event"
          /\ events.submitted = events.written + events.dropped + Len(queued) + InHand
    /\ events.flush = "asked" =>
          /\ \E k \in DOMAIN queued :
                /\ FlushAt(k)
                /\ events.before <= events.written + events.dropped + (k - 1) + InHand
          /\ events.submitted = events.written + events.dropped + (Len(queued) - 1) + InHand
    /\ FlushedIsWritten

LogInv == EventTypes /\ LogTypes /\ FilesInv /\ EventsInv

LEMMA LogStarts ==
  ASSUME LogInit
  PROVE  LogInv
<1>1. EventTypes /\ LogTypes
  BY LogAssumption DEF LogInit, EventTypes, LogTypes, LogRecord, LogSteps, OpenSteps, PruneSteps, LogFile, NoLog,
     NotPruning, Pruners
<1>2. /\ log.step = "wait" /\ log.file = 0 /\ log.made = 0 /\ Live = 0
      /\ \A i \in Ids : logFiles[i].receipt # "marked"
      /\ \A p \in Pruners : pruners[p] = NotPruning
  BY DEF LogInit, Live, NoLog
<1>4. WriterInv /\ MarkedInv
  BY <1>2, LogAssumption DEF WriterInv, MarkedInv, OpenSteps
<1>5. ASSUME NEW p \in Pruners PROVE PrunerInv(p)
  <2>1. NotPruning.step = "idle" /\ NotPruning.left = {}
    BY DEF NotPruning
  <2> QED
    BY <1>2, <2>1 DEF PrunerInv
<1>3. EventsInv
  BY DEF LogInit, EventsInv, FlushAt, InHand, FlushedIsWritten
<1> QED
  BY <1>1, <1>3, <1>4, <1>5 DEF LogInv, FilesInv

-----------------------------------------------------------------------------
(***************************************************************************)
(* The files.                                                              *)
(***************************************************************************)

\* A pruner that goes on, and the file it is at.
LEMMA PruneStep ==
  ASSUME LogTypes, FilesInv, NEW p \in Pruners,
         \/ StartPruning(p) \/ ListFiles(p) \/ NextOld(p)
         \/ LockReceipt(p) \/ RemoveFile(p) \/ RemoveReceipt(p)
  PROVE  /\ logFiles' \in [Ids -> LogFile]
         /\ pruners' \in [Pruners -> [step : PruneSteps, left : SUBSET Ids, at : Nat]]
         /\ FilesInv'
<1> DEFINE Record == [step : PruneSteps, left : SUBSET Ids, at : Nat]
<1>1. /\ logFiles \in [Ids -> LogFile] /\ pruners \in [Pruners -> Record]
      /\ log.made \in Nat /\ MaxLogs \in Nat /\ UNCHANGED log
  BY LogAssumption DEF LogTypes, StartPruning, ListFiles, NextOld, LockReceipt, RemoveFile,
     RemoveReceipt, Prunes, LogRecord
<1>2. WriterInv /\ MarkedInv /\ PrunerInv(p)
  BY DEF FilesInv
<1>3. ASSUME NEW i, Known(i) PROVE i \in Ids
  BY <1>1, <1>2, <1>3 DEF Known, WriterInv, Ids
<1>4. \A i : Known(i)' <=> Known(i)
  BY <1>1 DEF Known
<1>5. Live' = Live
  BY <1>1 DEF Live
\* What its step does to the one file it has the lock of, and what it notes.
<1>6. ASSUME NEW r \in Record, pruners' = [pruners EXCEPT ![p] = r],
             \A i \in r.left : Known(i),
             r.step \in {"lock", "lock file", "receipt"} => Known(r.at),
             r.step \in {"lock file", "receipt"} => logFiles'[r.at].lock = p /\ r.at # Live,
             p = Writer /\ r # NotPruning => log.step = "prune",
             logFiles' \in [Ids -> LogFile],
             \A i \in Ids :
                \/ logFiles'[i] = logFiles[i]
                \/ /\ i # Live /\ Known(i) /\ logFiles[i].lock \in {p, Nobody}
                   /\ logFiles'[i].receipt = "marked" => logFiles[i].receipt = "marked"
      PROVE  /\ logFiles' \in [Ids -> LogFile] /\ pruners' \in [Pruners -> Record]
             /\ FilesInv'
  <2>1. pruners' \in [Pruners -> Record] /\ pruners'[p] = r
    BY <1>1, <1>6
  <2>2. MarkedInv'
    BY <1>2, <1>4, <1>6 DEF MarkedInv
  <2>3. log.step \in OpenSteps \union {"opened"} \/ log.file # 0 => log.made \in Ids
    <3>1. log.file \in Nat
      BY DEF LogTypes, LogRecord
    <3>2. log.step \in OpenSteps \union {"opened"} => log.made > 0
      BY <1>2 DEF WriterInv
    <3>3. log.file # 0 /\ log.step # "opened" => log.file = log.made
      BY <1>2 DEF WriterInv, Live
    <3>4. log.step = "opened" => log.file = 0
      BY <1>2 DEF WriterInv
    <3>5. log.made <= MaxLogs
      BY <1>2 DEF WriterInv
    <3> QED
      BY <1>1, <3>1, <3>2, <3>3, <3>4, <3>5 DEF Ids
  <2>4. log.step \in OpenSteps => logFiles'[log.made] = logFiles[log.made]
    BY <1>6, <2>3 DEF Known
  <2>5. Live # 0 => Live \in Ids /\ logFiles'[Live] = logFiles[Live]
    BY <1>2, <1>6, <2>3 DEF WriterInv, Live
  <2>9. \A i : log.step \in OpenSteps /\ i = log.made => logFiles'[i] = logFiles[i]
    BY <2>4
  <2>6. WriterInv'
    BY <1>1, <1>2, <1>5, <2>5, <2>9 DEF WriterInv, OpenSteps
  <2>7. PrunerInv(p)'
    BY <1>1, <1>4, <1>5, <1>6, <2>1 DEF PrunerInv
  <2>8. ASSUME NEW q \in Pruners \ {p} PROVE PrunerInv(q)'
    <3>1. pruners'[q] = pruners[q] /\ PrunerInv(q)
      BY <1>1, <1>6 DEF FilesInv
    <3>2. q # Nobody
      BY LogAssumption DEF Pruners, Writer, Nobody
    <3>3. pruners[q].step \in {"lock file", "receipt"} =>
             /\ pruners[q].at \in Ids
             /\ logFiles'[pruners[q].at] = logFiles[pruners[q].at]
      BY <1>3, <1>6, <3>1, <3>2 DEF PrunerInv
    <3> QED
      BY <1>1, <1>4, <1>5, <3>1, <3>3 DEF PrunerInv
  <2> QED
    BY <1>6, <2>1, <2>2, <2>6, <2>7, <2>8 DEF FilesInv
<1>7. pruners[p] \in Record /\ NotPruning \in Record
  BY <1>1 DEF NotPruning, PruneSteps
<1>8. CASE StartPruning(p)
  <2> DEFINE r == [NotPruning EXCEPT !.step = "list"]
  <2>1. /\ r \in Record /\ r.left = {} /\ r.step = "list"
        /\ pruners' = [pruners EXCEPT ![p] = r] /\ UNCHANGED logFiles
    BY <1>8 DEF StartPruning, Prunes, NotPruning, PruneSteps
  <2>2. p # Writer
    BY <1>8, LogAssumption DEF StartPruning
  <2> HIDE DEF r
  <2> QED
    BY <1>1, <1>6, <2>1, <2>2
<1>9. CASE ListFiles(p)
  <2>1. PICK old \in SUBSET {i \in Ids : logFiles[i].exists /\ logFiles[i].receipt = "marked"} :
           pruners' = [pruners EXCEPT ![p] = [step |-> "next", left |-> old, at |-> 0]]
    BY <1>9 DEF ListFiles, Prunes
  <2> DEFINE r == [step |-> "next", left |-> old, at |-> 0]
  <2>2. r \in Record /\ r.left = old /\ r.step = "next"
    BY DEF PruneSteps
  <2>3. \A i \in old : Known(i)
    BY <1>2 DEF MarkedInv
  <2>4. p = Writer => log.step = "prune"
    BY <1>2, <1>9 DEF PrunerInv, ListFiles, NotPruning
  <2>5. UNCHANGED logFiles /\ pruners' = [pruners EXCEPT ![p] = r]
    BY <1>9, <2>1 DEF ListFiles
  <2> HIDE DEF r
  <2> QED
    BY <1>1, <1>6, <2>2, <2>3, <2>4, <2>5
<1>10. CASE NextOld(p)
  <2>1. UNCHANGED logFiles /\ (p = Writer => log.step = "prune")
    BY <1>2, <1>10 DEF NextOld, PrunerInv, NotPruning
  <2>2. CASE pruners' = [pruners EXCEPT ![p] = NotPruning]
    <3>1. NotPruning.left = {} /\ NotPruning.step = "idle"
      BY DEF NotPruning
    <3> QED
      BY <1>1, <1>6, <1>7, <2>1, <2>2, <3>1
  <2>3. CASE \E i \in pruners[p].left, s \in {"next", "lock"} :
                pruners' = [pruners EXCEPT ![p] =
                               [step |-> s, left |-> pruners[p].left \ {i}, at |-> i]]
    <3>1. PICK i \in pruners[p].left, s \in {"next", "lock"} :
                pruners' = [pruners EXCEPT ![p] =
                               [step |-> s, left |-> pruners[p].left \ {i}, at |-> i]]
      BY <2>3
    <3> DEFINE r == [step |-> s, left |-> pruners[p].left \ {i}, at |-> i]
    <3>6. Known(i)
      BY <1>2 DEF PrunerInv
    <3>7. i \in Ids
      BY <1>3, <3>6
    <3>2. i \in Ids /\ Known(i) /\ i \in Nat
      BY <3>6, <3>7 DEF Ids
    <3>3. r \in Record /\ r.left = pruners[p].left \ {i} /\ r.step = s /\ r.at = i
      BY <1>7, <3>2 DEF PruneSteps
    <3>4. \A k \in pruners[p].left : Known(k)
      BY <1>2 DEF PrunerInv
    <3>5. pruners' = [pruners EXCEPT ![p] = r]
      BY <3>1
    <3> HIDE DEF r
    <3> QED
      BY <1>1, <1>6, <2>1, <3>2, <3>3, <3>4, <3>5
  <2> QED
    BY <1>10, <2>2, <2>3 DEF NextOld, Prunes
<1> DEFINE at == pruners[p].at
<1>11. ASSUME pruners[p].step \in {"lock", "lock file", "receipt"}
       PROVE  /\ Known(at) /\ at \in Ids /\ (p = Writer => log.step = "prune")
              /\ \A k \in pruners[p].left : Known(k)
  <2>2. NotPruning.step = "idle"
    BY DEF NotPruning
  <2>1. pruners[p] # NotPruning
    BY <1>11, <2>2
  <2> QED
    BY <1>2, <1>3, <1>11, <2>1 DEF PrunerInv
\* It goes to the step s with its file as `f`.
<1>12. ASSUME NEW s \in {"next", "lock file", "receipt"}, NEW f \in LogFile,
              pruners[p].step \in {"lock", "lock file", "receipt"},
              pruners' = [pruners EXCEPT ![p] = [pruners[p] EXCEPT !.step = s]],
              logFiles' = [logFiles EXCEPT ![at] = f],
              f = logFiles[at] \/ (at # Live /\ logFiles[at].lock \in {p, Nobody}),
              f.receipt = "marked" => logFiles[at].receipt = "marked",
              s \in {"lock file", "receipt"} => f.lock = p /\ at # Live
       PROVE  /\ logFiles' \in [Ids -> LogFile] /\ pruners' \in [Pruners -> Record]
              /\ FilesInv'
  <2> DEFINE r == [pruners[p] EXCEPT !.step = s]
  <2>1. r \in Record /\ r.left = pruners[p].left /\ r.step = s /\ r.at = at
    BY <1>7 DEF PruneSteps
  <2>2. Known(at) /\ at \in Ids /\ (p = Writer => log.step = "prune")
        /\ \A k \in pruners[p].left : Known(k)
    BY <1>11, <1>12
  <2>3. logFiles' \in [Ids -> LogFile] /\ logFiles'[at] = f
        /\ \A i \in Ids \ {at} : logFiles'[i] = logFiles[i]
    BY <1>1, <1>12, <2>2
  <2>4. pruners' = [pruners EXCEPT ![p] = r]
    BY <1>12
  <2> HIDE DEF r, at
  <2>5. \A i \in Ids :
           \/ logFiles'[i] = logFiles[i]
           \/ /\ i # Live /\ Known(i) /\ logFiles[i].lock \in {p, Nobody}
              /\ logFiles'[i].receipt = "marked" => logFiles[i].receipt = "marked"
    <3>1. \/ logFiles'[at] = logFiles[at]
          \/ /\ at # Live /\ Known(at) /\ logFiles[at].lock \in {p, Nobody}
             /\ logFiles'[at].receipt = "marked" => logFiles[at].receipt = "marked"
      BY <1>12, <2>2, <2>3
    <3> QED
      BY <2>3, <3>1
  <2>6. r.step \in {"lock file", "receipt"} => logFiles'[r.at].lock = p /\ r.at # Live
    BY <1>12, <2>1, <2>3
  <2>7. /\ \A i \in r.left : Known(i)
        /\ r.step \in {"lock", "lock file", "receipt"} => Known(r.at)
        /\ p = Writer /\ r # NotPruning => log.step = "prune"
        /\ r \in Record
    BY <2>1, <2>2
  <2> QED
    BY <1>6, <2>3, <2>4, <2>5, <2>6, <2>7
<1>13. CASE LockReceipt(p)
  <2>1. at \in Ids /\ logFiles[at] \in LogFile /\ pruners[p].step = "lock"
    BY <1>1, <1>11, <1>13 DEF LockReceipt
  <2>2. CASE logFiles[at].lock = Nobody
    <3>1. logFiles' = [logFiles EXCEPT ![at] = [logFiles[at] EXCEPT !.lock = p]]
      BY <1>1, <1>13, <2>1, <2>2 DEF LockReceipt
    <3>2. pruners' = [pruners EXCEPT ![p] = [pruners[p] EXCEPT !.step = "lock file"]]
      BY <1>13, <2>2 DEF LockReceipt, Prunes
    <3>3. at # Live
      BY <1>2, <2>1, <2>2, LogAssumption DEF WriterInv, Writer, Nobody, Ids
    <3> DEFINE f == [logFiles[at] EXCEPT !.lock = p]
    <3>4. f \in LogFile /\ f.receipt = logFiles[at].receipt /\ f.lock = p
      BY <2>1 DEF LogFile
    <3> HIDE DEF f, at
    <3> QED
      BY <1>12, <2>1, <2>2, <3>1, <3>2, <3>3, <3>4 DEF f
  <2>3. CASE logFiles[at].lock # Nobody
    <3>1. logFiles' = [logFiles EXCEPT ![at] = logFiles[at]]
      BY <1>1, <1>13, <2>3 DEF LockReceipt
    <3>2. pruners' = [pruners EXCEPT ![p] = [pruners[p] EXCEPT !.step = "next"]]
      BY <1>13, <2>3 DEF LockReceipt, Prunes
    <3> HIDE DEF at
    <3> QED
      BY <1>12, <2>1, <3>1, <3>2
  <2> QED
    BY <2>2, <2>3
<1>14. CASE RemoveFile(p)
  <2>1. /\ at \in Ids /\ logFiles[at] \in LogFile /\ pruners[p].step = "lock file"
        /\ logFiles[at].lock = p /\ at # Live
    BY <1>1, <1>2, <1>11, <1>14 DEF RemoveFile, PrunerInv
  <2>2. CASE logFiles[at].exists /\ logFiles[at].fileLock = Nobody
    <3>1. logFiles' = [logFiles EXCEPT ![at] = [logFiles[at] EXCEPT !.exists = FALSE]]
      BY <1>1, <1>14, <2>1, <2>2 DEF RemoveFile
    <3>2. pruners' = [pruners EXCEPT ![p] = [pruners[p] EXCEPT !.step = "receipt"]]
      BY <1>14, <2>2 DEF RemoveFile, Prunes
    <3> DEFINE f == [logFiles[at] EXCEPT !.exists = FALSE]
    <3>3. f \in LogFile /\ f.receipt = logFiles[at].receipt /\ f.lock = p
      BY <2>1 DEF LogFile
    <3> HIDE DEF f, at
    <3> QED
      BY <1>12, <2>1, <3>1, <3>2, <3>3 DEF f
  <2>3. CASE ~(logFiles[at].exists /\ logFiles[at].fileLock = Nobody)
    <3>1. logFiles' = [logFiles EXCEPT ![at] = [logFiles[at] EXCEPT !.lock = Nobody]]
      BY <1>1, <1>14, <2>1, <2>3 DEF RemoveFile
    <3>2. pruners' = [pruners EXCEPT ![p] = [pruners[p] EXCEPT !.step = "next"]]
      BY <1>14, <2>3 DEF RemoveFile, Prunes
    <3> DEFINE f == [logFiles[at] EXCEPT !.lock = Nobody]
    <3>3. f \in LogFile /\ f.receipt = logFiles[at].receipt
      BY <2>1 DEF LogFile
    <3> HIDE DEF f, at
    <3> QED
      BY <1>12, <2>1, <3>1, <3>2, <3>3 DEF f
  <2> QED
    BY <2>2, <2>3
<1>15. CASE RemoveReceipt(p)
  <2>1. /\ at \in Ids /\ logFiles[at] \in LogFile /\ pruners[p].step = "receipt"
        /\ logFiles[at].lock = p /\ at # Live
    BY <1>1, <1>2, <1>11, <1>15 DEF RemoveReceipt, PrunerInv
  <2>2. NoLog \in LogFile /\ NoLog.receipt # "marked"
    BY DEF NoLog, LogFile
  <2>3. /\ logFiles' = [logFiles EXCEPT ![at] = NoLog]
        /\ pruners' = [pruners EXCEPT ![p] = [pruners[p] EXCEPT !.step = "next"]]
    BY <1>15 DEF RemoveReceipt, Prunes
  <2> HIDE DEF at
  <2> QED
    BY <1>12, <2>1, <2>2, <2>3
<1> QED
  BY <1>8, <1>9, <1>10, <1>13, <1>14, <1>15

\* What the writer does disturbs no process that prunes.
LEMMA PrunersStay ==
  ASSUME LogTypes, FilesInv, UNCHANGED pruners,
         \A i \in Ids : Known(i) => Known(i)',
         \A i \in Ids : Known(i) =>
            logFiles'[i].lock = logFiles[i].lock \/ logFiles[i].lock = Writer,
         Live' = Live \/ Live' = 0 \/ ~Known(Live'),
         log.step = "prune" /\ pruners[Writer] # NotPruning =>
            log'.step = "prune" /\ UNCHANGED logFiles
  PROVE  \A p \in Pruners : PrunerInv(p)'
<1> SUFFICES ASSUME NEW p \in Pruners PROVE PrunerInv(p)'
  OBVIOUS
<1>1. PrunerInv(p) /\ log.made \in Nat /\ MaxLogs \in Nat /\ log.made <= MaxLogs
  BY LogAssumption DEF FilesInv, WriterInv, LogTypes, LogRecord
<1>2. \A i : Known(i) => i \in Ids /\ i # 0
  BY <1>1 DEF Known, Ids
<1>3. \A i : Known(i) => Known(i)'
  BY <1>2
<1>4. pruners'[p] = pruners[p]
  OBVIOUS
<1>5. /\ \A i \in pruners[p].left : Known(i)'
      /\ pruners[p].step \in {"lock", "lock file", "receipt"} => Known(pruners[p].at)'
  BY <1>1, <1>3, <1>4 DEF PrunerInv
<1>6. p = Writer /\ pruners'[p] # NotPruning => log'.step = "prune"
  BY <1>1, <1>4 DEF PrunerInv
<1>7. ASSUME pruners[p].step \in {"lock file", "receipt"}
      PROVE  logFiles'[pruners[p].at].lock = p /\ pruners[p].at # Live'
  <2>1. /\ Known(pruners[p].at) /\ logFiles[pruners[p].at].lock = p /\ pruners[p].at # Live
    BY <1>1, <1>7 DEF PrunerInv
  <2>2. pruners[p].at # Live'
    BY <1>2, <2>1
  <2>3. CASE p # Writer
    BY <1>2, <2>1, <2>2, <2>3
  <2>4. CASE p = Writer
    <3>1. NotPruning.step = "idle"
      BY DEF NotPruning
    <3>2. pruners[Writer] # NotPruning
      BY <1>7, <2>4, <3>1
    <3>3. logFiles' = logFiles
      BY <1>1, <2>4, <3>2 DEF PrunerInv
    <3> QED
      BY <2>1, <2>2, <3>3
  <2> QED
    BY <2>3, <2>4
<1> QED
  BY <1>4, <1>5, <1>6, <1>7 DEF PrunerInv

\* Nothing of the files is touched by a thread that records, or by a flush.
LEMMA FilesStand ==
  ASSUME LogTypes, FilesInv, UNCHANGED <<log, logFiles, pruners>>
  PROVE  LogTypes' /\ FilesInv'
<1>1. Live' = Live /\ \A i : Known(i)' <=> Known(i)
  BY DEF Live, Known
<1>2. LogTypes'
  BY DEF LogTypes
<1>3. WriterInv'
  BY <1>1 DEF FilesInv, WriterInv
<1>4. MarkedInv'
  BY <1>1 DEF FilesInv, MarkedInv
<1>5. ASSUME NEW p \in Pruners PROVE PrunerInv(p)'
  BY <1>1 DEF FilesInv, PrunerInv
<1> QED
  BY <1>2, <1>3, <1>4, <1>5 DEF FilesInv

\* The writer lets its file go.
LEMMA LetGo ==
  ASSUME LogTypes, NEW i \in Ids
  PROVE  /\ Unlocked(i) \in [Ids -> LogFile]
         /\ \A k \in Ids : /\ Unlocked(i)[k].exists = logFiles[k].exists
                           /\ Unlocked(i)[k].receipt = logFiles[k].receipt
                           /\ k # i => Unlocked(i)[k] = logFiles[k]
<1> DEFINE f == [logFiles[i] EXCEPT !.fileLock = Nobody, !.lock = Nobody]
<1>1. logFiles \in [Ids -> LogFile] /\ logFiles[i] \in LogFile
  BY DEF LogTypes
<1>2. f \in LogFile /\ f.exists = logFiles[i].exists /\ f.receipt = logFiles[i].receipt
  BY <1>1 DEF LogFile
<1>3. Unlocked(i) = [logFiles EXCEPT ![i] = f]
  BY <1>1 DEF Unlocked, LogFile
<1> HIDE DEF f
<1> QED
  BY <1>1, <1>2, <1>3

\* An event in the hand of the writer, and perhaps a new file for it.
LEMMA TakeFiles ==
  ASSUME LogTypes, FilesInv, TakeEvent
  PROVE  LogTypes' /\ FilesInv'
<1>1. /\ log \in LogRecord /\ logFiles \in [Ids -> LogFile] /\ log.step = "wait"
      /\ log.made \in Nat /\ log.file \in Nat /\ MaxLogs \in Nat /\ UNCHANGED pruners
  BY LogAssumption DEF LogTypes, LogRecord, TakeEvent
<1>2. WriterInv /\ MarkedInv
  BY DEF FilesInv
<1>3. Live = log.file
  BY <1>1 DEF Live
<1>4. CASE UNCHANGED <<log, logFiles>>
  BY <1>1, <1>4, FilesStand
<1>5. CASE log' = [log EXCEPT !.step = "write"] /\ UNCHANGED logFiles /\ log.file # 0
  <2>1. /\ log' \in LogRecord /\ log'.step = "write" /\ log'.file = log.file
        /\ log'.made = log.made
    BY <1>1, <1>5 DEF LogRecord, LogSteps
  <2>2. \A i : Known(i)' <=> Known(i)
    BY <1>1, <2>1 DEF Known, OpenSteps
  <2>3. Live' = Live
    BY <1>1, <2>1 DEF Live
  <2>4. WriterInv' /\ MarkedInv'
    BY <1>1, <1>2, <1>3, <1>5, <2>1, <2>2, <2>3 DEF WriterInv, MarkedInv, OpenSteps
  <2>5. \A p \in Pruners : PrunerInv(p)'
    BY <1>1, <1>5, <2>2, <2>3, PrunersStay
  <2> QED
    BY <1>1, <1>5, <2>1, <2>4, <2>5 DEF LogTypes, FilesInv
<1>6. CASE /\ log.made < MaxLogs
           /\ log' = [log EXCEPT !.step = "create", !.file = 0, !.made = @ + 1]
           /\ logFiles' = IF log.file = 0 THEN logFiles ELSE Unlocked(log.file)
  <2>1. PICK next \in Nat : next = log.made + 1
    BY <1>1
  <2>2. log' = [log EXCEPT !.step = "create", !.file = 0, !.made = next]
    BY <1>6, <2>1
  <2>3. /\ log' \in LogRecord /\ log'.step = "create" /\ log'.file = 0
        /\ log'.made = next
    BY <1>1, <2>2 DEF LogRecord, LogSteps, OpenSteps
  <2>4. \A i : Known(i)' <=> Known(i)
    BY <1>1, <2>1, <2>3 DEF Known, OpenSteps
  <2>5. Live' = 0
    BY <2>3 DEF Live
  <2>6. log.file # 0 => log.file \in Ids /\ logFiles[log.file].lock = Writer
    BY <1>1, <1>2, <1>3 DEF WriterInv, Ids
  <2>7. /\ logFiles' \in [Ids -> LogFile]
        /\ \A i \in Ids : /\ logFiles'[i].receipt = logFiles[i].receipt
                          /\ i # log.file => logFiles'[i] = logFiles[i]
    BY <1>1, <1>6, <2>6, LetGo
  <2>8. \A i \in Ids : logFiles'[i].lock = logFiles[i].lock \/ logFiles[i].lock = Writer
    <3> SUFFICES ASSUME NEW i \in Ids
                 PROVE  logFiles'[i].lock = logFiles[i].lock \/ logFiles[i].lock = Writer
      OBVIOUS
    <3>1. CASE i = log.file
      <4>1. i # 0
        BY DEF Ids
      <4> QED
        BY <2>6, <3>1, <4>1
    <3>2. CASE i # log.file
      BY <2>7, <3>2
    <3> QED
      BY <3>1, <3>2
  <2>9. WriterInv' /\ MarkedInv'
    BY <1>1, <1>2, <1>6, <2>1, <2>3, <2>4, <2>5, <2>7 DEF WriterInv, MarkedInv, OpenSteps
  <2>10. \A p \in Pruners : PrunerInv(p)'
    BY <1>1, <2>4, <2>5, <2>8, PrunersStay
  <2> QED
    BY <1>1, <2>3, <2>7, <2>9, <2>10 DEF LogTypes, FilesInv
<1> QED
  BY <1>4, <1>5, <1>6 DEF TakeEvent

\* The steps in which the file is opened.
LEMMA OpenFiles ==
  ASSUME LogTypes, FilesInv, OpenStep \/ OpenFails
  PROVE  LogTypes' /\ FilesInv'
<1>1. /\ log \in LogRecord /\ logFiles \in [Ids -> LogFile] /\ log.step \in OpenSteps
      /\ log.made \in Nat /\ log.file = 0 /\ MaxLogs \in Nat /\ UNCHANGED pruners
      /\ log.made \in Ids /\ log.made # 0
  <2>1. log.step \in OpenSteps
    BY DEF OpenStep, OpenFails, OpenSteps
  <2>2. log.made > 0 /\ log.file = 0 /\ log.made <= MaxLogs
    BY <2>1 DEF FilesInv, WriterInv
  <2>3. log.made \in Nat /\ MaxLogs \in Nat
    BY LogAssumption DEF LogTypes, LogRecord
  <2>4. log.made \in Ids /\ log.made # 0
    BY <2>2, <2>3 DEF Ids
  <2>5. UNCHANGED pruners
    BY DEF OpenStep, OpenFails
  <2> QED
    BY <2>1, <2>2, <2>3, <2>4, <2>5 DEF LogTypes
<1>2. WriterInv /\ MarkedInv
  BY DEF FilesInv
<1>3. ~Known(log.made) /\ \A i : Known(i) <=> i \in 1..log.made /\ i # log.made
  BY <1>1 DEF Known
<1>4. logFiles[log.made] \in LogFile
  BY <1>1
\* A step to s, that makes the file f.
<1>5. ASSUME NEW s \in LogSteps, NEW f \in LogFile,
             logFiles' = [logFiles EXCEPT ![log.made] = f],
             log' \in LogRecord, log'.step = s, log'.file = 0, log'.made = log.made,
             s \in OpenSteps \union {"wait", "opened"},
             s \in OpenSteps \union {"wait"} => f.receipt # "marked",
             s \in OpenSteps \ {"create"} => f.exists,
             s = "mark" => f.lock = Writer,
             s = "opened" => f.exists /\ f.receipt = "marked" /\ f.lock = Writer
      PROVE  LogTypes' /\ FilesInv'
  <2>1. /\ logFiles' \in [Ids -> LogFile] /\ logFiles'[log.made] = f
        /\ \A i \in Ids \ {log.made} : logFiles'[i] = logFiles[i]
    BY <1>1, <1>5
  <2>2. \A i : Known(i) => Known(i)'
    BY <1>1, <1>3, <1>5 DEF Known
  <2>3. Live' = 0 \/ (s = "opened" /\ Live' = log.made)
    BY <1>1, <1>5 DEF Live
  <2>4. Known(log.made)' \/ s \in OpenSteps
    BY <1>1, <1>5 DEF Known
  <2>5. MarkedInv'
    BY <1>2, <1>5, <2>1, <2>2, <2>4 DEF MarkedInv
  <2>6. log'.file = 0 /\ log'.made = log.made /\ log'.step = s
    BY <1>5
  <2>7. WriterInv'
    <3>1. log'.made <= MaxLogs /\ log'.made > 0
      BY <1>1, <1>2, <2>6 DEF WriterInv
    <3>2. s \notin {"prune", "write"}
      BY <1>5 DEF OpenSteps
    <3>3. Live' # 0 => /\ Live' = log'.made /\ logFiles'[log'.made].exists
                       /\ logFiles'[log'.made].receipt = "marked"
                       /\ logFiles'[log'.made].lock = Writer
      BY <1>5, <2>1, <2>3, <2>6
    <3> QED
      BY <1>5, <2>1, <2>6, <3>1, <3>2, <3>3 DEF WriterInv
  <2>8. \A i \in Ids : Known(i) => logFiles'[i].lock = logFiles[i].lock
    BY <1>3, <2>1
  <2>9. log.step # "prune"
    BY <1>1 DEF OpenSteps
  <2>10. Live' = 0 \/ ~Known(Live')
    BY <1>3, <2>3
  <2>11. \A p \in Pruners : PrunerInv(p)'
    BY <1>1, <2>2, <2>8, <2>9, <2>10, PrunersStay
  <2> QED
    BY <1>1, <1>5, <2>1, <2>5, <2>7, <2>11 DEF LogTypes, FilesInv
<1>6. CASE OpenFails
  <2>1. /\ log' \in LogRecord /\ log'.step = "wait" /\ log'.file = 0
        /\ log'.made = log.made
    BY <1>1, <1>6 DEF OpenFails, Failed, LogRecord, LogSteps
  <2>2. NoLog \in LogFile /\ NoLog.receipt # "marked"
    BY DEF NoLog, LogFile
  <2>3. "wait" \in LogSteps /\ "wait" \notin OpenSteps
    BY DEF LogSteps, OpenSteps
  <2>4. logFiles' = [logFiles EXCEPT ![log.made] = NoLog]
    BY <1>6 DEF OpenFails
  <2> QED
    BY <1>5, <2>1, <2>2, <2>3, <2>4
<1>7. CASE OpenStep
  <2>1. logFiles[log.made].receipt # "marked"
    BY <1>1, <1>2, <1>3 DEF MarkedInv
  <2>2. log.step # "create" => logFiles[log.made].exists
    BY <1>1, <1>2 DEF WriterInv
  <2> DEFINE s == IF log.step = "lock file" THEN "receipt" ELSE NextStep[log.step]
  <2>3. log' = [log EXCEPT !.step = s]
    BY <1>1, <1>7 DEF OpenStep, LogRecord
  <2>4. /\ log.step = "create" => s \in {"lock file", "receipt"}
        /\ log.step = "lock file" => s = "receipt"
        /\ log.step = "receipt" => s = "lock"
        /\ log.step = "lock" => s = "mark"
        /\ log.step = "mark" => s = "opened"
    <3>1. /\ NextStep["create"] \in {"lock file", "receipt"} /\ NextStep["receipt"] = "lock"
          /\ NextStep["lock"] = "mark" /\ NextStep["mark"] = "opened"
      BY DEF NextStep
    <3> QED
      BY <3>1
  <2> HIDE DEF s
  <2>5. /\ s \in LogSteps /\ s \in OpenSteps \union {"wait", "opened"}
        /\ s = "mark" <=> log.step = "lock"
        /\ s = "opened" <=> log.step = "mark"
    BY <1>1, <2>4 DEF LogSteps, OpenSteps
  <2>6. /\ log' \in LogRecord /\ log'.step = s /\ log'.file = 0 /\ log'.made = log.made
    BY <1>1, <2>3, <2>5 DEF LogRecord
  <2> DEFINE g == logFiles[log.made]
  <2>7. /\ [g EXCEPT !.exists = TRUE] \in LogFile /\ [g EXCEPT !.fileLock = Writer] \in LogFile
        /\ [g EXCEPT !.receipt = "empty"] \in LogFile /\ [g EXCEPT !.lock = Writer] \in LogFile
        /\ [g EXCEPT !.receipt = "marked"] \in LogFile
    BY <1>4 DEF LogFile, Pruners
  <2>8. logFiles' = Opened(log.made, log.step)
    BY <1>7 DEF OpenStep
  <2>9. PICK f \in LogFile :
           /\ logFiles' = [logFiles EXCEPT ![log.made] = f]
           /\ log.step # "mark" => f.receipt # "marked"
           /\ f.exists
           /\ log.step = "lock" => f.lock = Writer
           /\ log.step = "mark" => f.receipt = "marked" /\ f.lock = g.lock
    <3>1. CASE log.step = "create"
      <4>1. logFiles' = [logFiles EXCEPT ![log.made] = [g EXCEPT !.exists = TRUE]]
        BY <1>1, <2>8, <3>1 DEF Opened
      <4> QED
        BY <1>4, <2>1, <2>7, <3>1, <4>1 DEF LogFile
    <3>2. CASE log.step = "lock file"
      <4>1. logFiles' = [logFiles EXCEPT ![log.made] = [g EXCEPT !.fileLock = Writer]]
        BY <1>1, <2>8, <3>2 DEF Opened
      <4> QED
        BY <1>4, <2>1, <2>2, <2>7, <3>2, <4>1 DEF LogFile
    <3>3. CASE log.step = "receipt"
      <4>1. logFiles' = [logFiles EXCEPT ![log.made] = [g EXCEPT !.receipt = "empty"]]
        BY <1>1, <2>8, <3>3 DEF Opened
      <4> QED
        BY <1>4, <2>1, <2>2, <2>7, <3>3, <4>1 DEF LogFile
    <3>4. CASE log.step = "lock"
      <4>1. logFiles' = [logFiles EXCEPT ![log.made] = [g EXCEPT !.lock = Writer]]
        BY <1>1, <2>8, <3>4 DEF Opened
      <4> QED
        BY <1>4, <2>1, <2>2, <2>7, <3>4, <4>1 DEF LogFile
    <3>5. CASE log.step = "mark"
      <4>1. logFiles' = [logFiles EXCEPT ![log.made] = [g EXCEPT !.receipt = "marked"]]
        BY <1>1, <2>8, <3>5 DEF Opened
      <4> QED
        BY <1>4, <2>1, <2>2, <2>7, <3>5, <4>1 DEF LogFile
    <3> QED
      BY <1>1, <3>1, <3>2, <3>3, <3>4, <3>5 DEF OpenSteps
  <2>10. log.step = "mark" => g.lock = Writer
    BY <1>2 DEF WriterInv
  <2>11. s \in OpenSteps \union {"wait"} => log.step # "mark"
    BY <2>4 DEF OpenSteps
  <2> HIDE DEF g
  <2> QED
    BY <1>5, <2>5, <2>6, <2>9, <2>10, <2>11
<1> QED
  BY <1>6, <1>7

\* The file that is opened, pruned and written.
LEMMA WriteFiles ==
  ASSUME LogTypes, FilesInv, FileOpened \/ Pruned \/ Write \/ RestEnds
  PROVE  LogTypes' /\ FilesInv'
<1>1. /\ log \in LogRecord /\ logFiles \in [Ids -> LogFile]
      /\ log.made \in Nat /\ log.file \in Nat /\ log.holds \in Nat /\ MaxLogs \in Nat
      /\ pruners \in [Pruners -> [step : PruneSteps, left : SUBSET Ids, at : Nat]]
  BY LogAssumption DEF LogTypes, LogRecord
<1>2. WriterInv /\ MarkedInv /\ log.made <= MaxLogs
  BY DEF FilesInv, WriterInv
\* The writer keeps its file, and goes from a step to another.
<1>3. ASSUME NEW s \in LogSteps \ OpenSteps, log' \in LogRecord, log'.step = s,
             log'.made = log.made, log.step \notin OpenSteps, UNCHANGED logFiles,
             Live' = Live, s = "opened" => log.step = "opened" /\ log'.file = 0,
             s \in {"prune", "write"} => log'.file # 0
      PROVE  LogTypes' /\ WriterInv' /\ MarkedInv' /\ \A i : Known(i)' <=> Known(i)
  <2>1. \A i : Known(i)' <=> Known(i)
    BY <1>3 DEF Known
  <2>2. WriterInv'
    <3>1. s = "opened" => log'.made > 0
      BY <1>2, <1>3 DEF WriterInv
    <3>3. Live # 0 => /\ Live = log.made /\ logFiles[Live].exists
                      /\ logFiles[Live].receipt = "marked" /\ logFiles[Live].lock = Writer
      BY <1>2 DEF WriterInv
    <3>4. s # "mark"
      BY <1>3 DEF OpenSteps
    <3> QED
      BY <1>1, <1>2, <1>3, <3>1, <3>3, <3>4 DEF WriterInv
  <2>3. MarkedInv'
    BY <1>2, <1>3, <2>1 DEF MarkedInv
  <2>4. UNCHANGED pruners \/ pruners' \in [Pruners -> [step : PruneSteps, left : SUBSET Ids, at : Nat]]
    <3>1. CASE FileOpened
      <4> DEFINE r == [pruners[Writer] EXCEPT !.step = "list"]
      <4>1. Writer \in Pruners
        BY DEF Pruners
      <4>2. r \in [step : PruneSteps, left : SUBSET Ids, at : Nat]
        BY <1>1, <4>1 DEF PruneSteps
      <4>3. pruners' = [pruners EXCEPT ![Writer] = r]
        BY <1>1, <3>1, <4>1 DEF FileOpened
      <4> HIDE DEF r
      <4> QED
        BY <1>1, <4>2, <4>3
    <3> QED
      BY <3>1 DEF Pruned, Write, RestEnds
  <2> QED
    BY <1>1, <1>3, <2>1, <2>2, <2>3, <2>4 DEF LogTypes
<1>4. CASE FileOpened
  <2>1. /\ log' = [log EXCEPT !.step = "prune", !.file = log.made, !.holds = 0]
        /\ log.step = "opened" /\ UNCHANGED logFiles
        /\ pruners[Writer] = NotPruning /\ log.file = 0 /\ log.made > 0
        /\ pruners' = [pruners EXCEPT ![Writer].step = "list"]
    BY <1>2, <1>4 DEF FileOpened, WriterInv
  <2>2. /\ log' \in LogRecord /\ log'.step = "prune" /\ log'.file = log.made
        /\ log'.made = log.made
    BY <1>1, <2>1 DEF LogRecord, LogSteps
  <2>3. Live' = Live
    BY <1>1, <2>1, <2>2 DEF Live
  <2>4. "prune" \in LogSteps \ OpenSteps /\ log.step \notin OpenSteps /\ log.made # 0
    BY <1>1, <2>1 DEF LogSteps, OpenSteps
  <2>5. LogTypes' /\ WriterInv' /\ MarkedInv' /\ \A i : Known(i)' <=> Known(i)
    BY <1>3, <2>1, <2>2, <2>3, <2>4
  <2>6. ASSUME NEW p \in Pruners PROVE PrunerInv(p)'
    <3>1. PrunerInv(p)
      BY DEF FilesInv
    <3>2. CASE p = Writer
      <4>1. pruners'[p].step = "list" /\ pruners'[p].left = {}
        BY <1>1, <2>1, <3>2 DEF NotPruning
      <4> QED
        BY <2>2, <4>1 DEF PrunerInv
    <3>3. CASE p # Writer
      <4>1. pruners'[p] = pruners[p]
        BY <1>1, <2>1, <3>3
      <4> QED
        BY <2>1, <2>3, <2>5, <3>1, <3>3, <4>1 DEF PrunerInv
    <3> QED
      BY <3>2, <3>3
  <2> QED
    BY <2>5, <2>6 DEF FilesInv
<1>5. CASE Pruned
  <2>1. /\ log' = [log EXCEPT !.step = "write"] /\ log.step = "prune"
        /\ UNCHANGED <<logFiles, pruners>> /\ pruners[Writer] = NotPruning
    BY <1>5 DEF Pruned
  <2>2. /\ log' \in LogRecord /\ log'.step = "write" /\ log'.file = log.file
        /\ log'.made = log.made
    BY <1>1, <2>1 DEF LogRecord, LogSteps
  <2>3. Live' = Live /\ log.file # 0
    BY <1>2, <2>1, <2>2 DEF Live, WriterInv
  <2>4. "write" \in LogSteps \ OpenSteps /\ log.step \notin OpenSteps
    BY <2>1 DEF LogSteps, OpenSteps
  <2>5. LogTypes' /\ WriterInv' /\ MarkedInv' /\ \A i : Known(i)' <=> Known(i)
    BY <1>3, <2>1, <2>2, <2>3, <2>4
  <2>6. \A p \in Pruners : PrunerInv(p)'
    BY <2>1, <2>3, <2>5, PrunersStay
  <2> QED
    BY <2>5, <2>6 DEF FilesInv
<1>6. CASE Write
  <2>1. log.step = "write" /\ log.file # 0 /\ UNCHANGED pruners /\ Live = log.file
    BY <1>2, <1>6 DEF Write, WriterInv, Live
  <2>2. "wait" \in LogSteps \ OpenSteps /\ log.step \notin OpenSteps
    BY <2>1 DEF LogSteps, OpenSteps
  <2>3. CASE log' = [log EXCEPT !.step = "wait", !.holds = @ + 1] /\ UNCHANGED logFiles
    <3>1. /\ log' \in LogRecord /\ log'.step = "wait" /\ log'.file = log.file
          /\ log'.made = log.made
      <4>1. PICK next \in Nat : next = log.holds + 1
        BY <1>1
      <4>2. log' = [log EXCEPT !.step = "wait", !.holds = next]
        BY <2>3, <4>1
      <4> QED
        BY <1>1, <4>2 DEF LogRecord, LogSteps
    <3>2. Live' = Live
      BY <2>1, <3>1 DEF Live
    <3>3. LogTypes' /\ WriterInv' /\ MarkedInv' /\ \A i : Known(i)' <=> Known(i)
      BY <1>3, <2>2, <2>3, <3>1, <3>2
    <3>4. \A p \in Pruners : PrunerInv(p)'
      BY <2>1, <2>3, <3>2, <3>3, PrunersStay
    <3> QED
      BY <3>3, <3>4 DEF FilesInv
  <2>4. CASE Failed /\ logFiles' = Unlocked(log.file)
    <3>1. /\ log' \in LogRecord /\ log'.step = "wait" /\ log'.file = 0
          /\ log'.made = log.made
      BY <1>1, <2>4 DEF Failed, LogRecord, LogSteps
    <3>2. log.file \in Ids /\ logFiles[log.file].lock = Writer
      BY <1>1, <1>2, <2>1 DEF WriterInv, Ids
    <3>3. Live' = 0
      BY <3>1 DEF Live
    <3>4. /\ logFiles' \in [Ids -> LogFile]
          /\ \A i \in Ids : /\ logFiles'[i].receipt = logFiles[i].receipt
                            /\ i # log.file => logFiles'[i] = logFiles[i]
      BY <2>4, <3>2, LetGo
    <3>5. \A i \in Ids : logFiles'[i].lock = logFiles[i].lock \/ logFiles[i].lock = Writer
      <4> SUFFICES ASSUME NEW i \in Ids
                   PROVE  logFiles'[i].lock = logFiles[i].lock \/ logFiles[i].lock = Writer
        OBVIOUS
      <4>1. CASE i = log.file
        BY <3>2, <4>1
      <4>2. CASE i # log.file
        BY <3>4, <4>2
      <4> QED
        BY <4>1, <4>2
    <3>6. \A i : Known(i)' <=> Known(i)
      BY <2>2, <3>1 DEF Known
    <3>7. MarkedInv'
      BY <1>2, <3>4, <3>6 DEF MarkedInv
    <3>8. WriterInv'
      BY <1>2, <2>2, <3>1, <3>3 DEF WriterInv, OpenSteps
    <3>9. \A p \in Pruners : PrunerInv(p)'
      BY <2>1, <3>3, <3>5, <3>6, PrunersStay
    <3> QED
      BY <1>1, <2>1, <3>1, <3>4, <3>7, <3>8, <3>9 DEF FilesInv, LogTypes
  <2> QED
    BY <1>6, <2>3, <2>4 DEF Write
<1>7. CASE RestEnds
  <2>1. /\ log' \in LogRecord /\ log'.step = log.step /\ log'.file = log.file
        /\ log'.made = log.made /\ UNCHANGED <<logFiles, pruners>>
    BY <1>1, <1>7 DEF RestEnds, LogRecord
  <2>2. (\A i : Known(i)' <=> Known(i)) /\ Live' = Live
    BY <2>1 DEF Known, Live
  <2>3. WriterInv' /\ MarkedInv'
    BY <1>2, <2>1, <2>2 DEF WriterInv, MarkedInv
  <2>4. \A p \in Pruners : PrunerInv(p)'
    BY <2>1, <2>2, PrunersStay
  <2> QED
    BY <1>1, <2>1, <2>3, <2>4 DEF FilesInv, LogTypes
<1> QED
  BY <1>4, <1>5, <1>6, <1>7

-----------------------------------------------------------------------------
(***************************************************************************)
(* The events.                                                             *)
(***************************************************************************)

\* What is written or dropped leaves the hand of the writer.
LEMMA HandOver ==
  ASSUME EventTypes, EventsInv, EventTypes', UNCHANGED queued, InHand \in Nat, InHand' \in Nat,
         events'.submitted = events.submitted, events'.before = events.before,
         events'.flush = events.flush,
         events'.written + events'.dropped + InHand' = events.written + events.dropped + InHand,
         events'.written + events'.dropped >= events.written + events.dropped
  PROVE  EventsInv'
<1>1. /\ Len(queued) \in Nat /\ events.before \in Nat /\ events.submitted \in Nat
      /\ DOMAIN queued = 1..Len(queued)
  BY DEF EventTypes
<1>7. PICK len \in Nat, sub \in Nat, since \in Nat :
         /\ len = Len(queued) /\ sub = events.submitted /\ since = events.before
  BY <1>1
<1>8. Len(queued') = len /\ events'.submitted = sub /\ events'.before = since
      /\ DOMAIN queued' = DOMAIN queued /\ queued' = queued /\ events'.flush = events.flush
  BY <1>7
<1>2. PICK done \in Nat, now \in Nat : /\ done = events.written + events.dropped
                                      /\ now = events'.written + events'.dropped
  BY DEF EventTypes
<1>3. PICK h1 \in Nat, h2 \in Nat : h1 = InHand /\ h2 = InHand' /\ now + h2 = done + h1
  BY <1>2
<1>9. /\ done \in Nat /\ now \in Nat /\ h1 \in Nat /\ h2 \in Nat
      /\ len \in Nat /\ sub \in Nat /\ since \in Nat /\ now + h2 = done + h1
  BY <1>3
<1>4. FlushedIsWritten'
  <2>1. now >= done
    BY <1>2
  <2>2. events.flush = "flushed" => done >= since
    BY <1>2, <1>7 DEF EventsInv, FlushedIsWritten
  <2>3. events.flush = "flushed" => now >= since
    BY <1>9, <2>1, <2>2
  <2> QED
    BY <1>2, <1>8, <2>3 DEF FlushedIsWritten
<1>5. ASSUME events.flush # "asked"
      PROVE  /\ \A i \in DOMAIN queued' : queued'[i] = "event"
             /\ events'.submitted = now + Len(queued') + h2
  <2>1. /\ \A i \in DOMAIN queued : queued[i] = "event"
        /\ sub = done + len + h1
    BY <1>2, <1>7, <1>3, <1>5 DEF EventsInv
  <2>2. sub = now + len + h2
    BY <1>9, <2>1
  <2> QED
    BY <1>3, <1>7, <1>8, <2>1, <2>2
<1>6. ASSUME events.flush = "asked"
      PROVE  /\ \E k \in DOMAIN queued' : FlushAt(k)' /\ events'.before <= now + (k - 1) + h2
             /\ events'.submitted = now + (Len(queued') - 1) + h2
  <2>1. PICK k \in DOMAIN queued : FlushAt(k) /\ since <= done + (k - 1) + h1
    BY <1>7, <1>2, <1>3, <1>6 DEF EventsInv
  <2>2. sub = done + (len - 1) + h1
    BY <1>7, <1>2, <1>3, <1>6 DEF EventsInv
  <2>3. k \in Nat
    BY <1>1
  <2>4. FlushAt(k)'
    BY <2>1 DEF FlushAt
  <2>5. events'.before <= now + (k - 1) + h2
    <3>1. since <= now + (k - 1) + h2
      BY <1>9, <2>1, <2>3
    <3> QED
      BY <1>8, <3>1
  <2>6. k \in DOMAIN queued'
    BY <2>1
  <2>7. events'.submitted = now + (Len(queued') - 1) + h2
    <3>3. sub = now + (len - 1) + h2
      BY <1>9, <2>2
    <3>4. Len(queued') = len
      BY <1>8
    <3> QED
      BY <1>8, <3>3, <3>4
  <2> QED
    BY <2>4, <2>5, <2>6, <2>7
<1> QED
  BY <1>2, <1>3, <1>4, <1>5, <1>6 DEF EventsInv

LEMMA HandIsNat == InHand \in Nat /\ InHand' \in Nat
  BY DEF InHand

LEMMA WriteEvents ==
  ASSUME EventTypes, LogTypes, EventsInv,
         OpenStep \/ OpenFails \/ FileOpened \/ Pruned \/ Write \/ RestEnds
  PROVE  EventTypes' /\ EventsInv'
<1>1. UNCHANGED queued /\ log \in LogRecord
  BY DEF OpenStep, OpenFails, FileOpened, Pruned, Write, RestEnds, LogTypes
<1>2. CASE UNCHANGED events /\ InHand' = InHand
  <2>1. EventTypes'
    BY <1>1, <1>2 DEF EventTypes
  <2> QED
    BY <1>1, <1>2, <2>1, HandOver, HandIsNat DEF EventTypes
<1>3. ASSUME InHand = 1, InHand' = 0,
             \/ Lost
             \/ events' = [events EXCEPT !.written = @ + 1]
      PROVE  EventTypes' /\ EventsInv'
  <2>1. PICK d \in Nat, w \in Nat : d = events.dropped + 1 /\ w = events.written + 1
    BY DEF EventTypes
  <2>2. \/ events' = [events EXCEPT !.dropped = d]
        \/ events' = [events EXCEPT !.written = w]
    BY <1>3, <2>1 DEF Lost
  <2>3. EventTypes'
    BY <1>1, <2>1, <2>2 DEF EventTypes
  <2>4. /\ events'.submitted = events.submitted /\ events'.before = events.before
        /\ events'.flush = events.flush
        /\ \/ events'.dropped = d /\ events'.written = events.written
           \/ events'.dropped = events.dropped /\ events'.written = w
    BY <2>2 DEF EventTypes
  <2>5. events.dropped \in Nat /\ events.written \in Nat
    BY DEF EventTypes
  <2>6. events'.written + events'.dropped = events.written + events.dropped + 1
    BY <2>1, <2>4, <2>5
  <2> QED
    BY <1>1, <1>3, <2>3, <2>4, <2>5, <2>6, HandOver
<1>4. CASE OpenStep
  <2>1. log.step # "wait" /\ log'.step # "wait"
    <3>1. log.step \in {"create", "lock file", "receipt", "lock", "mark"}
      BY <1>4 DEF OpenStep
    <3>2. /\ NextStep["create"] \in {"lock file", "receipt"} /\ NextStep["receipt"] = "lock"
          /\ NextStep["lock"] = "mark" /\ NextStep["mark"] = "opened"
      BY DEF NextStep
    <3>3. log'.step = IF log.step = "lock file" THEN "receipt" ELSE NextStep[log.step]
      BY <1>1, <1>4 DEF OpenStep, LogRecord
    <3> QED
      BY <3>1, <3>2, <3>3
  <2> QED
    BY <1>2, <1>4, <2>1 DEF OpenStep, InHand
<1>5. CASE OpenFails
  <2>1. log.step # "wait" /\ log'.step = "wait"
    BY <1>1, <1>5 DEF OpenFails, Failed, LogRecord
  <2> QED
    BY <1>3, <1>5, <2>1 DEF OpenFails, InHand
<1>6. CASE FileOpened
  <2>1. log.step # "wait" /\ log'.step # "wait"
    BY <1>1, <1>6 DEF FileOpened, LogRecord
  <2> QED
    BY <1>2, <1>6, <2>1 DEF FileOpened, InHand
<1>7. CASE Pruned
  <2>1. log.step # "wait" /\ log'.step # "wait"
    BY <1>1, <1>7 DEF Pruned, LogRecord
  <2> QED
    BY <1>2, <1>7, <2>1 DEF Pruned, InHand
<1>8. CASE Write
  <2>1. log.step # "wait" /\ log'.step = "wait"
    BY <1>1, <1>8 DEF Write, Failed, LogRecord
  <2> QED
    BY <1>3, <1>8, <2>1 DEF Write, InHand
<1>9. CASE RestEnds
  <2>1. log'.step = log.step
    BY <1>1, <1>9 DEF RestEnds, LogRecord
  <2> QED
    BY <1>2, <1>9, <2>1 DEF RestEnds, InHand
<1> QED
  BY <1>4, <1>5, <1>6, <1>7, <1>8, <1>9

\* An event, or a request to flush, is put at the end of the queue.
LEMMA QueueEvents ==
  ASSUME EventTypes, EventsInv, RecordEvent \/ AskFlush
  PROVE  EventTypes' /\ EventsInv'
<1>1. PICK len \in Nat, sub \in Nat, since \in Nat, done \in Nat, h \in Nat :
         /\ len = Len(queued) /\ sub = events.submitted /\ since = events.before
         /\ done = events.written + events.dropped /\ h = InHand
  BY HandIsNat DEF EventTypes
<1>2. /\ len \in Nat /\ sub \in Nat /\ since \in Nat /\ done \in Nat /\ h \in Nat
      /\ queued \in Seq({"event", "flush"}) /\ DOMAIN queued = 1..len /\ Len(queued) = len
      /\ events.written \in Nat /\ events.dropped \in Nat
  BY <1>1 DEF EventTypes
<1>3. PICK sub1 \in Nat, drop1 \in Nat : sub1 = sub + 1 /\ drop1 = events.dropped + 1
  <2>1. sub + 1 \in Nat /\ events.dropped + 1 \in Nat
    BY <1>2
  <2> QED
    BY <2>1, Zenon
<1>4. sub1 \in Nat /\ drop1 \in Nat /\ sub1 = sub + 1 /\ drop1 = events.dropped + 1
  BY <1>3
<1>5. InHand' = h
  BY <1>1 DEF RecordEvent, AskFlush, InHand
<1>6. ASSUME events.flush # "asked"
      PROVE  (\A i \in 1..len : queued[i] = "event") /\ sub = done + len + h
  BY <1>1, <1>2, <1>6 DEF EventsInv
<1>7. ASSUME events.flush = "asked"
      PROVE  /\ \E k \in 1..len : FlushAt(k) /\ since <= done + (k - 1) + h
             /\ sub = done + (len - 1) + h
  BY <1>1, <1>2, <1>7 DEF EventsInv
<1>8. events.flush = "flushed" => done >= since
  BY <1>1 DEF EventsInv, FlushedIsWritten
<1>9. ASSUME NEW task \in {"event", "flush"}, queued' = Append(queued, task)
      PROVE  /\ queued' \in Seq({"event", "flush"}) /\ Len(queued') = len + 1
             /\ DOMAIN queued' = 1..(len + 1)
             /\ queued'[len + 1] = task /\ \A i \in 1..len : queued'[i] = queued[i]
  BY <1>2, <1>9, AppendProperties
<1>10. CASE /\ queued' = Append(queued, "event")
            /\ events' = [events EXCEPT !.submitted = @ + 1]
  <2>1. events' = [events EXCEPT !.submitted = sub1]
    BY <1>1, <1>3, <1>10
  <2>2. /\ events'.submitted = sub + 1 /\ events'.before = since
        /\ events'.flush = events.flush
        /\ events'.written = events.written /\ events'.dropped = events.dropped
    BY <1>1, <1>4, <2>1 DEF EventTypes
  <2>3. events'.written + events'.dropped = done
    BY <1>1, <2>2
  <2>4. EventTypes'
    BY <1>4, <1>9, <1>10, <2>1 DEF EventTypes
  <2>5. /\ Len(queued') = len + 1 /\ DOMAIN queued' = 1..(len + 1)
        /\ queued'[len + 1] = "event" /\ \A i \in 1..len : queued'[i] = queued[i]
    BY <1>9, <1>10
  <2>6. ASSUME events.flush # "asked"
        PROVE  /\ \A i \in DOMAIN queued' : queued'[i] = "event"
               /\ events'.submitted = done + Len(queued') + h
    BY <1>2, <1>6, <2>2, <2>5, <2>6
  <2>7. ASSUME events.flush = "asked"
        PROVE  /\ \E k \in DOMAIN queued' : FlushAt(k)' /\ events'.before <= done + (k - 1) + h
               /\ events'.submitted = done + (Len(queued') - 1) + h
    <3>1. PICK k \in 1..len : FlushAt(k) /\ since <= done + (k - 1) + h
      BY <1>7, <2>7
    <3>2. \A i \in DOMAIN queued' : queued'[i] = "flush" <=> i = k
      BY <1>2, <2>5, <3>1 DEF FlushAt
    <3>3. FlushAt(k)' /\ k \in DOMAIN queued'
      BY <1>2, <2>5, <3>1, <3>2 DEF FlushAt
    <3>4. events'.submitted = done + (Len(queued') - 1) + h
      BY <1>2, <1>7, <2>2, <2>5, <2>7
    <3> QED
      BY <2>2, <3>1, <3>3, <3>4
  <2>8. FlushedIsWritten'
    BY <1>8, <2>2, <2>3 DEF FlushedIsWritten
  <2> QED
    BY <1>5, <2>2, <2>3, <2>4, <2>6, <2>7, <2>8 DEF EventsInv
<1>11. CASE /\ events' = [events EXCEPT !.submitted = @ + 1, !.dropped = @ + 1]
            /\ UNCHANGED queued
  <2>1. events' = [events EXCEPT !.submitted = sub1, !.dropped = drop1]
    BY <1>1, <1>3, <1>11
  <2>2. /\ events'.submitted = sub + 1 /\ events'.before = since
        /\ events'.flush = events.flush
        /\ events'.written = events.written /\ events'.dropped = events.dropped + 1
    BY <1>1, <1>4, <2>1 DEF EventTypes
  <2>3. events'.written + events'.dropped = done + 1
    BY <1>1, <1>2, <2>2
  <2>4. EventTypes'
    BY <1>4, <1>11, <2>1 DEF EventTypes
  <2>5. queued' = queued /\ Len(queued') = len /\ DOMAIN queued' = 1..len
    BY <1>2, <1>11
  <2>6. ASSUME events.flush # "asked"
        PROVE  /\ \A i \in DOMAIN queued' : queued'[i] = "event"
               /\ events'.submitted = (done + 1) + Len(queued') + h
    BY <1>2, <1>6, <2>2, <2>5, <2>6
  <2>7. ASSUME events.flush = "asked"
        PROVE  /\ \E k \in DOMAIN queued' :
                     FlushAt(k)' /\ events'.before <= (done + 1) + (k - 1) + h
               /\ events'.submitted = (done + 1) + (Len(queued') - 1) + h
    <3>1. PICK k \in 1..len : FlushAt(k) /\ since <= done + (k - 1) + h
      BY <1>7, <2>7
    <3>2. FlushAt(k)' /\ k \in DOMAIN queued'
      BY <2>5, <3>1 DEF FlushAt
    <3>3. since <= (done + 1) + (k - 1) + h
      BY <1>2, <3>1
    <3>4. events'.submitted = (done + 1) + (Len(queued') - 1) + h
      BY <1>2, <1>7, <2>2, <2>5, <2>7
    <3> QED
      BY <2>2, <3>2, <3>3, <3>4
  <2>8. FlushedIsWritten'
    BY <1>2, <1>8, <2>2, <2>3 DEF FlushedIsWritten
  <2> QED
    BY <1>5, <2>2, <2>3, <2>4, <2>6, <2>7, <2>8 DEF EventsInv
<1>12. CASE AskFlush
  <2>1. /\ queued' = Append(queued, "flush") /\ events.flush = "no"
        /\ events' = [events EXCEPT !.flush = "asked", !.before = sub]
    BY <1>1, <1>12 DEF AskFlush
  <2>2. /\ events'.submitted = sub /\ events'.before = sub /\ events'.flush = "asked"
        /\ events'.written = events.written /\ events'.dropped = events.dropped
    BY <1>1, <2>1 DEF EventTypes
  <2>3. events'.written + events'.dropped = done
    BY <1>1, <2>2
  <2>4. EventTypes'
    BY <1>2, <1>9, <2>1 DEF EventTypes
  <2>5. /\ Len(queued') = len + 1 /\ DOMAIN queued' = 1..(len + 1)
        /\ queued'[len + 1] = "flush" /\ \A i \in 1..len : queued'[i] = queued[i]
    BY <1>9, <2>1
  <2>6. (\A i \in 1..len : queued[i] = "event") /\ sub = done + len + h
    BY <1>6, <2>1
  <2>7. FlushAt(len + 1)'
    BY <1>2, <2>5, <2>6 DEF FlushAt
  <2>8. sub <= done + ((len + 1) - 1) + h
    BY <1>2, <2>6
  <2>9. events'.submitted = done + (Len(queued') - 1) + h
    BY <1>2, <2>2, <2>5, <2>6
  <2>10. len + 1 \in DOMAIN queued'
    BY <1>2, <2>5
  <2>11. FlushedIsWritten'
    BY <2>2 DEF FlushedIsWritten
  <2> QED
    BY <1>5, <2>2, <2>3, <2>4, <2>7, <2>8, <2>9, <2>10, <2>11 DEF EventsInv
<1> QED
  BY <1>10, <1>11, <1>12 DEF RecordEvent

\* A task is taken from the front of the queue.
LEMMA TakenEvents ==
  ASSUME EventTypes, LogTypes, EventsInv, Flush \/ TakeEvent
  PROVE  EventTypes' /\ EventsInv'
<1>1. PICK len \in Nat, sub \in Nat, since \in Nat, done \in Nat :
         /\ len = Len(queued) /\ sub = events.submitted /\ since = events.before
         /\ done = events.written + events.dropped
  BY DEF EventTypes
<1>2. /\ len \in Nat /\ sub \in Nat /\ since \in Nat /\ done \in Nat
      /\ queued \in Seq({"event", "flush"}) /\ DOMAIN queued = 1..len /\ Len(queued) = len
      /\ events.written \in Nat /\ events.dropped \in Nat
  BY <1>1 DEF EventTypes
<1>3. InHand = 0 /\ queued # << >> /\ queued' = Tail(queued)
  BY DEF Flush, TakeEvent, InHand
<1>4. /\ len >= 1 /\ Head(queued) = queued[1] /\ queued' \in Seq({"event", "flush"})
      /\ Len(queued') = len - 1 /\ DOMAIN queued' = 1..(len - 1)
      /\ \A i \in 1..(len - 1) : queued'[i] = queued[i + 1]
  BY <1>2, <1>3, HeadTailProperties
<1>5. ASSUME events.flush # "asked"
      PROVE  (\A i \in 1..len : queued[i] = "event") /\ sub = done + len
  <2>1. (\A i \in 1..len : queued[i] = "event") /\ sub = done + len + 0
    BY <1>1, <1>2, <1>3, <1>5 DEF EventsInv
  <2> QED
    BY <1>2, <2>1
<1>6. ASSUME events.flush = "asked"
      PROVE  /\ \E k \in 1..len : FlushAt(k) /\ since <= done + (k - 1)
             /\ sub = done + (len - 1)
  <2>1. /\ \E k \in 1..len : FlushAt(k) /\ since <= done + (k - 1) + 0
        /\ sub = done + (len - 1) + 0
    BY <1>1, <1>2, <1>3, <1>6 DEF EventsInv
  <2> QED
    BY <1>2, <2>1
<1>7. events.flush = "flushed" => done >= since
  BY <1>1 DEF EventsInv, FlushedIsWritten
<1>8. CASE Flush
  <2>1. Head(queued) = "flush" /\ UNCHANGED log
    BY <1>8 DEF Flush
  <2>2. events.flush = "asked"
    BY <1>2, <1>4, <1>5, <2>1
  <2>3. PICK k \in 1..len : FlushAt(k) /\ since <= done + (k - 1)
    BY <1>6, <2>2
  <2>4. k = 1
    <3>1. 1 \in DOMAIN queued /\ queued[1] = "flush"
      BY <1>2, <1>4, <2>1
    <3> QED
      BY <2>3, <3>1 DEF FlushAt
  <2>5. since <= done /\ sub = done + (len - 1)
    BY <1>2, <1>6, <2>2, <2>3, <2>4
  <2>6. \A i \in 1..(len - 1) : queued'[i] = "event"
    <3> SUFFICES ASSUME NEW i \in 1..(len - 1) PROVE queued'[i] = "event"
      OBVIOUS
    <3>1. i + 1 \in 1..len /\ i + 1 # k
      BY <1>2, <2>4
    <3>2. queued[i + 1] # "flush" /\ queued[i + 1] \in {"event", "flush"}
      BY <1>2, <2>3, <3>1 DEF FlushAt
    <3> QED
      BY <1>4, <3>2
  <2>7. PICK answer \in {"failed", "flushed"} : events' = [events EXCEPT !.flush = answer]
    BY <1>8 DEF Flush
  <2>8. /\ EventTypes' /\ events'.submitted = sub /\ events'.before = since
        /\ events'.flush = answer
        /\ events'.written = events.written /\ events'.dropped = events.dropped
    BY <1>1, <1>4, <2>7 DEF EventTypes
  <2>9. events'.written + events'.dropped = done
    BY <1>1, <2>8
  <2>10. InHand' = 0
    BY <1>3, <2>1 DEF InHand
  <2>11. events'.submitted = done + Len(queued') + 0
    BY <1>2, <1>4, <2>5, <2>8
  <2>12. FlushedIsWritten'
    BY <1>2, <2>5, <2>8, <2>9 DEF FlushedIsWritten
  <2> QED
    BY <1>4, <2>6, <2>8, <2>9, <2>10, <2>11, <2>12 DEF EventsInv
\* An event is dropped at once, or goes to the hand of the writer.
<1>9. ASSUME Head(queued) = "event", NEW d \in Nat, NEW h \in Nat, EventTypes',
             events'.submitted = sub, events'.before = since, events'.flush = events.flush,
             events'.written + events'.dropped = d, InHand' = h, d + h = done + 1, d >= done
      PROVE  EventsInv'
  <2>1. ASSUME events.flush # "asked"
        PROVE  /\ \A i \in DOMAIN queued' : queued'[i] = "event"
               /\ events'.submitted = d + Len(queued') + h
    <3>1. \A i \in DOMAIN queued' : queued'[i] = "event"
      <4> SUFFICES ASSUME NEW i \in 1..(len - 1) PROVE queued'[i] = "event"
        BY <1>4
      <4>1. i + 1 \in 1..len
        BY <1>2
      <4> QED
        BY <1>4, <1>5, <2>1, <4>1
    <3>2. sub = d + (len - 1) + h
      BY <1>2, <1>5, <1>9, <2>1
    <3> QED
      BY <1>4, <1>9, <3>1, <3>2
  <2>2. ASSUME events.flush = "asked"
        PROVE  /\ \E k \in DOMAIN queued' : FlushAt(k)' /\ events'.before <= d + (k - 1) + h
               /\ events'.submitted = d + (Len(queued') - 1) + h
    <3>1. PICK k \in 1..len : FlushAt(k) /\ since <= done + (k - 1)
      BY <1>6, <2>2
    <3>2. k # 1
      BY <1>2, <1>4, <1>9, <3>1 DEF FlushAt
    <3>3. PICK j \in 1..(len - 1) : k = j + 1
      <4>1. k - 1 \in 1..(len - 1) /\ k = (k - 1) + 1
        BY <1>2, <3>2
      <4> QED
        BY <4>1, Zenon
    <3>4. \A i \in 1..(len - 1) : queued'[i] = "flush" <=> i = j
      <4> SUFFICES ASSUME NEW i \in 1..(len - 1) PROVE queued'[i] = "flush" <=> i = j
        OBVIOUS
      <4>1. i + 1 \in 1..len /\ (i + 1 = k <=> i = j)
        BY <1>2, <3>3
      <4>2. queued[i + 1] = "flush" <=> i + 1 = k
        BY <1>2, <3>1, <4>1 DEF FlushAt
      <4> QED
        BY <1>4, <4>1, <4>2
    <3>5. FlushAt(j)'
      BY <1>4, <3>4 DEF FlushAt
    <3>6. since <= d + (j - 1) + h
      BY <1>2, <1>9, <3>1, <3>3
    <3>7. sub = d + ((len - 1) - 1) + h
      BY <1>2, <1>6, <1>9, <2>2
    <3> QED
      BY <1>4, <1>9, <3>5, <3>6, <3>7
  <2>3. FlushedIsWritten'
    BY <1>2, <1>7, <1>9 DEF FlushedIsWritten
  <2> QED
    BY <1>9, <2>1, <2>2, <2>3 DEF EventsInv
<1>10. CASE TakeEvent
  <2>1. Head(queued) = "event" /\ log.step = "wait" /\ log \in LogRecord
    BY <1>10 DEF TakeEvent, LogTypes
  <2>2. CASE Lost /\ UNCHANGED log
    <3>1. PICK drop1 \in Nat : drop1 = events.dropped + 1
      BY <1>2
    <3>2. events' = [events EXCEPT !.dropped = drop1]
      BY <2>2, <3>1 DEF Lost
    <3>3. /\ EventTypes' /\ events'.submitted = sub /\ events'.before = since
          /\ events'.flush = events.flush
          /\ events'.written = events.written /\ events'.dropped = drop1
      BY <1>1, <1>4, <3>1, <3>2 DEF EventTypes
    <3>4. PICK d \in Nat : d = done + 1
      BY <1>2
    <3>5. events'.written + events'.dropped = d
      <4>1. drop1 \in Nat /\ drop1 = events.dropped + 1 /\ d = done + 1
        BY <3>1, <3>4
      <4>2. done = events.written + events.dropped
        BY <1>1
      <4>3. d = events.written + drop1
        BY <1>2, <4>1, <4>2
      <4> QED
        BY <3>3, <4>3
    <3>6. InHand' = 0
      BY <2>1, <2>2 DEF InHand
    <3>7. d + 0 = done + 1 /\ d >= done
      BY <1>2, <3>4
    <3> QED
      BY <1>9, <2>1, <3>3, <3>5, <3>6, <3>7
  <2>3. CASE UNCHANGED events /\ log'.step # "wait"
    <3>1. /\ EventTypes' /\ events'.submitted = sub /\ events'.before = since
          /\ events'.flush = events.flush /\ events'.written + events'.dropped = done
      BY <1>1, <1>4, <2>3 DEF EventTypes
    <3>2. InHand' = 1
      BY <2>3 DEF InHand
    <3>3. done >= done
      BY <1>2
    <3> QED
      BY <1>9, <2>1, <3>1, <3>2, <3>3
  <2>4. \/ Lost /\ UNCHANGED log
        \/ UNCHANGED events /\ log' = [log EXCEPT !.step = "create", !.file = 0, !.made = @ + 1]
        \/ UNCHANGED events /\ log' = [log EXCEPT !.step = "write"]
    BY <1>10 DEF TakeEvent
  <2>5. \/ Lost /\ UNCHANGED log
        \/ UNCHANGED events /\ log'.step # "wait"
    BY <2>1, <2>4 DEF LogRecord
  <2> QED
    BY <2>2, <2>3, <2>5
<1> QED
  BY <1>8, <1>10

-----------------------------------------------------------------------------
LEMMA LogStep ==
  ASSUME LogInv, LogNext
  PROVE  LogInv'
<1>1. EventTypes /\ LogTypes /\ FilesInv /\ EventsInv
  BY DEF LogInv
<1>2. CASE RecordEvent \/ AskFlush
  <2>1. UNCHANGED <<log, logFiles, pruners>>
    BY <1>2 DEF RecordEvent, AskFlush
  <2> QED
    BY <1>1, <1>2, <2>1, FilesStand, QueueEvents DEF LogInv
<1>3. CASE Flush
  <2>1. UNCHANGED <<log, logFiles, pruners>>
    BY <1>3 DEF Flush
  <2> QED
    BY <1>1, <1>3, <2>1, FilesStand, TakenEvents DEF LogInv
<1>4. CASE TakeEvent
  BY <1>1, <1>4, TakeFiles, TakenEvents DEF LogInv
<1>5. CASE OpenStep \/ OpenFails
  BY <1>1, <1>5, OpenFiles, WriteEvents DEF LogInv
<1>6. CASE FileOpened \/ Pruned \/ Write \/ RestEnds
  BY <1>1, <1>6, WriteFiles, WriteEvents DEF LogInv
<1>7. ASSUME NEW p \in Pruners,
             \/ StartPruning(p) \/ ListFiles(p) \/ NextOld(p)
             \/ LockReceipt(p) \/ RemoveFile(p) \/ RemoveReceipt(p)
      PROVE  LogInv'
  <2>1. UNCHANGED <<queued, events, log>>
    BY <1>7 DEF StartPruning, ListFiles, NextOld, LockReceipt, RemoveFile, RemoveReceipt, Prunes
  <2>2. /\ logFiles' \in [Ids -> LogFile] /\ FilesInv'
        /\ pruners' \in [Pruners -> [step : PruneSteps, left : SUBSET Ids, at : Nat]]
    BY <1>1, <1>7, PruneStep
  <2>3. EventTypes' /\ LogTypes'
    BY <1>1, <2>1, <2>2 DEF EventTypes, LogTypes
  <2>4. EventsInv'
    BY <1>1, <2>1 DEF EventsInv, FlushAt, InHand, FlushedIsWritten
  <2> QED
    BY <2>2, <2>3, <2>4 DEF LogInv
<1> QED
  BY <1>2, <1>3, <1>4, <1>5, <1>6, <1>7 DEF LogNext

LEMMA LogStands ==
  ASSUME LogInv, UNCHANGED logVars
  PROVE  LogInv'
<1>1. EventTypes /\ LogTypes /\ FilesInv /\ EventsInv
  BY DEF LogInv
<1>2. UNCHANGED queued /\ UNCHANGED events /\ UNCHANGED <<log, logFiles, pruners>>
  BY DEF logVars
<1>3. LogTypes' /\ FilesInv'
  BY <1>1, <1>2, FilesStand
<1>4. EventTypes'
  BY <1>1, <1>2 DEF EventTypes
<1>5. InHand' = InHand /\ \A k : FlushAt(k)' <=> FlushAt(k)
  BY <1>2 DEF InHand, FlushAt
<1>6. EventsInv'
  BY <1>1, <1>2, <1>5 DEF EventsInv, FlushedIsWritten
<1> QED
  BY <1>3, <1>4, <1>6 DEF LogInv

\* The log keeps its file, and its events.
LEMMA LogSafe ==
  ASSUME LogInv
  PROVE  LogsAreKept
<1>1. EventTypes /\ WriterInv /\ EventsInv /\ log.file \in Nat
  BY DEF LogInv, FilesInv, LogTypes, LogRecord
<1>2. LiveLogsStay
  <2>1. log.step = "opened" => log.file = 0
    BY <1>1 DEF WriterInv
  <2>2. log.file # 0 => Live = log.file
    BY <2>1 DEF Live
  <2> QED
    BY <1>1, <2>2 DEF LiveLogsStay, WriterInv
<1>3. EventsAreAccounted
  <2> DEFINE held == {i \in DOMAIN queued : queued[i] = "event"}
  <2>1. PICK len \in Nat, done \in Nat, h \in Nat :
           /\ len = Len(queued) /\ done = events.written + events.dropped /\ h = InHand
    BY <1>1, HandIsNat DEF EventTypes
  <2>2. /\ len \in Nat /\ done \in Nat /\ h \in Nat /\ DOMAIN queued = 1..len
    BY <1>1, <2>1 DEF EventTypes
  <2>5. IsFiniteSet(1..len) /\ Cardinality(1..len) = len
    <3>1. 1 \in Int /\ len \in Int
      BY <2>2
    <3>2. IsFiniteSet(1..len) /\ Cardinality(1..len) = IF 1 > len THEN 0 ELSE len - 1 + 1
      BY <3>1, FS_Interval
    <3> QED
      BY <2>2, <3>2
  <2>3. CASE events.flush # "asked"
    <3>1. (\A i \in 1..len : queued[i] = "event") /\ events.submitted = done + len + h
      BY <1>1, <2>1, <2>2, <2>3 DEF EventsInv
    <3>2. held = 1..len
      BY <2>2, <3>1
    <3> HIDE DEF held
    <3>3. events.submitted = done + Cardinality(held) + h
      BY <2>2, <2>5, <3>1, <3>2
    <3> QED
      BY <2>1, <3>3 DEF EventsAreAccounted, held, InHand
  <2>4. CASE events.flush = "asked"
    <3>1. PICK k \in 1..len : FlushAt(k)
      BY <1>1, <2>1, <2>2, <2>4 DEF EventsInv
    <3>2. events.submitted = done + (len - 1) + h
      BY <1>1, <2>1, <2>2, <2>4 DEF EventsInv
    <3>3. \A i \in DOMAIN queued : queued[i] \in {"event", "flush"}
      BY <1>1 DEF EventTypes
    <3>4. held = (1..len) \ {k}
      BY <2>2, <3>1, <3>3 DEF FlushAt
    <3> HIDE DEF held
    <3>5. Cardinality(held) = len - 1
      BY <2>2, <2>5, <3>1, <3>4, FS_RemoveElement
    <3>6. events.submitted = done + Cardinality(held) + h
      BY <2>2, <3>2, <3>5
    <3> QED
      BY <2>1, <3>6 DEF EventsAreAccounted, held, InHand
  <2> QED
    BY <2>3, <2>4
<1>4. FlushedIsWritten
  BY <1>1 DEF EventsInv
<1> QED
  BY <1>2, <1>3, <1>4 DEF LogsAreKept

-----------------------------------------------------------------------------
(***************************************************************************)
(* Recursion along a sequence: what is made of its first places, by a step *)
(* for each, exists.                                                       *)
(***************************************************************************)
LEMMA LeastNatural ==
  ASSUME NEW T \in SUBSET Nat, T # {}
  PROVE  \E x \in T : \A y \in T : x <= y
<1>1. PICK x \in T : \A y \in T : <<y, x>> \notin OpToRel(<, Nat)
  BY NatLessThanWellFounded, WFMin
<1>2. ASSUME NEW y \in T PROVE x <= y
  <2>1. CASE y < x
    <3>1. <<y, x>> \in OpToRel(<, Nat)
      BY <2>1 DEF OpToRel
    <3> QED
      BY <1>1, <3>1
  <2> QED
    BY <2>1
<1> QED
  BY <1>2

\* Induction, for a set that holds zero and the successor of each of its naturals.
LEMMA SetInduction ==
  ASSUME NEW T, 0 \in T, \A k \in Nat : k \in T => k + 1 \in T
  PROVE  Nat \subseteq T
<1>1. SUFFICES ASSUME Nat \ T # {} PROVE FALSE
  OBVIOUS
<1>2. PICK x \in Nat \ T : \A y \in Nat \ T : x <= y
  BY <1>1, LeastNatural
<1>3. x # 0
  BY <1>2
<1>4. x - 1 \in Nat /\ x - 1 \in T
  BY <1>2, <1>3
<1> QED
  BY <1>2, <1>4

\* f goes from `base` by the step that the function `by` gives for each place.
GoesBy(f, len, base, by) ==
    /\ DOMAIN f = 0..len /\ f[0] = base
    /\ \A i \in 1..len : f[i] = by[<<f[i - 1], i>>]

LEMMA RecursionExists ==
  ASSUME NEW S, NEW base \in S, NEW len \in Nat, NEW by \in [S \X (1..len) -> S]
  PROVE  \E f \in [0..len -> S] : GoesBy(f, len, base, by)
<1> DEFINE T == {k \in Nat : k <= len => \E f \in [0..k -> S] : GoesBy(f, k, base, by)}
<1>1. 0 \in T
  <2> DEFINE f == [i \in 0..0 |-> base]
  <2>1. f \in [0..0 -> S] /\ f[0] = base /\ DOMAIN f = 0..0 /\ 1..0 = {}
    OBVIOUS
  <2> HIDE DEF f
  <2>2. GoesBy(f, 0, base, by)
    BY <2>1 DEF GoesBy
  <2> QED
    BY <2>1, <2>2
<1>2. ASSUME NEW k \in Nat, k \in T PROVE k + 1 \in T
  <2> SUFFICES ASSUME k + 1 <= len
               PROVE  \E g \in [0..(k + 1) -> S] : GoesBy(g, k + 1, base, by)
    OBVIOUS
  <2>1. PICK f \in [0..k -> S] : GoesBy(f, k, base, by)
    BY <1>2
  <2>2. f[k] \in S /\ <<f[k], k + 1>> \in S \X (1..len)
    OBVIOUS
  <2>3. PICK last \in S : last = by[<<f[k], k + 1>>]
    BY <2>2
  <2> DEFINE g == [i \in 0..(k + 1) |-> IF i = k + 1 THEN last ELSE f[i]]
  <2>4. /\ g \in [0..(k + 1) -> S] /\ g[k + 1] = last /\ DOMAIN g = 0..(k + 1)
        /\ \A i \in 0..k : g[i] = f[i]
    OBVIOUS
  <2> HIDE DEF g
  <2>5. g[0] = base
    BY <2>1, <2>4 DEF GoesBy
  <2>6. ASSUME NEW i \in 1..(k + 1) PROVE g[i] = by[<<g[i - 1], i>>]
    <3>1. i - 1 \in 0..k
      OBVIOUS
    <3>2. CASE i = k + 1
      <4>1. i - 1 = k
        BY <3>2
      <4> QED
        BY <2>3, <2>4, <3>1, <3>2, <4>1
    <3>3. CASE i # k + 1
      <4>1. i \in 1..k /\ i \in 0..k
        BY <3>3
      <4> QED
        BY <2>1, <2>4, <3>1, <4>1 DEF GoesBy
    <3> QED
      BY <3>2, <3>3
  <2>7. GoesBy(g, k + 1, base, by)
    BY <2>4, <2>5, <2>6 DEF GoesBy
  <2> QED
    BY <2>4, <2>7
<1>3. Nat \subseteq T
  <2> HIDE DEF T
  <2> QED
    BY <1>1, <1>2, SetInduction
<1> QED
  BY <1>3

\* A function whose steps stay among the values S stays there.
LEMMA RecursionStays ==
  ASSUME NEW S, NEW len \in Nat, NEW h, h[0] \in S,
         \A i \in 1..len : h[i - 1] \in S => h[i] \in S
  PROVE  \A i \in 0..len : h[i] \in S
<1> DEFINE T == {k \in Nat : k <= len => h[k] \in S}
<1>1. 0 \in T
  OBVIOUS
<1>2. ASSUME NEW k \in Nat, k \in T PROVE k + 1 \in T
  <2> SUFFICES ASSUME k + 1 <= len PROVE h[k + 1] \in S
    OBVIOUS
  <2>1. h[k] \in S /\ k + 1 \in 1..len /\ (k + 1) - 1 = k
    BY <1>2
  <2> QED
    BY <2>1
<1>3. Nat \subseteq T
  <2> HIDE DEF T
  <2> QED
    BY <1>1, <1>2, SetInduction
<1> QED
  BY <1>3

-----------------------------------------------------------------------------
(***************************************************************************)
(* The memories.                                                           *)
(***************************************************************************)

\* Memories that may be kept: none is bad, and where `twins` is false no two are the same.
Keepable(twins) ==
    {e \in Seq(AnyMemory) : /\ \A i \in DOMAIN e : Folded(e[i]) # Bad
                            /\ ~twins => ~Twins(e)}

LEMMA AppendIsKeepable ==
  ASSUME NEW twins \in BOOLEAN, NEW e \in Keepable(twins),
         NEW one \in AnyMemory, Folded(one) # Bad,
         ~twins => \A j \in DOMAIN e : Folded(e[j]) # Folded(one)
  PROVE  Append(e, one) \in Keepable(twins)
<1>1. /\ e \in Seq(AnyMemory) /\ \A j \in DOMAIN e : Folded(e[j]) # Bad
      /\ ~twins => ~Twins(e)
  BY DEF Keepable
<1>2. PICK size \in Nat : size = Len(e)
  BY <1>1
<1>3. size \in Nat /\ DOMAIN e = 1..size
  BY <1>1, <1>2
<1> DEFINE longer == Append(e, one)
<1>4. /\ longer \in Seq(AnyMemory) /\ Len(longer) = size + 1
      /\ longer[size + 1] = one /\ \A j \in 1..size : longer[j] = e[j]
  BY <1>1, <1>2, <1>3, AppendProperties
<1> HIDE DEF longer
<1>5. DOMAIN longer = 1..(size + 1)
  BY <1>4
<1>6. \A j \in DOMAIN longer : Folded(longer[j]) # Bad
  <2> SUFFICES ASSUME NEW j \in 1..(size + 1) PROVE Folded(longer[j]) # Bad
    BY <1>5
  <2>1. CASE j = size + 1
    BY <1>3, <1>4, <2>1
  <2>2. CASE j # size + 1
    <3>1. j \in 1..size
      BY <1>3, <2>2
    <3> QED
      BY <1>1, <1>3, <1>4, <3>1
  <2> QED
    BY <2>1, <2>2
<1>7. ASSUME ~twins, NEW j \in DOMAIN longer, NEW k \in DOMAIN longer, j < k
      PROVE  Folded(longer[j]) # Folded(longer[k])
  <2>1. j \in 1..size /\ longer[j] = e[j]
    BY <1>3, <1>4, <1>5, <1>7
  <2>2. CASE k = size + 1
    BY <1>3, <1>4, <1>7, <2>1, <2>2
  <2>3. CASE k # size + 1
    <3>1. k \in 1..size /\ longer[k] = e[k]
      BY <1>3, <1>4, <1>5, <2>3
    <3> QED
      BY <1>1, <1>3, <1>7, <2>1, <3>1 DEF Twins
  <2> QED
    BY <2>2, <2>3
<1>8. longer \in Keepable(twins)
  BY <1>4, <1>6, <1>7 DEF Keepable, Twins
<1> QED
  BY <1>8 DEF longer

LEMMA AddedIsKeepable ==
  ASSUME NEW twins \in BOOLEAN, NEW entries \in Keepable(twins),
         NEW recalls \in Seq(AnyMemory), \A i \in DOMAIN recalls : Folded(recalls[i]) # Bad
  PROVE  Added(entries, recalls) \in Keepable(twins)
<1>1. PICK len \in Nat : len = Len(recalls)
  OBVIOUS
<1>2. len \in Nat /\ DOMAIN recalls = 1..len /\ len = Len(recalls)
      /\ \A i \in 1..len : recalls[i] \in AnyMemory /\ Folded(recalls[i]) # Bad
  BY <1>1
<1> DEFINE S == Keepable(twins)
<1> DEFINE Has(e, i) == \E j \in DOMAIN e : Folded(e[j]) = Folded(recalls[i])
<1>3. ASSUME NEW e \in S, NEW i \in 1..len, ~Has(e, i)
      PROVE  Append(e, recalls[i]) \in S
  BY <1>2, <1>3, AppendIsKeepable
<1> DEFINE by == [p \in S \X (1..len) |->
                     IF Has(p[1], p[2]) THEN p[1] ELSE Append(p[1], recalls[p[2]])]
<1>4. /\ by \in [S \X (1..len) -> S]
      /\ \A e \in S, i \in 1..len :
            by[<<e, i>>] = IF Has(e, i) THEN e ELSE Append(e, recalls[i])
  <2> HIDE DEF Has, S
  <2> QED
    BY <1>3
<1> DEFINE Step(h, i) ==
              IF i = 0 THEN entries
              ELSE IF \E j \in DOMAIN h[i - 1] : Folded(h[i - 1][j]) = Folded(recalls[i])
                   THEN h[i - 1] ELSE Append(h[i - 1], recalls[i])
<1>5. ASSUME NEW h, NEW i \in 1..len, h[i - 1] \in S
      PROVE  Step(h, i) = by[<<h[i - 1], i>>]
  <2> HIDE DEF by, S
  <2>1. by[<<h[i - 1], i>>] = IF Has(h[i - 1], i) THEN h[i - 1] ELSE Append(h[i - 1], recalls[i])
    BY <1>4, <1>5
  <2> QED
    BY <1>2, <2>1
<1> DEFINE all == CHOOSE h : h = [i \in 0..Len(recalls) |-> Step(h, i)]
<1>6. Added(entries, recalls) = all[len]
  BY <1>2 DEF Added
<1> HIDE DEF by, S
<1>7. entries \in S
  BY DEF S
<1>8. PICK f \in [0..len -> S] : GoesBy(f, len, entries, by)
  BY <1>2, <1>4, <1>7, RecursionExists
<1>9. \A i \in 0..len : f[i] = Step(f, i)
  <2> HIDE DEF Step
  <2> SUFFICES ASSUME NEW i \in 0..len PROVE f[i] = Step(f, i)
    OBVIOUS
  <2>1. CASE i = 0
    BY <1>8, <2>1 DEF GoesBy, Step
  <2>2. CASE i # 0
    <3>1. i \in 1..len /\ i - 1 \in 0..len
      BY <1>2, <2>2
    <3> QED
      BY <1>5, <1>8, <3>1 DEF GoesBy
  <2> QED
    BY <2>1, <2>2
<1> HIDE DEF Step
<1>10. f = [i \in 0..Len(recalls) |-> Step(f, i)]
  BY <1>1, <1>8, <1>9
<1>11. all = [i \in 0..Len(recalls) |-> Step(all, i)]
  BY <1>10
<1> HIDE DEF all
<1>12. \A i \in 0..len : all[i] = Step(all, i)
  BY <1>2, <1>11
<1>13. all[0] \in S
  <2>1. 0 \in 0..len
    BY <1>2
  <2> QED
    BY <1>7, <1>12, <2>1 DEF Step
<1>14. ASSUME NEW i \in 1..len, all[i - 1] \in S PROVE all[i] \in S
  <2>1. i \in 0..len /\ <<all[i - 1], i>> \in S \X (1..len)
    BY <1>2, <1>14
  <2>2. all[i] = by[<<all[i - 1], i>>]
    BY <1>5, <1>12, <1>14, <2>1
  <2> QED
    BY <1>4, <2>1, <2>2
<1>15. \A i \in 0..len : all[i] \in S
  <2> HIDE DEF Has
  <2> QED
    BY <1>2, <1>13, <1>14, RecursionStays
<1> QED
  BY <1>2, <1>6, <1>15 DEF S

LEMMA WithoutIsKeepable ==
  ASSUME NEW twins \in BOOLEAN, NEW entries \in Keepable(twins), NEW id
  PROVE  Without(entries, id) \in Keepable(twins)
<1>1. entries \in Seq(AnyMemory)
  BY DEF Keepable
<1>2. PICK len \in Nat : len = Len(entries)
  BY <1>1
<1>3. /\ len \in Nat /\ len = Len(entries) /\ DOMAIN entries = 1..len
      /\ \A i \in 1..len : entries[i] \in AnyMemory /\ Folded(entries[i]) # Bad
      /\ ~twins => \A i, j \in 1..len : i < j => Folded(entries[i]) # Folded(entries[j])
  <2>1. DOMAIN entries = 1..len /\ \A i \in 1..len : entries[i] \in AnyMemory
    BY <1>1, <1>2
  <2> QED
    BY <1>2, <2>1 DEF Keepable, Twins
<1> DEFINE S == Seq(AnyMemory)
<1> DEFINE by == [p \in S \X (1..len) |->
                     IF entries[p[2]].id = id THEN p[1] ELSE Append(p[1], entries[p[2]])]
<1>4. ASSUME NEW e \in S, NEW i \in 1..len
      PROVE  Append(e, entries[i]) \in S
  <2>1. entries[i] \in AnyMemory /\ e \in Seq(AnyMemory)
    BY <1>3
  <2> QED
    BY <2>1, AppendProperties
<1>5. /\ by \in [S \X (1..len) -> S]
      /\ \A e \in S, i \in 1..len :
            by[<<e, i>>] = IF entries[i].id = id THEN e ELSE Append(e, entries[i])
  <2> HIDE DEF S
  <2> QED
    BY <1>4
<1> DEFINE Step(h, i) ==
              IF i = 0 THEN << >>
              ELSE IF entries[i].id = id THEN h[i - 1] ELSE Append(h[i - 1], entries[i])
<1> DEFINE held == CHOOSE h : h = [i \in 0..Len(entries) |-> Step(h, i)]
<1>6. Without(entries, id) = held[len]
  BY <1>3 DEF Without
<1>7. << >> \in S
  OBVIOUS
<1> HIDE DEF by, S
<1>8. PICK f \in [0..len -> S] : GoesBy(f, len, << >>, by)
  BY <1>3, <1>5, <1>7, RecursionExists
<1>9. \A i \in 0..len : f[i] = Step(f, i)
  <2> SUFFICES ASSUME NEW i \in 0..len PROVE f[i] = Step(f, i)
    OBVIOUS
  <2>1. CASE i = 0
    BY <1>8, <2>1 DEF GoesBy
  <2>2. CASE i # 0
    <3>1. i \in 1..len /\ f[i - 1] \in S
      BY <1>3, <2>2
    <3>2. f[i] = by[<<f[i - 1], i>>]
      BY <1>8, <3>1 DEF GoesBy
    <3> QED
      BY <1>5, <2>2, <3>1, <3>2
  <2> QED
    BY <2>1, <2>2
<1> HIDE DEF Step
<1>10. f = [i \in 0..Len(entries) |-> Step(f, i)]
  BY <1>2, <1>8, <1>9
<1>11. held = [i \in 0..Len(entries) |-> Step(held, i)]
  BY <1>10
<1> HIDE DEF held
<1>12. \A i \in 0..len : held[i] = Step(held, i)
  BY <1>3, <1>11
\* What is kept of the first k memories is some of them.
<1> DEFINE Part(e, k) == /\ e \in Keepable(twins)
                         /\ \A j \in DOMAIN e : \E i \in 1..k : e[j] = entries[i]
<1> DEFINE T == {k \in Nat : k <= len => Part(held[k], k)}
<1>13. 0 \in T
  <2>1. held[0] = << >>
    BY <1>3, <1>12 DEF Step
  <2>2. << >> \in Keepable(twins)
    BY DEF Keepable, Twins
  <2> QED
    BY <2>1, <2>2
<1>14. ASSUME NEW k \in Nat, k \in T PROVE k + 1 \in T
  <2> SUFFICES ASSUME k + 1 <= len PROVE Part(held[k + 1], k + 1)
    OBVIOUS
  <2>1. k <= len /\ k + 1 \in 1..len /\ k + 1 \in 0..len /\ (k + 1) - 1 = k /\ k + 1 # 0
    BY <1>3
  <2>2. PICK e : e = held[k] /\ Part(e, k)
    BY <1>14, <2>1
  <2> HIDE DEF T
  <2>3. held[k + 1] = IF entries[k + 1].id = id THEN e ELSE Append(e, entries[k + 1])
    BY <1>12, <2>1, <2>2 DEF Step
  <2>4. 1..k \subseteq 1..(k + 1)
    OBVIOUS
  <2>5. CASE entries[k + 1].id = id
    BY <2>2, <2>3, <2>4, <2>5
  <2>6. CASE entries[k + 1].id # id
    <3>1. e \in Seq(AnyMemory) /\ entries[k + 1] \in AnyMemory
      BY <1>3, <2>1, <2>2 DEF Keepable
    <3>2. ~twins => \A j \in DOMAIN e : Folded(e[j]) # Folded(entries[k + 1])
      <4> SUFFICES ASSUME ~twins, NEW j \in DOMAIN e
                   PROVE  Folded(e[j]) # Folded(entries[k + 1])
        OBVIOUS
      <4>1. PICK i \in 1..k : e[j] = entries[i]
        BY <2>2
      <4>2. i \in 1..len /\ i < k + 1
        BY <1>3, <2>1
      <4>3. Folded(entries[i]) # Folded(entries[k + 1])
        BY <1>3, <2>1, <4>2
      <4> QED
        BY <4>1, <4>3
    <3>7. e \in Keepable(twins) /\ Folded(entries[k + 1]) # Bad
      BY <1>3, <2>1, <2>2
    <3>3. Append(e, entries[k + 1]) \in Keepable(twins)
      BY <3>1, <3>2, <3>7, AppendIsKeepable
    <3>4. PICK size \in Nat : size = Len(e)
      BY <3>1
    <3>5. /\ DOMAIN Append(e, entries[k + 1]) = 1..(size + 1) /\ DOMAIN e = 1..size
          /\ Append(e, entries[k + 1])[size + 1] = entries[k + 1]
          /\ \A j \in 1..size : Append(e, entries[k + 1])[j] = e[j]
      BY <3>1, <3>4, AppendProperties
    <3>6. ASSUME NEW j \in 1..(size + 1)
          PROVE  \E i \in 1..(k + 1) : Append(e, entries[k + 1])[j] = entries[i]
      <4>1. CASE j = size + 1
        BY <2>1, <3>5, <4>1
      <4>2. CASE j # size + 1
        <5>1. j \in 1..size
          BY <3>4, <4>2
        <5> QED
          BY <2>2, <2>4, <3>5, <5>1
      <4> QED
        BY <4>1, <4>2
    <3> QED
      BY <2>3, <2>6, <3>3, <3>5, <3>6
  <2> QED
    BY <2>5, <2>6
<1>15. Nat \subseteq T
  <2> HIDE DEF T
  <2> QED
    BY <1>13, <1>14, SetInduction
<1>16. Part(held[len], len)
  BY <1>3, <1>15
<1> QED
  BY <1>6, <1>16

MemoryFiles == [kind : {"none", "damaged", "whole"}, entries : Seq(AnyMemory)]

MemoryInv ==
    /\ memoryFile \in MemoryFiles /\ before \in MemoryFiles
    /\ memories \in [step : {"off", "idle", "write", "rename", "adopt"},
                     entries : Seq(AnyMemory), context : Seq(AnyMemory), next : Seq(AnyMemory),
                     available : BOOLEAN, starts : BOOLEAN,
                     answer : {"none", "failed", "nothing", "changed"}, twins : BOOLEAN]
    /\ memories.entries \in Keepable(memories.twins)
    /\ memories.next \in Keepable(memories.twins)
    /\ memories.step = "idle" =>
          /\ ~memories.starts
          /\ ~memories.available => memoryFile = before
          /\ memories.available => /\ memoryFile = Holding(memories.entries)
                                   /\ memories.context = memories.entries
          /\ memories.answer \in {"failed", "nothing"} => memoryFile = before
    /\ memories.step \in {"write", "rename", "adopt"} => memories.available
    /\ memories.step \in {"write", "rename"} =>
          /\ memoryFile = before
          /\ ~memories.starts => /\ before = Holding(memories.entries)
                                 /\ memories.context = memories.entries
    /\ memories.step \in {"rename", "adopt"} => Len(memories.next) <= MaxMemories
    /\ memories.step = "adopt" => memoryFile = Holding(memories.next)

LEMMA NothingIsKeepable == \A twins \in BOOLEAN : << >> \in Keepable(twins)
  BY DEF Keepable, Twins

LEMMA FoundFiles == Found \subseteq MemoryFiles
  BY MemoriesAssumption DEF MemoryFiles

LEMMA MemoriesStart ==
  ASSUME MemoriesInit
  PROVE  MemoryInv
<1>1. memoryFile \in MemoryFiles /\ before \in MemoryFiles
  BY FoundFiles DEF MemoriesInit, NoMemories, MemoryFiles
<1>2. memories = Off
  BY DEF MemoriesInit
<1>3. /\ Off \in [step : {"off", "idle", "write", "rename", "adopt"},
                entries : Seq(AnyMemory), context : Seq(AnyMemory), next : Seq(AnyMemory),
                available : BOOLEAN, starts : BOOLEAN,
                answer : {"none", "failed", "nothing", "changed"}, twins : BOOLEAN]
      /\ Off.step = "off" /\ Off.entries = << >> /\ Off.next = << >> /\ Off.twins \in BOOLEAN
  BY DEF Off
<1> QED
  BY <1>1, <1>2, <1>3, NothingIsKeepable DEF MemoryInv

LEMMA MemoriesStep ==
  ASSUME MemoryInv, MemoriesNext
  PROVE  MemoryInv'
<1> DEFINE Engine == [step : {"off", "idle", "write", "rename", "adopt"},
                      entries : Seq(AnyMemory), context : Seq(AnyMemory),
                      next : Seq(AnyMemory), available : BOOLEAN, starts : BOOLEAN,
                      answer : {"none", "failed", "nothing", "changed"}, twins : BOOLEAN]
<1>1. /\ memoryFile \in MemoryFiles /\ before \in MemoryFiles /\ memories \in Engine
      /\ memories.entries \in Keepable(memories.twins)
      /\ memories.next \in Keepable(memories.twins)
  BY DEF MemoryInv
<1>2. Off \in Engine
  BY DEF Off
\* A record with these fields is a state of the engine.
<1>12. ASSUME NEW r, NEW s \in {"off", "idle", "write", "rename", "adopt"},
              NEW e \in Seq(AnyMemory), NEW c \in Seq(AnyMemory), NEW x \in Seq(AnyMemory),
              NEW u \in BOOLEAN, NEW v \in BOOLEAN, NEW w \in BOOLEAN,
              NEW how \in {"none", "failed", "nothing", "changed"},
              r = [step |-> s, entries |-> e, context |-> c, next |-> x, available |-> u,
                   starts |-> v, answer |-> how, twins |-> w]
       PROVE  /\ r \in Engine /\ r.step = s /\ r.entries = e /\ r.context = c /\ r.next = x
              /\ r.available = u /\ r.starts = v /\ r.answer = how /\ r.twins = w
  BY <1>12
<1>13. << >> \in Seq(AnyMemory)
  OBVIOUS
<1>3. CASE OpenMemories
  <2>1. memories' = Loaded(memoryFile) /\ before' = memoryFile /\ memoryFile' = memoryFile
    BY <1>3 DEF OpenMemories
  <2>2. CASE memoryFile.kind = "none"
    <3>1. memories' = [Off EXCEPT !.step = "write", !.starts = TRUE]
      BY <2>1, <2>2 DEF Loaded, Loadable
    <3>4. memories' = [step |-> "write", entries |-> << >>, context |-> << >>, next |-> << >>,
                       available |-> TRUE, starts |-> TRUE, answer |-> "none", twins |-> FALSE]
      BY <3>1 DEF Off
    <3>2. memories' \in Engine
      BY <1>12, <1>13, <3>4
    <3>3. /\ memories'.step = "write" /\ memories'.starts = TRUE
          /\ memories'.entries = << >> /\ memories'.next = << >>
          /\ memories'.available = TRUE /\ memories'.twins = FALSE
      BY <3>1 DEF Off
    <3> HIDE DEF Engine
    <3> QED
      BY <1>1, <2>1, <3>2, <3>3, NothingIsKeepable DEF MemoryInv, Engine
  <2>3. CASE memoryFile.kind # "none" /\ Loadable(memoryFile)
    <3>1. /\ memories' = [Off EXCEPT !.step = "idle", !.entries = memoryFile.entries,
                              !.context = memoryFile.entries, !.twins = Twins(memoryFile.entries)]
          /\ memoryFile = Holding(memoryFile.entries)
      BY <1>1, <2>1, <2>3 DEF Loaded, Loadable, Holding, MemoryFiles
    <3>2. Twins(memoryFile.entries) \in BOOLEAN
      BY DEF Twins
    <3>3. memoryFile.entries \in Seq(AnyMemory)
      BY <1>1 DEF MemoryFiles
    <3>4. /\ memories' \in Engine /\ memories'.step = "idle" /\ memories'.starts = FALSE
          /\ memories'.entries = memoryFile.entries /\ memories'.context = memoryFile.entries
          /\ memories'.next = << >> /\ memories'.available = TRUE /\ memories'.answer = "none"
          /\ memories'.twins = Twins(memoryFile.entries)
      <4> DEFINE two == Twins(memoryFile.entries)
      <4> HIDE DEF Engine, two
      <4>1. memories' = [step |-> "idle", entries |-> memoryFile.entries,
                         context |-> memoryFile.entries, next |-> << >>, available |-> TRUE,
                         starts |-> FALSE, answer |-> "none", twins |-> two]
        BY <3>1 DEF Off, two
      <4>2. two \in BOOLEAN
        BY <3>2 DEF two
      <4>3. /\ memories' \in Engine /\ memories'.step = "idle" /\ memories'.starts = FALSE
            /\ memories'.entries = memoryFile.entries
            /\ memories'.context = memoryFile.entries
            /\ memories'.next = << >> /\ memories'.available = TRUE
            /\ memories'.answer = "none" /\ memories'.twins = two
        BY <1>13, <3>3, <4>1, <4>2 DEF Engine
      <4> QED
        BY <4>3 DEF two
    <3>5. memoryFile.entries \in Keepable(Twins(memoryFile.entries))
      BY <2>3, <3>3 DEF Keepable, Loadable
    <3> HIDE DEF Engine
    <3> QED
      BY <1>1, <2>1, <3>1, <3>2, <3>4, <3>5, NothingIsKeepable DEF MemoryInv, Engine
  <2>4. CASE memoryFile.kind # "none" /\ ~Loadable(memoryFile)
    <3>1. memories' = [Off EXCEPT !.step = "idle", !.available = FALSE]
      BY <2>1, <2>4 DEF Loaded
    <3>2. /\ memories' \in Engine /\ memories'.step = "idle" /\ memories'.starts = FALSE
          /\ memories'.entries = << >> /\ memories'.next = << >>
          /\ memories'.available = FALSE /\ memories'.twins = FALSE
          /\ memories'.answer = "none"
      <4>1. memories' = [step |-> "idle", entries |-> << >>, context |-> << >>, next |-> << >>,
                         available |-> FALSE, starts |-> FALSE, answer |-> "none",
                         twins |-> FALSE]
        BY <3>1 DEF Off
      <4> HIDE DEF Engine
      <4> QED
        BY <1>12, <1>13, <4>1
    <3> HIDE DEF Engine
    <3> QED
      BY <1>1, <2>1, <3>2, NothingIsKeepable DEF MemoryInv, Engine
  <2> QED
    BY <2>2, <2>3, <2>4
<1>4. CASE OperateMemories
  <2>1. before' = memoryFile /\ memoryFile' = memoryFile /\ memories.step = "idle"
    BY <1>4 DEF OperateMemories
  <2>2. ASSUME NEW how \in {"failed", "nothing"}, Answers(how)
        PROVE  MemoryInv'
    <3>1. memories' = [memories EXCEPT !.answer = how]
      BY <2>2 DEF Answers
    <3>2. /\ memories' \in Engine /\ memories'.step = "idle" /\ memories'.starts = memories.starts
          /\ memories'.entries = memories.entries /\ memories'.next = memories.next
          /\ memories'.context = memories.context /\ memories'.available = memories.available
          /\ memories'.twins = memories.twins
      BY <1>1, <2>1, <3>1
    <3> HIDE DEF Engine
    <3> QED
      BY <1>1, <2>1, <3>2 DEF MemoryInv, Engine
  <2>3. ASSUME NEW list \in Keepable(memories.twins), SavesNext(list), memories.available
        PROVE  MemoryInv'
    <3>1. memories' = [memories EXCEPT !.step = "write", !.next = list]
      BY <2>3 DEF SavesNext
    <3>2. list \in Seq(AnyMemory)
      BY DEF Keepable
    <3>3. /\ memories' \in Engine /\ memories'.step = "write" /\ memories'.starts = memories.starts
          /\ memories'.entries = memories.entries /\ memories'.next = list
          /\ memories'.context = memories.context /\ memories'.available
          /\ memories'.twins = memories.twins
      BY <1>1, <2>3, <3>1, <3>2
    <3> HIDE DEF Engine
    <3> QED
      BY <1>1, <2>1, <2>3, <3>3 DEF MemoryInv, Engine
  <2>4. CASE \E recalls \in Batches : AddMany(recalls)
    <3>1. PICK recalls \in Batches : AddMany(recalls)
      BY <2>4
    <3>2. recalls \in Seq(AnyMemory)
      <4>1. Memory \subseteq AnyMemory
        BY DEF AnyMemory
      <4>2. CASE \E x \in Memory : recalls = <<x>>
        BY <4>1, <4>2
      <4>3. CASE \E x, y \in Memory : recalls = <<x, y>>
        BY <4>1, <4>3
      <4> QED
        BY <4>2, <4>3 DEF Batches
    <3>3. CASE ~memories.available \/ \E i \in DOMAIN recalls : Folded(recalls[i]) = Bad
      BY <2>2, <3>1, <3>3 DEF AddMany
    <3>4. CASE memories.available /\ \A i \in DOMAIN recalls : Folded(recalls[i]) # Bad
      <4>1. Added(memories.entries, recalls) \in Keepable(memories.twins)
        BY <1>1, <3>2, <3>4, AddedIsKeepable
      <4> QED
        BY <2>2, <2>3, <3>1, <3>4, <4>1 DEF AddMany
    <3> QED
      BY <3>3, <3>4
  <2>5. CASE \E id \in {one.id : one \in Memory} : DeleteMemory(id)
    <3>1. PICK id : DeleteMemory(id)
      BY <2>5
    <3>2. Without(memories.entries, id) \in Keepable(memories.twins)
      BY <1>1, WithoutIsKeepable
    <3> QED
      BY <2>2, <2>3, <3>1, <3>2 DEF DeleteMemory
  <2>6. CASE ClearMemories
    BY <1>1, <2>2, <2>3, <2>6, NothingIsKeepable DEF ClearMemories
  <2> QED
    BY <1>4, <2>4, <2>5, <2>6 DEF OperateMemories
<1>5. ASSUME SavingFails, memories.step \in {"write", "rename"}, UNCHANGED <<memoryFile, before>>
      PROVE  MemoryInv'
  <2>1. memories' = [memories EXCEPT !.step = "idle", !.next = << >>, !.answer = "failed",
                                     !.available = ~memories.starts, !.starts = FALSE]
    BY <1>5 DEF SavingFails
  <2>3. PICK usable \in BOOLEAN : usable = ~memories.starts
    OBVIOUS
  <2>4. memories' = [memories EXCEPT !.step = "idle", !.next = << >>, !.answer = "failed",
                                     !.available = usable, !.starts = FALSE]
    BY <2>1, <2>3
  <2>2. /\ memories' \in Engine /\ memories'.step = "idle" /\ memories'.starts = FALSE
        /\ memories'.entries = memories.entries /\ memories'.next = << >>
        /\ memories'.context = memories.context /\ memories'.available = usable
        /\ memories'.twins = memories.twins
    <3>1. /\ memories.step \in {"off", "idle", "write", "rename", "adopt"}
          /\ memories.entries \in Seq(AnyMemory) /\ memories.context \in Seq(AnyMemory)
          /\ memories.twins \in BOOLEAN
      BY <1>1
    <3>2. memories' = [step |-> "idle", entries |-> memories.entries,
                       context |-> memories.context, next |-> << >>, available |-> usable,
                       starts |-> FALSE, answer |-> "failed", twins |-> memories.twins]
      BY <1>1, <2>4
    <3> QED
      BY <1>13, <2>3, <3>1, <3>2
  <2> HIDE DEF Engine
  <2> QED
    BY <1>1, <1>5, <2>2, <2>3, NothingIsKeepable DEF MemoryInv, Engine
<1>6. ASSUME NEW s \in {"rename", "adopt"}, memories.step \in {"write", "rename"},
             memories' = [memories EXCEPT !.step = s], before' = before,
             Len(memories.next) <= MaxMemories,
             memoryFile' = IF s = "adopt" THEN Holding(memories.next) ELSE memoryFile
      PROVE  MemoryInv'
  <2>1. /\ memories' \in Engine /\ memories'.step = s /\ memories'.starts = memories.starts
        /\ memories'.entries = memories.entries /\ memories'.next = memories.next
        /\ memories'.context = memories.context /\ memories'.available = memories.available
        /\ memories'.twins = memories.twins
    BY <1>1, <1>6
  <2>2. Holding(memories.next) \in MemoryFiles
    BY <1>1 DEF Holding, MemoryFiles
  <2> HIDE DEF Engine
  <2> QED
    BY <1>1, <1>6, <2>1, <2>2 DEF MemoryInv, Engine
<1>7. CASE WriteBeside
  BY <1>5, <1>6, <1>7 DEF WriteBeside
<1>8. CASE ReplaceOld
  <2>1. Len(memories.next) <= MaxMemories
    BY <1>8 DEF ReplaceOld, MemoryInv
  <2> QED
    BY <1>5, <1>6, <1>8, <2>1 DEF ReplaceOld
<1>9. CASE Adopt
  <2>1. /\ memories' = [memories EXCEPT !.step = "idle", !.entries = memories.next,
                            !.context = memories.next, !.next = << >>,
                            !.answer = "changed", !.starts = FALSE]
        /\ UNCHANGED <<memoryFile, before>> /\ memories.step = "adopt"
    BY <1>9 DEF Adopt
  <2>2. /\ memories' \in Engine /\ memories'.step = "idle" /\ memories'.starts = FALSE
        /\ memories'.entries = memories.next /\ memories'.next = << >>
        /\ memories'.context = memories.next /\ memories'.available = memories.available
        /\ memories'.twins = memories.twins /\ memories'.answer = "changed"
    <3>1. /\ memories.next \in Seq(AnyMemory) /\ memories.twins \in BOOLEAN
          /\ memories.available \in BOOLEAN
      BY <1>1
    <3>2. memories' = [step |-> "idle", entries |-> memories.next, context |-> memories.next,
                       next |-> << >>, available |-> memories.available,
                       starts |-> FALSE, answer |-> "changed", twins |-> memories.twins]
      BY <1>1, <2>1
    <3> QED
      BY <1>13, <3>1, <3>2
  <2> HIDE DEF Engine
  <2> QED
    BY <1>1, <2>1, <2>2, NothingIsKeepable DEF MemoryInv, Engine
<1>10. CASE memories' = Off /\ UNCHANGED <<memoryFile, before>>
  <2>1. /\ Off.step = "off" /\ Off.entries = << >> /\ Off.next = << >> /\ Off.twins \in BOOLEAN
    BY DEF Off
  <2> HIDE DEF Engine
  <2> QED
    BY <1>1, <1>2, <1>10, <2>1, NothingIsKeepable DEF MemoryInv, Engine
<1>11. CASE ChangeFile
  <2>1. memoryFile' \in MemoryFiles /\ before' = memoryFile' /\ memories.step = "off"
        /\ memories' = memories
    BY <1>11, FoundFiles DEF ChangeFile
  <2> QED
    BY <1>1, <2>1 DEF MemoryInv
<1> QED
  BY <1>3, <1>4, <1>7, <1>8, <1>9, <1>10, <1>11 DEF MemoriesNext, EngineEnds

LEMMA MemoriesStand ==
  ASSUME MemoryInv, UNCHANGED memoryVars
  PROVE  MemoryInv'
BY DEF MemoryInv, memoryVars

LEMMA MemoriesSafe ==
  ASSUME MemoryInv
  PROVE  MemoriesAreKept
<1>1. DamagedIsPreserved /\ EngineAgreesWithFile
  BY DEF MemoryInv, DamagedIsPreserved, EngineAgreesWithFile
<1>2. NoTwins
  BY DEF MemoryInv, NoTwins, Keepable
<1>3. memories.step = "adopt" => Loadable(memoryFile)
  <2> SUFFICES ASSUME memories.step = "adopt" PROVE Loadable(memoryFile)
    OBVIOUS
  <2>1. /\ memoryFile = Holding(memories.next) /\ Len(memories.next) <= MaxMemories
        /\ memories.next \in Keepable(memories.twins)
    BY DEF MemoryInv
  <2>2. memoryFile.kind = "whole" /\ memoryFile.entries = memories.next
    BY <2>1 DEF Holding
  <2> QED
    BY <2>1, <2>2 DEF Loadable, Keepable
<1>4. OperationsAreWhole
  BY <1>3 DEF MemoryInv, OperationsAreWhole
<1> QED
  BY <1>1, <1>2, <1>4 DEF MemoriesAreKept

-----------------------------------------------------------------------------
(***************************************************************************)
(* The context of the session.                                             *)
(***************************************************************************)
Message == [number : Nat, tokens : Nat]

\* f sums up the tokens of the messages, place by place.
PrefixSums(f, messages) ==
    /\ f \in [0..Len(messages) -> Nat] /\ f[0] = 0
    /\ \A i \in 1..Len(messages) : f[i] = f[i - 1] + messages[i].tokens

LEMMA TokensArePrefixSum ==
  ASSUME NEW messages \in Seq(Message)
  PROVE  \E f : PrefixSums(f, messages) /\ Tokens(messages) = f[Len(messages)]
<1>1. PICK len \in Nat : len = Len(messages)
  OBVIOUS
<1>2. len \in Nat /\ len = Len(messages) /\ \A i \in 1..len : messages[i].tokens \in Nat
  <2>1. \A i \in 1..len : messages[i] \in Message
    BY <1>1
  <2> QED
    BY <1>1, <2>1 DEF Message
<1> DEFINE by == [p \in Nat \X (1..len) |-> p[1] + messages[p[2]].tokens]
<1>3. /\ by \in [Nat \X (1..len) -> Nat]
      /\ \A x \in Nat, i \in 1..len : by[<<x, i>>] = x + messages[i].tokens
  BY <1>2
<1> HIDE DEF by
<1> DEFINE Step(h, i) == IF i = 0 THEN 0 ELSE h[i - 1] + messages[i].tokens
<1> DEFINE sum == CHOOSE h : h = [i \in 0..Len(messages) |-> Step(h, i)]
<1>4. Tokens(messages) = sum[len]
  BY <1>2 DEF Tokens
<1>5. PICK f \in [0..len -> Nat] : GoesBy(f, len, 0, by)
  BY <1>2, <1>3, RecursionExists
<1>6. \A i \in 0..len : f[i] = Step(f, i)
  <2> SUFFICES ASSUME NEW i \in 0..len PROVE f[i] = Step(f, i)
    OBVIOUS
  <2>1. CASE i = 0
    BY <1>5, <2>1 DEF GoesBy
  <2>2. CASE i # 0
    <3>3. i \in 1..len /\ i - 1 \in 0..len
      BY <1>2, <2>2
    <3>1. i \in 1..len /\ f[i - 1] \in Nat
      BY <3>3
    <3>2. f[i] = by[<<f[i - 1], i>>]
      BY <1>5, <3>1 DEF GoesBy
    <3> QED
      BY <1>3, <2>2, <3>1, <3>2
  <2> QED
    BY <2>1, <2>2
<1> HIDE DEF Step
<1>7. f = [i \in 0..Len(messages) |-> Step(f, i)]
  BY <1>1, <1>5, <1>6
<1>8. sum = [i \in 0..Len(messages) |-> Step(sum, i)]
  BY <1>7
<1> HIDE DEF sum
<1>9. DOMAIN sum = 0..len /\ \A i \in 0..len : sum[i] = Step(sum, i)
  BY <1>2, <1>8
<1>10. sum[0] = 0
  BY <1>2, <1>9 DEF Step
<1>11. \A i \in 1..len : sum[i] = sum[i - 1] + messages[i].tokens
  <2> SUFFICES ASSUME NEW i \in 1..len PROVE sum[i] = sum[i - 1] + messages[i].tokens
    OBVIOUS
  <2>1. i \in 0..len /\ i # 0
    BY <1>2
  <2> QED
    BY <1>9, <2>1 DEF Step
<1>12. ASSUME NEW i \in 1..len, sum[i - 1] \in Nat PROVE sum[i] \in Nat
  <2>1. sum[i] = sum[i - 1] + messages[i].tokens /\ messages[i].tokens \in Nat
    BY <1>2, <1>11
  <2>2. PICK x \in Nat, y \in Nat : x = sum[i - 1] /\ y = messages[i].tokens
    BY <1>12, <2>1
  <2>4. x \in Nat /\ y \in Nat
    BY <2>2
  <2>5. x + y \in Nat
    BY <2>4
  <2>3. sum[i] = x + y
    BY <2>1, <2>2
  <2> QED
    BY <2>3, <2>5
<1>16. sum[0] \in Nat
  BY <1>10
<1>13. \A i \in 0..len : sum[i] \in Nat
  BY <1>2, <1>12, <1>16, RecursionStays
<1>14. sum = [i \in 0..len |-> sum[i]]
  BY <1>2, <1>8
<1>15. sum \in [0..len -> Nat]
  BY <1>13, <1>14
<1> QED
  BY <1>2, <1>4, <1>10, <1>11, <1>15 DEF PrefixSums

LEMMA TokensOfNothing == Tokens(<< >>) = 0
<1>1. << >> \in Seq(Message) /\ Len(<< >>) = 0
  OBVIOUS
<1>2. PICK f : PrefixSums(f, << >>) /\ Tokens(<< >>) = f[0]
  BY <1>1, TokensArePrefixSum
<1> QED
  BY <1>2 DEF PrefixSums

\* Two sums along the same messages.
LEMMA SumsAgree ==
  ASSUME NEW len \in Nat, NEW first \in Nat, NEW f \in [0..len -> Nat], NEW g \in [0..len -> Nat],
         f[0] = first, g[0] = 0,
         \A i \in 1..len : f[i] - f[i - 1] = g[i] - g[i - 1]
  PROVE  \A i \in 0..len : f[i] = first + g[i]
<1> DEFINE T == {k \in Nat : k <= len => f[k] = first + g[k]}
<1>1. 0 \in T
  OBVIOUS
<1>2. ASSUME NEW k \in Nat, k \in T PROVE k + 1 \in T
  <2> SUFFICES ASSUME k + 1 <= len PROVE f[k + 1] = first + g[k + 1]
    OBVIOUS
  <2>1. k + 1 \in 1..len /\ k \in 0..len /\ k + 1 \in 0..len /\ (k + 1) - 1 = k
    OBVIOUS
  <2>2. f[k] = first + g[k]
    BY <1>2, <2>1
  <2>3. f[k + 1] - f[k] = g[k + 1] - g[k]
    BY <2>1
  <2>4. f[k + 1] \in Nat /\ f[k] \in Nat /\ g[k + 1] \in Nat /\ g[k] \in Nat
    BY <2>1
  <2>5. PICK x \in Nat, y \in Nat, z \in Nat, w \in Nat :
           x = f[k + 1] /\ y = f[k] /\ z = g[k + 1] /\ w = g[k]
    BY <2>4
  <2>6. x \in Nat /\ y \in Nat /\ z \in Nat /\ w \in Nat /\ first \in Nat
    BY <2>5
  <2>7. y = first + w /\ x - y = z - w
    BY <2>2, <2>3, <2>5
  <2>8. x = first + z
    BY <2>6, <2>7
  <2> QED
    BY <2>5, <2>8
<1>3. Nat \subseteq T
  <2> HIDE DEF T
  <2> QED
    BY <1>1, <1>2, SetInduction
<1> QED
  BY <1>3

\* A message adds its tokens.
LEMMA TokensAdd ==
  ASSUME NEW messages \in Seq(Message), NEW one \in Message
  PROVE  /\ Tokens(messages) \in Nat
         /\ Tokens(Append(messages, one)) = Tokens(messages) + one.tokens
<1>1. PICK len \in Nat : len = Len(messages)
  OBVIOUS
<1>2. PICK longer : longer = Append(messages, one)
  OBVIOUS
<1>3. /\ longer \in Seq(Message) /\ Len(longer) = len + 1
      /\ longer[len + 1] = one /\ \A i \in 1..len : longer[i] = messages[i]
  BY <1>1, <1>2, AppendProperties
<1>4. PICK f : PrefixSums(f, longer) /\ Tokens(longer) = f[len + 1]
  BY <1>3, TokensArePrefixSum
<1>5. PICK g : PrefixSums(g, messages) /\ Tokens(messages) = g[len]
  BY <1>1, TokensArePrefixSum
<1>6. /\ f \in [0..(len + 1) -> Nat] /\ f[0] = 0
      /\ \A i \in 1..(len + 1) : f[i] = f[i - 1] + longer[i].tokens
  BY <1>3, <1>4 DEF PrefixSums
<1>7. /\ g \in [0..len -> Nat] /\ g[0] = 0
      /\ \A i \in 1..len : g[i] = g[i - 1] + messages[i].tokens
  BY <1>1, <1>5 DEF PrefixSums
<1>8. PICK part1 \in [0..len -> Nat] : \A i \in 0..len : part1[i] = f[i]
  <2> DEFINE h == [i \in 0..len |-> f[i]]
  <2>1. \A i \in 0..len : f[i] \in Nat
    <3> SUFFICES ASSUME NEW i \in 0..len PROVE f[i] \in Nat
      OBVIOUS
    <3>1. i \in 0..(len + 1)
      BY <1>1
    <3> QED
      BY <1>6, <3>1
  <2>2. h \in [0..len -> Nat] /\ \A i \in 0..len : h[i] = f[i]
    BY <2>1
  <2> QED
    BY <2>2
<1>9. \A i \in 1..len : messages[i].tokens \in Nat
  <2>1. \A i \in 1..len : messages[i] \in Message
    BY <1>1
  <2> QED
    BY <2>1 DEF Message
<1>10. \A i \in 1..len : part1[i] - part1[i - 1] = g[i] - g[i - 1]
  <2> SUFFICES ASSUME NEW i \in 1..len PROVE part1[i] - part1[i - 1] = g[i] - g[i - 1]
    OBVIOUS
  <2>1. i \in 1..(len + 1) /\ i - 1 \in 0..len /\ i \in 0..len
    BY <1>1
  <2>2. /\ part1[i] = part1[i - 1] + messages[i].tokens
        /\ g[i] = g[i - 1] + messages[i].tokens
    BY <1>3, <1>6, <1>7, <1>8, <2>1
  <2>3. part1[i - 1] \in Nat /\ g[i - 1] \in Nat /\ messages[i].tokens \in Nat
    BY <1>7, <1>8, <1>9, <2>1
  <2>4. PICK x \in Nat, y \in Nat, z \in Nat :
           x = part1[i - 1] /\ y = g[i - 1] /\ z = messages[i].tokens
    BY <2>3
  <2>5. x \in Nat /\ y \in Nat /\ z \in Nat
    BY <2>4
  <2>6. (x + z) - x = (y + z) - y
    BY <2>5
  <2>7. part1[i] = x + z /\ g[i] = y + z
    BY <2>2, <2>4
  <2> QED
    BY <2>4, <2>6, <2>7
<1>14. part1[0] = 0
  <2>1. 0 \in 0..len
    BY <1>1
  <2> QED
    BY <1>6, <1>8, <2>1
<1>11. \A i \in 0..len : part1[i] = 0 + g[i]
  <2>1. len \in Nat /\ 0 \in Nat
    BY <1>1
  <2>2. part1 \in [0..len -> Nat] /\ g \in [0..len -> Nat] /\ g[0] = 0
    BY <1>7, <1>8
  <2> QED
    BY <1>10, <1>14, <2>1, <2>2, SumsAgree
<1>12. f[len] = g[len] /\ g[len] \in Nat
  <2>1. len \in 0..len
    BY <1>1
  <2>2. part1[len] = 0 + g[len] /\ g[len] \in Nat /\ part1[len] = f[len]
    BY <1>7, <1>8, <1>11, <2>1
  <2> QED
    BY <2>2
<1>13. f[len + 1] = f[len] + one.tokens
  <2>1. len + 1 \in 1..(len + 1) /\ (len + 1) - 1 = len
    BY <1>1
  <2> QED
    BY <1>3, <1>6, <2>1
<1> QED
  BY <1>2, <1>4, <1>5, <1>12, <1>13

\* Each message that goes gives back what it added.
LEMMA GivenBackIsRest ==
  ASSUME NEW messages \in Seq(Message), NEW gone \in 0..Len(messages)
  PROVE  GivenBack(Tokens(messages), SubSeq(messages, 1, gone))
            = Tokens(SubSeq(messages, gone + 1, Len(messages)))
<1>1. PICK len \in Nat : len = Len(messages)
  OBVIOUS
<1>2. len \in Nat /\ gone \in Nat /\ gone <= len /\ len - gone \in Nat
      /\ \A i \in 1..len : messages[i] \in Message /\ messages[i].tokens \in Nat
  <2>1. \A i \in 1..len : messages[i] \in Message
    BY <1>1
  <2> QED
    BY <1>1, <2>1 DEF Message
<1>3. PICK old, rest : /\ old = SubSeq(messages, 1, gone)
                       /\ rest = SubSeq(messages, gone + 1, len)
  OBVIOUS
<1>4. /\ Len(old) = gone /\ \A i \in 1..gone : old[i] = messages[i]
  <2>1. 1 \in Int /\ gone \in Int /\ \A i \in 1..gone : messages[i] \in Message
    BY <1>2
  <2>2. /\ Len(old) = IF 1 <= gone THEN gone - 1 + 1 ELSE 0
        /\ \A i \in 1..(gone - 1 + 1) : old[i] = messages[1 + i - 1]
    BY <1>3, <2>1, SubSeqProperties
  <2>3. gone - 1 + 1 = gone /\ \A i \in 1..gone : 1 + i - 1 = i
    BY <1>2
  <2> QED
    BY <1>2, <2>2, <2>3
<1>5. /\ rest \in Seq(Message) /\ Len(rest) = len - gone
      /\ \A i \in 1..(len - gone) : rest[i] = messages[gone + i]
  <2>1. gone + 1 \in Int /\ len \in Int /\ \A i \in (gone + 1)..len : messages[i] \in Message
    BY <1>2
  <2>2. /\ rest \in Seq(Message)
        /\ Len(rest) = IF gone + 1 <= len THEN len - (gone + 1) + 1 ELSE 0
        /\ \A i \in 1..(len - (gone + 1) + 1) : rest[i] = messages[(gone + 1) + i - 1]
    BY <1>3, <2>1, SubSeqProperties
  <2>3. len - (gone + 1) + 1 = len - gone
        /\ \A i \in 1..(len - gone) : (gone + 1) + i - 1 = gone + i
    BY <1>2
  <2> QED
    BY <1>2, <2>2, <2>3
<1>6. PICK f : PrefixSums(f, messages) /\ Tokens(messages) = f[len]
  BY <1>1, TokensArePrefixSum
<1>7. PICK g : PrefixSums(g, rest) /\ Tokens(rest) = g[len - gone]
  BY <1>5, TokensArePrefixSum
<1>8. /\ f \in [0..len -> Nat] /\ f[0] = 0
      /\ \A i \in 1..len : f[i] = f[i - 1] + messages[i].tokens
  BY <1>1, <1>6 DEF PrefixSums
<1>9. /\ g \in [0..(len - gone) -> Nat] /\ g[0] = 0
      /\ \A i \in 1..(len - gone) : g[i] = g[i - 1] + rest[i].tokens
  BY <1>5, <1>7 DEF PrefixSums
\* The rest sums up to what the messages that go leave.
<1>10. f[len] = f[gone] + g[len - gone]
  <2>1. PICK tail \in [0..(len - gone) -> Nat] :
           \A i \in 0..(len - gone) : tail[i] = f[gone + i]
    <3> DEFINE h == [i \in 0..(len - gone) |-> f[gone + i]]
    <3>1. \A i \in 0..(len - gone) : f[gone + i] \in Nat
      <4> SUFFICES ASSUME NEW i \in 0..(len - gone) PROVE f[gone + i] \in Nat
        OBVIOUS
      <4>1. gone + i \in 0..len
        BY <1>2
      <4> QED
        BY <1>8, <4>1
    <3>2. h \in [0..(len - gone) -> Nat] /\ \A i \in 0..(len - gone) : h[i] = f[gone + i]
      BY <3>1
    <3> QED
      BY <3>2
  <2>2. \A i \in 1..(len - gone) : tail[i] - tail[i - 1] = g[i] - g[i - 1]
    <3> SUFFICES ASSUME NEW i \in 1..(len - gone)
                 PROVE  tail[i] - tail[i - 1] = g[i] - g[i - 1]
      OBVIOUS
    <3>1. /\ gone + i \in 1..len /\ i - 1 \in 0..(len - gone) /\ i \in 0..(len - gone)
          /\ gone + i - 1 = gone + (i - 1)
      BY <1>2
    <3>2. f[gone + i] = f[gone + i - 1] + messages[gone + i].tokens
      BY <1>8, <3>1
    <3>4. g[i] = g[i - 1] + messages[gone + i].tokens
      BY <1>5, <1>9
    <3>5. tail[i] = f[gone + i] /\ tail[i - 1] = f[gone + i - 1]
      BY <2>1, <3>1
    <3>3. tail[i - 1] \in Nat /\ g[i - 1] \in Nat /\ messages[gone + i].tokens \in Nat
      BY <1>2, <1>9, <2>1, <3>1
    <3>6. PICK x \in Nat, y \in Nat, z \in Nat :
             x = tail[i - 1] /\ y = g[i - 1] /\ z = messages[gone + i].tokens
      BY <3>3
    <3>7. x \in Nat /\ y \in Nat /\ z \in Nat
      BY <3>6
    <3>8. (x + z) - x = (y + z) - y
      BY <3>7
    <3>9. tail[i] = x + z /\ g[i] = y + z
      BY <3>2, <3>4, <3>5, <3>6
    <3> QED
      BY <3>6, <3>8, <3>9
  <2>3. PICK first \in Nat : first = f[gone]
    BY <1>2, <1>8
  <2>7. tail[0] = first
    <3>1. 0 \in 0..(len - gone) /\ gone + 0 = gone
      BY <1>2
    <3> QED
      BY <2>1, <2>3, <3>1
  <2>4. \A i \in 0..(len - gone) : tail[i] = first + g[i]
    BY <1>2, <1>9, <2>1, <2>2, <2>3, <2>7, SumsAgree
  <2>5. len - gone \in 0..(len - gone) /\ gone + (len - gone) = len
    BY <1>2
  <2>6. tail[len - gone] = f[len] /\ tail[len - gone] = first + g[len - gone]
    BY <2>1, <2>4, <2>5
  <2> QED
    BY <2>3, <2>6
\* The sum never falls.
<1>11. \A i \in 0..len : f[i] \in Nat
  BY <1>8
<1>12. \A i \in 0..gone : f[i] <= f[len]
  <2> DEFINE T == {k \in Nat : k <= len => f[len - k] <= f[len]}
  <2>1. 0 \in T
    BY <1>2, <1>11
  <2>2. ASSUME NEW k \in Nat, k \in T PROVE k + 1 \in T
    <3> SUFFICES ASSUME k + 1 <= len PROVE f[len - (k + 1)] <= f[len]
      OBVIOUS
    <3>1. /\ len - k \in 1..len /\ (len - k) - 1 = len - (k + 1) /\ len - (k + 1) \in 0..len
          /\ len \in 0..len /\ len - k \in 0..len
      BY <1>2
    <3>2. f[len - k] = f[len - (k + 1)] + messages[len - k].tokens
      BY <1>8, <3>1
    <3>3. f[len - k] <= f[len]
      BY <2>2, <3>1
    <3>4. /\ f[len - k] \in Nat /\ f[len - (k + 1)] \in Nat /\ f[len] \in Nat
          /\ messages[len - k].tokens \in Nat
      BY <1>2, <1>11, <3>1
    <3> QED
      BY <3>2, <3>3, <3>4
  <2>3. Nat \subseteq T
    <3> HIDE DEF T
    <3> QED
      BY <2>1, <2>2, SetInduction
  <2>4. ASSUME NEW i \in 0..gone PROVE f[i] <= f[len]
    <3>1. len - i \in Nat /\ len - i <= len /\ len - (len - i) = i
      BY <1>2
    <3> QED
      BY <2>3, <3>1
  <2> QED
    BY <2>4
\* What is left after i of them.
<1> DEFINE by == [p \in Nat \X (1..gone) |->
                     IF old[p[2]].tokens > p[1] THEN 0 ELSE p[1] - old[p[2]].tokens]
<1>13. /\ by \in [Nat \X (1..gone) -> Nat]
       /\ \A x \in Nat, i \in 1..gone :
             by[<<x, i>>] = IF old[i].tokens > x THEN 0 ELSE x - old[i].tokens
  <2>1. \A i \in 1..gone : old[i].tokens \in Nat
    BY <1>2, <1>4
  <2> QED
    BY <2>1
<1> HIDE DEF by
<1>14. PICK total \in Nat : total = f[len]
  BY <1>2, <1>11
<1> DEFINE Step(h, i) == IF i = 0 THEN total
                         ELSE IF old[i].tokens > h[i - 1] THEN 0
                         ELSE h[i - 1] - old[i].tokens
<1> DEFINE left == CHOOSE h : h = [i \in 0..Len(old) |-> Step(h, i)]
<1>15. GivenBack(total, old) = left[gone]
  BY <1>4 DEF GivenBack
<1>16. PICK h \in [0..gone -> Nat] : GoesBy(h, gone, total, by)
  BY <1>2, <1>13, <1>14, RecursionExists
<1>17. \A i \in 0..gone : h[i] = Step(h, i)
  <2> SUFFICES ASSUME NEW i \in 0..gone PROVE h[i] = Step(h, i)
    OBVIOUS
  <2>1. CASE i = 0
    BY <1>16, <2>1 DEF GoesBy
  <2>2. CASE i # 0
    <3>1. i \in 1..gone /\ i - 1 \in 0..gone
      BY <1>2, <2>2
    <3>2. h[i - 1] \in Nat
      BY <3>1
    <3>3. h[i] = by[<<h[i - 1], i>>]
      BY <1>16, <3>1 DEF GoesBy
    <3> QED
      BY <1>13, <2>2, <3>1, <3>2, <3>3
  <2> QED
    BY <2>1, <2>2
<1> HIDE DEF Step
<1>18. h = [i \in 0..Len(old) |-> Step(h, i)]
  BY <1>4, <1>16, <1>17
<1>19. left = [i \in 0..Len(old) |-> Step(left, i)]
  BY <1>18
<1> HIDE DEF left
<1>20. \A i \in 0..gone : left[i] = Step(left, i)
  BY <1>4, <1>19
<1>21. \A i \in 0..gone : left[i] = total - f[i]
  <2> DEFINE T == {k \in Nat : k <= gone => left[k] = total - f[k]}
  <2>1. 0 \in T
    <3>1. left[0] = total /\ f[0] = 0
      BY <1>2, <1>8, <1>20 DEF Step
    <3> QED
      BY <1>14, <3>1
  <2>2. ASSUME NEW k \in Nat, k \in T PROVE k + 1 \in T
    <3> SUFFICES ASSUME k + 1 <= gone PROVE left[k + 1] = total - f[k + 1]
      OBVIOUS
    <3>1. /\ k + 1 \in 1..gone /\ k + 1 \in 1..len /\ k + 1 \in 0..gone /\ (k + 1) - 1 = k
          /\ k \in 0..len /\ k + 1 \in 0..len /\ k + 1 # 0
      BY <1>2
    <3>2. left[k] = total - f[k]
      BY <2>2, <3>1
    <3>3. f[k + 1] = f[k] + old[k + 1].tokens
      BY <1>4, <1>8, <3>1
    <3>4. f[k + 1] <= total
      BY <1>12, <1>14, <3>1
    <3>5. left[k + 1] = IF old[k + 1].tokens > left[k] THEN 0 ELSE left[k] - old[k + 1].tokens
      BY <1>20, <3>1 DEF Step
    <3>6. f[k] \in Nat /\ f[k + 1] \in Nat /\ old[k + 1].tokens \in Nat /\ total \in Nat
      BY <1>2, <1>4, <1>11, <1>14, <3>1
    <3>7. PICK x \in Nat, y \in Nat, z \in Nat :
             x = f[k] /\ y = f[k + 1] /\ z = old[k + 1].tokens
      BY <3>6
    <3>8. y = x + z /\ y <= total /\ left[k] = total - x
      BY <3>2, <3>3, <3>4, <3>7
    <3>9. ~(z > total - x) /\ (total - x) - z = total - y
      BY <1>14, <3>8
    <3> QED
      BY <3>5, <3>7, <3>8, <3>9
  <2>3. Nat \subseteq T
    <3> HIDE DEF T
    <3> QED
      BY <2>1, <2>2, SetInduction
  <2> QED
    BY <2>3
<1>22. left[gone] = total - f[gone]
  BY <1>2, <1>21
<1>23. total - f[gone] = g[len - gone]
  <2>1. f[gone] \in Nat /\ g[len - gone] \in Nat
    BY <1>2, <1>9, <1>11
  <2> QED
    BY <1>10, <1>14, <2>1
<1> QED
  BY <1>1, <1>3, <1>6, <1>7, <1>14, <1>15, <1>22, <1>23

\* The messages are in order and without a gap, and last is the number of the last one.
UpTo(messages, last) ==
    \A i \in 1..Len(messages) : messages[i].number = last - Len(messages) + i

\* The newest elements of a sequence.
LEMMA NewestAreLast ==
  ASSUME NEW S, NEW s \in Seq(S), NEW k \in Nat
  PROVE  /\ Newest(s, k) \in Seq(S)
         /\ Len(Newest(s, k)) = IF Len(s) <= k THEN Len(s) ELSE k
         /\ \A i \in 1..Len(Newest(s, k)) :
               Newest(s, k)[i] = s[Len(s) - Len(Newest(s, k)) + i]
<1>1. PICK len \in Nat : len = Len(s)
  OBVIOUS
<1>2. len \in Nat /\ k \in Nat /\ \A i \in 1..len : s[i] \in S
  BY <1>1
<1>3. CASE len <= k
  <2>1. Newest(s, k) = s
    BY <1>1, <1>3 DEF Newest
  <2>2. \A i \in 1..len : len - len + i = i
    BY <1>2
  <2> QED
    BY <1>1, <1>3, <2>1, <2>2
<1>4. CASE ~(len <= k)
  <2>7. PICK skip \in Nat : skip = len - k
    BY <1>2, <1>4
  <2>8. skip \in Nat /\ len - skip = k /\ skip + 1 \in Int /\ len \in Int
        /\ (skip + 1 <= len <=> k >= 1) /\ len - (skip + 1) + 1 = k
    BY <1>2, <2>7
  <2>1. Newest(s, k) = SubSeq(s, skip + 1, len)
    BY <1>1, <1>4, <2>7 DEF Newest
  <2>2. \A i \in (skip + 1)..len : s[i] \in S
    BY <1>2, <2>8
  <2>3. /\ Newest(s, k) \in Seq(S)
        /\ Len(Newest(s, k)) = IF skip + 1 <= len THEN len - (skip + 1) + 1 ELSE 0
        /\ \A i \in 1..(len - (skip + 1) + 1) : Newest(s, k)[i] = s[(skip + 1) + i - 1]
    <3>1. /\ SubSeq(s, skip + 1, len) \in Seq(S)
          /\ Len(SubSeq(s, skip + 1, len)) =
                IF skip + 1 <= len THEN len - (skip + 1) + 1 ELSE 0
          /\ \A i \in 1..(len - (skip + 1) + 1) :
                SubSeq(s, skip + 1, len)[i] = s[(skip + 1) + i - 1]
      BY <2>2, <2>8, SubSeqProperties
    <3> QED
      BY <2>1, <3>1
  <2>4. \A i \in 1..k : (skip + 1) + i - 1 = skip + i
    BY <2>8
  <2>5. Len(Newest(s, k)) = k
    BY <1>2, <2>3, <2>8
  <2>6. \A i \in 1..k : Newest(s, k)[i] = s[len - k + i]
    BY <2>3, <2>4, <2>7, <2>8
  <2> QED
    BY <1>1, <1>4, <2>3, <2>5, <2>6
<1> QED
  BY <1>3, <1>4

\* The oldest ones leave a sequence in order.
LEMMA OldestAreFirst ==
  ASSUME NEW messages \in Seq(Message), NEW gone \in 0..Len(messages), NEW last \in Int,
         UpTo(messages, last)
  PROVE  /\ SubSeq(messages, 1, gone) \in Seq(Message)
         /\ Len(SubSeq(messages, 1, gone)) = gone
         /\ UpTo(SubSeq(messages, 1, gone), last - (Len(messages) - gone))
<1>1. PICK len \in Nat : len = Len(messages)
  OBVIOUS
<1>2. /\ len \in Nat /\ gone \in Nat /\ gone <= len
      /\ \A i \in 1..len : messages[i] \in Message
  BY <1>1
<1>3. PICK old : old = SubSeq(messages, 1, gone)
  OBVIOUS
<1>4. 1 \in Int /\ gone \in Int /\ \A i \in 1..gone : messages[i] \in Message
  BY <1>2
<1>5. /\ old \in Seq(Message)
      /\ Len(old) = IF 1 <= gone THEN gone - 1 + 1 ELSE 0
      /\ \A i \in 1..(gone - 1 + 1) : old[i] = messages[1 + i - 1]
  BY <1>3, <1>4, SubSeqProperties
<1>6. gone - 1 + 1 = gone /\ \A i \in 1..gone : 1 + i - 1 = i
  BY <1>2
<1>7. Len(old) = gone /\ \A i \in 1..gone : old[i] = messages[i]
  BY <1>2, <1>5, <1>6
<1>8. \A i \in 1..gone : old[i].number = (last - (len - gone)) - gone + i
  <2> SUFFICES ASSUME NEW i \in 1..gone
               PROVE  old[i].number = (last - (len - gone)) - gone + i
    OBVIOUS
  <2>1. i \in 1..len
    BY <1>2
  <2>2. old[i].number = last - len + i
    BY <1>1, <1>7, <2>1 DEF UpTo
  <2>3. (last - (len - gone)) - gone + i = last - len + i
    BY <1>2
  <2> QED
    BY <2>2, <2>3
<1> QED
  BY <1>1, <1>3, <1>5, <1>7, <1>8 DEF UpTo

LEMMA NewestStayInOrder ==
  ASSUME NEW messages \in Seq(Message), NEW k \in Nat, NEW last \in Int,
         UpTo(messages, last)
  PROVE  UpTo(Newest(messages, k), last)
<1>1. PICK len \in Nat : len = Len(messages)
  OBVIOUS
<1>2. PICK new : new = Newest(messages, k)
  OBVIOUS
<1>3. /\ new \in Seq(Message)
      /\ Len(new) = IF len <= k THEN len ELSE k
      /\ \A i \in 1..Len(new) : new[i] = messages[len - Len(new) + i]
  <2>1. /\ Newest(messages, k) \in Seq(Message)
        /\ Len(Newest(messages, k)) = IF Len(messages) <= k THEN Len(messages) ELSE k
        /\ \A i \in 1..Len(Newest(messages, k)) :
              Newest(messages, k)[i] = messages[Len(messages) - Len(Newest(messages, k)) + i]
    BY NewestAreLast
  <2> QED
    BY <1>1, <1>2, <2>1
<1>4. PICK short \in Nat : short = Len(new)
  BY <1>3
<1>5. len \in Nat /\ short \in Nat /\ short <= len
  BY <1>1, <1>3, <1>4
<1>6. ASSUME NEW i \in 1..short PROVE new[i].number = last - short + i
  <2>1. len - short + i \in 1..len
    BY <1>5
  <2>2. new[i] = messages[len - short + i]
    BY <1>3, <1>4
  <2>3. messages[len - short + i].number = last - len + (len - short + i)
    BY <1>1, <2>1 DEF UpTo
  <2>4. last - len + (len - short + i) = last - short + i
    BY <1>5
  <2> QED
    BY <2>2, <2>3, <2>4
<1> QED
  BY <1>2, <1>4, <1>6 DEF UpTo

LEMMA JoinedStayInOrder ==
  ASSUME NEW first \in Seq(Message), NEW second \in Seq(Message), NEW last \in Int,
         UpTo(first, last - Len(second)), UpTo(second, last)
  PROVE  UpTo(first \o second, last)
<1>1. PICK x \in Nat, y \in Nat : x = Len(first) /\ y = Len(second)
  OBVIOUS
<1>2. x \in Nat /\ y \in Nat
  BY <1>1
<1>3. /\ Len(first \o second) = x + y
      /\ \A i \in 1..(x + y) :
            (first \o second)[i] = IF i <= x THEN first[i] ELSE second[i - x]
  BY <1>1, ConcatProperties
<1>4. ASSUME NEW i \in 1..(x + y) PROVE (first \o second)[i].number = last - (x + y) + i
  <2>1. CASE i <= x
    <3>1. i \in 1..x
      BY <1>2, <2>1
    <3>2. first[i].number = (last - y) - x + i
      BY <1>1, <3>1 DEF UpTo
    <3>3. (last - y) - x + i = last - (x + y) + i
      BY <1>2
    <3> QED
      BY <1>3, <2>1, <3>2, <3>3
  <2>2. CASE ~(i <= x)
    <3>1. i - x \in 1..y
      BY <1>2, <2>2
    <3>2. second[i - x].number = last - y + (i - x)
      BY <1>1, <3>1 DEF UpTo
    <3>3. last - y + (i - x) = last - (x + y) + i
      BY <1>2
    <3> QED
      BY <1>3, <2>2, <3>2, <3>3
  <2> QED
    BY <2>1, <2>2
<1> QED
  BY <1>3, <1>4 DEF UpTo

\* The invariant of the context: the summary ends where the conversation begins, and the
\* estimate is the sum of the conversation alone.
ConversationInv ==
    /\ conversation \in Seq(Message) /\ summary \in Seq(Message)
    /\ tokens \in Nat /\ added \in Nat /\ visual \in Seq(Pictures)
    /\ UpTo(conversation, added)
    /\ UpTo(summary, added - Len(conversation))
    /\ Len(summary) + Len(conversation) < added => Len(summary) = SummaryRoom
    /\ tokens = Tokens(conversation)
    /\ tokens >= Budget => Len(conversation) < KeepMessages + Fewest
    /\ PicturesDiffer

LEMMA EmptyContext ==
  ASSUME conversation = << >>, tokens = 0, summary = << >>, visual = << >>, added = 0
  PROVE  ConversationInv
<1>1. Len(conversation) = 0 /\ Len(summary) = 0 /\ Len(visual) = 0 /\ 0 - 0 = 0
  OBVIOUS
<1>2. UpTo(conversation, added) /\ UpTo(summary, added - Len(conversation))
  BY <1>1 DEF UpTo
<1>3. Budget \in Nat /\ KeepMessages \in Nat /\ Fewest \in Nat \ {0} /\ MaxPictures \in Nat
  BY ConversationAssumption
<1>4. PicturesDiffer
  BY <1>1, <1>3 DEF PicturesDiffer
<1>5. /\ conversation \in Seq(Message) /\ summary \in Seq(Message)
      /\ visual \in Seq(Pictures) /\ tokens \in Nat /\ added \in Nat
  OBVIOUS
<1>6. tokens = Tokens(conversation)
  BY TokensOfNothing
<1>7. Len(conversation) < KeepMessages + Fewest /\ ~(Len(summary) + Len(conversation) < added)
  BY <1>1, <1>3
<1> QED
  BY <1>2, <1>4, <1>5, <1>6, <1>7 DEF ConversationInv

LEMMA ConversationStarts == ConversationInit => ConversationInv
BY EmptyContext DEF ConversationInit

\* A message that is added and not summed up yet.
LEMMA MessageIsNext ==
  ASSUME NEW messages \in Seq(Message), NEW one \in Message, NEW last \in Nat,
         UpTo(messages, last), one.number = last + 1
  PROVE  /\ Append(messages, one) \in Seq(Message)
         /\ Len(Append(messages, one)) = Len(messages) + 1
         /\ UpTo(Append(messages, one), last + 1)
<1>1. PICK len \in Nat : len = Len(messages)
  OBVIOUS
<1>2. PICK longer : longer = Append(messages, one)
  OBVIOUS
<1>3. /\ longer \in Seq(Message) /\ Len(longer) = len + 1
      /\ longer[len + 1] = one /\ \A i \in 1..len : longer[i] = messages[i]
  BY <1>1, <1>2, AppendProperties
<1>4. ASSUME NEW i \in 1..(len + 1)
      PROVE  longer[i].number = last + 1 - (len + 1) + i
  <2>1. CASE i = len + 1
    <3>1. last + 1 - (len + 1) + i = last + 1
      BY <1>1, <2>1
    <3> QED
      BY <1>3, <2>1, <3>1
  <2>2. CASE i # len + 1
    <3>1. i \in 1..len
      BY <1>1, <2>2
    <3>2. longer[i].number = last - len + i
      BY <1>1, <1>3, <3>1 DEF UpTo
    <3>3. last + 1 - (len + 1) + i = last - len + i
      BY <1>1
    <3> QED
      BY <3>2, <3>3
  <2> QED
    BY <2>1, <2>2
<1> QED
  BY <1>1, <1>2, <1>3, <1>4 DEF UpTo

LEMMA MessageStep ==
  ASSUME ConversationInv, AddMessage
  PROVE  ConversationInv'
<1>1. /\ Budget \in Nat /\ KeepMessages \in Nat /\ SummaryRoom \in Nat
      /\ Fewest \in Nat /\ Fewest >= 1
  BY ConversationAssumption
<1>2. /\ conversation \in Seq(Message) /\ summary \in Seq(Message)
      /\ tokens \in Nat /\ added \in Nat /\ visual \in Seq(Pictures)
      /\ UpTo(conversation, added) /\ UpTo(summary, added - Len(conversation))
      /\ Len(summary) + Len(conversation) < added => Len(summary) = SummaryRoom
      /\ tokens = Tokens(conversation) /\ PicturesDiffer
  BY DEF ConversationInv
<1>3. PICK size \in TokenSizes :
         LET message == [number |-> added + 1, tokens |-> size]
             c == Compacted(Append(conversation, message), tokens + size) IN
         /\ conversation' = c.messages
         /\ tokens' = c.tokens
         /\ summary' = c.summary
  BY DEF AddMessage
<1>4. PICK one : one = [number |-> added + 1, tokens |-> size]
  OBVIOUS
<1>5. one \in Message /\ one.number = added + 1 /\ one.tokens = size /\ size \in Nat
  <2>1. size \in Nat
    BY ConversationAssumption
  <2>2. added + 1 \in Nat
    BY <1>2
  <2> QED
    BY <1>4, <2>1, <2>2 DEF Message
<1>6. PICK longer : longer = Append(conversation, one)
  OBVIOUS
<1>7. PICK len \in Nat : len = Len(conversation)
  BY <1>2
<1>8. /\ longer \in Seq(Message) /\ Len(longer) = len + 1 /\ UpTo(longer, added + 1)
      /\ len \in Nat
  BY <1>2, <1>5, <1>6, <1>7, MessageIsNext
<1>9. PICK sum : sum = tokens + size
  OBVIOUS
<1>10. sum \in Nat /\ Tokens(longer) = sum
  <2>1. /\ Tokens(conversation) \in Nat
        /\ Tokens(Append(conversation, one)) = Tokens(conversation) + one.tokens
    BY <1>2, <1>5, TokensAdd
  <2>2. tokens + size \in Nat
    BY <1>2, <1>5
  <2> QED
    BY <1>2, <1>5, <1>6, <1>9, <2>1, <2>2
<1>11. /\ added' = added + 1 /\ visual' = visual /\ added + 1 \in Nat
  BY <1>2 DEF AddMessage
<1>12. PicturesDiffer'
  BY <1>2, <1>11 DEF PicturesDiffer
<1>13. /\ conversation' = Compacted(longer, sum).messages
       /\ tokens' = Compacted(longer, sum).tokens
       /\ summary' = Compacted(longer, sum).summary
  BY <1>3, <1>4, <1>6, <1>9
<1>14. CASE sum < Budget \/ Len(longer) < KeepMessages + Fewest
  <2>1. conversation' = longer /\ tokens' = sum /\ summary' = summary
    BY <1>13, <1>14 DEF Compacted
  <2>2. UpTo(summary, added' - Len(conversation'))
    <3>1. added + 1 - (len + 1) = added - len
      BY <1>2, <1>8
    <3> QED
      BY <1>2, <1>7, <1>8, <1>11, <2>1, <3>1
  <2>3. Len(summary') + Len(conversation') < added' => Len(summary') = SummaryRoom
    <3>1. PICK x \in Nat : x = Len(summary)
      BY <1>2
    <3>2. x \in Nat
      BY <3>1
    <3>3. x + (len + 1) < added + 1 <=> x + len < added
      BY <1>2, <1>8, <3>2
    <3> QED
      BY <1>2, <1>7, <1>8, <1>11, <2>1, <3>1, <3>3
  <2>4. tokens' >= Budget => Len(conversation') < KeepMessages + Fewest
    BY <1>1, <1>10, <1>14, <2>1
  <2>5. /\ UpTo(longer, added') /\ UpTo(conversation, added)'
    BY <1>8, <1>11, <2>1 DEF UpTo
  <2>6. UpTo(summary, added - Len(conversation))'
    BY <2>1, <2>2 DEF UpTo
  <2>7. (tokens = Tokens(conversation))'
    BY <1>10, <2>1 DEF Tokens
  <2>8. /\ conversation' \in Seq(Message) /\ summary' \in Seq(Message)
        /\ tokens' \in Nat /\ added' \in Nat /\ visual' \in Seq(Pictures)
    BY <1>2, <1>8, <1>10, <1>11, <2>1
  <2> QED
    BY <1>12, <2>3, <2>4, <2>5, <2>6, <2>7, <2>8 DEF ConversationInv
<1>15. CASE ~(sum < Budget \/ Len(longer) < KeepMessages + Fewest)
  <2>1. PICK gone \in Nat : gone = Len(longer) - KeepMessages
    BY <1>1, <1>8, <1>15
  <2>2. /\ gone \in Nat /\ gone >= 1 /\ gone \in 0..Len(longer)
        /\ Len(longer) - gone = KeepMessages /\ ~(Len(longer) <= KeepMessages)
        /\ Len(longer) - KeepMessages + 1 = gone + 1
    BY <1>1, <1>8, <1>15, <2>1
  <2>3. PICK old : old = SubSeq(longer, 1, gone)
    OBVIOUS
  <2>4. /\ conversation' = Newest(longer, KeepMessages)
        /\ tokens' = GivenBack(sum, old)
        /\ summary' = Newest(summary \o old, SummaryRoom)
    BY <1>13, <1>15, <2>1, <2>3 DEF Compacted
  <2>5. /\ old \in Seq(Message) /\ Len(old) = gone
        /\ UpTo(old, (added + 1) - KeepMessages)
    <3>1. added + 1 \in Int
      BY <1>11
    <3>2. /\ SubSeq(longer, 1, gone) \in Seq(Message)
          /\ Len(SubSeq(longer, 1, gone)) = gone
          /\ UpTo(SubSeq(longer, 1, gone), (added + 1) - (Len(longer) - gone))
      <4>1. longer \in Seq(Message) /\ gone \in 0..Len(longer) /\ UpTo(longer, added + 1)
        BY <1>8, <2>2
      <4>2. PICK top \in Int : top = added + 1
        BY <3>1
      <4>3. /\ SubSeq(longer, 1, gone) \in Seq(Message)
            /\ Len(SubSeq(longer, 1, gone)) = gone
            /\ UpTo(SubSeq(longer, 1, gone), top - (Len(longer) - gone))
        <5>1. top \in Int /\ UpTo(longer, top)
          BY <4>1, <4>2
        <5> QED
          BY <4>1, <5>1, OldestAreFirst
      <4> QED
        BY <4>2, <4>3
    <3> QED
      BY <2>2, <2>3, <3>2
  <2>6. /\ conversation' \in Seq(Message) /\ Len(conversation') = KeepMessages
        /\ UpTo(conversation', added + 1)
    <3>1. added + 1 \in Int
      BY <1>11
    <3>2. /\ Newest(longer, KeepMessages) \in Seq(Message)
          /\ Len(Newest(longer, KeepMessages)) = KeepMessages
      BY <1>1, <1>8, <2>2, NewestAreLast
    <3>3. UpTo(Newest(longer, KeepMessages), added + 1)
      BY <1>1, <1>8, <3>1, NewestStayInOrder
    <3> QED
      BY <2>4, <3>2, <3>3
  <2>7. tokens' = Tokens(conversation')
    <3>1. conversation' = SubSeq(longer, gone + 1, Len(longer))
      BY <2>2, <2>4 DEF Newest
    <3>2. GivenBack(Tokens(longer), SubSeq(longer, 1, gone))
             = Tokens(SubSeq(longer, gone + 1, Len(longer)))
      BY <1>8, <2>2, GivenBackIsRest
    <3> QED
      BY <1>10, <2>3, <2>4, <3>1, <3>2
  <2>8. tokens' \in Nat
    <3>1. Tokens(conversation') \in Nat
      BY <1>5, <2>6, TokensAdd
    <3> QED
      BY <2>7, <3>1
  <2>9. PICK whole : whole = summary \o old
    OBVIOUS
  <2>10. PICK x \in Nat : x = Len(summary)
    BY <1>2
  <2>11. /\ whole \in Seq(Message) /\ Len(whole) = x + gone /\ x \in Nat
    BY <1>2, <2>5, <2>9, <2>10, ConcatProperties
  <2>12. UpTo(whole, (added + 1) - KeepMessages)
    <3>1. ((added + 1) - KeepMessages) - Len(old) = added - len
      BY <1>1, <1>2, <1>8, <2>1, <2>2, <2>5
    <3>2. UpTo(summary, ((added + 1) - KeepMessages) - Len(old))
      BY <1>2, <1>7, <3>1
    <3>3. (added + 1) - KeepMessages \in Int
      BY <1>1, <1>2
    <3> QED
      BY <1>2, <2>5, <2>9, <3>2, <3>3, JoinedStayInOrder
  <2>13. /\ summary' \in Seq(Message)
         /\ Len(summary') = IF Len(whole) <= SummaryRoom THEN Len(whole) ELSE SummaryRoom
    <3>1. /\ Newest(whole, SummaryRoom) \in Seq(Message)
          /\ Len(Newest(whole, SummaryRoom)) =
                IF Len(whole) <= SummaryRoom THEN Len(whole) ELSE SummaryRoom
      BY <1>1, <2>11, NewestAreLast
    <3> QED
      BY <2>4, <2>9, <3>1
  <2>14. UpTo(summary', (added + 1) - KeepMessages)
    <3>1. (added + 1) - KeepMessages \in Int
      BY <1>1, <1>2
    <3>2. UpTo(Newest(whole, SummaryRoom), (added + 1) - KeepMessages)
      BY <1>1, <2>11, <2>12, <3>1, NewestStayInOrder
    <3> QED
      BY <2>4, <2>9, <3>2
  <2>15. Len(summary') + Len(conversation') < added' => Len(summary') = SummaryRoom
    <3> SUFFICES ASSUME Len(summary') + Len(conversation') < added',
                        Len(summary') # SummaryRoom
                 PROVE  FALSE
      OBVIOUS
    <3>1. Len(summary') = x + gone /\ x + gone <= SummaryRoom /\ x + gone # SummaryRoom
      BY <2>11, <2>13
    <3>2. x + gone + KeepMessages < added + 1 /\ gone + KeepMessages = len + 1
      BY <1>1, <1>8, <1>11, <2>1, <2>2, <2>6, <3>1
    <3>3. x + len < added
      BY <1>1, <1>2, <1>8, <2>2, <2>11, <3>2
    <3>4. x = SummaryRoom
      BY <1>2, <1>7, <2>10, <3>3
    <3> QED
      BY <1>1, <2>2, <2>11, <3>1, <3>4
  <2>16. Len(conversation') < KeepMessages + Fewest
    BY <1>1, <2>6
  <2>20. UpTo(conversation, added)'
    BY <1>11, <2>6 DEF UpTo
  <2>21. added' - Len(conversation') = (added + 1) - KeepMessages
    <3>1. added' = added + 1 /\ Len(conversation') = KeepMessages
      BY <1>11, <2>6
    <3> QED
      BY <3>1
  <2>17. UpTo(summary, added - Len(conversation))'
    BY <2>14, <2>21 DEF UpTo
  <2>18. (tokens = Tokens(conversation))'
    BY <2>7 DEF Tokens
  <2>19. added' \in Nat /\ visual' \in Seq(Pictures)
    BY <1>2, <1>11
  <2> QED
    BY <1>12, <2>6, <2>8, <2>13, <2>15, <2>16, <2>17, <2>18, <2>19,
       <2>20 DEF ConversationInv
<1> QED
  BY <1>14, <1>15

LEMMA PictureStep ==
  ASSUME ConversationInv, AddPicture
  PROVE  ConversationInv'
<1>1. PICK p \in Pictures : /\ visual # << >> => visual[Len(visual)] # p
                            /\ visual' = Newest(Append(visual, p), MaxPictures)
  BY DEF AddPicture
<1>2. visual \in Seq(Pictures) /\ MaxPictures \in Nat
      /\ \A i \in 1..Len(visual) - 1 : visual[i] # visual[i + 1]
  BY ConversationAssumption DEF ConversationInv, PicturesDiffer
<1>3. PICK longer : longer = Append(visual, p)
  OBVIOUS
<1>4. PICK len \in Nat : len = Len(visual)
  BY <1>2
<1>5. /\ longer \in Seq(Pictures) /\ Len(longer) = len + 1 /\ len \in Nat
      /\ longer[len + 1] = p /\ \A i \in 1..len : longer[i] = visual[i]
  BY <1>2, <1>3, <1>4, AppendProperties
<1>6. ASSUME NEW i \in 1..len PROVE longer[i] # longer[i + 1]
  <2>1. CASE i = len
    <3>1. visual # << >>
      BY <1>4, <2>1
    <3> QED
      BY <1>1, <1>4, <1>5, <2>1, <3>1
  <2>2. CASE i # len
    <3>1. i \in 1..len - 1 /\ i + 1 \in 1..len
      BY <1>5, <2>2
    <3> QED
      BY <1>2, <1>4, <1>5, <3>1
  <2> QED
    BY <2>1, <2>2
<1>7. /\ visual' \in Seq(Pictures)
      /\ Len(visual') = IF Len(longer) <= MaxPictures THEN Len(longer) ELSE MaxPictures
      /\ \A i \in 1..Len(visual') : visual'[i] = longer[Len(longer) - Len(visual') + i]
  <2>1. /\ Newest(longer, MaxPictures) \in Seq(Pictures)
        /\ Len(Newest(longer, MaxPictures)) =
              IF Len(longer) <= MaxPictures THEN Len(longer) ELSE MaxPictures
        /\ \A i \in 1..Len(Newest(longer, MaxPictures)) :
              Newest(longer, MaxPictures)[i] =
                 longer[Len(longer) - Len(Newest(longer, MaxPictures)) + i]
    <3>1. longer \in Seq(Pictures) /\ MaxPictures \in Nat
      BY <1>2, <1>5
    <3> QED
      BY <3>1, NewestAreLast
  <2> QED
    BY <1>1, <1>3, <2>1
<1>8. PICK short \in Nat : short = Len(visual')
  BY <1>7
<1>9. short \in Nat /\ short <= len + 1 /\ short <= MaxPictures
  BY <1>2, <1>5, <1>7, <1>8
<1>10. ASSUME NEW i \in 1..short - 1 PROVE visual'[i] # visual'[i + 1]
  <2>1. /\ i \in 1..short /\ i + 1 \in 1..short /\ len + 1 - short + i \in 1..len
        /\ len + 1 - short + (i + 1) = (len + 1 - short + i) + 1
    <3>1. len \in Nat /\ short \in Nat /\ short <= len + 1 /\ i \in 1..short - 1
      BY <1>5, <1>9
    <3>2. i \in Nat /\ 1 <= i /\ i + 1 <= short
      BY <3>1
    <3> QED
      BY <3>1, <3>2
  <2>2. /\ visual'[i] = longer[len + 1 - short + i]
        /\ visual'[i + 1] = longer[(len + 1 - short + i) + 1]
    <3>1. Len(longer) = len + 1 /\ Len(visual') = short
      BY <1>5, <1>8
    <3>2. \A j \in 1..Len(visual') :
             visual'[j] = longer[Len(longer) - Len(visual') + j]
      BY <1>7
    <3>3. \A j \in 1..short : visual'[j] = longer[len + 1 - short + j]
      BY <3>1, <3>2
    <3> QED
      BY <2>1, <3>3
  <2> QED
    BY <1>6, <2>1, <2>2
<1>11. PicturesDiffer'
  BY <1>8, <1>9, <1>10 DEF PicturesDiffer
<1>12. UNCHANGED <<conversation, tokens, summary, added>>
  BY DEF AddPicture
<1>13. UpTo(conversation, added)' /\ UpTo(summary, added - Len(conversation))'
  BY <1>12 DEF ConversationInv, UpTo
<1>14. (tokens = Tokens(conversation))'
  BY <1>12 DEF ConversationInv, Tokens
<1> QED
  BY <1>7, <1>11, <1>12, <1>13, <1>14 DEF ConversationInv

LEMMA ConversationStands ==
  ASSUME ConversationInv, UNCHANGED conversationVars
  PROVE  ConversationInv'
<1>1. UNCHANGED <<conversation, tokens, summary, visual, added>>
  BY DEF conversationVars
<1>2. UpTo(conversation, added)' /\ UpTo(summary, added - Len(conversation))'
  BY <1>1 DEF ConversationInv, UpTo
<1>3. (tokens = Tokens(conversation))'
  BY <1>1 DEF ConversationInv, Tokens
<1>4. PicturesDiffer'
  BY <1>1 DEF ConversationInv, PicturesDiffer
<1> QED
  BY <1>1, <1>2, <1>3, <1>4 DEF ConversationInv

LEMMA ConversationStep ==
  ASSUME ConversationInv, ConversationNext
  PROVE  ConversationInv'
<1>1. CASE ClearContext
  <2>1. ConversationInit'
    BY <1>1 DEF ClearContext, ConversationInit
  <2>2. ConversationInit => ConversationInv
    BY ConversationStarts
  <2> QED
    BY <2>1, ConversationStarts, PTL
<1> QED
  BY <1>1, MessageStep, PictureStep DEF ConversationNext

LEMMA ConversationSafe ==
  ASSUME ConversationInv
  PROVE  ContextIsWhole
<1>1. /\ conversation \in Seq(Message) /\ summary \in Seq(Message) /\ added \in Nat
      /\ UpTo(conversation, added) /\ UpTo(summary, added - Len(conversation))
  BY DEF ConversationInv
<1>2. PICK all : all = summary \o conversation
  OBVIOUS
<1>3. /\ all \in Seq(Message) /\ Len(all) = Len(summary) + Len(conversation)
      /\ UpTo(all, added)
  <2>1. added \in Int
    BY <1>1
  <2> QED
    BY <1>1, <1>2, <2>1, ConcatProperties, JoinedStayInOrder
<1>4. \A i \in DOMAIN all : all[i].number = added - Len(all) + i
  BY <1>3 DEF UpTo
<1>5. Len(all) < added => Len(summary) = SummaryRoom
  BY <1>3 DEF ConversationInv
<1> QED
  BY <1>2, <1>4, <1>5 DEF ConversationInv, ContextIsWhole, ConversationIsWhole

-----------------------------------------------------------------------------
(***************************************************************************)
(* The run, of which a behaviour is of one part.                           *)
(***************************************************************************)
LEMMA StorageMoves ==
  ASSUME [StorageNext]_storageVars
  PROVE  [DownloadsNext]_downloadVars /\ [InstallNext]_installVars
BY DEF StorageNext, storageVars, KeptNext

\* However transfers are cancelled, fail, race or die, what is installed is what was
\* pinned, and no transfer ends before the removal of its temporary file was tried, which
\* the system may refuse (download_pinned_artifact, fetch, run_owned, download_owned).
THEOREM DownloadsStayWhole == StorageSpec => []DownloadsAreWhole
<1>1. StorageInit => DownloadsInv /\ InstallInv
  BY DownloadsStart, InstallStarts DEF StorageInit
<1>2. DownloadsInv /\ InstallInv /\ [StorageNext]_storageVars => DownloadsInv' /\ InstallInv'
  BY StorageMoves, DownloadsStep, InstallKeeps
<1>3. DownloadsInv /\ InstallInv => DownloadsAreWhole
  BY DownloadsSafe, InstallSafe DEF DownloadsAreWhole, InstalledIsWhole
<1> QED
  BY <1>1, <1>2, <1>3, PTL DEF StorageSpec

\* The parts of which no other part is a step.
RecordsInv == SwitchInv /\ LogInv /\ MemoryInv /\ ConversationInv

LEMMA RecordsMove ==
  ASSUME [StorageNext]_storageVars
  PROVE  /\ [LogNext]_logVars /\ [SwitchNext]_switchVars
         /\ [MemoriesNext]_memoryVars /\ [ConversationNext]_conversationVars
BY DEF StorageNext, storageVars, KeptNext, keptVars

\* The settings that were saved agree in the file, the store, the engine and the daemon,
\* whichever step failed and wherever the program was killed, unless a rollback failed; and
\* of a program that has closed no save is open: each was stored, failed, gave way to the
\* next one of its service, or, having come after its worker had looked for a request for
\* the last time, was dropped with the service (settings_service.rs, config.rs).
THEOREM SettingsStayKept == StorageSpec => []SettingsAreKept
<1>1. StorageInit => SettingsInv /\ QueueInv
  BY SettingsStart, QueueStarts DEF StorageInit
<1>2. SettingsInv /\ QueueInv /\ [StorageNext]_storageVars => SettingsInv' /\ QueueInv'
  <2>1. [StorageNext]_storageVars => [SettingsNext]_settingsVars
    BY DEF StorageNext, storageVars, KeptNext
  <2> QED
    BY <2>1, SettingsKeep, QueueKeeps
<1>3. SettingsInv /\ QueueInv => SettingsAreKept
  BY SettingsSafe
<1> QED
  BY <1>1, <1>2, <1>3, PTL DEF StorageSpec

\* Events reach their file and no process prunes the file of one that lives; what is
\* saved of the switch is its last change; the memories are those in their file, and the
\* context loses only what its summary has no room for (diagnostics.rs of both crates,
\* memory.rs, context.rs).
THEOREM RecordsStayKept == StorageSpec => []RecordsAreKept
<1>1. StorageInit => RecordsInv
  BY SwitchStarts, LogStarts, MemoriesStart, ConversationStarts DEF StorageInit, RecordsInv
<1>2. RecordsInv /\ [StorageNext]_storageVars => RecordsInv'
  BY RecordsMove, SwitchStep, LogStep, LogStands, MemoriesStep, MemoriesStand,
     ConversationStep, ConversationStands DEF RecordsInv
<1>3. RecordsInv => RecordsAreKept
  BY SwitchSafe, LogSafe, MemoriesSafe, ConversationSafe DEF RecordsInv, RecordsAreKept
<1> QED
  BY <1>1, <1>2, <1>3, PTL DEF StorageSpec
=================================================================================
