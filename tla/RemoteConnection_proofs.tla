----------------------- MODULE RemoteConnection_proofs ----------------------
(***************************************************************************)
(* Proofs about RemoteConnection, for every set of request ids and every   *)
(* value of the bounds.                                                    *)
(***************************************************************************)
EXTENDS RemoteConnection, TLAPS

-----------------------------------------------------------------------------
(***************************************************************************)
(* Type correctness.                                                       *)
(***************************************************************************)

LEMMA NoneType == 0 \in JobOrNone /\ None \in JobOrNone /\ None \notin Jobs
  BY BoundsAssumption DEF None, Jobs, JobOrNone

LEMMA NoCardType == NoCard \in Card
  BY NoneType DEF NoCard, Card

LEMMA InitTypeOK == Init => TypeOK
<1> SUFFICES ASSUME Init PROVE TypeOK
  OBVIOUS
<1>1. ConnType
  <2>1. 0 \in 0..(MaxUnexpected - 1)
    BY BoundsAssumption
  <2> QED
    BY NoneType, <2>1 DEF Init, ConnType
<1>2. SlotsType
  BY NoneType, NoCardType DEF Init, SlotsType, DecisionKind
<1>3. InferenceType
  BY DEF Init, InferenceType
<1>4. ExecutorType
  BY NoneType, BoundsAssumption DEF Init, ExecutorType
<1>5. HistoryType
  BY DEF Init, HistoryType
<1> QED
  BY <1>1, <1>2, <1>3, <1>4, <1>5 DEF TypeOK

LEMMA Unchanged ==
  /\ ConnType /\ UNCHANGED conn => ConnType'
  /\ SlotsType /\ UNCHANGED slots => SlotsType'
  /\ InferenceType /\ UNCHANGED inference => InferenceType'
  /\ ExecutorType /\ UNCHANGED executor => ExecutorType'
  /\ HistoryType /\ UNCHANGED history => HistoryType'
<1>1. ConnType /\ UNCHANGED conn => ConnType'
  BY DEF ConnType, conn
<1>2. SlotsType /\ UNCHANGED slots => SlotsType'
  BY DEF SlotsType, slots
<1>3. InferenceType /\ UNCHANGED inference => InferenceType'
  BY DEF InferenceType, inference
<1>4. ExecutorType /\ UNCHANGED executor => ExecutorType'
  BY DEF ExecutorType, executor
<1>5. HistoryType /\ UNCHANGED history => HistoryType'
  BY DEF HistoryType, history
<1> QED
  BY <1>1, <1>2, <1>3, <1>4, <1>5

LEMMA CardType ==
  ASSUME TypeOK, NEW id
  PROVE  CardAfterReply(shown, id) \in Card
  BY NoCardType DEF TypeOK, SlotsType, CardAfterReply

LEMMA SendType ==
  ASSUME NEW S, NEW q \in Seq(S), NEW m \in S
  PROVE  Send(q, m) \in Seq(S)
  BY DEF Send

LEMMA EndConnectionTypeOK == TypeOK /\ EndConnection => TypeOK'
<1> SUFFICES ASSUME TypeOK, EndConnection PROVE TypeOK'
  OBVIOUS
<1>1. ConnType'
  BY DEF TypeOK, EndConnection, ConnType
<1>2. SlotsType'
  BY NoneType, NoCardType DEF TypeOK, EndConnection, SlotsType
<1>3. InferenceType'
  BY DEF TypeOK, EndConnection, InferenceType, AbortTasks
<1>4. ExecutorType'
  BY DEF TypeOK, EndConnection, ExecutorType, SlotsType, DropExecutions, Some, None, Jobs, JobOrNone
<1>5. HistoryType'
  BY DEF TypeOK, EndConnection, HistoryType
<1> QED
  BY <1>1, <1>2, <1>3, <1>4, <1>5 DEF TypeOK

LEMMA UnexpectedTypeOK ==
  ASSUME TypeOK, NEW card \in Card, Unexpected(card)
  PROVE  TypeOK'
<1>1. CASE TooMany(unexpected + 1)
  BY <1>1, EndConnectionTypeOK DEF Unexpected
<1>2. CASE ~TooMany(unexpected + 1)
  <2>1. ConnType'
    BY <1>2, BoundsAssumption DEF Unexpected, TooMany, TypeOK, ConnType
  <2>2. SlotsType'
    BY <1>2 DEF Unexpected, TypeOK, SlotsType
  <2> QED
    BY <1>2, <2>1, <2>2, Unchanged DEF Unexpected, TypeOK
<1> QED
  BY <1>1, <1>2

\* One lemma per group of actions: FromPhone.
LEMMA ClientHelloTypeOK == TypeOK /\ ClientHello => TypeOK'
<1> SUFFICES ASSUME TypeOK, ClientHello PROVE TypeOK'
  OBVIOUS
<1>1. ConnType'
  BY DEF TypeOK, ClientHello, ConnType
<1> QED
  BY <1>1, Unchanged DEF TypeOK, ClientHello

LEMMA RefuseTypeOK == \A id : TypeOK /\ Refuse(id) => TypeOK'
<1> SUFFICES ASSUME NEW id, TypeOK, Refuse(id) PROVE TypeOK'
  OBVIOUS
<1>1. ConnType'
  BY BoundsAssumption DEF TypeOK, Refuse, ConnType
<1>2. SlotsType'
  BY CardType DEF TypeOK, Refuse, ErrorReply, SlotsType
<1>3. HistoryType'
  BY DEF TypeOK, Refuse, ErrorReply, Settle, HistoryType
<1> QED
  BY <1>1, <1>2, <1>3, Unchanged DEF TypeOK, Refuse

LEMMA NewJobType ==
  ASSUME ConnType, Handled, NewJob
  PROVE  ConnType' /\ lastJob + 1 \in Jobs /\ lastJob + 1 \in JobOrNone
<1>1. lastJob + 1 \in Jobs /\ lastJob + 1 \in JobOrNone
  BY BoundsAssumption DEF ConnType, NewJob, Jobs, JobOrNone
<1>2. 0 \in 0..(MaxUnexpected - 1)
  BY BoundsAssumption
<1> QED
  BY <1>1, <1>2 DEF ConnType, Handled, NewJob

LEMMA AdmitType ==
  ASSUME TypeOK, NEW n \in Jobs, NEW id, Admit(n, id)
  PROVE  /\ processing' \in JobOrNone
         /\ deferred' \in JobOrNone
         /\ decisionKind' \in DecisionKind
         /\ shown' \in Card
         /\ task' \in [Jobs -> {"none", "running", "aborted", "ended"}]
         /\ owed' \in SUBSET Jobs
         /\ owedRun' \in SUBSET Jobs
<1>1. n \in JobOrNone
  BY BoundsAssumption DEF Jobs, JobOrNone
<1>2. CASE ErrorReply(id) /\ UNCHANGED <<processing, deferred, decisionKind, task>>
  BY <1>2, CardType DEF TypeOK, SlotsType, InferenceType, HistoryType, ErrorReply, Settle
<1>3. CASE StartInference(n) /\ owed' = owed \cup {n} /\ UNCHANGED <<deferred, decisionKind, shown, owedRun>>
  BY <1>1, <1>3 DEF TypeOK, SlotsType, InferenceType, HistoryType, StartInference
<1>4. ASSUME NEW kind \in DecisionKind, AskDecision(n, kind), owed' = owed \cup {n},
             UNCHANGED <<processing, task, owedRun>>
      PROVE  /\ processing' \in JobOrNone
             /\ deferred' \in JobOrNone
             /\ decisionKind' \in DecisionKind
             /\ shown' \in Card
             /\ task' \in [Jobs -> {"none", "running", "aborted", "ended"}]
             /\ owed' \in SUBSET Jobs
             /\ owedRun' \in SUBSET Jobs
  BY <1>1, <1>4 DEF TypeOK, SlotsType, InferenceType, HistoryType, AskDecision, Card
<1>5. (IF mode = "askModel" THEN "UseRemoteModel" ELSE "UploadFullScreenshot") \in DecisionKind
  BY DEF DecisionKind
<1> QED
  BY <1>2, <1>3, <1>4, <1>5 DEF Admit

LEMMA CommandRequestTypeOK == TypeOK /\ CommandRequest => TypeOK'
<1> SUFFICES ASSUME TypeOK, CommandRequest PROVE TypeOK'
  OBVIOUS
<1>1. ConnType' /\ lastJob + 1 \in Jobs
  BY NewJobType DEF TypeOK, CommandRequest
<1>2. Admit(lastJob + 1, idOf[lastJob + 1])
  BY DEF CommandRequest
<1> HIDE DEF Admit
<1>3. SlotsType' /\ InferenceType' /\ HistoryType'
  BY <1>1, <1>2, AdmitType DEF TypeOK, CommandRequest, SlotsType, InferenceType, HistoryType
<1> QED
  BY <1>1, <1>3, Unchanged DEF TypeOK, CommandRequest

LEMMA AudioStartTypeOK == TypeOK /\ AudioStart => TypeOK'
<1> SUFFICES ASSUME TypeOK, AudioStart PROVE TypeOK'
  OBVIOUS
<1>1. ConnType' /\ lastJob + 1 \in Jobs /\ lastJob + 1 \in JobOrNone
  BY NewJobType DEF TypeOK, AudioStart
<1>2. SlotsType'
  BY <1>1 DEF TypeOK, AudioStart, SlotsType
<1>3. HistoryType'
  BY <1>1 DEF TypeOK, AudioStart, HistoryType
<1> QED
  BY <1>1, <1>2, <1>3, Unchanged DEF TypeOK, AudioStart

LEMMA HandledType ==
  ASSUME ConnType, Handled, UNCHANGED <<lastJob, idOf>>
  PROVE  ConnType'
<1>1. 0 \in 0..(MaxUnexpected - 1)
  BY BoundsAssumption
<1> QED
  BY <1>1 DEF ConnType, Handled

LEMMA AudioChunkTypeOK == \A id : TypeOK /\ AudioChunk(id) => TypeOK'
<1> SUFFICES ASSUME NEW id, TypeOK, AudioChunk(id) PROVE TypeOK'
  OBVIOUS
<1>1. ConnType'
  BY HandledType DEF TypeOK, AudioChunk
<1>2. SlotsType'
  BY CardType, NoneType DEF TypeOK, AudioChunk, ErrorReply, SlotsType
<1>3. HistoryType'
  BY DEF TypeOK, AudioChunk, ErrorReply, Settle, HistoryType
<1> QED
  BY <1>1, <1>2, <1>3, Unchanged DEF TypeOK, AudioChunk

LEMMA AudioEndTypeOK == \A id : TypeOK /\ AudioEnd(id) => TypeOK'
<1> SUFFICES ASSUME NEW id, TypeOK, AudioEnd(id) PROVE TypeOK'
  OBVIOUS
<1>1. ConnType'
  BY HandledType DEF TypeOK, AudioEnd
<1>2. ExecutorType'
  BY Unchanged DEF TypeOK, AudioEnd
<1>3. CASE audio # None /\ Admit(audio, id)
  <2>1. audio \in Jobs
    BY <1>3 DEF TypeOK, SlotsType, None, Jobs, JobOrNone
  <2>2. SlotsType' /\ InferenceType' /\ HistoryType'
    BY <1>3, <2>1, AdmitType, NoneType
    DEF TypeOK, AudioEnd, SlotsType, InferenceType, HistoryType
  <2> QED
    BY <1>1, <1>2, <2>2 DEF TypeOK
<1>4. CASE ErrorReply(id) /\ UNCHANGED <<processing, deferred, decisionKind, task>>
  <2>1. SlotsType'
    BY <1>4, CardType, NoneType DEF TypeOK, AudioEnd, ErrorReply, SlotsType
  <2>2. InferenceType' /\ HistoryType'
    BY <1>4 DEF TypeOK, AudioEnd, ErrorReply, Settle, InferenceType, HistoryType
  <2> QED
    BY <1>1, <1>2, <2>1, <2>2 DEF TypeOK
<1> QED
  BY <1>3, <1>4 DEF AudioEnd

LEMMA CancelRequestTypeOK == \A id : TypeOK /\ CancelRequest(id) => TypeOK'
<1> SUFFICES ASSUME NEW id, TypeOK, CancelRequest(id) PROVE TypeOK'
  OBVIOUS
<1>1. ConnType'
  BY HandledType DEF TypeOK, CancelRequest
<1>2. SlotsType'
  BY CardType, NoneType DEF TypeOK, CancelRequest, PlansLeft, SlotsType
<1>3. InferenceType'
  BY DEF TypeOK, CancelRequest, AbortTasks, InferenceType
<1>4. /\ WithId({execution}, id) \subseteq Jobs
      /\ WithId({audio, processing, execution, deferred} \cup pending, id) \subseteq Jobs
  <2>1. /\ {audio, processing, execution, deferred} \subseteq JobOrNone
        /\ pending \subseteq Jobs
    BY DEF TypeOK, SlotsType
  <2>2. JobOrNone \ {None} = Jobs
    BY BoundsAssumption DEF Jobs, JobOrNone, None
  <2> QED
    BY <2>1, <2>2 DEF WithId
<1>5. ExecutorType'
  BY <1>4 DEF TypeOK, CancelRequest, DropExecutions, ExecutorType
<1>6. HistoryType'
  <2>1. withdrawn' \in SUBSET Jobs
    BY <1>4 DEF TypeOK, CancelRequest, HistoryType
  <2> QED
    BY <2>1 DEF TypeOK, CancelRequest, Settle, HistoryType
<1> QED
  BY <1>1, <1>2, <1>3, <1>5, <1>6 DEF TypeOK

LEMMA PauseTypeOK == \A value \in BOOLEAN : TypeOK /\ Pause(value) => TypeOK'
<1> SUFFICES ASSUME NEW value \in BOOLEAN, TypeOK, Pause(value) PROVE TypeOK'
  OBVIOUS
<1>1. ConnType'
  BY DEF TypeOK, Pause, ConnType
<1>2. SlotsType'
  BY NoCardType, NoneType DEF TypeOK, Pause, SlotsType
<1>3. InferenceType'
  BY DEF TypeOK, Pause, AbortTasks, InferenceType
<1>4. ExecutorType'
  BY DEF TypeOK, Pause, DropExecutions, Some, ExecutorType, SlotsType, Jobs, JobOrNone, None
<1>5. HistoryType'
  BY DEF TypeOK, Pause, HistoryType, SlotsType, Jobs, JobOrNone, None
<1> QED
  BY <1>1, <1>2, <1>3, <1>4, <1>5 DEF TypeOK

LEMMA ConfirmTypeOK ==
  ASSUME TypeOK, NEW n \in Jobs, NEW yes \in BOOLEAN, ConfirmExecution(n, yes)
  PROVE  TypeOK'
<1> DEFINE id == idOf[n]
           card == IF shown.kind = "plan" THEN CardAfterReply(shown, id) ELSE shown
<1>1. ConnType' /\ InferenceType'
  BY HandledType, Unchanged DEF TypeOK, ConfirmExecution
<1>2. /\ card \in Card
      /\ CardAfterReply(card, id) \in Card
      /\ CardAfterReply(shown, id) \in Card
  BY CardType, NoCardType DEF TypeOK, SlotsType, CardAfterReply
<1>3. Confirmable(id) \subseteq Jobs /\ PlansLeft(id) \subseteq Jobs
  BY DEF Confirmable, PlansLeft, WithId, TypeOK, SlotsType
<1>4. \A p \in Confirmable(id) : p \in Jobs /\ p \in JobOrNone
  BY <1>3, BoundsAssumption DEF Jobs, JobOrNone
<1>5. /\ UNCHANGED <<audio, hasAudio, processing, deferred, decisionKind>>
      /\ UNCHANGED <<detached, cancelled, expired, worker, acts, automation, events>>
      /\ UNCHANGED <<owed, previewed, lateActs, reported>>
  BY DEF ConfirmExecution
<1>6. shown' \in Card /\ pending' \in SUBSET Jobs /\ execution' \in JobOrNone
  BY <1>2, <1>3, <1>4 DEF ConfirmExecution, TypeOK, SlotsType
<1>7. run' \in [Jobs -> {"none", "capturing", "waiting", "verifying", "late", "ended"}]
  BY <1>4 DEF ConfirmExecution, TypeOK, ExecutorType
<1>8. /\ withdrawn' \in SUBSET Jobs
      /\ approved' \in SUBSET Jobs
      /\ owedRun' \in SUBSET Jobs
      /\ starts' \in [Jobs -> Nat]
  BY <1>3, <1>4 DEF ConfirmExecution, TypeOK, HistoryType
<1>9. SlotsType'
  BY <1>5, <1>6 DEF TypeOK, SlotsType
<1>10. ExecutorType'
  BY <1>5, <1>7 DEF TypeOK, ExecutorType
<1>11. HistoryType'
  BY <1>5, <1>8 DEF TypeOK, HistoryType
<1> QED
  BY <1>1, <1>9, <1>10, <1>11 DEF TypeOK

LEMMA DecisionTypeOK ==
  ASSUME TypeOK, NEW n \in Jobs, NEW kind \in DecisionKind, NEW yes \in BOOLEAN,
         DecisionResponse(n, kind, yes)
  PROVE  TypeOK'
<1>1. ConnType' /\ ExecutorType'
  BY HandledType, Unchanged DEF TypeOK, DecisionResponse
<1>2. n \in JobOrNone /\ NoCard \in Card /\ CardAfterReply(shown, idOf[n]) \in Card
  BY CardType, NoCardType, BoundsAssumption DEF Jobs, JobOrNone
<1>3. CASE deferred' = None /\ ErrorReply(idOf[n]) /\ UNCHANGED <<processing, decisionKind, task>>
  <2>1. SlotsType'
    BY <1>2, <1>3, NoneType DEF TypeOK, DecisionResponse, ErrorReply, SlotsType
  <2>2. InferenceType' /\ HistoryType'
    BY <1>3 DEF TypeOK, DecisionResponse, ErrorReply, Settle, InferenceType, HistoryType
  <2> QED
    BY <1>1, <2>1, <2>2 DEF TypeOK
<1>4. CASE AskDecision(n, "UploadFullScreenshot") /\ UNCHANGED <<processing, task, owed, owedRun>>
  <2>1. SlotsType'
    BY <1>2, <1>4 DEF TypeOK, DecisionResponse, AskDecision, SlotsType, Card, DecisionKind
  <2>2. InferenceType' /\ HistoryType'
    BY <1>4 DEF TypeOK, DecisionResponse, InferenceType, HistoryType
  <2> QED
    BY <1>1, <2>1, <2>2 DEF TypeOK
<1>5. CASE /\ deferred' = None
           /\ StartInference(n)
           /\ shown' = CardAfterDecision(n, kind)
           /\ UNCHANGED <<decisionKind, owed, owedRun>>
  <2>1. SlotsType'
    BY <1>2, <1>5, NoneType
    DEF TypeOK, DecisionResponse, StartInference, CardAfterDecision, SlotsType
  <2>2. InferenceType' /\ HistoryType'
    BY <1>5 DEF TypeOK, DecisionResponse, StartInference, InferenceType, HistoryType
  <2> QED
    BY <1>1, <2>1, <2>2 DEF TypeOK
<1> QED
  BY <1>3, <1>4, <1>5 DEF DecisionResponse

LEMMA DesktopTypeOK ==
  ASSUME TypeOK
  PROVE  /\ DesktopDecide => TypeOK'
         /\ DecisionTimeout => TypeOK'
         /\ \A n \in Jobs : PlanExpires(n) => TypeOK'
         /\ \A n \in Jobs, kind \in DecisionKind : StaleDecision(n, kind) => TypeOK'
<1>1. ASSUME DesktopDecide PROVE TypeOK'
  <2>1. SlotsType'
    BY <1>1, NoCardType DEF TypeOK, DesktopDecide, SlotsType
  <2> QED
    BY <1>1, <2>1, Unchanged DEF TypeOK, DesktopDecide
<1>2. ASSUME DecisionTimeout PROVE TypeOK'
  <2>1. SlotsType'
    BY <1>2, CardType, NoneType DEF TypeOK, DecisionTimeout, ErrorReply, SlotsType
  <2>2. HistoryType'
    BY <1>2 DEF TypeOK, DecisionTimeout, ErrorReply, Settle, HistoryType
  <2> QED
    BY <1>2, <2>1, <2>2, Unchanged DEF TypeOK, DecisionTimeout
<1>3. ASSUME NEW n \in Jobs, PlanExpires(n) PROVE TypeOK'
  <2>1. SlotsType'
    BY <1>3, NoCardType DEF TypeOK, PlanExpires, SlotsType
  <2> QED
    BY <1>3, <2>1, Unchanged DEF TypeOK, PlanExpires
<1>4. ASSUME NEW n \in Jobs, NEW kind \in DecisionKind, StaleDecision(n, kind) PROVE TypeOK'
  <2>1. CardAfterDecision(n, kind) \in Card
    BY NoCardType DEF CardAfterDecision, TypeOK, SlotsType
  <2> QED
    BY <1>4, <2>1, UnexpectedTypeOK DEF StaleDecision
<1> QED
  BY <1>1, <1>2, <1>3, <1>4

LEMMA TasksTypeOK ==
  ASSUME TypeOK, NEW n \in Jobs
  PROVE  /\ \A outcome \in Outcome : TaskFinishes(n, outcome) => TypeOK'
         /\ AbortLands(n) => TypeOK'
<1>1. ASSUME NEW outcome \in Outcome, TaskFinishes(n, outcome) PROVE TypeOK'
  <2>1. [job |-> n, outcome |-> outcome] \in Result
    BY DEF Result
  <2>2. InferenceType'
    BY <1>1, <2>1, SendType DEF TypeOK, TaskFinishes, InferenceType
  <2> QED
    BY <1>1, <2>2, Unchanged DEF TypeOK, TaskFinishes
<1>2. ASSUME AbortLands(n) PROVE TypeOK'
  <2>1. InferenceType'
    BY <1>2 DEF TypeOK, AbortLands, InferenceType
  <2> QED
    BY <1>2, <2>1, Unchanged DEF TypeOK, AbortLands
<1> QED
  BY <1>1, <1>2

LEMMA PublishType ==
  ASSUME TypeOK, NEW r \in Result, Publish(r)
  PROVE  /\ pending' \in SUBSET Jobs /\ previewed' \in SUBSET Jobs
         /\ shown' \in Card
         /\ owed' \in SUBSET Jobs /\ owedRun' \in SUBSET Jobs
<1>1. r.job \in Jobs /\ r.job \in JobOrNone
  BY BoundsAssumption DEF Result, Jobs, JobOrNone
<1>2. [job |-> r.job, kind |-> "plan"] \in Card
  BY <1>1 DEF Card
<1>3. owed' \in SUBSET Jobs /\ owedRun' \in SUBSET Jobs
  BY DEF Publish, ErrorReply, Settle, TypeOK, HistoryType
<1>4. pending' \in SUBSET Jobs /\ previewed' \in SUBSET Jobs
  BY <1>1 DEF Publish, PlansLeft, TypeOK, SlotsType, HistoryType
<1>5. shown' \in Card
  BY <1>2, CardType DEF Publish, ErrorReply, TypeOK, SlotsType
<1> QED
  BY <1>3, <1>4, <1>5

LEMMA ReceiveResultTypeOK == TypeOK /\ ReceiveResult => TypeOK'
<1> SUFFICES ASSUME TypeOK, ReceiveResult PROVE TypeOK'
  OBVIOUS
<1> DEFINE r == Head(results)
<1>1. r \in Result /\ results' \in Seq(Result)
  BY DEF ReceiveResult, TypeOK, InferenceType
<1>2. ConnType' /\ ExecutorType'
  BY Unchanged DEF TypeOK, ReceiveResult
<1>3. CASE Publish(r) /\ processing' = None /\ AbortTasks({processing})
  <2>1. SlotsType' /\ HistoryType'
    BY <1>1, <1>3, PublishType, NoneType DEF ReceiveResult, TypeOK, SlotsType, HistoryType
  <2>2. InferenceType'
    BY <1>1, <1>3 DEF TypeOK, AbortTasks, InferenceType
  <2> QED
    BY <1>2, <2>1, <2>2 DEF TypeOK
<1>4. CASE UNCHANGED <<processing, task, pending, shown, previewed, owed, owedRun>>
  <2>1. SlotsType' /\ HistoryType'
    BY <1>4 DEF ReceiveResult, TypeOK, SlotsType, HistoryType
  <2>2. InferenceType'
    BY <1>1, <1>4 DEF TypeOK, InferenceType
  <2> QED
    BY <1>2, <2>1, <2>2 DEF TypeOK
<1> QED
  BY <1>3, <1>4 DEF ReceiveResult

LEMMA EmitType ==
  ASSUME TypeOK, NEW n \in Jobs, NEW kind \in EventKind, Emit(n, kind)
  PROVE  events' \in Seq(Event)
<1>1. [job |-> n, kind |-> kind] \in Event
  BY DEF Event
<1> QED
  BY <1>1, SendType DEF Emit, TypeOK, ExecutorType

LEMMA ExecutorTypeOK ==
  ASSUME TypeOK, NEW n \in Jobs, Executor(n) \/ DeadlinePasses(n)
  PROVE  TypeOK'
<1>1. CASE SnapshotExpired(n)
  <2>1. events' \in Seq(Event)
    BY <1>1, EmitType DEF SnapshotExpired, EventKind
  <2>2. ExecutorType'
    BY <1>1, <2>1 DEF TypeOK, SnapshotExpired, ExecutorType
  <2> QED
    BY <1>1, <2>2, Unchanged DEF TypeOK, SnapshotExpired
<1>2. CASE StartWorker(n)
  <2>1. ExecutorType'
    BY <1>2 DEF TypeOK, StartWorker, AfterStep, ExecutorType
  <2> QED
    BY <1>2, <2>1, Unchanged DEF TypeOK, StartWorker
<1>3. CASE WorkerJoined(n)
  <2>1. events' \in Seq(Event)
    BY <1>3, EmitType DEF WorkerJoined, Verdict, EventKind
  <2>2. ExecutorType'
    BY <1>3, <2>1 DEF TypeOK, WorkerJoined, ExecutorType
  <2> QED
    BY <1>3, <2>2, Unchanged DEF TypeOK, WorkerJoined
<1>4. CASE RunTimesOut(n)
  <2>1. events' \in Seq(Event)
    BY <1>4, EmitType DEF RunTimesOut, EventKind
  <2>2. ExecutorType'
    BY <1>4, <2>1 DEF TypeOK, RunTimesOut, AfterStep, ExecutorType
  <2> QED
    BY <1>4, <2>2, Unchanged DEF TypeOK, RunTimesOut
<1>5. CASE LateWorkerJoined(n)
  <2>1. events' \in Seq(Event)
    BY <1>5, EmitType DEF LateWorkerJoined, EventKind
  <2>2. ExecutorType'
    BY <1>5, <2>1 DEF TypeOK, LateWorkerJoined, ExecutorType
  <2> QED
    BY <1>5, <2>2, Unchanged DEF TypeOK, LateWorkerJoined
<1>6. CASE RunAbortLands(n)
  <2>1. ExecutorType'
    BY <1>6 DEF TypeOK, RunAbortLands, ExecutorType
  <2> QED
    BY <1>6, <2>1, Unchanged DEF TypeOK, RunAbortLands
<1>7. CASE DeadlinePasses(n)
  <2>1. ExecutorType'
    BY <1>7 DEF TypeOK, DeadlinePasses, ExecutorType
  <2> QED
    BY <1>7, <2>1, Unchanged DEF TypeOK, DeadlinePasses
<1>8. CASE VerifyOutcome(n)
  <2>1. ExecutorType'
    BY <1>8 DEF TypeOK, VerifyOutcome, AfterStep, ExecutorType
  <2> QED
    BY <1>8, <2>1, Unchanged DEF TypeOK, VerifyOutcome
<1>9. CASE OutcomeVerified(n)
  <2>1. events' \in Seq(Event)
    BY <1>9, EmitType DEF OutcomeVerified, EventKind
  <2>2. ExecutorType'
    BY <1>9, <2>1 DEF TypeOK, OutcomeVerified, ExecutorType
  <2> QED
    BY <1>9, <2>2, Unchanged DEF TypeOK, OutcomeVerified
<1> QED
  BY <1>1, <1>2, <1>3, <1>4, <1>5, <1>6, <1>7, <1>8, <1>9 DEF Executor

LEMMA ReceiveEventTypeOK == TypeOK /\ ReceiveEvent => TypeOK'
<1> SUFFICES ASSUME TypeOK, ReceiveEvent PROVE TypeOK'
  OBVIOUS
<1>1. ConnType' /\ InferenceType'
  BY Unchanged DEF TypeOK, ReceiveEvent
<1>2. execution \in Jobs
  BY DEF TypeOK, SlotsType, ReceiveEvent, None, Jobs, JobOrNone
<1>3. SlotsType'
  BY CardType, NoneType DEF TypeOK, ReceiveEvent, ErrorReply, SlotsType
<1>4. ExecutorType'
  BY <1>2 DEF TypeOK, ReceiveEvent, DropExecutions, ExecutorType
<1>5. HistoryType'
  BY <1>2 DEF TypeOK, ReceiveEvent, ErrorReply, Settle, HistoryType
<1> QED
  BY <1>1, <1>3, <1>4, <1>5 DEF TypeOK

\* A worker whose check has passed has an action left to perform.  TypeOK is
\* not inductive without it.
ArmedInPlan == \A n \in Jobs : worker[n] = "armed" => acts[n] < PlanLength

LEMMA WorkerTypeOK ==
  ASSUME TypeOK, ArmedInPlan, NEW n \in Jobs, Worker(n)
  PROVE  TypeOK'
<1>1. ConnType' /\ SlotsType' /\ InferenceType'
  BY Unchanged DEF TypeOK, Worker, WorkerStep, WorkerLocks, WorkerGivesUp, WorkerStops,
       WorkerCompletes, WorkerPassesCheck, WorkerActs, WorkerActionFails
<1>2. worker' \in [Jobs -> {"none", "lock", "check", "armed", "done", "failed"}]
  BY DEF TypeOK, ExecutorType, Worker, WorkerStep, WorkerLocks, WorkerGivesUp, WorkerStops,
       WorkerCompletes, WorkerPassesCheck, WorkerActs, WorkerActionFails
<1>3. automation' \in JobOrNone
  BY NoneType, BoundsAssumption
  DEF TypeOK, ExecutorType, Worker, WorkerLocks, WorkerGivesUp, WorkerStops, WorkerCompletes,
      WorkerPassesCheck, WorkerActs, WorkerActionFails, Jobs, JobOrNone
<1>4. lateActs' \in [Jobs -> Nat]
  BY DEF TypeOK, HistoryType, Worker, WorkerLocks, WorkerGivesUp, WorkerStops, WorkerCompletes,
      WorkerPassesCheck, WorkerActs, WorkerActionFails
<1>5. acts' \in [Jobs -> 0..PlanLength]
  <2>1. CASE WorkerActs(n)
    <3>1. acts[n] + 1 \in 0..PlanLength
      BY <2>1, BoundsAssumption DEF WorkerActs, ArmedInPlan, TypeOK, ExecutorType
    <3> QED
      BY <2>1, <3>1 DEF WorkerActs, TypeOK, ExecutorType
  <2>2. CASE UNCHANGED acts
    BY <2>2 DEF TypeOK, ExecutorType
  <2> QED
    BY <2>1, <2>2 DEF Worker, WorkerLocks, WorkerGivesUp, WorkerStops, WorkerCompletes,
         WorkerPassesCheck, WorkerActionFails
<1>6. UNCHANGED <<run, detached, cancelled, expired, events>>
  BY DEF Worker, WorkerStep, WorkerLocks, WorkerGivesUp, WorkerStops, WorkerCompletes,
      WorkerPassesCheck, WorkerActs, WorkerActionFails
<1>7. UNCHANGED <<owed, owedRun, withdrawn, previewed, approved, starts, reported>>
  BY DEF Worker, WorkerStep, WorkerLocks, WorkerGivesUp, WorkerStops, WorkerCompletes,
      WorkerPassesCheck, WorkerActs, WorkerActionFails
<1>8. ExecutorType' /\ HistoryType'
  BY <1>2, <1>3, <1>4, <1>5, <1>6, <1>7 DEF TypeOK, ExecutorType, HistoryType
<1> QED
  BY <1>1, <1>8 DEF TypeOK

\* Only the executor and the worker itself move a worker.
LEMMA WorkersRest ==
  ASSUME [Next]_vars
  PROVE  \/ UNCHANGED <<worker, acts, lateActs, automation>>
         \/ \E n \in Jobs : StartWorker(n) \/ Worker(n)
<1>1. CASE FromPhone
  BY <1>1 DEF FromPhone, ClientHello, UnexpectedMessage, Unexpected, EndConnection, CommandRequest,
       AudioStart, Refuse, AudioChunk, AudioEnd, CancelRequest, executor, history
<1>2. CASE Answers
  BY <1>2 DEF Answers, ConfirmExecution, DecisionResponse, StaleDecision, Unexpected,
       EndConnection, executor, history
<1>3. CASE FromDesktop \/ Close \/ DecisionTimeout \/ ReceiveEvent
  BY <1>3 DEF FromDesktop, Pause, DesktopDecide, Close, EndConnection, DecisionTimeout,
       ReceiveEvent, executor, history
<1>4. CASE Inference
  BY <1>4 DEF Inference, ReceiveResult, AbortLands, TaskFinishes, executor, history
<1>5. ASSUME NEW n \in Jobs, PlanExpires(n) \/ DeadlinePasses(n) \/ Executor(n) \/ Worker(n)
      PROVE  UNCHANGED <<worker, acts, lateActs, automation>> \/ StartWorker(n) \/ Worker(n)
  BY <1>5 DEF PlanExpires, DeadlinePasses, Executor, SnapshotExpired, WorkerJoined, VerifyOutcome, OutcomeVerified, RunTimesOut,
       LateWorkerJoined, RunAbortLands, executor, history
<1>6. CASE UNCHANGED vars
  BY <1>6 DEF vars, executor, history
<1> QED
  BY <1>1, <1>2, <1>3, <1>4, <1>5, <1>6 DEF Next

LEMMA ArmedInPlanStep == TypeOK /\ ArmedInPlan /\ [Next]_vars => ArmedInPlan'
<1> SUFFICES ASSUME TypeOK, ArmedInPlan, [Next]_vars PROVE ArmedInPlan'
  OBVIOUS
<1>1. CASE UNCHANGED <<worker, acts, lateActs, automation>>
  BY <1>1 DEF ArmedInPlan
<1>2. ASSUME NEW n \in Jobs, StartWorker(n) PROVE ArmedInPlan'
  BY <1>2 DEF ArmedInPlan, StartWorker, TypeOK, ExecutorType
<1>3. ASSUME NEW n \in Jobs, Worker(n) PROVE ArmedInPlan'
  BY <1>3 DEF ArmedInPlan, TypeOK, ExecutorType, Worker, WorkerStep, WorkerLocks, WorkerGivesUp,
       WorkerStops, WorkerCompletes, WorkerPassesCheck, WorkerActs, WorkerActionFails
<1> QED
  BY <1>1, <1>2, <1>3, WorkersRest

LEMMA TypeOKStep == TypeOK /\ ArmedInPlan /\ [Next]_vars => TypeOK'
<1> SUFFICES ASSUME TypeOK, ArmedInPlan, [Next]_vars PROVE TypeOK'
  OBVIOUS
<1>1. CASE FromPhone
  BY <1>1, ClientHelloTypeOK, UnexpectedTypeOK, CommandRequestTypeOK, AudioStartTypeOK,
     RefuseTypeOK, AudioChunkTypeOK, AudioEndTypeOK, CancelRequestTypeOK
  DEF FromPhone, UnexpectedMessage, TypeOK, SlotsType
<1>2. CASE Answers
  BY <1>2, ConfirmTypeOK, DecisionTypeOK, DesktopTypeOK DEF Answers
<1>3. CASE FromDesktop \/ Close \/ DecisionTimeout
  BY <1>3, PauseTypeOK, DesktopTypeOK, EndConnectionTypeOK DEF FromDesktop, Close
<1>4. CASE Inference \/ ReceiveEvent
  BY <1>4, ReceiveResultTypeOK, TasksTypeOK, ReceiveEventTypeOK DEF Inference
<1>5. ASSUME NEW n \in Jobs, PlanExpires(n) \/ DeadlinePasses(n) \/ Executor(n) \/ Worker(n)
      PROVE  TypeOK'
  BY <1>5, DesktopTypeOK, ExecutorTypeOK, WorkerTypeOK
<1>6. CASE UNCHANGED vars
  BY <1>6, Unchanged DEF vars, TypeOK
<1> QED
  BY <1>1, <1>2, <1>3, <1>4, <1>5, <1>6 DEF Next

\* Every reachable state is well typed: in particular the counter of
\* unexpected messages never reaches its limit, and no worker performs more
\* actions than its plan has.
THEOREM TypeCorrect == Spec => [](TypeOK /\ ArmedInPlan)
<1>1. Init => TypeOK /\ ArmedInPlan
  BY InitTypeOK DEF Init, ArmedInPlan
<1>2. TypeOK /\ ArmedInPlan /\ [Next]_vars => (TypeOK /\ ArmedInPlan)'
  BY TypeOKStep, ArmedInPlanStep
<1> QED
  BY <1>1, <1>2, PTL DEF Spec

-----------------------------------------------------------------------------
(***************************************************************************)
(* The safety of the connection: what a pause, a cancellation and the end  *)
(* of a connection leave behind, and what the desktop's card refers to.    *)
(* None of it needs an assumption about the phone.                         *)
(***************************************************************************)
-----------------------------------------------------------------------------
(***************************************************************************)
(* A paused connection is idle.                                            *)
(***************************************************************************)

LEMMA NoCardStays == \A id : CardAfterReply(NoCard, id) = NoCard
  BY DEF CardAfterReply

LEMMA PausedStep == TypeOK /\ PausedIsIdle /\ [Next]_vars => PausedIsIdle'
<1> SUFFICES ASSUME TypeOK, PausedIsIdle, [Next]_vars PROVE PausedIsIdle'
  OBVIOUS
<1>1. CASE EndConnection \/ \E value \in BOOLEAN : Pause(value)
  BY <1>1 DEF PausedIsIdle, EndConnection, Pause
<1>2. ASSUME NEW card, Unexpected(card), card = NoCard \/ ~paused \/ card = shown
      PROVE  PausedIsIdle'
  BY <1>1, <1>2 DEF PausedIsIdle, Unexpected
<1>3. CASE FromPhone
  BY <1>2, <1>3, NoCardStays
  DEF PausedIsIdle, FromPhone, ClientHello, UnexpectedMessage, CommandRequest, AudioStart, Refuse,
      AudioChunk, AudioEnd, CancelRequest, Accepting, Handled, ErrorReply, PlansLeft, WithId, slots
<1>4. CASE Answers
  BY <1>2, <1>4
  DEF PausedIsIdle, Answers, ConfirmExecution, DecisionResponse, StaleDecision, Accepting, Handled
<1>5. CASE FromDesktop \/ Close
  BY <1>1, <1>5 DEF PausedIsIdle, FromDesktop, DesktopDecide, Close, conn
<1>6. CASE Inference
  BY <1>6 DEF PausedIsIdle, Inference, ReceiveResult, AbortLands, TaskFinishes, conn, slots
<1>7. CASE DecisionTimeout \/ ReceiveEvent \/ \E n \in Jobs : PlanExpires(n)
  BY <1>7 DEF PausedIsIdle, DecisionTimeout, DecisionTick, ReceiveEvent, PlanExpires, conn
<1>8. ASSUME NEW n \in Jobs, DeadlinePasses(n) \/ Executor(n) \/ Worker(n) \/ UNCHANGED vars
      PROVE  UNCHANGED <<conn, slots>>
  BY <1>8 DEF DeadlinePasses, Executor, SnapshotExpired, StartWorker, WorkerJoined, VerifyOutcome, OutcomeVerified, RunTimesOut,
       LateWorkerJoined, RunAbortLands, Worker, WorkerStep, WorkerLocks, WorkerGivesUp, WorkerStops,
       WorkerCompletes, WorkerPassesCheck, WorkerActs, WorkerActionFails, vars
<1>9. UNCHANGED <<conn, slots>> => PausedIsIdle'
  BY DEF PausedIsIdle, conn, slots
<1>10. UNCHANGED vars => UNCHANGED <<conn, slots>>
  BY DEF vars
<1> QED
  BY <1>3, <1>4, <1>5, <1>6, <1>7, <1>8, <1>9, <1>10 DEF Next

\* While a connection is paused it holds nothing the user could still approve
\* and nothing that runs, whatever the phone sends meanwhile.
THEOREM PausedConnectionsAreIdle == Spec => []PausedIsIdle
<1>1. Init => PausedIsIdle
  BY DEF Init, PausedIsIdle
<1> QED
  BY <1>1, PausedStep, TypeCorrect, PTL DEF Spec

-----------------------------------------------------------------------------
(***************************************************************************)
(* A stop request reaches the worker.                                      *)
(***************************************************************************)

\* Nothing revokes a stop request.
LEMMA StopsStay ==
  ASSUME TypeOK, [Next]_vars
  PROVE  cancelled \subseteq cancelled' /\ expired \subseteq expired'
<1>1. CASE FromPhone
  BY <1>1 DEF FromPhone, ClientHello, UnexpectedMessage, Unexpected, EndConnection, CommandRequest,
       AudioStart, Refuse, AudioChunk, AudioEnd, CancelRequest, DropExecutions, executor
<1>2. CASE Answers
  BY <1>2 DEF Answers, ConfirmExecution, DecisionResponse, StaleDecision, Unexpected,
       EndConnection, DropExecutions, executor
<1>3. CASE FromDesktop \/ Close \/ DecisionTimeout \/ ReceiveEvent
  BY <1>3 DEF FromDesktop, Pause, DesktopDecide, Close, EndConnection, DecisionTimeout,
       ReceiveEvent, DropExecutions, executor
<1>4. CASE Inference
  BY <1>4 DEF Inference, ReceiveResult, AbortLands, TaskFinishes, executor
<1>5. ASSUME NEW n \in Jobs, PlanExpires(n) \/ DeadlinePasses(n) \/ Executor(n) \/ Worker(n)
      PROVE  cancelled \subseteq cancelled' /\ expired \subseteq expired'
  BY <1>5 DEF PlanExpires, DeadlinePasses, Executor, SnapshotExpired, StartWorker, WorkerJoined, VerifyOutcome, OutcomeVerified,
       RunTimesOut, LateWorkerJoined, RunAbortLands, Worker, WorkerStep, WorkerLocks, WorkerGivesUp,
       WorkerStops, WorkerCompletes, WorkerPassesCheck, WorkerActs, WorkerActionFails, executor
<1>6. CASE UNCHANGED vars
  BY <1>6 DEF vars, executor
<1> QED
  BY <1>1, <1>2, <1>3, <1>4, <1>5, <1>6 DEF Next

\* A worker that has begun an action after a stop request is past the action
\* that was already armed, and it is not armed again.
LateBound ==
    \A n \in Jobs : /\ lateActs[n] <= 1
                    /\ lateActs[n] # 0 => StopRequested(n) /\ worker[n] # "armed"

LEMMA LateBoundStep == TypeOK /\ LateBound /\ [Next]_vars => LateBound'
<1> SUFFICES ASSUME TypeOK, LateBound, [Next]_vars, NEW m \in Jobs
             PROVE  /\ lateActs'[m] <= 1
                    /\ lateActs'[m] # 0 => StopRequested(m)' /\ worker'[m] # "armed"
  BY DEF LateBound
<1>1. StopRequested(m) => StopRequested(m)'
  BY StopsStay DEF StopRequested
<1>2. CASE UNCHANGED <<worker, acts, lateActs, automation>>
  BY <1>1, <1>2 DEF LateBound
<1>3. ASSUME NEW n \in Jobs, StartWorker(n)
      PROVE  lateActs' = lateActs /\ (worker'[m] = "armed" => worker[m] = "armed")
  BY <1>3 DEF StartWorker, history, TypeOK, ExecutorType
<1>4. ASSUME NEW n \in Jobs, Worker(n)
      PROVE  /\ lateActs'[m] <= 1
             /\ lateActs'[m] # 0 => StopRequested(m) /\ worker'[m] # "armed"
  <2>1. CASE WorkerActs(n)
    BY <2>1 DEF WorkerActs, WorkerStep, LateBound, TypeOK, ExecutorType, HistoryType
  <2>2. CASE WorkerPassesCheck(n)
    BY <2>2 DEF WorkerPassesCheck, WorkerStep, LateBound, TypeOK, ExecutorType
  <2>3. CASE ~WorkerActs(n) /\ ~WorkerPassesCheck(n)
    BY <1>4, <2>3 DEF Worker, WorkerStep, WorkerLocks, WorkerGivesUp, WorkerStops,
         WorkerCompletes, WorkerActionFails, LateBound, TypeOK, ExecutorType
  <2> QED
    BY <2>1, <2>2, <2>3
<1> QED
  BY <1>1, <1>2, <1>3, <1>4, WorkersRest DEF LateBound

\* Once a plan was told to stop, by a cancellation, a pause, a disconnection
\* or its deadline, at most one more native action of it begins.
THEOREM StopsAreEffective == Spec => []AtMostOneLateAction
<1>1. Init => LateBound
  BY DEF Init, LateBound
<1>2. LateBound => AtMostOneLateAction
  BY DEF LateBound, AtMostOneLateAction
<1> QED
  BY <1>1, <1>2, LateBoundStep, TypeCorrect, PTL DEF Spec

-----------------------------------------------------------------------------
(***************************************************************************)
(* Automation has an owner.                                                *)
(***************************************************************************)

\* The part of a run that precedes the worker counts as automation too: it
\* may still start the worker.
Live(n) == (WorkerActive(n) \/ run[n] = "capturing") /\ n \notin cancelled

Owned == \A n \in Jobs : Live(n) => Ready /\ execution = n

\* A job that was neither live nor the one just started is not live now.
LEMMA LiveIsOld ==
  ASSUME TypeOK, [Next]_vars, NEW m \in Jobs, Live(m)', ~Live(m)
  PROVE  Ready' /\ execution' = m
<1>1. m \notin cancelled
  BY StopsStay DEF Live
<1>2. worker'[m] = worker[m] \/ \E n \in Jobs : StartWorker(n) \/ Worker(n)
  BY WorkersRest
<1>3. ASSUME NEW n \in Jobs, StartWorker(n) \/ Worker(n) PROVE FALSE
  BY <1>1, <1>3 DEF Live, WorkerActive, StartWorker, AfterStep, Worker, WorkerStep, WorkerLocks,
       WorkerGivesUp, WorkerStops, WorkerCompletes, WorkerPassesCheck, WorkerActs,
       WorkerActionFails, TypeOK, ExecutorType
<1>4. run[m] # "capturing" /\ run'[m] = "capturing"
  BY <1>1, <1>2, <1>3 DEF Live, WorkerActive
<1>5. CASE FromPhone
  BY <1>4, <1>5 DEF FromPhone, ClientHello, UnexpectedMessage, Unexpected, EndConnection,
       CommandRequest, AudioStart, Refuse, AudioChunk, AudioEnd, CancelRequest, executor
<1>6. CASE Answers
  BY <1>4, <1>6 DEF Answers, ConfirmExecution, DecisionResponse, StaleDecision, Unexpected,
       EndConnection, Accepting, Ready, Handled, executor, TypeOK, ExecutorType
<1>7. CASE FromDesktop \/ Close \/ DecisionTimeout \/ ReceiveEvent
  BY <1>4, <1>7 DEF FromDesktop, Pause, DesktopDecide, Close, EndConnection, DecisionTimeout,
       ReceiveEvent, executor
<1>8. CASE Inference
  BY <1>4, <1>8 DEF Inference, ReceiveResult, AbortLands, TaskFinishes, executor
<1>9. ASSUME NEW n \in Jobs, PlanExpires(n) \/ DeadlinePasses(n) \/ Executor(n) PROVE FALSE
  BY <1>3, <1>4, <1>9 DEF PlanExpires, DeadlinePasses, Executor, SnapshotExpired, WorkerJoined, VerifyOutcome, OutcomeVerified,
       RunTimesOut, LateWorkerJoined, RunAbortLands, AfterStep, executor, TypeOK, ExecutorType
<1>10. CASE UNCHANGED vars
  BY <1>4, <1>10 DEF vars, executor
<1> QED
  BY <1>3, <1>5, <1>6, <1>7, <1>8, <1>9, <1>10 DEF Next

\* The owner changes only when the plan that ran has been cancelled, and only
\* the end of the connection makes it unready.
LEMMA OwnerStays ==
  ASSUME TypeOK, [Next]_vars, Ready, execution # None, execution \notin cancelled'
  PROVE  Ready' /\ execution' = execution
<1>1. CASE EndConnection
  BY <1>1 DEF EndConnection, DropExecutions, Some
<1>2. CASE FromPhone
  BY <1>1, <1>2 DEF FromPhone, ClientHello, UnexpectedMessage, Unexpected, CommandRequest, Ready,
       AudioStart, Refuse, AudioChunk, AudioEnd, CancelRequest, Handled, DropExecutions, WithId,
       slots
<1>3. CASE Answers
  BY <1>1, <1>3 DEF Answers, ConfirmExecution, DecisionResponse, StaleDecision, Unexpected,
       Handled, Ready
<1>4. CASE FromDesktop \/ Close \/ DecisionTimeout
  BY <1>1, <1>4 DEF FromDesktop, Pause, DesktopDecide, Close, DecisionTimeout, DropExecutions, Some,
       Ready, conn
<1>5. CASE Inference \/ ReceiveEvent
  BY <1>5 DEF Inference, ReceiveResult, AbortLands, TaskFinishes, ReceiveEvent, DropExecutions,
       Ready, conn, slots
<1>6. ASSUME NEW n \in Jobs, PlanExpires(n) \/ DeadlinePasses(n) \/ Executor(n) \/ Worker(n)
      PROVE  Ready' /\ execution' = execution
  BY <1>6 DEF PlanExpires, DeadlinePasses, Executor, SnapshotExpired, StartWorker, WorkerJoined, VerifyOutcome, OutcomeVerified,
       RunTimesOut, LateWorkerJoined, RunAbortLands, Worker, WorkerStep, WorkerLocks, WorkerGivesUp,
       WorkerStops, WorkerCompletes, WorkerPassesCheck, WorkerActs, WorkerActionFails, Ready, conn,
       slots
<1>7. CASE UNCHANGED vars
  BY <1>7 DEF vars, conn, slots, Ready
<1> QED
  BY <1>2, <1>3, <1>4, <1>5, <1>6, <1>7 DEF Next

LEMMA OwnedStep == TypeOK /\ Owned /\ [Next]_vars => Owned'
<1> SUFFICES ASSUME TypeOK, Owned, [Next]_vars, NEW n \in Jobs, Live(n)'
             PROVE  Ready' /\ execution' = n
  BY DEF Owned
<1>1. CASE ~Live(n)
  BY <1>1, LiveIsOld
<1>2. CASE Live(n)
  <2>1. Ready /\ execution = n /\ n # None
    BY <1>2, NoneType DEF Owned
  <2>2. n \notin cancelled'
    BY DEF Live
  <2> QED
    BY <2>1, <2>2, OwnerStays
<1> QED
  BY <1>1, <1>2

\* Automation that nobody has told to stop belongs to the execution slot of a
\* live connection.
THEOREM AutomationIsOwned == Spec => []OnlyOwnedAutomationRuns
<1>1. Init => Owned
  BY DEF Init, Owned, Live, WorkerActive
<1>2. Owned => OnlyOwnedAutomationRuns
  BY DEF Owned, Live, OnlyOwnedAutomationRuns
<1> QED
  BY <1>1, <1>2, OwnedStep, TypeCorrect, PTL DEF Spec

-----------------------------------------------------------------------------
(***************************************************************************)
(* The desktop's card can be acted on.                                     *)
(***************************************************************************)

\* The plan on the card is itself pending, not just one with the same id.
CardIsCurrent ==
    /\ shown.kind = "plan" => shown.job \in pending
    /\ shown.kind \in DecisionKind => deferred = shown.job /\ decisionKind = shown.kind

LEMMA CardStep == TypeOK /\ CardIsCurrent /\ [Next]_vars => CardIsCurrent'
<1> SUFFICES ASSUME TypeOK, CardIsCurrent, [Next]_vars PROVE CardIsCurrent'
  OBVIOUS
<1>1. NoCard.kind = "none" /\ "none" \notin DecisionKind /\ "plan" \notin DecisionKind
  BY DEF NoCard, DecisionKind
<1>2. CASE shown' = NoCard
  BY <1>1, <1>2 DEF CardIsCurrent
<1>3. CASE UNCHANGED <<shown, pending, deferred, decisionKind>>
  BY <1>3 DEF CardIsCurrent
<1>4. ASSUME NEW id, shown' = CardAfterReply(shown, id),
             UNCHANGED <<pending, deferred, decisionKind>>
      PROVE  CardIsCurrent'
  BY <1>2, <1>3, <1>4 DEF CardAfterReply
<1>5. ASSUME NEW n, NEW kind, AskDecision(n, kind), kind \in DecisionKind PROVE CardIsCurrent'
  BY <1>1, <1>5 DEF CardIsCurrent, AskDecision
<1>6. shown.kind = "plan" => shown.job \in Jobs
  BY DEF CardIsCurrent, TypeOK, SlotsType
<1>7. ASSUME NEW n \in Jobs, NEW id, Admit(n, id), UNCHANGED pending PROVE CardIsCurrent'
  <2>1. CASE ErrorReply(id) /\ UNCHANGED <<deferred, decisionKind>>
    BY <1>4, <1>7, <2>1 DEF ErrorReply
  <2>2. CASE UNCHANGED <<deferred, decisionKind, shown>>
    BY <1>3, <1>7, <2>2
  <2>3. CASE \E kind \in DecisionKind : AskDecision(n, kind)
    BY <1>5, <2>3
  <2> QED
    BY <1>7, <2>1, <2>2, <2>3 DEF Admit, DecisionKind
<1>8. CASE EndConnection
  BY <1>2, <1>8 DEF EndConnection
<1>9. CASE FromPhone
  <2>1. CASE ClientHello
    BY <1>3, <2>1 DEF ClientHello, slots
  <2>2. CASE UnexpectedMessage
    BY <1>3, <1>8, <2>2 DEF UnexpectedMessage, Unexpected
  <2>3. CASE CommandRequest
    <3>1. lastJob + 1 \in Jobs
      BY <2>3, NewJobType DEF CommandRequest, TypeOK
    <3> QED
      BY <1>7, <2>3, <3>1 DEF CommandRequest
  <2>4. CASE AudioStart
    BY <1>3, <2>4 DEF AudioStart
  <2>5. ASSUME NEW id \in RequestId, Refuse(id) PROVE CardIsCurrent'
    BY <1>4, <2>5 DEF Refuse, ErrorReply
  <2>6. ASSUME NEW id \in RequestId, AudioChunk(id) PROVE CardIsCurrent'
    BY <1>3, <1>4, <2>6 DEF AudioChunk, ErrorReply
  <2>7. ASSUME NEW id \in RequestId, AudioEnd(id) PROVE CardIsCurrent'
    <3>1. audio # None => audio \in Jobs
      BY DEF TypeOK, SlotsType, None, Jobs, JobOrNone
    <3> QED
      BY <1>4, <1>7, <2>7, <3>1 DEF AudioEnd, ErrorReply
  <2>8. ASSUME NEW id \in RequestId, CancelRequest(id) PROVE CardIsCurrent'
    <3>1. CASE shown.job \in WithId({shown.job}, id)
      BY <1>2, <2>8, <3>1 DEF CancelRequest, CardAfterReply
    <3>2. CASE shown.job \notin WithId({shown.job}, id)
      <4>1. shown' = shown /\ UNCHANGED decisionKind
        BY <2>8, <3>2 DEF CancelRequest, CardAfterReply
      <4>2. shown.job = None \/ idOf[shown.job] # id
        BY <3>2 DEF WithId
      <4>3. shown.job \in pending /\ shown.job # None => shown.job \in pending'
        BY <2>8, <4>2 DEF CancelRequest, PlansLeft, WithId
      <4>4. deferred = shown.job => deferred' = deferred
        BY <2>8, <4>2 DEF CancelRequest
      <4> QED
        BY <1>6, <4>1, <4>3, <4>4, NoneType DEF CardIsCurrent
    <3> QED
      BY <3>1, <3>2
  <2> QED
    BY <1>9, <2>1, <2>2, <2>3, <2>4, <2>5, <2>6, <2>7, <2>8 DEF FromPhone
<1>10. ASSUME NEW n \in Jobs, NEW yes \in BOOLEAN, ConfirmExecution(n, yes) PROVE CardIsCurrent'
  <2> DEFINE id == idOf[n]
             card == IF shown.kind = "plan" THEN CardAfterReply(shown, id) ELSE shown
  <2>1. UNCHANGED <<deferred, decisionKind>>
    BY <1>10 DEF ConfirmExecution
  <2>2. pending' = pending \/ pending' = PlansLeft(id)
    BY <1>10 DEF ConfirmExecution
  <2>3. shown' \in {NoCard, shown}
    BY <1>10 DEF ConfirmExecution, CardAfterReply
  <2>4. pending' # pending /\ shown.kind = "plan" => shown' = NoCard \/ shown.job \notin WithId({shown.job}, id)
    BY <1>10, NoCardStays DEF ConfirmExecution, CardAfterReply
  <2>5. CASE shown' = shown /\ pending' = PlansLeft(id) /\ pending' # pending /\ shown.kind = "plan"
    <3>1. shown.job \in pending'
      BY <1>2, <1>6, <2>4, <2>5, NoneType, <1>1 DEF PlansLeft, WithId, CardIsCurrent
    <3> QED
      BY <1>1, <2>5, <3>1 DEF CardIsCurrent
  <2>6. CASE shown' = shown /\ shown.kind # "plan"
    BY <2>1, <2>6 DEF CardIsCurrent
  <2> QED
    BY <1>2, <1>3, <2>1, <2>2, <2>3, <2>5, <2>6
<1>11. ASSUME NEW n \in Jobs, NEW kind \in DecisionKind, NEW yes \in BOOLEAN,
              DecisionResponse(n, kind, yes)
       PROVE  CardIsCurrent'
  <2>1. deferred = n /\ decisionKind = kind /\ UNCHANGED pending /\ n # None
    BY <1>11, NoneType DEF DecisionResponse
  <2>2. CASE AskDecision(n, "UploadFullScreenshot")
    BY <1>5, <2>2 DEF DecisionKind
  <2>3. CASE shown' = CardAfterReply(shown, idOf[n])
    BY <1>1, <1>2, <2>1, <2>3 DEF CardIsCurrent, CardAfterReply, WithId
  <2>4. CASE shown' = CardAfterDecision(n, kind)
    <3>1. shown.kind \in DecisionKind => shown = [job |-> n, kind |-> kind]
      BY <2>1 DEF CardIsCurrent, TypeOK, SlotsType, Card
    <3> QED
      BY <1>1, <1>2, <2>1, <2>4, <3>1 DEF CardIsCurrent, CardAfterDecision
  <2> QED
    BY <1>11, <2>2, <2>3, <2>4 DEF DecisionResponse, ErrorReply
<1>12. ASSUME NEW n \in Jobs, NEW kind \in DecisionKind, StaleDecision(n, kind) PROVE CardIsCurrent'
  BY <1>2, <1>3, <1>8, <1>12 DEF StaleDecision, Unexpected, CardAfterDecision
<1>13. CASE FromDesktop \/ Close
  BY <1>2, <1>8, <1>13 DEF FromDesktop, Pause, DesktopDecide, Close
<1>14. CASE DecisionTimeout
  BY <1>1, <1>2, <1>14 DEF DecisionTimeout, DecisionTick, ErrorReply, CardIsCurrent, CardAfterReply,
       WithId
<1>15. CASE ReceiveEvent
  BY <1>3, <1>4, <1>15 DEF ReceiveEvent, ErrorReply
<1>16. CASE Inference
  <2>1. CASE ReceiveResult
    <3> DEFINE r == Head(results)
    <3>1. UNCHANGED <<deferred, decisionKind>>
      BY <2>1 DEF ReceiveResult
    <3>2. CASE UNCHANGED <<pending, shown>>
      BY <1>3, <3>1, <3>2
    <3>3. CASE Publish(r)
      BY <1>1, <1>3, <1>4, <3>1, <3>3 DEF Publish, ErrorReply, CardIsCurrent
    <3> QED
      BY <2>1, <3>2, <3>3 DEF ReceiveResult
  <2>2. CASE UNCHANGED slots
    BY <1>3, <2>2 DEF slots
  <2> QED
    BY <1>16, <2>1, <2>2 DEF Inference, AbortLands, TaskFinishes
<1>17. ASSUME NEW n \in Jobs, PlanExpires(n) PROVE CardIsCurrent'
  <2>1. shown.kind = "plan" /\ shown.job = n => shown = [job |-> n, kind |-> "plan"]
    BY DEF TypeOK, SlotsType, Card
  <2> QED
    BY <1>1, <1>2, <1>17, <2>1 DEF PlanExpires, CardIsCurrent
<1>18. ASSUME NEW n \in Jobs, DeadlinePasses(n) \/ Executor(n) \/ Worker(n) PROVE CardIsCurrent'
  <2>1. UNCHANGED slots
    BY <1>18 DEF DeadlinePasses, Executor, SnapshotExpired, StartWorker, WorkerJoined, VerifyOutcome, OutcomeVerified, RunTimesOut,
       LateWorkerJoined, RunAbortLands, Worker, WorkerStep, WorkerLocks, WorkerGivesUp, WorkerStops,
       WorkerCompletes, WorkerPassesCheck, WorkerActs, WorkerActionFails
  <2> QED
    BY <1>3, <2>1 DEF slots
<1>19. CASE UNCHANGED vars
  BY <1>3, <1>19 DEF vars, slots
<1> QED
  BY <1>9, <1>10, <1>11, <1>12, <1>13, <1>14, <1>15, <1>16, <1>17, <1>18, <1>19
  DEF Next, Answers

\* The card on the desktop can always be acted on.
THEOREM CardsAreAnswerable == Spec => []CardIsAnswerable
<1>1. Init => CardIsCurrent
  BY DEF Init, CardIsCurrent, NoCard, DecisionKind
<1>2. TypeOK /\ CardIsCurrent => CardIsAnswerable
  BY NoneType DEF CardIsCurrent, CardIsAnswerable, WithId, TypeOK, SlotsType
<1> QED
  BY <1>1, <1>2, CardStep, TypeCorrect, PTL DEF Spec

-----------------------------------------------------------------------------
(***************************************************************************)
(* A plan runs at most once, and what runs was reviewed: the life of a job *)
(* from its upload, or its request, to the plan it leaves in PendingPlans. *)
(***************************************************************************)
-----------------------------------------------------------------------------
(***************************************************************************)
(* A job enters the inference slot at most once.                           *)
(***************************************************************************)

\* A job the server has not accepted yet, and one that is being uploaded or
\* decided, has had no inference task; and no job is uploaded and decided at
\* the same time.
Unplanned ==
    /\ \A n \in Jobs : n > lastJob => task[n] = "none" /\ n # audio /\ n # deferred
    /\ audio # None => task[audio] = "none" /\ audio # deferred
    /\ deferred # None => task[deferred] = "none"

LEMMA AbortKeeps ==
  ASSUME TypeOK, NEW S, AbortTasks(S)
  PROVE  \A m \in Jobs : /\ task'[m] = "none" <=> task[m] = "none"
                         /\ task'[m] = "ended" <=> task[m] = "ended"
                         /\ m \notin S => task'[m] = task[m]
  BY DEF AbortTasks, TypeOK, InferenceType

LEMMA StartKeeps ==
  ASSUME TypeOK, NEW n \in Jobs, StartInference(n)
  PROVE  /\ task'[n] = "running"
         /\ processing' = n
         /\ \A m \in Jobs \ {n} : /\ task'[m] = "none" <=> task[m] = "none"
                                  /\ task'[m] = "ended" <=> task[m] = "ended"
  BY DEF StartInference, TypeOK, InferenceType

LEMMA AudioIsJob == TypeOK => (audio # None => audio \in Jobs) /\ (deferred # None => deferred \in Jobs)
  BY DEF TypeOK, SlotsType, None, Jobs, JobOrNone

\* Admitting job n, which no slot holds any more, keeps the jobs apart.
LEMMA AdmitKeepsUnplanned ==
  ASSUME TypeOK, Unplanned, NEW n \in Jobs, NEW id, Admit(n, id), task[n] = "none",
         n # deferred, audio' # n, audio' \in {None, audio},
         lastJob' \in Nat, lastJob <= lastJob', n <= lastJob'
  PROVE  Unplanned'
<1>1. CASE UNCHANGED <<deferred, task>>
  BY <1>1, NoneType, AudioIsJob DEF Unplanned, TypeOK, ConnType, Jobs, JobOrNone
<1>2. CASE StartInference(n) /\ UNCHANGED deferred
  BY <1>2, StartKeeps, NoneType, AudioIsJob DEF Unplanned, TypeOK, ConnType, Jobs, JobOrNone
<1>3. CASE deferred' = n /\ UNCHANGED task
  BY <1>3, NoneType, AudioIsJob DEF Unplanned, TypeOK, ConnType, Jobs, JobOrNone
<1> QED
  BY <1>1, <1>2, <1>3 DEF Admit, AskDecision

LEMMA UnplannedStep == TypeOK /\ Unplanned /\ [Next]_vars => Unplanned'
<1> SUFFICES ASSUME TypeOK, Unplanned, [Next]_vars PROVE Unplanned'
  OBVIOUS
<1>1. ASSUME audio' \in {None, audio}, deferred' \in {None, deferred}, UNCHANGED lastJob,
             \A m \in Jobs : task[m] = "none" => task'[m] = "none"
      PROVE  Unplanned'
  BY <1>1, AudioIsJob, NoneType DEF Unplanned
<1>2. UNCHANGED task => \A m \in Jobs : task[m] = "none" => task'[m] = "none"
  OBVIOUS
<1>3. CASE EndConnection
  BY <1>1, <1>3, AbortKeeps DEF EndConnection
<1>4. CASE FromPhone
  <2>1. CASE ClientHello \/ UnexpectedMessage
    BY <1>1, <1>2, <1>3, <2>1 DEF ClientHello, UnexpectedMessage, Unexpected, slots, inference
  <2>2. CASE CommandRequest
    <3>1. /\ lastJob + 1 \in Jobs /\ lastJob' = lastJob + 1 /\ lastJob \in Nat /\ audio' = audio
          /\ Admit(lastJob + 1, idOf[lastJob + 1])
      BY <2>2, NewJobType DEF CommandRequest, NewJob, TypeOK, ConnType, JobOrNone
    <3>2. task[lastJob + 1] = "none" /\ lastJob + 1 # audio /\ lastJob + 1 # deferred
      BY <3>1 DEF Unplanned
    <3> QED
      BY <3>1, <3>2, AdmitKeepsUnplanned
  <2>3. CASE AudioStart
    <3>1. lastJob + 1 \in Jobs /\ lastJob' = lastJob + 1 /\ lastJob \in Nat /\ audio' = lastJob + 1
      BY <2>3, NewJobType DEF AudioStart, NewJob, TypeOK, ConnType, JobOrNone
    <3>2. UNCHANGED <<task, deferred>> /\ deferred = None
      BY <2>3 DEF AudioStart, Busy, inference
    <3> QED
      BY <3>1, <3>2, NoneType DEF Unplanned, Jobs
  <2>4. ASSUME NEW id \in RequestId, Refuse(id) \/ AudioChunk(id) PROVE Unplanned'
    BY <1>1, <1>2, <2>4 DEF Refuse, AudioChunk, inference
  <2>5. ASSUME NEW id \in RequestId, AudioEnd(id) PROVE Unplanned'
    <3>1. CASE audio # None /\ Admit(audio, id)
      <4>1. /\ audio \in Jobs /\ audio' = None /\ audio # None /\ lastJob' = lastJob
            /\ lastJob \in Nat /\ audio <= lastJob /\ task[audio] = "none" /\ audio # deferred
        BY <2>5, <3>1, AudioIsJob, NoneType
        DEF AudioEnd, Unplanned, TypeOK, ConnType, Jobs, JobOrNone
      <4> QED
        BY <3>1, <4>1, AdmitKeepsUnplanned
    <3>2. CASE UNCHANGED <<deferred, task>>
      BY <1>1, <1>2, <2>5, <3>2 DEF AudioEnd
    <3> QED
      BY <2>5, <3>1, <3>2 DEF AudioEnd
  <2>6. ASSUME NEW id \in RequestId, CancelRequest(id) PROVE Unplanned'
    BY <1>1, <2>6, AbortKeeps DEF CancelRequest
  <2> QED
    BY <1>4, <2>1, <2>2, <2>3, <2>4, <2>5, <2>6 DEF FromPhone
<1>5. ASSUME NEW n \in Jobs, NEW yes \in BOOLEAN, ConfirmExecution(n, yes) PROVE Unplanned'
  BY <1>1, <1>2, <1>5 DEF ConfirmExecution, inference
<1>6. ASSUME NEW n \in Jobs, NEW kind \in DecisionKind, NEW yes \in BOOLEAN,
             DecisionResponse(n, kind, yes)
      PROVE  Unplanned'
  <2>1. UNCHANGED <<audio, lastJob>> /\ deferred = n
    BY <1>6 DEF DecisionResponse
  <2>2. CASE UNCHANGED task
    BY <1>1, <1>2, <1>6, <2>1, <2>2 DEF DecisionResponse, AskDecision
  <2>3. CASE StartInference(n) /\ deferred' = None
    BY <2>1, <2>3, StartKeeps, AudioIsJob, NoneType DEF Unplanned, Jobs
  <2> QED
    BY <1>6, <2>2, <2>3 DEF DecisionResponse
<1>7. ASSUME NEW n \in Jobs, NEW kind \in DecisionKind, StaleDecision(n, kind) PROVE Unplanned'
  BY <1>1, <1>2, <1>3, <1>7 DEF StaleDecision, Unexpected, inference
<1>8. CASE FromDesktop \/ Close
  BY <1>1, <1>2, <1>3, <1>8, AbortKeeps DEF FromDesktop, Pause, DesktopDecide, Close, conn, inference
<1>9. CASE DecisionTimeout \/ ReceiveEvent
  BY <1>1, <1>2, <1>9 DEF DecisionTimeout, ReceiveEvent, conn, inference
<1>10. CASE Inference
  <2>1. UNCHANGED <<audio, deferred, lastJob>>
    BY <1>10 DEF Inference, ReceiveResult, TaskFinishes, AbortLands, conn, slots
  <2>2. \A m \in Jobs : task[m] = "none" => task'[m] = "none"
    BY <1>10, AbortKeeps DEF Inference, ReceiveResult, TaskFinishes, AbortLands, TypeOK, InferenceType
  <2> QED
    BY <1>1, <2>1, <2>2
<1>11. ASSUME NEW n \in Jobs, PlanExpires(n) \/ DeadlinePasses(n) \/ Executor(n) \/ Worker(n)
       PROVE  Unplanned'
  <2>1. UNCHANGED <<audio, deferred, lastJob, task>>
    BY <1>11 DEF PlanExpires, DeadlinePasses, Executor, SnapshotExpired, StartWorker, WorkerJoined, VerifyOutcome, OutcomeVerified,
       RunTimesOut, LateWorkerJoined, RunAbortLands, Worker, WorkerStep, WorkerLocks, WorkerGivesUp,
       WorkerStops, WorkerCompletes, WorkerPassesCheck, WorkerActs, WorkerActionFails, conn, slots,
       inference
  <2> QED
    BY <1>1, <1>2, <2>1
<1>12. CASE UNCHANGED vars
  BY <1>1, <1>2, <1>12 DEF vars, conn, slots, inference
<1> QED
  BY <1>4, <1>5, <1>6, <1>7, <1>8, <1>9, <1>10, <1>11, <1>12 DEF Next, Answers

-----------------------------------------------------------------------------
(***************************************************************************)
(* A job leaves at most one result, and its result at most one plan.       *)
(***************************************************************************)

Queued(n) == \E i \in 1..Len(results) : results[i].job = n

OneResult ==
    /\ \A i, j \in 1..Len(results) : results[i].job = results[j].job => i = j
    /\ \A n \in Jobs : Queued(n) => task[n] = "ended"

OnePlan ==
    /\ \A n \in Jobs : task[n] # "ended" \/ Queued(n) => n \notin pending /\ starts[n] = 0
    /\ \A n \in pending : starts[n] = 0
    /\ \A n \in Jobs : starts[n] <= 1

LEMMA NothingQueued ==
  ASSUME results = <<>>, NEW n
  PROVE  ~Queued(n)
  BY DEF Queued

\* Sending the result of a job that had none keeps results apart.
LEMMA SendKeepsOneResult ==
  ASSUME TypeOK, OneResult, NEW n \in Jobs, NEW outcome \in Outcome, TaskFinishes(n, outcome)
  PROVE  OneResult' /\ \A m \in Jobs : Queued(m)' => Queued(m) \/ m = n
<1>1. task[n] # "ended" /\ task'[n] = "ended" /\ \A m \in Jobs \ {n} : task'[m] = task[m]
  BY DEF TaskFinishes, TypeOK, InferenceType
<1>2. CASE results' = results
  BY <1>1, <1>2 DEF OneResult, Queued
<1>3. CASE results' = Append(results, [job |-> n, outcome |-> outcome])
  <2> DEFINE entry == [job |-> n, outcome |-> outcome]
  <2>1. results \in Seq(Result) /\ entry \in Result
    BY DEF TypeOK, InferenceType, Result
  <2>2. /\ Len(results') = Len(results) + 1
        /\ \A i \in 1..Len(results) : results'[i] = results[i]
        /\ results'[Len(results) + 1] = entry
        /\ Len(results) \in Nat
    BY <1>3, <2>1
  <2>3. \A i \in 1..Len(results) : results[i].job # n
    BY <1>1 DEF OneResult, Queued
  <2>4. entry.job = n
    OBVIOUS
  <2>5. \A m \in Jobs : Queued(m)' => Queued(m) \/ m = n
    BY <2>2, <2>4 DEF Queued
  <2>6. \A i, j \in 1..Len(results') : results'[i].job = results'[j].job => i = j
    BY <2>2, <2>3, <2>4 DEF OneResult
  <2> QED
    BY <1>1, <2>5, <2>6 DEF OneResult
<1> QED
  BY <1>2, <1>3 DEF TaskFinishes, Send

\* Receiving a result leaves no other result of the same job.
LEMMA ReceiveKeepsOneResult ==
  ASSUME TypeOK, OneResult, ReceiveResult, NEW CONSTANT r, r = Head(results)
  PROVE  /\ r \in Result
         /\ Queued(r.job)
         /\ ~Queued(r.job)'
         /\ \A m \in Jobs : Queued(m)' => Queued(m)
         /\ \A i, j \in 1..Len(results') : results'[i].job = results'[j].job => i = j
<1>1. results \in Seq(Result) /\ results # <<>> /\ results' = Tail(results)
  BY DEF ReceiveResult, TypeOK, InferenceType
<1>2. /\ Len(results') = Len(results) - 1
      /\ \A i \in 1..Len(results') : results'[i] = results[i + 1] /\ i + 1 \in 1..Len(results)
      /\ 1 \in 1..Len(results) /\ r = results[1] /\ r \in Result
  BY <1>1
<1>3. \A m \in Jobs : Queued(m)' => Queued(m)
  BY <1>2 DEF Queued
<1>4. Queued(r.job)
  BY <1>2 DEF Queued
<1>5. ~Queued(r.job)'
  BY <1>2 DEF Queued, OneResult
<1>6. \A i, j \in 1..Len(results') : results'[i].job = results'[j].job => i = j
  BY <1>2 DEF OneResult
<1> QED
  BY <1>2, <1>3, <1>4, <1>5, <1>6

LEMMA OneResultStep == TypeOK /\ Unplanned /\ OneResult /\ [Next]_vars => OneResult'
<1> SUFFICES ASSUME TypeOK, Unplanned, OneResult, [Next]_vars PROVE OneResult'
  OBVIOUS
<1>1. ASSUME UNCHANGED results, \A m \in Jobs : task[m] = "ended" => task'[m] = "ended"
      PROVE  OneResult'
  BY <1>1 DEF OneResult, Queued
<1>2. CASE EndConnection
  BY <1>2 DEF EndConnection, OneResult, Queued
<1>3. ASSUME NEW n \in Jobs, NEW id, Admit(n, id), task[n] = "none", UNCHANGED results PROVE OneResult'
  BY <1>1, <1>3, StartKeeps DEF Admit
<1>4. CASE FromPhone
  <2>1. CASE ClientHello \/ UnexpectedMessage \/ AudioStart
    BY <1>1, <1>2, <2>1 DEF ClientHello, UnexpectedMessage, Unexpected, AudioStart, inference
  <2>2. CASE CommandRequest
    <3>1. /\ lastJob + 1 \in Jobs /\ lastJob \in Nat
          /\ Admit(lastJob + 1, idOf[lastJob + 1]) /\ UNCHANGED results
      BY <2>2, NewJobType DEF CommandRequest, TypeOK, ConnType, JobOrNone
    <3>2. task[lastJob + 1] = "none"
      BY <3>1 DEF Unplanned
    <3> QED
      BY <1>3, <3>1, <3>2
  <2>3. ASSUME NEW id \in RequestId, Refuse(id) \/ AudioChunk(id) PROVE OneResult'
    BY <1>1, <2>3 DEF Refuse, AudioChunk, inference
  <2>4. ASSUME NEW id \in RequestId, AudioEnd(id) PROVE OneResult'
    BY <1>1, <1>3, <2>4, AudioIsJob DEF AudioEnd, Unplanned
  <2>5. ASSUME NEW id \in RequestId, CancelRequest(id) PROVE OneResult'
    BY <1>1, <2>5, AbortKeeps DEF CancelRequest
  <2> QED
    BY <1>4, <2>1, <2>2, <2>3, <2>4, <2>5 DEF FromPhone
<1>5. CASE Answers
  <2>1. ASSUME NEW n \in Jobs, NEW kind \in DecisionKind, NEW yes \in BOOLEAN,
               DecisionResponse(n, kind, yes)
        PROVE  OneResult'
    <3>1. task[n] = "none" /\ UNCHANGED results
      BY <2>1, NoneType DEF DecisionResponse, Unplanned
    <3>2. UNCHANGED task \/ StartInference(n)
      BY <2>1 DEF DecisionResponse
    <3> QED
      BY <1>1, <3>1, <3>2, StartKeeps
  <2> QED
    BY <1>1, <1>2, <1>5, <2>1 DEF Answers, ConfirmExecution, StaleDecision, Unexpected, inference
<1>6. CASE FromDesktop \/ Close
  BY <1>1, <1>2, <1>6, AbortKeeps DEF FromDesktop, Pause, DesktopDecide, Close, inference
<1>7. CASE DecisionTimeout \/ ReceiveEvent
  BY <1>1, <1>7 DEF DecisionTimeout, ReceiveEvent, inference
<1>8. CASE Inference
  <2>1. CASE ReceiveResult
    <3>1. \A m \in Jobs : task[m] = "ended" => task'[m] = "ended"
      BY <2>1, AbortKeeps DEF ReceiveResult
    <3> QED
      BY <2>1, <3>1, ReceiveKeepsOneResult DEF OneResult
  <2>2. ASSUME NEW n \in Jobs, AbortLands(n) PROVE OneResult'
    BY <1>1, <2>2 DEF AbortLands, TypeOK, InferenceType
  <2> QED
    BY <1>8, <2>1, <2>2, SendKeepsOneResult DEF Inference
<1>9. ASSUME NEW n \in Jobs, PlanExpires(n) \/ DeadlinePasses(n) \/ Executor(n) \/ Worker(n)
      PROVE  OneResult'
  <2>1. UNCHANGED inference
    BY <1>9 DEF PlanExpires, DeadlinePasses, Executor, SnapshotExpired, StartWorker, WorkerJoined, VerifyOutcome, OutcomeVerified,
       RunTimesOut, LateWorkerJoined, RunAbortLands, Worker, WorkerStep, WorkerLocks, WorkerGivesUp,
       WorkerStops, WorkerCompletes, WorkerPassesCheck, WorkerActs, WorkerActionFails
  <2> QED
    BY <1>1, <2>1 DEF inference
<1>10. CASE UNCHANGED vars
  BY <1>1, <1>10 DEF vars, inference
<1> QED
  BY <1>4, <1>5, <1>6, <1>7, <1>8, <1>9, <1>10 DEF Next

LEMMA OnePlanStep == TypeOK /\ Unplanned /\ OneResult /\ OnePlan /\ [Next]_vars => OnePlan'
<1> SUFFICES ASSUME TypeOK, Unplanned, OneResult, OnePlan, [Next]_vars PROVE OnePlan'
  OBVIOUS
<1>1. ASSUME pending' \subseteq pending, UNCHANGED starts,
             \A m \in Jobs : task'[m] # "ended" \/ Queued(m)' => task[m] # "ended" \/ Queued(m)
      PROVE  OnePlan'
  <2>1. \A m \in Jobs : task'[m] # "ended" \/ Queued(m)' => m \notin pending' /\ starts'[m] = 0
    BY <1>1 DEF OnePlan
  <2>2. pending \subseteq Jobs
    BY DEF TypeOK, SlotsType
  <2> QED
    BY <1>1, <2>1, <2>2 DEF OnePlan
<1>2. UNCHANGED results => \A m \in Jobs : Queued(m)' <=> Queued(m)
  BY DEF Queued
<1>3. ASSUME pending' \subseteq pending, UNCHANGED <<starts, results>>,
             \A m \in Jobs : task[m] = "ended" => task'[m] = "ended"
      PROVE  OnePlan'
  BY <1>1, <1>2, <1>3
<1>4. CASE EndConnection
  <2>1. \A m \in Jobs : ~Queued(m)'
    BY <1>4 DEF EndConnection, Queued
  <2> QED
    BY <1>1, <1>4, <2>1, AbortKeeps DEF EndConnection
<1>5. ASSUME NEW n \in Jobs, NEW id, Admit(n, id), task[n] = "none",
             UNCHANGED <<results, pending, starts>>
      PROVE  OnePlan'
  BY <1>3, <1>5, StartKeeps DEF Admit
<1>6. CASE FromPhone
  <2>1. CASE ClientHello \/ UnexpectedMessage \/ AudioStart
    BY <1>3, <1>4, <2>1
    DEF ClientHello, UnexpectedMessage, Unexpected, AudioStart, slots, inference, history
  <2>2. CASE CommandRequest
    <3>1. /\ lastJob + 1 \in Jobs /\ lastJob \in Nat
          /\ Admit(lastJob + 1, idOf[lastJob + 1]) /\ UNCHANGED <<results, pending, starts>>
      BY <2>2, NewJobType DEF CommandRequest, TypeOK, ConnType, JobOrNone
    <3>2. task[lastJob + 1] = "none"
      BY <3>1 DEF Unplanned
    <3> QED
      BY <1>5, <3>1, <3>2
  <2>3. ASSUME NEW id \in RequestId, Refuse(id) \/ AudioChunk(id) PROVE OnePlan'
    BY <1>3, <2>3 DEF Refuse, AudioChunk, inference
  <2>4. ASSUME NEW id \in RequestId, AudioEnd(id) PROVE OnePlan'
    BY <1>3, <1>5, <2>4, AudioIsJob DEF AudioEnd, Unplanned
  <2>5. ASSUME NEW id \in RequestId, CancelRequest(id) PROVE OnePlan'
    BY <1>3, <2>5, AbortKeeps DEF CancelRequest, PlansLeft
  <2> QED
    BY <1>6, <2>1, <2>2, <2>3, <2>4, <2>5 DEF FromPhone
<1>7. ASSUME NEW n \in Jobs, NEW yes \in BOOLEAN, ConfirmExecution(n, yes) PROVE OnePlan'
  <2>1. UNCHANGED <<task, results>>
    BY <1>7 DEF ConfirmExecution, inference
  <2>2. CASE UNCHANGED starts
    BY <1>3, <1>7, <2>1, <2>2 DEF ConfirmExecution, PlansLeft
  <2>3. ASSUME NEW p \in Confirmable(idOf[n]), pending' = PlansLeft(idOf[n]),
               starts' = [starts EXCEPT ![p] = @ + 1]
        PROVE  OnePlan'
    <3>1. p \in pending /\ p \in Jobs /\ p \notin pending' /\ pending' \subseteq pending
      BY <2>3 DEF Confirmable, PlansLeft, WithId, TypeOK, SlotsType
    <3>2. starts[p] = 0 /\ starts'[p] = 1 /\ \A m \in Jobs \ {p} : starts'[m] = starts[m]
      BY <2>3, <3>1 DEF OnePlan, TypeOK, HistoryType
    <3>3. task'[p] = "ended" /\ ~Queued(p)'
      BY <1>2, <2>1, <3>1 DEF OnePlan
    <3>4. pending \subseteq Jobs
      BY DEF TypeOK, SlotsType
    <3> QED
      BY <1>2, <2>1, <3>1, <3>2, <3>3, <3>4 DEF OnePlan
  <2> QED
    BY <1>7, <2>2, <2>3 DEF ConfirmExecution
<1>8. CASE Answers
  <2>1. ASSUME NEW n \in Jobs, NEW kind \in DecisionKind, NEW yes \in BOOLEAN,
               DecisionResponse(n, kind, yes)
        PROVE  OnePlan'
    <3>1. task[n] = "none" /\ UNCHANGED <<results, pending, starts>>
      BY <2>1, NoneType DEF DecisionResponse, Unplanned
    <3>2. UNCHANGED task \/ StartInference(n)
      BY <2>1 DEF DecisionResponse
    <3> QED
      BY <1>3, <3>1, <3>2, StartKeeps
  <2> QED
    BY <1>3, <1>4, <1>7, <1>8, <2>1 DEF Answers, StaleDecision, Unexpected, inference, history
<1>9. CASE FromDesktop \/ Close
  BY <1>3, <1>4, <1>9, AbortKeeps DEF FromDesktop, Pause, DesktopDecide, Close, inference, history
<1>10. CASE DecisionTimeout \/ ReceiveEvent
  BY <1>3, <1>10 DEF DecisionTimeout, ReceiveEvent, inference
<1>11. CASE ReceiveResult
  <2> DEFINE r == Head(results)
  <2>1. PICK q : q = r
    OBVIOUS
  <2>2. /\ q \in Result /\ Queued(q.job) /\ ~Queued(q.job)'
        /\ \A m \in Jobs : Queued(m)' => Queued(m)
    BY <1>11, <2>1, ReceiveKeepsOneResult
  <2>3. \A m \in Jobs : task'[m] = "ended" <=> task[m] = "ended"
    BY <1>11, AbortKeeps DEF ReceiveResult
  <2>4. starts' = starts
    BY <1>11 DEF ReceiveResult
  <2>5. pending' \subseteq pending \cup {q.job}
    BY <1>11, <2>1 DEF ReceiveResult, Publish, PlansLeft
  <2>6. q.job \in Jobs /\ task'[q.job] = "ended" /\ starts[q.job] = 0
    BY <2>2, <2>3 DEF Result, OneResult, OnePlan
  <2>7. pending \subseteq Jobs
    BY DEF TypeOK, SlotsType
  <2> QED
    BY <2>2, <2>3, <2>4, <2>5, <2>6, <2>7 DEF OnePlan
<1>12. ASSUME NEW n \in Jobs, NEW outcome \in Outcome, TaskFinishes(n, outcome) PROVE OnePlan'
  <2>1. task[n] # "ended" /\ \A m \in Jobs \ {n} : task'[m] = task[m]
    BY <1>12 DEF TaskFinishes, TypeOK, InferenceType
  <2>2. UNCHANGED <<pending, starts>>
    BY <1>12 DEF TaskFinishes, slots, history
  <2> QED
    BY <1>1, <1>12, <2>1, <2>2, SendKeepsOneResult
<1>13. ASSUME NEW n \in Jobs, AbortLands(n) PROVE OnePlan'
  BY <1>3, <1>13 DEF AbortLands, slots, history, TypeOK, InferenceType
<1>14. ASSUME NEW n \in Jobs, PlanExpires(n) \/ DeadlinePasses(n) \/ Executor(n) \/ Worker(n)
       PROVE  OnePlan'
  <2>1. pending' \subseteq pending /\ UNCHANGED <<starts, inference>>
    BY <1>14 DEF PlanExpires, DeadlinePasses, Executor, SnapshotExpired, StartWorker, WorkerJoined, VerifyOutcome, OutcomeVerified,
       RunTimesOut, LateWorkerJoined, RunAbortLands, Worker, WorkerStep, WorkerLocks, WorkerGivesUp,
       WorkerStops, WorkerCompletes, WorkerPassesCheck, WorkerActs, WorkerActionFails, slots, history
  <2> QED
    BY <1>3, <2>1 DEF inference
<1>15. CASE UNCHANGED vars
  BY <1>3, <1>15 DEF vars, slots, inference, history
<1> QED
  BY <1>6, <1>8, <1>9, <1>10, <1>11, <1>12, <1>13, <1>14, <1>15 DEF Next, Inference

PlansInv == TypeOK /\ ArmedInPlan /\ Unplanned /\ OneResult /\ OnePlan

THEOREM PlansInvariant == Spec => []PlansInv
<1>1. Init => PlansInv
  <2> SUFFICES ASSUME Init PROVE PlansInv
    OBVIOUS
  <2>1. TypeOK /\ ArmedInPlan
    BY InitTypeOK DEF Init, ArmedInPlan
  <2>2. Unplanned /\ OneResult /\ OnePlan
    BY NoneType DEF Init, Unplanned, OneResult, OnePlan, Queued
  <2> QED
    BY <2>1, <2>2 DEF PlansInv
<1>2. PlansInv /\ [Next]_vars => PlansInv'
  BY TypeOKStep, ArmedInPlanStep, UnplannedStep, OneResultStep, OnePlanStep DEF PlansInv
<1> QED
  BY <1>1, <1>2, PTL DEF Spec

\* A plan is handed to the executor at most once, whatever ids the phone uses,
\* and once it was it cannot be confirmed again.
THEOREM PlansRunOnce == Spec => []PlanRunsOnce
<1>1. PlansInv => PlanRunsOnce
  BY DEF PlansInv, OnePlan, PlanRunsOnce
<1> QED
  BY <1>1, PlansInvariant, PTL

-----------------------------------------------------------------------------
(***************************************************************************)
(* What holds when the phone never reuses a request id: only reviewed      *)
(* plans run, cancelled work stays cancelled, and a completed plan was     *)
(* performed to its end.                                                   *)
(***************************************************************************)
\* A request id names one job.
Distinct == \A m, n \in Jobs : idOf[m] = idOf[n] => m = n

LEMMA IdsStay == TypeOK /\ [Next]_vars => idOf' = idOf
<1> SUFFICES ASSUME TypeOK, [Next]_vars PROVE idOf' = idOf
  OBVIOUS
<1>1. CASE FromPhone
  BY <1>1 DEF FromPhone, ClientHello, UnexpectedMessage, Unexpected, EndConnection, CommandRequest,
       AudioStart, Refuse, AudioChunk, AudioEnd, CancelRequest, NewJob
<1>2. CASE Answers
  BY <1>2 DEF Answers, ConfirmExecution, DecisionResponse, StaleDecision, Unexpected, EndConnection
<1>3. CASE FromDesktop \/ Close \/ DecisionTimeout \/ ReceiveEvent
  BY <1>3 DEF FromDesktop, Pause, DesktopDecide, Close, EndConnection, DecisionTimeout,
       ReceiveEvent, conn
<1>4. CASE Inference
  BY <1>4 DEF Inference, ReceiveResult, AbortLands, TaskFinishes, conn
<1>5. ASSUME NEW n \in Jobs, PlanExpires(n) \/ DeadlinePasses(n) \/ Executor(n) \/ Worker(n)
      PROVE  idOf' = idOf
  BY <1>5 DEF PlanExpires, DeadlinePasses, Executor, SnapshotExpired, StartWorker, WorkerJoined, VerifyOutcome, OutcomeVerified,
       RunTimesOut, LateWorkerJoined, RunAbortLands, Worker, WorkerStep, WorkerLocks, WorkerGivesUp,
       WorkerStops, WorkerCompletes, WorkerPassesCheck, WorkerActs, WorkerActionFails, conn
<1>6. CASE UNCHANGED vars
  BY <1>6 DEF vars, conn
<1> QED
  BY <1>1, <1>2, <1>3, <1>4, <1>5, <1>6 DEF Next

LEMMA DistinctStep == TypeOK /\ Distinct /\ [Next]_vars => Distinct'
  BY IdsStay DEF Distinct

LEMMA DistinctInit == ~ReuseIds /\ Init => Distinct
  BY DEF Init, Distinct

\* Under distinct ids, what a slot or the map finds by id is the job itself.
LEMMA ById ==
  ASSUME TypeOK, Distinct, NEW S \in SUBSET Jobs, NEW n \in Jobs
  PROVE  WithId(S, idOf[n]) = S \cap {n}
  BY NoneType DEF WithId, Distinct

-----------------------------------------------------------------------------
(***************************************************************************)
(* Only reviewed plans run.                                                *)
(***************************************************************************)

Reviewed == pending \subseteq previewed /\ RunsOnlyReviewedPlans

LEMMA ReviewedStep == TypeOK /\ Distinct /\ Reviewed /\ [Next]_vars => Reviewed'
<1> SUFFICES ASSUME TypeOK, Distinct, Reviewed, [Next]_vars PROVE Reviewed'
  OBVIOUS
<1>1. ASSUME pending' \subseteq pending, UNCHANGED <<previewed, starts, approved>> PROVE Reviewed'
  BY <1>1 DEF Reviewed, RunsOnlyReviewedPlans
<1>2. CASE FromPhone
  BY <1>1, <1>2 DEF FromPhone, ClientHello, UnexpectedMessage, Unexpected, EndConnection,
       CommandRequest, AudioStart, Refuse, AudioChunk, AudioEnd, CancelRequest, PlansLeft, slots,
       history
<1>3. ASSUME NEW n \in Jobs, NEW yes \in BOOLEAN, ConfirmExecution(n, yes) PROVE Reviewed'
  <2>1. pending' \subseteq pending /\ UNCHANGED previewed
    BY <1>3 DEF ConfirmExecution, PlansLeft
  <2>2. CASE UNCHANGED <<starts, approved>>
    BY <1>1, <2>1, <2>2
  <2>3. ASSUME NEW p \in Confirmable(idOf[n]), starts' = [starts EXCEPT ![p] = @ + 1],
               approved' = approved \cup ({n} \cap previewed)
        PROVE  Reviewed'
    <3>1. p = n /\ p \in previewed
      BY <2>3, ById DEF Confirmable, TypeOK, SlotsType, Reviewed
    <3>2. \A m \in Jobs \ {p} : starts'[m] = starts[m]
      BY <2>3 DEF TypeOK, HistoryType
    <3> QED
      BY <2>1, <2>3, <3>1, <3>2 DEF Reviewed, RunsOnlyReviewedPlans
  <2> QED
    BY <1>3, <2>2, <2>3 DEF ConfirmExecution
<1>4. CASE Answers
  BY <1>1, <1>3, <1>4 DEF Answers, DecisionResponse, StaleDecision, Unexpected, EndConnection, history
<1>5. CASE FromDesktop \/ Close \/ DecisionTimeout \/ ReceiveEvent
  BY <1>1, <1>5 DEF FromDesktop, Pause, DesktopDecide, Close, EndConnection, DecisionTimeout,
       ReceiveEvent, history
<1>6. CASE Inference
  BY <1>6 DEF Inference, ReceiveResult, Publish, PlansLeft, AbortLands, TaskFinishes, slots, history,
       Reviewed, RunsOnlyReviewedPlans
<1>7. ASSUME NEW n \in Jobs, PlanExpires(n) \/ DeadlinePasses(n) \/ Executor(n) \/ Worker(n)
      PROVE  Reviewed'
  BY <1>1, <1>7 DEF PlanExpires, DeadlinePasses, Executor, SnapshotExpired, StartWorker, WorkerJoined, VerifyOutcome, OutcomeVerified,
       RunTimesOut, LateWorkerJoined, RunAbortLands, Worker, WorkerStep, WorkerLocks, WorkerGivesUp,
       WorkerStops, WorkerCompletes, WorkerPassesCheck, WorkerActs, WorkerActionFails, slots, history
<1>8. CASE UNCHANGED vars
  BY <1>1, <1>8 DEF vars, slots, history
<1> QED
  BY <1>2, <1>4, <1>5, <1>6, <1>7, <1>8 DEF Next

\* If the phone never reuses a request id, no plan runs that its user was not
\* shown and did not approve.
THEOREM OnlyReviewedPlansRun == ~ReuseIds => (Spec => []RunsOnlyReviewedPlans)
<1> SUFFICES ASSUME ~ReuseIds PROVE Spec => []RunsOnlyReviewedPlans
  OBVIOUS
<1>1. Init => Distinct /\ Reviewed
  BY DistinctInit DEF Init, Reviewed, RunsOnlyReviewedPlans
<1>2. Reviewed => RunsOnlyReviewedPlans
  BY DEF Reviewed
<1> QED
  BY <1>1, <1>2, DistinctStep, ReviewedStep, TypeCorrect, PTL DEF Spec

-----------------------------------------------------------------------------
(***************************************************************************)
(* Cancelled work stays cancelled.                                         *)
(***************************************************************************)

\* The job in the inference slot is still planned, or its result is on its
\* way; the job in the execution slot has been started.
Occupied ==
    /\ processing # None => Ready /\ (task[processing] = "running" \/ Queued(processing))
    /\ execution # None => starts[execution] = 1

LEMMA SlotIsJob ==
  TypeOK => (processing # None => processing \in Jobs) /\ (execution # None => execution \in Jobs)
  BY DEF TypeOK, SlotsType, None, Jobs, JobOrNone

LEMMA TailKeepsOthers ==
  ASSUME TypeOK, ReceiveResult, NEW CONSTANT m, m # Head(results).job, Queued(m)
  PROVE  Queued(m)'
<1>1. results \in Seq(Result) /\ results # <<>> /\ results' = Tail(results)
  BY DEF ReceiveResult, TypeOK, InferenceType
<1>2. PICK i \in 1..Len(results) : results[i].job = m
  BY DEF Queued
<1>3. i # 1
  BY <1>1, <1>2
<1>4. i - 1 \in 1..Len(results') /\ results'[i - 1] = results[i]
  BY <1>1, <1>2, <1>3
<1> QED
  BY <1>2, <1>4 DEF Queued

LEMMA SendKeepsQueued ==
  ASSUME TypeOK, NEW n \in Jobs, NEW outcome \in Outcome, TaskFinishes(n, outcome), Ready
  PROVE  Queued(n)' /\ \A m \in Jobs : Queued(m) => Queued(m)'
<1>1. results' = Append(results, [job |-> n, outcome |-> outcome])
  BY DEF TaskFinishes, Send, Ready
<1>2. results \in Seq(Result) /\ [job |-> n, outcome |-> outcome] \in Result
  BY DEF TypeOK, InferenceType, Result
<1>3. /\ Len(results') = Len(results) + 1 /\ Len(results) \in Nat
      /\ \A i \in 1..Len(results) : results'[i] = results[i]
      /\ results'[Len(results) + 1].job = n
  BY <1>1, <1>2
<1> QED
  BY <1>3 DEF Queued

LEMMA OccupiedStep ==
  TypeOK /\ Unplanned /\ OnePlan /\ Occupied /\ [Next]_vars => Occupied'
<1> SUFFICES ASSUME TypeOK, Unplanned, OnePlan, Occupied, [Next]_vars PROVE Occupied'
  OBVIOUS
<1>1. ASSUME UNCHANGED <<phase, results, starts>>,
             processing' \in {None, processing}, execution' \in {None, execution},
             processing' = None \/ task'[processing] = task[processing]
      PROVE  Occupied'
  BY <1>1 DEF Occupied, Ready, Queued
<1>2. CASE EndConnection
  BY <1>2 DEF Occupied, EndConnection
<1>3. ASSUME NEW n \in Jobs, NEW id, Admit(n, id), Ready, UNCHANGED <<phase, results, starts, execution>>
      PROVE  Occupied'
  <2>1. CASE UNCHANGED <<processing, task>>
    BY <1>1, <1>3, <2>1
  <2>2. CASE StartInference(n)
    BY <1>3, <2>2, StartKeeps DEF Occupied, Ready
  <2> QED
    BY <1>3, <2>1, <2>2 DEF Admit
<1>4. CASE FromPhone
  <2>1. CASE ClientHello
    BY <2>1 DEF ClientHello, Occupied, Ready, Queued, slots, inference, history
  <2>2. CASE UnexpectedMessage \/ AudioStart
    BY <1>1, <1>2, <2>2
    DEF UnexpectedMessage, Unexpected, AudioStart, Handled, inference, history
  <2>3. CASE CommandRequest
    BY <1>3, <2>3, NewJobType DEF CommandRequest, Accepting, Handled, TypeOK
  <2>4. ASSUME NEW id \in RequestId, Refuse(id) \/ AudioChunk(id) PROVE Occupied'
    BY <1>1, <2>4 DEF Refuse, AudioChunk, Handled, inference, history
  <2>5. ASSUME NEW id \in RequestId, AudioEnd(id) PROVE Occupied'
    BY <1>1, <1>3, <2>5, AudioIsJob DEF AudioEnd, Accepting, Handled
  <2>6. ASSUME NEW id \in RequestId, CancelRequest(id) PROVE Occupied'
    <3>1. processing' = None \/ task'[processing] = task[processing]
      <4>1. CASE processing \in WithId({processing}, id)
        BY <2>6, <4>1 DEF CancelRequest, WithId
      <4>2. CASE processing \notin WithId({processing}, id) /\ processing # None
        BY <2>6, <4>2, AbortKeeps, SlotIsJob DEF CancelRequest
      <4>3. CASE processing = None
        BY <2>6, <4>3 DEF CancelRequest
      <4> QED
        BY <4>1, <4>2, <4>3
    <3> QED
      BY <1>1, <2>6, <3>1 DEF CancelRequest, Handled
  <2> QED
    BY <1>4, <2>1, <2>2, <2>3, <2>4, <2>5, <2>6 DEF FromPhone
<1>5. ASSUME NEW n \in Jobs, NEW yes \in BOOLEAN, ConfirmExecution(n, yes) PROVE Occupied'
  <2>1. UNCHANGED <<phase, processing, task, results>>
    BY <1>5 DEF ConfirmExecution, Handled, inference
  <2>2. CASE UNCHANGED <<starts, execution>>
    BY <1>1, <2>1, <2>2
  <2>3. ASSUME NEW p \in Confirmable(idOf[n]), execution' = p, starts' = [starts EXCEPT ![p] = @ + 1]
        PROVE  Occupied'
    <3>1. p \in Jobs /\ starts[p] = 0
      BY DEF Confirmable, WithId, OnePlan, TypeOK, SlotsType
    <3>2. starts'[p] = 1
      BY <2>3, <3>1 DEF TypeOK, HistoryType
    <3> QED
      BY <2>1, <2>3, <3>2 DEF Occupied, Ready, Queued
  <2> QED
    BY <1>5, <2>2, <2>3 DEF ConfirmExecution
<1>6. ASSUME NEW n \in Jobs, NEW kind \in DecisionKind, NEW yes \in BOOLEAN,
             DecisionResponse(n, kind, yes)
      PROVE  Occupied'
  <2>1. Ready /\ UNCHANGED <<phase, results, starts, execution>>
    BY <1>6 DEF DecisionResponse, Accepting, Handled
  <2>2. CASE UNCHANGED <<processing, task>>
    BY <1>1, <2>1, <2>2
  <2>3. CASE StartInference(n)
    BY <2>1, <2>3, StartKeeps DEF Occupied, Ready
  <2> QED
    BY <1>6, <2>2, <2>3 DEF DecisionResponse, AskDecision
<1>7. ASSUME NEW n \in Jobs, NEW kind \in DecisionKind, StaleDecision(n, kind) PROVE Occupied'
  BY <1>1, <1>2, <1>7 DEF StaleDecision, Unexpected, inference, history
<1>8. CASE FromDesktop \/ Close
  BY <1>1, <1>2, <1>8 DEF FromDesktop, Pause, DesktopDecide, Close, conn, inference, history
<1>9. CASE DecisionTimeout \/ ReceiveEvent
  BY <1>1, <1>9 DEF DecisionTimeout, ReceiveEvent, conn, inference
<1>10. CASE ReceiveResult
  <2>1. UNCHANGED <<phase, starts, execution>>
    BY <1>10 DEF ReceiveResult, conn
  <2>2. CASE processing' = None
    BY <2>1, <2>2 DEF Occupied
  <2>3. CASE ~Matches(Head(results).job, processing) /\ UNCHANGED <<processing, task>>
    <3>1. processing # Head(results).job
      BY <2>3 DEF Matches
    <3>2. PICK m : m = processing
      OBVIOUS
    <3>3. Queued(m) => Queued(m)'
      BY <1>10, <3>1, <3>2, TailKeepsOthers
    <3> QED
      BY <2>1, <2>3, <3>2, <3>3 DEF Occupied, Ready
  <2> QED
    BY <1>10, <2>2, <2>3 DEF ReceiveResult
<1>11. ASSUME NEW n \in Jobs, NEW outcome \in Outcome, TaskFinishes(n, outcome) PROVE Occupied'
  <2>1. UNCHANGED <<phase, processing, execution, starts>> /\ \A m \in Jobs \ {n} : task'[m] = task[m]
    BY <1>11 DEF TaskFinishes, conn, slots, history, TypeOK, InferenceType
  <2>2. CASE processing = None
    BY <2>1, <2>2 DEF Occupied
  <2>3. CASE processing # None
    <3>1. Ready /\ processing \in Jobs
      BY <2>3, SlotIsJob DEF Occupied
    <3>2. PICK m : m = processing
      OBVIOUS
    <3>3. task'[m] = "running" \/ Queued(m)'
      BY <1>11, <2>1, <2>3, <3>1, <3>2, SendKeepsQueued DEF Occupied
    <3> QED
      BY <2>1, <3>1, <3>2, <3>3 DEF Occupied, Ready
  <2> QED
    BY <2>2, <2>3
<1>12. ASSUME NEW n \in Jobs, AbortLands(n) PROVE Occupied'
  BY <1>12, SlotIsJob DEF AbortLands, Occupied, Ready, Queued, conn, slots, history, TypeOK, InferenceType
<1>13. ASSUME NEW n \in Jobs, PlanExpires(n) \/ DeadlinePasses(n) \/ Executor(n) \/ Worker(n)
       PROVE  Occupied'
  BY <1>1, <1>13 DEF PlanExpires, DeadlinePasses, Executor, SnapshotExpired, StartWorker, WorkerJoined, VerifyOutcome, OutcomeVerified,
       RunTimesOut, LateWorkerJoined, RunAbortLands, Worker, WorkerStep, WorkerLocks, WorkerGivesUp,
       WorkerStops, WorkerCompletes, WorkerPassesCheck, WorkerActs, WorkerActionFails, conn, slots,
       inference, history
<1>14. CASE UNCHANGED vars
  BY <1>1, <1>14 DEF vars, conn, slots, inference, history
<1> QED
  BY <1>4, <1>5, <1>6, <1>7, <1>8, <1>9, <1>10, <1>11, <1>12, <1>13, <1>14 DEF Next, Answers, Inference

\* The jobs the connection holds.
Held == {audio, processing, deferred, execution} \cup pending

\* None of them was withdrawn.
Gone ==
    /\ withdrawn \cap Held = {}
    /\ \A n \in withdrawn : n <= lastJob

\* A pending plan belongs to no slot, and slots hold accepted jobs only.
LEMMA Apart ==
  ASSUME TypeOK, Unplanned, OneResult, OnePlan, Occupied
  PROVE  /\ \A n \in pending : n \notin {audio, processing, deferred, execution} /\ n <= lastJob
         /\ \A n \in Jobs \cap {audio, processing, deferred, execution} : n <= lastJob
         /\ \A n \in Jobs : n > lastJob => n \notin {audio, processing, deferred, execution}
<1>1. lastJob \in Nat /\ \A n \in Jobs : n \in Nat /\ (n > lastJob \/ n <= lastJob)
  BY BoundsAssumption DEF TypeOK, ConnType, Jobs, JobOrNone
<1>2. pending \subseteq Jobs
  BY DEF TypeOK, SlotsType
<1>3. \A n \in pending : task[n] = "ended" /\ ~Queued(n) /\ starts[n] = 0
  BY <1>2 DEF OnePlan
<1>4. \A n \in pending : n \notin {audio, processing, deferred, execution} /\ n <= lastJob
  BY <1>1, <1>2, <1>3, NoneType DEF Unplanned, Occupied
<1>5. \A n \in Jobs : n > lastJob => task[n] = "none" /\ starts[n] = 0 /\ ~Queued(n)
  BY DEF Unplanned, OneResult, OnePlan
<1>6. \A n \in Jobs : n > lastJob => n \notin {audio, processing, deferred, execution}
  BY <1>5, NoneType DEF Unplanned, Occupied
<1> QED
  BY <1>1, <1>4, <1>6

LEMMA GoneStep ==
  TypeOK /\ Unplanned /\ OneResult /\ OnePlan /\ Occupied /\ Distinct /\ Gone /\ [Next]_vars => Gone'
<1> SUFFICES ASSUME TypeOK, Unplanned, OneResult, OnePlan, Occupied, Distinct, Gone, [Next]_vars
             PROVE  Gone'
  OBVIOUS
<1>1. /\ lastJob \in Nat /\ withdrawn \subseteq Jobs /\ pending \subseteq Jobs
      /\ \A n \in Jobs : n \in Nat
  BY BoundsAssumption DEF TypeOK, ConnType, SlotsType, HistoryType, Jobs, JobOrNone
<1>2. ASSUME withdrawn' = withdrawn, lastJob' \in Nat, lastJob <= lastJob',
             Held' \subseteq Held \cup {None} \cup {n \in Jobs : n > lastJob}
      PROVE  Gone'
  BY <1>1, <1>2, NoneType DEF Gone
<1>3. CASE EndConnection
  BY <1>1, <1>2, <1>3 DEF EndConnection, Held
<1>4. ASSUME NEW n \in Jobs, NEW id, Admit(n, id)
      PROVE  {processing, deferred}' \subseteq {processing, deferred, n}
  BY <1>4 DEF Admit, StartInference, AskDecision
<1>5. CASE FromPhone
  <2>1. CASE ClientHello \/ UnexpectedMessage
    BY <1>1, <1>2, <1>3, <2>1
    DEF ClientHello, UnexpectedMessage, Unexpected, Held, slots, history
  <2>2. CASE CommandRequest
    <3>1. /\ lastJob + 1 \in Jobs /\ Admit(lastJob + 1, idOf[lastJob + 1]) /\ lastJob' = lastJob + 1
          /\ UNCHANGED <<audio, execution, pending, withdrawn>>
      BY <2>2, NewJobType DEF CommandRequest, NewJob, TypeOK
    <3>2. {processing, deferred}' \subseteq {processing, deferred, lastJob + 1}
      BY <1>4, <3>1
    <3> QED
      BY <1>1, <1>2, <3>1, <3>2 DEF Held
  <2>3. CASE AudioStart
    <3>1. lastJob + 1 \in Jobs /\ lastJob' = lastJob + 1 /\ audio' = lastJob + 1
      BY <2>3, NewJobType DEF AudioStart, NewJob, TypeOK
    <3> QED
      BY <1>1, <1>2, <2>3, <3>1 DEF AudioStart, Held
  <2>4. ASSUME NEW id \in RequestId, Refuse(id) \/ AudioChunk(id) PROVE Gone'
    BY <1>1, <1>2, <2>4 DEF Refuse, AudioChunk, Held
  <2>5. ASSUME NEW id \in RequestId, AudioEnd(id) PROVE Gone'
    <3>1. audio' = None /\ UNCHANGED <<lastJob, execution, pending, withdrawn>>
      BY <2>5 DEF AudioEnd
    <3>2. {processing, deferred}' \subseteq {processing, deferred, audio}
      BY <1>4, <2>5, AudioIsJob DEF AudioEnd
    <3> QED
      BY <1>1, <1>2, <3>1, <3>2 DEF Held
  <2>6. ASSUME NEW id \in RequestId, CancelRequest(id) PROVE Gone'
    <3>1. withdrawn' = withdrawn \cup WithId(Held, id) /\ lastJob' = lastJob
      BY <2>6 DEF CancelRequest, Held
    <3>2. Held' \subseteq {None} \cup {n \in Held : n \notin WithId(Held, id)}
      BY <2>6, <1>1, NoneType DEF CancelRequest, PlansLeft, WithId, Held
    <3>3. \A n \in WithId(Held, id) : n \in Jobs /\ n <= lastJob
      BY <1>1, Apart, AudioIsJob, SlotIsJob DEF WithId, Held
    <3> QED
      BY <1>1, <3>1, <3>2, <3>3, NoneType DEF Gone
  <2> QED
    BY <1>5, <2>1, <2>2, <2>3, <2>4, <2>5, <2>6 DEF FromPhone
<1>6. ASSUME NEW n \in Jobs, NEW yes \in BOOLEAN, ConfirmExecution(n, yes) PROVE Gone'
  <2>1. UNCHANGED <<lastJob, audio, processing, deferred>> /\ pending' \subseteq pending
    BY <1>6 DEF ConfirmExecution, PlansLeft
  <2>2. CASE UNCHANGED withdrawn /\ (execution' = execution \/ execution' \in Confirmable(idOf[n]))
    BY <1>1, <1>2, <2>1, <2>2 DEF Held, Confirmable, WithId
  <2>3. CASE /\ withdrawn' = withdrawn \cup Confirmable(idOf[n])
             /\ pending' = PlansLeft(idOf[n]) /\ UNCHANGED execution
    <3>1. Confirmable(idOf[n]) \cap Held' = {}
      BY <2>1, <2>3, Apart, NoneType DEF Held, Confirmable, PlansLeft, WithId
    <3>2. \A m \in Confirmable(idOf[n]) : m <= lastJob
      BY Apart DEF Confirmable, WithId
    <3> QED
      BY <2>1, <2>3, <3>1, <3>2 DEF Gone, Held
  <2> QED
    BY <1>6, <2>2, <2>3 DEF ConfirmExecution
<1>7. ASSUME NEW n \in Jobs, NEW kind \in DecisionKind, NEW yes \in BOOLEAN,
             DecisionResponse(n, kind, yes)
      PROVE  Gone'
  <2>1. /\ UNCHANGED <<lastJob, audio, execution, pending, withdrawn>>
        /\ {processing, deferred}' \subseteq {None, processing, deferred}
    BY <1>7 DEF DecisionResponse, AskDecision, StartInference
  <2> QED
    BY <1>1, <1>2, <2>1 DEF Held
<1>8. ASSUME NEW n \in Jobs, NEW kind \in DecisionKind, StaleDecision(n, kind) PROVE Gone'
  BY <1>1, <1>2, <1>3, <1>8 DEF StaleDecision, Unexpected, Held, history
<1>9. ASSUME NEW value \in BOOLEAN, Pause(value) PROVE Gone'
  <2>1. /\ withdrawn' = withdrawn \cup (Held \ {None}) /\ lastJob' = lastJob
        /\ Held' = {None}
    BY <1>1, <1>9, NoneType DEF Pause, Held
  <2>2. \A n \in Held \ {None} : n <= lastJob
    BY Apart, AudioIsJob, SlotIsJob DEF Held
  <2> QED
    BY <1>1, <2>1, <2>2, NoneType DEF Gone
<1>10. CASE DesktopDecide \/ Close \/ DecisionTimeout \/ ReceiveEvent
  BY <1>1, <1>2, <1>3, <1>10
  DEF DesktopDecide, Close, DecisionTimeout, ReceiveEvent, Held, conn, history
<1>11. CASE ReceiveResult
  <2> DEFINE r == Head(results)
  <2>1. UNCHANGED <<lastJob, audio, deferred, execution, withdrawn>>
    BY <1>11 DEF ReceiveResult, conn
  <2>2. CASE UNCHANGED <<processing, pending>>
    BY <1>1, <1>2, <2>1, <2>2 DEF Held
  <2>3. CASE Matches(r.job, processing) /\ processing' = None /\ Publish(r)
    <3>1. r.job = processing
      <4>1. r.job \in Jobs
        BY <1>11, ReceiveKeepsOneResult DEF Result
      <4> QED
        BY <1>11, <2>3, <4>1, SlotIsJob DEF Matches, Distinct, ReceiveResult
    <3>2. pending' \subseteq pending \cup {r.job}
      BY <2>3 DEF Publish, PlansLeft
    <3> QED
      BY <1>1, <1>2, <2>1, <2>3, <3>1, <3>2 DEF Held
  <2> QED
    BY <1>11, <2>2, <2>3 DEF ReceiveResult
<1>12. ASSUME NEW n \in Jobs,
              AbortLands(n) \/ (\E outcome \in Outcome : TaskFinishes(n, outcome)) \/ PlanExpires(n)
                \/ DeadlinePasses(n) \/ Executor(n) \/ Worker(n)
       PROVE  Gone'
  <2>1. /\ UNCHANGED <<lastJob, audio, processing, deferred, execution, withdrawn>>
        /\ pending' \subseteq pending
    BY <1>12 DEF AbortLands, TaskFinishes, PlanExpires, DeadlinePasses, Executor,
       SnapshotExpired, StartWorker, WorkerJoined, VerifyOutcome, OutcomeVerified, RunTimesOut, LateWorkerJoined, RunAbortLands, Worker,
       WorkerStep, WorkerLocks, WorkerGivesUp, WorkerStops, WorkerCompletes, WorkerPassesCheck,
       WorkerActs, WorkerActionFails, conn, slots, history
  <2> QED
    BY <1>1, <1>2, <2>1 DEF Held
<1>13. CASE UNCHANGED vars
  BY <1>1, <1>2, <1>13 DEF vars, Held, conn, slots, history
<1> QED
  BY <1>5, <1>6, <1>7, <1>8, <1>9, <1>10, <1>11, <1>12, <1>13
  DEF Next, Answers, FromDesktop, Inference

OrderlyInv == PlansInv /\ Distinct /\ Occupied /\ Gone

THEOREM OrderlyInvariant == ~ReuseIds => (Spec => []OrderlyInv)
<1> SUFFICES ASSUME ~ReuseIds PROVE Spec => []OrderlyInv
  OBVIOUS
<1>1. Init => Distinct /\ Occupied /\ Gone
  BY DistinctInit DEF Init, Occupied, Gone, Held
<1>2. PlansInv /\ Distinct /\ Occupied /\ Gone /\ [Next]_vars => (Distinct /\ Occupied /\ Gone)'
  BY DistinctStep, OccupiedStep, GoneStep DEF PlansInv
<1> QED
  BY <1>1, <1>2, PlansInvariant, PTL DEF Spec, OrderlyInv

\* The jobs whose plan is shown or started in a step, and why neither can have
\* been withdrawn.
LEMMA ShownOrStarted ==
  ASSUME OrderlyInv, [Next]_vars, NEW n \in withdrawn
  PROVE  (n \in previewed' => n \in previewed) /\ starts'[n] = starts[n]
<1>1. TypeOK /\ OneResult /\ Distinct /\ Gone /\ n \in Jobs /\ n \notin pending
  BY DEF OrderlyInv, PlansInv, Gone, Held, TypeOK, HistoryType
<1>2. CASE FromPhone
  BY <1>2 DEF FromPhone, ClientHello, UnexpectedMessage, Unexpected, EndConnection, CommandRequest,
       AudioStart, Refuse, AudioChunk, AudioEnd, CancelRequest, history
<1>3. ASSUME NEW m \in Jobs, NEW yes \in BOOLEAN, ConfirmExecution(m, yes)
      PROVE  previewed' = previewed /\ starts'[n] = starts[n]
  BY <1>1, <1>3 DEF ConfirmExecution, Confirmable, WithId, TypeOK, HistoryType
<1>4. CASE Answers
  BY <1>3, <1>4 DEF Answers, DecisionResponse, StaleDecision, Unexpected, EndConnection, history
<1>5. CASE FromDesktop \/ Close \/ DecisionTimeout \/ ReceiveEvent
  BY <1>5 DEF FromDesktop, Pause, DesktopDecide, Close, EndConnection, DecisionTimeout,
       ReceiveEvent, history
<1>6. CASE ReceiveResult
  <2> DEFINE r == Head(results)
  <2>1. starts' = starts
    BY <1>6 DEF ReceiveResult
  <2>2. CASE UNCHANGED previewed
    BY <2>1, <2>2
  <2>3. CASE Matches(r.job, processing) /\ Publish(r)
    <3>1. r.job \in Jobs
      BY <1>1, <1>6, ReceiveKeepsOneResult DEF Result
    <3>2. r.job = processing
      BY <1>1, <1>6, <2>3, <3>1, SlotIsJob DEF Matches, Distinct, ReceiveResult
    <3>3. previewed' \subseteq previewed \cup {r.job}
      BY <2>3 DEF Publish
    <3> QED
      BY <1>1, <2>1, <3>2, <3>3 DEF Gone, Held
  <2> QED
    BY <1>6, <2>2, <2>3 DEF ReceiveResult
<1>7. ASSUME NEW m \in Jobs,
             AbortLands(m) \/ (\E outcome \in Outcome : TaskFinishes(m, outcome)) \/ PlanExpires(m)
               \/ DeadlinePasses(m) \/ Executor(m) \/ Worker(m)
      PROVE  previewed' = previewed /\ starts' = starts
  BY <1>7 DEF AbortLands, TaskFinishes, PlanExpires, DeadlinePasses, Executor, SnapshotExpired,
       StartWorker, WorkerJoined, VerifyOutcome, OutcomeVerified, RunTimesOut, LateWorkerJoined, RunAbortLands, Worker, WorkerStep,
       WorkerLocks, WorkerGivesUp, WorkerStops, WorkerCompletes, WorkerPassesCheck, WorkerActs,
       WorkerActionFails, history
<1>8. CASE UNCHANGED vars
  BY <1>8 DEF vars, history
<1> QED
  BY <1>2, <1>4, <1>5, <1>6, <1>7, <1>8 DEF Next, Inference

\* If the phone never reuses a request id, cancelled work is never offered for
\* confirmation and never executed afterwards.
THEOREM CancelledStaysCancelled == ~ReuseIds => (Spec => CancelledWorkStaysCancelled)
<1> SUFFICES ASSUME ~ReuseIds PROVE Spec => CancelledWorkStaysCancelled
  OBVIOUS
<1>1. OrderlyInv /\ [Next]_vars
        => [\A n \in withdrawn : /\ n \in previewed' => n \in previewed
                                  /\ starts'[n] = starts[n]]_vars
  BY ShownOrStarted
<1> QED
  BY <1>1, OrderlyInvariant, PTL DEF Spec, CancelledWorkStaysCancelled

-----------------------------------------------------------------------------
(***************************************************************************)
(* What is reported completed was completed.                               *)
(***************************************************************************)

\* A plan that has not been started has no run and no worker; a worker that is
\* done has performed the plan.
Performed ==
    /\ \A n \in Jobs : starts[n] = 0 => run[n] = "none" /\ worker[n] = "none" /\ n \notin detached
    /\ \A n \in Jobs : run[n] = "capturing" => worker[n] = "none"
    /\ \A n \in Jobs : run[n] = "verifying" => worker[n] = "done"
    /\ \A n \in Jobs : worker[n] = "done" => acts[n] = PlanLength

\* Only a worker that is done has its plan reported, or about to be reported,
\* as completed.
Announced ==
    /\ \A i \in 1..Len(events) : events[i].kind = "completed" => worker[events[i].job] = "done"
    /\ \A n \in reported : worker[n] = "done"

LEMMA PerformedStep == TypeOK /\ OnePlan /\ Occupied /\ Performed /\ [Next]_vars => Performed'
<1> SUFFICES ASSUME TypeOK, OnePlan, Occupied, Performed, [Next]_vars PROVE Performed'
  OBVIOUS
<1>1. ASSUME UNCHANGED <<run, worker, acts, starts>>, detached' \subseteq detached \cup Some(execution)
      PROVE  Performed'
  BY <1>1 DEF Performed, Occupied, Some
<1>2. CASE EndConnection
  BY <1>1, <1>2 DEF EndConnection, DropExecutions
<1>3. CASE FromPhone
  BY <1>1, <1>2, <1>3 DEF FromPhone, ClientHello, UnexpectedMessage, Unexpected, CommandRequest,
       AudioStart, Refuse, AudioChunk, AudioEnd, CancelRequest, DropExecutions, WithId, Some, executor,
       history
<1>4. ASSUME NEW n \in Jobs, NEW yes \in BOOLEAN, ConfirmExecution(n, yes) PROVE Performed'
  <2>1. UNCHANGED <<detached, worker, acts>>
    BY <1>4 DEF ConfirmExecution
  <2>2. CASE UNCHANGED <<run, starts>>
    BY <1>1, <2>1, <2>2
  <2>3. ASSUME NEW p \in Confirmable(idOf[n]), run' = [run EXCEPT ![p] = "capturing"],
               starts' = [starts EXCEPT ![p] = @ + 1]
        PROVE  Performed'
    <3>1. p \in Jobs /\ starts[p] = 0 /\ worker[p] = "none"
      BY DEF Confirmable, WithId, OnePlan, Performed, TypeOK, SlotsType
    <3>2. /\ starts'[p] = 1 /\ run'[p] = "capturing"
          /\ \A m \in Jobs \ {p} : starts'[m] = starts[m] /\ run'[m] = run[m]
      BY <2>3, <3>1 DEF TypeOK, HistoryType, ExecutorType
    <3> QED
      BY <2>1, <3>1, <3>2 DEF Performed
  <2> QED
    BY <1>4, <2>2, <2>3 DEF ConfirmExecution
<1>5. CASE Answers
  BY <1>1, <1>2, <1>4, <1>5 DEF Answers, DecisionResponse, StaleDecision, Unexpected, executor, history
<1>6. CASE FromDesktop \/ Close \/ DecisionTimeout \/ ReceiveEvent
  BY <1>1, <1>2, <1>6 DEF FromDesktop, Pause, DesktopDecide, Close, DecisionTimeout, ReceiveEvent,
       DropExecutions, Some, executor, history
<1>7. CASE Inference
  BY <1>1, <1>7 DEF Inference, ReceiveResult, AbortLands, TaskFinishes, executor, history
<1>8. ASSUME NEW n \in Jobs, Executor(n) PROVE Performed'
  <2>1. /\ UNCHANGED <<acts, detached, starts>> /\ run'[n] # "capturing"
        /\ \A m \in Jobs \ {n} : run'[m] = run[m] /\ worker'[m] = worker[m]
        /\ worker'[n] \in {worker[n], "lock"}
        /\ run'[n] = "verifying" => worker'[n] = "done"
    BY <1>8 DEF Executor, Verdict, SnapshotExpired, StartWorker, WorkerJoined, VerifyOutcome, OutcomeVerified, RunTimesOut, LateWorkerJoined,
       RunAbortLands, AfterStep, history, TypeOK, ExecutorType
  <2>2. starts[n] # 0
    BY <1>8 DEF Performed, Executor, SnapshotExpired, StartWorker, WorkerJoined, VerifyOutcome, OutcomeVerified, RunTimesOut,
       LateWorkerJoined, RunAbortLands
  <2> QED
    BY <2>1, <2>2 DEF Performed
<1>9. ASSUME NEW n \in Jobs, Worker(n) PROVE Performed'
  <2>1. /\ UNCHANGED <<run, detached, starts>> /\ worker[n] \in {"lock", "check", "armed"}
        /\ \A m \in Jobs \ {n} : worker'[m] = worker[m] /\ acts'[m] = acts[m]
        /\ worker'[n] = "done" => acts'[n] = PlanLength
    BY <1>9 DEF Worker, WorkerStep, WorkerLocks, WorkerGivesUp, WorkerStops, WorkerCompletes,
       WorkerPassesCheck, WorkerActs, WorkerActionFails, TypeOK, ExecutorType
  <2> QED
    BY <2>1 DEF Performed
<1>10. ASSUME NEW n \in Jobs, PlanExpires(n) \/ DeadlinePasses(n) PROVE Performed'
  BY <1>1, <1>10 DEF PlanExpires, DeadlinePasses, executor, history
<1>11. CASE UNCHANGED vars
  BY <1>1, <1>11 DEF vars, executor, history
<1> QED
  BY <1>3, <1>5, <1>6, <1>7, <1>8, <1>9, <1>10, <1>11 DEF Next

\* A worker that is done stays done: its job is never started again.
LEMMA DoneStays ==
  ASSUME TypeOK, Performed, [Next]_vars, NEW n \in Jobs, worker[n] = "done"
  PROVE  worker'[n] = "done"
<1>1. ASSUME NEW m \in Jobs, StartWorker(m) \/ Worker(m) PROVE worker'[n] = worker[n]
  BY <1>1 DEF Performed, StartWorker, Worker, WorkerStep, WorkerLocks, WorkerGivesUp, WorkerStops,
       WorkerCompletes, WorkerPassesCheck, WorkerActs, WorkerActionFails, TypeOK, ExecutorType
<1> QED
  BY <1>1, WorkersRest

LEMMA AnnouncedStep ==
  TypeOK /\ Distinct /\ Performed /\ Announced /\ [Next]_vars => Announced'
<1> SUFFICES ASSUME TypeOK, Distinct, Performed, Announced, [Next]_vars PROVE Announced'
  OBVIOUS
<1>1. /\ events \in Seq(Event) /\ Len(events) \in Nat
      /\ \A i \in 1..Len(events) : events[i] \in Event /\ events[i].job \in Jobs
      /\ reported \subseteq Jobs
  <2>1. events \in Seq(Event) /\ reported \subseteq Jobs
    BY DEF TypeOK, ExecutorType, HistoryType
  <2>2. \A e \in Event : e.job \in Jobs
    BY DEF Event
  <2>3. \A i \in 1..Len(events) : events[i] \in Event
    BY <2>1
  <2> QED
    BY <2>1, <2>2, <2>3
<1>2. ASSUME reported' = reported, events' = events \/ events' = <<>> PROVE Announced'
  BY <1>1, <1>2, DoneStays DEF Announced
<1>3. ASSUME NEW n \in Jobs, NEW kind \in EventKind, Emit(n, kind), reported' = reported,
             kind = "completed" => worker[n] = "done"
      PROVE  Announced'
  <2>1. CASE events' = events
    BY <1>2, <1>3, <2>1
  <2>2. CASE events' = Append(events, [job |-> n, kind |-> kind])
    <3> DEFINE e == [job |-> n, kind |-> kind]
    <3>1. e \in Event /\ e.job = n /\ e.kind = kind
      BY DEF Event
    <3>2. /\ Len(events') = Len(events) + 1
          /\ \A i \in 1..Len(events) : events'[i] = events[i]
          /\ events'[Len(events) + 1] = e
      BY <1>1, <2>2, <3>1
    <3>3. \A i \in 1..Len(events') : i \in 1..Len(events) \/ i = Len(events) + 1
      BY <1>1, <3>2
    <3>4. \A i \in 1..Len(events') : events'[i].kind = "completed" => worker'[events'[i].job] = "done"
      BY <1>1, <1>3, <3>1, <3>2, <3>3, DoneStays DEF Announced
    <3> QED
      BY <1>1, <1>3, <3>4, DoneStays DEF Announced
  <2> QED
    BY <1>3, <2>1, <2>2 DEF Emit, Send
<1>4. CASE EndConnection
  BY <1>2, <1>4 DEF EndConnection
<1>5. CASE FromPhone \/ Answers
  BY <1>2, <1>4, <1>5 DEF FromPhone, ClientHello, UnexpectedMessage, Unexpected, CommandRequest,
       AudioStart, Refuse, AudioChunk, AudioEnd, CancelRequest, Answers, ConfirmExecution,
       DecisionResponse, StaleDecision, executor, history
<1>6. CASE FromDesktop \/ Close \/ DecisionTimeout \/ Inference
  BY <1>2, <1>4, <1>6 DEF FromDesktop, Pause, DesktopDecide, Close, DecisionTimeout, Inference,
       ReceiveResult, AbortLands, TaskFinishes, executor, history
<1>7. CASE ReceiveEvent
  <2> DEFINE e == Head(events)
  <2>1. /\ events' = Tail(events) /\ Len(events') = Len(events) - 1 /\ e = events[1] /\ e \in Event
        /\ 1 \in 1..Len(events)
        /\ \A i \in 1..Len(events') : events'[i] = events[i + 1] /\ i + 1 \in 1..Len(events)
    BY <1>1, <1>7 DEF ReceiveEvent
  <2>2. \A i \in 1..Len(events') : events'[i].kind = "completed" => worker'[events'[i].job] = "done"
    BY <1>1, <2>1, DoneStays DEF Announced
  <2>3. reported' = reported \/ (reported' = reported \cup {execution} /\ Matches(e.job, execution) /\ e.kind = "completed")
    BY <1>7 DEF ReceiveEvent
  <2>4. Matches(e.job, execution) => e.job = execution
    BY <1>7, <2>1, SlotIsJob DEF Matches, Distinct, ReceiveEvent, Event
  <2>5. \A n \in reported' : worker'[n] = "done"
    BY <1>1, <2>1, <2>3, <2>4, DoneStays DEF Announced
  <2> QED
    BY <2>2, <2>5 DEF Announced
<1>8. ASSUME NEW n \in Jobs, Executor(n) PROVE Announced'
  <2>1. reported' = reported
    BY <1>8 DEF Executor, SnapshotExpired, StartWorker, WorkerJoined, VerifyOutcome, OutcomeVerified, RunTimesOut, LateWorkerJoined,
       RunAbortLands, history
  <2>2. CASE WorkerJoined(n)
    <3>1. Verdict(n) \in EventKind /\ (Verdict(n) = "completed" => worker[n] = "done")
      BY DEF Verdict, EventKind
    <3> QED
      BY <1>3, <2>1, <2>2, <3>1 DEF WorkerJoined
  <2>3. CASE SnapshotExpired(n) \/ RunTimesOut(n) \/ LateWorkerJoined(n)
    BY <1>3, <2>1, <2>3 DEF SnapshotExpired, RunTimesOut, LateWorkerJoined, EventKind
  <2>4. CASE StartWorker(n) \/ RunAbortLands(n) \/ VerifyOutcome(n)
    BY <1>2, <2>1, <2>4 DEF StartWorker, RunAbortLands, VerifyOutcome
  <2>5. CASE OutcomeVerified(n)
    BY <1>3, <2>1, <2>5 DEF OutcomeVerified, Performed, EventKind
  <2> QED
    BY <1>8, <2>2, <2>3, <2>4, <2>5 DEF Executor
<1>9. ASSUME NEW n \in Jobs, Worker(n) \/ PlanExpires(n) \/ DeadlinePasses(n) PROVE Announced'
  <2>1. UNCHANGED <<events, reported>>
    BY <1>9 DEF Worker, WorkerStep, WorkerLocks, WorkerGivesUp, WorkerStops, WorkerCompletes,
       WorkerPassesCheck, WorkerActs, WorkerActionFails, PlanExpires, DeadlinePasses, executor, history
  <2> QED
    BY <1>2, <2>1
<1>10. CASE UNCHANGED vars
  BY <1>2, <1>10 DEF vars, executor, history
<1> QED
  BY <1>5, <1>6, <1>7, <1>8, <1>9, <1>10 DEF Next

\* If the phone never reuses a request id, a plan is reported completed only
\* when its worker performed every action and found no stop request after the
\* last one.
THEOREM ReportsAreHonest == ~ReuseIds => (Spec => []HonestReport)
<1> SUFFICES ASSUME ~ReuseIds PROVE Spec => []HonestReport
  OBVIOUS
<1>1. Init => Performed /\ Announced
  <2> SUFFICES ASSUME Init PROVE Performed /\ Announced
    OBVIOUS
  <2>1. Performed
    BY DEF Init, Performed
  <2>2. Announced
    BY DEF Init, Announced
  <2> QED
    BY <2>1, <2>2
<1>2. OrderlyInv /\ Performed /\ Announced /\ [Next]_vars => (Performed /\ Announced)'
  BY PerformedStep, AnnouncedStep DEF OrderlyInv, PlansInv
<1>3. OrderlyInv /\ Performed /\ Announced => HonestReport
  BY DEF OrderlyInv, PlansInv, TypeOK, HistoryType, Performed, Announced, HonestReport
<1> QED
  BY <1>1, <1>2, <1>3, OrderlyInvariant, PTL DEF Spec

-----------------------------------------------------------------------------
(***************************************************************************)
(* Nothing is forgotten, if the phone neither reuses a request id nor      *)
(* mixes an upload with other requests.                                    *)
(***************************************************************************)

\* Of the upload, the inference and the decision at most one is open.
Alone ==
    /\ audio # None => processing = None /\ deferred = None
    /\ deferred # None => processing = None

\* What the phone awaits is in a slot.
Awaited ==
    /\ owed \subseteq {audio, processing, deferred}
    /\ owedRun \subseteq {execution}
    /\ owedRun # {} => Ready

\* Among the first k events on their way is one by which the phone learns that the
\* deadline of job n has passed.
Warned(n, k) == \E j \in 1..k : events[j].job = n /\ events[j].kind = "TimedOut"

\* The only event that closes an execution without a word to the phone, that of a
\* worker that ended late, is behind the event that tells it of the deadline.
Overdue ==
    /\ \A n \in owedRun : run[n] = "late" => Warned(n, Len(events))
    /\ \A i \in 1..Len(events) :
          /\ starts[events[i].job] # 0
          /\ events[i].kind = "FinishedAfterTimeout" /\ events[i].job \in owedRun
                => Warned(events[i].job, i - 1)

LEMMA AloneStep == ~MixUploads /\ TypeOK /\ Alone /\ [Next]_vars => Alone'
<1> SUFFICES ASSUME ~MixUploads, TypeOK, Alone, [Next]_vars PROVE Alone'
  OBVIOUS
<1>1. ASSUME audio' \in {None, audio}, processing' \in {None, processing},
             deferred' \in {None, deferred}
      PROVE  Alone'
  BY <1>1 DEF Alone
<1>2. CASE EndConnection
  BY <1>1, <1>2 DEF EndConnection
<1>3. ASSUME NEW n \in Jobs, NEW id, Admit(n, id), audio' = None, processing = None, deferred = None
      PROVE  Alone'
  BY <1>3 DEF Admit, StartInference, AskDecision, Alone
<1>4. CASE FromPhone
  <2>1. CASE ClientHello \/ UnexpectedMessage
    BY <1>1, <1>2, <2>1 DEF ClientHello, UnexpectedMessage, Unexpected, slots
  <2>2. CASE CommandRequest
    <3>1. /\ lastJob + 1 \in Jobs /\ Admit(lastJob + 1, idOf[lastJob + 1])
          /\ audio' = None /\ processing = None /\ deferred = None
      BY <2>2, NewJobType DEF CommandRequest, Busy, TypeOK
    <3> QED
      BY <1>3, <3>1
  <2>3. CASE AudioStart
    BY <2>3 DEF AudioStart, Busy, Alone
  <2>4. ASSUME NEW id \in RequestId, Refuse(id) \/ AudioChunk(id) \/ CancelRequest(id) PROVE Alone'
    BY <1>1, <2>4 DEF Refuse, AudioChunk, CancelRequest
  <2>5. ASSUME NEW id \in RequestId, AudioEnd(id) PROVE Alone'
    <3>1. CASE audio # None /\ Admit(audio, id)
      BY <1>3, <2>5, <3>1, AudioIsJob DEF AudioEnd, Alone
    <3>2. CASE UNCHANGED <<processing, deferred>>
      BY <1>1, <2>5, <3>2 DEF AudioEnd
    <3> QED
      BY <2>5, <3>1, <3>2 DEF AudioEnd
  <2> QED
    BY <1>4, <2>1, <2>2, <2>3, <2>4, <2>5 DEF FromPhone
<1>5. ASSUME NEW n \in Jobs, NEW yes \in BOOLEAN, ConfirmExecution(n, yes) PROVE Alone'
  BY <1>1, <1>5 DEF ConfirmExecution
<1>6. ASSUME NEW n \in Jobs, NEW kind \in DecisionKind, NEW yes \in BOOLEAN,
             DecisionResponse(n, kind, yes)
      PROVE  Alone'
  <2>1. audio' = audio /\ deferred = n /\ n # None
    BY <1>6, NoneType DEF DecisionResponse
  <2>2. CASE StartInference(n) /\ deferred' = None
    BY <2>1, <2>2 DEF Alone
  <2>3. CASE processing' = processing /\ deferred' \in {None, n}
    BY <1>1, <2>1, <2>3
  <2> QED
    BY <1>6, <2>2, <2>3 DEF DecisionResponse, AskDecision
<1>7. ASSUME NEW n \in Jobs, NEW kind \in DecisionKind, StaleDecision(n, kind) PROVE Alone'
  BY <1>1, <1>2, <1>7 DEF StaleDecision, Unexpected
<1>8. CASE FromDesktop \/ Close \/ DecisionTimeout \/ ReceiveEvent
  BY <1>1, <1>2, <1>8 DEF FromDesktop, Pause, DesktopDecide, Close, DecisionTimeout, ReceiveEvent
<1>9. CASE Inference
  BY <1>1, <1>9 DEF Inference, ReceiveResult, AbortLands, TaskFinishes, slots
<1>10. ASSUME NEW n \in Jobs, PlanExpires(n) \/ DeadlinePasses(n) \/ Executor(n) \/ Worker(n)
       PROVE  Alone'
  BY <1>1, <1>10 DEF PlanExpires, DeadlinePasses, Executor, SnapshotExpired, StartWorker,
       WorkerJoined, VerifyOutcome, OutcomeVerified, RunTimesOut, LateWorkerJoined, RunAbortLands,
       Worker, WorkerStep, WorkerLocks, WorkerGivesUp, WorkerStops, WorkerCompletes,
       WorkerPassesCheck, WorkerActs, WorkerActionFails, slots
<1>11. CASE UNCHANGED vars
  BY <1>1, <1>11 DEF vars, slots
<1> QED
  BY <1>4, <1>5, <1>6, <1>7, <1>8, <1>9, <1>10, <1>11 DEF Next, Answers

LEMMA SettleOne ==
  ASSUME TypeOK, Distinct, NEW n \in Jobs, Settle(idOf[n])
  PROVE  owed' = owed \ {n} /\ owedRun' = owedRun \ {n}
<1>1. owed \subseteq Jobs /\ owedRun \subseteq Jobs
  BY DEF TypeOK, HistoryType
<1>2. WithId(owed, idOf[n]) = owed \cap {n} /\ WithId(owedRun, idOf[n]) = owedRun \cap {n}
  BY <1>1, ById
<1> QED
  BY <1>2 DEF Settle

LEMMA EventsType ==
  ASSUME TypeOK
  PROVE  /\ events \in Seq(Event) /\ Len(events) \in Nat
         /\ \A i \in 1..Len(events) : events[i] \in Event /\ events[i].job \in Jobs
<1>1. events \in Seq(Event)
  BY DEF TypeOK, ExecutorType
<1>2. \A e \in Event : e.job \in Jobs
  BY DEF Event
<1>3. Len(events) \in Nat /\ \A i \in 1..Len(events) : events[i] \in Event
  BY <1>1
<1> QED
  BY <1>1, <1>2, <1>3

\* An event of the plan that runs settles it, or finds it settled; any other event is
\* ignored.
LEMMA EventSettles ==
  ASSUME TypeOK, Distinct, Awaited, Overdue, ReceiveEvent
  PROVE  \/ owedRun' = {} /\ owed' \subseteq owed
         \/ events[1].job # execution /\ UNCHANGED <<execution, owed, owedRun>>
<1>1. /\ execution \in Jobs /\ Len(events) > 0 /\ Head(events) = events[1]
      /\ events[1] \in Event /\ events[1].job \in Jobs
  <2>1. events # <<>> /\ execution # None
    BY DEF ReceiveEvent
  <2>2. Len(events) > 0 /\ Head(events) = events[1]
    BY <2>1, EventsType
  <2> QED
    BY <2>1, <2>2, EventsType, SlotIsJob
<1>2. CASE ~Matches(events[1].job, execution)
  BY <1>1, <1>2 DEF Matches, ReceiveEvent
<1>3. CASE Matches(events[1].job, execution)
  <2>1. events[1].job = execution
    BY <1>1, <1>3 DEF Matches, Distinct
  <2>2. CASE ErrorReply(idOf[execution])
    BY <1>1, <2>2, SettleOne DEF ErrorReply, Awaited
  <2>3. CASE events[1].kind = "FinishedAfterTimeout" /\ UNCHANGED <<owed, owedRun>>
    <3>1. ~Warned(execution, 1 - 1)
      BY DEF Warned
    <3>2. execution \notin owedRun
      BY <1>1, <2>1, <2>3, <3>1, EventsType DEF Overdue
    <3> QED
      BY <2>3, <3>2 DEF Awaited
  <2> QED
    BY <1>1, <1>3, <2>1, <2>2, <2>3 DEF ReceiveEvent
<1> QED
  BY <1>2, <1>3

LEMMA AwaitedStep ==
  ~MixUploads /\ TypeOK /\ Distinct /\ Alone /\ Overdue /\ Awaited /\ [Next]_vars => Awaited'
<1> SUFFICES ASSUME ~MixUploads, TypeOK, Distinct, Alone, Overdue, Awaited, [Next]_vars
             PROVE  Awaited'
  OBVIOUS
<1>1. owed \subseteq Jobs /\ owedRun \subseteq Jobs
  BY DEF TypeOK, HistoryType
<1>2. ASSUME owed' \subseteq owed, owedRun' \subseteq owedRun,
             UNCHANGED <<phase, audio, processing, deferred, execution>>
      PROVE  Awaited'
  BY <1>2 DEF Awaited, Ready
<1>3. CASE EndConnection
  BY <1>3 DEF EndConnection, Awaited
<1>4. ASSUME NEW n \in Jobs, Admit(n, idOf[n]), owed \subseteq {n}, processing = None,
             deferred = None, UNCHANGED <<phase, execution>>
      PROVE  Awaited'
  <2>1. CASE ErrorReply(idOf[n])
    BY <1>4, <2>1, SettleOne DEF ErrorReply, Awaited, Ready
  <2>2. CASE /\ n \in {processing', deferred'}
             /\ owed' = owed \cup {n} /\ owedRun' = owedRun
    BY <1>4, <2>2 DEF Awaited, Ready
  <2> QED
    BY <1>4, <2>1, <2>2 DEF Admit, StartInference, AskDecision
<1>5. CASE FromPhone
  <2>1. CASE ClientHello
    BY <2>1 DEF ClientHello, Awaited, Ready, slots, history
  <2>2. CASE UnexpectedMessage
    BY <1>2, <1>3, <2>2 DEF UnexpectedMessage, Unexpected, history
  <2>3. CASE CommandRequest
    <3>1. /\ lastJob + 1 \in Jobs /\ Admit(lastJob + 1, idOf[lastJob + 1])
          /\ audio = None /\ processing = None /\ deferred = None
          /\ UNCHANGED <<phase, execution>>
      BY <2>3, NewJobType DEF CommandRequest, Busy, Handled, TypeOK
    <3>2. owed = {}
      BY <1>1, <3>1, NoneType DEF Awaited
    <3> QED
      BY <1>4, <3>1, <3>2
  <2>4. CASE AudioStart
    <3>1. owed = {}
      BY <1>1, <2>4, NoneType DEF AudioStart, Busy, Awaited
    <3> QED
      BY <2>4, <3>1 DEF AudioStart, Handled, Awaited, Ready
  <2>5. ASSUME NEW id \in RequestId, Refuse(id) PROVE Awaited'
    BY <1>2, <2>5 DEF Refuse, ErrorReply, Settle
  <2>6. ASSUME NEW id \in RequestId, ErrorReply(id), UploadId(id), audio' = None,
               UNCHANGED <<phase, processing, deferred, execution>>
        PROVE  Awaited'
    <3>1. CASE audio = None
      BY <1>2, <2>6, <3>1 DEF ErrorReply, Settle
    <3>2. CASE audio # None
      <4>1. audio \in Jobs /\ id = idOf[audio]
        BY <2>6, <3>2, AudioIsJob DEF UploadId
      <4>2. owed' = owed \ {audio} /\ owedRun' = owedRun \ {audio}
        BY <2>6, <4>1, SettleOne DEF ErrorReply
      <4> QED
        BY <2>6, <4>2 DEF Awaited, Ready
    <3> QED
      BY <3>1, <3>2
  <2>7. ASSUME NEW id \in RequestId, AudioChunk(id) PROVE Awaited'
    BY <1>2, <2>6, <2>7 DEF AudioChunk, Handled
  <2>8. ASSUME NEW id \in RequestId, AudioEnd(id) PROVE Awaited'
    <3>1. UploadId(id) /\ audio' = None /\ UNCHANGED <<phase, execution>>
      BY <2>8 DEF AudioEnd, Handled
    <3>2. CASE audio # None /\ id = idOf[audio] /\ Admit(audio, id)
      <4>1. audio \in Jobs /\ processing = None /\ deferred = None
        BY <3>2, AudioIsJob DEF Alone
      <4>2. owed \subseteq {audio}
        BY <1>1, <4>1, NoneType DEF Awaited
      <4> QED
        BY <1>4, <3>1, <3>2, <4>1, <4>2
    <3>3. CASE ErrorReply(id) /\ UNCHANGED <<processing, deferred>>
      BY <2>6, <3>1, <3>3
    <3> QED
      BY <2>8, <3>2, <3>3 DEF AudioEnd
  <2>9. ASSUME NEW id \in RequestId, CancelRequest(id) PROVE Awaited'
    <3>1. \A m \in owed' : m \in owed /\ m # None /\ idOf[m] # id
      BY <1>1, <2>9, NoneType DEF CancelRequest, Settle, WithId
    <3>2. \A m \in owedRun' : m \in owedRun /\ m # None /\ idOf[m] # id
      BY <1>1, <2>9, NoneType DEF CancelRequest, Settle, WithId
    <3> QED
      BY <2>9, <3>1, <3>2 DEF CancelRequest, Handled, Awaited, Ready
  <2> QED
    BY <1>5, <2>1, <2>2, <2>3, <2>4, <2>5, <2>7, <2>8, <2>9 DEF FromPhone
<1>6. ASSUME NEW n \in Jobs, NEW yes \in BOOLEAN, ConfirmExecution(n, yes) PROVE Awaited'
  <2>1. Ready /\ UNCHANGED <<phase, audio, processing, deferred, owed>>
    BY <1>6 DEF ConfirmExecution, Accepting, Handled
  <2>2. CASE UNCHANGED <<execution, owedRun>>
    BY <1>2, <2>1, <2>2
  <2>3. ASSUME NEW p, execution = None, execution' = p, owedRun' = owedRun \cup {p} PROVE Awaited'
    BY <1>1, <2>1, <2>3, NoneType DEF Awaited, Ready
  <2> QED
    BY <1>6, <2>2, <2>3 DEF ConfirmExecution
<1>7. ASSUME NEW n \in Jobs, NEW kind \in DecisionKind, NEW yes \in BOOLEAN,
             DecisionResponse(n, kind, yes)
      PROVE  Awaited'
  <2>1. deferred = n /\ UNCHANGED <<phase, audio, execution>>
    BY <1>7 DEF DecisionResponse, Handled
  <2>2. CASE ErrorReply(idOf[n]) /\ UNCHANGED processing
    <3>1. owed' = owed \ {n} /\ owedRun' = owedRun \ {n}
      BY <2>2, SettleOne DEF ErrorReply
    <3> QED
      BY <2>1, <2>2, <3>1 DEF Awaited, Ready
  <2>3. CASE deferred' = n /\ UNCHANGED <<processing, owed, owedRun>>
    BY <1>2, <2>1, <2>3
  <2>4. CASE processing = None /\ StartInference(n) /\ UNCHANGED <<owed, owedRun>>
    BY <1>1, <2>1, <2>4, NoneType DEF StartInference, Awaited, Ready
  <2> QED
    BY <1>7, <2>2, <2>3, <2>4 DEF DecisionResponse, AskDecision
<1>8. ASSUME NEW n \in Jobs, NEW kind \in DecisionKind, StaleDecision(n, kind) PROVE Awaited'
  BY <1>2, <1>3, <1>8 DEF StaleDecision, Unexpected, history
<1>9. ASSUME NEW value \in BOOLEAN, Pause(value) PROVE Awaited'
  BY <1>9 DEF Pause, Awaited
<1>10. CASE DesktopDecide \/ Close
  BY <1>2, <1>3, <1>10 DEF DesktopDecide, Close, conn, history
<1>11. CASE DecisionTimeout
  <2>1. /\ deferred \in Jobs /\ ErrorReply(idOf[deferred]) /\ deferred' = None
        /\ UNCHANGED <<phase, audio, processing, execution>>
    BY <1>11, AudioIsJob DEF DecisionTimeout, DecisionTick, conn
  <2>2. owed' = owed \ {deferred} /\ owedRun' = owedRun \ {deferred}
    BY <2>1, SettleOne DEF ErrorReply
  <2> QED
    BY <2>1, <2>2 DEF Awaited, Ready
<1>12. CASE ReceiveEvent
  <2>1. UNCHANGED <<phase, audio, processing, deferred>>
    BY <1>12 DEF ReceiveEvent, conn
  <2> QED
    BY <1>2, <1>12, <2>1, EventSettles DEF Awaited
<1>13. CASE ReceiveResult
  <2> DEFINE r == Head(results)
  <2>1. UNCHANGED <<phase, audio, deferred, execution>> /\ processing \in Jobs
    BY <1>13, SlotIsJob DEF ReceiveResult, conn
  <2>2. CASE UNCHANGED <<processing, owed, owedRun>>
    BY <1>2, <2>1, <2>2
  <2>3. CASE Matches(r.job, processing) /\ Publish(r)
    <3>1. Settle(idOf[processing])
      BY <2>3 DEF Matches, Publish, ErrorReply
    <3>2. owed' = owed \ {processing} /\ owedRun' = owedRun \ {processing}
      BY <2>1, <3>1, SettleOne
    <3> QED
      BY <2>1, <3>2 DEF Awaited, Ready
  <2> QED
    BY <1>13, <2>2, <2>3 DEF ReceiveResult
<1>14. ASSUME NEW n \in Jobs,
              AbortLands(n) \/ (\E outcome \in Outcome : TaskFinishes(n, outcome)) \/ PlanExpires(n)
                \/ DeadlinePasses(n) \/ Executor(n) \/ Worker(n)
       PROVE  Awaited'
  BY <1>2, <1>14 DEF AbortLands, TaskFinishes, PlanExpires, DeadlinePasses, Executor,
       SnapshotExpired, StartWorker, WorkerJoined, VerifyOutcome, OutcomeVerified, RunTimesOut,
       LateWorkerJoined, RunAbortLands, Worker, WorkerStep, WorkerLocks, WorkerGivesUp, WorkerStops,
       WorkerCompletes, WorkerPassesCheck, WorkerActs, WorkerActionFails, conn, slots, history
<1>15. CASE UNCHANGED vars
  BY <1>2, <1>15 DEF vars, conn, slots, history
<1> QED
  BY <1>5, <1>6, <1>7, <1>8, <1>9, <1>10, <1>11, <1>12, <1>13, <1>14, <1>15
  DEF Next, Answers, FromDesktop, Inference

\* What neither brings an event nor lets the phone wait for a run leaves the order of
\* the events alone.
LEMMA OverdueRests ==
  ASSUME TypeOK, Overdue, events' = events, owedRun' \subseteq owedRun,
         \A n \in Jobs : starts[n] # 0 => starts'[n] # 0,
         \A n \in owedRun : run'[n] = "late" => run[n] = "late"
  PROVE  Overdue'
<1>1. \A n, k : Warned(n, k)' <=> Warned(n, k)
  BY DEF Warned
<1>2. \A n \in owedRun' : run'[n] = "late" => Warned(n, Len(events))'
  BY <1>1 DEF Overdue
<1>3. \A i \in 1..Len(events') :
        /\ starts'[events'[i].job] # 0
        /\ events'[i].kind = "FinishedAfterTimeout" /\ events'[i].job \in owedRun'
              => Warned(events[i].job, i - 1)'
  BY <1>1, EventsType DEF Overdue
<1> QED
  BY <1>2, <1>3 DEF Overdue

\* An event of a plan that was started is sent behind the others; the one of a worker
\* that ended late, behind the notice of the deadline.
LEMMA EmitKeepsOverdue ==
  ASSUME TypeOK, Awaited, Overdue, NEW n \in Jobs, NEW kind \in EventKind, Emit(n, kind),
         starts[n] # 0, starts' = starts, owedRun' = owedRun,
         kind = "FinishedAfterTimeout" /\ n \in owedRun => Warned(n, Len(events)),
         \A m \in owedRun : run'[m] = "late" => run[m] = "late" \/ (m = n /\ kind = "TimedOut")
  PROVE  Overdue'
<1>1. CASE phase = "closed"
  <2>1. owedRun = {} /\ events' = events
    BY <1>1 DEF Awaited, Ready, Emit, Send
  <2> QED
    BY <2>1, OverdueRests
<1>2. CASE phase # "closed"
  <2> DEFINE e == [job |-> n, kind |-> kind]
  <2>1. PICK l \in Nat : l = Len(events)
    BY EventsType
  <2>2. e \in Event /\ e.job = n /\ e.kind = kind /\ events' = Append(events, e)
    BY <1>2 DEF Emit, Send, Event
  <2>3. /\ Len(events') = l + 1 /\ events'[l + 1] = e
        /\ \A i \in 1..l : events'[i] = events[i]
    BY <2>1, <2>2, EventsType
  <2>4. \A m, k : k \in 0..l /\ Warned(m, k) => Warned(m, k)'
    <3> SUFFICES ASSUME NEW m, NEW k \in 0..l, Warned(m, k) PROVE Warned(m, k)'
      OBVIOUS
    <3>1. PICK j \in 1..k : events[j].job = m /\ events[j].kind = "TimedOut"
      BY DEF Warned
    <3>2. events'[j] = events[j]
      BY <2>1, <2>3
    <3> QED
      BY <3>1, <3>2 DEF Warned
  <2>5. ASSUME NEW m \in owedRun', run'[m] = "late" PROVE Warned(m, l + 1)'
    <3>1. CASE run[m] = "late"
      <4>1. Warned(m, l)'
        BY <2>1, <2>4, <2>5, <3>1 DEF Overdue
      <4> QED
        BY <2>1, <4>1 DEF Warned
    <3>2. CASE m = n /\ kind = "TimedOut"
      BY <2>1, <2>2, <2>3, <3>2 DEF Warned
    <3> QED
      BY <2>5, <3>1, <3>2
  <2>6. ASSUME NEW i \in 1..(l + 1)
        PROVE  /\ starts'[events'[i].job] # 0
               /\ events'[i].kind = "FinishedAfterTimeout" /\ events'[i].job \in owedRun'
                     => Warned(events[i].job, i - 1)'
    <3>1. CASE i \in 1..l
      <4>1. events'[i] = events[i] /\ i - 1 \in 0..l
        BY <2>1, <2>3, <3>1
      <4> QED
        BY <2>1, <2>4, <3>1, <4>1 DEF Overdue
    <3>2. CASE i = l + 1
      <4>1. i - 1 = l
        BY <2>1, <3>2
      <4> QED
        BY <2>1, <2>2, <2>3, <2>4, <3>2, <4>1
    <3> QED
      BY <2>1, <3>1, <3>2
  <2> QED
    BY <2>1, <2>3, <2>5, <2>6 DEF Overdue
<1> QED
  BY <1>1, <1>2

\* The event that is received leaves the queue; of a run the phone still awaits, the
\* notice of the deadline was not yet received.
LEMMA ReceiveKeepsOverdue ==
  ASSUME TypeOK, Distinct, Awaited, Overdue, ReceiveEvent
  PROVE  Overdue'
<1>1. UNCHANGED <<run, starts>> /\ events # <<>> /\ events' = Tail(events)
  BY DEF ReceiveEvent
<1>2. PICK l \in Nat : l = Len(events)
  BY EventsType
<1>3. /\ l > 0 /\ Len(events') = l - 1
      /\ \A i \in 1..(l - 1) : events'[i] = events[i + 1] /\ i + 1 \in 1..l
  BY <1>1, <1>2, EventsType
<1>4. \A i \in 1..(l - 1) : starts'[events'[i].job] # 0
  BY <1>1, <1>2, <1>3 DEF Overdue
<1>5. CASE owedRun' = {}
  BY <1>2, <1>3, <1>4, <1>5 DEF Overdue
<1>6. CASE events[1].job # execution /\ UNCHANGED <<execution, owedRun>>
  <2>1. ASSUME NEW m \in owedRun, NEW k \in 1..l, Warned(m, k) PROVE Warned(m, k - 1)'
    <3>1. PICK j \in 1..k : events[j].job = m /\ events[j].kind = "TimedOut"
      BY <2>1 DEF Warned
    <3>2. m = execution /\ j # 1
      BY <1>6, <3>1 DEF Awaited
    <3>3. j - 1 \in 1..(k - 1) /\ j - 1 \in 1..(l - 1) /\ (j - 1) + 1 = j
      BY <1>2, <3>1, <3>2
    <3>4. events'[j - 1] = events[j]
      BY <1>3, <3>3
    <3> QED
      BY <3>1, <3>3, <3>4 DEF Warned
  <2>2. \A m \in owedRun' : run'[m] = "late" => Warned(m, l - 1)'
    BY <1>1, <1>2, <1>3, <1>6, <2>1 DEF Overdue
  <2>3. ASSUME NEW i \in 1..(l - 1), events'[i].kind = "FinishedAfterTimeout",
               events'[i].job \in owedRun'
        PROVE  Warned(events[i].job, i - 1)'
    <3>1. PICK m : m = events'[i].job
      OBVIOUS
    <3>2. m = events[i + 1].job /\ m \in owedRun /\ i + 1 \in 1..l /\ i \in 1..l /\ (i + 1) - 1 = i
      BY <1>2, <1>3, <1>6, <2>3, <3>1
    <3>3. Warned(m, i)
      BY <1>2, <1>3, <2>3, <3>2 DEF Overdue
    <3>4. Warned(m, i - 1)'
      BY <2>1, <3>2, <3>3
    <3> QED
      BY <3>1, <3>4
  <2> QED
    BY <1>2, <1>3, <1>4, <2>2, <2>3 DEF Overdue
<1> QED
  BY <1>5, <1>6, EventSettles

LEMMA OverdueStep ==
  TypeOK /\ Distinct /\ OnePlan /\ Performed /\ Awaited /\ Overdue /\ [Next]_vars => Overdue'
<1> SUFFICES ASSUME TypeOK, Distinct, OnePlan, Performed, Awaited, Overdue, [Next]_vars
             PROVE  Overdue'
  OBVIOUS
<1>1. ASSUME UNCHANGED <<events, run, starts>>, owedRun' \subseteq owedRun PROVE Overdue'
  BY <1>1, OverdueRests
<1>2. CASE EndConnection
  BY <1>2 DEF EndConnection, Overdue
<1>3. CASE FromPhone
  <2>1. ASSUME NEW n, NEW id, Admit(n, id) PROVE owedRun' \subseteq owedRun
    BY <2>1 DEF Admit, ErrorReply, Settle
  <2> QED
    BY <1>1, <1>2, <1>3, <2>1 DEF FromPhone, ClientHello, UnexpectedMessage, Unexpected,
       CommandRequest, AudioStart, Refuse, AudioChunk, AudioEnd, CancelRequest, ErrorReply, Settle,
       executor, history
<1>4. ASSUME NEW n \in Jobs, NEW yes \in BOOLEAN, ConfirmExecution(n, yes) PROVE Overdue'
  <2>1. events' = events
    BY <1>4 DEF ConfirmExecution
  <2>2. CASE UNCHANGED <<run, starts, owedRun>>
    BY <1>1, <2>1, <2>2
  <2>3. ASSUME NEW p \in Confirmable(idOf[n]), execution = None, owedRun' = owedRun \cup {p},
               run' = [run EXCEPT ![p] = "capturing"], starts' = [starts EXCEPT ![p] = @ + 1]
        PROVE  Overdue'
    <3>1. p \in Jobs /\ starts[p] = 0
      BY DEF Confirmable, WithId, OnePlan, TypeOK, SlotsType
    <3>2. owedRun' = {p} /\ run'[p] = "capturing"
      BY <2>3, <3>1, NoneType DEF Awaited, TypeOK, HistoryType, ExecutorType
    <3>3. \A m \in Jobs \ {p} : starts'[m] = starts[m]
      BY <2>3, <3>1 DEF TypeOK, HistoryType
    <3>4. \A i \in 1..Len(events) : events[i].job \in Jobs \ {p} /\ starts[events[i].job] # 0
      BY <3>1, EventsType DEF Overdue
    <3> QED
      BY <2>1, <3>2, <3>3, <3>4 DEF Overdue
  <2> QED
    BY <1>4, <2>2, <2>3 DEF ConfirmExecution
<1>5. CASE Answers
  BY <1>1, <1>2, <1>4, <1>5 DEF Answers, DecisionResponse, StaleDecision, Unexpected, ErrorReply,
       Settle, executor, history
<1>6. CASE FromDesktop \/ Close \/ DecisionTimeout
  BY <1>1, <1>2, <1>6 DEF FromDesktop, Pause, DesktopDecide, Close, DecisionTimeout, ErrorReply,
       Settle, executor, history
<1>7. CASE ReceiveEvent
  BY <1>7, ReceiveKeepsOverdue
<1>8. CASE Inference
  BY <1>1, <1>8 DEF Inference, ReceiveResult, Publish, ErrorReply, Settle, AbortLands, TaskFinishes,
       executor, history
<1>9. ASSUME NEW n \in Jobs, Executor(n) PROVE Overdue'
  <2>1. /\ starts' = starts /\ owedRun' = owedRun
        /\ \A m \in Jobs \ {n} : run'[m] = run[m]
        /\ owedRun \subseteq Jobs
    BY <1>9 DEF Executor, SnapshotExpired, StartWorker, WorkerJoined, VerifyOutcome,
       OutcomeVerified, RunTimesOut, LateWorkerJoined, RunAbortLands, history, TypeOK, ExecutorType,
       HistoryType
  <2>2. CASE run[n] # "none"
    <3>1. starts[n] # 0
      BY <2>2 DEF Performed
    <3>2. CASE SnapshotExpired(n) \/ WorkerJoined(n) \/ OutcomeVerified(n)
      <4>1. PICK kind \in EventKind : Emit(n, kind) /\ kind # "FinishedAfterTimeout"
        BY <3>2 DEF SnapshotExpired, WorkerJoined, OutcomeVerified, Verdict, EventKind
      <4>2. run'[n] = "ended"
        BY <3>2 DEF SnapshotExpired, WorkerJoined, OutcomeVerified, TypeOK, ExecutorType
      <4> QED
        BY <2>1, <3>1, <4>1, <4>2, EmitKeepsOverdue
    <3>3. CASE RunTimesOut(n)
      BY <2>1, <3>1, <3>3, EmitKeepsOverdue DEF RunTimesOut, EventKind
    <3>4. CASE LateWorkerJoined(n)
      <4>1. run'[n] = "ended" /\ (n \in owedRun => Warned(n, Len(events)))
        BY <3>4 DEF LateWorkerJoined, Overdue, TypeOK, ExecutorType
      <4> QED
        BY <2>1, <3>1, <3>4, <4>1, EmitKeepsOverdue DEF LateWorkerJoined, EventKind
    <3>5. CASE StartWorker(n) \/ VerifyOutcome(n) \/ RunAbortLands(n)
      <4>1. events' = events /\ run'[n] # "late"
        BY <3>5 DEF StartWorker, VerifyOutcome, RunAbortLands, AfterStep, TypeOK, ExecutorType
      <4> QED
        BY <2>1, <4>1, OverdueRests
    <3> QED
      BY <1>9, <3>2, <3>3, <3>4, <3>5 DEF Executor
  <2>3. CASE run[n] = "none"
    <3>1. events' = events /\ run'[n] = "ended"
      BY <1>9, <2>3 DEF Executor, SnapshotExpired, StartWorker, WorkerJoined, VerifyOutcome,
       OutcomeVerified, RunTimesOut, LateWorkerJoined, RunAbortLands, TypeOK, ExecutorType
    <3> QED
      BY <2>1, <3>1, OverdueRests
  <2> QED
    BY <2>2, <2>3
<1>10. ASSUME NEW n \in Jobs, Worker(n) \/ PlanExpires(n) \/ DeadlinePasses(n) PROVE Overdue'
  BY <1>1, <1>10 DEF Worker, WorkerStep, WorkerLocks, WorkerGivesUp, WorkerStops, WorkerCompletes,
       WorkerPassesCheck, WorkerActs, WorkerActionFails, PlanExpires, DeadlinePasses, executor,
       history
<1>11. CASE UNCHANGED vars
  BY <1>1, <1>11 DEF vars, executor, history
<1> QED
  BY <1>3, <1>5, <1>6, <1>7, <1>8, <1>9, <1>10, <1>11 DEF Next

\* If the phone neither reuses a request id nor mixes an upload with other requests,
\* whatever it still awaits is held by the connection: no accepted request and no
\* confirmed plan is displaced or dropped without a reply.
THEOREM NothingIsForgotten == ~ReuseIds /\ ~MixUploads => (Spec => []NothingForgotten)
<1> SUFFICES ASSUME ~ReuseIds, ~MixUploads PROVE Spec => []NothingForgotten
  OBVIOUS
<1> DEFINE Inv == Performed /\ Alone /\ Awaited /\ Overdue
<1>1. Init => Inv
  <2> SUFFICES ASSUME Init PROVE Inv
    OBVIOUS
  <2>1. Performed
    BY DEF Init, Performed
  <2>2. Alone /\ Awaited
    BY DEF Init, Alone, Awaited
  <2>3. Overdue
    BY DEF Init, Overdue
  <2> QED
    BY <2>1, <2>2, <2>3
<1>2. OrderlyInv /\ Inv /\ [Next]_vars => Inv'
  BY PerformedStep, AloneStep, AwaitedStep, OverdueStep DEF OrderlyInv, PlansInv
<1>3. Inv => NothingForgotten
  BY DEF Awaited, NothingForgotten
<1> QED
  BY <1>1, <1>2, <1>3, OrderlyInvariant, PTL DEF Spec
=============================================================================
