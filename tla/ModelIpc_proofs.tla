--------------------------- MODULE ModelIpc_proofs ---------------------------
(***************************************************************************)
(* The daemon connection, for any number of jobs, control calls and        *)
(* limits: its types, the truth of its answers, the exactness of the       *)
(* admission, and that it implements ModelCalls.                           *)
(***************************************************************************)
EXTENDS ModelIpc, FiniteSetTheorems, TLAPS

-----------------------------------------------------------------------------
(***************************************************************************)
(* Channels.                                                               *)
(***************************************************************************)

Elems(q) == {q[i] : i \in 1..Len(q)}

NoDup(q) == \A i, k \in 1..Len(q) : q[i] = q[k] => i = k

LEMMA EmptyChannel == Elems(<<>>) = {} /\ NoDup(<<>>)
  BY DEF Elems, NoDup

LEMMA AppendElems ==
  ASSUME NEW S, NEW q \in Seq(S), NEW x \in S
  PROVE  /\ Append(q, x) \in Seq(S) /\ Len(Append(q, x)) = Len(q) + 1
         /\ Elems(Append(q, x)) = Elems(q) \cup {x}
         /\ NoDup(q) /\ x \notin Elems(q) => NoDup(Append(q, x))
<1>1. /\ Len(Append(q, x)) = Len(q) + 1 /\ Len(q) \in Nat
      /\ \A i \in 1..Len(q) : Append(q, x)[i] = q[i]
      /\ Append(q, x)[Len(q) + 1] = x
      /\ 1..(Len(q) + 1) = (1..Len(q)) \cup {Len(q) + 1}
  OBVIOUS
<1>2. Elems(Append(q, x)) = Elems(q) \cup {x}
  BY <1>1 DEF Elems
<1>3. NoDup(q) /\ x \notin Elems(q) => NoDup(Append(q, x))
  BY <1>1 DEF Elems, NoDup
<1> QED
  BY <1>1, <1>2, <1>3

LEMMA TailElems ==
  ASSUME NEW S, NEW q \in Seq(S), q # <<>>
  PROVE  /\ Tail(q) \in Seq(S) /\ Len(Tail(q)) = Len(q) - 1 /\ Len(q) > 0
         /\ Head(q) \in Elems(q) /\ Head(q) \in S
         /\ Elems(Tail(q)) \subseteq Elems(q)
         /\ Elems(q) = Elems(Tail(q)) \cup {Head(q)}
         /\ NoDup(q) => NoDup(Tail(q)) /\ Head(q) \notin Elems(Tail(q))
<1>1. /\ Len(q) \in Nat /\ Len(q) > 0 /\ Tail(q) \in Seq(S) /\ Len(Tail(q)) = Len(q) - 1
      /\ Head(q) = q[1] /\ \A i \in 1..Len(q) : q[i] \in S
      /\ \A i \in 1..Len(Tail(q)) : Tail(q)[i] = q[i + 1] /\ i + 1 \in 1..Len(q)
  OBVIOUS
<1>2. \A i \in 1..Len(q) : i = 1 \/ (i - 1 \in 1..Len(Tail(q)) /\ q[i] = Tail(q)[i - 1])
  BY <1>1
<1>3. Elems(Tail(q)) \subseteq Elems(q) /\ Head(q) \in Elems(q) /\ Head(q) \in S
  BY <1>1 DEF Elems
<1>4. Elems(q) = Elems(Tail(q)) \cup {Head(q)}
  <2>1. ASSUME NEW i \in 1..Len(q) PROVE q[i] \in Elems(Tail(q)) \cup {Head(q)}
    <3>1. CASE i = 1
      BY <3>1, <1>1
    <3>2. CASE i - 1 \in 1..Len(Tail(q)) /\ q[i] = Tail(q)[i - 1]
      BY <3>2 DEF Elems
    <3> QED
      BY <1>2, <3>1, <3>2
  <2> QED
    BY <2>1, <1>3 DEF Elems
<1>5. NoDup(q) => NoDup(Tail(q)) /\ Head(q) \notin Elems(Tail(q))
  BY <1>1 DEF Elems, NoDup
<1> QED
  BY <1>1, <1>3, <1>4, <1>5

LEMMA ElemsAre ==
  ASSUME NEW S, NEW q \in Seq(S)
  PROVE  Elems(q) \subseteq S
BY DEF Elems

-----------------------------------------------------------------------------
(***************************************************************************)
(* The invariant.                                                          *)
(***************************************************************************)

Before == {"none", "new", "reserved", "refused"}

\* A frame is in one place of the line, and only after its call was queued.
Line ==
    /\ NoDup(queue) /\ NoDup(toServer)
    /\ \A c \in Elems(queue) : c # writing /\ c \notin Elems(toServer) /\ c \notin ran
    /\ writing \notin Elems(toServer) /\ writing \notin ran
    /\ \A c \in Elems(toServer) : c \notin ran
    /\ \A c \in Elems(queue) \cup Elems(toServer) \cup ran : caller[c] \notin Before
    /\ writing # NoCall => caller[writing] \notin Before

\* A job is cancelled only after its caller has gone, and a reply says what happened.
Cancels ==
    /\ \A c \in JobCall : caller[CancelOf(c)] # "none" => caller[c] = "gone"
    /\ \A c \in cancelled : caller[c] = "gone"

Served(c) == c \in ran /\ c \notin admitted

\* A job the server has refused; it does not run later.
Refused(c) ==
    /\ ~LimitsFit
    /\ c \notin Elems(queue) /\ c # writing /\ c \notin Elems(toServer) /\ c \notin ran
    /\ caller[c] \notin Before

Truthful(r) ==
    r.call \in JobCall =>
        \/ r.what = "done" /\ Served(r.call)
        \/ r.what = "cancelled" /\ Served(r.call) /\ caller[r.call] = "gone"
        \/ r.what = "refused" /\ Refused(r.call)

Answered(c) ==
    /\ caller[c] = "told" => \/ answer[c] = "done" /\ c \in ran
                             \/ answer[c] = "refused" /\ Refused(c)
    /\ caller[c] = "answered" => answer[c] = "done" /\ c \in ran
    /\ caller[c] = "rejected" => answer[c] = "refused" /\ Refused(c)

Replies ==
    /\ \A r \in Elems(replies) \cup Elems(toClient) : Truthful(r)
    /\ \A c \in JobCall : Answered(c)

Admission ==
    /\ running = admitted /\ cancelled \subseteq admitted /\ admitted \subseteq ran
    /\ IsFiniteSet(admitted) /\ bytes = Cardinality(admitted)

\* The jobs that are on their way to the server or admitted by it hold permits
\* while the connection lives, and are no more than these when it does not.
Outstanding == {c \in JobCall : c = writing \/ c \in Elems(toServer) \/ c \in admitted}

Slots ==
    /\ alive => Outstanding \subseteq pending
    /\ Cardinality(Outstanding) <= JobSlots
    /\ Cardinality(SlotHolders) <= JobSlots

\* A cancellation follows its job, unless the job is never written: the writer
\* only takes a job that is waited for, and then it is not cancelled.
Order ==
    /\ \A c \in JobCall : \A i, k \in 1..Len(toServer) :
          toServer[i] = c /\ toServer[k] = CancelOf(c) => i < k
    /\ \A c \in JobCall : CancelOf(c) \in Elems(toServer) => c # writing
    /\ \A c \in stopped : c # writing /\ c \notin Elems(toServer) /\ caller[c] = "gone"

Inv == TypeOK /\ Line /\ Cancels /\ Order /\ Replies /\ Admission /\ Slots

LEMMA JobsAreFinite ==
  ASSUME NEW S \in SUBSET JobCall
  PROVE  IsFiniteSet(S) /\ Cardinality(S) \in Nat
<1>1. IsFiniteSet(S)
  BY CallAssumption, FS_Subset DEF Call
<1> QED
  BY <1>1, FS_CardinalityType

\* Kinds of calls are disjoint, and a job is known from its cancellation.
LEMMA Kinds ==
  /\ JobCall \subseteq Call /\ CancelCall \subseteq Call /\ ControlCall \subseteq Call
  /\ \A c \in JobCall : c \notin CancelCall /\ c \notin ControlCall /\ CancelOf(c) \in CancelCall
  /\ \A c \in CancelCall : c \notin ControlCall
  /\ \A c, d \in JobCall : CancelOf(c) = CancelOf(d) => c = d
<1>1. \A c, d \in JobCall : CancelOf(c) = CancelOf(d) => c = d
  <2> SUFFICES ASSUME NEW c \in JobCall, NEW d \in JobCall, CancelOf(c) = CancelOf(d) PROVE c = d
    OBVIOUS
  <2>1. c.of = d.of
    BY DEF CancelOf
  <2>2. c = [kind |-> "job", of |-> c.of] /\ d = [kind |-> "job", of |-> d.of]
    BY DEF JobCall
  <2> QED
    BY <2>1, <2>2
<1> QED
  BY <1>1 DEF Call, JobCall, CancelCall, ControlCall, CancelOf

USE IpcAssumption, CallAssumption

LEMMA InitInv == Init => Inv
<1> SUFFICES ASSUME Init PROVE Inv
  OBVIOUS
<1>1. TypeOK
  BY DEF Init, TypeOK
<1>2. Line
  BY EmptyChannel DEF Init, Line
<1>3. Cancels /\ Replies
  BY EmptyChannel, Kinds DEF Init, Cancels, Replies, Answered
<1>4. Admission
  BY FS_EmptySet DEF Init, Admission
<1>5. Slots
  <2>1. Outstanding = {} /\ SlotHolders = {}
    BY EmptyChannel, Kinds DEF Init, Outstanding, SlotHolders, Call
  <2> QED
    BY <2>1, FS_EmptySet DEF Slots
<1>6. Order
  BY EmptyChannel DEF Init, Order
<1> QED
  BY <1>1, <1>2, <1>3, <1>4, <1>5, <1>6 DEF Inv

-----------------------------------------------------------------------------
(***************************************************************************)
(* The types.                                                              *)
(***************************************************************************)

LEMMA CallerTypes ==
  ASSUME TypeOK, NEW c \in Call, CallStep(c) \/ Abandon(c) \/ Cleanup(c)
  PROVE  TypeOK'
<1> USE DEF TypeOK
<1>1. CASE Reserve(c)
  BY <1>1 DEF Reserve, Set, connection, server
<1>2. CASE Refuse(c)
  BY <1>2 DEF Refuse, Set, connection, server
<1>3. CASE Enqueue(c)
  <2>1. Append(queue, c) \in Seq(Call) /\ Len(Append(queue, c)) = Len(queue) + 1
    BY AppendElems
  <2>2. queue' \in Seq(Call) /\ Len(queue') <= MaxPending
    BY <1>3, <2>1 DEF Enqueue
  <2> QED
    BY <1>3, <2>2 DEF Enqueue, Set, server
<1>4. CASE RefuseLate(c)
  BY <1>4 DEF RefuseLate, Set, connection, server
<1>5. CASE TakeAnswer(c)
  BY <1>5 DEF TakeAnswer, Returned, Set, connection, server
<1>6. CASE Abandon(c)
  BY <1>6 DEF Abandon, Set, connection, server
<1>7. CASE Cleanup(c)
  BY <1>7 DEF Cleanup, server
<1> QED
  BY <1>1, <1>2, <1>3, <1>4, <1>5, <1>6, <1>7 DEF CallStep

LEMMA ConnectionTypes ==
  ASSUME TypeOK, Terminate \/ Transport \/ WriterFails \/ ReaderFails
  PROVE  TypeOK'
<1> USE DEF TypeOK
<1>1. CASE Terminate
  BY <1>1 DEF Terminate, Drain, server
<1>2. CASE WriterTakes
  <2>1. Head(queue) \in Call /\ Tail(queue) \in Seq(Call) /\ Len(Tail(queue)) <= MaxPending
    BY <1>2, TailElems DEF WriterTakes
  <2>2. queue' = Tail(queue) /\ writing' \in Call \cup {NoCall} /\ pending' \in SUBSET Call
    BY <1>2, <2>1 DEF WriterTakes
  <2> QED
    BY <1>2, <2>1, <2>2 DEF WriterTakes, callers, server
<1>3. CASE WriterSeesEnd \/ WriterFails
  <2>1. WriterEnds
    BY <1>3 DEF WriterSeesEnd, WriterFails
  <2>2. <<>> \in Seq(Call) /\ Len(<<>>) = 0
    OBVIOUS
  <2>3. queue' \in Seq(Call) /\ Len(queue') <= MaxPending
    BY <2>1, <2>2 DEF WriterEnds
  <2> QED
    BY <2>1, <2>3 DEF WriterEnds, Drain, server
<1>4. CASE WriterWrites
  <2>1. toServer' \in Seq(Call)
    BY <1>4, AppendElems DEF WriterWrites
  <2> QED
    BY <1>4, <2>1 DEF WriterWrites, callers, server
<1>5. CASE ReaderReceives
  <2>1. Head(toClient) \in Reply /\ Tail(toClient) \in Seq(Reply)
    BY <1>5, TailElems DEF ReaderReceives
  <2>2. answer' \in [Call -> {"none", "done", "cancelled", "refused"}]
    BY <1>5, <2>1 DEF ReaderReceives, callers, Reply
  <2>3. caller' \in [Call -> {"none", "new", "reserved", "waiting", "told", "dropped",
                              "answered", "rejected", "failed", "refused", "gone"}]
    BY <1>5, <2>1 DEF ReaderReceives, callers
  <2> QED
    BY <1>5, <2>1, <2>2, <2>3 DEF ReaderReceives, server
<1>6. CASE ReaderFails
  BY <1>6 DEF ReaderFails, Drain, server
<1> QED
  BY <1>1, <1>2, <1>3, <1>4, <1>5, <1>6 DEF Transport

LEMMA ServerTypes ==
  ASSUME TypeOK, Admission, Serve \/ ServerEnds
  PROVE  TypeOK'
<1> USE DEF TypeOK
<1>0. ASSUME toServer # <<>> PROVE Tail(toServer) \in Seq(Call)
  BY <1>0, TailElems
<1>1. ASSUME NEW c \in Call, NEW w \in {"done", "cancelled", "refused"}, SendReply(c, w)
      PROVE  replies' \in Seq(Reply) /\ Len(replies') <= ReplyCap
  <2>1. [call |-> c, what |-> w] \in Reply
    BY DEF Reply
  <2>2. Len(replies) \in Nat /\ Len(Append(replies, [call |-> c, what |-> w])) = Len(replies) + 1
    BY <2>1, AppendElems
  <2> QED
    BY <1>1, <2>1, <2>2, AppendElems DEF SendReply, ReplyFits
<1>2. ASSUME NEW c \in JobCall, AdmitJob(c) PROVE TypeOK'
  BY <1>0, <1>2 DEF AdmitJob, Receive, callers, connection
<1>3. ASSUME NEW c \in JobCall, RefuseJob(c) PROVE TypeOK'
  <2>1. replies' \in Seq(Reply) /\ Len(replies') <= ReplyCap
    BY <1>1, <1>3, Kinds DEF RefuseJob
  <2> QED
    BY <1>0, <1>3, <2>1 DEF RefuseJob, Receive, callers, connection
<1>4. ASSUME NEW c \in JobCall, CancelJob(c) PROVE TypeOK'
  <2>1. CancelOf(c) \in Call
    BY Kinds
  <2>2. replies' \in Seq(Reply) /\ Len(replies') <= ReplyCap
    BY <1>1, <1>4, <2>1 DEF CancelJob
  <2> QED
    BY <1>0, <1>4, <2>2 DEF CancelJob, Receive, callers, connection, AdmittedAfterCancel
<1>5. ASSUME NEW c \in JobCall, JobEnds(c) PROVE TypeOK'
  <2>1. replies' \in Seq(Reply) /\ Len(replies') <= ReplyCap
    BY <1>1, <1>5, Kinds DEF JobEnds
  <2>2. bytes' \in Nat
    <3>1. c \in admitted => bytes >= 1
      BY FS_EmptySet DEF Admission
    <3> QED
      BY <1>5, <3>1 DEF JobEnds
  <2> QED
    BY <1>5, <2>1, <2>2 DEF JobEnds, callers, connection
<1>6. ASSUME NEW c \in ControlCall, ServeControl(c) PROVE TypeOK'
  <2>1. replies' \in Seq(Reply) /\ Len(replies') <= ReplyCap
    BY <1>1, <1>6, Kinds DEF ServeControl
  <2> QED
    BY <1>0, <1>6, <2>1 DEF ServeControl, Receive, callers, connection
<1>7. CASE ServerWrites
  <2>1. /\ Head(replies) \in Reply /\ Tail(replies) \in Seq(Reply)
        /\ Len(Tail(replies)) <= ReplyCap
    BY <1>7, TailElems DEF ServerWrites
  <2>2. toClient' \in Seq(Reply)
    BY <1>7, <2>1, AppendElems DEF ServerWrites
  <2> QED
    BY <1>7, <2>1, <2>2 DEF ServerWrites, callers, connection
<1>8. CASE ServerEnds
  <2>1. toServer' \in Seq(Call)
    BY <1>8 DEF ServerEnds
  <2>2. admitted' = {} /\ cancelled' = {} /\ running' = {} /\ bytes' = 0
    BY <1>8 DEF ServerEnds
  <2>3. serving' \in BOOLEAN
    BY <1>8, Zenon DEF ServerEnds
  <2> QED
    BY <1>8, <2>1, <2>2, <2>3 DEF ServerEnds, callers, connection
<1> QED
  BY <1>2, <1>3, <1>4, <1>5, <1>6, <1>7, <1>8 DEF Serve

LEMMA TypesStep ==
  ASSUME TypeOK, Admission, [Next]_vars
  PROVE  TypeOK'
<1>1. CASE UNCHANGED vars
  BY <1>1 DEF TypeOK, vars, callers, connection, server
<1> QED
  BY <1>1, CallerTypes, ConnectionTypes, ServerTypes DEF Next

-----------------------------------------------------------------------------
(***************************************************************************)
(* The callers.                                                            *)
(***************************************************************************)

\* How a call's place changes in a step.
Move(d) ==
    \/ caller'[d] = caller[d]
    \/ caller[d] = "new" /\ caller'[d] \in {"reserved", "refused"}
    \/ caller[d] = "reserved" /\ caller'[d] \in {"waiting", "refused", "gone"}
    \/ caller[d] = "waiting" /\ caller'[d] \in {"told", "dropped", "failed"}
    \/ caller[d] = "told" /\ caller'[d] \in {"answered", "rejected", "dropped"}
    \/ caller[d] = "dropped" /\ caller'[d] = "gone"
    \/ d \in CancelCall /\ caller[d] = "none" /\ caller'[d] = "new"

Moves ==
    /\ \A d \in Call : Move(d)
    /\ \A c \in JobCall :
          caller'[CancelOf(c)] # "none" => caller[CancelOf(c)] # "none" \/ caller'[c] = "gone"

LEMMA CallerMoves ==
  ASSUME TypeOK, Cancels, [Next]_vars
  PROVE  Moves
<1> USE DEF Moves, Move
<1>0. ASSUME UNCHANGED caller PROVE Moves
  BY <1>0, Kinds
<1>1. ASSUME NEW c \in Call, CallStep(c) \/ Abandon(c) PROVE Moves
  BY <1>1, Kinds DEF CallStep, Reserve, Refuse, Enqueue, RefuseLate, TakeAnswer, Returned, Abandon,
     Set, TypeOK
<1>2. ASSUME NEW c \in Call, Cleanup(c) PROVE Moves
  <2>1. CASE c \in JobCall
    <3>1. caller[CancelOf(c)] = "none" /\ CancelOf(c) \in CancelCall /\ CancelOf(c) # c
      BY <1>2, <2>1, Kinds DEF Cleanup, Cancels
    <3>2. caller[c] = "dropped" /\ caller'[c] = "gone" /\ caller'[CancelOf(c)] \in {"none", "new"}
      BY <1>2, <2>1, <3>1, Kinds DEF Cleanup, TypeOK
    <3>3. \A d \in Call : d # c /\ d # CancelOf(c) => caller'[d] = caller[d]
      BY <1>2, <2>1 DEF Cleanup, TypeOK
    <3>4. \A d \in Call : Move(d)
      BY <3>1, <3>2, <3>3
    <3>5. \A d \in JobCall : d = c \/ caller'[CancelOf(d)] = caller[CancelOf(d)]
      <4> SUFFICES ASSUME NEW d \in JobCall, d # c
                   PROVE  caller'[CancelOf(d)] = caller[CancelOf(d)]
        OBVIOUS
      <4>1. CancelOf(d) \in Call /\ CancelOf(d) # c /\ CancelOf(d) # CancelOf(c)
        BY <2>1, Kinds
      <4> QED
        BY <3>3, <4>1
    <3> QED
      BY <3>2, <3>4, <3>5
  <2>2. CASE c \notin JobCall
    BY <1>2, <2>2, Kinds DEF Cleanup, TypeOK
  <2> QED
    BY <2>1, <2>2
<1>3. ASSUME Drain PROVE Moves
  BY <1>3, Kinds DEF Drain
<1>4. CASE ReaderReceives
  BY <1>4, Kinds DEF ReaderReceives, Wanted, callers, TypeOK
<1>5. CASE Transport
  <2>1. CASE WriterTakes \/ WriterWrites
    BY <1>0, <2>1 DEF WriterTakes, WriterWrites, callers
  <2> QED
    BY <1>3, <1>4, <1>5, <2>1 DEF Transport, WriterSeesEnd, WriterEnds
<1>6. CASE Serve \/ ServerEnds
  BY <1>0, <1>6 DEF Serve, AdmitJob, RefuseJob, CancelJob, JobEnds, ServeControl, ServerWrites,
                    ServerEnds, callers
<1>7. CASE Terminate \/ WriterFails \/ ReaderFails
  BY <1>3, <1>7 DEF Terminate, WriterFails, WriterEnds, ReaderFails
<1>8. CASE UNCHANGED vars
  BY <1>0, <1>8 DEF vars, callers
<1> QED
  BY <1>1, <1>2, <1>5, <1>6, <1>7, <1>8 DEF Next

\* What Moves keeps.
LEMMA Forward ==
  ASSUME Moves
  PROVE  /\ \A c \in Call : caller[c] \notin Before => caller'[c] \notin Before
         /\ \A c \in Call : caller[c] = "gone" => caller'[c] = "gone"
         /\ \A c \in Call : caller'[c] \in {"reserved", "waiting", "told", "answered"} =>
                caller[c] \in {"new", "reserved", "waiting", "told", "answered"}
BY DEF Moves, Move, Before

\* A cancellation that has been queued is one of a job whose caller has gone.
LEMMA CancelledAreGone ==
  ASSUME TypeOK, Line, Cancels, NEW c \in JobCall,
         CancelOf(c) \in Elems(toServer) \/ writing = CancelOf(c)
  PROVE  caller[c] = "gone"
<1>1. CancelOf(c) \in Call
  BY Kinds
<1>2. CancelOf(c) # NoCall
  BY <1>1
<1>3. caller[CancelOf(c)] \notin Before
  BY <1>1, <1>2 DEF Line
<1> QED
  BY <1>3 DEF Cancels, Before

LEMMA CancelsStep ==
  ASSUME Inv, [Next]_vars
  PROVE  Cancels'
<1>0. TypeOK /\ Line /\ Cancels /\ Moves
  BY CallerMoves DEF Inv
<1>1. \A c \in JobCall : caller'[CancelOf(c)] # "none" => caller'[c] = "gone"
  BY <1>0, Forward, Kinds DEF Moves, Cancels
<1>2. \A c \in cancelled' : c \in cancelled \/ (c \in JobCall /\ caller[c] = "gone")
  <2>1. ASSUME NEW c \in JobCall, CancelJob(c) PROVE caller[c] = "gone"
    <3>1. CancelOf(c) \in Elems(toServer)
      BY <1>0, <2>1, TailElems DEF CancelJob, Receive, TypeOK
    <3> QED
      BY <1>0, <3>1, CancelledAreGone
  <2>2. ASSUME NEW c \in JobCall, CancelJob(c)
        PROVE  \A d \in cancelled' : d \in cancelled \/ (d \in JobCall /\ caller[d] = "gone")
    BY <2>1, <2>2 DEF CancelJob
  <2>3. CASE UNCHANGED cancelled
    BY <2>3
  <2>4. CASE Serve
    BY <2>2, <2>3, <2>4 DEF Serve, AdmitJob, RefuseJob, JobEnds, ServeControl, ServerWrites
  <2>5. CASE ServerEnds
    BY <2>5 DEF ServerEnds
  <2>6. CASE [\/ \E c \in Call : CallStep(c) \/ Abandon(c) \/ Cleanup(c)
              \/ Terminate \/ Transport \/ WriterFails \/ ReaderFails]_vars
    BY <2>3, <2>6 DEF CallStep, Reserve, Refuse, Enqueue, RefuseLate, TakeAnswer, Abandon, Cleanup,
         Terminate, Transport, WriterTakes, WriterSeesEnd, WriterWrites, ReaderReceives, WriterFails,
         WriterEnds, ReaderFails, vars, server
  <2> QED
    BY <2>4, <2>5, <2>6 DEF Next
<1> QED
  BY <1>0, <1>1, <1>2, Forward, Kinds DEF Cancels, Inv, TypeOK

-----------------------------------------------------------------------------
(***************************************************************************)
(* The line from the client to the server.                                 *)
(***************************************************************************)

\* The steps that move no frame towards the server.
LEMMA LineStays ==
  ASSUME [Next]_vars
  PROVE  \/ UNCHANGED <<queue, writing, toServer, ran, stopped>>
         \/ \E c \in Call : Enqueue(c)
         \/ WriterTakes \/ WriterWrites \/ WriterEnds \/ ServerEnds
         \/ \E c \in JobCall : AdmitJob(c) \/ RefuseJob(c) \/ CancelJob(c)
         \/ \E c \in ControlCall : ServeControl(c)
BY DEF Next, CallStep, Reserve, Refuse, RefuseLate, TakeAnswer, Abandon, Cleanup, Terminate,
       Transport, WriterSeesEnd, ReaderReceives, WriterFails, ReaderFails, Serve, JobEnds,
       ServerWrites, vars, connection, server

LEMMA LineStep ==
  ASSUME Inv, [Next]_vars
  PROVE  Line'
<1>0. TypeOK /\ Line /\ Moves
  BY CallerMoves DEF Inv
<1>1. /\ Elems(queue) \subseteq Call /\ Elems(toServer) \subseteq Call /\ ran \subseteq Call
      /\ NoCall \notin Elems(queue) /\ NoCall \notin Elems(toServer) /\ NoCall \notin ran
      /\ \A c \in Call : caller[c] \notin Before => caller'[c] \notin Before
  BY <1>0, ElemsAre, Kinds, Forward DEF TypeOK
<1>2. CASE UNCHANGED <<queue, writing, toServer, ran, stopped>>
  BY <1>0, <1>1, <1>2 DEF Line, TypeOK
<1>3. ASSUME NEW c \in Call, Enqueue(c) PROVE Line'
  <2>1. caller[c] \in Before /\ caller'[c] \notin Before /\ c # NoCall
    BY <1>0, <1>3 DEF Enqueue, Set, Before, TypeOK
  <2>2. c \notin Elems(queue) /\ c # writing /\ c \notin Elems(toServer) /\ c \notin ran
    BY <1>0, <2>1 DEF Line
  <2>3. NoDup(queue') /\ Elems(queue') = Elems(queue) \cup {c}
    BY <1>0, <1>3, <2>2, AppendElems DEF Enqueue, Line, TypeOK
  <2> QED
    BY <1>0, <1>1, <1>3, <2>1, <2>2, <2>3 DEF Line, Enqueue, server, TypeOK
<1>4. CASE WriterTakes
  <2>1. /\ NoDup(Tail(queue)) /\ Head(queue) \notin Elems(Tail(queue))
        /\ Elems(queue) = Elems(Tail(queue)) \cup {Head(queue)}
    BY <1>0, <1>4, TailElems DEF WriterTakes, Line, TypeOK
  <2>2. writing' \in {NoCall, Head(queue)} /\ queue' = Tail(queue)
    BY <1>4 DEF WriterTakes
  <2>3. UNCHANGED <<caller, toServer, ran>>
    BY <1>4 DEF WriterTakes, callers, server
  <2> QED
    BY <1>0, <1>1, <2>1, <2>2, <2>3 DEF Line
<1>5. CASE WriterWrites
  <2>1. writing' = NoCall /\ writing \in Call /\ UNCHANGED <<caller, queue, ran>>
    BY <1>0, <1>5 DEF WriterWrites, callers, server, TypeOK
  <2>2. NoDup(toServer') /\ Elems(toServer') \subseteq Elems(toServer) \cup {writing}
    BY <1>0, <1>5, <2>1, AppendElems DEF WriterWrites, Line, TypeOK
  <2> QED
    BY <1>0, <1>1, <1>5, <2>1, <2>2 DEF Line, WriterWrites
<1>6. CASE WriterEnds
  BY <1>0, <1>1, <1>6, EmptyChannel DEF WriterEnds, Line, server
<1>7. CASE ServerEnds
  BY <1>0, <1>1, <1>7, EmptyChannel DEF ServerEnds, Line, callers, connection
<1>8. ASSUME NEW c \in Call, Receive(c),
             UNCHANGED <<caller, queue, writing>>, ran' \subseteq ran \cup {c}
      PROVE  Line'
  <2>1. /\ NoDup(toServer') /\ c \notin Elems(toServer')
        /\ Elems(toServer) = Elems(toServer') \cup {c}
    BY <1>0, <1>8, TailElems DEF Receive, Line, TypeOK
  <2> QED
    BY <1>0, <1>1, <1>8, <2>1 DEF Line
<1>9. ASSUME NEW c \in JobCall, AdmitJob(c) \/ RefuseJob(c) \/ CancelJob(c) PROVE Line'
  BY <1>8, <1>9, Kinds DEF AdmitJob, RefuseJob, CancelJob, callers, connection
<1>10. ASSUME NEW c \in ControlCall, ServeControl(c) PROVE Line'
  BY <1>8, <1>10, Kinds DEF ServeControl, callers, connection
<1> QED
  BY LineStays, <1>2, <1>3, <1>4, <1>5, <1>6, <1>7, <1>9, <1>10

LEMMA OrderStep ==
  ASSUME Inv, [Next]_vars
  PROVE  Order'
<1>0. TypeOK /\ Line /\ Cancels /\ Order /\ Moves
  BY CallerMoves DEF Inv
<1>1. /\ Elems(toServer) \subseteq Call /\ stopped \subseteq JobCall /\ JobCall \subseteq Call
      /\ \A c \in Call : caller[c] = "gone" => caller'[c] = "gone"
      /\ NoCall \notin Call
  BY <1>0, ElemsAre, Kinds, Forward DEF TypeOK
<1>2. CASE UNCHANGED <<toServer, stopped>> /\ writing' \in {writing, NoCall}
  BY <1>0, <1>1, <1>2 DEF Order
<1>3. CASE WriterTakes
  <2>1. CASE writing' \in {writing, NoCall}
    BY <1>2, <1>3, <2>1 DEF WriterTakes, server
  <2>2. CASE Wanted(Head(queue)) /\ writing' = Head(queue)
    <3>1. caller[writing'] = "waiting"
      BY <2>2 DEF Wanted
    <3>2. \A c \in JobCall : CancelOf(c) \in Elems(toServer) => c # writing'
      BY <1>0, <3>1, CancelledAreGone
    <3> QED
      BY <1>0, <1>1, <1>3, <3>1, <3>2 DEF Order, WriterTakes, callers, server
  <2> QED
    BY <1>3, <2>1, <2>2 DEF WriterTakes
<1>4. CASE WriterWrites
  <2>1. CASE toServer' = toServer
    BY <1>2, <1>4, <2>1 DEF WriterWrites, server
  <2>2. CASE toServer' = Append(toServer, writing)
    <3>1. writing' = NoCall /\ writing \in Call /\ UNCHANGED <<caller, stopped>>
      BY <1>0, <1>4 DEF WriterWrites, callers, server, TypeOK
    <3>2. /\ Len(toServer') = Len(toServer) + 1 /\ Len(toServer) \in Nat
          /\ \A i \in 1..Len(toServer) : toServer'[i] = toServer[i]
          /\ toServer'[Len(toServer) + 1] = writing
      BY <1>0, <2>2, <3>1 DEF TypeOK
    <3>3. ASSUME NEW c \in JobCall, NEW i \in 1..Len(toServer'), NEW k \in 1..Len(toServer'),
                 toServer'[i] = c, toServer'[k] = CancelOf(c)
          PROVE  i < k
      <4>1. c # CancelOf(c)
        BY Kinds
      <4>2. CASE i = Len(toServer) + 1
        <5>1. c = writing /\ k \in 1..Len(toServer)
          BY <3>2, <3>3, <4>1, <4>2
        <5>2. CancelOf(c) \in Elems(toServer)
          BY <3>2, <3>3, <5>1 DEF Elems
        <5> QED
          BY <1>0, <5>1, <5>2 DEF Order
      <4>3. CASE i # Len(toServer) + 1 /\ k = Len(toServer) + 1
        BY <3>2, <3>3, <4>3
      <4>4. CASE i # Len(toServer) + 1 /\ k # Len(toServer) + 1
        <5>1. i \in 1..Len(toServer) /\ k \in 1..Len(toServer)
          BY <3>2, <3>3, <4>4
        <5> QED
          BY <1>0, <3>2, <3>3, <5>1 DEF Order
      <4> QED
        BY <4>2, <4>3, <4>4
    <3>4. \A c \in stopped : c \notin Elems(toServer')
      BY <1>0, <2>2, <3>1, AppendElems DEF Order, TypeOK
    <3> QED
      BY <1>0, <1>1, <3>1, <3>3, <3>4 DEF Order
  <2> QED
    BY <1>4, <2>1, <2>2 DEF WriterWrites
<1>5. CASE ServerEnds
  BY <1>0, <1>1, <1>5, EmptyChannel DEF ServerEnds, Order, callers, connection
<1>6. ASSUME NEW c \in Call, Receive(c), UNCHANGED <<caller, writing>>,
             \A d \in stopped' : d \in stopped \/ (d \in JobCall /\ c = CancelOf(d))
      PROVE  Order'
  <2>1. /\ Len(toServer) \in Nat /\ Len(toServer') = Len(toServer) - 1 /\ toServer[1] = c
        /\ Len(toServer) > 0
        /\ \A i \in 1..Len(toServer') : toServer'[i] = toServer[i + 1] /\ i + 1 \in 1..Len(toServer)
    BY <1>0, <1>6 DEF Receive, TypeOK
  <2>2. Elems(toServer') \subseteq Elems(toServer) /\ c \in Elems(toServer)
    BY <1>0, <1>6, TailElems DEF Receive, TypeOK
  <2>3. ASSUME NEW d \in JobCall, c = CancelOf(d)
        PROVE  d # writing /\ d \notin Elems(toServer') /\ caller[d] = "gone"
    <3>1. ASSUME NEW i \in 1..Len(toServer'), toServer'[i] = d PROVE FALSE
      <4>1. i + 1 \in 1..Len(toServer) /\ 1 \in 1..Len(toServer) /\ ~(i + 1 < 1)
        BY <2>1
      <4> QED
        BY <1>0, <2>1, <2>3, <3>1, <4>1 DEF Order
    <3> QED
      BY <1>0, <2>2, <2>3, <3>1, CancelledAreGone DEF Order, Elems
  <2>4. ASSUME NEW d \in JobCall, NEW i \in 1..Len(toServer'), NEW k \in 1..Len(toServer'),
               toServer'[i] = d, toServer'[k] = CancelOf(d)
        PROVE  i < k
    <3>1. i + 1 < k + 1
      BY <1>0, <2>1, <2>4 DEF Order
    <3> QED
      BY <3>1, <2>1
  <2> QED
    BY <1>0, <1>1, <1>6, <2>2, <2>3, <2>4 DEF Order
<1>7. ASSUME NEW c \in JobCall, AdmitJob(c) \/ RefuseJob(c) PROVE Order'
  BY <1>6, <1>7, Kinds DEF AdmitJob, RefuseJob, callers, connection
<1>8. ASSUME NEW c \in JobCall, CancelJob(c) PROVE Order'
  <2>1. CancelOf(c) \in Call
    BY Kinds
  <2> QED
    BY <1>6, <1>8, <2>1 DEF CancelJob, callers, connection
<1>9. ASSUME NEW c \in ControlCall, ServeControl(c) PROVE Order'
  BY <1>6, <1>9, Kinds DEF ServeControl, callers, connection
<1>10. ASSUME NEW c \in Call, Enqueue(c) PROVE Order'
  BY <1>2, <1>10 DEF Enqueue, server
<1>11. CASE WriterEnds
  BY <1>2, <1>11 DEF WriterEnds, server
<1> QED
  BY LineStays, <1>2, <1>3, <1>4, <1>5, <1>7, <1>8, <1>9, <1>10, <1>11

-----------------------------------------------------------------------------
(***************************************************************************)
(* The server's admission.                                                 *)
(***************************************************************************)

LEMMA AdmissionStep ==
  ASSUME Inv, [Next]_vars
  PROVE  Admission'
<1>0. TypeOK /\ Admission
  BY DEF Inv
<1>1. CASE UNCHANGED <<admitted, cancelled, bytes, running, ran>>
  BY <1>0, <1>1 DEF Admission
<1>2. ASSUME NEW c \in JobCall, AdmitJob(c) PROVE Admission'
  <2>1. c \notin admitted
    BY <1>2 DEF AdmitJob, Admissible
  <2>2. IsFiniteSet(admitted \cup {c}) /\ Cardinality(admitted \cup {c}) = Cardinality(admitted) + 1
    BY <1>0, <2>1, FS_AddElement DEF Admission
  <2> QED
    BY <1>0, <1>2, <2>2 DEF Admission, AdmitJob
<1>3. ASSUME NEW c \in JobCall, CancelJob(c) PROVE Admission'
  BY <1>0, <1>3 DEF Admission, CancelJob, AdmittedAfterCancel
<1>4. ASSUME NEW c \in JobCall, JobEnds(c) PROVE Admission'
  <2>1. c \in admitted
    BY <1>0, <1>4 DEF Admission, JobEnds
  <2>2. IsFiniteSet(admitted \ {c}) /\ Cardinality(admitted \ {c}) = Cardinality(admitted) - 1
    BY <1>0, <2>1, FS_RemoveElement DEF Admission
  <2>3. /\ admitted' = admitted \ {c} /\ bytes' = bytes - 1
        /\ running' = running \ {c} /\ cancelled' = cancelled \ {c} /\ UNCHANGED ran
    BY <1>4, <2>1 DEF JobEnds
  <2> QED
    BY <1>0, <2>2, <2>3 DEF Admission
<1>5. CASE ServerEnds
  <2>1. admitted' = {} /\ cancelled' = {} /\ running' = {} /\ bytes' = 0 /\ UNCHANGED ran
    BY <1>5 DEF ServerEnds
  <2> QED
    BY <2>1, FS_EmptySet DEF Admission
<1>6. CASE [\/ \E c \in Call : CallStep(c) \/ Abandon(c) \/ Cleanup(c)
            \/ Terminate \/ Transport \/ WriterFails \/ ReaderFails]_vars
  BY <1>1, <1>6 DEF CallStep, Reserve, Refuse, Enqueue, RefuseLate, TakeAnswer, Abandon, Cleanup,
       Terminate, Transport, WriterTakes, WriterSeesEnd, WriterWrites, ReaderReceives, WriterFails,
       WriterEnds, ReaderFails, vars, server
<1>7. CASE Serve
  BY <1>1, <1>2, <1>3, <1>4, <1>7 DEF Serve, RefuseJob, ServeControl, ServerWrites
<1> QED
  BY <1>5, <1>6, <1>7 DEF Next

\* A server with the limits of the client has room for every job that reaches it.
LEMMA NeverRefused ==
  ASSUME Inv, LimitsFit, NEW c \in JobCall
  PROVE  ~RefuseJob(c)
<1> SUFFICES ASSUME RefuseJob(c) PROVE FALSE
  OBVIOUS
<1>1. c \in Elems(toServer) /\ c \in Outstanding
  BY TailElems DEF RefuseJob, Receive, Outstanding, Inv, TypeOK
<1>2. c \notin admitted /\ admitted \subseteq Outstanding \ {c}
  BY <1>1 DEF Inv, Line, Admission, Outstanding, TypeOK
<1>3. IsFiniteSet(Outstanding) /\ Cardinality(Outstanding) \in Nat
  BY JobsAreFinite DEF Outstanding
<1>4. /\ IsFiniteSet(Outstanding \ {c})
      /\ Cardinality(Outstanding \ {c}) = Cardinality(Outstanding) - 1
  BY <1>1, <1>3, FS_RemoveElement
<1>5. Cardinality(admitted) <= Cardinality(Outstanding \ {c}) /\ Cardinality(admitted) \in Nat
  BY <1>2, <1>4, JobsAreFinite, FS_Subset DEF Inv, TypeOK
<1>6. Cardinality(admitted) < JobSlots /\ bytes = Cardinality(admitted)
  BY <1>3, <1>4, <1>5 DEF Inv, Slots, Admission
<1>7. Admissible(c)
  BY <1>2, <1>5, <1>6 DEF Admissible, LimitsFit
<1> QED
  BY <1>7 DEF RefuseJob

-----------------------------------------------------------------------------
(***************************************************************************)
(* The replies.                                                            *)
(***************************************************************************)

LEMMA RefusedStays ==
  ASSUME Inv, [Next]_vars, NEW c \in JobCall, Refused(c)
  PROVE  Refused(c)'
<1>0. TypeOK /\ TypeOK' /\ c \in Call /\ c # NoCall /\ caller'[c] \notin Before
  BY TypesStep, CallerMoves, Forward, Kinds DEF Inv, Refused
<1> USE DEF Refused
<1>1. CASE UNCHANGED <<queue, writing, toServer, ran, stopped>>
  BY <1>0, <1>1
<1>2. ASSUME NEW d \in Call, Enqueue(d) PROVE Refused(c)'
  <2>1. d # c
    BY <1>2 DEF Enqueue, Before
  <2>2. Elems(queue') = Elems(queue) \cup {d}
    BY <1>0, <1>2, AppendElems DEF Enqueue, TypeOK
  <2> QED
    BY <1>0, <1>2, <2>1, <2>2 DEF Enqueue, server
<1>3. CASE WriterTakes
  <2>1. Elems(queue) = Elems(Tail(queue)) \cup {Head(queue)}
    BY <1>0, <1>3, TailElems DEF WriterTakes, TypeOK
  <2> QED
    BY <1>0, <1>3, <2>1 DEF WriterTakes, server
<1>4. CASE WriterWrites
  <2>1. Elems(toServer') \subseteq Elems(toServer) \cup {writing}
    <3>1. writing \in Call
      BY <1>0, <1>4 DEF WriterWrites, TypeOK
    <3> QED
      BY <1>0, <1>4, <3>1, AppendElems DEF WriterWrites, TypeOK
  <2> QED
    BY <1>0, <1>4, <2>1 DEF WriterWrites, server
<1>5. CASE WriterEnds
  BY <1>0, <1>5, EmptyChannel DEF WriterEnds, server
<1>6. CASE ServerEnds
  BY <1>0, <1>6, EmptyChannel DEF ServerEnds, connection
<1>7. ASSUME NEW d \in Call, Receive(d), UNCHANGED <<queue, writing>>, ran' \subseteq ran \cup {d}
      PROVE  Refused(c)'
  <2>1. d \in Elems(toServer) /\ Elems(toServer') \subseteq Elems(toServer)
    BY <1>0, <1>7, TailElems DEF Receive, TypeOK
  <2> QED
    BY <1>0, <1>7, <2>1
<1>8. ASSUME NEW d \in JobCall, AdmitJob(d) \/ RefuseJob(d) PROVE Refused(c)'
  BY <1>7, <1>8, Kinds DEF AdmitJob, RefuseJob, connection
<1>9. ASSUME NEW d \in JobCall, CancelJob(d) PROVE Refused(c)'
  <2>1. CancelOf(d) \in Call
    BY Kinds
  <2> QED
    BY <1>7, <1>9, <2>1 DEF CancelJob, connection
<1>10. ASSUME NEW d \in ControlCall, ServeControl(d) PROVE Refused(c)'
  BY <1>7, <1>10, Kinds DEF ServeControl, connection
<1> QED
  BY LineStays, <1>1, <1>2, <1>3, <1>4, <1>5, <1>6, <1>8, <1>9, <1>10

LEMMA TruthfulStays ==
  ASSUME Inv, [Next]_vars, NEW r \in Reply, Truthful(r)
  PROVE  Truthful(r)'
<1>1. Moves
  BY CallerMoves DEF Inv
<1>2. caller[r.call] = "gone" => caller'[r.call] = "gone"
  BY <1>1, Forward DEF Reply
<1>3. ran \subseteq ran' /\ \A c \in admitted' : c \in admitted \/ c \notin ran
  <2>1. CASE UNCHANGED <<admitted, ran>>
    BY <2>1
  <2>2. ASSUME NEW c \in JobCall, AdmitJob(c) PROVE <1>3
    <3>1. c \notin ran
      BY <2>2, TailElems DEF AdmitJob, Receive, Inv, TypeOK, Line
    <3> QED
      BY <2>2, <3>1 DEF AdmitJob
  <2>3. ASSUME NEW c \in JobCall, JobEnds(c) PROVE <1>3
    BY <2>3 DEF JobEnds
  <2>4. CASE ServerEnds
    BY <2>4 DEF ServerEnds
  <2>5. CASE [\/ \E c \in Call : CallStep(c) \/ Abandon(c) \/ Cleanup(c)
              \/ Terminate \/ Transport \/ WriterFails \/ ReaderFails]_vars
    BY <2>1, <2>5 DEF CallStep, Reserve, Refuse, Enqueue, RefuseLate, TakeAnswer, Abandon, Cleanup,
         Terminate, Transport, WriterTakes, WriterSeesEnd, WriterWrites, ReaderReceives, WriterFails,
         WriterEnds, ReaderFails, vars, server
  <2>6. CASE Serve
    BY <2>1, <2>2, <2>3, <2>6 DEF Serve, RefuseJob, CancelJob, AdmittedAfterCancel, ServeControl,
                                  ServerWrites
  <2> QED
    BY <2>4, <2>5, <2>6 DEF Next
<1> QED
  BY <1>2, <1>3, RefusedStays DEF Truthful, Served

\* What a step adds to the replies.
LEMMA NewReplies ==
  ASSUME Inv, [Next]_vars
  PROVE  /\ Elems(replies') \cup Elems(toClient') \subseteq Reply
         /\ \A r \in Elems(replies') \cup Elems(toClient') :
                r \in Elems(replies) \cup Elems(toClient) \/ Truthful(r)'
<1>0. TypeOK /\ TypeOK'
  BY TypesStep DEF Inv
<1>1. Elems(replies') \subseteq Reply /\ Elems(toClient') \subseteq Reply
  BY <1>0, ElemsAre DEF TypeOK
<1> DEFINE Old == Elems(replies) \cup Elems(toClient)
           New == Elems(replies') \cup Elems(toClient')
<1>2. CASE UNCHANGED <<replies, toClient>>
  BY <1>2, <1>1
<1>3. CASE ReaderReceives
  <2>1. Elems(toClient') \subseteq Elems(toClient) /\ UNCHANGED replies
    BY <1>0, <1>3, TailElems DEF ReaderReceives, server, TypeOK
  <2> QED
    BY <1>1, <2>1
<1>4. CASE ServerWrites
  <2>1. Head(replies) \in Reply /\ Head(replies) \in Elems(replies) /\ Elems(replies') \subseteq Elems(replies)
    BY <1>0, <1>4, TailElems DEF ServerWrites, TypeOK
  <2>2. Elems(toClient') = Elems(toClient) \cup {Head(replies)}
    BY <1>0, <1>4, <2>1, AppendElems DEF ServerWrites, TypeOK
  <2> QED
    BY <1>1, <2>1, <2>2
<1>5. ASSUME NEW c \in Call, NEW w \in {"done", "cancelled", "refused"}, SendReply(c, w),
             UNCHANGED toClient
      PROVE  \A r \in New : r \in Old \/ r = [call |-> c, what |-> w]
  <2>1. [call |-> c, what |-> w] \in Reply
    BY DEF Reply
  <2>2. Elems(replies') = Elems(replies) \cup {[call |-> c, what |-> w]}
    BY <1>0, <1>5, <2>1, AppendElems DEF SendReply, TypeOK
  <2> QED
    BY <1>5, <2>2
<1>6. ASSUME NEW c \in JobCall, JobEnds(c) PROVE \A r \in New : r \in Old \/ Truthful(r)'
  <2>1. c \in Call /\ c \in ran' /\ c \notin admitted' /\ UNCHANGED <<toClient, caller>>
    BY <1>6, Kinds DEF JobEnds, Inv, Admission, callers
  <2>2. CASE SendReply(c, "done")
    <3>1. Truthful([call |-> c, what |-> "done"])'
      BY <2>1 DEF Truthful, Served
    <3> QED
      BY <1>5, <2>1, <2>2, <3>1
  <2>3. CASE c \in cancelled /\ SendReply(c, "cancelled")
    <3>1. caller'[c] = "gone"
      BY <2>1, <2>3 DEF Inv, Cancels
    <3>2. Truthful([call |-> c, what |-> "cancelled"])'
      BY <2>1, <3>1 DEF Truthful, Served
    <3> QED
      BY <1>5, <2>1, <2>3, <3>2
  <2> QED
    BY <1>6, <2>2, <2>3 DEF JobEnds
<1>7. ASSUME NEW c \in Call, c \notin JobCall, SendReply(c, "done"), UNCHANGED toClient
      PROVE  \A r \in New : r \in Old \/ Truthful(r)'
  <2>1. Truthful([call |-> c, what |-> "done"])'
    BY <1>7 DEF Truthful
  <2> QED
    BY <1>5, <1>7, <2>1
<1>8. ASSUME NEW c \in JobCall, CancelJob(c) PROVE \A r \in New : r \in Old \/ Truthful(r)'
  BY <1>7, <1>8, Kinds DEF CancelJob
<1>9. ASSUME NEW c \in ControlCall, ServeControl(c) PROVE \A r \in New : r \in Old \/ Truthful(r)'
  BY <1>7, <1>9, Kinds DEF ServeControl
<1>10. ASSUME NEW c \in JobCall, RefuseJob(c) PROVE \A r \in New : r \in Old \/ Truthful(r)'
  <2>1. c \in Elems(toServer) /\ c \notin Elems(toServer') /\ c \in Call
    BY <1>0, <1>10, TailElems, Kinds DEF RefuseJob, Receive, Inv, Line, TypeOK
  <2>2. Refused(c)'
    BY <1>10, <2>1, NeverRefused DEF Refused, RefuseJob, callers, connection, Inv, Line
  <2>3. Truthful([call |-> c, what |-> "refused"])'
    BY <2>2 DEF Truthful
  <2> QED
    BY <1>5, <1>10, <2>1, <2>3 DEF RefuseJob
<1>11. CASE Serve
  BY <1>1, <1>2, <1>4, <1>6, <1>8, <1>9, <1>10, <1>11 DEF Serve, AdmitJob
<1>12. CASE [\/ \E c \in Call : CallStep(c) \/ Abandon(c) \/ Cleanup(c)
             \/ Terminate \/ Transport \/ WriterFails \/ ReaderFails \/ ServerEnds]_vars
  BY <1>2, <1>3, <1>12 DEF CallStep, Reserve, Refuse, Enqueue, RefuseLate, TakeAnswer, Abandon,
       Cleanup, Terminate, Transport, WriterTakes, WriterSeesEnd, WriterWrites, WriterFails,
       WriterEnds, ReaderFails, ServerEnds, vars, connection, server
<1> QED
  BY <1>1, <1>11, <1>12 DEF Next

LEMMA RepliesStep ==
  ASSUME Inv, [Next]_vars
  PROVE  Replies'
<1>0. TypeOK /\ Replies /\ Cancels /\ Moves
  BY CallerMoves DEF Inv
<1>1. \A r \in Elems(replies') \cup Elems(toClient') : Truthful(r)'
  BY <1>0, NewReplies, TruthfulStays DEF Replies
<1>2. \A c \in JobCall : c \in ran => c \in ran'
  BY DEF Next, CallStep, Reserve, Refuse, Enqueue, RefuseLate, TakeAnswer, Abandon, Cleanup,
       Terminate, Transport, WriterTakes, WriterSeesEnd, WriterWrites, ReaderReceives, WriterFails,
       WriterEnds, ReaderFails, Serve, AdmitJob, RefuseJob, CancelJob, JobEnds, ServeControl,
       ServerWrites, ServerEnds, vars, server
<1>3. CASE ReaderReceives
  <2> SUFFICES \A c \in JobCall : Answered(c)'
    BY <1>1 DEF Replies
  <2>1. PICK r \in Reply : r = Head(toClient) /\ r \in Elems(toClient)
    BY <1>0, <1>3, TailElems DEF ReaderReceives, TypeOK
  <2>2. Truthful(r) /\ r.call \in Call
    BY <1>0, <2>1 DEF Replies, Reply
  <2>3. CASE ~Wanted(r.call)
    BY <1>0, <1>2, <1>3, <2>1, <2>3, RefusedStays DEF ReaderReceives, callers, Replies, Answered
  <2>4. CASE Wanted(r.call)
    <3>1. caller[r.call] = "waiting"
      BY <2>4 DEF Wanted
    <3>2. /\ caller' = [caller EXCEPT ![r.call] = "told"]
          /\ answer' = [answer EXCEPT ![r.call] = r.what]
      BY <1>3, <2>1, <2>4 DEF ReaderReceives
    <3>3. \A c \in Call : c # r.call => caller'[c] = caller[c] /\ answer'[c] = answer[c]
      BY <1>0, <3>2 DEF TypeOK
    <3>4. caller'[r.call] = "told" /\ answer'[r.call] = r.what
      BY <1>0, <2>2, <3>2 DEF TypeOK
    <3>5. ASSUME NEW c \in JobCall PROVE Answered(c)'
      <4>1. CASE c = r.call
        <5>1. \/ r.what = "done" /\ c \in ran
              \/ r.what = "refused" /\ Refused(c)
          BY <2>2, <3>1, <4>1 DEF Truthful, Served
        <5>2. Refused(c) => Refused(c)'
          BY RefusedStays
        <5> QED
          BY <1>2, <3>4, <4>1, <5>1, <5>2 DEF Answered
      <4>2. CASE c # r.call
        BY <1>0, <1>2, <3>3, <4>2, RefusedStays, Kinds DEF Replies, Answered
      <4> QED
        BY <4>1, <4>2
    <3> QED
      BY <3>5
  <2> QED
    BY <2>3, <2>4
<1>4. CASE ~ReaderReceives
  <2>1. answer' = answer
    BY <1>4 DEF Next, CallStep, Reserve, Refuse, Enqueue, RefuseLate, TakeAnswer, Abandon, Cleanup,
       Set, Terminate, Drain, Transport, WriterTakes, WriterSeesEnd, WriterWrites, WriterFails,
       WriterEnds, ReaderFails, Serve, AdmitJob, RefuseJob, CancelJob, JobEnds, ServeControl,
       ServerWrites, ServerEnds, vars, callers
  <2>2. ASSUME NEW c \in JobCall, caller'[c] \in {"told", "answered", "rejected"}
        PROVE  caller[c] = caller'[c] \/ (caller[c] = "told" /\ caller'[c] = Returned(c))
    <3>1. CASE caller[c] = "waiting" /\ caller'[c] = "told"
      <4>1. \A d \in Call : ~(caller[d] = "waiting" /\ caller'[d] = "told")
        BY <1>0, <1>4, Kinds DEF Next, CallStep, Reserve, Refuse, Enqueue, RefuseLate, TakeAnswer,
           Abandon, Cleanup, Set, Terminate, Drain, Transport, WriterTakes, WriterSeesEnd,
           WriterWrites, WriterFails, WriterEnds, ReaderFails, Serve, AdmitJob, RefuseJob, CancelJob,
           JobEnds, ServeControl, ServerWrites, ServerEnds, vars, callers, TypeOK
      <4> QED
        BY <3>1, <4>1, Kinds
    <3>2. CASE caller[c] = "told" /\ caller'[c] \in {"answered", "rejected"}
      <4>1. \A d \in Call : caller[d] = "told" /\ caller'[d] \in {"answered", "rejected"} =>
               caller'[d] = Returned(d)
        BY <1>0, <1>4, Kinds DEF Next, CallStep, Reserve, Refuse, Enqueue, RefuseLate, TakeAnswer,
           Returned, Abandon, Cleanup, Set, Terminate, Drain, Transport, WriterTakes, WriterSeesEnd,
           WriterWrites, WriterFails, WriterEnds, ReaderFails, Serve, AdmitJob, RefuseJob, CancelJob,
           JobEnds, ServeControl, ServerWrites, ServerEnds, vars, callers, TypeOK
      <4> QED
        BY <3>2, <4>1, Kinds
    <3>3. CASE /\ ~(caller[c] = "waiting" /\ caller'[c] = "told")
               /\ ~(caller[c] = "told" /\ caller'[c] \in {"answered", "rejected"})
      BY <1>0, <2>2, <3>3, Kinds DEF Moves, Move
    <3> QED
      BY <3>1, <3>2, <3>3
  <2>3. ASSUME NEW c \in JobCall PROVE Answered(c)'
    <3>1. Answered(c)
      BY <1>0 DEF Replies
    <3>2. CASE caller'[c] \in {"told", "answered", "rejected"}
      BY <1>2, <2>1, <2>2, <3>1, <3>2, RefusedStays DEF Answered, Returned
    <3> QED
      BY <3>2 DEF Answered
  <2> QED
    BY <1>1, <2>3 DEF Replies
<1> QED
  BY <1>3, <1>4

-----------------------------------------------------------------------------
(***************************************************************************)
(* The permits.                                                            *)
(***************************************************************************)

LEMMA OutstandingStays ==
  ASSUME Inv, [Next]_vars
  PROVE  \/ Outstanding' \subseteq Outstanding
         \/ /\ WriterTakes /\ Wanted(Head(queue))
            /\ Outstanding' \subseteq Outstanding \cup {Head(queue)}
<1>0. TypeOK /\ TypeOK' /\ Line /\ Admission
  BY TypesStep DEF Inv
<1> USE DEF Outstanding
<1>1. CASE UNCHANGED <<writing, toServer, admitted>>
  BY <1>1
<1>2. CASE WriterTakes
  BY <1>0, <1>2 DEF WriterTakes, server
<1>3. CASE WriterWrites
  <2>1. writing \in Call /\ UNCHANGED admitted /\ writing' = NoCall
    BY <1>0, <1>3 DEF WriterWrites, server, TypeOK
  <2>2. Elems(toServer') \subseteq Elems(toServer) \cup {writing}
    BY <1>0, <1>3, <2>1, AppendElems DEF WriterWrites, TypeOK
  <2> QED
    BY <2>1, <2>2, CallAssumption, Kinds
<1>4. CASE WriterEnds
  BY <1>4, CallAssumption DEF WriterEnds, server, Call
<1>5. CASE ServerEnds
  BY <1>5, EmptyChannel DEF ServerEnds, connection
<1>6. ASSUME NEW c \in Call, Receive(c), UNCHANGED writing, admitted' \subseteq admitted \cup {c}
      PROVE  Outstanding' \subseteq Outstanding
  BY <1>0, <1>6, TailElems DEF Receive, TypeOK
<1>7. CASE Serve
  <2>1. ASSUME NEW c \in JobCall, AdmitJob(c) \/ RefuseJob(c) PROVE Outstanding' \subseteq Outstanding
    BY <1>6, <2>1, Kinds DEF AdmitJob, RefuseJob, connection
  <2>2. ASSUME NEW c \in JobCall, CancelJob(c) PROVE Outstanding' \subseteq Outstanding
    <3>1. CancelOf(c) \in Call
      BY Kinds
    <3> QED
      BY <1>6, <2>2, <3>1 DEF CancelJob, AdmittedAfterCancel, connection
  <2>3. ASSUME NEW c \in ControlCall, ServeControl(c) PROVE Outstanding' \subseteq Outstanding
    BY <1>6, <2>3, Kinds DEF ServeControl, connection
  <2>4. ASSUME NEW c \in JobCall, JobEnds(c) PROVE Outstanding' \subseteq Outstanding
    BY <2>4 DEF JobEnds, connection
  <2> QED
    BY <1>1, <1>7, <2>1, <2>2, <2>3, <2>4 DEF Serve, ServerWrites, connection
<1>8. CASE [\/ \E c \in Call : CallStep(c) \/ Abandon(c) \/ Cleanup(c)
            \/ Terminate \/ Transport \/ WriterFails \/ ReaderFails]_vars
  BY <1>1, <1>2, <1>3, <1>4, <1>8 DEF CallStep, Reserve, Refuse, Enqueue, RefuseLate, TakeAnswer,
     Abandon, Cleanup, Terminate, Transport, WriterSeesEnd, ReaderReceives, WriterFails,
     ReaderFails, vars, connection, server
<1> QED
  BY <1>5, <1>7, <1>8 DEF Next

\* What is outstanding keeps its entry, and so its permit, while the connection lives.
LEMMA EntriesAreKept ==
  ASSUME Inv, [Next]_vars, alive'
  PROVE  /\ alive
         /\ \A c \in JobCall : c \in pending /\ (c \in Outstanding \/ (WriterTakes /\ Wanted(c)))
                => c \in pending'
<1>0. TypeOK /\ Line /\ Replies /\ Admission
  BY DEF Inv
<1>1. CASE UNCHANGED pending /\ UNCHANGED alive
  BY <1>1
<1>2. CASE WriterTakes
  <2>1. Head(queue) \notin Outstanding
    BY <1>0, <1>2, TailElems DEF WriterTakes, Line, Outstanding, Admission, TypeOK
  <2> QED
    BY <1>2, <2>1 DEF WriterTakes
<1>3. CASE ReaderReceives
  <2> DEFINE r == Head(toClient)
  <2>1. r \in Reply /\ Truthful(r)
    BY <1>0, <1>3, TailElems DEF ReaderReceives, TypeOK, Replies
  <2>2. r.call \in JobCall => r.call \notin Outstanding
    BY <1>0, <2>1, CallAssumption DEF Truthful, Served, Refused, Line, Outstanding, Admission, Call
  <2>3. pending' = pending \ {r.call} /\ UNCHANGED alive /\ UNCHANGED queue /\ toServer' = toServer
    BY <1>3 DEF ReaderReceives
  <2>4. ~WriterTakes
    <3>1. ASSUME queue # <<>> PROVE Tail(queue) # queue
      <4>1. Len(queue) \in Nat /\ Len(Tail(queue)) = Len(queue) - 1
        BY <1>0, <3>1, TailElems DEF TypeOK
      <4> QED
        BY <4>1
    <3> QED
      BY <1>3, <3>1 DEF WriterTakes, ReaderReceives
  <2> QED
    BY <2>2, <2>3, <2>4
<1>4. ASSUME NEW c \in Call, Enqueue(c) PROVE UNCHANGED alive /\ pending \subseteq pending'
  BY <1>4 DEF Enqueue
<1>5. ASSUME NEW c \in Call, Cleanup(c)
      PROVE  UNCHANGED alive /\ \A d \in JobCall : d \in pending => d \in pending'
  BY <1>5 DEF Cleanup
<1>6. CASE \E c \in Call : CallStep(c) \/ Abandon(c) \/ Cleanup(c)
  BY <1>1, <1>4, <1>5, <1>6 DEF CallStep, Reserve, Refuse, RefuseLate, TakeAnswer, Abandon, connection
<1>7. CASE Terminate \/ WriterFails \/ ReaderFails
  BY <1>7 DEF Terminate, WriterFails, WriterEnds, ReaderFails
<1>8. CASE Transport
  BY <1>1, <1>2, <1>3, <1>8 DEF Transport, WriterSeesEnd, WriterEnds, WriterWrites
<1>9. CASE Serve \/ ServerEnds
  BY <1>1, <1>9 DEF Serve, AdmitJob, RefuseJob, CancelJob, JobEnds, ServeControl, ServerWrites,
                    ServerEnds, connection
<1>10. CASE UNCHANGED vars
  BY <1>1, <1>10 DEF vars, connection
<1> QED
  BY <1>6, <1>7, <1>8, <1>9, <1>10 DEF Next

LEMMA HoldersStay ==
  ASSUME Inv, [Next]_vars
  PROVE  \/ SlotHolders' \subseteq SlotHolders
         \/ \E c \in JobCall : JobSlotFree /\ SlotHolders' \subseteq SlotHolders \cup {c}
<1>0. TypeOK /\ Moves
  BY CallerMoves DEF Inv
<1>1. ASSUME NEW c \in JobCall, caller'[c] = "reserved", caller[c] # "reserved"
      PROVE  JobSlotFree /\ \A d \in JobCall : d # c => caller'[d] = caller[d]
  <2>1. caller[c] = "new" /\ c \in Call
    BY <1>0, <1>1, Kinds DEF Moves, Move
  <2>2. Reserve(c)
    <3>1. ASSUME NEW d \in Call, d # c, CallStep(d) \/ Abandon(d) PROVE FALSE
      BY <1>0, <1>1, <2>1, <3>1 DEF CallStep, Reserve, Refuse, Enqueue, RefuseLate, TakeAnswer, Abandon,
         Set, TypeOK
    <3>2. ASSUME NEW d \in Call, Cleanup(d) PROVE FALSE
      BY <1>0, <1>1, <2>1, <3>2 DEF Cleanup, TypeOK
    <3>3. ~Drain /\ ~UNCHANGED caller
      BY <1>1, <2>1 DEF Drain
    <3>4. ~ReaderReceives
      BY <1>0, <1>1, <2>1 DEF ReaderReceives, callers, TypeOK
    <3>5. CallStep(c) \/ Abandon(c)
      BY <3>1, <3>2, <3>3, <3>4 DEF Next, Terminate, Transport, WriterTakes, WriterSeesEnd,
         WriterWrites, WriterFails, WriterEnds, ReaderFails, Serve, AdmitJob, RefuseJob, CancelJob,
         JobEnds, ServeControl, ServerWrites, ServerEnds, vars, callers
    <3> QED
      BY <1>0, <1>1, <2>1, <3>5 DEF CallStep, Refuse, Enqueue, RefuseLate, TakeAnswer, Abandon, Set,
         TypeOK
  <2> QED
    BY <1>0, <1>1, <2>2, Kinds DEF Reserve, Set, TypeOK
<1>2. \A c \in JobCall : c \in pending' => c \in pending \/ caller[c] = "reserved"
  BY DEF Next, CallStep, Reserve, Refuse, Enqueue, RefuseLate, TakeAnswer, Abandon, Cleanup,
     Terminate, Drain, Transport, WriterTakes, WriterSeesEnd, WriterWrites, ReaderReceives,
     WriterFails, WriterEnds, ReaderFails, Serve, AdmitJob, RefuseJob, CancelJob, JobEnds,
     ServeControl, ServerWrites, ServerEnds, vars, connection
<1>3. CASE \E c \in JobCall : caller'[c] = "reserved" /\ caller[c] # "reserved"
  <2>1. PICK c \in JobCall : caller'[c] = "reserved" /\ caller[c] # "reserved"
    BY <1>3
  <2>2. JobSlotFree /\ \A d \in JobCall : d # c => caller'[d] = caller[d]
    BY <1>1, <2>1
  <2>3. SlotHolders' \subseteq SlotHolders \cup {c}
    BY <1>2, <2>2 DEF SlotHolders
  <2> QED
    BY <2>2, <2>3
<1>4. CASE ~ \E c \in JobCall : caller'[c] = "reserved" /\ caller[c] # "reserved"
  BY <1>2, <1>4 DEF SlotHolders
<1> QED
  BY <1>3, <1>4

LEMMA SlotsStep ==
  ASSUME Inv, [Next]_vars
  PROVE  Slots'
<1>0. Slots /\ TypeOK /\ TypeOK'
  BY TypesStep DEF Inv
<1>1. /\ Outstanding \in SUBSET JobCall /\ Outstanding' \in SUBSET JobCall
      /\ SlotHolders \in SUBSET JobCall /\ SlotHolders' \in SUBSET JobCall
  BY DEF Outstanding, SlotHolders
<1>2. Cardinality(SlotHolders') <= JobSlots
  <2>1. /\ IsFiniteSet(SlotHolders) /\ Cardinality(SlotHolders) \in Nat
        /\ Cardinality(SlotHolders') \in Nat
    BY <1>1, JobsAreFinite
  <2>2. CASE SlotHolders' \subseteq SlotHolders
    <3>1. Cardinality(SlotHolders') <= Cardinality(SlotHolders)
      BY <2>1, <2>2, FS_Subset
    <3> QED
      BY <1>0, <2>1, <3>1 DEF Slots
  <2>3. ASSUME NEW c \in JobCall, JobSlotFree, SlotHolders' \subseteq SlotHolders \cup {c}
        PROVE  Cardinality(SlotHolders') <= JobSlots
    <3>1. /\ IsFiniteSet(SlotHolders \cup {c})
          /\ Cardinality(SlotHolders \cup {c}) <= Cardinality(SlotHolders) + 1
          /\ Cardinality(SlotHolders \cup {c}) \in Nat
      <4>1. /\ IsFiniteSet(SlotHolders \cup {c})
            /\ Cardinality(SlotHolders \cup {c}) =
                  IF c \in SlotHolders THEN Cardinality(SlotHolders) ELSE Cardinality(SlotHolders) + 1
        BY <2>1, FS_AddElement
      <4> QED
        BY <2>1, <4>1
    <3>2. Cardinality(SlotHolders') <= Cardinality(SlotHolders \cup {c})
      BY <2>3, <3>1, FS_Subset
    <3> QED
      BY <2>1, <2>3, <3>1, <3>2 DEF JobSlotFree
  <2> QED
    BY <2>2, <2>3, HoldersStay
<1>3. alive' => Outstanding' \subseteq pending'
  <2> SUFFICES ASSUME alive' PROVE Outstanding' \subseteq pending'
    OBVIOUS
  <2>1. alive /\ Outstanding \subseteq pending
    BY <1>0, EntriesAreKept DEF Slots
  <2>2. CASE Outstanding' \subseteq Outstanding
    BY <1>1, <2>1, <2>2, EntriesAreKept
  <2>3. CASE WriterTakes /\ Wanted(Head(queue)) /\ Outstanding' \subseteq Outstanding \cup {Head(queue)}
    BY <1>1, <2>1, <2>3, EntriesAreKept DEF Wanted
  <2> QED
    BY <2>2, <2>3, OutstandingStays
<1>4. Cardinality(Outstanding') <= JobSlots
  <2>1. /\ IsFiniteSet(Outstanding) /\ Cardinality(Outstanding) \in Nat
        /\ Cardinality(Outstanding') \in Nat /\ Cardinality(SlotHolders') \in Nat
        /\ IsFiniteSet(SlotHolders')
    BY <1>1, JobsAreFinite
  <2>2. CASE Outstanding' \subseteq Outstanding
    <3>1. Cardinality(Outstanding') <= Cardinality(Outstanding)
      BY <2>1, <2>2, FS_Subset
    <3> QED
      BY <1>0, <2>1, <3>1 DEF Slots
  <2>3. CASE WriterTakes
    <3>1. alive'
      BY <2>3 DEF WriterTakes
    <3>2. Outstanding' \subseteq SlotHolders'
      BY <1>1, <1>3, <3>1 DEF SlotHolders
    <3>3. Cardinality(Outstanding') <= Cardinality(SlotHolders')
      BY <2>1, <3>2, FS_Subset
    <3> QED
      BY <1>2, <2>1, <3>3
  <2> QED
    BY <2>2, <2>3, OutstandingStays
<1> QED
  BY <1>2, <1>3, <1>4 DEF Slots

LEMMA InvStep == Inv /\ [Next]_vars => Inv'
BY TypesStep, LineStep, CancelsStep, OrderStep, RepliesStep, AdmissionStep, SlotsStep DEF Inv

LEMMA Invariance == Spec => []Inv
<1>1. Init => Inv
  BY InitInv
<1>2. Inv /\ [Next]_vars => Inv'
  BY InvStep
<1> QED
  BY <1>1, <1>2, PTL DEF Spec

-----------------------------------------------------------------------------
(***************************************************************************)
(* The theorems.                                                           *)
(***************************************************************************)

\* Every state of the connection is well typed, and its two channels keep their
\* capacities (call, ReplyQueue::try_send).
THEOREM IpcTypes == Spec => []TypeOK
<1>1. Inv => TypeOK
  BY DEF Inv
<1> QED
  BY <1>1, Invariance, PTL

\* With limits that let the server admit what the client may have outstanding,
\* whoever waits for a job is answered with the result of its run.
THEOREM AnswersAreTrue ==
  ASSUME LimitsFit
  PROVE  Spec => []AnswersAreGenuine
<1>1. Inv => AnswersAreGenuine
  BY DEF Inv, Replies, Answered, Refused, AnswersAreGenuine
<1> QED
  BY <1>1, Invariance, PTL

\* admitted_bytes and the map of cancellations follow the running jobs exactly.
THEOREM AdmissionCounts == Spec => []AdmissionIsExact
<1>1. Inv => AdmissionIsExact
  BY DEF Inv, Admission, AdmissionIsExact
<1> QED
  BY <1>1, Invariance, PTL

\* A job whose cancellation the server has handled does not start.
THEOREM CancelledJobsStayOut == Spec => CancelledNeverStarts
<1>1. Inv /\ [Next]_vars => [\A c \in stopped : c \in running' => c \in running]_vars
  <2> SUFFICES ASSUME Inv, [Next]_vars, NEW c \in stopped, c \in running'
               PROVE  c \in running
    OBVIOUS
  <2>1. ASSUME NEW d \in JobCall, AdmitJob(d) PROVE c # d
    <3>1. d \in Elems(toServer)
      BY <2>1, TailElems DEF AdmitJob, Receive, Inv, TypeOK
    <3> QED
      BY <3>1 DEF Inv, Order
  <2>2. ASSUME NEW d \in JobCall, AdmitJob(d) PROVE c \in running
    BY <2>1, <2>2 DEF AdmitJob
  <2>3. CASE Serve
    BY <2>2, <2>3 DEF Serve, RefuseJob, CancelJob, JobEnds, ServeControl, ServerWrites
  <2>4. CASE [\/ \E d \in Call : CallStep(d) \/ Abandon(d) \/ Cleanup(d)
              \/ Terminate \/ Transport \/ WriterFails \/ ReaderFails \/ ServerEnds]_vars
    BY <2>4 DEF CallStep, Reserve, Refuse, Enqueue, RefuseLate, TakeAnswer, Abandon, Cleanup,
       Terminate, Transport, WriterTakes, WriterSeesEnd, WriterWrites, ReaderReceives, WriterFails,
       WriterEnds, ReaderFails, ServerEnds, vars, server
  <2> QED
    BY <2>3, <2>4 DEF Next
<1> QED
  BY <1>1, Invariance, PTL DEF Spec, CancelledNeverStarts

-----------------------------------------------------------------------------
(***************************************************************************)
(* The refinement.                                                         *)
(***************************************************************************)

outcome == [c \in JobCall |-> Outcome(caller[c])]

LEMMA Outcomes ==
  /\ Outcome("new") = "new"
  /\ \A place \in {"reserved", "waiting", "told"} : Outcome(place) = "open"
  /\ \A place \in {"dropped", "failed", "gone"} : Outcome(place) = "lost"
  /\ Outcome("answered") = "answered"
  /\ Outcome("refused") = "refused" /\ Outcome("rejected") = "refused"
BY DEF Outcome

\* One job's outcome changes.
LEMMA OneOutcome ==
  ASSUME NEW c \in JobCall, \A d \in JobCall : d # c => caller'[d] = caller[d]
  PROVE  outcome' = [outcome EXCEPT ![c] = Outcome(caller'[c])]
BY DEF outcome

LEMMA NoOutcome ==
  ASSUME \A d \in JobCall : Outcome(caller'[d]) = Outcome(caller[d])
  PROVE  outcome' = outcome
BY DEF outcome

\* A job that is not waited for any more is lost.
LEMMA OneLost ==
  ASSUME NEW c \in JobCall, outcome[c] = "open", ran' = ran,
         outcome' = [outcome EXCEPT ![c] = "lost"]
  PROVE  Calls!Next
<1>1. {c} \in SUBSET {j \in JobCall : outcome[j] = "open"}
  OBVIOUS
<1>2. outcome' = [j \in JobCall |-> IF j \in {c} THEN "lost" ELSE outcome[j]]
  BY DEF outcome
<1> QED
  BY <1>1, <1>2 DEF Calls!Next, Calls!Lose, outcome

LEMMA CallRefines ==
  ASSUME Inv, NEW c \in JobCall, CallStep(c) \/ Abandon(c)
  PROVE  Calls!Next \/ UNCHANGED <<outcome, ran>>
<1>0. TypeOK /\ Line /\ Replies /\ c \in Call
  BY Kinds DEF Inv
<1>1. ran' = ran
  BY DEF CallStep, Reserve, Refuse, Enqueue, RefuseLate, TakeAnswer, Abandon, server
<1>2. \A d \in JobCall : d # c => caller'[d] = caller[d]
  BY <1>0, Kinds DEF CallStep, Reserve, Refuse, Enqueue, RefuseLate, TakeAnswer, Abandon, Set, TypeOK
<1>3. outcome' = [outcome EXCEPT ![c] = Outcome(caller'[c])] /\ outcome[c] = Outcome(caller[c])
  BY <1>2, OneOutcome DEF outcome
<1>4. CASE Reserve(c)
  <2>1. caller[c] = "new" /\ caller'[c] = "reserved"
    BY <1>0, <1>4 DEF Reserve, Set, TypeOK
  <2> QED
    BY <1>1, <1>3, <2>1, Outcomes DEF Calls!Next, Calls!Ask, Calls!Become, outcome
<1>5. CASE Refuse(c) \/ RefuseLate(c)
  <2>1. caller[c] \in {"new", "reserved"} /\ caller'[c] = "refused"
    BY <1>0, <1>5 DEF Refuse, RefuseLate, Set, TypeOK
  <2>2. c \notin ran
    BY <1>0, <2>1 DEF Line, Before
  <2> QED
    BY <1>1, <1>3, <2>1, <2>2, Outcomes DEF Calls!Next, Calls!Refuse, Calls!Become, outcome
<1>6. CASE Enqueue(c)
  <2>1. caller[c] = "reserved" /\ caller'[c] = "waiting"
    BY <1>0, <1>6 DEF Enqueue, Set, TypeOK
  <2> QED
    BY <1>1, <1>2, <2>1, Outcomes, NoOutcome
<1>7. CASE TakeAnswer(c)
  <2>0. /\ caller[c] = "told" /\ caller'[c] = Returned(c) /\ outcome[c] = "open"
        /\ (answer[c] = "done" /\ c \in ran) \/ (answer[c] = "refused" /\ c \notin ran)
    <3>1. caller[c] = "told" /\ caller'[c] = Returned(c)
      BY <1>0, <1>7 DEF TakeAnswer, Set, TypeOK
    <3>2. Answered(c)
      BY <1>0 DEF Replies
    <3> QED
      BY <1>3, <3>1, <3>2, Outcomes DEF Answered, Refused
  <2>1. CASE answer[c] = "done" /\ c \in ran
    <3>1. outcome' = [outcome EXCEPT ![c] = "answered"]
      BY <1>3, <2>0, <2>1, Outcomes DEF Returned
    <3>2. Calls!Answer(c)
      BY <1>1, <2>0, <2>1, <3>1 DEF Calls!Answer, Calls!Become, outcome
    <3> QED
      BY <3>2 DEF Calls!Next
  <2>2. CASE answer[c] = "refused" /\ c \notin ran
    <3>1. outcome' = [outcome EXCEPT ![c] = "refused"]
      BY <1>3, <2>0, <2>2, Outcomes DEF Returned
    <3>2. Calls!Refuse(c)
      BY <1>1, <2>0, <2>2, <3>1 DEF Calls!Refuse, Calls!Become, outcome
    <3> QED
      BY <3>2 DEF Calls!Next
  <2> QED
    BY <2>0, <2>1, <2>2
<1>8. CASE Abandon(c)
  <2>1. caller[c] \in {"reserved", "waiting", "told"} /\ caller'[c] \in {"gone", "dropped"}
    BY <1>0, <1>8 DEF Abandon, Set, TypeOK
  <2> QED
    BY <1>1, <1>3, <2>1, Outcomes, OneLost
<1> QED
  BY <1>4, <1>5, <1>6, <1>7, <1>8 DEF CallStep

LEMMA DrainRefines ==
  ASSUME Drain, ran' = ran
  PROVE  Calls!Next
<1> DEFINE S == {c \in JobCall : c \in pending /\ caller[c] = "waiting"}
<1>1. S \in SUBSET {j \in JobCall : outcome[j] = "open"}
  BY Outcomes DEF outcome
<1>2. \A j \in JobCall : caller'[j] = IF j \in S THEN "failed" ELSE caller[j]
  BY Kinds DEF Drain
<1>3. outcome' = [j \in JobCall |-> IF j \in S THEN "lost" ELSE outcome[j]]
  BY <1>2, Outcomes DEF outcome
<1> QED
  BY <1>1, <1>3 DEF Calls!Next, Calls!Lose, outcome

LEMMA AdmitRefines ==
  ASSUME Inv, NEW c \in JobCall, AdmitJob(c)
  PROVE  Calls!Next
<1>1. c \in Elems(toServer) /\ c \in Call
  BY TailElems, Kinds DEF AdmitJob, Receive, Inv, TypeOK
<1>2. c \notin ran /\ caller[c] \notin Before
  BY <1>1 DEF Inv, Line
<1>3. caller[c] \in {"waiting", "told", "dropped", "failed", "gone"}
  <2>1. caller[c] # "answered" /\ caller[c] # "rejected"
    BY <1>1, <1>2 DEF Inv, Replies, Answered, Refused
  <2> QED
    BY <1>1, <1>2, <2>1 DEF Inv, TypeOK, Before
<1>4. outcome[c] \in {"open", "lost"}
  BY <1>3, Outcomes DEF outcome
<1>5. outcome' = outcome /\ ran' = ran \cup {c}
  BY DEF AdmitJob, callers, outcome
<1> QED
  BY <1>2, <1>4, <1>5 DEF Calls!Next, Calls!Run, outcome

\* The daemon connection does for each job what ModelCalls promises the code that
\* schedules it: it runs at most once, and never after it was refused.
THEOREM ImplementsModelCalls == Spec => ImplementsCalls
<1>1. Init => Calls!Init
  BY Kinds, Outcomes DEF Init, Calls!Init
<1>2. Inv /\ [Next]_vars => [Calls!Next]_<<outcome, ran>>
  <2> SUFFICES ASSUME Inv, [Next]_vars
               PROVE  Calls!Next \/ UNCHANGED <<outcome, ran>>
    OBVIOUS
  <2>1. CASE UNCHANGED <<caller, ran>>
    BY <2>1, NoOutcome
  <2>2. ASSUME NEW c \in Call, c \notin JobCall, CallStep(c) \/ Abandon(c)
        PROVE  UNCHANGED <<outcome, ran>>
    <3>1. ran' = ran /\ \A d \in JobCall : caller'[d] = caller[d]
      BY <2>2, Kinds DEF CallStep, Reserve, Refuse, Enqueue, RefuseLate, TakeAnswer, Abandon, Set,
         server, Inv, TypeOK
    <3> QED
      BY <3>1, NoOutcome
  <2>3. ASSUME NEW c \in Call, Cleanup(c) PROVE UNCHANGED <<outcome, ran>>
    <3>1. caller[c] = "dropped" /\ caller'[c] = "gone" /\ ran' = ran
      BY <2>3, Kinds DEF Cleanup, server, Inv, TypeOK
    <3>2. \A d \in JobCall : d # c => caller'[d] = caller[d]
      BY <2>3, Kinds DEF Cleanup, Inv, TypeOK
    <3> QED
      BY <3>1, <3>2, Outcomes, NoOutcome
  <2>4. CASE ReaderReceives
    <3>1. ran' = ran /\ \A d \in JobCall : caller'[d] # caller[d] => caller[d] = "waiting" /\ caller'[d] = "told"
      BY <2>4, Kinds DEF ReaderReceives, Wanted, callers, server, Inv, TypeOK
    <3> QED
      BY <3>1, Outcomes, NoOutcome
  <2>5. CASE Transport
    BY <2>1, <2>4, <2>5, DrainRefines DEF Transport, WriterTakes, WriterSeesEnd, WriterEnds,
       WriterWrites, callers, server
  <2>6. CASE Terminate \/ WriterFails \/ ReaderFails
    BY <2>6, DrainRefines DEF Terminate, WriterFails, WriterEnds, ReaderFails, server
  <2>7. CASE Serve \/ ServerEnds
    BY <2>1, <2>7, AdmitRefines DEF Serve, RefuseJob, CancelJob, JobEnds, ServeControl,
       ServerWrites, ServerEnds, callers
  <2>8. CASE UNCHANGED vars
    BY <2>1, <2>8 DEF vars, callers, server
  <2> QED
    BY <2>2, <2>3, <2>5, <2>6, <2>7, <2>8, CallRefines DEF Next
<1>3. Spec => []Inv
  BY Invariance
<1> QED
  BY <1>1, <1>2, <1>3, PTL DEF Spec, ImplementsCalls, Calls!Spec, outcome

=============================================================================
