---------------------------- MODULE NativeExecutor ----------------------------
(* How the desktop carries out a confirmed plan on Windows: the caller that waits
   for the one execution slot (execute_plan_controlled in src/ale-gui/src/
   platform/desktop.rs), the parent's side of the worker process and its journal
   of modifier keys (execute, keys in src/ale-gui/src/platform_worker.rs), and the
   worker, which presses keys and clicks (worker, and execute_plan_inner in
   src/ale-gui/src/automation.rs).  The user has hands on the same keyboard. *)
EXTENDS Naturals, Sequences

CONSTANTS
    Run,         \* executions that are asked for
    NoRun,       \* nobody has the slot
    Modifier,    \* the modifier keys of KEYS
    Plan,        \* Plan[r]: the actions of a plan, each the sequence of its modifiers
    MaxTouches   \* bound: what the user does with the modifiers

ASSUME ExecutorAssumption ==
    /\ NoRun \notin Run /\ MaxTouches \in Nat
    /\ Plan \in [Run -> Seq(Seq(Modifier))]

VARIABLES
    broken,    \* execution_failed: a worker could not be reaped
    slot,      \* execution_slot: who holds it
    call,      \* the caller: "idle", "waiting", "starting", "running", "cancelling",
               \* and its result
    control,   \* the ExecutionControl: "live", "cancelled", "expired"
    input,     \* the worker's stdin: "none", "writing", "sent", "closed", "held"
    told,      \* the workers that CANCEL was written to
    worker,    \* the worker process
    noticed,   \* the workers whose own control is over
    at,        \* the action the worker is at
    pressed,   \* the modifiers of that action that it will release
    spoilt,    \* the action, or the plan, has failed
    journal,   \* the bits of the shared journal
    down,      \* the modifiers the system takes for pressed
    user,      \* the modifiers the user holds
    stuck,     \* the modifiers whose release the system refused (history)
    touches

callVars == <<broken, slot, call, input, told>>
workerVars == <<worker, noticed, at, pressed, spoilt>>
keyVars == <<journal, down, user, stuck, touches>>
executorVars == <<callVars, control, workerVars, keyVars>>

Results == {"ok", "failed", "cancelled", "unavailable", "uncertain", "unreaped"}
InProgress(r) == call[r] \in {"running", "cancelling"}
Alive(r) == worker[r] \notin {"none", "exited"}
Over(r) == control[r] # "live"

ExecutorInit ==
    /\ broken = FALSE /\ slot = NoRun /\ told = {} /\ noticed = {}
    /\ call = [r \in Run |-> "idle"] /\ control = [r \in Run |-> "live"]
    /\ input = [r \in Run |-> "none"] /\ worker = [r \in Run |-> "none"]
    /\ at = [r \in Run |-> 1] /\ pressed = [r \in Run |-> << >>]
    /\ spoilt = [r \in Run |-> FALSE]
    /\ journal = [r \in Run |-> {}] /\ down = {} /\ user = {} /\ stuck = {}
    /\ touches = 0

------------------------------------------------------------------------------
(* The caller: execute_plan_controlled. *)

\* The call returns: pipe and control are dropped, the slot is given back, and a
\* worker that could not be reaped closes the executor.
Finish(r, result) ==
    /\ call' = [call EXCEPT ![r] = result]
    /\ slot' = IF slot = r THEN NoRun ELSE slot
    /\ broken' = (broken \/ result = "unreaped")
    /\ input' = [input EXCEPT ![r] = "none"]
    /\ IF result = "unreaped" THEN UNCHANGED <<control, told>>
       ELSE control' = [control EXCEPT ![r] = "live"] /\ told' = told \ {r}

\* execution_failed is looked at once, before the wait for the slot.
AskExecution(r) ==
    /\ call[r] = "idle"
    /\ call' = [call EXCEPT ![r] = IF broken THEN "unavailable" ELSE "waiting"]
    /\ UNCHANGED <<broken, slot, input, told, control, workerVars, keyVars>>

TakeSlot(r) ==
    /\ call[r] = "waiting" /\ ~Over(r) /\ slot = NoRun
    /\ slot' = r /\ call' = [call EXCEPT ![r] = "starting"]
    /\ UNCHANGED <<broken, input, told, control, workerVars, keyVars>>

GiveUpWaiting(r) ==
    /\ call[r] = "waiting" /\ Over(r)
    /\ Finish(r, "cancelled")
    /\ UNCHANGED <<workerVars, keyVars>>

\* ExecutionControl: the deadline passes for both processes, a cancellation is the
\* parent's until CANCEL or the end of the pipe tells the worker.
ControlEnds(r) ==
    /\ ~Over(r) /\ call[r] \notin Results \cup {"idle"}
    /\ \E end \in {"cancelled", "expired"} : control' = [control EXCEPT ![r] = end]
    /\ UNCHANGED <<callVars, workerVars, keyVars>>

------------------------------------------------------------------------------
(* The parent of the worker: execute. *)

\* Mutant: an execution that is over before its worker starts is left alone.
StartInTime(r) ==
    /\ call[r] = "starting" /\ ~Over(r)
    /\ \/ /\ call' = [call EXCEPT ![r] = "running"]
          /\ worker' = [worker EXCEPT ![r] = "reading"]
          /\ input' = [input EXCEPT ![r] = "writing"]
          /\ UNCHANGED <<broken, slot, told, control>>
       \/ Finish(r, "failed") /\ UNCHANGED worker
    /\ UNCHANGED <<noticed, at, pressed, spoilt, keyVars>>

\* The journal is made and the worker started, which may fail.
Start(r) ==
    /\ call[r] = "starting"
    /\ \/ /\ ~Over(r)
          /\ call' = [call EXCEPT ![r] = "running"]
          /\ worker' = [worker EXCEPT ![r] = "reading"]
          /\ input' = [input EXCEPT ![r] = "writing"]
          /\ UNCHANGED <<broken, slot, told, control>>
       \/ /\ Finish(r, IF Over(r) THEN "cancelled" ELSE "failed")
          /\ UNCHANGED worker
    /\ UNCHANGED <<noticed, at, pressed, spoilt, keyVars>>

\* The thread that writes the plan: it fails only when the worker has gone.
WriteInput(r) ==
    /\ input[r] = "writing"
    /\ input' = [input EXCEPT ![r] = IF Alive(r) THEN "sent" ELSE "closed"]
    /\ UNCHANGED <<broken, slot, call, told, control, workerVars, keyVars>>

\* try_recv: the loop takes the pipe; a failed write cancels the execution.
TakePipe(r) ==
    /\ InProgress(r) /\ input[r] \in {"sent", "closed"}
    /\ input' = [input EXCEPT ![r] = "held"]
    /\ control' = IF input[r] = "closed" /\ ~Over(r)
                  THEN [control EXCEPT ![r] = "cancelled"] ELSE control
    /\ UNCHANGED <<broken, slot, call, told, workerVars, keyVars>>

\* The first look at a control that is over: the worker is told, if the pipe is here.
BeginCancelling(r) ==
    /\ call[r] = "running" /\ Over(r)
    /\ call' = [call EXCEPT ![r] = "cancelling"]
    /\ told' = IF input[r] = "held" THEN told \cup {r} ELSE told
    /\ UNCHANGED <<broken, slot, input, control, workerVars, keyVars>>

\* Journal::cleanup: the bits are swapped with zero, and what they name is released,
\* whoever holds it; the system may refuse.
Cleanup(r) ==
    \E refused \in SUBSET (journal[r] \cap down) :
        /\ down' = down \ (journal[r] \ refused)
        /\ stuck' = stuck \cup refused
        /\ journal' = [journal EXCEPT ![r] = {}]

\* The process has ended, with all it held.
Ended(r) ==
    /\ worker' = [worker EXCEPT ![r] = "exited"]
    /\ noticed' = noticed \ {r}
    /\ pressed' = [pressed EXCEPT ![r] = << >>]
    /\ spoilt' = [spoilt EXCEPT ![r] = FALSE]
    /\ UNCHANGED at

\* A second after the control is over: kill_tree_and_wait.  The worker ends and its
\* keys are released, or two seconds pass and the executor is closed.
Kill(r) ==
    /\ call[r] = "cancelling"
    /\ \/ /\ Ended(r) /\ Cleanup(r) /\ Finish(r, "uncertain")
       \/ /\ Alive(r) /\ Finish(r, "unreaped")
          /\ UNCHANGED <<workerVars, down, stuck, journal>>
    /\ UNCHANGED <<user, touches>>

\* try_wait sees the exit: what is left of the tree is killed, the keys are released,
\* and only then the control, the exit status and the reply are looked at.
SeeExit(r) ==
    /\ InProgress(r) /\ worker[r] = "exited"
    /\ Cleanup(r)
    /\ \E result \in IF Over(r) THEN {"cancelled"}
                     ELSE IF spoilt[r] THEN {"failed"} ELSE {"ok", "failed"} :
          Finish(r, result)
    /\ spoilt' = [spoilt EXCEPT ![r] = FALSE]
    /\ UNCHANGED <<worker, noticed, at, pressed, user, touches>>

\* The kill that the parent no longer waits for takes effect at last.
DieLate(r) ==
    /\ call[r] = "unreaped" /\ Alive(r)
    /\ Ended(r)
    /\ UNCHANGED <<callVars, control, keyVars>>

------------------------------------------------------------------------------
(* The worker process. *)

Become(r, state) == worker' = [worker EXCEPT ![r] = state]
Modifiers(r) == Plan[r][at[r]]

\* The reply is written and the process ends.
Exit(r, error) ==
    /\ Become(r, "exited") /\ noticed' = noticed \ {r}
    /\ spoilt' = [spoilt EXCEPT ![r] = error]
    /\ UNCHANGED <<at, pressed>>

\* The worker has the plan: it begins, or refuses it (validate, approved, Enigo).
Read(r) ==
    /\ worker[r] = "reading" /\ input[r] \in {"sent", "held"}
    /\ \/ Become(r, "checking") /\ UNCHANGED <<noticed, at, pressed, spoilt>>
       \/ Exit(r, TRUE)
    /\ UNCHANGED <<callVars, control, keyVars>>

\* The worker's own control ends: CANCEL has come or the pipe has gone,
\* or the deadline has passed.
Notice(r) ==
    /\ Alive(r) /\ worker[r] # "reading" /\ r \notin noticed
    /\ r \in told \/ control[r] = "expired" \/ call[r] = "unreaped"
    /\ noticed' = noticed \cup {r}
    /\ UNCHANGED <<callVars, control, worker, at, pressed, spoilt, keyVars>>

\* Before and after every action, and at the end: control.check.
NextAction(r) ==
    /\ worker[r] = "checking"
    /\ IF r \notin noticed /\ at[r] <= Len(Plan[r])
       THEN Become(r, "owning") /\ UNCHANGED <<noticed, at, pressed, spoilt>>
       ELSE Exit(r, r \in noticed)
    /\ UNCHANGED <<callVars, control, keyVars>>

\* Mutant: pressing leaves the bit to the release.
OwnUnrecorded(r) ==
    /\ worker[r] = "owning" /\ Len(pressed[r]) < Len(Modifiers(r))
    /\ LET m == Modifiers(r)[Len(pressed[r]) + 1] IN
       /\ m \notin down
       /\ pressed' = [pressed EXCEPT ![r] = Append(@, m)]
    /\ Become(r, "pressing")
    /\ UNCHANGED <<callVars, control, noticed, at, spoilt, keyVars>>

\* keys::pressing: a modifier that is down already is refused; the bit of any other
\* is set before it is pressed.
Own(r) ==
    /\ worker[r] = "owning" /\ Len(pressed[r]) < Len(Modifiers(r))
    /\ LET m == Modifiers(r)[Len(pressed[r]) + 1] IN
       \/ /\ m \in down
          /\ Become(r, "releasing") /\ spoilt' = [spoilt EXCEPT ![r] = TRUE]
          /\ UNCHANGED <<journal, pressed>>
       \/ /\ m \notin down
          /\ journal' = [journal EXCEPT ![r] = @ \cup {m}]
          /\ pressed' = [pressed EXCEPT ![r] = Append(@, m)]
          /\ Become(r, "pressing") /\ UNCHANGED spoilt
    /\ UNCHANGED <<callVars, control, noticed, at, down, user, stuck, touches>>

\* enigo: the modifier goes down, or the action fails and it is released all the same.
Press(r) ==
    /\ worker[r] = "pressing"
    /\ \/ /\ down' = down \cup {pressed[r][Len(pressed[r])]}
          /\ Become(r, "owning") /\ UNCHANGED spoilt
       \/ /\ Become(r, "releasing") /\ spoilt' = [spoilt EXCEPT ![r] = TRUE]
          /\ UNCHANGED down
    /\ UNCHANGED <<callVars, control, noticed, at, pressed, journal, user, stuck,
                   touches>>

\* The action itself, with its modifiers down.
Act(r) ==
    /\ worker[r] = "owning" /\ Len(pressed[r]) = Len(Modifiers(r))
    /\ \E fails \in BOOLEAN : spoilt' = [spoilt EXCEPT ![r] = fails]
    /\ Become(r, "releasing")
    /\ UNCHANGED <<callVars, control, noticed, at, pressed, keyVars>>

\* The modifiers go up in reverse; a failure leaves the bit to the parent.
Release(r) ==
    /\ worker[r] = "releasing" /\ pressed[r] # << >>
    /\ LET m == pressed[r][Len(pressed[r])] IN
       \/ /\ down' = down \ {m} /\ Become(r, "clearing")
          /\ UNCHANGED <<pressed, spoilt>>
       \/ /\ pressed' = [pressed EXCEPT ![r] = SubSeq(@, 1, Len(@) - 1)]
          /\ spoilt' = [spoilt EXCEPT ![r] = TRUE]
          /\ UNCHANGED <<down, worker>>
    /\ UNCHANGED <<callVars, control, noticed, at, journal, user, stuck, touches>>

\* keys::released: the bit goes after the key.
Clear(r) ==
    /\ worker[r] = "clearing"
    /\ journal' = [journal EXCEPT ![r] = @ \ {pressed[r][Len(pressed[r])]}]
    /\ pressed' = [pressed EXCEPT ![r] = SubSeq(@, 1, Len(@) - 1)]
    /\ Become(r, "releasing")
    /\ UNCHANGED <<callVars, control, noticed, at, spoilt, down, user, stuck,
                   touches>>

EndAction(r) ==
    /\ worker[r] = "releasing" /\ pressed[r] = << >>
    /\ IF spoilt[r]
       THEN Exit(r, TRUE)
       ELSE /\ Become(r, "checking") /\ at' = [at EXCEPT ![r] = @ + 1]
            /\ UNCHANGED <<noticed, pressed, spoilt>>
    /\ UNCHANGED <<callVars, control, keyVars>>

\* The user presses a modifier or lets it go.
Touch(m) ==
    /\ touches < MaxTouches /\ touches' = touches + 1
    /\ IF m \in user THEN user' = user \ {m} /\ down' = down \ {m}
       ELSE user' = user \cup {m} /\ down' = down \cup {m}
    /\ UNCHANGED <<callVars, control, workerVars, journal, stuck>>

------------------------------------------------------------------------------

ParentStep(r) ==
    \/ AskExecution(r) \/ TakeSlot(r) \/ GiveUpWaiting(r) \/ Start(r) \/ WriteInput(r)
    \/ TakePipe(r) \/ BeginCancelling(r) \/ Kill(r) \/ SeeExit(r)

WorkerStep(r) ==
    \/ Read(r) \/ Notice(r) \/ NextAction(r) \/ Own(r) \/ Press(r) \/ Act(r)
    \/ Release(r) \/ Clear(r) \/ EndAction(r)

ExecutorNext ==
    \/ \E r \in Run : ParentStep(r) \/ WorkerStep(r) \/ ControlEnds(r) \/ DieLate(r)
    \/ \E m \in Modifier : Touch(m)

\* The caller's threads run and deadlines pass; a worker may hang in a native call.
ExecutorFairness ==
    /\ WF_executorVars(\E r \in Run : call[r] # "idle" /\ ParentStep(r))
    /\ WF_executorVars(\E r \in Run : ControlEnds(r))

------------------------------------------------------------------------------
(* What makes the executor correct. *)

\* Two workers never act on the desktop at once, until one could not be reaped.
OneActs == \A r, q \in Run : Alive(r) /\ Alive(q) /\ r # q => broken

\* When the call has returned nothing acts any more, unless the worker could not be
\* reaped: a cancelled plan does not go on behind the answer of the phone.
ReturnedMeansStopped ==
    \A r \in Run : call[r] \in Results \ {"unreaped"} => ~Alive(r)

\* A modifier that is down without the user is in the journal of an execution in
\* progress, which will release it however it ends; a worker that could not be
\* reaped and a release that the system refused are the exceptions.
ModifiersComeUp ==
    \A m \in down \ user :
        \/ m \in stuck
        \/ \E r \in Run : m \in journal[r] /\ (InProgress(r) \/ call[r] = "unreaped")

\* An execution that is reported as done has done every action of its plan.
DoneMeansAll == \A r \in Run : call[r] = "ok" => at[r] = Len(Plan[r]) + 1

WorkersAreContained ==
    OneActs /\ ReturnedMeansStopped /\ ModifiersComeUp /\ DoneMeansAll

\* Every execution that is asked for returns, even when its worker hangs.
ExecutionsReturn ==
    \A r \in Run : call[r] = "waiting" ~> call[r] \in Results
================================================================================
