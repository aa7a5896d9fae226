----------------------------- MODULE LocalInference -----------------------------
(* The engine's own models: which model answers (select_inference_mode and the calls
   of src/ale-core/src/inference.rs), and how a call of a local one runs its kernel on
   a blocking thread (src/ale-core/src/blocking_worker.rs; asr.rs, vlm.rs, llm.rs).
   The caller may go away at any await; the kernel keeps its permits until it has
   really ended, and is asked to end by a flag and by the runtime's own abort. *)
EXTENDS Naturals, FiniteSets

CONSTANTS
    Call,
    Tasks,       \* the assignments of tasks to the calls
    Workers,     \* the permits shared by all local models (2)
    Settings,    \* the configurations: mode, network, preferCloud, apis, models
    MaxTokens    \* bound: the tokens of a text

Task == {"transcribe", "describe", "ask", "generate", "text"}

\* Calls are many and finite; how many, nothing bounds.
ASSUME LocalAssumption ==
    /\ IsFiniteSet(Call) /\ Workers \in Nat /\ MaxTokens \in Nat
    /\ Tasks \subseteq [Call -> Task]

VARIABLES
    taskOf,      \* what each call wants
    settings,    \* the configuration and what is loaded
    free,        \* free[t]: the permits of the model of task t (1 or 0)
    spare,       \* the permits of all of them
    caller,      \* where the call is
    kernel,      \* its blocking task: "none", "queued", "checking", "running", "gone"
    flagged,     \* the cancellation flags that are set
    aborted,     \* the runtime's aborts that are requested
    tokens,      \* the tokens made
    idle         \* kernel steps begun after the flag was set (history)

choice == <<taskOf, settings>>
localVars == <<choice, free, spare, caller, kernel, flagged, aborted, tokens, idle>>

Complexity(task) ==
    CASE task = "transcribe" -> "simple"
      [] task \in {"describe", "ask"} -> "complex"
      [] task = "generate" -> "medium"

\* The models that run here: whisper, the image model, and the text model, which the
\* engine itself does not use.
LocalTask == {"transcribe", "describe", "text"}

LocalInit ==
    /\ settings \in Settings /\ taskOf \in Tasks
    /\ free = [t \in LocalTask |-> 1] /\ spare = Workers
    /\ caller = [c \in Call |-> "idle"] /\ kernel = [c \in Call |-> "none"]
    /\ flagged = {} /\ aborted = {}
    /\ tokens = [c \in Call |-> 0] /\ idle = [c \in Call |-> 0]

\* select_inference_mode: a simple task goes to the cloud whenever there is one, the
\* others also look at the network.
Adaptive(complexity) ==
    CASE complexity = "simple" -> IF "cloud" \in settings.apis THEN "cloud" ELSE "local"
      [] complexity = "medium" ->
            IF settings.network \in {"offline", "weak"} \/ ~settings.preferCloud
            THEN "local" ELSE "cloud"
      [] complexity = "complex" ->
            IF settings.network = "offline" THEN "local" ELSE "cloud"

Mode(task) ==
    IF task = "text" THEN "local"
    ELSE IF settings.mode = "adaptive" THEN Adaptive(Complexity(task))
    ELSE settings.mode

\* The API that a task needs: transcription has one of its own.
ApiFor(task) == IF task = "transcribe" THEN "transcription" ELSE "cloud"

Becomes(c, state) == caller' = [caller EXCEPT ![c] = state]

------------------------------------------------------------------------------
(* The call. *)

AskModel(c) ==
    /\ caller[c] = "idle"
    /\ Becomes(c,
          IF Mode(taskOf[c]) = "cloud"
          THEN IF ApiFor(taskOf[c]) \in settings.apis THEN "cloud" ELSE "failed"
          ELSE IF taskOf[c] \in settings.models \cap LocalTask THEN "admission"
          ELSE "failed")
    /\ UNCHANGED <<choice, free, spare, kernel, flagged, aborted, tokens, idle>>

CloudAnswers(c) ==
    /\ caller[c] = "cloud"
    /\ \/ Becomes(c, "answered") \/ Becomes(c, "failed")
    /\ UNCHANGED <<choice, free, spare, kernel, flagged, aborted, tokens, idle>>

\* run: the permit of the model.
TakeModel(c) ==
    /\ caller[c] = "admission"
    /\ IF free[taskOf[c]] > 0
       THEN free' = [free EXCEPT ![taskOf[c]] = @ - 1] /\ Becomes(c, "held")
       ELSE Becomes(c, "busy") /\ UNCHANGED free
    /\ UNCHANGED <<choice, spare, kernel, flagged, aborted, tokens, idle>>

\* The shared permit, and the task; without it the first one is given back.
TakeWorker(c) ==
    /\ caller[c] = "held"
    /\ \/ /\ spare > 0
          /\ spare' = spare - 1 /\ Becomes(c, "waiting")
          /\ kernel' = [kernel EXCEPT ![c] = "queued"]
          /\ UNCHANGED free
       \/ /\ spare = 0
          /\ free' = [free EXCEPT ![taskOf[c]] = @ + 1] /\ Becomes(c, "busy")
          /\ UNCHANGED <<spare, kernel>>
    /\ UNCHANGED <<choice, flagged, aborted, tokens, idle>>

\* Cancellation::drop: the deadline has passed, or the caller has gone.  The flag
\* first, and then the abort of the runtime, where there is one.
LeaveCall(c) ==
    /\ caller[c] = "waiting"
    /\ flagged' = flagged \cup {c} /\ Becomes(c, "leaving")
    /\ UNCHANGED <<choice, free, spare, kernel, aborted, tokens, idle>>

AbortKernel(c) ==
    /\ caller[c] = "leaving"
    /\ aborted' = IF taskOf[c] = "transcribe" THEN aborted ELSE aborted \cup {c}
    /\ Becomes(c, "left")
    /\ UNCHANGED <<choice, free, spare, kernel, flagged, tokens, idle>>

\* The result of the worker, which may be an error.
TakeResult(c) ==
    /\ caller[c] = "waiting" /\ kernel[c] = "gone"
    /\ \/ Becomes(c, "answered") \/ Becomes(c, "failed")
    /\ UNCHANGED <<choice, free, spare, kernel, flagged, aborted, tokens, idle>>

------------------------------------------------------------------------------
(* The blocking task. *)

\* Mutant: the permits go with the call that is left.
KernelGoneEarly(c) ==
    /\ kernel' = [kernel EXCEPT ![c] = "gone"]
    /\ IF c \in flagged THEN UNCHANGED <<free, spare>>
       ELSE free' = [free EXCEPT ![taskOf[c]] = @ + 1] /\ spare' = spare + 1

\* It ends, and its two permits are given back with it.
KernelGone(c) ==
    /\ kernel' = [kernel EXCEPT ![c] = "gone"]
    /\ free' = [free EXCEPT ![taskOf[c]] = @ + 1]
    /\ spare' = spare + 1

\* check: a task whose caller has gone while it was queued does not begin.
Begin(c) ==
    /\ kernel[c] = "queued"
    /\ IF c \in flagged THEN KernelGone(c)
       ELSE kernel' = [kernel EXCEPT ![c] = "checking"] /\ UNCHANGED <<free, spare>>
    /\ UNCHANGED <<choice, caller, flagged, aborted, tokens, idle>>

\* Before each pass of the runtime: the audio or the image is decoded, and between
\* the tokens of a text.
CheckFlag(c) ==
    /\ kernel[c] = "checking"
    /\ IF c \in flagged THEN KernelGone(c)
       ELSE kernel' = [kernel EXCEPT ![c] = "entering"] /\ UNCHANGED <<free, spare>>
    /\ UNCHANGED <<choice, caller, flagged, aborted, tokens, idle>>

\* The runtime is entered: an abort that came before is still there.
Enter(c) ==
    /\ kernel[c] = "entering"
    /\ IF c \in aborted THEN KernelGone(c) /\ UNCHANGED idle
       ELSE /\ kernel' = [kernel EXCEPT ![c] = "running"]
            /\ idle' = IF c \in flagged THEN [idle EXCEPT ![c] = @ + 1] ELSE idle
            /\ UNCHANGED <<free, spare>>
    /\ UNCHANGED <<choice, caller, flagged, aborted, tokens>>

\* It returns: with the result, a token, an error, or because it was aborted; whisper
\* reads the flag itself.
KernelReturns(c) ==
    /\ kernel[c] = "running"
    /\ \/ KernelGone(c) /\ UNCHANGED tokens
       \/ /\ taskOf[c] = "text" /\ tokens[c] < MaxTokens
          /\ tokens' = [tokens EXCEPT ![c] = @ + 1]
          /\ kernel' = [kernel EXCEPT ![c] = "checking"]
          /\ UNCHANGED <<free, spare>>
    /\ UNCHANGED <<choice, caller, flagged, aborted, idle>>

LocalNext ==
    \E c \in Call :
        \/ AskModel(c) \/ CloudAnswers(c) \/ TakeModel(c) \/ TakeWorker(c)
        \/ LeaveCall(c) \/ AbortKernel(c) \/ TakeResult(c)
        \/ Begin(c) \/ CheckFlag(c) \/ Enter(c) \/ KernelReturns(c)

------------------------------------------------------------------------------

Working(c) == kernel[c] \notin {"none", "gone"}

\* However calls come, fail and go away: no model runs two kernels, all of them run no
\* more than the shared permits, no permit is lost, and a kernel enters its runtime at
\* most once after its caller has gone, and never when it was still queued.
LocalWorkIsBounded ==
    /\ \A t \in LocalTask : free[t] + Cardinality({c \in Call : taskOf[c] = t /\
                                   (Working(c) \/ caller[c] = "held")}) = 1
    /\ spare + Cardinality({c \in Call : Working(c)}) = Workers
    /\ \A c \in Call : idle[c] <= 1
    /\ \A c \in Call : caller[c] = "answered" => ~Working(c)
================================================================================
