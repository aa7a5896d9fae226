-------------------------------- MODULE MCDesktop --------------------------------
(* Small instances of what the program does on the desktop itself: the making of a
   plan, the worker process that carries it out, the way of a click to its pixel, the
   pictures of the screen, the engine's own models, and the process that watches for
   crashes and hangs.  They share no state; a behaviour is of one of them, chosen at
   the start. *)
EXTENDS NativeExecutor, ScreenCapture, ClickGeometry, PlanMaking, LocalInference,
        CrashMonitor, HangDetector, TLC

VARIABLE part
watchVars == <<monitorVars, hangVars>>
desktopVars ==
    <<executorVars, screenVars, aim, planningVars, localVars, watchVars, part>>

\* The executions: one presses a key with a modifier, one has nothing to do.
CONSTANTS e1, e2, ctrl
SomePlans == e1 :> << <<ctrl>> >> @@ e2 :> << << >> >>

\* The desktops: the test window, the same with the target moved, and another window.
CONSTANTS here, moved, other
SomeNodes == here :> {{1}, {1, 2}} @@ moved :> {{2}} @@ other :> {{1}}

\* The calls of the local models, and the configurations they are made under.
CONSTANTS l1, l2, l3
Calls(x, y, z) == l1 :> x @@ l2 :> y @@ l3 :> z
SomeTasks == {Calls("transcribe", "describe", "text"),
              Calls("transcribe", "transcribe", "text"),
              Calls("text", "text", "describe"), Calls("generate", "ask", "describe")}
Under(mode, network, apis) ==
    [mode |-> mode, network |-> network, preferCloud |-> TRUE, apis |-> apis,
     models |-> LocalTask]
SomeSettings ==
    {Under("local", "normal", {})} \cup
    {Under("adaptive", network, apis) :
        network \in {"normal", "weak", "offline"}, apis \in {{}, {"cloud"}}}

\* The parts that a behaviour does not run stand still in one state.
DesktopInit ==
    /\ part \in {"executor", "screen", "planning", "clicks", "local", "crashes",
                "hangs"}
    /\ ExecutorInit
    /\ ScreenInit /\ (part # "screen" => generation = 1)
    /\ PlanningInit
    /\ part # "planning" => /\ ask.mode = "local" /\ kept = NoContent /\ desk = here
                            /\ ~ask.upload /\ ~ask.spoken /\ ~ask.controlled
    /\ IF part = "clicks" THEN GeometryInit
       ELSE aim = [span |-> 1, image |-> 1, before |-> 0, share |-> 0, left |-> 0,
                   width |-> 1]
    /\ LocalInit
    /\ part # "local" => /\ settings.mode = "local"
                         /\ taskOf = Calls("generate", "ask", "describe")
    /\ MonitorInit /\ HangInit

DesktopNext ==
    /\ UNCHANGED <<part, aim>>
    /\ \/ /\ part = "executor" /\ ExecutorNext
          /\ UNCHANGED <<screenVars, planningVars, localVars, watchVars>>
       \/ /\ part = "screen" /\ ScreenNext
          /\ UNCHANGED <<executorVars, planningVars, localVars, watchVars>>
       \/ /\ part = "planning" /\ PlanningNext
          /\ UNCHANGED <<executorVars, screenVars, localVars, watchVars>>
       \/ /\ part = "local" /\ LocalNext
          /\ UNCHANGED <<executorVars, screenVars, planningVars, watchVars>>
       \/ /\ part = "crashes" /\ MonitorNext /\ UNCHANGED hangVars
          /\ UNCHANGED <<executorVars, screenVars, planningVars, localVars>>
       \/ /\ part = "hangs" /\ Probe /\ UNCHANGED monitorVars
          /\ UNCHANGED <<executorVars, screenVars, planningVars, localVars>>

DesktopSpec == DesktopInit /\ [][DesktopNext]_desktopVars /\ ExecutorFairness

\* What a confirmed plan does to the desktop: it was announced and fits the screen it
\* was made for, its click lands on the element, one worker acts at a time and stops
\* when its call returns, and no modifier key stays down (execute_plan_controlled).
ActionsAreContained == PlansFitTheScreen /\ ClicksLandOnElement /\ WorkersAreContained

\* The pictures of the screen show neither keys nor codes, and go to a remote model
\* only when the user allows it (capture_async, handle_request).
PicturesArePrivate == ScreenIsPrivate /\ PicturesStay

\* What the helper process promises: a crash is answered and a hang is one
\* (windows.rs, HangDetector).
FailuresAreWatched == CrashesAreAnswered /\ HangIsReal
================================================================================
