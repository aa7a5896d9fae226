------------------------------- MODULE PlanMaking -------------------------------
(* From a request to the click: what handle_request in src/ale-gui/src/
   remote_server.rs asks of the desktop and of the models, and in which order, and
   what start_remote_execution and the automation check again before they act.  The
   desktop changes meanwhile, the picture is the capture loop's last one, and the
   engine's lock is shared with the rest of the program.  The task around the
   request is RemoteConnection's, the pictures' privacy ScreenCapture's. *)
EXTENDS Naturals, FiniteSets

CONSTANTS
    Content,      \* what the desktop may show
    NoContent,
    Point,        \* where a click may go
    Nodes,        \* Nodes[c]: the elements that match the target, as sets of points
    TestWindow,   \* the contents whose foreground is the controlled test window
    MaxChanges    \* bound: changes of the desktop

VARIABLES
    ask,        \* the request: its mode, whether pictures may be uploaded, whether it
                \* is spoken, and whether controlled execution is enabled
    stage,      \* where the request, and later the execution of its plan, is
    desk,       \* what the desktop shows
    kept,       \* the frame that the capture loop keeps
    picture,    \* the picture of the request
    tree,       \* the content that the accessibility snapshot is of
    engine,     \* who holds the engine's lock
    plan,       \* the plan that is offered, or NoPlan
    risk,       \* its risk
    preview,    \* what the user is shown: [plan, confirm]
    uploaded,   \* what a remote model was sent besides the question
    clicked,    \* the click: the point and the content
    drifted,    \* the desktop has changed since the picture was compared, the element
                \* was found
    changes

askVars == <<ask, uploaded>>
deskVars == <<desk, kept, drifted, changes>>
planVars == <<plan, risk, preview>>
planningVars == <<askVars, deskVars, planVars, stage, picture, tree, engine, clicked>>

NoPlan == [kind |-> "none"]
NoPreview == [plan |-> FALSE, confirm |-> FALSE]
Risk == {"low", "medium", "high"}
Concluded == {"answered", "failed", "executed", "refused", "unverified"}

PlanningInit ==
    /\ ask \in [mode : {"local", "daemon", "engine"}, upload : BOOLEAN,
                spoken : BOOLEAN, controlled : BOOLEAN]
    /\ stage = "asked" /\ desk \in Content /\ kept \in {desk, NoContent}
    /\ picture = NoContent /\ tree = NoContent /\ engine = "free"
    /\ plan = NoPlan /\ risk = "low" /\ preview = NoPreview /\ uploaded = {}
    /\ clicked = NoContent /\ drifted = {} /\ changes = 0

------------------------------------------------------------------------------
(* The world around the request. *)

ChangeDesk ==
    /\ changes < MaxChanges /\ changes' = changes + 1
    /\ desk' \in Content \ {desk}
    /\ drifted' = {"compared", "found"}
    /\ UNCHANGED <<askVars, planVars, kept, stage, picture, tree, engine, clicked>>

\* The loop's next frame, or none: a capture failed, or captures are suspended.
NextFrame ==
    /\ kept' \in {desk, NoContent} \ {kept}
    /\ stage \in {"asked", "capture"}
    /\ UNCHANGED <<askVars, planVars, desk, drifted, changes, stage, picture, tree,
                   engine, clicked>>

\* A save, or another request, takes the engine and gives it back.
OthersUseEngine ==
    /\ \/ engine = "free" /\ engine' = "others"
       \/ engine = "others" /\ engine' = "free"
    /\ UNCHANGED <<askVars, planVars, deskVars, stage, picture, tree, clicked>>

------------------------------------------------------------------------------
(* handle_request. *)

\* Every await may be the last one: the request fails, times out or is aborted, and
\* its guards are dropped with it.
Unlocked == IF engine = "request" THEN "free" ELSE engine
Fail ==
    /\ stage' = "failed" /\ engine' = Unlocked
    /\ UNCHANGED <<planVars, picture, tree, uploaded>>

GoTo(next) == stage' = next

\* The wait for the engine's lock, and what is done under it; without the daemon the
\* model is called under it.
LockEngine ==
    /\ engine = "free" /\ engine' = "request"
    /\ \/ stage = "asked" /\ ask.spoken /\ ask.mode = "engine" /\ GoTo("transcribe")
       \/ stage = "prepare" /\ GoTo("prepared")
       \/ stage = "ask" /\ GoTo("asking")
    /\ UNCHANGED <<askVars, planVars, deskVars, picture, tree, clicked>>

\* The text of the request: given, of the daemon, or of the engine.
HaveQuestion ==
    /\ \/ stage = "asked" /\ ~(ask.spoken /\ ask.mode = "engine")
       \/ stage = "transcribe"
    /\ \/ GoTo("capture") /\ engine' = Unlocked /\ UNCHANGED <<planVars, picture, tree,
                                                               uploaded>>
       \/ ask.spoken /\ Fail
    /\ UNCHANGED <<ask, deskVars, clicked>>

\* Mutant: the model decides whether it gets the picture.
MayCaptureAlways == TRUE

\* Whether the request may have a picture at all.
MayCapture == ask.upload \/ ask.mode = "local"

\* capture_cached: the kept frame, or none when it fails or comes too late.
Capture ==
    /\ stage = "capture"
    /\ picture' \in IF MayCapture THEN {kept, NoContent} ELSE {NoContent}
    /\ IF ask.mode = "local" /\ picture' = NoContent THEN GoTo("failed")
       ELSE GoTo(CASE ask.mode = "local" -> "tree" [] ask.mode = "daemon" -> "prepare"
                   [] ask.mode = "engine" -> "ask")
    /\ UNCHANGED <<askVars, planVars, deskVars, tree, engine, clicked>>

\* accessibility: of the desktop as it is now, which may not be the picture's.
ReadTree ==
    /\ stage = "tree" /\ GoTo("prepare")
    /\ tree' \in {desk, NoContent}
    /\ UNCHANGED <<askVars, planVars, deskVars, picture, engine, clicked>>

\* prepare_vision_question, and the lock is free again before the model is called.
Prepared ==
    /\ stage = "prepared" /\ engine' = "free"
    /\ GoTo(IF ask.mode = "local" THEN "localPlan" ELSE "remotePlan")
    /\ uploaded' = IF ask.mode = "daemon" /\ picture # NoContent THEN {"picture"}
                   ELSE {}
    /\ UNCHANGED <<ask, planVars, deskVars, picture, tree, clicked>>

Answer(offered, level) ==
    /\ stage' = "answered" /\ engine' = Unlocked
    /\ plan' = offered /\ risk' = level
    /\ preview' = [plan |-> offered # NoPlan,
                   confirm |-> offered # NoPlan /\ level # "low"]

\* local_plan: a plan with or without a target, or none that is valid and its own.
LocalPlanned ==
    /\ stage = "localPlan"
    /\ \/ GoTo("ground") /\ UNCHANGED <<planVars, engine, picture, tree, uploaded>>
       \/ Answer(NoPlan, "low") /\ UNCHANGED <<picture, tree, uploaded>>
       \/ Fail
    /\ UNCHANGED <<ask, deskVars, clicked>>

\* accessibility_node_matches, and the daemon's selection: the point of the model is
\* in exactly one candidate, and close enough to its centre.
Candidates == IF tree = NoContent THEN {} ELSE Nodes[tree]
Selected(point) == Cardinality({node \in Candidates : point \in node}) = 1
Controlled == ask.controlled /\ tree \in TestWindow

\* ground: whatever fails, the answer is the plan in words.
Ground ==
    /\ stage = "ground"
    /\ \/ \E point \in Point :
             /\ Selected(point) /\ Controlled
             /\ Answer([kind |-> "controlled", point |-> point, of |-> picture],
                       "medium")
       \/ Answer(NoPlan, "low")
    /\ UNCHANGED <<askVars, deskVars, picture, tree, clicked>>

\* remote_plan: the daemon's tools have no coordinates, so no plan comes of them.
RemotePlanned ==
    /\ stage = "remotePlan"
    /\ \/ Answer(NoPlan, "low") /\ UNCHANGED <<picture, tree, uploaded>>
       \/ Fail
    /\ UNCHANGED <<ask, deskVars, clicked>>

\* Without the daemon the engine asks its model, with the tools of the automation
\* when there is a picture; map_plan may refuse the coordinates.
EngineAnswers ==
    /\ stage = "asking"
    /\ uploaded' = IF picture # NoContent THEN {"picture"} ELSE {}
    /\ \/ /\ picture # NoContent
          /\ \E point \in Point, level \in Risk :
                Answer([kind |-> "free", point |-> point, of |-> picture], level)
          /\ UNCHANGED <<picture, tree>>
       \/ Answer(NoPlan, "low") /\ UNCHANGED <<picture, tree>>
       \/ /\ stage' = "failed" /\ engine' = Unlocked
          /\ UNCHANGED <<planVars, picture, tree>>
    /\ UNCHANGED <<ask, deskVars, clicked>>

\* REQUEST_TIMEOUT, an abort, or a failure of the daemon where the code waits.
Interrupted ==
    /\ stage \in {"transcribe", "capture", "tree", "prepare", "localPlan", "ground",
                  "remotePlan", "ask", "asking"}
    /\ Fail
    /\ UNCHANGED <<ask, deskVars, clicked>>

------------------------------------------------------------------------------
(* The execution of the plan, once it is confirmed. *)

Confirm ==
    /\ stage = "answered" /\ plan # NoPlan
    /\ GoTo(IF plan.kind = "controlled" THEN "compare" ELSE "act")
    /\ UNCHANGED <<askVars, planVars, deskVars, picture, tree, engine, clicked>>

\* start_remote_execution: a new picture must be the plan's.
SamePicture(content) == content = plan.of

Compare ==
    /\ stage = "compare"
    /\ \E now \in {desk, NoContent} :
          GoTo(IF SamePicture(now) THEN "find" ELSE "refused")
    /\ drifted' = drifted \ {"compared"}
    /\ UNCHANGED <<askVars, planVars, desk, kept, changes, picture, tree, engine,
                   clicked>>

\* validate_controlled_test_target: the window in front and the rectangle of the
\* first element of the name, now.
Found == desk \in TestWindow /\ \E node \in Nodes[desk] : plan.point \in node

FindElement ==
    /\ stage = "find"
    /\ GoTo(IF Found THEN "act" ELSE "refused")
    /\ drifted' = drifted \ {"found"}
    /\ UNCHANGED <<askVars, planVars, desk, kept, changes, picture, tree, engine,
                   clicked>>

Click ==
    /\ stage = "act"
    /\ clicked' = [point |-> plan.point, on |-> desk, drifted |-> drifted]
    /\ GoTo(IF plan.kind = "controlled" THEN "verify" ELSE "executed")
    /\ UNCHANGED <<askVars, planVars, deskVars, picture, tree, engine>>

\* A controlled click is reported as done only when a model sees its effect.
Verify ==
    /\ stage = "verify" /\ stage' \in {"executed", "unverified"}
    /\ UNCHANGED <<askVars, planVars, deskVars, picture, tree, engine, clicked>>

PlanningNext ==
    \/ ChangeDesk \/ NextFrame \/ OthersUseEngine \/ LockEngine \/ HaveQuestion
    \/ Capture \/ ReadTree \/ Prepared \/ LocalPlanned \/ Ground \/ RemotePlanned
    \/ EngineAnswers \/ Interrupted \/ Confirm \/ Compare \/ FindElement \/ Click
    \/ Verify

------------------------------------------------------------------------------

\* A controlled click that nothing overtook after the element was found hits an
\* element of the test window; one that nothing overtook after the comparison hits it
\* on the very screen the model was shown, though picture and elements were taken at
\* different times.
ClicksFit ==
    clicked # NoContent /\ plan.kind = "controlled" =>
        /\ "found" \notin clicked.drifted =>
               /\ clicked.on \in TestWindow
               /\ \E node \in Nodes[clicked.on] : clicked.point \in node
        /\ "compared" \notin clicked.drifted => clicked.on = plan.of

\* A picture goes to a remote model only when the user allows it, and a request that
\* is planned locally uploads none.
PicturesStay == "picture" \in uploaded => ask.upload /\ ask.mode # "local"

\* Only a plan that the preview announces is ever executed, and what is not harmless
\* asks to be confirmed; a request that has ended holds no lock.
NothingUnannounced ==
    /\ plan # NoPlan => preview.plan /\ (risk # "low" => preview.confirm)
    /\ stage \in Concluded => engine # "request"

PlansFitTheScreen == ClicksFit /\ NothingUnannounced
================================================================================
