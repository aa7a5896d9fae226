----------------------------- MODULE ScreenCapture -----------------------------
(* Which pictures of the screen leave the desktop while its own window shows keys or
   a pairing code: the window, which raises and lowers the veil (page in src/ale-gui/
   src/desktop_ui.rs, set_sensitive_ui_visible in platform/desktop.rs), the loop and
   the captures on demand (src/ale-gui/src/screen_capture.rs), and the blocking
   workers of the requests (capture_async in platform/mod.rs).  The veil is a flag
   of the platform and a generation shared by all captures, which is odd while they
   are suspended. *)
EXTENDS Naturals, Sequences

CONSTANTS
    Request,     \* requests that want a picture
    NoFrame,
    MaxPages     \* bound: pages that are opened

VARIABLES
    server,      \* "absent", "starting" (the platform is there), "raising",
                 \* "started" (requests are served), "ready" (the window has it)
    pages,       \* the pages opened so far; the last one is the window's
    painted,     \* which of them is on the screen
    timers,      \* the visits of "main" whose 250 ms run
    window,      \* where the window's thread is, with the page it opens
    sensitive,   \* the platform's flag
    generation,  \* CAPTURE_VISIBILITY_GENERATION
    early,       \* captures were allowed before the page was on the screen
    frame,       \* latest_frame
    loop,        \* the capture of the loop: "rest", or the frame it makes
    taker,       \* taker[r]: the blocking worker of a request
    given        \* given[r]: what the request was given

screenVars == <<server, pages, painted, timers, window, sensitive, generation,
                early, frame, loop, taker, given>>

Page == {"main", "secret"}
Suspended == generation % 2 = 1

\* What a picture taken now shows.
Screen ==
    IF pages[painted] = "main" THEN "main" ELSE IF early THEN "early" ELSE "secret"
Frame(g, shows) == [generation |-> g, shows |-> shows]
At(step) == [step |-> step]
Capturing(step, capture) == [step |-> step, capture |-> capture]
Taking(r) == taker[r].step \notin {"none", "done"}

ScreenInit ==
    /\ server = "absent" /\ pages = <<"secret">> /\ painted = 1 /\ timers = {}
    /\ window = At("idle") /\ sensitive = FALSE /\ generation \in {0, 1} /\ early = FALSE
    /\ frame = NoFrame /\ loop = At("rest")
    /\ taker = [r \in Request |-> At("none")] /\ given = [r \in Request |-> "none"]

------------------------------------------------------------------------------
(* The window and the start of the server. *)

\* set_capture_suspended: a step only when the wanted state differs; the kept frame
\* is dropped unless the loop holds its lock.
Suspend(wanted) ==
    /\ generation' = IF Suspended = wanted THEN generation ELSE generation + 1
    /\ frame' \in {frame, NoFrame}

\* start: the platform is created with its loop, and then the veil is raised.
StartServer ==
    \/ /\ server = "absent" /\ server' = "starting"
       /\ UNCHANGED <<sensitive, generation, frame>>
    \/ /\ server = "starting" /\ server' = "raising" /\ sensitive' = TRUE
       /\ UNCHANGED <<generation, frame>>
    \/ /\ server = "raising" /\ server' = "started" /\ Suspend(TRUE)
       /\ UNCHANGED sensitive
StartStep ==
    /\ StartServer
    /\ UNCHANGED <<pages, painted, timers, window, early, loop, taker, given>>

\* The window takes the server over, and raises the veil again.
TakeServer ==
    /\ server = "started" /\ window.step = "idle"
    /\ server' = "ready" /\ sensitive' = TRUE /\ Suspend(TRUE) /\ early' = FALSE
    /\ UNCHANGED <<pages, painted, timers, window, loop, taker, given>>

\* page: the flag, the generation, and only then the page.
OpenPage(target) ==
    /\ window.step = "idle" /\ Len(pages) < MaxPages
    /\ window' = [step |-> IF server = "ready" THEN "raise" ELSE "show", page |-> target]
    /\ sensitive' = (sensitive \/ server = "ready")
    /\ UNCHANGED <<server, pages, painted, timers, generation, early, frame, loop,
                   taker, given>>

RaiseVeil ==
    /\ window.step = "raise"
    /\ window' = [window EXCEPT !.step = "show"]
    /\ Suspend(TRUE) /\ early' = FALSE
    /\ UNCHANGED <<server, pages, painted, timers, sensitive, loop, taker, given>>

ShowPage ==
    /\ window.step = "show"
    /\ pages' = Append(pages, window.page) /\ window' = At("idle")
    /\ timers' = IF window.page = "main" /\ server = "ready"
                 THEN timers \cup {Len(pages')} ELSE timers
    /\ UNCHANGED <<server, painted, sensitive, generation, early, frame, loop, taker,
                   given>>

Paint ==
    /\ painted < Len(pages) /\ painted' = Len(pages)
    /\ UNCHANGED <<server, pages, timers, window, sensitive, generation, early, frame,
                   loop, taker, given>>

\* 250 ms after a visit began, its page or a later one is on the screen; the timer
\* only asks whether the window is at "main" again.
LowerVeil(visit) ==
    /\ window.step = "idle" /\ visit \in timers /\ painted >= visit
    /\ timers' = timers \ {visit}
    /\ IF pages[Len(pages)] = "main"
       THEN /\ Suspend(FALSE) /\ window' = At("lower")
            /\ early' = (painted < Len(pages))
       ELSE UNCHANGED <<generation, frame, window, early>>
    /\ UNCHANGED <<server, pages, painted, sensitive, loop, taker, given>>

LowerFlag ==
    /\ window.step = "lower"
    /\ sensitive' = FALSE /\ window' = At("idle")
    /\ UNCHANGED <<server, pages, painted, timers, generation, early, frame, loop,
                   taker, given>>

------------------------------------------------------------------------------
(* The loop that keeps the latest frame. *)

\* A capture notes the generation, unless it is suspended, and grabs the screen
\* later: its content is the screen's then.
LoopBegins ==
    /\ server # "absent" /\ loop.step = "rest"
    /\ IF Suspended THEN frame' = NoFrame /\ UNCHANGED loop
       ELSE loop' = Capturing("grab", Frame(generation, "nothing")) /\ UNCHANGED frame
    /\ UNCHANGED <<server, pages, painted, timers, window, sensitive, generation,
                   early, taker, given>>

LoopGrabs ==
    /\ loop.step = "grab"
    /\ loop' = Capturing("check", [loop.capture EXCEPT !.shows = Screen])
    /\ UNCHANGED <<server, pages, painted, timers, window, sensitive, generation,
                   early, frame, taker, given>>

\* A capture is valid when the generation has not moved since it began.
Valid(capture) == capture.generation = generation

\* The last look at the generation comes before the frame's place is locked.
LoopChecks ==
    /\ loop.step = "check"
    /\ loop' = IF Valid(loop.capture) THEN Capturing("store", loop.capture)
               ELSE At("rest")
    /\ UNCHANGED <<server, pages, painted, timers, window, sensitive, generation,
                   early, frame, taker, given>>

LoopStores ==
    /\ loop.step = "store"
    /\ frame' = loop.capture /\ loop' = At("rest")
    /\ UNCHANGED <<server, pages, painted, timers, window, sensitive, generation,
                   early, taker, given>>

------------------------------------------------------------------------------
(* A request: one blocking worker at a time, whether or not it is still waited for. *)

WorkerBecomes(r, state) == taker' = [taker EXCEPT ![r] = state]
Give(r, shows) ==
    WorkerBecomes(r, At("done")) /\ given' = [given EXCEPT ![r] = shows]

\* capture_async, and the platform's flag; the server answers requests.
AskPicture(r) ==
    /\ server \in {"started", "ready"} /\ taker[r].step = "none"
    /\ IF (\E q \in Request : Taking(q)) \/ sensitive
       THEN Give(r, "none")
       ELSE /\ \E kind \in {"fresh", "cached"} : WorkerBecomes(r, At(kind))
            /\ UNCHANGED given
    /\ UNCHANGED <<server, pages, painted, timers, window, sensitive, generation,
                   early, frame, loop>>

\* capture_image_now: the same capture as the loop's; latest_frame: the generation
\* first, then the frame.
NoteGeneration(r) ==
    /\ Taking(r) /\ taker[r].step \in {"fresh", "cached"}
    /\ IF Suspended THEN Give(r, "none")
       ELSE /\ WorkerBecomes(r, Capturing(IF taker[r].step = "fresh" THEN "grab"
                                         ELSE "look", Frame(generation, "nothing")))
            /\ UNCHANGED given
    /\ UNCHANGED <<server, pages, painted, timers, window, sensitive, generation,
                   early, frame, loop>>

Grab(r) ==
    /\ Taking(r) /\ taker[r].step = "grab"
    /\ WorkerBecomes(r, Capturing("check",
                                  [taker[r].capture EXCEPT !.shows = Screen]))
    /\ UNCHANGED <<server, pages, painted, timers, window, sensitive, generation,
                   early, frame, loop, given>>

CheckCapture(r) ==
    /\ Taking(r) /\ taker[r].step = "check"
    /\ Give(r, IF Valid(taker[r].capture) THEN taker[r].capture.shows ELSE "none")
    /\ UNCHANGED <<server, pages, painted, timers, window, sensitive, generation,
                   early, frame, loop>>

\* The kept frame, of the generation that was noted.
OfGeneration(capture, g) == capture # NoFrame /\ capture.generation = g

LatestFrame(r) ==
    /\ Taking(r) /\ taker[r].step = "look"
    /\ Give(r, IF OfGeneration(frame, taker[r].capture.generation) THEN frame.shows
               ELSE "none")
    /\ UNCHANGED <<server, pages, painted, timers, window, sensitive, generation,
                   early, frame, loop>>

ScreenNext ==
    \/ StartStep \/ TakeServer \/ (\E target \in Page : OpenPage(target))
    \/ RaiseVeil \/ ShowPage \/ Paint \/ (\E visit \in timers : LowerVeil(visit))
    \/ LowerFlag \/ LoopBegins \/ LoopGrabs \/ LoopChecks \/ LoopStores
    \/ \E r \in Request : \/ AskPicture(r) \/ NoteGeneration(r) \/ Grab(r)
                          \/ CheckCapture(r) \/ LatestFrame(r)

------------------------------------------------------------------------------

\* No request is given a picture of the settings or of the pairing code, however the
\* captures overlap the changes of page.  What a timer of an earlier visit allowed
\* before the screen had caught up is "early", and not covered by it.
ScreenIsPrivate == \A r \in Request : given[r] # "secret"
================================================================================
