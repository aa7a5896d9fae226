------------------------------ MODULE Desktop_proofs ------------------------------
(* What the program does on the desktop is contained, for every number of requests,
   calls, threads and changes: the pictures that leave it, the local models that work,
   the crashes that are answered, and the plans that are carried out. *)
EXTENDS MCDesktop, FiniteSetTheorems, SequenceTheorems, TLAPS

-----------------------------------------------------------------------------
(***************************************************************************)
(* Pictures of the screen.  A capture notes the generation, which is even  *)
(* while captures are allowed, and what it shows is used only when the     *)
(* generation is still the same: so it is enough that the screen shows no  *)
(* secret while the server serves requests and captures are allowed.       *)
(***************************************************************************)
Window == [step : {"idle", "lower"}] \cup [step : {"raise", "show"}, page : Page]
Capture2 == [generation : {g \in Nat : g % 2 = 0}, shows : {"nothing", "main", "early", "secret"}]
Loops == [step : {"rest"}] \cup [step : {"grab", "check", "store"}, capture : Capture2]
Takers == [step : {"none", "done", "fresh", "cached"}]
             \cup [step : {"grab", "check", "look"}, capture : Capture2]

ScreenTypes ==
    /\ server \in {"absent", "starting", "raising", "started", "ready"}
    /\ pages \in Seq(Page) /\ painted \in 1..Len(pages)
    /\ window \in Window
    /\ generation \in Nat /\ early \in BOOLEAN
    /\ frame \in Capture2 \cup {NoFrame}
    /\ loop \in Loops /\ taker \in [Request -> Takers]
    /\ given \in [Request -> {"none", "nothing", "main", "early", "secret"}]

Serving == server \in {"started", "ready"}

\* While requests are served and captures are allowed, the window is at a page without
\* secrets, which is on the screen unless a timer came early.
VeilInv ==
    /\ server # "ready" => timers = {}
    /\ server = "started" => Suspended
    /\ server = "ready" /\ window.step = "show" => Suspended
    /\ server = "ready" /\ ~Suspended =>
          pages[Len(pages)] = "main" /\ (early \/ painted = Len(pages))

\* At generation g, a capture does not show a secret to a request.
Harmless(capture, g, serving) ==
    /\ capture.generation <= g
    /\ capture.shows = "secret" => capture.generation < g \/ ~serving

\* A secret frame is of an earlier generation than the one a request has noted.
Older(capture, noted) == capture.shows = "secret" => capture.generation < noted.generation

CapturesInv ==
    /\ loop.step # "rest" => Harmless(loop.capture, generation, Serving)
    /\ frame # NoFrame => Harmless(frame, generation, Serving)
    /\ \A r \in Request : taker[r].step \in {"grab", "check", "look"} =>
                             Harmless(taker[r].capture, generation, Serving)
    /\ \A r \in Request : taker[r].step = "look" =>
          /\ frame # NoFrame => Older(frame, taker[r].capture)
          /\ loop.step = "store" => Older(loop.capture, taker[r].capture)
    /\ ~Serving => \A r \in Request : taker[r].step = "none"
    /\ \A r \in Request : given[r] # "secret"

ScreenInv == ScreenTypes /\ VeilInv /\ CapturesInv

LEMMA ScreenStarts ==
  ASSUME ScreenInit
  PROVE  ScreenInv
<1>1. /\ server = "absent" /\ pages = <<"secret">> /\ painted = 1 /\ timers = {}
      /\ window = [step |-> "idle"] /\ generation \in {0, 1} /\ early = FALSE
      /\ frame = NoFrame /\ loop = [step |-> "rest"]
      /\ taker = [r \in Request |-> [step |-> "none"]]
      /\ given = [r \in Request |-> "none"]
  BY DEF ScreenInit, At
<1>2. ScreenTypes
  <2>1. pages \in Seq(Page) /\ painted \in 1..Len(pages)
    BY <1>1 DEF Page
  <2>2. window \in Window /\ loop \in Loops /\ taker \in [Request -> Takers]
    BY <1>1 DEF Window, Loops, Takers
  <2>3. given \in [Request -> {"none", "nothing", "main", "early", "secret"}]
    BY <1>1
  <2>4. /\ server \in {"absent", "starting", "raising", "started", "ready"}
        /\ early \in BOOLEAN /\ frame \in Capture2 \cup {NoFrame}
    BY <1>1
  <2>5. generation \in Nat
    BY <1>1
  <2> QED
    BY <2>1, <2>2, <2>3, <2>4, <2>5 DEF ScreenTypes
<1>3. VeilInv
  BY <1>1 DEF VeilInv, Suspended
<1>4. CapturesInv
  BY <1>1 DEF CapturesInv, Serving
<1> QED
  BY <1>2, <1>3, <1>4 DEF ScreenInv

\* The generation moves only to the wanted parity.
LEMMA SuspendMoves ==
  ASSUME generation \in Nat, NEW wanted \in BOOLEAN, Suspend(wanted)
  PROVE  /\ generation' \in Nat /\ generation <= generation'
         /\ Suspended' <=> wanted
         /\ (generation' = generation) \/ (generation < generation')
         /\ frame' = frame \/ frame' = NoFrame
<1>1. generation' = generation \/ generation' = generation + 1
  BY DEF Suspend
<1>2. Suspended' <=> wanted
  BY <1>1 DEF Suspend, Suspended
<1> QED
  BY <1>1, <1>2 DEF Suspend

\* What the screen shows.
LEMMA ScreenShows ==
  ASSUME ScreenTypes
  PROVE  Screen \in {"main", "early", "secret"}
BY DEF Screen

LEMMA ScreenTypesKept ==
  ASSUME ScreenTypes, ScreenNext
  PROVE  ScreenTypes'
<1> USE DEF ScreenTypes
<1>0. frame \in Capture2 \cup {NoFrame}
  OBVIOUS
<1>1. CASE StartStep
  <2>1. CASE server = "raising" /\ Suspend(TRUE)
    BY <1>1, <2>1, SuspendMoves DEF StartStep, StartServer
  <2> QED
    BY <1>1, <2>1 DEF StartStep, StartServer
<1>2. CASE TakeServer
  BY <1>2, SuspendMoves DEF TakeServer
<1>3. ASSUME NEW target \in Page, OpenPage(target) PROVE ScreenTypes'
  <2>1. window' \in Window
    BY <1>3 DEF OpenPage, Window
  <2> QED
    BY <1>3, <2>1 DEF OpenPage
<1>4. CASE RaiseVeil
  <2>1. window' \in Window
    BY <1>4 DEF RaiseVeil, Window
  <2> QED
    BY <1>4, <2>1, SuspendMoves DEF RaiseVeil
<1>5. CASE ShowPage
  <2>1. window.page \in Page /\ window' \in Window
    BY <1>5 DEF ShowPage, Window, At
  <2>2. pages' \in Seq(Page) /\ Len(pages') = Len(pages) + 1
    BY <1>5, <2>1, AppendProperties DEF ShowPage
  <2> QED
    BY <1>5, <2>1, <2>2 DEF ShowPage
<1>6. CASE Paint
  BY <1>6 DEF Paint
<1>7. ASSUME NEW visit \in timers, LowerVeil(visit) PROVE ScreenTypes'
  <2>1. UNCHANGED <<server, pages, painted, sensitive, loop, taker, given>>
    BY <1>7 DEF LowerVeil
  <2>2. CASE pages[Len(pages)] = "main"
    <3>1. Suspend(FALSE) /\ window' = [step |-> "lower"]
      BY <1>7, <2>2 DEF LowerVeil, At
    <3>2. early' \in BOOLEAN
      BY <1>7, <2>2 DEF LowerVeil
    <3>3. window' \in Window
      BY <3>1 DEF Window
    <3>4. generation' \in Nat /\ (frame' = frame \/ frame' = NoFrame)
      BY <3>1, SuspendMoves
    <3> QED
      BY <2>1, <3>2, <3>3, <3>4
  <2>3. CASE pages[Len(pages)] # "main"
    BY <1>7, <2>1, <2>3 DEF LowerVeil
  <2> QED
    BY <2>2, <2>3
<1>8. CASE LowerFlag
  <2>1. window' \in Window
    BY <1>8 DEF LowerFlag, Window, At
  <2> QED
    BY <1>8, <2>1 DEF LowerFlag
<1>9. CASE LoopBegins
  <2>1. loop' \in Loops
    BY <1>9 DEF LoopBegins, Loops, Capturing, Frame, Suspended, Capture2
  <2> QED
    BY <1>9, <2>1 DEF LoopBegins
<1>10. CASE LoopGrabs
  <2>1. loop.capture \in Capture2
    BY <1>10 DEF LoopGrabs, Loops
  <2>2. [loop.capture EXCEPT !.shows = Screen] \in Capture2
    BY <2>1, ScreenShows DEF Capture2
  <2>3. loop' \in Loops
    BY <1>10, <2>2 DEF LoopGrabs, Loops, Capturing
  <2> QED
    BY <1>10, <2>3 DEF LoopGrabs
<1>11. CASE LoopChecks
  <2>1. loop' \in Loops
    BY <1>11 DEF LoopChecks, Loops, Capturing, At
  <2> QED
    BY <1>11, <2>1 DEF LoopChecks
<1>12. CASE LoopStores
  <2>1. loop' \in Loops /\ frame' \in Capture2
    BY <1>12 DEF LoopStores, Loops, At
  <2> QED
    BY <1>12, <2>1 DEF LoopStores
<1>13. ASSUME NEW r \in Request,
              AskPicture(r) \/ NoteGeneration(r) \/ Grab(r) \/ CheckCapture(r) \/ LatestFrame(r)
       PROVE  ScreenTypes'
  <2>1. UNCHANGED <<server, pages, painted, timers, window, generation, early, frame, loop>>
    BY <1>13 DEF AskPicture, NoteGeneration, Grab, CheckCapture, LatestFrame
  <2>2. taker' \in [Request -> Takers]
    <3>1. CASE AskPicture(r)
      BY <3>1 DEF AskPicture, Give, WorkerBecomes, At, Takers
    <3>2. CASE NoteGeneration(r)
      <4>1. CASE Suspended
        BY <3>2, <4>1 DEF NoteGeneration, Give, WorkerBecomes, At, Takers
      <4>2. CASE ~Suspended
        <5>1. Frame(generation, "nothing") \in Capture2
          BY <4>2 DEF Frame, Suspended, Capture2
        <5>2. \E step \in {"grab", "look"} :
                 taker' = [taker EXCEPT ![r] = Capturing(step, Frame(generation, "nothing"))]
          BY <3>2, <4>2 DEF NoteGeneration, WorkerBecomes
        <5> QED
          BY <5>1, <5>2 DEF Takers, Capturing
      <4> QED
        BY <4>1, <4>2
    <3>3. CASE Grab(r)
      <4>1. taker[r].capture \in Capture2
        BY <3>3 DEF Grab, Takers
      <4>2. [taker[r].capture EXCEPT !.shows = Screen] \in Capture2
        BY <4>1, ScreenShows DEF Capture2
      <4> QED
        BY <3>3, <4>2 DEF Grab, WorkerBecomes, Takers, Capturing
    <3>4. CASE CheckCapture(r) \/ LatestFrame(r)
      BY <3>4 DEF CheckCapture, LatestFrame, Give, WorkerBecomes, At, Takers
    <3> QED
      BY <1>13, <3>1, <3>2, <3>3, <3>4
  <2>3. given' \in [Request -> {"none", "nothing", "main", "early", "secret"}]
    <3>1. CASE AskPicture(r) \/ NoteGeneration(r) \/ Grab(r)
      BY <3>1 DEF AskPicture, NoteGeneration, Grab, Give
    <3>2. CASE CheckCapture(r)
      <4>1. taker[r].capture \in Capture2
        BY <3>2 DEF CheckCapture, Takers
      <4> QED
        BY <3>2, <4>1 DEF CheckCapture, Give, Capture2
    <3>3. CASE LatestFrame(r)
      <4>1. CASE OfGeneration(frame, taker[r].capture.generation)
        <5>1. frame.shows \in {"nothing", "main", "early", "secret"}
          BY <4>1 DEF OfGeneration, Capture2
        <5> QED
          BY <3>3, <4>1, <5>1 DEF LatestFrame, Give
      <4> QED
        BY <3>3, <4>1 DEF LatestFrame, Give
    <3> QED
      BY <1>13, <3>1, <3>2, <3>3
  <2> QED
    BY <2>1, <2>2, <2>3
<1> QED
  BY <1>1, <1>2, <1>3, <1>4, <1>5, <1>6, <1>7, <1>8, <1>9, <1>10, <1>11, <1>12, <1>13
     DEF ScreenNext

LEMMA VeilKept ==
  ASSUME ScreenTypes, VeilInv, ScreenNext
  PROVE  VeilInv'
<1> USE DEF ScreenTypes
<1>1. CASE StartStep
  <2>1. CASE server = "raising" /\ Suspend(TRUE)
    BY <1>1, <2>1, SuspendMoves DEF StartStep, StartServer, VeilInv
  <2> QED
    BY <1>1, <2>1 DEF StartStep, StartServer, VeilInv
<1>2. CASE TakeServer
  BY <1>2, SuspendMoves DEF TakeServer, VeilInv
<1>3. ASSUME NEW target \in Page, OpenPage(target) PROVE VeilInv'
  <2>1. Suspended' = Suspended
    BY <1>3 DEF OpenPage, Suspended
  <2> QED
    BY <1>3, <2>1 DEF OpenPage, VeilInv
<1>4. CASE RaiseVeil
  BY <1>4, SuspendMoves DEF RaiseVeil, VeilInv
<1>5. CASE ShowPage
  <2>1. Suspended' = Suspended
    BY <1>5 DEF ShowPage, Suspended
  <2> QED
    BY <1>5, <2>1 DEF ShowPage, VeilInv, At
<1>6. CASE Paint
  <2>1. Suspended' = Suspended
    BY <1>6 DEF Paint, Suspended
  <2> QED
    BY <1>6, <2>1 DEF Paint, VeilInv
<1>7. ASSUME NEW visit \in timers, LowerVeil(visit) PROVE VeilInv'
  <2>1. CASE pages[Len(pages)] = "main"
    <3>1. ~Suspended'
      BY <1>7, <2>1, SuspendMoves DEF LowerVeil
    <3>2. /\ UNCHANGED <<server, pages, painted>> /\ timers' \subseteq timers
          /\ window'.step = "lower" /\ early' = (painted < Len(pages))
      BY <1>7, <2>1 DEF LowerVeil, At
    <3>3. server = "ready"
      BY <1>7 DEF LowerVeil, VeilInv
    <3>4. early' \/ painted = Len(pages)
      <4>1. CASE painted < Len(pages)
        BY <3>2, <4>1
      <4>2. CASE ~(painted < Len(pages))
        BY <4>2
      <4> QED
        BY <4>1, <4>2
    <3> QED
      BY <2>1, <3>1, <3>2, <3>3, <3>4 DEF VeilInv
  <2>2. CASE pages[Len(pages)] # "main"
    <3>1. Suspended' = Suspended
      BY <1>7, <2>2 DEF LowerVeil, Suspended
    <3> QED
      BY <1>7, <2>2, <3>1 DEF LowerVeil, VeilInv
  <2> QED
    BY <2>1, <2>2
<1>8. CASE LowerFlag
  <2>1. Suspended' = Suspended
    BY <1>8 DEF LowerFlag, Suspended
  <2> QED
    BY <1>8, <2>1 DEF LowerFlag, VeilInv, At
<1>9. CASE UNCHANGED <<server, pages, painted, timers, window, generation, early>>
  BY <1>9 DEF VeilInv, Suspended
<1> QED
  BY <1>1, <1>2, <1>3, <1>4, <1>5, <1>6, <1>7, <1>8, <1>9
     DEF ScreenNext, LoopBegins, LoopGrabs, LoopChecks, LoopStores, AskPicture,
         NoteGeneration, Grab, CheckCapture, LatestFrame

LEMMA HarmlessStays ==
  ASSUME NEW c \in Capture2, NEW g \in Nat, NEW h \in Nat, g <= h,
         NEW serving, NEW serves, Harmless(c, g, serving), serves /\ ~serving => h % 2 = 1
  PROVE  Harmless(c, h, serves)
<1>1. c.generation \in Nat /\ c.generation % 2 = 0
  BY DEF Capture2
<1>2. c.generation <= h
  BY <1>1 DEF Harmless
<1>3. ASSUME c.shows = "secret", serves PROVE c.generation < h
  <2>1. CASE serving
    BY <1>1, <1>3, <2>1 DEF Harmless
  <2>2. CASE ~serving
    <3>1. c.generation # h
      BY <1>1, <1>3, <2>2
    <3> QED
      BY <1>1, <1>2, <3>1
  <2> QED
    BY <2>1, <2>2
<1> QED
  BY <1>2, <1>3 DEF Harmless

\* The generation grows, requests stay served, and are first served while captures are
\* suspended.
LEMMA VeilMoves ==
  ASSUME ScreenTypes, ScreenNext
  PROVE  /\ generation' \in Nat /\ generation <= generation'
         /\ Serving => Serving'
         /\ Serving' /\ ~Serving => generation' % 2 = 1
<1> USE DEF ScreenTypes, Serving
<1>1. CASE StartStep
  <2>1. CASE server = "raising" /\ Suspend(TRUE)
    BY <1>1, <2>1, SuspendMoves DEF StartStep, StartServer, Suspended
  <2>2. CASE generation' = generation /\ server \in {"absent", "starting"}
                 /\ server' \in {"starting", "raising"}
    BY <2>2
  <2> QED
    BY <1>1, <2>1, <2>2 DEF StartStep, StartServer
<1>2. CASE TakeServer
  BY <1>2, SuspendMoves DEF TakeServer
<1>3. CASE RaiseVeil
  BY <1>3, SuspendMoves DEF RaiseVeil
<1>4. ASSUME NEW visit \in timers, LowerVeil(visit)
      PROVE  generation' \in Nat /\ generation <= generation' /\ server' = server
  <2>1. CASE pages[Len(pages)] = "main"
    BY <1>4, <2>1, SuspendMoves DEF LowerVeil
  <2>2. CASE pages[Len(pages)] # "main"
    <3>1. generation' = generation /\ server' = server
      BY <1>4, <2>2 DEF LowerVeil
    <3> QED
      BY <3>1
  <2> QED
    BY <2>1, <2>2
<1>5. CASE UNCHANGED <<server, generation>>
  BY <1>5
<1> QED
  BY <1>1, <1>2, <1>3, <1>4, <1>5
     DEF ScreenNext, OpenPage, ShowPage, Paint, LowerFlag, LoopBegins, LoopGrabs, LoopChecks,
         LoopStores, AskPicture, NoteGeneration, Grab, CheckCapture, LatestFrame

\* What a request may see while captures are allowed.
LEMMA AllowedShowsNone ==
  ASSUME ScreenTypes, VeilInv, Serving, ~Suspended
  PROVE  Screen # "secret"
<1>1. server = "ready"
  BY DEF VeilInv, Serving
<1>2. pages[Len(pages)] = "main" /\ (early \/ painted = Len(pages))
  BY <1>1 DEF VeilInv
<1> QED
  BY <1>2 DEF Screen

\* A picture taken now is harmless.
LEMMA GrabbedIsHarmless ==
  ASSUME ScreenTypes, VeilInv, NEW c \in Capture2, Harmless(c, generation, Serving)
  PROVE  Harmless([c EXCEPT !.shows = Screen], generation, Serving)
<1> DEFINE d == [c EXCEPT !.shows = Screen]
<1>1. /\ d.generation = c.generation /\ d.shows = Screen
      /\ c.generation \in Nat /\ c.generation % 2 = 0
  BY DEF Capture2
<1> HIDE DEF d
<1>2. generation \in Nat /\ c.generation <= generation
  BY DEF Harmless, ScreenTypes
<1>3. ASSUME d.shows = "secret", Serving PROVE d.generation < generation
  <2>1. Suspended
    BY <1>1, <1>3, AllowedShowsNone
  <2>2. c.generation # generation
    BY <1>1, <2>1 DEF Suspended
  <2> QED
    BY <1>1, <1>2, <2>2
<1>4. Harmless(d, generation, Serving)
  BY <1>1, <1>2, <1>3 DEF Harmless
<1> QED
  BY <1>4 DEF d

\* What is valid shows no secret.
LEMMA ValidShowsNone ==
  ASSUME ScreenTypes, NEW c \in Capture2, Harmless(c, generation, Serving), Valid(c), Serving
  PROVE  c.shows # "secret"
BY DEF ScreenTypes, Harmless, Valid

\* What the steps do with the loop and the kept frame.
LEMMA LoopMoves ==
  ASSUME ScreenTypes, ScreenNext
  PROVE  \/ loop' = loop /\ (frame' = frame \/ frame' = NoFrame)
         \/ LoopBegins \/ LoopGrabs \/ LoopChecks \/ LoopStores
<1> USE DEF ScreenTypes
<1>1. CASE StartStep
  <2>1. CASE Suspend(TRUE)
    BY <1>1, <2>1 DEF StartStep, Suspend
  <2>2. CASE UNCHANGED frame
    BY <1>1, <2>2 DEF StartStep
  <2> QED
    BY <1>1, <2>1, <2>2 DEF StartStep, StartServer
<1>2. CASE TakeServer \/ RaiseVeil
  BY <1>2 DEF TakeServer, RaiseVeil, Suspend
<1>3. ASSUME NEW visit \in timers, LowerVeil(visit)
      PROVE  loop' = loop /\ (frame' = frame \/ frame' = NoFrame)
  <2>1. CASE Suspend(FALSE)
    BY <1>3, <2>1 DEF LowerVeil, Suspend
  <2>2. CASE UNCHANGED frame
    BY <1>3, <2>2 DEF LowerVeil
  <2> QED
    BY <1>3, <2>1, <2>2 DEF LowerVeil
<1>4. CASE UNCHANGED <<loop, frame>>
  BY <1>4
<1> QED
  BY <1>1, <1>2, <1>3, <1>4
     DEF ScreenNext, OpenPage, ShowPage, Paint, LowerFlag, AskPicture, NoteGeneration, Grab,
         CheckCapture, LatestFrame

\* What they do with the worker of a request.
LEMMA TakerMoves ==
  ASSUME ScreenTypes, ScreenNext, NEW r \in Request
  PROVE  \/ taker'[r] = taker[r] /\ given'[r] = given[r]
         \/ AskPicture(r) \/ NoteGeneration(r) \/ Grab(r) \/ CheckCapture(r) \/ LatestFrame(r)
<1> USE DEF ScreenTypes
<1>1. ASSUME NEW q \in Request, q # r,
             AskPicture(q) \/ NoteGeneration(q) \/ Grab(q) \/ CheckCapture(q) \/ LatestFrame(q)
      PROVE  taker'[r] = taker[r] /\ given'[r] = given[r]
  BY <1>1 DEF AskPicture, NoteGeneration, Grab, CheckCapture, LatestFrame, Give, WorkerBecomes
<1>2. CASE UNCHANGED <<taker, given>>
  BY <1>2
<1> QED
  BY <1>1, <1>2
     DEF ScreenNext, StartStep, TakeServer, OpenPage, RaiseVeil, ShowPage, Paint, LowerVeil,
         LowerFlag, LoopBegins, LoopGrabs, LoopChecks, LoopStores

LEMMA CapturesKept ==
  ASSUME ScreenTypes, VeilInv, CapturesInv, ScreenNext
  PROVE  CapturesInv'
<1>1. /\ generation \in Nat /\ generation' \in Nat /\ generation <= generation'
      /\ Serving => Serving'
      /\ Serving' /\ ~Serving => generation' % 2 = 1
  BY VeilMoves DEF ScreenTypes
<1>2. \A c \in Capture2 : Harmless(c, generation, Serving)
                             => Harmless(c, generation', Serving')
  BY <1>1, HarmlessStays
<1>3. /\ loop.step # "rest" => loop.capture \in Capture2
      /\ frame # NoFrame => frame \in Capture2
      /\ \A r \in Request : taker[r].step \in {"grab", "check", "look"}
                                => taker[r].capture \in Capture2
      /\ loop.step \in {"rest", "grab", "check", "store"}
  BY DEF ScreenTypes, Loops, Takers
<1>4. loop'.step # "rest" => Harmless(loop'.capture, generation', Serving')
  <2>1. CASE loop' = loop
    BY <1>2, <1>3, <2>1 DEF CapturesInv
  <2>2. CASE LoopBegins
    <3>1. CASE Suspended
      BY <2>2, <3>1 DEF LoopBegins
    <3>2. CASE ~Suspended
      <4>1. /\ loop'.capture = [generation |-> generation, shows |-> "nothing"]
            /\ generation' = generation
        BY <2>2, <3>2 DEF LoopBegins, Capturing, Frame
      <4> QED
        BY <1>1, <4>1 DEF Harmless
    <3> QED
      BY <3>1, <3>2
  <2>3. CASE LoopGrabs
    <3>1. /\ loop.step = "grab" /\ loop'.capture = [loop.capture EXCEPT !.shows = Screen]
          /\ generation' = generation /\ server' = server
      BY <2>3 DEF LoopGrabs, Capturing
    <3>2. Harmless([loop.capture EXCEPT !.shows = Screen], generation, Serving)
      BY <1>3, <3>1, GrabbedIsHarmless DEF CapturesInv
    <3> QED
      BY <3>1, <3>2 DEF Serving
  <2>4. CASE LoopChecks
    <3>1. /\ loop.step = "check" /\ (loop'.step # "rest" => loop'.capture = loop.capture)
      BY <2>4 DEF LoopChecks, Capturing, At
    <3> QED
      BY <1>2, <1>3, <3>1 DEF CapturesInv
  <2>5. CASE LoopStores
    BY <2>5 DEF LoopStores, At
  <2> QED
    BY <2>1, <2>2, <2>3, <2>4, <2>5, LoopMoves
<1>5. frame' # NoFrame => Harmless(frame', generation', Serving')
  <2>1. CASE frame' = frame \/ frame' = NoFrame
    BY <1>2, <1>3, <2>1 DEF CapturesInv
  <2>2. CASE LoopStores
    <3>1. loop.step = "store" /\ frame' = loop.capture
      BY <2>2 DEF LoopStores
    <3> QED
      BY <1>2, <1>3, <3>1 DEF CapturesInv
  <2> QED
    BY <2>1, <2>2, LoopMoves DEF LoopBegins, LoopGrabs, LoopChecks
<1>6. ASSUME NEW r \in Request, taker[r].step # "none"
      PROVE  Serving
  BY <1>6 DEF CapturesInv
<1>7. ASSUME NEW r \in Request, taker'[r].step \in {"grab", "check", "look"}
      PROVE  Harmless(taker'[r].capture, generation', Serving')
  <2>1. CASE taker'[r] = taker[r]
    BY <1>2, <1>3, <1>7, <2>1 DEF CapturesInv
  <2>2. CASE AskPicture(r) \/ CheckCapture(r) \/ LatestFrame(r)
    BY <1>7, <2>2 DEF AskPicture, CheckCapture, LatestFrame, Give, WorkerBecomes, At, ScreenTypes
  <2>3. CASE NoteGeneration(r)
    <3>1. /\ taker'[r].capture = [generation |-> generation, shows |-> "nothing"]
          /\ generation' = generation
      BY <1>7, <2>3 DEF NoteGeneration, Give, WorkerBecomes, At, Capturing, Frame, ScreenTypes
    <3> QED
      BY <1>1, <3>1 DEF Harmless
  <2>4. CASE Grab(r)
    <3>1. /\ taker[r].step = "grab"
          /\ taker'[r].capture = [taker[r].capture EXCEPT !.shows = Screen]
          /\ generation' = generation /\ server' = server
      BY <2>4 DEF Grab, WorkerBecomes, Capturing, ScreenTypes
    <3>2. Harmless([taker[r].capture EXCEPT !.shows = Screen], generation, Serving)
      BY <1>3, <3>1, GrabbedIsHarmless DEF CapturesInv
    <3> QED
      BY <3>1, <3>2 DEF Serving
  <2> QED
    BY <2>1, <2>2, <2>3, <2>4, TakerMoves
<1>8. ASSUME NEW r \in Request, taker'[r].step = "look"
      PROVE  /\ frame' # NoFrame => Older(frame', taker'[r].capture)
             /\ loop'.step = "store" => Older(loop'.capture, taker'[r].capture)
  <2>1. CASE taker'[r] = taker[r]
    <3>1. taker[r].step = "look" /\ Serving
      BY <1>6, <1>8, <2>1
    <3>2. frame' # NoFrame => Older(frame', taker[r].capture)
      <4>1. CASE frame' = frame \/ frame' = NoFrame
        BY <3>1, <4>1 DEF CapturesInv
      <4>2. CASE LoopStores
        BY <3>1, <4>2 DEF LoopStores, CapturesInv
      <4> QED
        BY <4>1, <4>2, LoopMoves DEF LoopBegins, LoopGrabs, LoopChecks
    <3>3. loop'.step = "store" => Older(loop'.capture, taker[r].capture)
      <4>1. CASE loop' = loop
        BY <3>1, <4>1 DEF CapturesInv
      <4>2. CASE LoopChecks
        <5>1. loop.step = "check" /\ loop.capture \in Capture2
          BY <1>3, <4>2 DEF LoopChecks
        <5>2. CASE Valid(loop.capture)
          <6>1. loop.capture.shows # "secret"
            BY <3>1, <5>1, <5>2, ValidShowsNone DEF CapturesInv
          <6>2. loop'.capture = loop.capture
            BY <4>2, <5>2 DEF LoopChecks, Capturing
          <6> QED
            BY <6>1, <6>2 DEF Older
        <5>3. CASE ~Valid(loop.capture)
          BY <4>2, <5>3 DEF LoopChecks, At
        <5> QED
          BY <5>2, <5>3
      <4>3. CASE LoopBegins \/ LoopGrabs \/ LoopStores
        BY <4>3 DEF LoopBegins, LoopGrabs, LoopStores, At, Capturing
      <4> QED
        BY <4>1, <4>2, <4>3, LoopMoves
    <3> QED
      BY <2>1, <3>2, <3>3
  <2>2. CASE AskPicture(r) \/ CheckCapture(r) \/ LatestFrame(r) \/ Grab(r)
    BY <1>8, <2>2 DEF AskPicture, CheckCapture, LatestFrame, Grab, Give, WorkerBecomes, At,
                      Capturing, ScreenTypes
  <2>3. CASE NoteGeneration(r)
    <3>1. /\ taker'[r].capture = [generation |-> generation, shows |-> "nothing"]
          /\ UNCHANGED <<loop, frame>> /\ taker[r].step # "none"
      BY <1>8, <2>3 DEF NoteGeneration, Give, WorkerBecomes, At, Capturing, Frame, ScreenTypes,
                        Taking
    <3>2. Serving
      BY <1>6, <3>1
    <3>3. /\ frame # NoFrame => Harmless(frame, generation, TRUE)
          /\ loop.step = "store" => Harmless(loop.capture, generation, TRUE)
      BY <3>2 DEF CapturesInv, Harmless
    <3> QED
      BY <3>1, <3>3 DEF Older, Harmless
  <2> QED
    BY <2>1, <2>2, <2>3, TakerMoves
<1>9. ASSUME ~Serving', NEW r \in Request
      PROVE  taker'[r].step = "none"
  <2>1. ~Serving /\ taker[r].step = "none"
    BY <1>1, <1>6, <1>9
  <2>2. taker'[r] = taker[r]
    BY <2>1, TakerMoves DEF AskPicture, NoteGeneration, Grab, CheckCapture, LatestFrame,
                            Taking, Serving
  <2> QED
    BY <2>1, <2>2
<1>10. ASSUME NEW r \in Request
       PROVE  given'[r] # "secret"
  <2>0. given[r] # "secret"
    BY DEF CapturesInv
  <2>1. CASE given'[r] = given[r]
    BY <2>0, <2>1
  <2>2. CASE AskPicture(r) \/ NoteGeneration(r) \/ Grab(r)
    BY <2>0, <2>2 DEF AskPicture, NoteGeneration, Grab, Give, ScreenTypes
  <2>3. CASE CheckCapture(r)
    <3>1. taker[r].step = "check" /\ Serving /\ taker[r].capture \in Capture2
      BY <1>3, <1>6, <2>3 DEF CheckCapture
    <3>2. given'[r] = IF Valid(taker[r].capture) THEN taker[r].capture.shows ELSE "none"
      BY <2>3 DEF CheckCapture, Give, ScreenTypes
    <3>3. Valid(taker[r].capture) => taker[r].capture.shows # "secret"
      BY <3>1, ValidShowsNone DEF CapturesInv
    <3> QED
      BY <3>2, <3>3
  <2>4. CASE LatestFrame(r)
    <3>1. taker[r].step = "look" /\ taker[r].capture \in Capture2
      BY <1>3, <2>4 DEF LatestFrame
    <3>2. given'[r] = IF OfGeneration(frame, taker[r].capture.generation) THEN frame.shows
                      ELSE "none"
      BY <2>4 DEF LatestFrame, Give, ScreenTypes
    <3>3. OfGeneration(frame, taker[r].capture.generation) => frame.shows # "secret"
      <4>1. taker[r].capture.generation \in Nat
        BY <3>1 DEF Capture2
      <4>2. frame # NoFrame => Older(frame, taker[r].capture)
        BY <3>1 DEF CapturesInv
      <4> QED
        BY <4>1, <4>2 DEF Older, OfGeneration
    <3> QED
      BY <3>2, <3>3
  <2> QED
    BY <2>1, <2>2, <2>3, <2>4, TakerMoves
<1> QED
  BY <1>4, <1>5, <1>7, <1>8, <1>9, <1>10 DEF CapturesInv, Serving

LEMMA ScreenKept ==
  ASSUME ScreenInv, ScreenNext
  PROVE  ScreenInv'
BY ScreenTypesKept, VeilKept, CapturesKept DEF ScreenInv

-----------------------------------------------------------------------------
(***************************************************************************)
(* From a request to the click.  What a plan may rely on is settled at     *)
(* each stage: the mode and the picture before it is offered, the preview  *)
(* when it is, the comparison and the element before it acts.              *)
(***************************************************************************)
Acting == {"answered", "compare", "find", "act", "verify", "executed", "refused", "unverified"}
Planning == {"asked", "transcribe", "capture", "tree", "prepare", "prepared", "localPlan",
             "ground", "remotePlan", "ask", "asking", "failed"}

\* Who plans, and what the plan may use.
StageInv ==
    /\ stage \in Planning \cup Acting /\ ask.mode \in {"local", "daemon", "engine"}
    /\ engine = "request" => stage \in {"transcribe", "prepared", "asking"}
    /\ picture # NoContent => MayCapture
    /\ stage \in {"tree", "localPlan", "ground"} => ask.mode = "local"
    /\ stage = "remotePlan" => ask.mode = "daemon"
    /\ stage \in {"ask", "asking"} => ask.mode = "engine"
    /\ stage \in {"tree", "prepare", "prepared", "localPlan", "ground"} =>
          ask.mode # "engine" /\ (ask.mode = "local" => picture # NoContent)

\* The plan that is offered, and its preview.
OfferInv ==
    /\ stage \in Planning => plan = NoPlan
    /\ plan # NoPlan => preview.plan /\ (risk # "low" => preview.confirm)
    /\ plan.kind = "controlled" => plan.of # NoContent
    /\ stage \in {"compare", "find"} => plan.kind = "controlled"

\* What the execution has checked, if nothing has changed since.
CheckedInv ==
    /\ stage \in {"find", "act"} /\ plan.kind = "controlled" /\ "compared" \notin drifted =>
          desk = plan.of
    /\ stage = "act" /\ plan.kind = "controlled" /\ "found" \notin drifted => Found
    /\ clicked # NoContent => stage \in {"verify", "executed", "unverified"}
    /\ ClicksFit

PlanningInv == StageInv /\ OfferInv /\ CheckedInv /\ PicturesStay

LEMMA PlanningStarts ==
  ASSUME PlanningInit
  PROVE  PlanningInv
BY DEF PlanningInit, PlanningInv, StageInv, OfferInv, CheckedInv, PicturesStay, ClicksFit,
       Planning, Acting, NoPlan

LEMMA StageKept ==
  ASSUME StageInv, PlanningNext
  PROVE  StageInv'
<1> USE DEF StageInv, MayCapture, Planning, Acting
<1>1. CASE ChangeDesk \/ NextFrame \/ OthersUseEngine
  BY <1>1 DEF ChangeDesk, NextFrame, OthersUseEngine, askVars
<1>2. CASE LockEngine
  BY <1>2 DEF LockEngine, GoTo, askVars
<1>3. CASE HaveQuestion
  BY <1>3 DEF HaveQuestion, GoTo, Unlocked, Fail
<1>4. CASE Capture
  BY <1>4 DEF Capture, GoTo, askVars
<1>5. CASE ReadTree
  BY <1>5 DEF ReadTree, GoTo, askVars
<1>9. CASE Prepared
  BY <1>9 DEF Prepared, GoTo
<1>6. CASE LocalPlanned \/ Ground \/ RemotePlanned
  BY <1>6 DEF LocalPlanned, Ground, RemotePlanned, GoTo, Answer, Fail, Unlocked, askVars
<1>7. CASE EngineAnswers \/ Interrupted
  BY <1>7 DEF EngineAnswers, Interrupted, Answer, Fail, Unlocked
<1>8. CASE Confirm \/ Compare \/ FindElement \/ Click \/ Verify
  BY <1>8 DEF Confirm, Compare, FindElement, Click, Verify, GoTo, askVars
<1> QED
  BY <1>1, <1>2, <1>3, <1>4, <1>5, <1>6, <1>7, <1>8, <1>9 DEF PlanningNext

LEMMA OfferKept ==
  ASSUME StageInv, OfferInv, PlanningNext
  PROVE  OfferInv'
<1> USE DEF OfferInv, Planning, Acting
<1>1. CASE Ground
  <2>1. CASE Answer(NoPlan, "low")
    BY <2>1 DEF Answer, NoPlan
  <2>2. ASSUME NEW point \in Point,
               Answer([kind |-> "controlled", point |-> point, of |-> picture], "medium")
        PROVE  OfferInv'
    <3>1. picture # NoContent
      BY <1>1 DEF Ground, StageInv
    <3> QED
      BY <2>2, <3>1 DEF Answer, NoPlan
  <2> QED
    BY <1>1, <2>1, <2>2 DEF Ground
<1>2. CASE EngineAnswers
  <2>1. CASE Answer(NoPlan, "low")
    BY <2>1 DEF Answer, NoPlan
  <2>2. ASSUME NEW point \in Point, NEW level \in Risk,
               Answer([kind |-> "free", point |-> point, of |-> picture], level)
        PROVE  OfferInv'
    BY <2>2 DEF Answer, NoPlan
  <2>3. CASE stage' = "failed" /\ UNCHANGED planVars
    BY <1>2, <2>3 DEF EngineAnswers, planVars
  <2> QED
    BY <1>2, <2>1, <2>2, <2>3 DEF EngineAnswers
<1>3. CASE LocalPlanned \/ RemotePlanned
  <2>1. CASE Answer(NoPlan, "low")
    BY <2>1 DEF Answer, NoPlan
  <2>2. CASE Fail \/ (GoTo("ground") /\ UNCHANGED planVars)
    BY <1>3, <2>2 DEF LocalPlanned, RemotePlanned, Fail, GoTo, planVars
  <2> QED
    BY <1>3, <2>1, <2>2 DEF LocalPlanned, RemotePlanned
<1>4. CASE LockEngine \/ HaveQuestion \/ Capture \/ ReadTree \/ Prepared \/ Interrupted
  <2>1. stage \in Planning /\ plan' = plan /\ preview' = preview /\ risk' = risk
    BY <1>4 DEF LockEngine, HaveQuestion, Capture, ReadTree, Prepared, Interrupted, Fail, GoTo,
                planVars, Planning
  <2>2. stage' \notin {"compare", "find"}
    BY <1>4 DEF LockEngine, HaveQuestion, Capture, ReadTree, Prepared, Interrupted, Fail, GoTo,
                StageInv
  <2>3. plan = NoPlan
    BY <2>1 DEF OfferInv
  <2> QED
    BY <2>1, <2>2, <2>3 DEF OfferInv, NoPlan
<1>5. CASE Confirm \/ Compare \/ FindElement \/ Click \/ Verify
  BY <1>5 DEF Confirm, Compare, FindElement, Click, Verify, GoTo, planVars
<1>6. CASE ChangeDesk \/ NextFrame \/ OthersUseEngine
  BY <1>6 DEF ChangeDesk, NextFrame, OthersUseEngine, planVars
<1> QED
  BY <1>1, <1>2, <1>3, <1>4, <1>5, <1>6 DEF PlanningNext

LEMMA CheckedKept ==
  ASSUME StageInv, OfferInv, CheckedInv, PlanningNext
  PROVE  CheckedInv'
<1> USE DEF CheckedInv, ClicksFit
<1>1. CASE ChangeDesk
  BY <1>1 DEF ChangeDesk, planVars
<1>2. CASE NextFrame \/ OthersUseEngine
  BY <1>2 DEF NextFrame, OthersUseEngine, planVars, deskVars, Found
<1>3. ASSUME LockEngine \/ HaveQuestion \/ Capture \/ ReadTree \/ Prepared \/ LocalPlanned
              \/ Ground \/ RemotePlanned \/ EngineAnswers \/ Interrupted
      PROVE  CheckedInv'
  <2>1. clicked' = clicked /\ stage \in Planning
    BY <1>3 DEF LockEngine, HaveQuestion, Capture, ReadTree, Prepared, LocalPlanned, Ground,
                RemotePlanned, EngineAnswers, Interrupted, Planning
  <2>2. stage' \notin {"find", "act"}
    BY <1>3 DEF LockEngine, HaveQuestion, Capture, ReadTree, Prepared, LocalPlanned, Ground,
                RemotePlanned, EngineAnswers, Interrupted, Fail, GoTo, Answer, StageInv
  <2>3. clicked = NoContent
    BY <2>1 DEF Planning
  <2> QED
    BY <2>1, <2>2, <2>3
<1>4. CASE Confirm
  BY <1>4 DEF Confirm, GoTo, planVars, deskVars
<1>5. CASE Compare
  BY <1>5 DEF Compare, GoTo, planVars, SamePicture, OfferInv
<1>6. CASE FindElement
  BY <1>6 DEF FindElement, GoTo, planVars, Found
<1>7. CASE Click
  BY <1>7 DEF Click, GoTo, planVars, deskVars, Found
<1>8. CASE Verify
  BY <1>8 DEF Verify, planVars, deskVars
<1> QED
  BY <1>1, <1>2, <1>3, <1>4, <1>5, <1>6, <1>7, <1>8 DEF PlanningNext

LEMMA PicturesStayKept ==
  ASSUME StageInv, PicturesStay, PlanningNext
  PROVE  PicturesStay'
<1> USE DEF PicturesStay, StageInv, MayCapture
<1>1. CASE Prepared
  BY <1>1 DEF Prepared
<1>2. CASE EngineAnswers
  BY <1>2 DEF EngineAnswers
<1>3. CASE UNCHANGED <<ask, uploaded>>
  BY <1>3
<1> QED
  BY <1>1, <1>2, <1>3
     DEF PlanningNext, ChangeDesk, NextFrame, OthersUseEngine, LockEngine, HaveQuestion, Capture,
         ReadTree, LocalPlanned, Ground, RemotePlanned, Interrupted, Confirm, Compare,
         FindElement, Click, Verify, Fail, askVars

LEMMA PlanningKept ==
  ASSUME PlanningInv, PlanningNext
  PROVE  PlanningInv'
BY StageKept, OfferKept, CheckedKept, PicturesStayKept DEF PlanningInv

LEMMA PlanningHolds ==
  ASSUME PlanningInv
  PROVE  PlansFitTheScreen /\ PicturesStay
<1>1. stage \in Concluded => engine # "request"
  BY DEF PlanningInv, StageInv, Concluded
<1> QED
  BY <1>1 DEF PlanningInv, OfferInv, CheckedInv, PlansFitTheScreen, NothingUnannounced

-----------------------------------------------------------------------------
(***************************************************************************)
(* The local models.  A permit is out for every kernel that works, and for *)
(* a call between its two permits: each step moves the permits as it moves *)
(* those calls.                                                            *)
(***************************************************************************)
Callers == {"idle", "cloud", "admission", "held", "waiting", "leaving", "left", "answered",
            "failed", "busy"}
Kernels == {"none", "queued", "checking", "entering", "running", "gone"}

LocalTypes ==
    /\ taskOf \in [Call -> Task] /\ free \in [LocalTask -> Nat] /\ spare \in Nat
    /\ caller \in [Call -> Callers] /\ kernel \in [Call -> Kernels]
    /\ flagged \subseteq Call /\ aborted \subseteq Call
    /\ tokens \in [Call -> Nat] /\ idle \in [Call -> Nat]

\* Where the call is, and where its kernel is then.
CallInv ==
    \A c \in Call :
        /\ caller[c] \in {"admission", "held", "waiting", "leaving", "left"} =>
              taskOf[c] \in LocalTask
        /\ caller[c] \in {"idle", "cloud", "admission", "held", "busy"} => kernel[c] = "none"
        /\ caller[c] \in {"failed", "answered"} => kernel[c] \in {"none", "gone"}
        /\ c \in flagged => caller[c] \in {"leaving", "left"}
        /\ idle[c] = 0 \/ (idle[c] = 1 /\ c \in flagged
                                       /\ kernel[c] \in {"running", "checking", "gone"})

Uses(c) == Working(c) \/ caller[c] = "held"
UsersOf(t) == {c \in Call : taskOf[c] = t /\ (Working(c) \/ caller[c] = "held")}
AllWorking == {c \in Call : Working(c)}
PermitInv ==
    /\ \A t \in LocalTask : free[t] + Cardinality(UsersOf(t)) = 1
    /\ spare + Cardinality(AllWorking) = Workers

LocalInv == LocalTypes /\ CallInv /\ PermitInv

LEMMA LocalStarts ==
  ASSUME LocalInit
  PROVE  LocalInv
<1>1. LocalTypes
  BY LocalAssumption DEF LocalInit, LocalTypes, Callers, Kernels
<1>2. CallInv
  BY DEF LocalInit, CallInv
<1>3. AllWorking = {} /\ \A t \in LocalTask : UsersOf(t) = {}
  BY DEF LocalInit, AllWorking, UsersOf, Working
<1>4. PermitInv
  <2>1. spare = Workers /\ \A t \in LocalTask : free[t] = 1
    BY DEF LocalInit
  <2>2. Cardinality({}) = 0
    BY FS_EmptySet
  <2>3. spare + Cardinality(AllWorking) = Workers
    BY <1>3, <2>1, <2>2, LocalAssumption
  <2>4. \A t \in LocalTask : free[t] + Cardinality(UsersOf(t)) = 1
    BY <1>3, <2>1, <2>2
  <2> QED
    BY <2>3, <2>4 DEF PermitInv
<1> QED
  BY <1>1, <1>2, <1>4 DEF LocalInv

LEMMA LocalTypesKept ==
  ASSUME LocalTypes, CallInv, PermitInv, NEW c \in Call,
         \/ AskModel(c) \/ CloudAnswers(c) \/ TakeModel(c) \/ TakeWorker(c)
         \/ LeaveCall(c) \/ AbortKernel(c) \/ TakeResult(c)
         \/ Begin(c) \/ CheckFlag(c) \/ Enter(c) \/ KernelReturns(c)
  PROVE  LocalTypes'
<1> USE DEF LocalTypes
<1>0. taskOf' = taskOf /\ taskOf[c] \in Task
  BY DEF AskModel, CloudAnswers, TakeModel, TakeWorker, LeaveCall, AbortKernel, TakeResult,
         Begin, CheckFlag, Enter, KernelReturns, choice
<1>1. caller' \in [Call -> Callers]
  BY DEF AskModel, CloudAnswers, TakeModel, TakeWorker, LeaveCall, AbortKernel, TakeResult,
         Begin, CheckFlag, Enter, KernelReturns, Becomes, Callers
<1>2. kernel' \in [Call -> Kernels]
  BY DEF AskModel, CloudAnswers, TakeModel, TakeWorker, LeaveCall, AbortKernel, TakeResult,
         Begin, CheckFlag, Enter, KernelReturns, KernelGone, Kernels
<1>3. flagged' \subseteq Call /\ aborted' \subseteq Call
  BY DEF AskModel, CloudAnswers, TakeModel, TakeWorker, LeaveCall, AbortKernel, TakeResult,
         Begin, CheckFlag, Enter, KernelReturns
<1>4. tokens' \in [Call -> Nat] /\ idle' \in [Call -> Nat]
  BY DEF AskModel, CloudAnswers, TakeModel, TakeWorker, LeaveCall, AbortKernel, TakeResult,
         Begin, CheckFlag, Enter, KernelReturns
<1>5. free' \in [LocalTask -> Nat]
  BY DEF AskModel, CloudAnswers, TakeModel, TakeWorker, LeaveCall, AbortKernel, TakeResult,
         Begin, CheckFlag, Enter, KernelReturns, KernelGone
<1>6. spare' \in Nat
  BY DEF AskModel, CloudAnswers, TakeModel, TakeWorker, LeaveCall, AbortKernel, TakeResult,
         Begin, CheckFlag, Enter, KernelReturns, KernelGone
<1> QED
  BY <1>0, <1>1, <1>2, <1>3, <1>4, <1>5, <1>6

LEMMA CallKept ==
  ASSUME LocalTypes, CallInv, NEW c \in Call,
         \/ AskModel(c) \/ CloudAnswers(c) \/ TakeModel(c) \/ TakeWorker(c)
         \/ LeaveCall(c) \/ AbortKernel(c) \/ TakeResult(c)
         \/ Begin(c) \/ CheckFlag(c) \/ Enter(c) \/ KernelReturns(c)
  PROVE  CallInv'
<1> USE DEF LocalTypes, CallInv, Callers, Kernels
<1>1. CASE AskModel(c)
  BY <1>1 DEF AskModel, Becomes, choice
<1>2. CASE CloudAnswers(c) \/ TakeResult(c)
  BY <1>2 DEF CloudAnswers, TakeResult, Becomes, choice
<1>3. CASE TakeModel(c)
  BY <1>3 DEF TakeModel, Becomes, choice
<1>4. CASE TakeWorker(c)
  BY <1>4 DEF TakeWorker, Becomes, choice
<1>5. CASE LeaveCall(c)
  BY <1>5 DEF LeaveCall, Becomes, choice
<1>6. CASE AbortKernel(c)
  BY <1>6 DEF AbortKernel, Becomes, choice
<1>7. CASE Begin(c) \/ CheckFlag(c)
  BY <1>7 DEF Begin, CheckFlag, KernelGone, choice
<1>8. CASE Enter(c)
  BY <1>8 DEF Enter, KernelGone, choice
<1>9. CASE KernelReturns(c)
  BY <1>9 DEF KernelReturns, KernelGone, choice
<1> QED
  BY <1>1, <1>2, <1>3, <1>4, <1>5, <1>6, <1>7, <1>8, <1>9

\* What a step does to the permits: nothing, or it takes or gives back for one call.
LEMMA PermitsMove ==
  ASSUME LocalTypes, CallInv, NEW c \in Call,
         \/ AskModel(c) \/ CloudAnswers(c) \/ TakeModel(c) \/ TakeWorker(c)
         \/ LeaveCall(c) \/ AbortKernel(c) \/ TakeResult(c)
         \/ Begin(c) \/ CheckFlag(c) \/ Enter(c) \/ KernelReturns(c)
  PROVE  /\ \A d \in Call \ {c} : Uses(d)' = Uses(d) /\ Working(d)' = Working(d)
         /\ \/ free' = free /\ Uses(c)' = Uses(c)
            \/ /\ taskOf[c] \in LocalTask /\ ~Uses(c) /\ Uses(c)'
               /\ free' = [free EXCEPT ![taskOf[c]] = @ - 1]
            \/ /\ taskOf[c] \in LocalTask /\ Uses(c) /\ ~Uses(c)'
               /\ free' = [free EXCEPT ![taskOf[c]] = @ + 1]
         /\ \/ spare' = spare /\ Working(c)' = Working(c)
            \/ spare' = spare - 1 /\ ~Working(c) /\ Working(c)'
            \/ spare' = spare + 1 /\ Working(c) /\ ~Working(c)'
<1> USE DEF LocalTypes, CallInv, Callers, Kernels, Uses, Working
<1>1. CASE AskModel(c) \/ CloudAnswers(c) \/ LeaveCall(c) \/ AbortKernel(c) \/ TakeResult(c)
  BY <1>1 DEF AskModel, CloudAnswers, LeaveCall, AbortKernel, TakeResult, Becomes, choice
<1>3. CASE TakeModel(c)
  BY <1>3 DEF TakeModel, Becomes, choice
<1>4. CASE TakeWorker(c)
  BY <1>4 DEF TakeWorker, Becomes, choice
<1>7. CASE Begin(c)
  BY <1>7 DEF Begin, KernelGone, choice
<1>8. CASE CheckFlag(c)
  BY <1>8 DEF CheckFlag, KernelGone, choice
<1>9. CASE Enter(c)
  BY <1>9 DEF Enter, KernelGone, choice
<1>10. CASE KernelReturns(c)
  BY <1>10 DEF KernelReturns, KernelGone, choice
<1> QED
  BY <1>1, <1>3, <1>4, <1>7, <1>8, <1>9, <1>10

LEMMA PermitsKept ==
  ASSUME LocalTypes, CallInv, PermitInv, NEW c \in Call,
         \/ AskModel(c) \/ CloudAnswers(c) \/ TakeModel(c) \/ TakeWorker(c)
         \/ LeaveCall(c) \/ AbortKernel(c) \/ TakeResult(c)
         \/ Begin(c) \/ CheckFlag(c) \/ Enter(c) \/ KernelReturns(c)
  PROVE  PermitInv'
<1>0. /\ taskOf' = taskOf /\ taskOf \in [Call -> Task]
      /\ free \in [LocalTask -> Nat] /\ spare \in Nat
  BY DEF AskModel, CloudAnswers, TakeModel, TakeWorker, LeaveCall, AbortKernel, TakeResult,
         Begin, CheckFlag, Enter, KernelReturns, choice, LocalTypes
<1>1. /\ \A d \in Call \ {c} : Uses(d)' = Uses(d) /\ Working(d)' = Working(d)
      /\ \/ free' = free /\ Uses(c)' = Uses(c)
         \/ /\ taskOf[c] \in LocalTask /\ ~Uses(c) /\ Uses(c)'
            /\ free' = [free EXCEPT ![taskOf[c]] = @ - 1]
         \/ /\ taskOf[c] \in LocalTask /\ Uses(c) /\ ~Uses(c)'
            /\ free' = [free EXCEPT ![taskOf[c]] = @ + 1]
      /\ \/ spare' = spare /\ Working(c)' = Working(c)
         \/ spare' = spare - 1 /\ ~Working(c) /\ Working(c)'
         \/ spare' = spare + 1 /\ Working(c) /\ ~Working(c)'
  BY PermitsMove
<1>2. /\ IsFiniteSet(AllWorking) /\ Cardinality(AllWorking) \in Nat
      /\ \A t \in LocalTask : IsFiniteSet(UsersOf(t)) /\ Cardinality(UsersOf(t)) \in Nat
  <2>1. AllWorking \in SUBSET Call /\ \A t \in LocalTask : UsersOf(t) \in SUBSET Call
    BY DEF AllWorking, UsersOf
  <2> QED
    BY <2>1, LocalAssumption, FS_Subset, FS_CardinalityType
<1>3. spare' + Cardinality(AllWorking') = Workers
  <2>0. spare + Cardinality(AllWorking) = Workers
    BY DEF PermitInv
  <2>1. CASE spare' = spare /\ Working(c)' = Working(c)
    <3>1. AllWorking' = AllWorking
      BY <1>1, <2>1 DEF AllWorking
    <3> QED
      BY <2>0, <2>1, <3>1
  <2>2. CASE spare' = spare - 1 /\ ~Working(c) /\ Working(c)'
    <3>1. AllWorking' = AllWorking \cup {c} /\ c \notin AllWorking
      BY <1>1, <2>2 DEF AllWorking
    <3>2. Cardinality(AllWorking \cup {c}) = Cardinality(AllWorking) + 1
      BY <1>2, <3>1, FS_AddElement
    <3> QED
      BY <1>0, <1>2, <2>0, <2>2, <3>1, <3>2
  <2>3. CASE spare' = spare + 1 /\ Working(c) /\ ~Working(c)'
    <3>1. AllWorking' = AllWorking \ {c} /\ c \in AllWorking
      BY <1>1, <2>3 DEF AllWorking
    <3>2. Cardinality(AllWorking \ {c}) = Cardinality(AllWorking) - 1
      BY <1>2, <3>1, FS_RemoveElement
    <3> QED
      BY <1>0, <1>2, <2>0, <2>3, <3>1, <3>2
  <2> QED
    BY <1>1, <2>1, <2>2, <2>3
<1>4. ASSUME NEW t \in LocalTask
      PROVE  free'[t] + Cardinality(UsersOf(t)') = 1
  <2>0. free[t] + Cardinality(UsersOf(t)) = 1 /\ free[t] \in Nat
    BY <1>0 DEF PermitInv
  <2>1. CASE taskOf[c] # t
    <3>1. UsersOf(t)' = UsersOf(t)
      BY <1>0, <1>1, <2>1 DEF UsersOf, Uses
    <3>2. free'[t] = free[t]
      BY <1>0, <1>1, <2>1
    <3> QED
      BY <2>0, <3>1, <3>2
  <2>2. CASE free' = free /\ Uses(c)' = Uses(c)
    <3>1. UsersOf(t)' = UsersOf(t)
      BY <1>0, <1>1, <2>2 DEF UsersOf, Uses
    <3> QED
      BY <2>0, <2>2, <3>1
  <2>3. CASE /\ taskOf[c] = t /\ ~Uses(c) /\ Uses(c)'
             /\ free' = [free EXCEPT ![taskOf[c]] = @ - 1]
    <3>1. UsersOf(t)' = UsersOf(t) \cup {c} /\ c \notin UsersOf(t)
      BY <1>0, <1>1, <2>3 DEF UsersOf, Uses
    <3>2. Cardinality(UsersOf(t) \cup {c}) = Cardinality(UsersOf(t)) + 1
      BY <1>2, <3>1, FS_AddElement
    <3>3. free'[t] = free[t] - 1
      BY <1>0, <2>3
    <3> QED
      BY <1>2, <2>0, <3>1, <3>2, <3>3
  <2>4. CASE /\ taskOf[c] = t /\ Uses(c) /\ ~Uses(c)'
             /\ free' = [free EXCEPT ![taskOf[c]] = @ + 1]
    <3>1. UsersOf(t)' = UsersOf(t) \ {c} /\ c \in UsersOf(t)
      BY <1>0, <1>1, <2>4 DEF UsersOf, Uses
    <3>2. Cardinality(UsersOf(t) \ {c}) = Cardinality(UsersOf(t)) - 1
      BY <1>2, <3>1, FS_RemoveElement
    <3>3. free'[t] = free[t] + 1
      BY <1>0, <2>4
    <3> QED
      BY <1>2, <2>0, <3>1, <3>2, <3>3
  <2> QED
    BY <1>1, <2>1, <2>2, <2>3, <2>4
<1> QED
  BY <1>3, <1>4 DEF PermitInv

LEMMA LocalKept ==
  ASSUME LocalInv, LocalNext
  PROVE  LocalInv'
<1>1. PICK c \in Call :
        \/ AskModel(c) \/ CloudAnswers(c) \/ TakeModel(c) \/ TakeWorker(c)
        \/ LeaveCall(c) \/ AbortKernel(c) \/ TakeResult(c)
        \/ Begin(c) \/ CheckFlag(c) \/ Enter(c) \/ KernelReturns(c)
  BY DEF LocalNext
<1> QED
  BY <1>1, LocalTypesKept, CallKept, PermitsKept DEF LocalInv

LEMMA LocalHolds ==
  ASSUME LocalInv
  PROVE  LocalWorkIsBounded
<1>1. \A t \in LocalTask : free[t] + Cardinality({c \in Call : taskOf[c] = t /\
                                (Working(c) \/ caller[c] = "held")}) = 1
  BY DEF LocalInv, PermitInv, UsersOf
<1>2. spare + Cardinality({c \in Call : Working(c)}) = Workers
  BY DEF LocalInv, PermitInv, AllWorking
<1>3. \A c \in Call : idle[c] <= 1
  BY DEF LocalInv, CallInv
<1>4. \A c \in Call : caller[c] = "answered" => ~Working(c)
  BY DEF LocalInv, CallInv, Working
<1> QED
  BY <1>1, <1>2, <1>3, <1>4 DEF LocalWorkIsBounded

-----------------------------------------------------------------------------
(***************************************************************************)
(* Hangs.  The detector keeps three numbers and forgets the rounds; they   *)
(* say of the rounds how long the answers have been missing in a row,      *)
(* since when, and when the computer was last suspended.                   *)
(***************************************************************************)
Round == [time : Nat, answer : {"yes", "no", "none"}, beat : Int, closing : BOOLEAN]
Detectors == [first : Int, failures : Nat, last : Int, grace : Nat]

RoundsInv ==
    /\ probes \in Seq(Round) /\ detector \in Detectors /\ beatAt \in Int
    /\ \A i \in 1..Len(probes), j \in 1..Len(probes) : i <= j => probes[i].time <= probes[j].time
    /\ detector.last = IF probes = << >> THEN Never ELSE probes[Len(probes)].time

\* Of n rounds, f in a row are without an answer, and the row is as long as can be: it
\* begins at an answer or at a suspension of the computer.
Row(n, f, without, pauses) ==
    /\ f \in Nat /\ f <= n
    /\ \A k \in n - f + 1..n : k \in without
    /\ \A k \in n - f + 2..n : k \notin pauses
    /\ f < n => n - f \notin without \/ (f > 0 /\ n - f + 1 \in pauses)

Without == {k \in 1..Len(probes) : probes[k].answer = "no"}
Pauses == {k \in 1..Len(probes) : WasSuspended(k)}
RowInv ==
    /\ Row(Len(probes), detector.failures, Without, Pauses)
    /\ detector.first = IF detector.failures = 0 THEN Never
                        ELSE probes[Len(probes) - detector.failures + 1].time

GraceInv ==
    /\ \A i \in 1..Len(probes) : WasSuspended(i) => probes[i].time + Grace <= detector.grace
    /\ detector.grace = 0 \/ \E i \in 1..Len(probes) : /\ WasSuspended(i)
                                                        /\ detector.grace = probes[i].time + Grace

HungInv ==
    probes # << >> =>
        LET p == probes[Len(probes)] IN
        hung = IsHung(detector, p.time, p.answer, p.beat, p.closing)

HangInv == RoundsInv /\ RowInv /\ GraceInv /\ HungInv

LEMMA HangStarts ==
  ASSUME HangInit
  PROVE  HangInv
<1>1. probes = << >> /\ Len(probes) = 0 /\ beatAt = -1
      /\ detector = [first |-> -1, failures |-> 0, last |-> -1, grace |-> 0]
  BY DEF HangInit, Never
<1>2. RoundsInv
  BY <1>1 DEF RoundsInv, Detectors, Never
<1>3. RowInv
  <2>1. Row(0, 0, Without, Pauses)
    BY DEF Row
  <2> QED
    BY <1>1, <2>1 DEF RowInv, Never
<1>4. GraceInv
  BY <1>1 DEF GraceInv
<1>5. HungInv
  BY <1>1 DEF HungInv
<1> QED
  BY <1>2, <1>3, <1>4, <1>5 DEF HangInv

\* One call of the detector, field by field.
LEMMA DetectorMoves ==
  ASSUME NEW d \in Detectors, NEW now \in Nat, NEW answer \in {"yes", "no", "none"},
         NEW paused \in BOOLEAN, paused <=> (d.last # Never /\ now - d.last > LongRound)
  PROVE  LET e == Updated(d, now, answer) IN
         /\ e \in Detectors
         /\ e.last = now
         /\ e.grace = IF paused THEN now + Grace ELSE d.grace
         /\ e.failures = IF answer # "no" THEN 0 ELSE IF paused THEN 1 ELSE d.failures + 1
         /\ e.first = IF answer # "no" THEN Never
                      ELSE IF paused \/ d.first = Never THEN now ELSE d.first
<1>0. /\ Grace = 5 /\ Never = -1 /\ d.first \in Int /\ d.failures \in Nat /\ d.last \in Int
      /\ d.grace \in Nat
      /\ d = [first |-> d.first, failures |-> d.failures, last |-> d.last, grace |-> d.grace]
  BY DEF Grace, Never, Detectors
<1>1. PICK a \in Int, k \in Nat, g \in Nat :
        /\ Resumed(d, now) = [first |-> a, failures |-> k, last |-> d.last, grace |-> g]
        /\ g = IF paused THEN now + Grace ELSE d.grace
        /\ k = IF paused THEN 0 ELSE d.failures
        /\ a = IF paused THEN Never ELSE d.first
  <2>1. CASE paused
    <3>1. Resumed(d, now) = [first |-> Never, failures |-> 0, last |-> d.last,
                             grace |-> now + Grace]
      BY <1>0, <2>1 DEF Resumed
    <3>2. now + Grace \in Nat /\ Never \in Int
      BY <1>0
    <3> QED
      BY <2>1, <3>1, <3>2
  <2>2. CASE ~paused
    <3>1. Resumed(d, now) = d
      BY <2>2 DEF Resumed
    <3> QED
      BY <1>0, <2>2, <3>1
  <2> QED
    BY <2>1, <2>2
<1> DEFINE since == IF answer # "no" THEN Never ELSE IF a = Never THEN now ELSE a
           count == IF answer # "no" THEN 0 ELSE k + 1
<1>2. Counted(Resumed(d, now), now, answer) =
        [first |-> since, failures |-> count, last |-> d.last, grace |-> g]
  <2> DEFINE r == [first |-> a, failures |-> k, last |-> d.last, grace |-> g]
  <2>1. Counted(r, now, answer) =
          [first |-> since, failures |-> count, last |-> d.last, grace |-> g]
    <3>1. CASE answer = "no"
      BY <3>1 DEF Counted
    <3>2. CASE answer # "no"
      BY <3>2 DEF Counted
    <3> QED
      BY <3>1, <3>2
  <2>2. Resumed(d, now) = r
    BY <1>1
  <2> HIDE DEF r
  <2> QED
    BY <2>1, <2>2
<1>3. Updated(d, now, answer) =
        [first |-> since, failures |-> count, last |-> now, grace |-> g]
  BY <1>2 DEF Updated
<1>4. since \in Int /\ count \in Nat
  BY <1>0, <1>1
<1>5. since = (IF answer # "no" THEN Never ELSE IF paused \/ d.first = Never THEN now ELSE d.first)
  BY <1>0, <1>1
<1>6. count = (IF answer # "no" THEN 0 ELSE IF paused THEN 1 ELSE d.failures + 1)
  BY <1>0, <1>1
<1> HIDE DEF since, count
<1>7. [first |-> since, failures |-> count, last |-> now, grace |-> g] \in Detectors
  BY <1>1, <1>4 DEF Detectors
<1> QED
  BY <1>1, <1>3, <1>5, <1>6, <1>7

LEMMA RoundsHaveTimes ==
  ASSUME NEW s \in Seq(Round)
  PROVE  \A i \in 1..Len(s) : s[i] \in Round /\ s[i].time \in Nat
<1>1. \A i \in 1..Len(s) : s[i] \in Round
  OBVIOUS
<1>2. \A r \in Round : r.time \in Nat
  BY DEF Round
<1> QED
  BY <1>1, <1>2

LEMMA RowGrows ==
  ASSUME NEW n \in Nat, NEW f, NEW W, NEW P, Row(n, f, W, P), NEW W2, NEW P2,
         \A k \in 1..n : (k \in W2 <=> k \in W) /\ (k \in P2 <=> k \in P),
         n + 1 \in P2 => n > 0,
         NEW h, h = IF n + 1 \notin W2 THEN 0 ELSE IF n + 1 \in P2 THEN 1 ELSE f + 1
  PROVE  Row(n + 1, h, W2, P2)
<1>0. f \in Nat /\ f <= n
  BY DEF Row
<1>1. CASE n + 1 \notin W2
  <2>1. h = 0
    BY <1>1
  <2> QED
    BY <1>1, <2>1 DEF Row
<1>2. CASE n + 1 \in W2 /\ n + 1 \in P2
  <2>1. h = 1
    BY <1>2
  <2> QED
    BY <1>2, <2>1 DEF Row
<1>3. CASE n + 1 \in W2 /\ n + 1 \notin P2
  <2>1. h = f + 1 /\ h \in Nat /\ h <= n + 1
    BY <1>0, <1>3
  <2>2. n + 1 - h + 1 = n - f + 1 /\ n + 1 - h + 2 = n - f + 2 /\ n + 1 - h = n - f
    BY <1>0, <2>1
  <2>3. ASSUME NEW k \in n - f + 1..n + 1 PROVE k \in W2
    <3>1. CASE k = n + 1
      BY <1>3, <3>1
    <3>2. CASE k \in n - f + 1..n /\ k \in 1..n
      BY <3>2 DEF Row
    <3> QED
      BY <1>0, <3>1, <3>2
  <2>4. ASSUME NEW k \in n - f + 2..n + 1 PROVE k \notin P2
    <3>1. CASE k = n + 1
      BY <1>3, <3>1
    <3>2. CASE k \in n - f + 2..n /\ k \in 1..n
      BY <3>2 DEF Row
    <3> QED
      BY <1>0, <3>1, <3>2
  <2>5. ASSUME f < n PROVE n - f \notin W2 \/ n - f + 1 \in P2
    <3>1. n - f \in 1..n /\ (f > 0 => n - f + 1 \in 1..n)
      BY <1>0, <2>5
    <3> QED
      BY <2>5, <3>1 DEF Row
  <2>6. h < n + 1 => f < n
    BY <1>0, <2>1
  <2>7. h > 0
    BY <1>0, <2>1
  <2> QED
    BY <2>1, <2>2, <2>3, <2>4, <2>5, <2>6, <2>7 DEF Row
<1> QED
  BY <1>1, <1>2, <1>3

\* No row of missing answers that ends now begins before the one that is counted.
LEMMA RowIsLongest ==
  ASSUME NEW n \in Nat, NEW f, NEW W, NEW P, Row(n, f, W, P), NEW i \in 1..n,
         \A k \in i..n : k \in W, \A k \in i + 1..n : k \notin P
  PROVE  n - f + 1 <= i
<1>1. f \in Nat /\ f <= n
  BY DEF Row
<1> SUFFICES ASSUME n - f >= i PROVE FALSE
  BY <1>1
<1>2. n - f \in i..n /\ f < n
  BY <1>1
<1>3. f > 0 => n - f + 1 \in i + 1..n
  BY <1>1
<1> QED
  BY <1>2, <1>3 DEF Row

LEMMA HangKept ==
  ASSUME HangInv, Probe
  PROVE  HangInv'
<1>n. PICK n \in Nat : n = Len(probes)
  BY DEF HangInv, RoundsInv
<1> DEFINE d == detector
<1>1. /\ probes \in Seq(Round) /\ d \in Detectors /\ beatAt \in Int /\ n \in Nat
      /\ \A i \in 1..n, j \in 1..n : i <= j => probes[i].time <= probes[j].time
      /\ d.last = (IF probes = << >> THEN Never ELSE probes[n].time)
      /\ \A i \in 1..n : probes[i] \in Round /\ probes[i].time \in Nat
  BY <1>n, RoundsHaveTimes DEF HangInv, RoundsInv
<1>2. PICK wait \in Rounds, answer \in {"yes", "no", "none"}, beats \in BOOLEAN,
           closing \in BOOLEAN :
        LET now == IF probes = << >> THEN 0 ELSE Now + wait
            beat == IF beats THEN now ELSE beatAt IN
        /\ detector' = Updated(detector, now, answer)
        /\ hung' = IsHung(detector', now, answer, beat, closing)
        /\ beatAt' = beat
        /\ probes' = Append(probes, [time |-> now, answer |-> answer, beat |-> beat,
                                     closing |-> closing])
  BY DEF Probe
<1> DEFINE now == IF probes = << >> THEN 0 ELSE Now + wait
           beat == IF beats THEN now ELSE beatAt
           p == [time |-> now, answer |-> answer, beat |-> beat, closing |-> closing]
<1>3. n > 0 => probes[n] \in Round /\ probes[n].time \in Nat
  BY <1>1
<1>4. /\ probes = << >> <=> n = 0
      /\ wait \in Nat /\ now \in Nat /\ beat \in Int /\ p \in Round
      /\ n > 0 => now = probes[n].time + wait
  <2>1. (probes = << >> <=> n = 0) /\ wait \in Nat
    BY <1>1, <1>n, HangAssumption
  <2>2. now \in Nat /\ (n > 0 => now = probes[n].time + wait)
    BY <1>3, <1>n, <2>1 DEF Now
  <2>3. beat \in Int
    BY <1>1, <2>2
  <2> QED
    BY <2>1, <2>2, <2>3 DEF Round
<1>5. /\ detector' = Updated(d, now, answer) /\ beatAt' = beat
      /\ hung' = IsHung(detector', now, answer, beat, closing)
      /\ probes' = Append(probes, p)
  BY <1>2
<1>6. /\ p.time = now /\ p.answer = answer /\ p.beat = beat /\ p.closing = closing
  OBVIOUS
<1> HIDE DEF now, beat, p
<1>7. /\ probes' \in Seq(Round) /\ Len(probes') = n + 1 /\ probes'[n + 1] = p
      /\ \A i \in 1..n : probes'[i] = probes[i]
  BY <1>1, <1>4, <1>5, <1>n, AppendProperties
<1>8. /\ \A i \in 1..n : WasSuspended(i)' <=> WasSuspended(i)
      /\ WasSuspended(n + 1)' <=> (n > 0 /\ now - probes[n].time > LongRound)
  <2>1. ASSUME NEW i \in 1..n PROVE WasSuspended(i)' <=> WasSuspended(i)
    <3>1. CASE i = 1
      BY <3>1 DEF WasSuspended
    <3>2. CASE i > 1
      <4>1. i - 1 \in 1..n
        BY <1>1, <3>2
      <4> QED
        BY <1>7, <4>1 DEF WasSuspended
    <3> QED
      BY <3>1, <3>2
  <2>2. WasSuspended(n + 1)' <=>
          (n + 1 > 1 /\ probes'[n + 1].time - probes'[n + 1 - 1].time > LongRound)
    BY <1>n DEF WasSuspended
  <2>3. n + 1 > 1 <=> n > 0
    BY <1>n
  <2>4. n > 0 => probes'[n + 1 - 1] = probes[n]
    <3> SUFFICES ASSUME n > 0 PROVE probes'[n + 1 - 1] = probes[n]
      OBVIOUS
    <3>1. n + 1 - 1 = n /\ n \in 1..n
      BY <1>1
    <3> QED
      BY <1>7, <3>1
  <2>5. WasSuspended(n + 1)' <=> (n > 0 /\ now - probes[n].time > LongRound)
    BY <1>6, <1>7, <2>2, <2>3, <2>4
  <2> QED
    BY <2>1, <2>5
<1> DEFINE paused == n > 0 /\ now - probes[n].time > LongRound
<1>9. paused \in BOOLEAN /\ (paused <=> (d.last # Never /\ now - d.last > LongRound))
  BY <1>1, <1>3, <1>4 DEF Never
<1> HIDE DEF d
<1> DEFINE e == Updated(d, now, answer)
<1>10. /\ e \in Detectors
       /\ e.last = now
       /\ e.grace = IF paused THEN now + Grace ELSE d.grace
       /\ e.failures = IF answer # "no" THEN 0 ELSE IF paused THEN 1 ELSE d.failures + 1
       /\ e.first = IF answer # "no" THEN Never
                    ELSE IF paused \/ d.first = Never THEN now ELSE d.first
  <2> HIDE DEF paused
  <2> QED
    BY <1>1, <1>4, <1>9, DetectorMoves
<1> HIDE DEF e, paused
<1>11. detector' = e
  BY <1>5 DEF e
<1>12. RoundsInv'
  <2>1. \A i \in 1..n + 1, j \in 1..n + 1 : i <= j => probes'[i].time <= probes'[j].time
    <3> SUFFICES ASSUME NEW i \in 1..n + 1, NEW j \in 1..n + 1, i <= j
                 PROVE  probes'[i].time <= probes'[j].time
      OBVIOUS
    <3>1. CASE j <= n
      BY <1>1, <1>7, <3>1
    <3>2. CASE j = n + 1 /\ i <= n
      <4>1. n \in 1..n /\ i \in 1..n /\ n > 0
        BY <1>1, <3>2
      <4>2. probes[i].time <= probes[n].time /\ probes[i].time \in Nat /\ probes[n].time \in Nat
        BY <1>1, <3>2, <4>1
      <4>3. probes'[i] = probes[i] /\ probes'[j].time = now
        BY <1>6, <1>7, <3>2, <4>1
      <4>4. now >= probes[n].time
        <5>1. now = probes[n].time + wait /\ wait \in Nat
          BY <1>4, <4>1, HangAssumption
        <5> QED
          BY <4>2, <5>1
      <4> QED
        BY <1>4, <4>2, <4>3, <4>4
    <3>3. CASE j = n + 1 /\ i = n + 1
      BY <1>4, <1>6, <1>7, <3>3
    <3> QED
      BY <1>1, <3>1, <3>2, <3>3
  <2>2. detector'.last = IF probes' = << >> THEN Never ELSE probes'[Len(probes')].time
    BY <1>1, <1>6, <1>7, <1>10, <1>11
  <2> QED
    BY <1>1, <1>4, <1>5, <1>7, <1>10, <1>11, <2>1, <2>2 DEF RoundsInv
<1>13. RowInv'
  <2> DEFINE f == d.failures
             h == e.failures
  <2>1. /\ Row(n, f, Without, Pauses) /\ f \in Nat /\ f <= n
        /\ d.first = IF f = 0 THEN Never ELSE probes[n - f + 1].time
    BY <1>n DEF HangInv, RowInv, d, Row
  <2>2. Without' = {k \in 1..n + 1 : probes'[k].answer = "no"}
        /\ Pauses' = {k \in 1..n + 1 : WasSuspended(k)'}
    BY <1>7 DEF Without, Pauses
  <2>3. Without = {k \in 1..n : probes[k].answer = "no"}
        /\ Pauses = {k \in 1..n : WasSuspended(k)}
    BY <1>n DEF Without, Pauses
  <2>4. \A k \in 1..n : (k \in Without' <=> k \in Without) /\ (k \in Pauses' <=> k \in Pauses)
    BY <1>n, <1>7, <1>8, <2>2, <2>3
  <2>5. n + 1 \in Without' <=> answer = "no"
    BY <1>n, <1>6, <1>7, <2>2
  <2>6. n + 1 \in Pauses' <=> paused
    BY <1>n, <1>8, <2>2 DEF paused
  <2>7. paused => n > 0
    BY DEF paused
  <2> HIDE DEF f, h
  <2>8. h = IF answer # "no" THEN 0 ELSE IF paused THEN 1 ELSE f + 1
    BY <1>10 DEF f, h
  <2>9. Row(n + 1, h, Without', Pauses')
    BY <1>n, <2>1, <2>4, <2>5, <2>6, <2>7, <2>8, RowGrows
  <2>10. e.first = IF h = 0 THEN Never ELSE probes'[n + 1 - h + 1].time
    <3>1. CASE answer # "no"
      BY <1>10, <2>8, <3>1
    <3>2. CASE answer = "no" /\ paused
      <4>1. h = 1 /\ e.first = now /\ n + 1 - h + 1 = n + 1
        BY <1>n, <1>10, <2>8, <3>2
      <4> QED
        BY <1>6, <1>7, <4>1
    <3>3. CASE answer = "no" /\ ~paused /\ f = 0
      <4>1. h = 1 /\ e.first = now /\ n + 1 - h + 1 = n + 1
        BY <1>n, <1>10, <2>1, <2>8, <3>3
      <4> QED
        BY <1>6, <1>7, <4>1
    <3>4. CASE answer = "no" /\ ~paused /\ f > 0
      <4>1. h = f + 1 /\ n + 1 - h + 1 = n - f + 1 /\ n - f + 1 \in 1..n
        BY <1>n, <2>1, <2>8, <3>4
      <4>2. d.first = probes[n - f + 1].time /\ d.first \in Nat
        BY <1>1, <2>1, <3>4, <4>1
      <4>3. e.first = d.first
        BY <1>10, <3>4, <4>2 DEF Never
      <4>4. probes'[n - f + 1] = probes[n - f + 1]
        BY <1>7, <4>1
      <4> QED
        BY <2>1, <4>1, <4>2, <4>3, <4>4
    <3> QED
      BY <2>1, <3>1, <3>2, <3>3, <3>4
  <2>11. Len(probes)' = n + 1 /\ detector.failures' = h /\ detector.first' = e.first
        /\ h \in Nat
    BY <1>7, <1>10, <1>11 DEF h, Detectors
  <2> QED
    BY <2>9, <2>10, <2>11 DEF RowInv
<1>14. GraceInv'
  <2>0. Grace = 5
    BY DEF Grace
  <2>1. /\ d.grace \in Nat
        /\ \A i \in 1..n : WasSuspended(i) => probes[i].time + Grace <= d.grace
        /\ d.grace = 0 \/ \E i \in 1..n : WasSuspended(i) /\ d.grace = probes[i].time + Grace
    BY <1>1, <1>n DEF HangInv, GraceInv, Detectors, d
  <2>2. SUFFICES /\ \A i \in 1..n + 1 : WasSuspended(i)' => probes'[i].time + Grace <= e.grace
                 /\ e.grace = 0 \/ \E i \in 1..n + 1 : /\ WasSuspended(i)'
                                                       /\ e.grace = probes'[i].time + Grace
    BY <1>7, <1>11 DEF GraceInv
  <2>3. CASE paused
    <3>1. e.grace = now + Grace /\ n > 0
      BY <1>10, <2>3 DEF paused
    <3>2. ASSUME NEW i \in 1..n + 1 PROVE probes'[i].time + Grace <= e.grace
      <4>1. CASE i = n + 1
        BY <1>4, <1>6, <1>7, <2>0, <3>1, <4>1
      <4>2. CASE i \in 1..n
        <5>1. probes[i].time <= probes[n].time /\ probes[i].time \in Nat /\ probes[n].time \in Nat
          BY <1>1, <1>3, <3>1, <4>2
        <5> QED
          <6>1. probes'[i].time = probes[i].time
            BY <1>7, <4>2
          <6>2. now = probes[n].time + wait /\ wait \in Nat
            BY <1>4, <3>1
          <6>3. probes[i].time <= now /\ now \in Nat
            BY <5>1, <6>2
          <6> QED
            BY <2>0, <3>1, <5>1, <6>1, <6>3
      <4> QED
        BY <1>n, <4>1, <4>2
    <3>3. WasSuspended(n + 1)' /\ e.grace = probes'[n + 1].time + Grace
      BY <1>6, <1>7, <1>8, <2>3, <3>1 DEF paused
    <3>4. n + 1 \in 1..n + 1
      BY <1>n
    <3> QED
      BY <3>2, <3>3, <3>4
  <2>4. CASE ~paused
    <3>1. e.grace = d.grace /\ ~WasSuspended(n + 1)'
      BY <1>8, <1>10, <2>4 DEF paused
    <3>2. ASSUME NEW i \in 1..n + 1, WasSuspended(i)'
          PROVE  probes'[i].time + Grace <= e.grace
      <4>1. i \in 1..n
        BY <1>n, <3>1, <3>2
      <4> QED
        BY <1>7, <1>8, <2>1, <3>1, <3>2, <4>1
    <3>3. ASSUME NEW i \in 1..n, WasSuspended(i), d.grace = probes[i].time + Grace
          PROVE  i \in 1..n + 1 /\ WasSuspended(i)' /\ e.grace = probes'[i].time + Grace
      BY <1>n, <1>7, <1>8, <3>1, <3>3
    <3> QED
      BY <2>1, <3>1, <3>2, <3>3
  <2> QED
    BY <2>3, <2>4
<1>15. HungInv'
  BY <1>5, <1>6, <1>7 DEF HungInv
<1> QED
  BY <1>12, <1>13, <1>14, <1>15 DEF HangInv

\* What the three numbers say is what a hang is.
LEMMA HangHolds ==
  ASSUME HangInv
  PROVE  HangIsReal
<1> DEFINE n == Len(probes)
           f == detector.failures
           p == probes[n]
<1>1. CASE n = 0
  BY <1>1 DEF HangIsReal
<1>2. CASE n > 0
  <2>1. /\ n \in Nat /\ f \in Nat /\ detector.grace \in Nat
        /\ \A i \in 1..n : probes[i].time \in Nat
        /\ \A i \in 1..n, j \in 1..n : i <= j => probes[i].time <= probes[j].time
    BY RoundsHaveTimes DEF HangInv, RoundsInv, Detectors
  <2>2. /\ Row(n, f, Without, Pauses) /\ f <= n
        /\ detector.first = IF f = 0 THEN Never ELSE probes[n - f + 1].time
    BY DEF HangInv, RowInv, Row
  <2>3. p.time >= detector.grace <=> \A i \in 1..n : WasSuspended(i) => p.time >= probes[i].time + Grace
    <3>0. Grace = 5
      BY DEF Grace
    <3>1. /\ \A i \in 1..n : WasSuspended(i) => probes[i].time + Grace <= detector.grace
          /\ detector.grace = 0 \/ \E i \in 1..n : /\ WasSuspended(i)
                                                   /\ detector.grace = probes[i].time + Grace
      BY DEF HangInv, GraceInv
    <3>2. p.time \in Nat
      BY <1>2, <2>1
    <3> QED
      BY <2>1, <3>0, <3>1, <3>2
  <2>4. (f >= Failures /\ p.time - detector.first >= HangTime) <=>
        \E i \in 1..n : /\ n - i >= Failures - 1
                        /\ p.time - probes[i].time >= HangTime
                        /\ \A k \in i..n : probes[k].answer = "no"
                        /\ \A k \in i + 1..n : ~WasSuspended(k)
    <3>0. Failures = 3 /\ HangTime = 5 /\ p.time \in Nat
      BY <1>2, <2>1 DEF Failures, HangTime
    <3>p. p = probes[n]
      OBVIOUS
    <3>r. /\ \A k \in n - f + 1..n : k \in Without
          /\ \A k \in n - f + 2..n : k \notin Pauses
      BY <2>2 DEF Row
    <3>w. /\ \A k \in 1..n : k \in Without <=> probes[k].answer = "no"
          /\ \A k \in 1..n : k \in Pauses <=> WasSuspended(k)
      BY DEF Without, Pauses
    <3> HIDE DEF n, f, p
    <3>1. ASSUME f >= Failures, p.time - detector.first >= HangTime
          PROVE  \E i \in 1..n : /\ n - i >= Failures - 1
                                 /\ p.time - probes[i].time >= HangTime
                                 /\ \A k \in i..n : probes[k].answer = "no"
                                 /\ \A k \in i + 1..n : ~WasSuspended(k)
      <4> DEFINE i == n - f + 1
      <4>1. i \in 1..n /\ n - i >= Failures - 1 /\ i + 1 = n - f + 2
        BY <2>1, <2>2, <3>0, <3>1
      <4>2. detector.first = probes[i].time
        BY <2>1, <2>2, <3>0, <3>1
      <4>3. \A k \in i..n : k \in 1..n /\ k \in Without
        BY <2>1, <2>2, <3>r
      <4>4. \A k \in i + 1..n : k \in 1..n /\ k \notin Pauses
        BY <2>1, <2>2, <3>r, <4>1
      <4> HIDE DEF i
      <4>5. \A k \in i..n : probes[k].answer = "no"
        BY <3>w, <4>3
      <4>6. \A k \in i + 1..n : ~WasSuspended(k)
        BY <3>w, <4>4
      <4> QED
        BY <3>1, <4>1, <4>2, <4>5, <4>6
    <3>2. ASSUME NEW i \in 1..n, n - i >= Failures - 1, p.time - probes[i].time >= HangTime,
                 \A k \in i..n : probes[k].answer = "no",
                 \A k \in i + 1..n : ~WasSuspended(k)
          PROVE  f >= Failures /\ p.time - detector.first >= HangTime
      <4>0. /\ \A k \in i..n : k \in Without
            /\ \A k \in i + 1..n : k \notin Pauses
        <5>1. i..n \subseteq 1..n /\ i + 1..n \subseteq 1..n
          BY <2>1
        <5> QED
          BY <3>2, <3>w, <5>1
      <4>1. n - f + 1 <= i
        BY <2>1, <2>2, <4>0, RowIsLongest
      <4>2. f >= 3 /\ n - f + 1 \in 1..n
        BY <2>1, <2>2, <3>0, <3>2, <4>1
      <4>3. detector.first = probes[n - f + 1].time
        BY <2>2, <4>2
      <4>4. probes[n - f + 1].time <= probes[i].time
        BY <2>1, <4>1, <4>2
      <4>5. probes[n - f + 1].time \in Nat /\ probes[i].time \in Nat
        BY <2>1, <4>2
      <4> QED
        BY <3>0, <3>2, <4>2, <4>3, <4>4, <4>5
    <3> QED
      BY <3>1, <3>2
  <2>5. hung <=> /\ ~p.closing /\ p.time >= detector.grace
                 /\ \/ f >= Failures /\ p.time - detector.first >= HangTime
                    \/ p.answer # "none" /\ p.beat # Never /\ p.time - p.beat >= BeatTime
    <3>1. probes # << >>
      BY <1>2 DEF HangInv, RoundsInv
    <3>2. hung = IsHung(detector, p.time, p.answer, p.beat, p.closing)
      BY <3>1 DEF HangInv, HungInv
    <3> HIDE DEF p
    <3> QED
      BY <3>2 DEF IsHung
  <2> QED
    BY <2>3, <2>4, <2>5 DEF HangIsReal
<1> QED
  BY <1>1, <1>2 DEF HangInv, RoundsInv

-----------------------------------------------------------------------------
(***************************************************************************)
(* Crashes.  One thread reports at a time, and the number it waits for is  *)
(* the last one; so what the helper has seen is either older or that very  *)
(* crash, and a capture that is not late is the only one that can be made. *)
(***************************************************************************)
HookRecord == [step : {"no", "reset", "waits", "ended"}, number : Nat]
SharedRecord == [number : Nat, thread : Threads \cup {None}, enabled : BOOLEAN,
                 active : BOOLEAN, answered : BOOLEAN, watched : BOOLEAN]
SlotRecord == [capture : Nat, crash : Nat, late : BOOLEAN]
HelperRecord == [step : {"look", "count", "decide", "tend", "left", "gone", "died"},
                 enabled : BOOLEAN, exited : BOOLEAN, hang : BOOLEAN, crash : BOOLEAN,
                 seen : Nat, slot : SlotRecord]
CaptureRecord == [step : {"starts", "cloned", "read", "exited"}, crash : Nat,
                  of : Threads \cup {None}, partial : BOOLEAN, ok : BOOLEAN,
                  old : BOOLEAN, killed : BOOLEAN]

MonitorTypes ==
    /\ program \in {"runs", "ended"} /\ hook \in [Threads -> HookRecord]
    /\ shared \in SharedRecord /\ helper \in HelperRecord
    /\ captures \in Seq(CaptureRecord) /\ writing \subseteq 1..Len(captures)

Reports(t) == hook[t].step \in {"reset", "waits"}

HookInv ==
    /\ program = "ended" => \A t \in Threads : hook[t].step = "ended"
    /\ \A t \in Threads : Reports(t) => shared.active
    /\ \A t, u \in Threads : Reports(t) /\ Reports(u) => t = u
    /\ \A t \in Threads : hook[t].step = "waits" =>
          hook[t].number = shared.number /\ shared.thread = t /\ shared.number > 0

\* A crash that is seen is answered, being dumped, or about to be decided.
Served ==
    \/ shared.answered
    \/ helper.slot.crash = shared.number /\ ~helper.slot.late
    \/ helper.step = "decide" /\ helper.crash

HelperInv ==
    /\ helper.seen <= shared.number
    /\ helper.exited => program = "ended"
    /\ helper.step = "left" \/ helper.step = "gone"
          \/ (helper.exited /\ helper.step \in {"decide", "tend"})
       => program = "ended" /\ helper.seen = shared.number
    /\ \A t \in Threads :
          hook[t].step = "waits" /\ helper.seen = shared.number /\ Watching => Served

SlotInv ==
    /\ helper.slot = NoSlot \/ helper.slot.capture \in 1..Len(captures)
    /\ OneCapture /\ PartialsAreDone
    /\ \A c \in 1..Len(captures) : captures[c].crash <= shared.number
    /\ DumpsMatch

MonitorInv == MonitorTypes /\ HookInv /\ HelperInv /\ SlotInv

LEMMA MonitorStarts ==
  ASSUME MonitorInit
  PROVE  MonitorInv
<1>1. /\ program = "runs" /\ hook = [t \in Threads |-> [step |-> "no", number |-> 0]]
      /\ shared = [number |-> 0, thread |-> None, enabled |-> FALSE, active |-> FALSE,
                   answered |-> FALSE, watched |-> TRUE]
      /\ helper = [step |-> "look", enabled |-> FALSE, exited |-> FALSE, hang |-> FALSE,
                   crash |-> FALSE, seen |-> 0,
                   slot |-> [capture |-> 0, crash |-> 0, late |-> FALSE]]
      /\ captures = << >> /\ writing = {}
  BY DEF MonitorInit, Untouched, NoSlot
<1>2. MonitorTypes
  <2>1. hook \in [Threads -> HookRecord] /\ shared \in SharedRecord
    BY <1>1 DEF HookRecord, SharedRecord
  <2>2. helper \in HelperRecord
    BY <1>1 DEF HelperRecord, SlotRecord
  <2> QED
    BY <1>1, <2>1, <2>2 DEF MonitorTypes
<1>3. HookInv /\ HelperInv
  BY <1>1 DEF HookInv, HelperInv, Reports
<1>4. SlotInv
  BY <1>1 DEF SlotInv, NoSlot, OneCapture, PartialsAreDone, DumpsMatch
<1> QED
  BY <1>2, <1>3, <1>4 DEF MonitorInv

\* The threads of the program: what an action of theirs leaves of the hooks.
LEMMA LetGoMoves ==
  ASSUME MonitorTypes, NEW t \in Threads, LetGo(t)
  PROVE  /\ hook' \in [Threads -> HookRecord] /\ program' \in {"runs", "ended"}
         /\ \/ program' = "ended" /\ \A u \in Threads : hook'[u].step = "ended"
            \/ /\ program' = program /\ hook'[t].step = "ended"
               /\ \A u \in Threads \ {t} : hook'[u] = hook[u]
<1>1. ThreadEnded = [step |-> "ended", number |-> 0] /\ ThreadEnded \in HookRecord
  BY DEF ThreadEnded, Untouched, HookRecord
<1>2. CASE ProgramEnds
  BY <1>1, <1>2 DEF ProgramEnds
<1>3. CASE hook' = [hook EXCEPT ![t] = ThreadEnded] /\ UNCHANGED program
  BY <1>1, <1>3 DEF MonitorTypes
<1> QED
  BY <1>2, <1>3 DEF LetGo

LEMMA ProgramTypesKept ==
  ASSUME MonitorTypes, NEW t \in Threads, Crash(t) \/ Publish(t) \/ StopWaiting(t)
  PROVE  MonitorTypes'
<1> USE DEF MonitorTypes
<1>1. CASE Crash(t)
  <2>1. CASE shared.watched /\ ~shared.active
    <3>1. hook' \in [Threads -> HookRecord]
      <4>1. [hook[t] EXCEPT !.step = "reset"] \in HookRecord
        BY DEF HookRecord
      <4> QED
        BY <1>1, <2>1, <4>1 DEF Crash
    <3>2. shared' \in SharedRecord
      BY <1>1, <2>1 DEF Crash, SharedRecord
    <3> QED
      BY <1>1, <2>1, <3>1, <3>2 DEF Crash
  <2>2. CASE ~(shared.watched /\ ~shared.active)
    BY <1>1, <2>2, LetGoMoves DEF Crash
  <2> QED
    BY <2>1, <2>2
<1>2. CASE Publish(t)
  <2>0. shared.number \in Nat /\ shared.number + 1 \in Nat
    BY DEF SharedRecord
  <2>1. shared' \in SharedRecord
    BY <1>2, <2>0 DEF Publish, SharedRecord
  <2>2. hook' \in [Threads -> HookRecord]
    <3>1. [step |-> "waits", number |-> shared.number + 1] \in HookRecord
      BY <2>0 DEF HookRecord
    <3> QED
      BY <1>2, <3>1 DEF Publish
  <2> QED
    BY <1>2, <2>1, <2>2 DEF Publish
<1>3. CASE StopWaiting(t)
  <2>1. shared' \in SharedRecord
    BY <1>3 DEF StopWaiting, SharedRecord
  <2> QED
    BY <1>3, <2>1, LetGoMoves DEF StopWaiting
<1> QED
  BY <1>1, <1>2, <1>3

LEMMA HelperTypesKept ==
  ASSUME MonitorTypes, Mirror \/ Quit \/ Look \/ SeeCrash \/ StartNone \/ HelperEnds
  PROVE  MonitorTypes'
<1> USE DEF MonitorTypes
<1>1. CASE Mirror
  <2>1. shared' \in SharedRecord
    BY <1>1 DEF Mirror, SharedRecord
  <2> QED
    BY <1>1, <2>1 DEF Mirror
<1>2. CASE Quit
  <2>1. ThreadEnded \in HookRecord
    BY DEF ThreadEnded, Untouched, HookRecord
  <2> QED
    BY <1>2, <2>1 DEF Quit, ProgramEnds
<1>3. CASE Look
  <2>1. shared.enabled \in BOOLEAN /\ (program = "ended") \in BOOLEAN
    BY DEF SharedRecord
  <2>2. helper' \in HelperRecord
    BY <1>3, <2>1 DEF Look, HelperRecord
  <2> QED
    BY <1>3, <2>2 DEF Look
<1>4. CASE SeeCrash
  <2>1. shared.number \in Nat /\ (shared.number > helper.seen) \in BOOLEAN
    BY DEF SharedRecord
  <2>2. helper' \in HelperRecord
    BY <1>4, <2>1 DEF SeeCrash, HelperRecord
  <2> QED
    BY <1>4, <2>2 DEF SeeCrash
<1>5. CASE StartNone
  <2>1. PICK cooled \in BOOLEAN : SetEvent(Unanswered(cooled))
    BY <1>5 DEF StartNone
  <2>2. (shared.answered \/ Unanswered(cooled)) \in BOOLEAN
    OBVIOUS
  <2>3. shared' \in SharedRecord
    BY <2>1, <2>2 DEF SetEvent, SharedRecord
  <2>4. helper' \in HelperRecord
    BY <1>5 DEF StartNone, Go, HelperRecord
  <2> QED
    BY <1>5, <2>3, <2>4 DEF StartNone
<1>6. CASE HelperEnds
  <2>1. helper' \in HelperRecord
    BY <1>6 DEF HelperEnds, Go, HelperRecord
  <2> QED
    BY <1>6, <2>1 DEF HelperEnds
<1> QED
  BY <1>1, <1>2, <1>3, <1>4, <1>5, <1>6

\* A capture becomes one that has not started again and is of the same crash, or of none.
Follows(r, old) ==
    /\ r \in CaptureRecord
    /\ r.step # "exited" => old.step # "exited"
    /\ r.crash = 0 \/ (r.crash = old.crash /\ (r.of = old.of \/ r.of = shared.thread))

CaptureStep(c) ==
    CloneProcess(c) \/ ReadRecord(c) \/ FinishDump(c) \/ KilledEnds(c) \/ GrowOld(c)

LEMMA ReplacedCapture ==
  ASSUME NEW s \in Seq(CaptureRecord), NEW c \in 1..Len(s), NEW r \in CaptureRecord
  PROVE  LET u == [s EXCEPT ![c] = r] IN
         /\ u \in Seq(CaptureRecord) /\ Len(u) = Len(s) /\ u[c] = r
         /\ \A d \in 1..Len(s) : d # c => u[d] = s[d]
BY ExceptSeq

LEMMA CapturesAre ==
  ASSUME MonitorTypes
  PROVE  /\ DOMAIN captures = 1..Len(captures) /\ Len(captures) \in Nat
         /\ \A c \in 1..Len(captures) : captures[c] \in CaptureRecord
BY DEF MonitorTypes

\* What a capture process does to its own record.
LEMMA CapturesMove ==
  ASSUME MonitorTypes, NEW c \in DOMAIN captures, CaptureStep(c)
  PROVE  /\ UNCHANGED <<program, hook, shared, helper, writing>>
         /\ \E r : Follows(r, captures[c]) /\ captures' = [captures EXCEPT ![c] = r]
<1>1. captures[c] \in CaptureRecord /\ shared.thread \in Threads \cup {None}
  BY CapturesAre DEF MonitorTypes, SharedRecord
<1>3. \A ok \in BOOLEAN, partial \in BOOLEAN : Follows(Exited(ok, partial), captures[c])
  <2> TAKE ok \in BOOLEAN, partial \in BOOLEAN
  <2> DEFINE r == [step |-> "exited", crash |-> 0, of |-> None, partial |-> partial,
                   ok |-> ok, old |-> FALSE, killed |-> FALSE]
  <2>1. r \in CaptureRecord /\ r.crash = 0 /\ r.step = "exited"
    BY DEF CaptureRecord
  <2>2. Exited(ok, partial) = r
    BY DEF Exited, CaptureAt
  <2> HIDE DEF r
  <2>3. Follows(r, captures[c])
    BY <2>1 DEF Follows
  <2> QED
    BY <2>2, <2>3
<1>4. CASE CloneProcess(c)
  <2>1. CASE CaptureIs(c, [captures[c] EXCEPT !.step = "cloned", !.partial = TRUE])
    <3>1. Follows([captures[c] EXCEPT !.step = "cloned", !.partial = TRUE], captures[c])
      BY <1>1, <1>4 DEF Follows, CaptureRecord, CloneProcess
    <3> QED
      BY <2>1, <3>1 DEF CaptureIs
  <2>2. CASE CaptureIs(c, Exited(FALSE, FALSE))
    BY <1>3, <2>2 DEF CaptureIs
  <2> QED
    BY <1>4, <2>1, <2>2 DEF CloneProcess
<1>5. CASE ReadRecord(c)
  <2>1. Follows([captures[c] EXCEPT !.step = "read", !.of = shared.thread], captures[c])
    BY <1>1, <1>5 DEF Follows, CaptureRecord, ReadRecord
  <2> QED
    BY <1>5, <2>1 DEF ReadRecord, CaptureIs
<1>6. CASE FinishDump(c)
  <2>1. PICK e \in [ok : BOOLEAN, partial : BOOLEAN] : CaptureIs(c, Exited(e.ok, e.partial))
    BY <1>6 DEF FinishDump, DumpEnds
  <2> QED
    BY <1>3, <2>1 DEF CaptureIs
<1>7. CASE KilledEnds(c)
  <2>1. captures[c].partial \in BOOLEAN
    BY <1>1 DEF CaptureRecord
  <2> QED
    BY <1>3, <1>7, <2>1 DEF KilledEnds, CaptureIs
<1>8. CASE GrowOld(c)
  <2>1. Follows([captures[c] EXCEPT !.old = TRUE], captures[c])
    BY <1>1 DEF Follows, CaptureRecord
  <2> QED
    BY <1>8, <2>1 DEF GrowOld, CaptureIs
<1> QED
  BY <1>4, <1>5, <1>6, <1>7, <1>8 DEF CaptureStep

\* What the end of a round does.
LEMMA TendMoves ==
  ASSUME MonitorTypes, SlotInv, Tend
  PROVE  LET c == helper.slot.capture
             some == helper.slot # NoSlot
             late == helper.slot.late \/ (some /\ captures[c].old)
             ended == some /\ ~StillRuns(c)
             then == IF ended THEN NoSlot
                     ELSE [capture |-> c, crash |-> helper.slot.crash, late |-> late] IN
         /\ UNCHANGED <<program, hook>>
         /\ then \in SlotRecord
         /\ shared' = [shared EXCEPT !.answered =
                          @ \/ (late /\ ~helper.slot.late) \/ (ended /\ helper.slot.crash # 0)]
         /\ IF some THEN /\ c \in 1..Len(captures)
                         /\ \E r : /\ Follows(r, captures[c]) /\ r.step = captures[c].step
                                   /\ captures' = [captures EXCEPT ![c] = r]
            ELSE captures' = captures
         /\ writing' = writing \/ (ended /\ writing' = writing \cup {c})
         /\ helper.step = "tend"
         /\ helper' = [step |-> IF helper.exited /\ then = NoSlot THEN "left" ELSE "look",
                       enabled |-> FALSE, exited |-> FALSE, hang |-> FALSE, crash |-> FALSE,
                       seen |-> helper.seen, slot |-> then]
<1> DEFINE c == helper.slot.capture
           some == helper.slot # NoSlot
           late == helper.slot.late \/ (some /\ captures[c].old)
           ended == some /\ ~StillRuns(c)
           given2 == [helper.slot EXCEPT !.late = late]
           slot2 == IF ended THEN NoSlot ELSE given2
<1>1. /\ helper = [step |-> helper.step, enabled |-> helper.enabled, exited |-> helper.exited,
                   hang |-> helper.hang, crash |-> helper.crash, seen |-> helper.seen,
                   slot |-> helper.slot]
      /\ helper.slot = [capture |-> c, crash |-> helper.slot.crash, late |-> helper.slot.late]
      /\ c \in Nat /\ helper.slot.crash \in Nat /\ helper.slot.late \in BOOLEAN
  BY DEF MonitorTypes, HelperRecord, SlotRecord
<1>2. some => c \in 1..Len(captures) /\ captures[c] \in CaptureRecord
  BY CapturesAre DEF SlotInv
<1>3. late \in BOOLEAN
  BY <1>1, <1>2 DEF CaptureRecord
<1> HIDE DEF late
<1>4. given2 = [capture |-> c, crash |-> helper.slot.crash, late |-> late]
  BY <1>1
<1>5. slot2 \in SlotRecord
  <2>1. NoSlot \in SlotRecord
    BY DEF NoSlot, SlotRecord
  <2>2. given2 \in SlotRecord
    BY <1>1, <1>3, <1>4 DEF SlotRecord
  <2> QED
    BY <2>1, <2>2
<1>6. /\ captures' = IF some THEN [captures EXCEPT ![c].killed = late /\ ~ended] ELSE captures
      /\ SetEvent((late /\ ~helper.slot.late) \/ (ended /\ helper.slot.crash # 0))
      /\ writing' \in IF ended /\ (late \/ ~captures[c].ok) THEN {writing, writing \cup {c}}
                      ELSE {writing}
      /\ helper' = Rest(IF helper.exited /\ slot2 = NoSlot THEN "left" ELSE "look", slot2)
      /\ UNCHANGED <<program, hook>> /\ helper.step = "tend"
  BY DEF Tend, late
<1>7. IF some THEN /\ c \in 1..Len(captures)
                   /\ \E r : /\ Follows(r, captures[c]) /\ r.step = captures[c].step
                             /\ captures' = [captures EXCEPT ![c] = r]
      ELSE captures' = captures
  <2>1. CASE ~some
    BY <1>6, <2>1
  <2>2. CASE some
    <3> DEFINE r == [captures[c] EXCEPT !.killed = late /\ ~ended]
    <3>0. (late /\ ~ended) \in BOOLEAN
      OBVIOUS
    <3>1. Follows(r, captures[c]) /\ r.step = captures[c].step
      BY <1>2, <2>2, <3>0 DEF Follows, CaptureRecord
    <3>2. captures' = [captures EXCEPT ![c] = r]
      BY <1>6, <2>2
    <3> QED
      BY <1>2, <2>2, <3>1, <3>2
  <2> QED
    BY <2>1, <2>2
<1>8. helper' = [step |-> IF helper.exited /\ slot2 = NoSlot THEN "left" ELSE "look",
                 enabled |-> FALSE, exited |-> FALSE, hang |-> FALSE, crash |-> FALSE,
                 seen |-> helper.seen, slot |-> slot2]
  <2> DEFINE next == IF helper.exited /\ slot2 = NoSlot THEN "left" ELSE "look"
  <2>1. helper' = Rest(next, slot2)
    BY <1>6
  <2> HIDE DEF slot2, next
  <2>2. Rest(next, slot2) =
          [step |-> next, enabled |-> FALSE, exited |-> FALSE, hang |-> FALSE,
           crash |-> FALSE, seen |-> helper.seen, slot |-> slot2]
    BY DEF Rest
  <2> QED
    BY <2>1, <2>2 DEF next
<1>9. writing' = writing \/ (ended /\ writing' = writing \cup {c})
  BY <1>6
<1>10. shared' = [shared EXCEPT !.answered =
                     @ \/ (late /\ ~helper.slot.late) \/ (ended /\ helper.slot.crash # 0)]
  BY <1>6 DEF SetEvent
<1>11. slot2 = IF ended THEN NoSlot ELSE [capture |-> c, crash |-> helper.slot.crash,
                                          late |-> late]
  BY <1>4
<1> QED
  BY <1>5, <1>6, <1>7, <1>8, <1>9, <1>10, <1>11 DEF late

LEMMA StartMoves ==
  ASSUME MonitorTypes, StartCapture
  PROVE  /\ UNCHANGED <<program, hook, shared, writing>>
         /\ helper.step = "decide" /\ helper.slot = NoSlot
         /\ \E r \in CaptureRecord :
               /\ r.crash = (IF helper.crash THEN helper.seen ELSE 0) /\ r.of = None
               /\ captures' = Append(captures, r)
               /\ [capture |-> Len(captures) + 1, crash |-> r.crash, late |-> FALSE]
                     \in SlotRecord
               /\ helper' = [helper EXCEPT !.step = "tend",
                                !.slot = [capture |-> Len(captures) + 1, crash |-> r.crash,
                                          late |-> FALSE]]
<1> DEFINE crash == IF helper.crash THEN helper.seen ELSE 0
           r == [step |-> "starts", crash |-> crash, of |-> None, partial |-> FALSE,
                 ok |-> FALSE, old |-> FALSE, killed |-> FALSE]
<1>1. crash \in Nat /\ Len(captures) + 1 \in Nat
  BY DEF MonitorTypes, HelperRecord
<1>2. CaptureAt("starts", crash, FALSE, FALSE) = r
  BY DEF CaptureAt
<1>3. /\ captures' = Append(captures, r)
      /\ helper' = [helper EXCEPT !.step = "tend",
                       !.slot = [capture |-> Len(captures) + 1, crash |-> crash,
                                 late |-> FALSE]]
  BY <1>2 DEF StartCapture
<1> HIDE DEF crash
<1>4. r \in CaptureRecord /\ r.crash = crash /\ r.of = None
  BY <1>1 DEF CaptureRecord
<1>5. [capture |-> Len(captures) + 1, crash |-> crash, late |-> FALSE] \in SlotRecord
  BY <1>1 DEF SlotRecord
<1> HIDE DEF r
<1>6. /\ UNCHANGED <<program, hook, shared, writing>>
      /\ helper.step = "decide" /\ helper.slot = NoSlot
  BY DEF StartCapture, Dump
<1> QED
  BY <1>3, <1>4, <1>5, <1>6 DEF crash

LEMMA RemoveMoves ==
  ASSUME MonitorTypes, RemovePartial
  PROVE  /\ UNCHANGED <<program, hook, shared, helper>> /\ writing' \subseteq writing
         /\ \E c \in 1..Len(captures) : \E r :
               /\ Follows(r, captures[c]) /\ r.step = captures[c].step
               /\ captures' = [captures EXCEPT ![c] = r]
<1>1. PICK c \in writing : /\ writing' = writing \ {c}
                           /\ captures' = [captures EXCEPT ![c].partial = FALSE]
  BY DEF RemovePartial
<1>2. c \in 1..Len(captures) /\ captures[c] \in CaptureRecord
  BY CapturesAre DEF MonitorTypes
<1>3. /\ Follows([captures[c] EXCEPT !.partial = FALSE], captures[c])
      /\ [captures[c] EXCEPT !.partial = FALSE].step = captures[c].step
  BY <1>2 DEF Follows, CaptureRecord
<1>4. captures' = [captures EXCEPT ![c] = [captures[c] EXCEPT !.partial = FALSE]]
  BY <1>1
<1> QED
  BY <1>1, <1>2, <1>3, <1>4 DEF RemovePartial

LEMMA MonitorTypesKept ==
  ASSUME MonitorTypes, SlotInv, MonitorNext
  PROVE  MonitorTypes'
<1> USE DEF MonitorTypes
<1>1. CASE StartCapture
  <2>1. PICK r \in CaptureRecord :
          /\ captures' = Append(captures, r)
          /\ [capture |-> Len(captures) + 1, crash |-> r.crash, late |-> FALSE] \in SlotRecord
          /\ helper' = [helper EXCEPT !.step = "tend",
                           !.slot = [capture |-> Len(captures) + 1, crash |-> r.crash,
                                     late |-> FALSE]]
    BY <1>1, StartMoves
  <2>2. helper' \in HelperRecord
    <3> DEFINE slot2 == [capture |-> Len(captures) + 1, crash |-> r.crash, late |-> FALSE]
    <3>1. helper' = [helper EXCEPT !.step = "tend", !.slot = slot2] /\ slot2 \in SlotRecord
      BY <2>1
    <3> HIDE DEF slot2
    <3> QED
      BY <3>1 DEF HelperRecord
  <2>3. captures' \in Seq(CaptureRecord) /\ Len(captures') = Len(captures) + 1
    BY <2>1, AppendProperties
  <2>4. writing' \subseteq 1..Len(captures')
    <3>1. writing' = writing
      BY <1>1 DEF StartCapture
    <3>2. Len(captures) \in Nat
      BY CapturesAre
    <3>3. writing \subseteq 1..Len(captures)
      OBVIOUS
    <3> QED
      BY <2>3, <3>1, <3>2, <3>3
  <2> QED
    BY <1>1, <2>2, <2>3, <2>4, StartMoves
<1>2. CASE Tend
  <2> DEFINE c == helper.slot.capture
             some == helper.slot # NoSlot
             late == helper.slot.late \/ (some /\ captures[c].old)
             ended == some /\ ~StillRuns(c)
             slot2 == IF ended THEN NoSlot
                      ELSE [capture |-> c, crash |-> helper.slot.crash, late |-> late]
             answered2 == \/ shared.answered \/ (late /\ ~helper.slot.late)
                          \/ (ended /\ helper.slot.crash # 0)
             next == IF helper.exited /\ slot2 = NoSlot THEN "left" ELSE "look"
  <2>0. /\ UNCHANGED <<program, hook>> /\ slot2 \in SlotRecord
        /\ shared' = [shared EXCEPT !.answered = answered2]
        /\ IF some THEN /\ c \in 1..Len(captures)
                        /\ \E r : Follows(r, captures[c]) /\ captures' = [captures EXCEPT ![c] = r]
           ELSE captures' = captures
        /\ writing' = writing \/ (ended /\ writing' = writing \cup {c})
        /\ helper' = [step |-> next, enabled |-> FALSE, exited |-> FALSE, hang |-> FALSE,
                      crash |-> FALSE, seen |-> helper.seen, slot |-> slot2]
    BY <1>2, TendMoves
  <2>1. answered2 \in BOOLEAN /\ next \in {"left", "look"} /\ (ended => some)
    BY <2>0 DEF SharedRecord
  <2> HIDE DEF c, some, late, ended, slot2, answered2, next
  <2>2. shared' \in SharedRecord
    BY <2>0, <2>1 DEF SharedRecord
  <2>3. helper' \in HelperRecord
    <3>1. helper.seen \in Nat
      BY DEF HelperRecord
    <3> QED
      BY <2>0, <2>1, <3>1 DEF HelperRecord
  <2>4. captures' \in Seq(CaptureRecord) /\ Len(captures') = Len(captures)
        /\ writing' \subseteq 1..Len(captures)
    <3>1. CASE some
      <4>1. PICK r : Follows(r, captures[c]) /\ captures' = [captures EXCEPT ![c] = r]
        BY <2>0, <3>1
      <4>2. c \in 1..Len(captures) /\ r \in CaptureRecord
        BY <2>0, <3>1, <4>1 DEF Follows
      <4>3. captures' \in Seq(CaptureRecord) /\ Len(captures') = Len(captures)
        BY <4>1, <4>2, ReplacedCapture
      <4> QED
        BY <2>0, <4>2, <4>3
    <3>2. CASE ~some
      BY <2>0, <2>1, <3>2
    <3> QED
      BY <3>1, <3>2
  <2> QED
    BY <2>0, <2>2, <2>3, <2>4
<1>3. CASE RemovePartial
  <2>1. captures' \in Seq(CaptureRecord) /\ Len(captures') = Len(captures)
    BY <1>3, RemoveMoves, ReplacedCapture DEF Follows
  <2> QED
    BY <1>3, <2>1, RemoveMoves
<1>4. ASSUME NEW c \in DOMAIN captures, CaptureStep(c) PROVE MonitorTypes'
  <2>0. c \in 1..Len(captures)
    BY CapturesAre
  <2>1. PICK r : Follows(r, captures[c]) /\ captures' = [captures EXCEPT ![c] = r]
    BY <1>4, CapturesMove
  <2>2. captures' \in Seq(CaptureRecord) /\ Len(captures') = Len(captures)
    BY <2>0, <2>1, ReplacedCapture DEF Follows
  <2>3. UNCHANGED <<program, hook, shared, helper, writing>>
    BY <1>4, CapturesMove
  <2> QED
    BY <2>2, <2>3
<1>5. ASSUME NEW t \in Threads, Crash(t) \/ Publish(t) \/ StopWaiting(t) PROVE MonitorTypes'
  BY <1>5, ProgramTypesKept
<1>6. CASE Mirror \/ Quit \/ Look \/ SeeCrash \/ StartNone \/ HelperEnds
  BY <1>6, HelperTypesKept
<1> QED
  BY <1>1, <1>2, <1>3, <1>4, <1>5, <1>6 DEF MonitorNext, HelperStep, CaptureStep

LEMMA HookKept ==
  ASSUME MonitorTypes, HookInv, SlotInv, MonitorNext
  PROVE  HookInv'
<1>0. /\ hook \in [Threads -> HookRecord] /\ shared \in SharedRecord
      /\ shared.number \in Nat /\ shared.number + 1 > 0
  BY DEF MonitorTypes, SharedRecord
<1> USE DEF HookInv, Reports
<1>1. ASSUME NEW t \in Threads, Crash(t) PROVE HookInv'
  <2>1. CASE shared.watched /\ ~shared.active
    <3>1. /\ program' = program /\ hook'[t].step = "reset"
          /\ \A u \in Threads \ {t} : hook'[u] = hook[u]
          /\ hook[t].step = "no" /\ program = "runs"
      <4>1. hook' = [hook EXCEPT ![t] = [hook[t] EXCEPT !.step = "reset"]]
        BY <1>1, <2>1 DEF Crash
      <4>2. hook[t] \in HookRecord
        BY <1>0
      <4>3. [hook[t] EXCEPT !.step = "reset"].step = "reset"
        BY <4>2 DEF HookRecord
      <4>4. hook'[t] = [hook[t] EXCEPT !.step = "reset"]
            /\ \A u \in Threads \ {t} : hook'[u] = hook[u]
        BY <1>0, <4>1
      <4> QED
        BY <1>1, <2>1, <4>3, <4>4 DEF Crash
    <3>2. shared'.active
      BY <1>0, <1>1, <2>1 DEF Crash, SharedRecord
    <3>3. \A u \in Threads : hook[u].step \notin {"reset", "waits"}
      BY <2>1
    <3> QED
      BY <3>1, <3>2, <3>3
  <2>2. CASE ~(shared.watched /\ ~shared.active)
    <3>1. LetGo(t) /\ shared' = shared
      BY <1>1, <2>2 DEF Crash
    <3> QED
      BY <3>1, LetGoMoves
  <2> QED
    BY <2>1, <2>2
<1>2. ASSUME NEW t \in Threads, Publish(t) PROVE HookInv'
  <2>1. /\ program' = program /\ hook'[t] = [step |-> "waits", number |-> shared.number + 1]
        /\ \A u \in Threads \ {t} : hook'[u] = hook[u]
        /\ hook[t].step = "reset" /\ program = "runs"
    BY <1>0, <1>2 DEF Publish
  <2>2. /\ shared'.active = shared.active /\ shared'.number = shared.number + 1
        /\ shared'.thread = t
    BY <1>0, <1>2 DEF Publish, SharedRecord
  <2>3. \A u \in Threads \ {t} : hook[u].step \notin {"reset", "waits"}
    BY <2>1
  <2>4. hook'[t].step = "waits" /\ hook'[t].number = shared.number + 1
    BY <2>1
  <2> QED
    BY <1>0, <2>1, <2>2, <2>3, <2>4
<1>3. ASSUME NEW t \in Threads, StopWaiting(t) PROVE HookInv'
  <2>1. LetGo(t) /\ hook[t].step = "waits" /\ program = "runs"
    BY <1>3 DEF StopWaiting
  <2>2. \A u \in Threads \ {t} : hook[u].step \notin {"reset", "waits"}
    BY <2>1
  <2> QED
    BY <2>1, <2>2, LetGoMoves
<1>4. CASE Quit
  BY <1>4 DEF Quit, ProgramEnds, ThreadEnded, Untouched
<1>5. ASSUME UNCHANGED <<program, hook>>, shared'.number = shared.number,
             shared'.thread = shared.thread, shared'.active = shared.active
      PROVE  HookInv'
  BY <1>5
<1>6. CASE Mirror
  BY <1>0, <1>5, <1>6 DEF Mirror, SharedRecord
<1>7. CASE StartNone
  <2>1. PICK cooled \in BOOLEAN : SetEvent(Unanswered(cooled))
    BY <1>7 DEF StartNone
  <2>2. /\ shared'.number = shared.number /\ shared'.thread = shared.thread
        /\ shared'.active = shared.active
    BY <1>0, <2>1 DEF SetEvent, SharedRecord
  <2> QED
    BY <1>5, <1>7, <2>2 DEF StartNone
<1>8. CASE Tend
  <2>1. UNCHANGED <<program, hook>> /\ \E a : shared' = [shared EXCEPT !.answered = a]
    BY <1>8, TendMoves
  <2>2. /\ shared'.number = shared.number /\ shared'.thread = shared.thread
        /\ shared'.active = shared.active
    BY <1>0, <2>1 DEF SharedRecord
  <2> QED
    BY <1>5, <2>1, <2>2
<1>9. CASE UNCHANGED <<program, hook, shared>>
  BY <1>5, <1>9
<1>10. ASSUME NEW c \in DOMAIN captures, CaptureStep(c) PROVE HookInv'
  BY <1>9, <1>10, CapturesMove
<1> QED
  BY <1>1, <1>2, <1>3, <1>4, <1>6, <1>7, <1>8, <1>9, <1>10
     DEF MonitorNext, HelperStep, Look, SeeCrash, StartCapture, HelperEnds, RemovePartial,
         CaptureStep

\* The number of the last crash: only a thread that reports raises it.
LEMMA NumberMoves ==
  ASSUME MonitorTypes, SlotInv, MonitorNext
  PROVE  /\ shared.number \in Nat /\ shared'.number \in Nat
         /\ \/ shared'.number = shared.number
            \/ \E t \in Threads : Publish(t) /\ shared'.number = shared.number + 1
         /\ program = "ended" => program' = "ended" /\ shared'.number = shared.number
<1>0. shared \in SharedRecord /\ shared.number \in Nat /\ program \in {"runs", "ended"}
  BY DEF MonitorTypes, SharedRecord
<1>1. ASSUME NEW t \in Threads, Crash(t) \/ StopWaiting(t)
      PROVE  shared'.number = shared.number /\ program = "runs"
  BY <1>0, <1>1 DEF Crash, StopWaiting, SharedRecord
<1>2. ASSUME NEW t \in Threads, Publish(t)
      PROVE  shared'.number = shared.number + 1 /\ program = "runs"
  BY <1>0, <1>2 DEF Publish, SharedRecord
<1>3. ASSUME Mirror PROVE shared'.number = shared.number /\ program' = program
  BY <1>0, <1>3 DEF Mirror, SharedRecord
<1>4. ASSUME StartNone PROVE shared'.number = shared.number /\ program' = program
  <2>1. PICK cooled \in BOOLEAN : SetEvent(Unanswered(cooled))
    BY <1>4 DEF StartNone
  <2> QED
    BY <1>0, <1>4, <2>1 DEF SetEvent, SharedRecord, StartNone
<1>5. ASSUME Tend PROVE shared'.number = shared.number /\ program' = program
  <2>1. program' = program /\ \E a : shared' = [shared EXCEPT !.answered = a]
    BY <1>5, TendMoves
  <2> QED
    BY <1>0, <2>1 DEF SharedRecord
<1>6. CASE shared' = shared /\ (program' = program \/ program = "runs")
  BY <1>0, <1>6
<1>7. ASSUME NEW c \in DOMAIN captures, CaptureStep(c)
      PROVE  shared' = shared /\ program' = program
  BY <1>7, CapturesMove
<1>8. \/ \E t \in Threads : Crash(t) \/ StopWaiting(t)
      \/ \E t \in Threads : Publish(t)
      \/ Mirror \/ StartNone \/ Tend
      \/ shared' = shared /\ (program' = program \/ program = "runs")
      \/ \E c \in DOMAIN captures : CaptureStep(c)
  BY DEF MonitorNext, HelperStep, Look, SeeCrash, StartCapture, HelperEnds, RemovePartial,
         CaptureStep, Quit
<1>9. (Mirror \/ StartNone \/ Tend) => shared'.number = shared.number /\ program' = program
  BY <1>3, <1>4, <1>5
<1> QED
  BY <1>0, <1>1, <1>2, <1>6, <1>7, <1>8, <1>9

\* A thread begins to wait when its crash is published.
LEMMA WaitsMove ==
  ASSUME MonitorTypes, HookInv, SlotInv, MonitorNext, NEW t \in Threads,
         hook'[t].step = "waits"
  PROVE  hook[t].step = "waits" \/ Publish(t)
<1>0. hook \in [Threads -> HookRecord]
  BY DEF MonitorTypes
<1>1. ASSUME NEW u \in Threads, Crash(u) PROVE hook[t].step = "waits"
  <2>1. CASE shared.watched /\ ~shared.active
    <3>1. hook' = [hook EXCEPT ![u] = [hook[u] EXCEPT !.step = "reset"]]
      BY <1>1, <2>1 DEF Crash
    <3>2. hook[u] \in HookRecord
      BY <1>0
    <3>3. [hook[u] EXCEPT !.step = "reset"].step = "reset"
      BY <3>2 DEF HookRecord
    <3> QED
      BY <1>0, <3>1, <3>3
  <2>2. CASE ~(shared.watched /\ ~shared.active)
    BY <1>1, <2>2, LetGoMoves DEF Crash
  <2> QED
    BY <2>1, <2>2
<1>2. ASSUME NEW u \in Threads, Publish(u) PROVE hook[t].step = "waits" \/ Publish(t)
  BY <1>0, <1>2 DEF Publish
<1>3. ASSUME NEW u \in Threads, StopWaiting(u) PROVE hook[t].step = "waits"
  BY <1>3, LetGoMoves DEF StopWaiting
<1>4. Quit => FALSE
  BY DEF Quit, ProgramEnds, ThreadEnded, Untouched
<1>5. CASE Tend
  BY <1>5, TendMoves
<1>6. CASE hook' = hook
  BY <1>6
<1>7. ASSUME NEW c \in DOMAIN captures, CaptureStep(c) PROVE hook' = hook
  BY <1>7, CapturesMove
<1> QED
  BY <1>1, <1>2, <1>3, <1>4, <1>5, <1>6, <1>7
     DEF MonitorNext, HelperStep, Look, SeeCrash, StartCapture, StartNone, HelperEnds,
         RemovePartial, CaptureStep, Mirror

LEMMA HelperKept ==
  ASSUME MonitorTypes, HookInv, HelperInv, SlotInv, MonitorNext
  PROVE  HelperInv'
<1> DEFINE n == shared.number
<1>0. /\ shared \in SharedRecord /\ helper \in HelperRecord /\ helper.slot \in SlotRecord
      /\ n \in Nat /\ helper.seen \in Nat /\ helper.seen <= n
      /\ helper.slot.crash \in Nat
  BY DEF MonitorTypes, SharedRecord, HelperRecord, SlotRecord, HelperInv
<1>1. /\ shared'.number \in Nat
      /\ \/ shared'.number = n
         \/ \E t \in Threads : Publish(t) /\ shared'.number = n + 1
      /\ program = "ended" => program' = "ended" /\ shared'.number = n
  BY NumberMoves
<1>2. n <= shared'.number
  BY <1>0, <1>1
<1>3. \A t \in Threads : Publish(t) => shared'.number = n + 1
  BY <1>0 DEF Publish, SharedRecord
\* The helper stays where it is.
<1>4. ASSUME helper' = helper, shared'.answered = shared.answered
      PROVE  HelperInv'
  <2>1. helper'.seen <= shared'.number
    BY <1>0, <1>1, <1>2, <1>4
  <2>2. /\ helper'.exited => program' = "ended"
        /\ helper'.step = "left" \/ helper'.step = "gone"
              \/ (helper'.exited /\ helper'.step \in {"decide", "tend"})
           => program' = "ended" /\ helper'.seen = shared'.number
    BY <1>1, <1>4 DEF HelperInv
  <2>3. ASSUME NEW t \in Threads, hook'[t].step = "waits", helper'.seen = shared'.number,
               Watching'
        PROVE  Served'
    <3>1. ~Publish(t)
      BY <1>0, <1>3, <1>4, <2>3
    <3>2. shared'.number = n
      BY <1>0, <1>1, <1>4, <2>3
    <3>3. Served
      BY <1>4, <2>3, <3>1, <3>2, WaitsMove DEF HelperInv, Watching
    <3> QED
      BY <1>4, <3>2, <3>3 DEF Served
  <2> QED
    BY <2>1, <2>2, <2>3 DEF HelperInv
<1>5. ASSUME NEW t \in Threads, Crash(t), shared.watched /\ ~shared.active
      PROVE  HelperInv'
  <2>1. /\ helper' = helper /\ program' = program /\ shared'.number = n
        /\ hook' = [hook EXCEPT ![t] = [hook[t] EXCEPT !.step = "reset"]]
    BY <1>0, <1>5 DEF Crash, SharedRecord
  <2>2. \A u \in Threads : hook[u].step # "waits" /\ ~Publish(u)
    BY <1>5 DEF HookInv, Reports, Publish
  <2>3. \A u \in Threads : hook'[u].step # "waits"
    BY <2>2, WaitsMove
  <2> QED
    BY <2>1, <2>3 DEF HelperInv
<1>6. ASSUME NEW t \in Threads, Crash(t), ~(shared.watched /\ ~shared.active)
      PROVE  HelperInv'
  BY <1>4, <1>6 DEF Crash
<1>7. ASSUME NEW t \in Threads, Publish(t) \/ StopWaiting(t) PROVE HelperInv'
  <2>1. helper' = helper /\ shared'.answered = shared.answered
    BY <1>0, <1>7 DEF Publish, StopWaiting, SharedRecord
  <2> QED
    BY <1>4, <2>1
<1>8. CASE Mirror
  <2>1. helper' = helper /\ shared'.answered = shared.answered
    BY <1>0, <1>8 DEF Mirror, SharedRecord
  <2> QED
    BY <1>4, <2>1
<1>9. CASE Quit \/ RemovePartial
  BY <1>4, <1>9 DEF Quit, RemovePartial
<1>10. ASSUME NEW c \in DOMAIN captures, CaptureStep(c) PROVE HelperInv'
  BY <1>4, <1>10, CapturesMove
<1>11. CASE Look
  <2>1. /\ helper'.step = "count" /\ helper'.seen = helper.seen /\ helper'.slot = helper.slot
        /\ helper'.exited = (program = "ended") /\ helper.step = "look"
        /\ UNCHANGED <<program, hook, shared>>
    BY <1>0, <1>11 DEF Look, HelperRecord
  <2> QED
    BY <1>0, <2>1 DEF HelperInv, Served, Watching
<1>12. CASE SeeCrash
  <2>1. /\ helper'.step = "decide" /\ helper'.seen = n /\ helper'.slot = helper.slot
        /\ helper'.exited = helper.exited /\ helper.step = "count"
        /\ UNCHANGED <<program, hook, shared>>
    BY <1>0, <1>12 DEF SeeCrash, HelperRecord
  <2>2. helper.seen = n \/ n > helper.seen
    BY <1>0
  <2>3. n > helper.seen => helper'.crash
    BY <1>0, <1>12 DEF SeeCrash, HelperRecord
  <2> QED
    BY <1>0, <2>1, <2>2, <2>3 DEF HelperInv, Served, Watching
<1>13. CASE StartCapture
  <2>1. PICK r \in CaptureRecord :
          /\ r.crash = (IF helper.crash THEN helper.seen ELSE 0)
          /\ helper' = [helper EXCEPT !.step = "tend",
                           !.slot = [capture |-> Len(captures) + 1, crash |-> r.crash,
                                     late |-> FALSE]]
    BY <1>13, StartMoves
  <2>2. /\ helper'.step = "tend" /\ helper'.seen = helper.seen
        /\ helper'.exited = helper.exited
        /\ helper'.slot = [capture |-> Len(captures) + 1, crash |-> r.crash, late |-> FALSE]
    BY <1>0, <2>1 DEF HelperRecord
  <2>3. /\ helper.step = "decide" /\ UNCHANGED <<program, hook, shared>>
        /\ helper.slot = [capture |-> 0, crash |-> 0, late |-> FALSE]
    BY <1>13, StartMoves DEF NoSlot
  <2>4. helper'.slot.crash = r.crash /\ helper'.slot.late = FALSE
    BY <2>2
  <2>5. ASSUME NEW t \in Threads, hook[t].step = "waits", helper.seen = n
        PROVE  Served'
    <3>1. Served /\ n > 0
      BY <2>3, <2>5 DEF HelperInv, HookInv, Watching
    <3>2. shared.answered \/ helper.crash
      BY <2>3, <3>1 DEF Served
    <3> QED
      BY <2>1, <2>3, <2>4, <2>5, <3>2 DEF Served
  <2> QED
    BY <1>0, <2>2, <2>3, <2>5 DEF HelperInv
<1>14. CASE StartNone
  <2>1. PICK cooled \in BOOLEAN : SetEvent(Unanswered(cooled))
    BY <1>14 DEF StartNone
  <2>2. /\ helper.step = "decide" /\ helper'.step = "tend" /\ helper'.seen = helper.seen
        /\ helper'.slot = helper.slot /\ helper'.exited = helper.exited
        /\ UNCHANGED <<program, hook>>
    BY <1>0, <1>14 DEF StartNone, Go, HelperRecord
  <2>3. shared'.number = n /\ shared'.answered = (shared.answered \/ Unanswered(cooled))
    BY <1>0, <2>1 DEF SetEvent, SharedRecord
  <2>4. helper.crash => shared'.answered
    BY <2>3 DEF Unanswered
  <2>5. Served => Served'
    BY <2>2, <2>3, <2>4 DEF Served
  <2> QED
    BY <1>0, <2>2, <2>3, <2>5 DEF HelperInv, Watching
<1>15. CASE HelperEnds
  <2>1. /\ helper'.step \in {"gone", "died"} /\ helper'.seen = helper.seen
        /\ helper'.exited = helper.exited /\ UNCHANGED <<program, hook, shared>>
        /\ helper'.step = "gone" => helper.step = "left"
    BY <1>0, <1>15 DEF HelperEnds, Go, HelperRecord
  <2> QED
    BY <1>0, <2>1 DEF HelperInv, Watching
<1>16. CASE Tend
  <2> DEFINE c == helper.slot.capture
             some == helper.slot # NoSlot
             late == helper.slot.late \/ (some /\ captures[c].old)
             ended == some /\ ~StillRuns(c)
             slot2 == IF ended THEN NoSlot
                      ELSE [capture |-> c, crash |-> helper.slot.crash, late |-> late]
             next == IF helper.exited /\ slot2 = NoSlot THEN "left" ELSE "look"
  <2>1. /\ UNCHANGED <<program, hook>> /\ helper.step = "tend"
        /\ shared' = [shared EXCEPT !.answered = \/ @ \/ (late /\ ~helper.slot.late)
                                                 \/ (ended /\ helper.slot.crash # 0)]
        /\ helper' = [step |-> next, enabled |-> FALSE, exited |-> FALSE, hang |-> FALSE,
                      crash |-> FALSE, seen |-> helper.seen, slot |-> slot2]
    BY <1>16, TendMoves
  <2> HIDE DEF late, ended
  <2>2. /\ shared'.number = n
        /\ shared'.answered = \/ shared.answered \/ (late /\ ~helper.slot.late)
                              \/ (ended /\ helper.slot.crash # 0)
    BY <1>0, <2>1 DEF SharedRecord
  <2>3. ~ended => slot2.crash = helper.slot.crash /\ slot2.late = late
    OBVIOUS
  <2> HIDE DEF slot2, next
  <2>4. /\ helper'.step = next /\ helper'.exited = FALSE /\ helper'.seen = helper.seen
        /\ helper'.slot = slot2
    BY <2>1
  <2>5. next \in {"left", "look"} /\ (next = "left" => helper.exited)
    BY DEF next
  <2>6. ASSUME NEW t \in Threads, hook[t].step = "waits", helper.seen = n
        PROVE  Served'
    <3>1. Served /\ n > 0
      BY <2>1, <2>6 DEF HelperInv, HookInv, Watching
    <3>2. shared.answered \/ (helper.slot.crash = n /\ ~helper.slot.late)
      BY <2>1, <3>1 DEF Served
    <3>3. CASE shared'.answered
      BY <3>3 DEF Served
    <3>4. CASE ~shared'.answered
      <4>1. ~ended /\ ~late /\ helper.slot.crash = n
        BY <2>2, <3>1, <3>2, <3>4
      <4> QED
        BY <2>2, <2>3, <2>4, <4>1 DEF Served
    <3> QED
      BY <3>3, <3>4
  <2> QED
    BY <1>0, <2>1, <2>2, <2>4, <2>5, <2>6 DEF HelperInv
<1> QED
  BY <1>5, <1>6, <1>7, <1>8, <1>9, <1>10, <1>11, <1>12, <1>13, <1>14, <1>15, <1>16
     DEF MonitorNext, HelperStep, CaptureStep

\* A thread that waits has waited for the same crash before, or waits for a new one.
LEMMA WaitsAre ==
  ASSUME MonitorTypes, HookInv, SlotInv, MonitorNext, HookInv', NEW t \in Threads,
         hook'[t].step = "waits"
  PROVE  \/ /\ hook[t].step = "waits" /\ hook'[t].number = hook[t].number
            /\ shared'.number = shared.number /\ hook[t].number = shared.number
            /\ shared.thread = t
         \/ Publish(t) /\ hook'[t].number = shared.number + 1
<1>1. hook'[t].number = shared'.number
  BY DEF HookInv
<1>2. CASE Publish(t)
  BY <1>1, <1>2 DEF Publish, MonitorTypes, SharedRecord
<1>3. CASE ~Publish(t)
  <2>1. hook[t].step = "waits"
    BY <1>3, WaitsMove
  <2>2. \A u \in Threads : ~Publish(u)
    BY <1>3, <2>1 DEF HookInv, Reports, Publish
  <2>3. shared'.number = shared.number
    BY <2>2, NumberMoves
  <2> QED
    BY <1>1, <2>1, <2>3 DEF HookInv
<1> QED
  BY <1>2, <1>3

LEMMA SlotKept ==
  ASSUME MonitorTypes, MonitorTypes', HookInv, HelperInv, SlotInv, MonitorNext, HookInv'
  PROVE  SlotInv'
<1> DEFINE n == shared.number
<1>0. /\ shared \in SharedRecord /\ helper \in HelperRecord /\ helper.slot \in SlotRecord
      /\ n \in Nat /\ helper.seen \in Nat
  BY DEF MonitorTypes, SharedRecord, HelperRecord, SlotRecord
<1>1. shared'.number \in Nat /\ n <= shared'.number
  <2>1. shared'.number = n \/ shared'.number = n + 1
    BY NumberMoves
  <2> QED
    BY <1>0, <2>1
<1>2. /\ DOMAIN captures = 1..Len(captures) /\ Len(captures) \in Nat
      /\ \A c \in 1..Len(captures) : captures[c] \in CaptureRecord /\ captures[c].crash \in Nat
      /\ captures \in Seq(CaptureRecord) /\ writing \subseteq 1..Len(captures)
  BY CapturesAre DEF MonitorTypes, CaptureRecord
<1>3. /\ helper.slot = NoSlot \/ helper.slot.capture \in 1..Len(captures)
      /\ Watching => \A c \in 1..Len(captures) :
            captures[c].step # "exited" => helper.slot.capture = c
      /\ \A c \in writing : captures[c].step = "exited"
      /\ \A c \in 1..Len(captures) : captures[c].crash <= n
      /\ \A c \in 1..Len(captures), t \in Threads :
            /\ captures[c].crash # 0 /\ captures[c].of # None
            /\ hook[t].step = "waits" /\ hook[t].number = captures[c].crash
            => captures[c].of = t
  BY <1>2 DEF SlotInv, OneCapture, PartialsAreDone, DumpsMatch, StillRuns
\* The invariant of the next state, part by part.
<1>4. ASSUME helper'.slot = NoSlot \/ helper'.slot.capture \in 1..Len(captures'),
             DOMAIN captures' = 1..Len(captures'),
             Watching' => \A c \in 1..Len(captures') :
                captures'[c].step # "exited" => helper'.slot.capture = c,
             \A c \in writing' : captures'[c].step = "exited",
             \A c \in 1..Len(captures') : captures'[c].crash <= shared'.number,
             \A c \in 1..Len(captures'), t \in Threads :
                /\ captures'[c].crash # 0 /\ captures'[c].of # None
                /\ hook'[t].step = "waits" /\ hook'[t].number = captures'[c].crash
                => captures'[c].of = t
      PROVE  SlotInv'
  BY <1>4 DEF SlotInv, OneCapture, PartialsAreDone, DumpsMatch, StillRuns, NoSlot
\* No capture moves.
<1>5. ASSUME captures' = captures, helper'.slot = helper.slot, writing' = writing,
             Watching' => Watching
      PROVE  SlotInv'
  <2>1. \A c \in 1..Len(captures) : captures[c].crash <= shared'.number
    BY <1>0, <1>1, <1>2, <1>3
  <2>2. ASSUME NEW c \in 1..Len(captures), NEW t \in Threads, captures[c].crash # 0,
               captures[c].of # None, hook'[t].step = "waits",
               hook'[t].number = captures[c].crash
        PROVE  captures[c].of = t
    <3>1. captures[c].crash <= n
      BY <1>3
    <3>2. hook'[t].number # n + 1
      BY <1>0, <1>2, <2>2, <3>1
    <3>3. hook[t].step = "waits" /\ hook'[t].number = hook[t].number
      BY <2>2, <3>2, WaitsAre
    <3> QED
      BY <1>3, <2>2, <3>3
  <2> QED
    BY <1>2, <1>3, <1>4, <1>5, <2>1, <2>2
\* One capture's record is replaced.
<1>6. ASSUME NEW c \in 1..Len(captures), NEW r, Follows(r, captures[c]),
             captures' = [captures EXCEPT ![c] = r], shared'.number = n
      PROVE  /\ Len(captures') = Len(captures) /\ DOMAIN captures' = 1..Len(captures')
             /\ captures'[c] = r
             /\ \A d \in 1..Len(captures) : d # c => captures'[d] = captures[d]
             /\ \A d \in 1..Len(captures) : captures'[d].crash <= shared'.number
             /\ \A d \in 1..Len(captures), t \in Threads :
                   /\ captures'[d].crash # 0 /\ captures'[d].of # None
                   /\ hook'[t].step = "waits" /\ hook'[t].number = captures'[d].crash
                   => captures'[d].of = t
  <2>0. r \in CaptureRecord
    BY <1>6 DEF Follows
  <2>1. /\ captures' \in Seq(CaptureRecord) /\ Len(captures') = Len(captures)
        /\ captures'[c] = r
        /\ \A d \in 1..Len(captures) : d # c => captures'[d] = captures[d]
    BY <1>2, <1>6, <2>0, ReplacedCapture
  <2>2. r.crash <= n /\ (r.crash = 0 \/ r.crash = captures[c].crash)
    BY <1>0, <1>3, <1>6 DEF Follows
  <2>3. \A d \in 1..Len(captures) : captures'[d].crash <= shared'.number
    BY <1>3, <1>6, <2>1, <2>2
  <2>4. ASSUME NEW d \in 1..Len(captures), NEW t \in Threads, captures'[d].crash # 0,
               captures'[d].of # None, hook'[t].step = "waits",
               hook'[t].number = captures'[d].crash
        PROVE  captures'[d].of = t
    <3>1. /\ hook[t].step = "waits" /\ hook'[t].number = hook[t].number
          /\ shared.thread = t
      <4>1. hook'[t].number # n + 1
        BY <1>0, <1>1, <1>6, <2>3, <2>4
      <4> QED
        BY <2>4, <4>1, WaitsAre
    <3>2. CASE d # c
      <4>1. captures'[d] = captures[d]
        BY <2>1, <3>2
      <4> QED
        BY <1>3, <2>4, <3>1, <4>1
    <3>3. CASE d = c
      <4>1. r.crash = captures[c].crash /\ (r.of = captures[c].of \/ r.of = shared.thread)
        BY <1>6, <2>1, <2>4, <3>3 DEF Follows
      <4> QED
        BY <1>3, <2>1, <2>4, <3>1, <3>3, <4>1
    <3> QED
      BY <3>2, <3>3
  <2>5. DOMAIN captures' = 1..Len(captures')
    BY <2>1
  <2> QED
    BY <2>1, <2>3, <2>4, <2>5
<1>7. ASSUME NEW c \in 1..Len(captures), NEW r, Follows(r, captures[c]),
             captures' = [captures EXCEPT ![c] = r], writing' \subseteq writing,
             helper' = helper, shared' = shared
      PROVE  SlotInv'
  <2>1. /\ Len(captures') = Len(captures) /\ DOMAIN captures' = 1..Len(captures')
        /\ captures'[c] = r
        /\ \A d \in 1..Len(captures) : d # c => captures'[d] = captures[d]
        /\ \A d \in 1..Len(captures) : captures'[d].crash <= shared'.number
        /\ \A d \in 1..Len(captures), t \in Threads :
              /\ captures'[d].crash # 0 /\ captures'[d].of # None
              /\ hook'[t].step = "waits" /\ hook'[t].number = captures'[d].crash
              => captures'[d].of = t
    BY <1>6, <1>7
  <2>2. \A d \in 1..Len(captures) :
           captures'[d].step # "exited" => captures[d].step # "exited"
    BY <1>7, <2>1 DEF Follows
  <2>3. \A d \in writing' : captures'[d].step = "exited"
    BY <1>2, <1>3, <1>7, <2>2
  <2>4. Watching' => \A d \in 1..Len(captures) :
           captures'[d].step # "exited" => helper'.slot.capture = d
    BY <1>3, <1>7, <2>2 DEF Watching
  <2> QED
    BY <1>3, <1>4, <1>7, <2>1, <2>3, <2>4
<1>8. ASSUME NEW c \in DOMAIN captures, CaptureStep(c) PROVE SlotInv'
  <2>1. /\ UNCHANGED <<program, hook, shared, helper, writing>>
        /\ \E r : Follows(r, captures[c]) /\ captures' = [captures EXCEPT ![c] = r]
    BY <1>8, CapturesMove
  <2> QED
    BY <1>2, <1>7, <2>1
<1>9. CASE RemovePartial
  BY <1>7, <1>9, RemoveMoves
<1>10. CASE StartCapture
  <2>1. /\ UNCHANGED <<program, hook, shared, writing>>
        /\ helper.step = "decide" /\ helper.slot = [capture |-> 0, crash |-> 0, late |-> FALSE]
    BY <1>10, StartMoves DEF NoSlot
  <2>2. PICK r \in CaptureRecord :
          /\ r.crash = (IF helper.crash THEN helper.seen ELSE 0) /\ r.of = None
          /\ captures' = Append(captures, r)
          /\ helper' = [helper EXCEPT !.step = "tend",
                           !.slot = [capture |-> Len(captures) + 1, crash |-> r.crash,
                                     late |-> FALSE]]
    BY <1>10, StartMoves
  <2>3. PICK m \in Nat : m = Len(captures)
    BY <1>2
  <2>4. /\ Len(captures') = m + 1 /\ DOMAIN captures' = 1..(m + 1) /\ captures'[m + 1] = r
        /\ \A c \in 1..m : captures'[c] = captures[c]
    BY <1>2, <2>2, <2>3, AppendProperties
  <2>5. helper'.slot.capture = m + 1
    BY <1>0, <2>2, <2>3 DEF HelperRecord
  <2>6. \A c \in 1..m : captures[c].step = "exited"
    BY <1>3, <2>1, <2>3 DEF Watching
  <2>7. r.crash <= n
    <3>1. helper.crash => helper.seen <= n
      BY DEF HelperInv
    <3> QED
      BY <1>0, <2>2, <3>1
  <2>8. ASSUME NEW c \in 1..(m + 1) PROVE captures'[c].crash <= n
    BY <1>3, <2>3, <2>4, <2>7, <2>8
  <2>9. ASSUME NEW c \in 1..(m + 1), NEW t \in Threads,
               captures'[c].crash # 0, captures'[c].of # None,
               hook'[t].step = "waits", hook'[t].number = captures'[c].crash
        PROVE  captures'[c].of = t
    BY <1>3, <2>1, <2>2, <2>3, <2>4, <2>9
  <2>10. \A c \in 1..(m + 1) : captures'[c].step # "exited" => c = m + 1
    BY <2>4, <2>6
  <2>11. \A c \in writing' : captures'[c].step = "exited"
    BY <1>2, <1>3, <2>1, <2>3, <2>4
  <2>12. m + 1 \in 1..(m + 1)
    OBVIOUS
  <2> QED
    BY <1>4, <2>1, <2>4, <2>5, <2>8, <2>9, <2>10, <2>11, <2>12
<1>11. CASE Tend
  <2> DEFINE k == helper.slot.capture
             some == helper.slot # NoSlot
             late == helper.slot.late \/ (some /\ captures[k].old)
             ended == some /\ ~StillRuns(k)
             slot2 == IF ended THEN NoSlot
                      ELSE [capture |-> k, crash |-> helper.slot.crash, late |-> late]
  <2>1. /\ UNCHANGED <<program, hook>> /\ helper.step = "tend"
        /\ IF some THEN /\ k \in 1..Len(captures)
                        /\ \E r : /\ Follows(r, captures[k]) /\ r.step = captures[k].step
                                  /\ captures' = [captures EXCEPT ![k] = r]
           ELSE captures' = captures
        /\ writing' = writing \/ (ended /\ writing' = writing \cup {k})
        /\ shared' = [shared EXCEPT !.answered = \/ @ \/ (late /\ ~helper.slot.late)
                                                 \/ (ended /\ helper.slot.crash # 0)]
    BY <1>11, TendMoves
  <2>2. helper'.slot = slot2
    <3> DEFINE next == IF helper.exited /\ slot2 = NoSlot THEN "left" ELSE "look"
    <3>1. helper' = [step |-> next, enabled |-> FALSE, exited |-> FALSE, hang |-> FALSE,
                     crash |-> FALSE, seen |-> helper.seen, slot |-> slot2]
      BY <1>11, TendMoves
    <3> HIDE DEF slot2, next
    <3> QED
      BY <3>1
  <2>3. shared'.number = n
    <3> HIDE DEF late, ended
    <3> QED
      BY <1>0, <2>1 DEF SharedRecord
  <2>4. slot2 = NoSlot \/ (slot2.capture = k /\ some /\ StillRuns(k))
        \/ (slot2.capture = k /\ ~some)
    OBVIOUS
  <2>5. Watching /\ k \in Nat /\ (~some => k = 0)
    BY <1>0, <2>1 DEF Watching, SlotRecord, NoSlot
  <2>6. some => slot2 = NoSlot \/ slot2.capture = k
    OBVIOUS
  <2>7. ended => captures[k].step = "exited"
    BY DEF StillRuns
  <2>8. ~ended => slot2.capture = k
    OBVIOUS
  <2>9. some => k \in 1..Len(captures)
    BY <1>3
  <2>9a. ~some => slot2 = NoSlot
    <3>1. ~some => k = 0 /\ helper.slot.crash = 0 /\ ~late /\ ~ended
      BY DEF NoSlot
    <3>2. late \in BOOLEAN
      <4>1. helper.slot.late \in BOOLEAN
        BY <1>0 DEF SlotRecord
      <4> QED
        BY <4>1
    <3> HIDE DEF late, ended, some
    <3> QED
      BY <3>1, <3>2 DEF NoSlot
  <2> HIDE DEF slot2, late, ended
  <2>10. CASE ~some
    <3>1. \A c \in 1..Len(captures) : captures[c].step = "exited"
      BY <1>2, <1>3, <2>5, <2>10
    <3>2. writing' = writing
      BY <2>1, <2>10 DEF ended
    <3> QED
      BY <1>1, <1>5, <2>1, <2>2, <2>5, <2>9a, <2>10, <3>2
  <2>11. CASE some
    <3>1. PICK r : /\ Follows(r, captures[k]) /\ r.step = captures[k].step
                   /\ captures' = [captures EXCEPT ![k] = r]
      BY <2>1, <2>11
    <3>2. k \in 1..Len(captures)
      BY <2>9, <2>11
    <3>3. /\ Len(captures') = Len(captures) /\ DOMAIN captures' = 1..Len(captures')
          /\ captures'[k] = r
          /\ \A d \in 1..Len(captures) : d # k => captures'[d] = captures[d]
          /\ \A d \in 1..Len(captures) : captures'[d].crash <= shared'.number
          /\ \A d \in 1..Len(captures), t \in Threads :
                /\ captures'[d].crash # 0 /\ captures'[d].of # None
                /\ hook'[t].step = "waits" /\ hook'[t].number = captures'[d].crash
                => captures'[d].of = t
      BY <1>6, <2>3, <3>1, <3>2
    <3>4. \A d \in 1..Len(captures) : captures'[d].step = captures[d].step
      BY <3>1, <3>2, <3>3
    <3>5. \A d \in writing' : captures'[d].step = "exited"
      <4>1. \A d \in writing : captures'[d].step = "exited"
        BY <1>2, <1>3, <3>4
      <4>2. ended => captures'[k].step = "exited"
        BY <2>7, <3>2, <3>4
      <4> QED
        BY <2>1, <4>1, <4>2
    <3>6. \A d \in 1..Len(captures) :
             captures'[d].step # "exited" => helper'.slot.capture = d
      <4> SUFFICES ASSUME NEW d \in 1..Len(captures), captures[d].step # "exited"
                   PROVE  helper'.slot.capture = d
        BY <3>4
      <4>1. d = k
        BY <1>3, <2>5
      <4>2. ~ended
        BY <2>7, <4>1
      <4> QED
        BY <2>2, <2>8, <4>1, <4>2
    <3>7. helper'.slot = NoSlot \/ helper'.slot.capture \in 1..Len(captures')
      BY <2>2, <2>6, <2>11, <3>2, <3>3
    <3> QED
      BY <1>4, <3>3, <3>5, <3>6, <3>7
  <2> QED
    BY <2>10, <2>11
<1>12. CASE captures' = captures /\ writing' = writing
            /\ helper'.slot = helper.slot /\ (Watching' => Watching)
  BY <1>5, <1>12
<1>13. ASSUME Look \/ SeeCrash \/ StartNone \/ HelperEnds
       PROVE  /\ captures' = captures /\ writing' = writing
              /\ helper'.slot = helper.slot /\ (Watching' => Watching)
  <2>1. captures' = captures /\ writing' = writing /\ helper'.slot = helper.slot
    BY <1>0, <1>13 DEF Look, SeeCrash, StartNone, HelperEnds, Go, HelperRecord
  <2>2. CASE Look \/ SeeCrash \/ StartNone
    BY <2>1, <2>2 DEF Look, SeeCrash, StartNone, Watching
  <2>3. CASE HelperEnds
    <3>1. helper'.step \in {"gone", "died"}
      BY <1>0, <2>3 DEF HelperEnds, Go, HelperRecord
    <3> QED
      BY <2>1, <3>1 DEF Watching
  <2> QED
    BY <1>13, <2>2, <2>3
<1>14. \/ captures' = captures /\ writing' = writing /\ helper' = helper
       \/ Look \/ SeeCrash \/ StartNone \/ HelperEnds
       \/ StartCapture \/ Tend \/ RemovePartial
       \/ \E c \in DOMAIN captures : CaptureStep(c)
  BY DEF MonitorNext, HelperStep, CaptureStep, Crash, Publish, StopWaiting, Mirror, Quit
<1>15. captures' = captures /\ writing' = writing /\ helper' = helper => SlotInv'
  BY <1>5 DEF Watching
<1> QED
  BY <1>8, <1>9, <1>10, <1>11, <1>12, <1>13, <1>14, <1>15

LEMMA MonitorKept ==
  ASSUME MonitorInv, MonitorNext
  PROVE  MonitorInv'
<1>1. MonitorTypes' /\ HookInv'
  BY MonitorTypesKept, HookKept DEF MonitorInv
<1> QED
  BY <1>1, HelperKept, SlotKept DEF MonitorInv

LEMMA MonitorHolds ==
  ASSUME MonitorInv
  PROVE  CrashesAreAnswered
<1>1. Answered
  <2> SUFFICES ASSUME NEW t \in Threads, hook[t].step = "waits",
                      hook[t].number <= helper.seen, Watching,
                      helper.step \notin {"decide", "tend"}
               PROVE  \/ shared.answered
                      \/ helper.slot.crash = hook[t].number /\ ~helper.slot.late
    BY DEF Answered
  <2>1. hook[t].number = shared.number /\ shared.number \in Nat /\ helper.seen \in Nat
    BY DEF MonitorInv, HookInv, MonitorTypes, SharedRecord, HelperRecord
  <2>2. helper.seen = shared.number
    BY <2>1 DEF MonitorInv, HelperInv
  <2> QED
    BY <2>1, <2>2 DEF MonitorInv, HelperInv, Served
<1>2. NoneIsMissed
  BY DEF MonitorInv, HelperInv, NoneIsMissed
<1> QED
  BY <1>1, <1>2 DEF MonitorInv, SlotInv, CrashesAreAnswered

-----------------------------------------------------------------------------
(***************************************************************************)
(* The executor.  Whoever is between its start and its end has the slot,   *)
(* and a live worker is that one's or was given up; a modifier that is     *)
(* down is in the journal of one who has not yet let it go.                *)
(***************************************************************************)
Phases == {"idle", "waiting", "starting", "running", "cancelling"} \cup Results
Works == {"owning", "pressing", "releasing", "clearing"}
Workings == {"none", "reading", "checking", "exited"} \cup Works

ExecutorTypes ==
    /\ broken \in BOOLEAN /\ told \subseteq Run /\ noticed \subseteq Run
    /\ call \in [Run -> Phases] /\ worker \in [Run -> Workings]
    /\ at \in [Run -> Nat \ {0}] /\ pressed \in [Run -> Seq(Modifier)]
    /\ spoilt \in [Run -> BOOLEAN] /\ journal \in [Run -> SUBSET Modifier]
    /\ down \subseteq Modifier

\* Who has the slot, and whose worker may live.
TurnInv ==
    /\ \A r \in Run : (call[r] = "starting" \/ InProgress(r)) <=> slot = r
    /\ \A r \in Run : Alive(r) => InProgress(r) \/ call[r] = "unreaped"
    /\ \A r \in Run : call[r] = "unreaped" => broken

\* How far the worker is in its plan.
ProgressInv ==
    \A r \in Run :
        /\ at[r] <= Len(Plan[r]) + 1
        /\ worker[r] \in Works => at[r] <= Len(Plan[r])
        /\ InProgress(r) /\ worker[r] = "exited" /\ ~spoilt[r] => at[r] = Len(Plan[r]) + 1
        /\ call[r] = "ok" => at[r] = Len(Plan[r]) + 1

Newest(r) == pressed[r][Len(pressed[r])]
HeldInv ==
    \A r \in Run :
        /\ worker[r] \in {"pressing", "clearing"} => pressed[r] # << >>
        /\ worker[r] = "pressing" => Newest(r) \in journal[r]

\* An execution that will release the modifier: not the one that has released it.
Keeps(r, m) ==
    /\ m \in journal[r] /\ (InProgress(r) \/ call[r] = "unreaped")
    /\ ~(worker[r] = "clearing" /\ m = Newest(r))
KeptInv == \A m \in down \ (user \cup stuck) : \E r \in Run : Keeps(r, m)

ExecutorInv == ExecutorTypes /\ TurnInv /\ ProgressInv /\ HeldInv /\ KeptInv

LEMMA ExecutorStarts ==
  ASSUME ExecutorInit
  PROVE  ExecutorInv
<1>1. ExecutorTypes
  <2>1. << >> \in Seq(Modifier)
    OBVIOUS
  <2>2. /\ broken = FALSE /\ told = {} /\ noticed = {} /\ down = {}
        /\ call = [r \in Run |-> "idle"] /\ worker = [r \in Run |-> "none"]
        /\ at = [r \in Run |-> 1] /\ pressed = [r \in Run |-> << >>]
        /\ spoilt = [r \in Run |-> FALSE] /\ journal = [r \in Run |-> {}]
    BY DEF ExecutorInit
  <2>3. call \in [Run -> Phases] /\ worker \in [Run -> Workings]
    BY <2>2 DEF Phases, Workings
  <2>4. /\ at \in [Run -> Nat \ {0}] /\ pressed \in [Run -> Seq(Modifier)]
        /\ spoilt \in [Run -> BOOLEAN] /\ journal \in [Run -> SUBSET Modifier]
    BY <2>1, <2>2
  <2> QED
    BY <2>2, <2>3, <2>4 DEF ExecutorTypes
<1>2. TurnInv
  BY ExecutorAssumption DEF ExecutorInit, TurnInv, InProgress, Alive
<1>3. ProgressInv
  <2>1. \A r \in Run : Len(Plan[r]) \in Nat
    BY ExecutorAssumption
  <2>2. \A r \in Run : at[r] = 1 /\ worker[r] = "none" /\ call[r] = "idle"
    BY DEF ExecutorInit
  <2>3. ASSUME NEW r \in Run PROVE at[r] <= Len(Plan[r]) + 1
    <3>1. PICK n \in Nat : n = Len(Plan[r])
      BY <2>1
    <3>2. 1 <= n + 1
      OBVIOUS
    <3> QED
      BY <2>2, <3>1, <3>2
  <2> QED
    BY <2>2, <2>3 DEF ProgressInv, Works
<1>4. HeldInv /\ KeptInv
  BY DEF ExecutorInit, HeldInv, KeptInv
<1> QED
  BY <1>1, <1>2, <1>3, <1>4 DEF ExecutorInv

\* A stack of modifiers, and what is left of it without the newest.
LEMMA Shorter ==
  ASSUME NEW s \in Seq(Modifier), s # << >>
  PROVE  SubSeq(s, 1, Len(s) - 1) \in Seq(Modifier) /\ s[Len(s)] \in Modifier
<1>1. Len(s) \in Nat /\ Len(s) # 0
  BY EmptySeq
<1>2. Len(s) \in 1..Len(s) /\ Len(s) - 1 \in 0..Len(s)
  BY <1>1
<1>3. s[Len(s)] \in Modifier
  BY <1>2, ElementOfSeq
<1>4. \A j \in 1..(Len(s) - 1) : s[j] \in Modifier
  BY <1>1, ElementOfSeq
<1>5. SubSeq(s, 1, Len(s) - 1) \in Seq(Modifier)
  BY <1>1, <1>2, <1>4, SubSeqProperties
<1> QED
  BY <1>3, <1>5

\* The modifiers of an action are the keys of KEYS.
LEMMA ModifierIs ==
  ASSUME ExecutorTypes, ProgressInv, NEW r \in Run, worker[r] = "owning"
  PROVE  /\ Modifiers(r) \in Seq(Modifier)
         /\ Len(pressed[r]) < Len(Modifiers(r))
               => Modifiers(r)[Len(pressed[r]) + 1] \in Modifier
<1>1. at[r] \in 1..Len(Plan[r]) /\ Plan[r] \in Seq(Seq(Modifier))
  BY ExecutorAssumption DEF ExecutorTypes, ProgressInv, Works
<1>2. Modifiers(r) \in Seq(Modifier)
  BY <1>1, ElementOfSeq DEF Modifiers
<1>3. Len(pressed[r]) \in Nat /\ Len(Modifiers(r)) \in Nat
  BY <1>2 DEF ExecutorTypes
<1>4. Len(pressed[r]) < Len(Modifiers(r))
         => Len(pressed[r]) + 1 \in 1..Len(Modifiers(r))
  BY <1>3
<1> QED
  BY <1>2, <1>4, ElementOfSeq

ExecutorStep(r) == ParentStep(r) \/ WorkerStep(r) \/ ControlEnds(r) \/ DieLate(r)

LEMMA ExecutorTypesKept ==
  ASSUME ExecutorTypes, ProgressInv, HeldInv, ExecutorNext
  PROVE  ExecutorTypes'
<1> USE DEF ExecutorTypes
<1>1. ASSUME NEW r \in Run, NEW result \in Results, Finish(r, result)
      PROVE  broken' \in BOOLEAN /\ told' \subseteq Run /\ call' \in [Run -> Phases]
  BY <1>1 DEF Finish, Phases, Results
<1>2. ASSUME NEW r \in Run, Ended(r)
      PROVE  /\ noticed' \subseteq Run /\ worker' \in [Run -> Workings]
             /\ at' \in [Run -> Nat \ {0}] /\ pressed' \in [Run -> Seq(Modifier)]
             /\ spoilt' \in [Run -> BOOLEAN]
  <2>1. << >> \in Seq(Modifier)
    OBVIOUS
  <2> QED
    BY <1>2, <2>1 DEF Ended, Workings
<1>3. ASSUME NEW r \in Run, Cleanup(r)
      PROVE  journal' \in [Run -> SUBSET Modifier] /\ down' \subseteq Modifier
  BY <1>3 DEF Cleanup
<1>4. ASSUME NEW r \in Run, NEW error \in BOOLEAN, Exit(r, error)
      PROVE  /\ noticed' \subseteq Run /\ worker' \in [Run -> Workings]
             /\ at' = at /\ pressed' = pressed /\ spoilt' \in [Run -> BOOLEAN]
  BY <1>4 DEF Exit, Become, Workings
<1>5. ASSUME NEW r \in Run, NEW state \in Workings, Become(r, state)
      PROVE  worker' \in [Run -> Workings]
  BY <1>5 DEF Become
<1>6. {"none", "reading", "checking", "exited", "owning", "pressing", "releasing", "clearing"}
        \subseteq Workings
  BY DEF Workings, Works
<1>7. ASSUME NEW r \in Run, AskExecution(r) \/ TakeSlot(r) PROVE ExecutorTypes'
  BY <1>7 DEF AskExecution, TakeSlot, Phases, Results, workerVars, keyVars
<1>8. ASSUME NEW r \in Run, GiveUpWaiting(r) PROVE ExecutorTypes'
  <2>1. "cancelled" \in Results
    BY DEF Results
  <2> QED
    BY <1>1, <1>8, <2>1 DEF GiveUpWaiting, workerVars, keyVars
<1>9. ASSUME NEW r \in Run, Start(r) PROVE ExecutorTypes'
  <2>1. /\ UNCHANGED <<noticed, at, pressed, spoilt, keyVars>>
        /\ \/ /\ call' = [call EXCEPT ![r] = "running"]
              /\ worker' = [worker EXCEPT ![r] = "reading"]
              /\ UNCHANGED <<broken, slot, told, control>>
           \/ \E result \in Results : Finish(r, result) /\ UNCHANGED worker
    BY <1>9 DEF Start, Results
  <2>2. CASE /\ call' = [call EXCEPT ![r] = "running"]
             /\ worker' = [worker EXCEPT ![r] = "reading"]
             /\ UNCHANGED <<broken, slot, told, control>>
    <3>1. call' \in [Run -> Phases]
      BY <2>2 DEF Phases
    <3>2. worker' \in [Run -> Workings]
      BY <1>6, <2>2
    <3> QED
      BY <2>1, <2>2, <3>1, <3>2 DEF keyVars
  <2>3. ASSUME NEW result \in Results, Finish(r, result), UNCHANGED worker
        PROVE  ExecutorTypes'
    BY <1>1, <2>1, <2>3 DEF keyVars
  <2> QED
    BY <2>1, <2>2, <2>3
<1>10. ASSUME NEW r \in Run,
              WriteInput(r) \/ TakePipe(r) \/ ControlEnds(r)
       PROVE  ExecutorTypes'
  BY <1>10 DEF WriteInput, TakePipe, ControlEnds, callVars, workerVars, keyVars
<1>11. ASSUME NEW r \in Run, BeginCancelling(r) PROVE ExecutorTypes'
  BY <1>11 DEF BeginCancelling, Phases, workerVars, keyVars
<1>12. ASSUME NEW r \in Run, Kill(r) PROVE ExecutorTypes'
  <2>1. "uncertain" \in Results /\ "unreaped" \in Results
    BY DEF Results
  <2> QED
    BY <1>1, <1>2, <1>3, <1>12, <2>1 DEF Kill, workerVars
<1>13. ASSUME NEW r \in Run, SeeExit(r) PROVE ExecutorTypes'
  <2>1. \E result \in Results : Finish(r, result)
    BY <1>13 DEF SeeExit, Results
  <2> QED
    BY <1>1, <1>3, <1>13, <2>1 DEF SeeExit
<1>14. ASSUME NEW r \in Run, DieLate(r) PROVE ExecutorTypes'
  BY <1>2, <1>14 DEF DieLate, callVars, keyVars
<1>15. ASSUME NEW r \in Run, Read(r) PROVE ExecutorTypes'
  BY <1>4, <1>5, <1>6, <1>15 DEF Read, callVars, keyVars
<1>16. ASSUME NEW r \in Run, Notice(r) PROVE ExecutorTypes'
  BY <1>16 DEF Notice, callVars, keyVars
<1>17. ASSUME NEW r \in Run, NextAction(r) PROVE ExecutorTypes'
  <2>1. (r \in noticed) \in BOOLEAN
    OBVIOUS
  <2> QED
    BY <1>4, <1>5, <1>6, <1>17, <2>1 DEF NextAction, callVars, keyVars
<1>18. ASSUME NEW r \in Run, Own(r) PROVE ExecutorTypes'
  <2> DEFINE m == Modifiers(r)[Len(pressed[r]) + 1]
  <2>1. m \in Modifier
    BY <1>18, ModifierIs DEF Own
  <2>2. Append(pressed[r], m) \in Seq(Modifier)
    BY <2>1
  <2>3. /\ UNCHANGED <<callVars, control, noticed, at, down, user, stuck, touches>>
        /\ \/ /\ Become(r, "releasing") /\ spoilt' = [spoilt EXCEPT ![r] = TRUE]
              /\ UNCHANGED <<journal, pressed>>
           \/ /\ journal' = [journal EXCEPT ![r] = @ \cup {m}]
              /\ pressed' = [pressed EXCEPT ![r] = Append(@, m)]
              /\ Become(r, "pressing") /\ UNCHANGED spoilt
    BY <1>18 DEF Own
  <2> HIDE DEF m
  <2>4. worker' \in [Run -> Workings] /\ spoilt' \in [Run -> BOOLEAN]
    BY <1>5, <1>6, <2>3
  <2>5. journal' \in [Run -> SUBSET Modifier]
    BY <2>1, <2>3
  <2>6. pressed' \in [Run -> Seq(Modifier)]
    BY <2>2, <2>3
  <2> QED
    BY <2>3, <2>4, <2>5, <2>6 DEF callVars
<1>19. ASSUME NEW r \in Run, Press(r) PROVE ExecutorTypes'
  <2>1. pressed[r][Len(pressed[r])] \in Modifier
    BY <1>19, Shorter DEF Press, HeldInv
  <2> QED
    BY <1>5, <1>6, <1>19, <2>1 DEF Press, callVars
<1>20. ASSUME NEW r \in Run, Act(r) PROVE ExecutorTypes'
  BY <1>5, <1>6, <1>20 DEF Act, callVars, keyVars
<1>21. ASSUME NEW r \in Run, Release(r) PROVE ExecutorTypes'
  <2>1. SubSeq(pressed[r], 1, Len(pressed[r]) - 1) \in Seq(Modifier)
    BY <1>21, Shorter DEF Release
  <2> QED
    BY <1>5, <1>6, <1>21, <2>1 DEF Release, callVars
<1>22. ASSUME NEW r \in Run, Clear(r) PROVE ExecutorTypes'
  <2>1. SubSeq(pressed[r], 1, Len(pressed[r]) - 1) \in Seq(Modifier)
    BY <1>22, Shorter DEF Clear, HeldInv
  <2> QED
    BY <1>5, <1>6, <1>22, <2>1 DEF Clear, callVars
<1>23. ASSUME NEW r \in Run, EndAction(r) PROVE ExecutorTypes'
  <2>1. CASE spoilt[r]
    BY <1>4, <1>23, <2>1 DEF EndAction, callVars, keyVars
  <2>2. CASE ~spoilt[r]
    BY <1>5, <1>6, <1>23, <2>2 DEF EndAction, callVars, keyVars
  <2> QED
    BY <2>1, <2>2
<1>24. ASSUME NEW m \in Modifier, Touch(m) PROVE ExecutorTypes'
  BY <1>24 DEF Touch, callVars, workerVars
<1> QED
  BY <1>7, <1>8, <1>9, <1>10, <1>11, <1>12, <1>13, <1>14, <1>15, <1>16, <1>17, <1>18, <1>19,
     <1>20, <1>21, <1>22, <1>23, <1>24 DEF ExecutorNext, ParentStep, WorkerStep

\* What each step does to the call, the slot and the worker of its execution.
LEMMA TurnKept ==
  ASSUME ExecutorTypes, TurnInv, ExecutorNext
  PROVE  TurnInv'
<1>0. /\ call \in [Run -> Phases] /\ worker \in [Run -> Workings] /\ broken \in BOOLEAN
      /\ NoRun \notin Run
  BY ExecutorAssumption DEF ExecutorTypes
\* Only the worker moves.
<1>1. ASSUME NEW r \in Run, UNCHANGED <<broken, slot, call>>, Alive(r),
             \A q \in Run : q # r => worker'[q] = worker[q]
      PROVE  TurnInv'
  BY <1>0, <1>1 DEF TurnInv, InProgress, Alive
<1>2. ASSUME UNCHANGED <<broken, slot, call, worker>> PROVE TurnInv'
  BY <1>2 DEF TurnInv, InProgress, Alive
<1>3. ASSUME NEW r \in Run, AskExecution(r) PROVE TurnInv'
  BY <1>0, <1>3 DEF AskExecution, TurnInv, InProgress, Alive, workerVars
<1>4. ASSUME NEW r \in Run, TakeSlot(r) PROVE TurnInv'
  BY <1>0, <1>4 DEF TakeSlot, TurnInv, InProgress, Alive, workerVars
\* The call ends, and its worker with it, unless it is given up.
<1>5. ASSUME NEW r \in Run, NEW result \in Results, Finish(r, result),
             \A q \in Run : q # r => worker'[q] = worker[q],
             result # "unreaped" => worker'[r] \in {"none", "exited"}
      PROVE  TurnInv'
  <2>1. /\ call' = [call EXCEPT ![r] = result]
        /\ slot' = IF slot = r THEN NoRun ELSE slot
        /\ broken' = (broken \/ result = "unreaped")
    BY <1>5 DEF Finish
  <2>2. result \notin {"starting", "running", "cancelling"}
    BY DEF Results
  <2>3. \A q \in Run : q # r => call'[q] = call[q] /\ (slot' = q <=> slot = q)
    BY <1>0, <2>1
  <2>4. call'[r] = result /\ slot' # r
    BY <1>0, <2>1
  <2>5. broken => broken'
    BY <2>1
  <2>6. result = "unreaped" => broken'
    BY <2>1
  <2>7. \A q \in Run : q # r => (call'[q] = "starting" \/ InProgress(q)' <=> slot' = q)
    BY <2>3 DEF TurnInv, InProgress
  <2>8. \A q \in Run : q # r => (Alive(q)' => InProgress(q)' \/ call'[q] = "unreaped")
    BY <1>5, <2>3 DEF TurnInv, InProgress, Alive
  <2>9. Alive(r)' => call'[r] = "unreaped"
    BY <1>5, <2>4 DEF Alive
  <2>10. \A q \in Run : call'[q] = "unreaped" => broken'
    BY <2>3, <2>4, <2>5, <2>6 DEF TurnInv
  <2> QED
    BY <2>2, <2>4, <2>7, <2>8, <2>9, <2>10 DEF TurnInv, InProgress
<1>6. ASSUME NEW r \in Run, GiveUpWaiting(r) PROVE TurnInv'
  <2>1. Finish(r, "cancelled") /\ worker' = worker /\ call[r] = "waiting" /\ "cancelled" \in Results
    BY <1>6 DEF GiveUpWaiting, workerVars, Results
  <2>2. worker[r] \in {"none", "exited"}
    BY <2>1 DEF TurnInv, Alive, InProgress
  <2> QED
    BY <1>5, <2>1, <2>2
<1>7. ASSUME NEW r \in Run, Start(r) PROVE TurnInv'
  <2>1. CASE /\ call' = [call EXCEPT ![r] = "running"]
             /\ worker' = [worker EXCEPT ![r] = "reading"]
             /\ UNCHANGED <<broken, slot>>
    BY <1>0, <1>7, <2>1 DEF Start, TurnInv, InProgress, Alive
  <2>2. ASSUME NEW result \in {"cancelled", "failed"}, Finish(r, result), worker' = worker
        PROVE  TurnInv'
    <3>1. call[r] = "starting" /\ result \in Results
      BY <1>7 DEF Start, Results
    <3>2. worker[r] \in {"none", "exited"}
      BY <3>1 DEF TurnInv, Alive, InProgress
    <3> QED
      BY <1>5, <2>2, <3>1, <3>2
  <2> QED
    BY <1>7, <2>1, <2>2 DEF Start
<1>8. ASSUME NEW r \in Run, BeginCancelling(r) PROVE TurnInv'
  BY <1>0, <1>8 DEF BeginCancelling, TurnInv, InProgress, Alive, workerVars
<1>9. ASSUME NEW r \in Run, Kill(r) PROVE TurnInv'
  <2>1. CASE Ended(r) /\ Finish(r, "uncertain")
    <3>1. "uncertain" \in Results /\ worker' = [worker EXCEPT ![r] = "exited"]
      BY <2>1 DEF Results, Ended
    <3> QED
      BY <1>0, <1>5, <2>1, <3>1
  <2>2. CASE Finish(r, "unreaped") /\ worker' = worker
    BY <1>5, <2>2 DEF Results
  <2> QED
    BY <1>9, <2>1, <2>2 DEF Kill, workerVars
<1>10. ASSUME NEW r \in Run, SeeExit(r) PROVE TurnInv'
  <2>1. PICK result \in Results : Finish(r, result)
    BY <1>10 DEF SeeExit, Results
  <2> QED
    BY <1>5, <1>10, <2>1 DEF SeeExit
<1>11. ASSUME NEW r \in Run, DieLate(r) PROVE TurnInv'
  BY <1>0, <1>1, <1>11 DEF DieLate, Ended, callVars
<1>12. ASSUME NEW r \in Run, WorkerStep(r) PROVE TurnInv'
  <2>1. UNCHANGED <<broken, slot, call>> /\ Alive(r)
    BY <1>12 DEF WorkerStep, Read, Notice, NextAction, Own, Press, Act, Release, Clear,
                 EndAction, callVars, Alive
  <2>2. worker' = worker \/ \E state : worker' = [worker EXCEPT ![r] = state]
    BY <1>12 DEF WorkerStep, Read, Notice, NextAction, Own, Press, Act, Release, Clear,
                 EndAction, Exit, Become
  <2> QED
    BY <1>0, <1>1, <2>1, <2>2
<1>13. ASSUME NEW r \in Run, WriteInput(r) \/ TakePipe(r) \/ ControlEnds(r) PROVE TurnInv'
  BY <1>2, <1>13 DEF WriteInput, TakePipe, ControlEnds, callVars, workerVars
<1>14. ASSUME NEW m \in Modifier, Touch(m) PROVE TurnInv'
  BY <1>2, <1>14 DEF Touch, callVars, workerVars
<1> QED
  BY <1>3, <1>4, <1>6, <1>7, <1>8, <1>9, <1>10, <1>11, <1>12, <1>13, <1>14
     DEF ExecutorNext, ParentStep

\* A step of one execution leaves the others where they are.
LEMMA OthersStay ==
  ASSUME ExecutorTypes, NEW r \in Run, ExecutorStep(r), NEW q \in Run, q # r
  PROVE  /\ call'[q] = call[q] /\ worker'[q] = worker[q] /\ at'[q] = at[q]
         /\ spoilt'[q] = spoilt[q] /\ pressed'[q] = pressed[q] /\ journal'[q] = journal[q]
<1> USE DEF ExecutorTypes
<1>1. call'[q] = call[q]
  BY DEF ExecutorStep, ParentStep, WorkerStep, AskExecution, TakeSlot, GiveUpWaiting, Start,
         WriteInput, TakePipe, BeginCancelling, Kill, SeeExit, ControlEnds, DieLate, Read,
         Notice, NextAction, Own, Press, Act, Release, Clear, EndAction, Finish, callVars
<1>2. worker'[q] = worker[q]
  BY DEF ExecutorStep, ParentStep, WorkerStep, AskExecution, TakeSlot, GiveUpWaiting, Start,
         WriteInput, TakePipe, BeginCancelling, Kill, SeeExit, ControlEnds, DieLate, Read,
         Notice, NextAction, Own, Press, Act, Release, Clear, EndAction, Ended, Exit, Become,
         workerVars
<1>3. at'[q] = at[q] /\ spoilt'[q] = spoilt[q]
  BY DEF ExecutorStep, ParentStep, WorkerStep, AskExecution, TakeSlot, GiveUpWaiting, Start,
         WriteInput, TakePipe, BeginCancelling, Kill, SeeExit, ControlEnds, DieLate, Read,
         Notice, NextAction, Own, Press, Act, Release, Clear, EndAction, Ended, Exit,
         workerVars
<1>4. pressed'[q] = pressed[q]
  BY DEF ExecutorStep, ParentStep, WorkerStep, AskExecution, TakeSlot, GiveUpWaiting, Start,
         WriteInput, TakePipe, BeginCancelling, Kill, SeeExit, ControlEnds, DieLate, Read,
         Notice, NextAction, Own, Press, Act, Release, Clear, EndAction, Ended, Exit,
         workerVars
<1>5. journal'[q] = journal[q]
  BY DEF ExecutorStep, ParentStep, WorkerStep, AskExecution, TakeSlot, GiveUpWaiting, Start,
         WriteInput, TakePipe, BeginCancelling, Kill, SeeExit, ControlEnds, DieLate, Read,
         Notice, NextAction, Own, Press, Act, Release, Clear, EndAction, Cleanup, keyVars
<1> QED
  BY <1>1, <1>2, <1>3, <1>4, <1>5

Progress(r) ==
    /\ at[r] <= Len(Plan[r]) + 1
    /\ worker[r] \in Works => at[r] <= Len(Plan[r])
    /\ InProgress(r) /\ worker[r] = "exited" /\ ~spoilt[r] => at[r] = Len(Plan[r]) + 1
    /\ call[r] = "ok" => at[r] = Len(Plan[r]) + 1

LEMMA ProgressKept ==
  ASSUME ExecutorTypes, TurnInv, ProgressInv, NEW r \in Run, ExecutorStep(r)
  PROVE  Progress(r)'
<1>0. /\ call \in [Run -> Phases] /\ worker \in [Run -> Workings]
      /\ at \in [Run -> Nat \ {0}] /\ spoilt \in [Run -> BOOLEAN]
      /\ at[r] \in Nat /\ Len(Plan[r]) \in Nat
  BY ExecutorAssumption DEF ExecutorTypes
<1>1. Progress(r)
  BY DEF ProgressInv, Progress
\* The plan goes on, or stands.
<1>2. ASSUME UNCHANGED <<at, spoilt, worker>>, call'[r] # "ok", InProgress(r)' => InProgress(r)
      PROVE  Progress(r)'
  BY <1>1, <1>2 DEF Progress
<1>3. ASSUME UNCHANGED <<at, call>>, worker'[r] \in Works, worker[r] \in Works PROVE Progress(r)'
  BY <1>1, <1>3 DEF Progress, Works
<1>4. ASSUME NEW result, Finish(r, result)
      PROVE  call'[r] = result
  BY <1>0, <1>4 DEF Finish
<1>5. CASE AskExecution(r) \/ TakeSlot(r) \/ BeginCancelling(r)
  BY <1>0, <1>2, <1>5
     DEF AskExecution, TakeSlot, BeginCancelling, workerVars, InProgress
<1>6. CASE GiveUpWaiting(r)
  BY <1>2, <1>4, <1>6 DEF GiveUpWaiting, workerVars, InProgress
<1>7. CASE Start(r)
  <2>1. UNCHANGED <<at, spoilt>>
    BY <1>7 DEF Start
  <2>2. CASE worker' = [worker EXCEPT ![r] = "reading"] /\ call' = [call EXCEPT ![r] = "running"]
    BY <1>0, <1>1, <2>1, <2>2 DEF Progress, Works
  <2>3. ASSUME NEW result \in {"cancelled", "failed"}, Finish(r, result), worker' = worker
        PROVE  Progress(r)'
    BY <1>2, <1>4, <2>1, <2>3 DEF InProgress
  <2> QED
    BY <1>7, <2>2, <2>3 DEF Start
<1>8. CASE WriteInput(r) \/ TakePipe(r) \/ ControlEnds(r) \/ Notice(r)
  <2>1. UNCHANGED <<at, spoilt, worker, call>>
    BY <1>8 DEF WriteInput, TakePipe, ControlEnds, Notice, callVars, workerVars
  <2> QED
    BY <1>1, <2>1 DEF Progress, InProgress
<1>9. CASE Kill(r)
  <2>1. call'[r] \in {"uncertain", "unreaped"} /\ at' = at
    BY <1>4, <1>9 DEF Kill, Ended, workerVars
  <2>2. worker'[r] = worker[r] \/ worker'[r] = "exited"
    BY <1>0, <1>9 DEF Kill, Ended, workerVars
  <2> QED
    BY <1>1, <2>1, <2>2 DEF Progress, InProgress, Works
<1>10. CASE SeeExit(r)
  <2>1. /\ InProgress(r) /\ worker[r] = "exited" /\ at' = at /\ worker' = worker
        /\ call'[r] \in Results
    BY <1>4, <1>10 DEF SeeExit, Results
  <2>2. call'[r] = "ok" => ~spoilt[r]
    BY <1>4, <1>10 DEF SeeExit
  <2> QED
    BY <1>1, <2>1, <2>2 DEF Progress, InProgress, Results
<1>11. CASE DieLate(r)
  <2>1. at' = at /\ call' = call /\ call[r] = "unreaped" /\ worker'[r] = "exited"
    BY <1>0, <1>11 DEF DieLate, Ended, callVars
  <2> QED
    BY <1>1, <2>1 DEF Progress, InProgress, Works
<1>12. ASSUME NEW error \in BOOLEAN, Exit(r, error), call' = call,
              ~error => at[r] = Len(Plan[r]) + 1
       PROVE  Progress(r)'
  <2>1. worker'[r] = "exited" /\ spoilt'[r] = error /\ at' = at
    BY <1>0, <1>12 DEF Exit, Become
  <2> QED
    BY <1>1, <1>12, <2>1 DEF Progress, InProgress, Works
<1>13. CASE Read(r)
  <2>1. CASE Exit(r, TRUE)
    BY <1>12, <1>13, <2>1 DEF Read, callVars
  <2>2. CASE Become(r, "checking") /\ UNCHANGED <<at, spoilt>>
    <3>1. worker'[r] = "checking" /\ call' = call
      BY <1>0, <1>13, <2>2 DEF Read, callVars, Become
    <3> QED
      BY <1>1, <2>2, <3>1 DEF Progress, InProgress, Works
  <2> QED
    BY <1>13, <2>1, <2>2 DEF Read
<1>14. CASE NextAction(r)
  <2>1. CASE r \notin noticed /\ at[r] <= Len(Plan[r])
    <3>1. worker'[r] = "owning" /\ UNCHANGED <<at, spoilt, call>>
      BY <1>0, <1>14, <2>1 DEF NextAction, callVars, Become
    <3> QED
      BY <1>1, <2>1, <3>1 DEF Progress, InProgress, Works
  <2>2. CASE ~(r \notin noticed /\ at[r] <= Len(Plan[r]))
    <3>1. Exit(r, r \in noticed) /\ call' = call
      BY <1>14, <2>2 DEF NextAction, callVars
    <3>2. r \notin noticed => at[r] = Len(Plan[r]) + 1
      BY <1>0, <1>1, <2>2 DEF Progress
    <3>3. (r \in noticed) \in BOOLEAN
      OBVIOUS
    <3> QED
      BY <1>12, <3>1, <3>2, <3>3
  <2> QED
    BY <2>1, <2>2
<1>15. CASE Own(r) \/ Press(r) \/ Act(r) \/ Release(r) \/ Clear(r)
  <2>1. UNCHANGED <<at, call>> /\ worker[r] \in Works
    BY <1>15 DEF Own, Press, Act, Release, Clear, callVars, Works
  <2>2. worker'[r] \in Works
    BY <1>0, <1>15 DEF Own, Press, Act, Release, Clear, Become, Works
  <2> QED
    BY <1>3, <2>1, <2>2
<1>16. CASE EndAction(r)
  <2>1. CASE spoilt[r]
    BY <1>12, <1>16, <2>1 DEF EndAction, callVars
  <2>2. CASE ~spoilt[r]
    <3>1. worker'[r] = "checking" /\ at'[r] = at[r] + 1 /\ UNCHANGED <<call, spoilt>>
      BY <1>0, <1>16, <2>2 DEF EndAction, Become, callVars
    <3>2. at[r] <= Len(Plan[r])
      BY <1>1, <1>16 DEF EndAction, Progress, Works
    <3>3. call[r] # "ok"
      BY <1>16 DEF EndAction, TurnInv, Alive, InProgress
    <3>4. at[r] + 1 <= Len(Plan[r]) + 1
      BY <1>0, <3>2
    <3> QED
      BY <3>1, <3>3, <3>4 DEF Progress, Works
  <2> QED
    BY <2>1, <2>2
<1> QED
  BY <1>5, <1>6, <1>7, <1>8, <1>9, <1>10, <1>11, <1>13, <1>14, <1>15, <1>16
     DEF ExecutorStep, ParentStep, WorkerStep

Held(r) ==
    /\ worker[r] \in {"pressing", "clearing"} => pressed[r] # << >>
    /\ worker[r] = "pressing" => Newest(r) \in journal[r]

LEMMA HeldKept ==
  ASSUME ExecutorTypes, ProgressInv, HeldInv, NEW r \in Run, ExecutorStep(r)
  PROVE  Held(r)'
<1>0. /\ worker \in [Run -> Workings] /\ pressed \in [Run -> Seq(Modifier)]
      /\ journal \in [Run -> SUBSET Modifier] /\ Held(r)
  BY DEF ExecutorTypes, HeldInv, Held
<1>1. CASE worker'[r] \notin {"pressing", "clearing"}
  BY <1>1 DEF Held
<1>2. CASE worker'[r] = worker[r] /\ UNCHANGED <<pressed, journal>>
  BY <1>0, <1>2 DEF Held, Newest
<1>3. CASE \/ AskExecution(r) \/ TakeSlot(r) \/ GiveUpWaiting(r) \/ WriteInput(r) \/ TakePipe(r)
           \/ BeginCancelling(r) \/ ControlEnds(r) \/ Notice(r)
  BY <1>2, <1>3 DEF AskExecution, TakeSlot, GiveUpWaiting, WriteInput, TakePipe,
                    BeginCancelling, ControlEnds, Notice, workerVars, keyVars
<1>4. CASE Start(r)
  BY <1>0, <1>1, <1>2, <1>4 DEF Start, keyVars
<1>5. CASE Kill(r) \/ DieLate(r)
  BY <1>0, <1>1, <1>2, <1>5 DEF Kill, DieLate, Ended, workerVars, keyVars
<1>6. CASE SeeExit(r)
  BY <1>1, <1>6 DEF SeeExit
<1>7. CASE Read(r) \/ NextAction(r) \/ Act(r) \/ EndAction(r)
  <2>1. worker'[r] \in {"checking", "owning", "releasing", "exited"}
    BY <1>0, <1>7 DEF Read, NextAction, Act, EndAction, Become, Exit
  <2> QED
    BY <1>1, <2>1
<1>8. CASE Own(r)
  <2> DEFINE m == Modifiers(r)[Len(pressed[r]) + 1]
  <2>1. m \in Modifier
    BY <1>8, ModifierIs DEF Own
  <2>2. \/ Become(r, "releasing")
        \/ /\ journal' = [journal EXCEPT ![r] = @ \cup {m}]
           /\ pressed' = [pressed EXCEPT ![r] = Append(@, m)]
           /\ Become(r, "pressing")
    BY <1>8 DEF Own
  <2> HIDE DEF m
  <2>3. CASE Become(r, "releasing")
    BY <1>0, <1>1, <2>3 DEF Become
  <2>4. CASE /\ journal' = [journal EXCEPT ![r] = @ \cup {m}]
             /\ pressed' = [pressed EXCEPT ![r] = Append(@, m)]
             /\ Become(r, "pressing")
    <3>1. journal'[r] = journal[r] \cup {m} /\ pressed'[r] = Append(pressed[r], m)
      BY <1>0, <2>4
    <3>2. /\ Len(Append(pressed[r], m)) = Len(pressed[r]) + 1 /\ Len(pressed[r]) \in Nat
          /\ Append(pressed[r], m)[Len(pressed[r]) + 1] = m
          /\ Append(pressed[r], m) # << >>
      BY <1>0, <2>1, AppendProperties
    <3>3. Newest(r)' = m
      BY <3>1, <3>2 DEF Newest
    <3> QED
      BY <3>1, <3>2, <3>3 DEF Held
  <2> QED
    BY <2>2, <2>3, <2>4
<1>9. CASE Press(r)
  BY <1>0, <1>1, <1>9 DEF Press, Become
<1>10. CASE Release(r)
  <2>1. CASE Become(r, "clearing") /\ UNCHANGED pressed
    <3>1. worker'[r] = "clearing"
      BY <1>0, <2>1 DEF Become
    <3> QED
      BY <1>10, <2>1, <3>1 DEF Release, Held
  <2>2. CASE UNCHANGED worker
    BY <1>1, <1>10, <2>2 DEF Release
  <2> QED
    BY <1>10, <2>1, <2>2 DEF Release
<1>11. CASE Clear(r)
  BY <1>0, <1>1, <1>11 DEF Clear, Become
<1> QED
  BY <1>3, <1>4, <1>5, <1>6, <1>7, <1>8, <1>9, <1>10, <1>11
     DEF ExecutorStep, ParentStep, WorkerStep

\* A modifier that stays down is still to be let go by whoever was to do it, or has been
\* pressed just now.
LEMMA KeptKept ==
  ASSUME ExecutorInv, NEW r \in Run, ExecutorStep(r)
  PROVE  KeptInv'
<1>0. /\ worker \in [Run -> Workings] /\ pressed \in [Run -> Seq(Modifier)]
      /\ journal \in [Run -> SUBSET Modifier] /\ call \in [Run -> Phases]
      /\ down \subseteq Modifier /\ HeldInv /\ TurnInv
  BY DEF ExecutorInv, ExecutorTypes
\* The others keep what they keep.
<1>1. ASSUME NEW q \in Run, q # r, NEW m, Keeps(q, m) PROVE Keeps(q, m)'
  BY <1>0, <1>1, OthersStay DEF ExecutorInv, Keeps, InProgress, Newest
<1>2. \A m \in down \ (user \cup stuck) : Keeps(r, m) \/ \E q \in Run : q # r /\ Keeps(q, m)
  BY DEF ExecutorInv, KeptInv
<1>3. ASSUME \A m \in down' \ (user' \cup stuck') :
                \/ m \in down \ (user \cup stuck) /\ (Keeps(r, m) => Keeps(r, m)')
                \/ Keeps(r, m)'
      PROVE  KeptInv'
  BY <1>1, <1>2, <1>3 DEF KeptInv
\* Nothing the invariant speaks of moves.
<1>4. ASSUME UNCHANGED <<down, user, stuck, journal, pressed>>,
             InProgress(r) \/ call[r] = "unreaped" => InProgress(r)' \/ call'[r] = "unreaped",
             worker'[r] = "clearing" => worker[r] = "clearing"
      PROVE  KeptInv'
  BY <1>3, <1>4 DEF Keeps, Newest
<1>5. ASSUME NEW result, Finish(r, result) PROVE call'[r] = result
  BY <1>0, <1>5 DEF Finish
<1>6. CASE AskExecution(r) \/ TakeSlot(r) \/ WriteInput(r) \/ TakePipe(r)
           \/ BeginCancelling(r) \/ ControlEnds(r) \/ Notice(r)
  BY <1>0, <1>4, <1>6 DEF AskExecution, TakeSlot, WriteInput, TakePipe, BeginCancelling,
        ControlEnds, Notice, callVars, workerVars, keyVars, InProgress
<1>7. CASE GiveUpWaiting(r)
  BY <1>4, <1>7 DEF GiveUpWaiting, workerVars, keyVars, InProgress
<1>8. CASE Start(r)
  <2>1. UNCHANGED <<down, user, stuck, journal, pressed>> /\ call[r] = "starting"
    BY <1>8 DEF Start, keyVars
  <2>2. worker'[r] = "clearing" => worker[r] = "clearing"
    BY <1>0, <1>8 DEF Start
  <2> QED
    BY <1>4, <2>1, <2>2 DEF InProgress
<1>9. ASSUME Cleanup(r), UNCHANGED user PROVE KeptInv'
  <2>1. PICK refused \in SUBSET (journal[r] \cap down) :
           down' = down \ (journal[r] \ refused) /\ stuck' = stuck \cup refused
    BY <1>9 DEF Cleanup
  <2>2. ASSUME NEW m \in down' \ (user' \cup stuck')
        PROVE  m \in down \ (user \cup stuck) /\ m \notin journal[r]
    BY <1>9, <2>1, <2>2
  <2> QED
    BY <1>3, <2>2 DEF Keeps
<1>10. CASE Kill(r)
  <2>1. CASE Cleanup(r)
    BY <1>9, <1>10, <2>1 DEF Kill
  <2>2. CASE Finish(r, "unreaped") /\ UNCHANGED <<workerVars, down, stuck, journal>>
    BY <1>4, <1>5, <1>10, <2>2 DEF Kill, workerVars
  <2> QED
    BY <1>10, <2>1, <2>2 DEF Kill
<1>11. CASE SeeExit(r)
  BY <1>9, <1>11 DEF SeeExit
<1>12. CASE DieLate(r)
  <2>1. UNCHANGED <<down, user, stuck, journal, call>> /\ worker'[r] = "exited"
    BY <1>0, <1>12 DEF DieLate, Ended, callVars, keyVars
  <2> QED
    BY <1>3, <2>1 DEF Keeps, InProgress
<1>13. CASE Read(r) \/ NextAction(r) \/ EndAction(r)
  <2>1. UNCHANGED <<down, user, stuck, journal, pressed, call>>
    BY <1>13 DEF Read, NextAction, EndAction, Exit, callVars, keyVars
  <2>2. worker'[r] # "clearing"
    BY <1>0, <1>13 DEF Read, NextAction, EndAction, Exit, Become
  <2> QED
    BY <1>4, <2>1, <2>2 DEF InProgress
<1>14. CASE Act(r)
  <2>1. UNCHANGED <<down, user, stuck, journal, pressed, call>> /\ worker'[r] # "clearing"
    BY <1>0, <1>14 DEF Act, Become, callVars, keyVars
  <2> QED
    BY <1>4, <2>1 DEF InProgress
<1>15. CASE Own(r)
  <2>1. /\ UNCHANGED <<down, user, stuck, call>> /\ journal[r] \subseteq journal'[r]
    BY <1>0, <1>15 DEF Own, callVars
  <2>2. worker'[r] # "clearing"
    BY <1>0, <1>15 DEF Own, Become
  <2> QED
    BY <1>3, <2>1, <2>2 DEF Keeps, InProgress
<1>16. CASE Press(r)
  <2>1. /\ UNCHANGED <<user, stuck, journal, pressed, call>> /\ worker[r] = "pressing"
        /\ down' \subseteq down \cup {Newest(r)}
    BY <1>16 DEF Press, callVars, Newest
  <2>2. worker'[r] # "clearing"
    BY <1>0, <1>16 DEF Press, Become
  <2>3. Newest(r) \in journal[r] /\ (InProgress(r) \/ call[r] = "unreaped")
    BY <1>0, <2>1 DEF HeldInv, TurnInv, Alive
  <2> QED
    BY <1>3, <2>1, <2>2, <2>3 DEF Keeps, InProgress
<1>17. CASE Release(r)
  <2>1. UNCHANGED <<user, stuck, journal, call>> /\ worker[r] = "releasing"
    BY <1>17 DEF Release, callVars
  <2>2. CASE down' = down \ {Newest(r)} /\ UNCHANGED pressed
    BY <1>3, <2>1, <2>2 DEF Keeps, InProgress, Newest
  <2>3. CASE UNCHANGED <<down, worker>>
    BY <1>3, <2>1, <2>3 DEF Keeps, InProgress
  <2> QED
    BY <1>17, <2>2, <2>3 DEF Release, Newest
<1>18. CASE Clear(r)
  <2>1. /\ UNCHANGED <<down, user, stuck, call>> /\ worker[r] = "clearing"
        /\ journal'[r] = journal[r] \ {Newest(r)}
    BY <1>0, <1>18 DEF Clear, callVars, Newest
  <2>2. worker'[r] # "clearing"
    BY <1>0, <1>18 DEF Clear, Become
  <2> QED
    BY <1>3, <2>1, <2>2 DEF Keeps, InProgress
<1> QED
  BY <1>6, <1>7, <1>8, <1>10, <1>11, <1>12, <1>13, <1>14, <1>15, <1>16, <1>17, <1>18
     DEF ExecutorStep, ParentStep, WorkerStep

LEMMA ExecutorKept ==
  ASSUME ExecutorInv, ExecutorNext
  PROVE  ExecutorInv'
<1>1. ExecutorTypes' /\ TurnInv'
  BY ExecutorTypesKept, TurnKept DEF ExecutorInv
<1>2. ASSUME NEW r \in Run, ExecutorStep(r) PROVE ProgressInv' /\ HeldInv' /\ KeptInv'
  <2>1. Progress(r)' /\ Held(r)' /\ KeptInv'
    BY <1>2, ProgressKept, HeldKept, KeptKept DEF ExecutorInv
  <2>2. ASSUME NEW q \in Run, q # r PROVE Progress(q)' /\ Held(q)'
    <3>1. Progress(q) /\ Held(q)
      BY DEF ExecutorInv, ProgressInv, HeldInv, Progress, Held
    <3> QED
      BY <1>2, <2>2, <3>1, OthersStay DEF ExecutorInv, Progress, Held, InProgress, Newest
  <2>3. \A q \in Run : Progress(q)' /\ Held(q)'
    BY <2>1, <2>2
  <2> QED
    BY <2>1, <2>3 DEF ProgressInv, HeldInv, Progress, Held
<1>3. ASSUME NEW m \in Modifier, Touch(m) PROVE ProgressInv' /\ HeldInv' /\ KeptInv'
  <2>1. /\ UNCHANGED <<call, worker, at, spoilt, pressed, journal, stuck>>
        /\ down' \ user' \subseteq down \ user
    BY <1>3 DEF Touch, callVars, workerVars
  <2>2. ProgressInv' /\ HeldInv'
    BY <2>1 DEF ExecutorInv, ProgressInv, HeldInv, InProgress, Newest
  <2>3. \A q \in Run : \A k : Keeps(q, k) => Keeps(q, k)'
    BY <2>1 DEF Keeps, InProgress, Newest
  <2> QED
    BY <2>1, <2>2, <2>3 DEF ExecutorInv, KeptInv
<1> QED
  BY <1>1, <1>2, <1>3 DEF ExecutorInv, ExecutorNext, ExecutorStep

LEMMA ExecutorHolds ==
  ASSUME ExecutorInv
  PROVE  WorkersAreContained
<1>1. TurnInv /\ ProgressInv /\ KeptInv
  BY DEF ExecutorInv
<1>2. OneActs
  BY <1>1 DEF OneActs, TurnInv
<1>3. ReturnedMeansStopped
  BY <1>1 DEF ReturnedMeansStopped, TurnInv, InProgress, Results
<1>4. ModifiersComeUp
  BY <1>1 DEF ModifiersComeUp, KeptInv, Keeps
<1>5. DoneMeansAll
  BY <1>1 DEF DoneMeansAll, ProgressInv
<1> QED
  BY <1>2, <1>3, <1>4, <1>5 DEF WorkersAreContained

LEMMA ExecutorStands ==
  ASSUME ExecutorInv, UNCHANGED executorVars
  PROVE  ExecutorInv'
BY DEF executorVars, callVars, workerVars, keyVars, ExecutorInv, ExecutorTypes, TurnInv,
       ProgressInv, HeldInv, KeptInv, Keeps, Newest, InProgress, Alive

-----------------------------------------------------------------------------
(***************************************************************************)
(* Clicks.  The point is in the element by its bounds; that the system     *)
(* moves the pointer to its pixel or to one beside it is an estimate of    *)
(* two roundings, over one denominator.                                    *)
(***************************************************************************)
\* The product, as a term the provers do not open.
Times(x, y) == x * y

LEMMA TimesIs ==
  ASSUME NEW x \in Int, NEW y \in Int
  PROVE  Times(x, y) \in Int
BY DEF Times

LEMMA TimesLe ==
  ASSUME NEW x \in Int, NEW y \in Int, NEW z \in Nat, x <= y
  PROVE  Times(x, z) <= Times(y, z)
<1>1. y * z - x * z = (y - x) * z
  OBVIOUS
<1>2. (y - x) * z >= 0
  OBVIOUS
<1> QED
  BY <1>1, <1>2 DEF Times

LEMMA CancelLe ==
  ASSUME NEW x \in Int, NEW y \in Int, NEW z \in Nat \ {0}, Times(x, z) <= Times(y, z)
  PROVE  x <= y
<1> SUFFICES ASSUME x >= y + 1 PROVE FALSE
  OBVIOUS
<1>1. Times(y + 1, z) <= Times(x, z)
  BY TimesLe
<1>2. Times(y + 1, z) = Times(y, z) + z /\ Times(y, z) \in Int /\ Times(x, z) \in Int
  BY DEF Times
<1> QED
  BY <1>1, <1>2

LEMMA DivIs ==
  ASSUME NEW a \in Int, NEW b \in Nat \ {0}, NEW q, q = a \div b
  PROVE  q \in Int /\ b * q <= a /\ a < b * q + b
OBVIOUS

\* Of e pixels, the point v / sc, at most d / sc, is sent as n parts of 65535, of which the
\* system makes pixel l; t and m are n and l over the same denominator.
Sent(e, sc, v, t, m, d) ==
    /\ e >= 2 /\ e <= 65536 /\ d = Times(sc, e - 1) /\ v <= d
    /\ 2 * Times(e - 1, t) <= 131070 * v + d /\ 131070 * v + d < 2 * Times(e - 1, t) + 2 * d
    /\ 65536 * m <= Times(e, t) /\ Times(e, t) < 65536 * m + 65536 * sc

LEMMA NotAfter ==
  ASSUME NEW e \in Nat, NEW sc \in Nat \ {0}, NEW v \in Nat, NEW t \in Int, NEW m \in Int,
         NEW d \in Nat, Sent(e, sc, v, t, m, d)
  PROVE  m <= v + sc
<1> USE DEF Sent
<1> DEFINE f == e - 1
           k == 131072 - 2 * e
<1>1. f \in Nat \ {0} /\ k \in Nat /\ 131072 * f \in Nat \ {0} /\ 2 * f \in Nat /\ e \in Nat
  OBVIOUS
<1>2. /\ Times(f, t) \in Int /\ Times(e, t) \in Int
      /\ 65536 * m \in Int /\ 131070 * v + d \in Int /\ 2 * Times(f, t) \in Int
  <2>1. Times(f, t) \in Int /\ Times(e, t) \in Int
    BY <1>1, TimesIs
  <2> QED
    BY <2>1
<1>3. Times(v, k) <= Times(d, k)
  BY <1>1, TimesLe
<1>4. Times(65536 * m, 2 * f) <= Times(Times(e, t), 2 * f)
  BY <1>1, <1>2, TimesLe
<1>5. Times(2 * Times(f, t), e) <= Times(131070 * v + d, e)
  BY <1>1, <1>2, TimesLe
<1>6. Times(2 * Times(f, t), e) = Times(Times(e, t), 2 * f)
  BY DEF Times
<1>7. Times(65536 * m, 2 * f) = Times(m, 131072 * f)
  BY DEF Times
<1>8. Times(v + sc, 131072 * f)
         = Times(131070 * v + d, e) + Times(d, k) + Times(d, e) - Times(v, k)
  BY DEF Times
<1>9. Times(d, e) >= 0
  BY DEF Times
<1>10. /\ Times(v, k) \in Int /\ Times(d, k) \in Int /\ Times(d, e) \in Int
       /\ Times(65536 * m, 2 * f) \in Int /\ Times(Times(e, t), 2 * f) \in Int
       /\ Times(131070 * v + d, e) \in Int
  <2>1. /\ k \in Int /\ 2 * f \in Int /\ e \in Int /\ v \in Int /\ d \in Int
        /\ 65536 * m \in Int /\ 131070 * v + d \in Int /\ Times(e, t) \in Int
    BY <1>1, <1>2
  <2> HIDE DEF f, k
  <2>2. Times(v, k) \in Int /\ Times(d, k) \in Int /\ Times(d, e) \in Int
    BY <2>1 DEF Times
  <2>3. Times(65536 * m, 2 * f) \in Int
    BY <2>1, TimesIs
  <2>4. Times(Times(e, t), 2 * f) \in Int
    BY <2>1, TimesIs
  <2>5. Times(131070 * v + d, e) \in Int
    BY <2>1, TimesIs
  <2> QED
    BY <2>2, <2>3, <2>4, <2>5
<1> HIDE DEF f, k
<1>11. Times(m, 131072 * f) <= Times(v + sc, 131072 * f)
  BY <1>3, <1>4, <1>5, <1>6, <1>7, <1>8, <1>9, <1>10
<1> QED
  BY <1>1, <1>11, CancelLe

LEMMA NotBefore ==
  ASSUME NEW e \in Nat, NEW sc \in Nat \ {0}, NEW v \in Nat, NEW t \in Int, NEW m \in Int,
         NEW d \in Nat, Sent(e, sc, v, t, m, d)
  PROVE  v < m + 2 * sc
<1> USE DEF Sent
<1> SUFFICES ASSUME m + 2 * sc <= v PROVE FALSE
  OBVIOUS
<1> DEFINE f == e - 1
           k == 131072 - 2 * e
           right == 2 * Times(f, t) + 2 * d
<1>1. f \in Nat \ {0} /\ k \in Nat /\ 2 * f \in Nat /\ e \in Nat /\ e <= 65536
  OBVIOUS
<1>2. /\ Times(f, t) \in Int /\ Times(e, t) \in Int
      /\ 65536 * (v - sc) \in Int /\ 131070 * v + d \in Int /\ right \in Int
  <2>1. Times(f, t) \in Int /\ Times(e, t) \in Int
    BY <1>1, TimesIs
  <2> QED
    BY <2>1
<1>3. Times(131070 * v + d, e) <= Times(right, e)
  <2>1. 131070 * v + d <= right
    BY <1>2
  <2> QED
    BY <1>1, <1>2, <2>1, TimesLe
<1>4. Times(Times(e, t), 2 * f) <= Times(65536 * (v - sc), 2 * f)
  <2>1. Times(e, t) <= 65536 * (v - sc)
    BY <1>2
  <2> QED
    BY <1>1, <1>2, <2>1, TimesLe
<1>5. Times(right, e) = Times(Times(e, t), 2 * f) + 2 * Times(e, d)
  BY DEF Times
<1>6. Times(65536 * (v - sc), 2 * f) + 2 * Times(e, d)
        = Times(131070 * v + d, e) - (131072 * d + Times(v, k) - Times(e, d))
  BY DEF Times
<1>7. Times(e, d) <= 65536 * d
  <2>1. Times(e, d) <= Times(65536, d)
    BY <1>1, TimesLe
  <2> QED
    BY <2>1 DEF Times
<1>8. 0 <= Times(v, k) /\ d > 0
  BY DEF Times
<1>9. /\ Times(v, k) \in Int /\ Times(e, d) \in Int
      /\ Times(65536 * (v - sc), 2 * f) \in Int /\ Times(Times(e, t), 2 * f) \in Int
      /\ Times(131070 * v + d, e) \in Int /\ Times(right, e) \in Int
  <2>1. /\ k \in Int /\ 2 * f \in Int /\ e \in Int /\ v \in Int /\ d \in Int
        /\ 65536 * (v - sc) \in Int /\ 131070 * v + d \in Int /\ Times(e, t) \in Int
        /\ right \in Int
    BY <1>1, <1>2
  <2> HIDE DEF f, k, right
  <2>2. Times(v, k) \in Int /\ Times(e, d) \in Int /\ Times(right, e) \in Int
    BY <2>1 DEF Times
  <2>3. Times(65536 * (v - sc), 2 * f) \in Int
    BY <2>1, TimesIs
  <2>4. Times(Times(e, t), 2 * f) \in Int
    BY <2>1, TimesIs
  <2>5. Times(131070 * v + d, e) \in Int
    BY <2>1, TimesIs
  <2> QED
    BY <2>2, <2>3, <2>4, <2>5
<1> HIDE DEF f, k, right
<1> QED
  BY <1>3, <1>4, <1>5, <1>6, <1>7, <1>8, <1>9

\* One axis of a desktop that 16 bits can name.
AimIs ==
    /\ aim.span \in Nat \ {0} /\ aim.before \in Nat /\ aim.before + aim.span <= 65536
    /\ aim.share \in 0..Parts /\ aim.left \in Int /\ aim.width \in Nat \ {0}
    /\ aim.image \in Nat

LEMMA PointIsOnElement ==
  ASSUME AimIs, IsNormalized, aim.image > 1
  PROVE  /\ MapPoint \in Nat /\ Scale \in Nat \ {0} /\ MapPoint <= Times(aim.span - 1, Scale)
         /\ (aim.left - 1) * Scale < MapPoint
         /\ MapPoint <= (aim.left + aim.width) * Scale
<1> DEFINE s == aim.span
           p == Parts
           a == aim.share
           b == BoundsLeft
           c == BoundsRight
<1>1. /\ s \in Nat \ {0} /\ p \in Nat \ {0} /\ a \in Nat /\ a <= p
      /\ aim.left \in Int /\ aim.width \in Nat
  BY GeometryAssumption DEF AimIs
<1>2. /\ b \in Nat /\ c \in Nat /\ b < c /\ c <= s
      /\ aim.left <= b /\ c <= aim.left + aim.width /\ aim.left < s
      /\ aim.left > 0 => b = aim.left
  BY <1>1 DEF IsNormalized, BoundsLeft, BoundsRight, Clamp
<1>3. MapPoint = Picked * (s - 1) /\ Picked = b * (p - a) + c * a /\ Scale = p * s
  BY DEF MapPoint, Picked, Scale
<1>4. Picked \in Int /\ b * p <= Picked /\ Picked <= c * p
  <2> HIDE DEF s, p, a, b, c
  <2>1. Picked \in Int
    BY <1>1, <1>2, <1>3
  <2>2. Picked - b * p = (c - b) * a /\ c * p - Picked = (c - b) * (p - a)
    BY <1>1, <1>2, <1>3
  <2>3. (c - b) * a >= 0 /\ (c - b) * (p - a) >= 0
    BY <1>1, <1>2
  <2> QED
    BY <1>1, <1>2, <2>1, <2>2, <2>3
<1>5. Scale \in Nat \ {0} /\ s - 1 \in Nat /\ MapPoint \in Int
  <2> HIDE DEF s, p
  <2> QED
    BY <1>1, <1>3, <1>4
\* The picked point lies between the bounds, which are on the monitor.
<1>6. 0 <= b * p /\ c * p <= Scale
  <2> HIDE DEF s, p, b, c
  <2>1. Times(c, p) <= Times(s, p)
    BY <1>1, <1>2, TimesLe
  <2>2. 0 <= b * p
    BY <1>1, <1>2
  <2> QED
    BY <1>1, <1>3, <2>1, <2>2 DEF Times
<1>7. 0 <= Picked /\ Picked <= Scale
  <2> HIDE DEF s, p, b, c
  <2>1. b * p \in Int /\ c * p \in Int
    BY <1>1, <1>2
  <2> QED
    BY <1>4, <1>5, <1>6, <2>1
<1>8. 0 <= MapPoint /\ MapPoint <= Times(s - 1, Scale)
  <2> HIDE DEF s
  <2>1. Times(0, s - 1) <= Times(Picked, s - 1) /\ Times(Picked, s - 1) <= Times(Scale, s - 1)
    BY <1>4, <1>5, <1>7, TimesLe
  <2> QED
    BY <1>1, <1>3, <1>5, <2>1 DEF Times
\* In parts of a pixel, MapPoint is Picked times the monitor, less Picked.
<1>9. MapPoint = Times(Picked, s) - Picked
  <2> HIDE DEF s
  <2> QED
    BY <1>1, <1>3, <1>4 DEF Times
<1>10. (aim.left - 1) * Scale < MapPoint
  <2>1. CASE aim.left <= 0
    <3> HIDE DEF s
    <3>1. Times(aim.left - 1, Scale) <= Times(0 - 1, Scale)
      BY <1>1, <1>5, <2>1, TimesLe
    <3>2. Times(0 - 1, Scale) = 0 - Scale
      BY <1>5 DEF Times
    <3>3. Times(aim.left - 1, Scale) \in Int
      BY <1>1, <1>5 DEF Times
    <3>4. Times(aim.left - 1, Scale) < MapPoint
      BY <1>5, <1>8, <3>1, <3>2, <3>3
    <3> QED
      BY <3>4 DEF Times
  <2>2. CASE aim.left > 0
    <3> HIDE DEF s, p, a, b, c
    <3>1. Times(b * p, s - 1) <= Times(Picked, s - 1)
      BY <1>1, <1>2, <1>4, <1>5, TimesLe
    <3>2. Times(b * p, s - 1) = Times(b, Scale) - b * p
      BY <1>1, <1>2, <1>3 DEF Times
    <3>3. b * p < Scale
      <4>1. Times(b + 1, p) <= Times(s, p)
        BY <1>1, <1>2, TimesLe
      <4> QED
        BY <1>1, <1>2, <1>3, <4>1 DEF Times
    <3>4. Times(b - 1, Scale) = Times(b, Scale) - Scale
      BY <1>2, <1>5 DEF Times
    <3>5. Times(Picked, s - 1) = MapPoint
      BY <1>3 DEF Times
    <3>6. Times(b, Scale) \in Int /\ b * p \in Int
      BY <1>1, <1>2, <1>5 DEF Times
    <3>7. Times(b - 1, Scale) < MapPoint
      BY <1>5, <3>1, <3>2, <3>3, <3>4, <3>5, <3>6
    <3> QED
      BY <1>2, <2>2, <3>7 DEF Times
  <2> QED
    BY <1>1, <2>1, <2>2
<1>11. MapPoint <= (aim.left + aim.width) * Scale
  <2> HIDE DEF s, p, a, b, c
  <2>1. Times(Picked, s - 1) <= Times(c * p, s - 1)
    BY <1>1, <1>2, <1>4, <1>5, TimesLe
  <2>2. Times(c * p, s - 1) = Times(c, Scale) - c * p
    BY <1>1, <1>2, <1>3 DEF Times
  <2>3. Times(c, Scale) <= Times(aim.left + aim.width, Scale)
    BY <1>1, <1>2, <1>5, TimesLe
  <2>4. Times(Picked, s - 1) = MapPoint
    BY <1>3 DEF Times
  <2>5. /\ Times(c, Scale) \in Int /\ c * p \in Nat
        /\ Times(aim.left + aim.width, Scale) \in Int
    BY <1>1, <1>2, <1>5 DEF Times
  <2>6. MapPoint <= Times(aim.left + aim.width, Scale)
    BY <1>5, <2>1, <2>2, <2>3, <2>4, <2>5
  <2> QED
    BY <2>6 DEF Times
<1> QED
  BY <1>5, <1>8, <1>10, <1>11

LEMMA PointIsLanded ==
  ASSUME AimIs, MapPoint \in Nat, Scale \in Nat \ {0},
         MapPoint <= Times(aim.span - 1, Scale)
  PROVE  (Landed - 1) * Scale <= MapPoint /\ MapPoint < (Landed + 2) * Scale
<1>1. PICK sc \in Nat \ {0} : sc = Scale
  OBVIOUS
<1>2. PICK b \in Nat, s \in Nat \ {0} : b = aim.before /\ s = aim.span /\ b + s <= 65536
  BY DEF AimIs
<1>3. PICK e \in Nat : e = b + s
  OBVIOUS
<1>3a. e >= 1 /\ e <= 65536
  BY <1>2, <1>3
<1>4. PICK x \in Nat : x = MapPoint
  OBVIOUS
<1>5. Extent = e /\ s - 1 = e - b - 1
  <2>1. Extent = b + s
    BY <1>2 DEF Extent
  <2> QED
    BY <1>3, <2>1
<1>6. PICK v \in Nat : v = x + Times(b, sc)
  BY DEF Times
<1>7. x <= Times(s - 1, sc)
  BY <1>1, <1>2, <1>4
<1>8. CASE e = 1
  <2>1. b = 0 /\ s = 1
    BY <1>3, <1>8
  <2>1a. x = 0
    BY <1>7, <2>1 DEF Times
  <2>2. Landed = 0
    BY <1>2, <1>5, <1>8, <2>1 DEF Landed, NormalizePoint
  <2> QED
    BY <1>1, <1>4, <2>1a, <2>2
<1>9. CASE e # 1
  <2>1. PICK d \in Nat \ {0} : d = Times(sc, e - 1)
    <3>1. e - 1 \in Nat \ {0}
      BY <1>3a, <1>9
    <3> QED
      BY <3>1 DEF Times
  <2>2. PICK n \in Int : n = (2 * (v * 65535) + d) \div (2 * d)
    <3>1. 2 * (v * 65535) + d \in Int /\ 2 * d \in Nat \ {0}
      OBVIOUS
    <3>2. (2 * (v * 65535) + d) \div (2 * d) \in Int
      BY <3>1
    <3> QED
      BY <3>2
  <2>3. PICK l \in Int : l = (n * e) \div 65536
    BY DivIs
  <2>4. Landed = l - b
    <3>1. MapPoint + aim.before * Scale = v /\ Scale * (Extent - 1) = d
      BY <1>1, <1>2, <1>4, <1>5, <1>6, <2>1 DEF Times
    <3>2. NormalizePoint = Rounded(v * 65535, d)
      BY <1>5, <1>9, <3>1 DEF NormalizePoint
    <3>2a. NormalizePoint = n
      BY <2>2, <3>2 DEF Rounded
    <3> QED
      BY <1>2, <1>5, <2>3, <3>2a DEF Landed
  <2>5. v <= d
    <3>1. Times(sc, e - 1) = Times(s - 1, sc) + Times(b, sc)
      BY <1>5 DEF Times
    <3>2. Times(s - 1, sc) \in Int /\ Times(b, sc) \in Int
      BY DEF Times
    <3> QED
      BY <1>6, <1>7, <2>1, <3>1, <3>2
  <2>6. 2 * Times(d, n) <= 131070 * v + d /\ 131070 * v + d < 2 * Times(d, n) + 2 * d
    <3>1. PICK a \in Int : a = 2 * (v * 65535) + d
      OBVIOUS
    <3>2. PICK q \in Nat \ {0} : q = 2 * d
      OBVIOUS
    <3>2a. n = a \div q
      BY <2>2, <3>1, <3>2
    <3>3. q * n <= a /\ a < q * n + q
      BY <3>2a, DivIs
    <3>4. q * n = 2 * Times(d, n) /\ a = 131070 * v + d /\ Times(d, n) \in Int
      BY <3>1, <3>2 DEF Times
    <3> QED
      BY <3>2, <3>3, <3>4
  <2>7. 65536 * l <= Times(n, e) /\ Times(n, e) < 65536 * l + 65536
    <3>1. PICK a \in Int : a = n * e
      OBVIOUS
    <3>1a. l = a \div 65536
      BY <2>3, <3>1
    <3>2. 65536 * l <= a /\ a < 65536 * l + 65536
      BY <3>1a
    <3> QED
      BY <3>1, <3>2 DEF Times
  <2>8. PICK t \in Int : t = Times(n, sc)
    BY DEF Times
  <2>9. PICK m \in Int : m = Times(l, sc)
    BY DEF Times
  <2>10. Times(d, n) = Times(e - 1, t)
    BY <2>1, <2>8 DEF Times
  <2>11. 65536 * m <= Times(e, t) /\ Times(e, t) < 65536 * m + 65536 * sc
    <3>1. PICK a \in Int : a = Times(n, e)
      BY DEF Times
    <3>2. Times(65536 * l, sc) <= Times(a, sc)
      BY <2>7, <3>1, TimesLe
    <3>3. Times(a + 1, sc) <= Times(65536 * l + 65536, sc)
      <4>1. a + 1 <= 65536 * l + 65536
        BY <2>7, <3>1
      <4> QED
        BY <4>1, TimesLe
    <3>4. /\ Times(65536 * l, sc) = 65536 * m /\ Times(a, sc) = Times(e, t)
          /\ Times(a + 1, sc) = Times(e, t) + sc /\ Times(e, t) \in Int
          /\ Times(65536 * l + 65536, sc) = 65536 * m + 65536 * sc
      BY <2>8, <2>9, <3>1 DEF Times
    <3> QED
      BY <3>2, <3>3, <3>4
  <2>12. e >= 2
    BY <1>3a, <1>9
  <2>13. Sent(e, sc, v, t, m, d)
    BY <1>3a, <2>1, <2>5, <2>6, <2>10, <2>11, <2>12 DEF Sent
  <2>14. m <= v + sc /\ v < m + 2 * sc
    BY <2>13, NotAfter, NotBefore
  <2>15. /\ (Landed - 1) * Scale = m - Times(b, sc) - sc
         /\ (Landed + 2) * Scale = m - Times(b, sc) + 2 * sc
         /\ Times(b, sc) \in Int
    BY <1>1, <2>4, <2>9 DEF Times
  <2> QED
    BY <1>4, <1>6, <2>14, <2>15
<1> QED
  BY <1>8, <1>9

LEMMA ClicksLand ==
  ASSUME AimIs
  PROVE  ClicksLandOnElement
<1> SUFFICES ASSUME IsNormalized, aim.image > 1
             PROVE  /\ 0 <= MapPoint /\ MapPoint <= (aim.span - 1) * Scale
                    /\ (aim.left - 1) * Scale < MapPoint
                    /\ MapPoint <= (aim.left + aim.width) * Scale
                    /\ (Landed - 1) * Scale <= MapPoint /\ MapPoint < (Landed + 2) * Scale
  BY DEF ClicksLandOnElement
<1>1. /\ MapPoint \in Nat /\ Scale \in Nat \ {0} /\ MapPoint <= Times(aim.span - 1, Scale)
      /\ (aim.left - 1) * Scale < MapPoint
      /\ MapPoint <= (aim.left + aim.width) * Scale
  BY PointIsOnElement
<1>2. (Landed - 1) * Scale <= MapPoint /\ MapPoint < (Landed + 2) * Scale
  BY <1>1, PointIsLanded
<1> QED
  BY <1>1, <1>2 DEF Times

LEMMA AimStarts ==
  ASSUME DesktopInit
  PROVE  AimIs
<1>1. CASE part = "clicks"
  <2>1. PICK span \in Spans, image \in Images, before \in Before, k \in 0..Parts :
        \E left \in -2..(span + 1), width \in 1..4 :
           aim = [span |-> span, image |-> image, before |-> before, share |-> k,
                  left |-> left, width |-> width]
    BY <1>1 DEF DesktopInit, GeometryInit
  <2>2. /\ span \in Nat \ {0} /\ image \in Nat /\ before \in Nat /\ before + span <= 65536
    BY GeometryAssumption
  <2> QED
    BY <2>1, <2>2 DEF AimIs
<1>2. CASE part # "clicks"
  <2>1. aim = [span |-> 1, image |-> 1, before |-> 0, share |-> 0, left |-> 0, width |-> 1]
    BY <1>2 DEF DesktopInit
  <2> QED
    BY <2>1, GeometryAssumption DEF AimIs
<1> QED
  BY <1>1, <1>2

-----------------------------------------------------------------------------
(***************************************************************************)
(* The parts side by side: a step is a step of one of them, and the others *)
(* stand still.                                                            *)
(***************************************************************************)

LEMMA PlanningStands ==
  ASSUME PlanningInv, UNCHANGED planningVars
  PROVE  PlanningInv'
BY DEF planningVars, askVars, deskVars, planVars, PlanningInv, StageInv, OfferInv,
       CheckedInv, PicturesStay, MayCapture, ClicksFit, Found, Planning, Acting

LEMMA LocalStands ==
  ASSUME LocalInv, UNCHANGED localVars
  PROVE  LocalInv'
BY DEF localVars, choice, LocalInv, LocalTypes, CallInv, PermitInv, UsersOf, AllWorking,
       Working

LEMMA HangStands ==
  ASSUME HangInv, UNCHANGED hangVars
  PROVE  HangInv'
BY DEF hangVars, HangInv, RoundsInv, RowInv, Row, Without, Pauses, GraceInv, HungInv,
       WasSuspended, IsHung

LEMMA MonitorStands ==
  ASSUME MonitorInv, UNCHANGED monitorVars
  PROVE  MonitorInv'
BY DEF monitorVars, MonitorInv, MonitorTypes, HookInv, Reports, HelperInv, Served, Watching,
       SlotInv, OneCapture, PartialsAreDone, DumpsMatch, StillRuns

\* A plan that acts was announced and fits the screen it was made for, its click lands on
\* the element, one worker acts at a time and stops when its call returns, and no modifier
\* key stays down (handle_request, execute_plan_controlled).
THEOREM ActionsStayContained == DesktopSpec => []ActionsAreContained
<1> DEFINE Inv == PlanningInv /\ AimIs /\ ExecutorInv
<1>1. DesktopInit => Inv
  BY PlanningStarts, AimStarts, ExecutorStarts DEF DesktopInit
<1>2. Inv /\ [DesktopNext]_desktopVars => Inv'
  <2> SUFFICES ASSUME Inv, [DesktopNext]_desktopVars PROVE Inv'
    OBVIOUS
  <2>1. PlanningNext => PlanningInv'
    BY PlanningKept
  <2>2. UNCHANGED planningVars => PlanningInv'
    BY PlanningStands
  <2>3. ExecutorNext => ExecutorInv'
    BY ExecutorKept
  <2>4. UNCHANGED executorVars => ExecutorInv'
    BY ExecutorStands
  <2>5. AimIs'
    BY DEF DesktopNext, desktopVars, AimIs
  <2>6. PlanningNext \/ UNCHANGED planningVars
    BY DEF DesktopNext, desktopVars
  <2>7. ExecutorNext \/ UNCHANGED executorVars
    BY DEF DesktopNext, desktopVars
  <2> QED
    BY <2>1, <2>2, <2>3, <2>4, <2>5, <2>6, <2>7
<1>3. Inv => ActionsAreContained
  BY PlanningHolds, ExecutorHolds, ClicksLand DEF ActionsAreContained
<1> QED
  BY <1>1, <1>2, <1>3, PTL DEF DesktopSpec

\* The pictures of the screen show neither keys nor codes, and stay on the machine unless
\* the user allows them to leave it (capture_async, handle_request).
THEOREM PicturesAreKeptPrivate == DesktopSpec => []PicturesArePrivate
<1> DEFINE Inv == ScreenInv /\ PlanningInv
<1>1. DesktopInit => Inv
  BY ScreenStarts, PlanningStarts DEF DesktopInit
<1>2. Inv /\ [DesktopNext]_desktopVars => Inv'
  <2> SUFFICES ASSUME Inv, [DesktopNext]_desktopVars PROVE Inv'
    OBVIOUS
  <2>1. ScreenNext => ScreenInv'
    BY ScreenKept
  <2>2. UNCHANGED screenVars => ScreenInv'
    BY DEF screenVars, ScreenInv, ScreenTypes, VeilInv, CapturesInv, Serving, Suspended
  <2>3. PlanningNext => PlanningInv'
    BY PlanningKept
  <2>4. UNCHANGED planningVars => PlanningInv'
    BY PlanningStands
  <2>5. ScreenNext \/ UNCHANGED screenVars
    BY DEF DesktopNext, desktopVars
  <2>6. PlanningNext \/ UNCHANGED planningVars
    BY DEF DesktopNext, desktopVars
  <2> QED
    BY <2>1, <2>2, <2>3, <2>4, <2>5, <2>6
<1>3. Inv => PicturesArePrivate
  BY PlanningHolds DEF PicturesArePrivate, ScreenIsPrivate, ScreenInv, CapturesInv
<1> QED
  BY <1>1, <1>2, <1>3, PTL DEF DesktopSpec

\* The engine's own models never work for more calls at once than there are permits, a
\* permit comes back with the kernel that had it, and a kernel that nobody waits for
\* takes one step at most (BlockingWorker).
THEOREM LocalModelsAreBounded == DesktopSpec => []LocalWorkIsBounded
<1>1. DesktopInit => LocalInv
  BY LocalStarts DEF DesktopInit
<1>2. LocalInv /\ [DesktopNext]_desktopVars => LocalInv'
  <2> SUFFICES ASSUME LocalInv, [DesktopNext]_desktopVars PROVE LocalInv'
    OBVIOUS
  <2>1. CASE LocalNext
    BY <2>1, LocalKept
  <2>2. CASE UNCHANGED localVars
    BY <2>2, LocalStands
  <2> QED
    BY <2>1, <2>2 DEF DesktopNext, desktopVars
<1>3. LocalInv => LocalWorkIsBounded
  BY LocalHolds
<1> QED
  BY <1>1, <1>2, <1>3, PTL DEF DesktopSpec

\* A crash the helper has seen is answered or its dump is being made, one dump is made at
\* a time and none is missed, and what it takes for a hang is one (windows.rs, HangDetector).
THEOREM FailuresAreSeen == DesktopSpec => []FailuresAreWatched
<1> DEFINE Inv == MonitorInv /\ HangInv
<1>1. DesktopInit => Inv
  BY MonitorStarts, HangStarts DEF DesktopInit
<1>2. Inv /\ [DesktopNext]_desktopVars => Inv'
  <2> SUFFICES ASSUME Inv, [DesktopNext]_desktopVars PROVE Inv'
    OBVIOUS
  <2>1. MonitorNext => MonitorInv'
    BY MonitorKept
  <2>2. UNCHANGED monitorVars => MonitorInv'
    BY MonitorStands
  <2>3. Probe => HangInv'
    BY HangKept
  <2>4. UNCHANGED hangVars => HangInv'
    BY HangStands
  <2>5. MonitorNext \/ UNCHANGED monitorVars
    BY DEF DesktopNext, desktopVars, watchVars
  <2>6. Probe \/ UNCHANGED hangVars
    BY DEF DesktopNext, desktopVars, watchVars
  <2> QED
    BY <2>1, <2>2, <2>3, <2>4, <2>5, <2>6
<1>3. Inv => FailuresAreWatched
  BY MonitorHolds, HangHolds DEF FailuresAreWatched
<1> QED
  BY <1>1, <1>2, <1>3, PTL DEF DesktopSpec
==============================================================================
