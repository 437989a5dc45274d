----------------------------- MODULE SceneRoute -----------------------------
(***************************************************************************)
(* A frame from Skyrim's resolution update to Present: the extents it is   *)
(* rendered at, the jitter its world is drawn and upscaled with, and the   *)
(* way its UI takes to the screen.  Translated from the hooks of           *)
(* DynamicResolution.cpp and CameraData.cpp (through ResolutionControl),   *)
(* UpscalingPass.cpp (post_processing_thunk, main_draw_thunk,              *)
(* commit_pending_scene_resolve, begin_frame), ScaleformBoundary.cpp, the  *)
(* UI part of SharedResources.cpp and the UI part of State::present in     *)
(* PresentationBridge.cpp.                                                 *)
(*                                                                         *)
(* All of it runs on the render thread.  What varies is what Skyrim calls: *)
(* a frame may have no world (menus, loading), camera writes come at any   *)
(* point, displays begin before or after the scene is final, menus open    *)
(* between any two hooks, targets may refuse the redirection, the shared   *)
(* textures come and go, and ENB may tear the plugin down and start it     *)
(* again.                                                                  *)
(***************************************************************************)
EXTENDS ResolutionControl, FiniteSets

CONSTANTS
    Menus,          \* the full resolution menus whose events are heard, and fader
    WorldHistories, \* what a world camera's previous matrices may allow
    TaaSettings,    \* whether the user has Skyrim's TAA on
    Sources,        \* what the user has reported: the request, the measurement
    MaxFrames,      \* bound: frames of a session
    MaxEvents       \* bound: menu events, pauses, lost textures, broken cameras,
                    \* refused targets, dropped frames and exits of a session

ASSUME RouteAssumption == /\ WorldHistories \subseteq Histories
                          /\ TaaSettings \subseteq BOOLEAN
                          /\ MaxFrames \in Nat /\ MaxEvents \in Nat

VARIABLES
    surface,    \* how the session renders, see ResolutionControl
    dr,         \* DynamicResolution
    engine,     \* what Skyrim's state and settings hold
    cam,        \* the capture of the camera
    s,          \* what others decide: upscaler, failed, planes, paused, ...
    ui,         \* ScaleformBoundary and the UI members of SharedResources
    pass,       \* UpscalingPass: whether the scene is final and resolved;
                \* late is history: this frame began with a scene that is final
    frame,      \* frame counter
    phase,      \* how far Skyrim's frame is
    raster,     \* history: the jitter this frame's world was drawn with
    told,       \* history: what consumers of this frame were told
    drawn,      \* history: where this frame's UI went
    shown,      \* history: the last Present: UI it lost, and its health
    flag0,      \* history: Skyrim's own TAA flag
    events      \* how many events there have been

vars == <<surface, dr, engine, cam, s, ui, pass, frame, phase, raster, told,
          drawn, shown, flag0, events>>

Phases == {"begun", "scaled", "world", "final", "presented"}

NewUi == [inside |-> FALSE, pending |-> FALSE, opened |-> FALSE,
          rendering |-> FALSE, hudless |-> FALSE, fgHudless |-> FALSE,
          captured |-> FALSE]

NewPass == [final |-> FALSE, resolve |-> FALSE, prepared |-> FALSE,
            late |-> FALSE]

Unrastered == -2

NothingShown == [lost |-> {}, healthy |-> TRUE]

EngineStates ==
    [readable : BOOLEAN, flag : TaaSettings, setting : TaaSettings,
     dynamic : {FALSE}, lock : {0}, scale : {"full"}, previous : {"full"},
     projection : {NoJitter}, viewport : {"output"}]

Init ==
    /\ surface \in Surfaces
    /\ engine \in {e \in EngineStates : e.flag = e.setting}
    /\ flag0 = engine.flag
    /\ events = 0
    /\ \E patched \in BOOLEAN : dr = NewResolution(engine, patched)
    /\ cam = Install(NewCapture)
    /\ s \in [upscaler : {Virtual(surface)}, failed : {FALSE},
              planes : {TRUE}, paused : {FALSE}, jitter : {TRUE},
              source : Sources, generation : BOOLEAN, shared : {TRUE},
              up : {TRUE}]
    /\ ui = NewUi
    /\ pass = NewPass
    /\ frame = 0
    /\ phase = "begun"
    /\ raster = Unrastered
    /\ told = {}
    /\ drawn = {}
    /\ shown = NothingShown

-----------------------------------------------------------------------------
\* What is out of the ordinary is bounded by MaxEvents.
Event == events < MaxEvents /\ events' = events + 1

Ordinary(p) == IF p THEN UNCHANGED events ELSE Event

(***************************************************************************)
(* The scene                                                               *)
(***************************************************************************)
GameResolution ==
    /\ phase = "begun"
    /\ LET r == UpdateResolution(dr, engine, surface, s, cam)
       IN  dr' = r.dr /\ engine' = r.engine
    /\ phase' = "scaled"
    /\ UNCHANGED <<surface, cam, s, ui, pass, frame, raster, told, drawn,
                   shown, flag0, events>>

GameJitter_ ==
    /\ phase = "scaled"
    /\ LET j == UpdateJitter(dr, engine, surface, s, cam, frame)
       IN  dr' = j.dr /\ engine' = j.engine
    /\ phase' = "world"
    /\ UNCHANGED <<surface, cam, s, ui, pass, frame, raster, told, drawn,
                   shown, flag0, events>>

\* A world pass writes its camera; the world is drawn with it.
WorldCamera(history) ==
    /\ phase = "world"
    /\ Ordinary(history # "broken")
    /\ cam' = WriteCamera(cam, [perspective |-> TRUE,
                                jitter |-> FoldedJitter(dr, engine),
                                located |-> TRUE, history |-> history])
    /\ raster' = FoldedJitter(dr, engine)
    /\ UNCHANGED <<surface, dr, engine, s, ui, pass, frame, phase, told, drawn,
                   shown, flag0>>

\* Other cameras: the screen splatter and the menus' (orthographic) at any time,
\* a menu's perspective one after the scene is final.
OtherCamera(perspective) ==
    /\ phase # "presented"
    /\ perspective => phase = "final"
    /\ cam' = WriteCamera(cam, [perspective |-> perspective,
                                jitter |-> NoJitter, located |-> TRUE,
                                history |-> "usable"])
    /\ UNCHANGED <<surface, dr, engine, s, ui, pass, frame, phase, raster, told,
                   drawn, shown, flag0, events>>

\* post_processing_thunk on the frame buffer: Skyrim's own TAA resolve is held
\* back for the call, and the first one that the pass sees makes the scene final.
MakesFinal == Virtual(surface) /\ ~pass.final

SceneFinal ==
    /\ phase = "world"
    /\ raster # Unrastered
    /\ engine' = EnableTaaForWorld(dr, SuppressTaaResolve(engine, s.upscaler),
                                   s.upscaler)
    /\ pass' = IF MakesFinal
               THEN [pass EXCEPT !.final = TRUE, !.resolve = TRUE] ELSE pass
    /\ cam' = IF MakesFinal THEN Freeze(cam, TRUE) ELSE cam
    /\ phase' = "final"
    /\ UNCHANGED <<surface, dr, s, ui, frame, raster, told, drawn, shown,
                   flag0, events>>

-----------------------------------------------------------------------------
(***************************************************************************)
(* The resolve and the UI                                                  *)
(***************************************************************************)
\* capture_hudless; without the shared textures nothing is captured.
CaptureHudless(u) ==
    IF s.shared THEN [u EXCEPT !.hudless = TRUE,
                               !.fgHudless = @ \/ ~Virtual(surface)] ELSE u

\* capture_frame_generation_hudless.
CaptureOutput(u) == IF s.shared THEN [u EXCEPT !.fgHudless = TRUE] ELSE u

\* begin_ui_rendering.
CanRenderUi(u) == s.shared /\ u.hudless /\ ~u.rendering

\* What evaluate_provider_surface asks for before it reads the jitter.  It neither
\* asks whether the frame was scaled for it, nor whether the jitter is coherent.
Evaluable == s.upscaler /\ TemporalInputsValid(cam, s.planes)

\* commit_pending_scene_resolve: the upscaler, which is told the frame's jitter,
\* else a stretch, else nothing.  UI already drawn on the reduced surface becomes
\* part of the scene.  u is the UI state it starts from.
ResolveOutcomes(u) ==
    LET read == FrameJitter(cam, s.source, dr.jitter)
        hud == CaptureHudless(u)
        opened == BeginFullUi(dr, engine, surface)
        Resolved(capture, heard) ==
            [ok |-> TRUE, cam |-> capture, told |-> told \cup heard,
             pass |-> [pass EXCEPT !.resolve = FALSE, !.prepared = TRUE],
             dr |-> opened.dr, engine |-> opened.engine,
             ui |-> CaptureOutput(hud),
             drawn |-> {IF w = "reduced" THEN "scene" ELSE w : w \in drawn}]
        Failed(capture) ==
            [ok |-> FALSE, cam |-> capture, told |-> told,
             pass |-> [pass EXCEPT !.resolve = FALSE],
             dr |-> dr, engine |-> engine, ui |-> hud, drawn |-> drawn]
    IN  {Resolved(cam, {}), Failed(cam)}
        \cup (IF Evaluable
              THEN {Resolved(read, {read.snapshot.jitter}),
                    Resolved(read, {}), Failed(read)}
              ELSE {})

\* The layer is opened, or the phase the caller has begun is closed again.
OpenLayer(u, d, e) ==
    LET closed == EndFullUi(d, e, surface)
    IN  IF CanRenderUi(u)
        THEN /\ ui' = [u EXCEPT !.rendering = TRUE, !.opened = TRUE,
                                !.pending = TRUE]
             /\ dr' = d /\ engine' = e
        ELSE ui' = u /\ dr' = closed.dr /\ engine' = closed.engine

\* before_display: nothing more to do once the phase is open; on the reduced
\* surface the pending resolve comes first, on a native one the capture of the
\* back buffer, where frame generation asks for it.
OpenUi == [ui EXCEPT !.inside = TRUE]

Idle == \/ ui.pending \/ ui.opened
        \/ IF Virtual(surface) THEN ~pass.resolve ELSE ~s.generation

EnterDisplay ==
    /\ Idle
    /\ ui' = OpenUi
    /\ UNCHANGED <<dr, engine, cam, pass, told, drawn>>

ResolveAtDisplay ==
    /\ ~Idle /\ Virtual(surface)
    /\ \E r \in ResolveOutcomes(OpenUi) :
         /\ cam' = r.cam /\ told' = r.told /\ pass' = r.pass
         /\ drawn' = r.drawn
         /\ IF r.ok THEN OpenLayer(r.ui, r.dr, r.engine)
                    ELSE ui' = r.ui /\ dr' = r.dr /\ engine' = r.engine

CaptureAtDisplay ==
    /\ ~Idle /\ ~Virtual(surface)
    /\ LET hud == CaptureHudless(OpenUi)
           b == BeginFullUi(dr, engine, surface)
       IN  IF s.shared /\ hud.fgHudless THEN OpenLayer(hud, b.dr, b.engine)
           ELSE ui' = hud /\ UNCHANGED <<dr, engine>>
    /\ UNCHANGED <<cam, pass, told, drawn>>

BeginDisplay ==
    /\ ~ui.inside
    /\ EnterDisplay \/ ResolveAtDisplay \/ CaptureAtDisplay
    /\ UNCHANGED <<surface, s, frame, phase, raster, shown, flag0, events>>

\* after_display: the layer is bound again, or its early end is noticed.
AfterDisplay ==
    /\ ui.inside /\ ui.pending
    /\ IF ui.rendering
       THEN ui' = [ui EXCEPT !.pending = FALSE] /\ UNCHANGED <<dr, engine>>
       ELSE LET e == EndFullUi(dr, engine, surface)
            IN  /\ ui' = [ui EXCEPT !.pending = FALSE, !.opened = FALSE]
                /\ dr' = e.dr /\ engine' = e.engine
    /\ UNCHANGED <<surface, cam, s, pass, frame, phase, raster, told, drawn,
                   shown, flag0, events>>

\* remap_full_resolution_ui_targets, for a bind of the back buffer inside a
\* display: to the layer, unless a target does not fit or a depth is missing.
Redirects == dr.ui /\ ~dr.uiFailed /\ ui.rendering

Remap(fits, depth) ==
    CASE ~Redirects -> [dr |-> dr, layer |-> FALSE]
      [] Redirects /\ ~fits -> [dr |-> [dr EXCEPT !.uiDeclined = TRUE],
                                layer |-> FALSE]
      [] Redirects /\ fits /\ ~depth -> [dr |-> [dr EXCEPT !.uiFailed = TRUE],
                                         layer |-> FALSE]
      [] OTHER -> [dr |-> dr, layer |-> TRUE]

\* Where Skyrim's back buffer is.
BackBuffer == IF Virtual(surface) THEN "reduced" ELSE "back"

DrawUi(fits, depth) ==
    /\ ui.inside /\ ~ui.pending
    /\ Ordinary(~Redirects \/ (fits /\ depth))
    /\ LET m == Remap(fits, depth)
       IN  /\ dr' = m.dr
           /\ drawn' = drawn \cup {IF m.layer THEN "layer" ELSE BackBuffer}
    /\ UNCHANGED <<surface, engine, cam, s, ui, pass, frame, phase, raster,
                   told, shown, flag0>>

EndDisplay ==
    /\ ui.inside /\ ~ui.pending
    /\ ui' = [ui EXCEPT !.inside = FALSE]
    /\ UNCHANGED <<surface, dr, engine, cam, s, pass, frame, phase, raster,
                   told, drawn, shown, flag0, events>>

-----------------------------------------------------------------------------
(***************************************************************************)
(* Present                                                                 *)
(***************************************************************************)
\* What Present starts from: a resolve still owed is committed at its floor.
AtFloor ==
    IF Virtual(surface) /\ pass.resolve THEN ResolveOutcomes(ui)
    ELSE {[ok |-> TRUE, cam |-> cam, told |-> told, pass |-> pass, dr |-> dr,
           engine |-> engine, ui |-> ui, drawn |-> drawn]}

\* The layer is composited, or a layer is extracted from the finished frame;
\* either may fail, and a layer may be unsafe to hand to a generator.
LayerReady(f, gpu) ==
    /\ s.shared /\ f.ui.fgHudless /\ gpu
    /\ f.ui.rendering \/ (IF Virtual(surface) THEN f.dr.ui ELSE s.generation)

\* The reduced frame goes out when nothing was prepared or a target was refused.
SpatialFallback(f) ==
    Virtual(surface) /\ (~f.pass.prepared \/ RedirectionFailed(f.dr))

\* The slip of a Present that asks after it has closed the UI phase.
UnhealthyClosed(f, ready, safe, nvidia) == SpatialFallback(f)

\* An unsafe hint is only withheld from NVIDIA's generator, for which the frame
\* stays healthy.
Unhealthy(f, ready, safe, nvidia) ==
    \/ SpatialFallback(f)
    \/ /\ f.dr.ui \/ (f.ui.rendering /\ ~Virtual(surface))
       /\ ~ready \/ (~safe /\ ~nvidia)

Visible(f, ready) ==
    IF SpatialFallback(f) THEN {"reduced", "scene"}
    ELSE {"scene", "back"} \cup (IF ready THEN {"layer"} ELSE {})

\* The frame's constants go to the generator when the frame is healthy.
Submitted(f, healthy) ==
    LET c == BuildConstants(f.cam, s.planes, FALSE, s.source, f.dr.jitter)
    IN  IF s.generation /\ healthy /\ c.ok
        THEN [cam |-> c.capture, told |-> f.told \cup {c.report.jitter}]
        ELSE [cam |-> f.cam, told |-> f.told]

\* Native frames are serviced only where the UI policy says so.
Serviced(f) == Virtual(surface) \/ s.generation \/ f.ui.rendering

Present ==
    /\ phase # "presented" /\ ~ui.inside
    /\ \E f \in AtFloor, gpu, safe, nvidia \in BOOLEAN :
         LET ready == Serviced(f) /\ LayerReady(f, gpu)
             healthy == ~(Serviced(f) /\ Unhealthy(f, ready, safe, nvidia))
             closed == IF Serviced(f) THEN EndFullUi(f.dr, f.engine, surface)
                       ELSE [dr |-> f.dr, engine |-> f.engine]
             sent == Submitted(f, healthy)
         IN  /\ ~f.ui.rendering => safe
             /\ dr' = closed.dr /\ engine' = closed.engine
             /\ cam' = sent.cam /\ told' = sent.told
             /\ pass' = f.pass
             /\ ui' = [f.ui EXCEPT !.rendering = FALSE,
                                   !.captured = ready /\ safe]
             /\ drawn' = {}
             /\ shown' = [lost |-> f.drawn \ Visible(f, ready),
                          healthy |-> healthy]
    /\ phase' = "presented"
    /\ UNCHANGED <<surface, s, frame, raster, flag0, events>>

\* The settings of the frame are applied with it.
NextFrame(t) ==
    /\ s' = t
    /\ frame' = frame + 1
    /\ phase' = "begun"
    /\ raster' = Unrastered
    /\ told' = {}
    /\ drawn' = {}
    /\ shown' = NothingShown

\* begin_frame of UpscalingPass, ScaleformBoundary and SharedResources.
OpenFrame ==
    /\ cam' = Freeze(cam, FALSE)
    /\ ui' = NewUi
    /\ pass' = NewPass
    /\ UNCHANGED events

\* A frame that Present dropped is still open: begin_frame of RendererRuntime
\* returns early, or is not called at all, and nothing is reset.
KeepFrame ==
    /\ Event
    /\ pass' = [pass EXCEPT !.late = pass.final]
    /\ UNCHANGED <<cam, ui>>

FrameSettings ==
    [upscaler : {FALSE, Virtual(surface)}, failed : BOOLEAN,
     planes : {s.planes}, paused : {s.paused}, jitter : {s.jitter},
     source : {s.source}, generation : {s.generation},
     shared : {s.shared}, up : {TRUE}]

BeginFrame ==
    /\ phase = "presented" /\ s.up /\ frame < MaxFrames
    /\ \E t \in FrameSettings :
         /\ t.failed => t.upscaler
         /\ NextFrame(t)
    /\ OpenFrame \/ KeepFrame
    /\ UNCHANGED <<surface, dr, engine, flag0>>

-----------------------------------------------------------------------------
(***************************************************************************)
(* What happens at any time                                                *)
(***************************************************************************)
\* What would come between Present and the next frame comes at its beginning,
\* where the same is read.
Between == Event /\ phase # "presented"

Menu(menu, opening) ==
    /\ Between
    /\ dr' = MenuEvent(dr, menu, opening)
    /\ UNCHANGED <<surface, engine, cam, s, ui, pass, frame, phase, raster,
                   told, drawn, shown, flag0>>

\* The near and far planes and the pause.
World(field) ==
    /\ Between
    /\ s' = [s EXCEPT ![field] = ~@]
    /\ UNCHANGED <<surface, dr, engine, cam, ui, pass, frame, phase, raster,
                   told, drawn, shown, flag0>>

\* The shared textures are released (a resize, a lost device) and made again.
SharedTextures ==
    /\ Between
    /\ s.up
    /\ s' = [s EXCEPT !.shared = ~@]
    /\ ui' = [ui EXCEPT !.rendering = FALSE, !.hudless = FALSE,
                        !.fgHudless = FALSE, !.captured = FALSE]
    /\ UNCHANGED <<surface, dr, engine, cam, pass, frame, phase, raster, told,
                   drawn, shown, flag0>>

\* ENB's exit callback, and the plugin started again.
Exit ==
    /\ Event
    /\ phase = "presented" /\ s.up
    /\ LET r == ShutdownResolution(dr, engine)
       IN  dr' = r.dr /\ engine' = r.engine
    /\ cam' = ShutdownCapture(cam)
    /\ ui' = [ui EXCEPT !.rendering = FALSE, !.hudless = FALSE,
                        !.fgHudless = FALSE, !.captured = FALSE]
    /\ s' = [s EXCEPT !.up = FALSE, !.upscaler = FALSE, !.failed = FALSE]
    /\ UNCHANGED <<surface, pass, frame, phase, raster, told, drawn, shown,
                   flag0>>

Restart ==
    /\ ~s.up
    /\ cam' = Install(cam)
    /\ s' = [s EXCEPT !.up = TRUE]
    /\ UNCHANGED <<surface, dr, engine, ui, pass, frame, phase, raster, told,
                   drawn, shown, flag0, events>>

Next ==
    \/ GameResolution \/ GameJitter_ \/ SceneFinal
    \/ \E h \in WorldHistories : WorldCamera(h)
    \/ \E p \in BOOLEAN : OtherCamera(p)
    \/ BeginDisplay \/ AfterDisplay \/ EndDisplay
    \/ \E fits, depth \in BOOLEAN : DrawUi(fits, depth)
    \/ Present \/ BeginFrame
    \/ \E m \in Menus, o \in BOOLEAN : Menu(m, o)
    \/ \E f \in {"planes", "paused"} : World(f)
    \/ SharedTextures
    \/ Exit \/ Restart

Spec == Init /\ [][Next]_vars

-----------------------------------------------------------------------------
(***************************************************************************)
(* Properties                                                              *)
(***************************************************************************)
Jitters == GameJitter .. Samples

\* The members of every component stay in their ranges, and the UI surfaces a
\* frame can use are the four the code has.
TypeOK ==
    /\ surface \in Surfaces /\ phase \in Phases /\ frame \in 0 .. MaxFrames
    /\ dr.jitter \in Jitters /\ dr.projection \in Jitters
    /\ dr.owner.probe \in 0 .. SplitProbeFrames
    /\ engine.viewport \in {"render", "output"} /\ engine.lock \in 0 .. 1
    /\ ui \in [DOMAIN NewUi -> BOOLEAN] /\ pass \in [DOMAIN NewPass -> BOOLEAN]
    /\ told \subseteq Jitters /\ raster \in Jitters \cup {Unrastered}
    /\ drawn \subseteq {"reduced", "scene", "back", "layer"}

\* The upscaler, which reads the jitter when the scene is resolved, and frame
\* generation, which reads it at Present, are told the same one, although the UI
\* goes on writing cameras in between.
ConsumersAgree == Virtual(surface) => \A a, b \in told : a = b

\* Where the jitter is measured, what they are told is the offset the world was
\* drawn with, whoever chose it, and whatever became of the TAA flag, the scale,
\* the menus and the planes in between.  Late frames are excepted: their world is
\* drawn while the capture still holds the camera of the frame that was dropped.
JitterReportedAsRastered ==
    Virtual(surface) /\ s.source = "measured" /\ raster # Unrastered /\ ~pass.late
        => told \subseteq {raster}

\* The game's viewport is the output's exactly while the UI phase is open, and
\* on a shared surface the UI never inherits the scale of the scene.
ExtentFollowsPhase ==
    /\ dr.ui => engine.viewport = "output"
    /\ dr.ui /\ surface = "sub_rect" => engine.scale = "full" /\ engine.lock = 1
    /\ surface = "complete" /\ ~dr.ui /\ phase \in {"world", "final"}
        => engine.viewport = "render"

\* A frame whose UI was captured into the layer and did not come back out of it
\* is never reported healthy to the generators.
LostLayerIsUnhealthy == "layer" \in shown.lost => ~shown.healthy

\* What the message of DynamicResolution::shutdown promises: every setting the
\* plugin touched, Skyrim's live TAA flag among them, is back as it was.
RuntimeFlagRestored == ~s.up /\ engine.readable => engine.flag = flag0
=============================================================================
