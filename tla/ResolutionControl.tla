------------------------- MODULE ResolutionControl -------------------------
(***************************************************************************)
(* The plugin's hold over Skyrim's dynamic resolution, jitter and TAA,     *)
(* translated from src/render/DynamicResolution.cpp: operators over dr,    *)
(* the members of DynamicResolution, and engine, the fields of Skyrim's    *)
(* graphics state and settings it writes.                                  *)
(*                                                                         *)
(* An extent is "render" or "output"; a scale is "reduced" (render_scale)  *)
(* or "full" (1.0).  surface is how the game renders: "complete" (to a     *)
(* reduced back buffer of the plugin), "sub_rect" (to a part of an output  *)
(* sized one) or "native".  DLAA, whose render extent is the output's, is  *)
(* left out: the properties are about extents that differ.                 *)
(***************************************************************************)
EXTENDS CameraCapture

CONSTANT
    Samples     \* phase_count of update_jitter

ASSUME SamplesAssumption == Samples \in Nat \ {0}

Surfaces == {"complete", "sub_rect", "native"}

Virtual(surface) == surface # "native"

\* install: what the game had is remembered.  patched: the fold gate was
\* neutralised, so the game's matrices take the offset even without TAA.
NewResolution(engine, patched) ==
    [scale |-> "full", last |-> "full", jitter |-> NoJitter, active |-> FALSE,
     menu |-> FALSE, owner |-> NewOwnership, patched |-> patched,
     captured |-> FALSE, savedFlag |-> FALSE, savedSetting |-> engine.setting,
     savedDynamic |-> engine.dynamic, savedLock |-> engine.lock,
     projection |-> NoJitter,
     ui |-> FALSE, uiFailed |-> FALSE, uiDeclined |-> FALSE]

\* dynamic_resolution_lock_for.
LockFor(surface, reduced, upscaler, original) ==
    CASE surface = "sub_rect" -> 1
      [] surface # "sub_rect" /\ reduced -> 0
      [] OTHER -> IF upscaler THEN 1 ELSE original

\* ProcessEvent: one of the three full resolution menus, or the fader.
MenuEvent(dr, menu, opening) ==
    IF menu # "fader" THEN [dr EXCEPT !.menu = opening]
    ELSE IF ~opening THEN [dr EXCEPT !.menu = FALSE]
    ELSE dr

\* evaluation_ready of update_resolution and of update_jitter.
EvaluationReady(dr, s, cam) ==
    /\ s.upscaler
    /\ ~s.failed
    /\ ~dr.menu
    /\ TemporalInputsValid(cam, s.planes)
    /\ ~s.paused

\* The scale of the frame, and what it makes of the engine's fields.
ScaleOf(surface, ready) ==
    IF ready /\ surface # "complete" THEN "reduced" ELSE "full"

\* update_dynamic_resolution_mode.
DynamicMode(dr, surface, upscaler) ==
    (upscaler /\ surface # "complete") \/ dr.savedDynamic

\* frameBufferViewport is the reduced extent for the whole complete frame.
WorldViewport(surface, viewport) ==
    IF surface = "complete" THEN "render" ELSE viewport

Scaled(dr, engine, surface, s, ready) ==
    LET scale == ScaleOf(surface, ready)
    IN  [engine EXCEPT
            !.viewport = WorldViewport(surface, @),
            !.dynamic = DynamicMode(dr, surface, s.upscaler),
            !.scale = scale,
            !.previous = dr.last,
            !.lock = LockFor(surface, scale = "reduced", s.upscaler,
                             dr.savedLock)]

\* update_resolution_thunk: update_resolution, Skyrim's own update (which sets
\* scale and lock as it likes), reapply_scene_scale.
UpdateResolution(dr, engine, surface, s, cam) ==
    LET ready == EvaluationReady(dr, s, cam)
        set == Scaled(dr, engine, surface, s, ready)
    IN  [dr |-> [dr EXCEPT !.scale = ScaleOf(surface, ready)], engine |-> set]

-----------------------------------------------------------------------------
\* runtime_taa_flag may not be readable; then nothing is done to it.
SetFlag(engine, value) ==
    IF engine.readable THEN [engine EXCEPT !.flag = value] ELSE engine

\* enable_vanilla_taa_for_world_render, suppress_vanilla_taa_resolve.
EnableTaaForWorld(dr, engine, upscaler) ==
    IF upscaler THEN SetFlag(engine, ~dr.patched) ELSE engine

SuppressTaaResolve(engine, upscaler) ==
    IF upscaler THEN SetFlag(engine, FALSE) ELSE engine

\* update_vanilla_taa: the setting follows the policy, the live flag is on while
\* the plugin upscales, and the flag it finds first is taken for the game's.
UpdateTaa(dr, engine, upscaler) ==
    LET policy == TemporalAaPolicy(dr.owner, upscaler)
        setting == IF upscaler THEN policy = "engine_jitter_without_resolve"
                   ELSE dr.savedSetting
        saved == IF dr.captured THEN dr.savedFlag ELSE engine.flag
        kept == [dr EXCEPT !.captured = TRUE, !.savedFlag = saved]
        written == [engine EXCEPT !.setting = setting]
    IN  IF ~engine.readable THEN [dr |-> dr, engine |-> written]
        ELSE [dr |-> kept,
              engine |-> [written EXCEPT !.flag = upscaler \/ saved]]

\* Skyrim's own jitter update, which the hook calls first: with TAA on it offsets
\* the projection.
GameJitterUpdate(engine) ==
    [engine EXCEPT !.projection = IF engine.flag THEN GameJitter ELSE NoJitter]

\* update_jitter, up to the early return: who jitters, TAA, scale and viewport.
EnterJitter(dr, engine, surface, s, cam) ==
    LET owner == UpdateOwnership(dr.owner, s.upscaler, dr.jitter # NoJitter,
                                 cam.engine, dr.patched)
        taa == UpdateTaa([dr EXCEPT !.owner = owner,
                                    !.projection = engine.projection],
                         engine, s.upscaler)
        ready == EvaluationReady(dr, s, cam)
        scale == ScaleOf(surface, ready)
    IN  [dr |-> [taa.dr EXCEPT !.scale = scale, !.last = scale,
                               !.active = ready],
         engine |-> Scaled(dr, taa.engine, surface, s, ready),
         ready |-> ready]

\* update_jitter, the rest: the sample of the frame goes to the projection.
WriteJitter(dr, engine, s, frame) ==
    LET sample == IF s.jitter THEN (frame % Samples) + 1 ELSE NoJitter
    IN  [dr |-> [dr EXCEPT !.jitter = sample],
         engine |-> [engine EXCEPT !.projection = sample]]

DropJitter(dr) == [dr EXCEPT !.jitter = NoJitter]

\* update_jitter_thunk.
UpdateJitter(dr, engine, surface, s, cam, frame) ==
    LET world == GameJitterUpdate(EnableTaaForWorld(dr, engine, s.upscaler))
        entered == EnterJitter(dr, world, surface, s, cam)
    IN  IF entered.ready
        THEN WriteJitter(entered.dr, entered.engine, s, frame)
        ELSE [dr |-> DropJitter(entered.dr), engine |-> entered.engine]

\* What the matrices carry: Skyrim folds the offset in while its TAA flag is on,
\* or always once the gate is neutralised.
FoldedJitter(dr, engine) ==
    IF engine.flag \/ dr.patched THEN engine.projection ELSE NoJitter

-----------------------------------------------------------------------------
\* restore_full_resolution.
RestoreFullResolution(dr, engine) ==
    [engine EXCEPT !.projection = dr.projection, !.scale = "full",
                   !.previous = "full", !.lock = 1, !.viewport = "output"]

\* begin_full_resolution_ui and end_full_resolution_ui.
BeginFullUi(dr, engine, surface) ==
    [dr |-> [dr EXCEPT !.ui = TRUE, !.uiFailed = FALSE, !.uiDeclined = FALSE],
     engine |-> IF surface = "sub_rect" THEN RestoreFullResolution(dr, engine)
                ELSE [engine EXCEPT !.viewport = "output"]]

UiEndOutput(surface) == "output"        \* the reduced surface is forgotten

UiEndExtent(surface) == IF surface = "complete" THEN "render" ELSE "output"

EndFullUi(dr, engine, surface) ==
    IF ~dr.ui THEN [dr |-> dr, engine |-> engine]
    ELSE [dr |-> [dr EXCEPT !.ui = FALSE],
          engine |-> [engine EXCEPT !.viewport = UiEndExtent(surface)]]

\* ui_target_redirection_failed, the member function.
RedirectionFailed(dr) == dr.uiFailed \/ dr.uiDeclined

\* shutdown: what was saved goes back; the ownership, the decline and the hooks
\* stay.
ShutdownResolution(dr, engine) ==
    [dr |-> [dr EXCEPT !.scale = "full", !.last = "full", !.jitter = NoJitter,
                       !.active = FALSE, !.menu = FALSE, !.captured = FALSE,
                       !.projection = NoJitter, !.ui = FALSE,
                       !.uiFailed = FALSE],
     engine |-> [engine EXCEPT
                    !.dynamic = dr.savedDynamic, !.setting = dr.savedSetting,
                    !.flag = IF dr.captured /\ engine.readable
                             THEN dr.savedFlag ELSE @,
                    !.scale = "full", !.previous = "full",
                    !.lock = dr.savedLock]]
=============================================================================
