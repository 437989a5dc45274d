--------------------------- MODULE CameraCapture ---------------------------
(***************************************************************************)
(* What the plugin knows of the game's camera and of the jitter the game's *)
(* matrices carry, translated from src/render/CameraData.cpp and the       *)
(* contracts JitterContract.hpp and JitterOwnership.hpp: one operator per  *)
(* function over a capture record, without variables.                      *)
(*                                                                         *)
(* A jitter is NoJitter, GameJitter (the offset Skyrim's own TAA chose) or *)
(* the number of a sample of the plugin's sequence.  A camera is what a    *)
(* write to the frame constant buffer holds: whether it is a perspective   *)
(* camera, the jitter in its projection, whether that can be located by    *)
(* comparing its two projections, and what its previous matrices allow.    *)
(* Matrices themselves are left out.                                       *)
(***************************************************************************)
EXTENDS Integers

CONSTANT
    SplitProbeFrames        \* kSplitProbeFrames

ASSUME ProbeAssumption == SplitProbeFrames \in Nat \ {0}

NoJitter == 0
GameJitter == -1

\* The previous camera: usable, absent, singular, or the current one is broken.
Histories == {"usable", "unavailable", "degenerate", "broken"}

NoCamera == [perspective |-> FALSE, jitter |-> NoJitter, located |-> TRUE,
             history |-> "broken"]

NoReport == [jitter |-> NoJitter, coherent |-> FALSE]

\* The hooks' state.  fresh: frame_jitter_sequence is the sequence of the last
\* write, so the frame's snapshot still stands.
NewCapture == [enabled |-> FALSE, frozen |-> FALSE, valid |-> FALSE,
               frame |-> NoCamera, fresh |-> FALSE, source |-> "requested",
               snapshot |-> NoReport, engine |-> FALSE]

\* CameraData::install: a capture that was shut down is switched on again.
Install(c) == [c EXCEPT !.enabled = TRUE]

\* CameraData::shutdown.  The cached frame and the freeze are kept.
ShutdownCapture(c) ==
    [c EXCEPT !.enabled = FALSE, !.valid = FALSE, !.fresh = FALSE,
              !.source = "requested", !.snapshot = NoReport, !.engine = FALSE]

\* unmap_hook: only a perspective camera written before the scene is final is
\* kept, and any write makes the capture valid and the snapshot old, which is the end
\* of it: an old snapshot is not read.
AcceptsLate(c, camera) == camera.perspective        \* a slip: no freeze

AcceptsAny(c, camera) == ~c.frozen                  \* a slip: any projection

Accepts(c, camera) == ~c.frozen /\ camera.perspective

WriteCamera(c, camera) ==
    IF ~c.enabled THEN c
    ELSE [c EXCEPT !.frame = IF Accepts(c, camera) THEN camera ELSE @,
                   !.valid = TRUE, !.fresh = FALSE, !.snapshot = NoReport]

\* set_capture_frozen.
Freeze(c, on) == [c EXCEPT !.frozen = on]

\* temporal_inputs_valid: the hooks saw a write and the planes make sense.
TemporalInputsValid(c, planes) == c.valid /\ planes

-----------------------------------------------------------------------------
\* locate_applied_jitter and reported_jitter_for.
MeasuredJitter(camera) ==
    IF camera.located THEN [jitter |-> camera.jitter, coherent |-> TRUE]
                      ELSE NoReport

\* measure_and_report_jitter: who jitters is learnt on the way.
EngineApplies(camera) == camera.located /\ camera.jitter # NoJitter

\* select_reported_jitter: the user may choose to report the request.
SelectReported(source, requested, measured) ==
    IF source = "requested" THEN [jitter |-> requested, coherent |-> TRUE]
                            ELSE measured

\* CameraData::frame_jitter: measured once per write and source, then repeated.
FrameJitter(c, source, requested) ==
    IF c.fresh /\ c.source = source THEN c
    ELSE [c EXCEPT !.snapshot = SelectReported(source, requested,
                                               MeasuredJitter(c.frame)),
                   !.engine = EngineApplies(c.frame),
                   !.fresh = TRUE, !.source = source]

\* camera_reprojection_without_history.
WithoutHistory == [ok |-> TRUE, history |-> FALSE]

\* build_camera_reprojection: a previous camera of zeroes is an absent one, the
\* others that cannot be inverted fail.
Reprojection(camera) ==
    IF camera.history = "unavailable" THEN WithoutHistory
    ELSE [ok |-> camera.history = "usable", history |-> TRUE]

\* The part of build_constants that keeps a frame whose previous camera is
\* singular: nothing in it is refused but its history.
Substituted(camera) ==
    IF camera.history = "degenerate" THEN WithoutHistory
                                     ELSE Reprojection(camera)

\* build_constants: refused, or the jitter and whether history is reset.
ConstantsRefused(c, planes) ==
    ~TemporalInputsValid(c, planes) \/ ~Substituted(c.frame).ok

HistoryReset(camera) == ~Substituted(camera).history

BuildConstants(c, planes, reset, source, requested) ==
    IF ConstantsRefused(c, planes)
    THEN [capture |-> c, ok |-> FALSE, report |-> NoReport, reset |-> FALSE]
    ELSE LET read == FrameJitter(c, source, requested)
         IN  [capture |-> read, ok |-> TRUE, report |-> read.snapshot,
              reset |-> reset \/ HistoryReset(c.frame)]

-----------------------------------------------------------------------------
\* JitterOwnershipState.
NewOwnership == [requested |-> FALSE, engine |-> FALSE, probe |-> 0,
                 abandoned |-> FALSE]

ProbeExhausted(o) == o.probe >= SplitProbeFrames

\* select_temporal_aa_policy.
TemporalAaPolicy(o, upscaler) ==
    CASE ~upscaler -> "restore_user_setting"
      [] upscaler /\ o.abandoned -> "fully_disabled"
      [] upscaler /\ ~o.abandoned /\ ~o.engine /\ ProbeExhausted(o)
            -> "fully_disabled"
      [] OTHER -> "engine_jitter_without_resolve"

\* The part of update_jitter that keeps the probe: it starts again when the
\* engine jitters, and ends for good after SplitProbeFrames without.
UpdateOwnership(o, upscaler, requested, engine, patched) ==
    LET read == [o EXCEPT !.requested = requested, !.engine = engine]
    IN  IF engine THEN [read EXCEPT !.probe = 0]
        ELSE IF upscaler /\ requested /\ ~patched /\ ~o.abandoned
        THEN [read EXCEPT !.probe = @ + 1,
                          !.abandoned = o.probe + 1 >= SplitProbeFrames]
        ELSE read
=============================================================================
