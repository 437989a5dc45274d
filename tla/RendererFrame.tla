--------------------------- MODULE RendererFrame ---------------------------
(***************************************************************************)
(* The frame loop of an NVIDIA session: PresentationBridge::State::present *)
(* and its swap-chain mutations, RendererRuntime's begin_frame, end_frame, *)
(* pre_reset and resize, and the ENB and game callbacks that reach them,   *)
(* composed from the controller of FrameGeneration and the frame of        *)
(* FrameSubmission.  All of it runs on the render thread; what is          *)
(* interleaved are whole handlers, in the order the game, ENB, the user    *)
(* and a failing GPU choose.                                               *)
(*                                                                         *)
(* present() is four steps, so that a property can look at the state       *)
(* between them: Judge (its UI judgement), EndFrame... (end_frame), Submit *)
(* (from the recording of the copy to present_start) or DropFrame (one of  *)
(* its early returns), and Present.  A swap-chain mutation is two: the     *)
(* preparation, and the mutation with what follows it.                     *)
(*                                                                         *)
(* SharedResources is the pair shared (the textures exist) and captured    *)
(* (this frame's HUD-less colour is in them).  Everything else a frame     *)
(* depends on, the UI layer, the camera and Streamline's answers, is a     *)
(* choice of the step that reads it.                                       *)
(***************************************************************************)
EXTENDS FrameSubmission

CONSTANTS
    GuardedFrames, ForcedFrames, GraceFrames,
    MaxMultiplier,
    Contracts, NoContract

\* As FrameGeneration and the recovery policy assume them.
ASSUME ThresholdsAssumption ==
    /\ GuardedFrames \in Nat \ {0}
    /\ ForcedFrames \in Nat \ {0}
    /\ GraceFrames \in Nat
ASSUME MultipliersAssumption == MaxMultiplier \in Nat /\ MaxMultiplier >= 2
ASSUME ContractsAssumption == NoContract \notin Contracts

VARIABLES
    fg,         \* streamline::FrameGeneration
    sub,        \* streamline::FrameSubmission
    shared,     \* SharedResources::ready()
    captured,   \* frame_generation_hudless_captured_
    settings,   \* the [FrameGeneration] settings in force
    halted,     \* the plugin menu is open or the game is paused
    adapter,    \* the renderer adapter and the kind of its surface
    phase,      \* where the render thread is
    verdict     \* what present() judged of the frame

vars == <<fg, sub, shared, captured, settings, halted, adapter, phase, verdict>>

FG == INSTANCE FrameGeneration

Settings == [generate : BOOLEAN, multiplier : FG!Selectable]

Adapters == [vanilla : BOOLEAN, virtual : BOOLEAN]

Phases == {"game", "judged", "ended", "submitted", "resizing", "switching",
           "exited"}

Verdicts == {"none", "healthy", "unhealthy", "refused"}

Init ==
    /\ fg = FG!NewController
    /\ sub = NewSubmission
    /\ shared = FALSE
    /\ captured = FALSE
    /\ settings \in Settings
    /\ halted = FALSE
    /\ adapter \in Adapters
    /\ phase = "game"
    /\ verdict = "none"

-----------------------------------------------------------------------------
(***************************************************************************)
(* RendererRuntime::initialize and shutdown.  ENB may shut the renderer    *)
(* down and initialize it again, but its exit also ends the presentation   *)
(* bridge, which nothing creates again: after it only ENB's callbacks are  *)
(* left.  A failed initialization of the controller leaves the latency     *)
(* markers, and their frames, working.                                     *)
(***************************************************************************)
CallbackPossible == phase \in {"game", "exited"}

Initialize ==
    /\ CallbackPossible
    /\ ~fg.ready
    /\ \E o \in FG!InitializeOutcomes(fg), timing \in BOOLEAN :
        /\ fg' = o.fg
        /\ sub' = IF o.ok THEN InitializeTiming(sub, FALSE)
                  ELSE IF timing
                       THEN InitializeTiming(ShutdownSubmission(sub), FALSE)
                       ELSE ShutdownSubmission(sub)
    /\ UNCHANGED <<shared, captured, settings, halted, adapter, phase, verdict>>

Exit ==
    /\ CallbackPossible
    /\ ~adapter.vanilla
    /\ phase' = "exited"
    /\ fg' = FG!ShutdownOf(fg)
    /\ sub' = ShutdownSubmission(sub)
    /\ shared' = FALSE
    /\ captured' = FALSE
    /\ UNCHANGED <<settings, halted, adapter, verdict>>

-----------------------------------------------------------------------------
(***************************************************************************)
(* Between two presents.                                                   *)
(***************************************************************************)

\* RendererRuntime::begin_frame.  A frame that is already open (or, without
\* Streamline features, was already begun) leaves the captures alone.
BeginRuntimeFrame(s) ==
    \E o \in BeginSubmissionOutcomes(s) :
        /\ sub' = o.sub
        /\ IF fg.ready THEN captured' = (captured /\ ~o.ok)
           ELSE captured' \in {captured, FALSE}

\* The ENB callback; the vanilla adapter begins frames after present and
\* resize.
BeginFrame ==
    /\ CallbackPossible
    /\ ~adapter.vanilla
    /\ BeginRuntimeFrame(sub)
    /\ UNCHANGED <<fg, shared, settings, halted, adapter, phase, verdict>>

\* capture_hudless: the textures are created when they are missing, and are
\* torn down when the source no longer matches them.
CaptureHudless ==
    /\ phase = "game"
    /\ \E o \in {<<TRUE, TRUE>>, <<FALSE, FALSE>>} :
        shared' = o[1] /\ captured' = o[2]
    /\ UNCHANGED <<fg, sub, settings, halted, adapter, phase, verdict>>

\* The plugin menu, which draws after end_frame, or a hot key.
ChangeSettings ==
    /\ phase = "game"
    /\ settings' \in Settings \ {settings}
    /\ UNCHANGED <<fg, sub, shared, captured, halted, adapter, phase, verdict>>

\* The menu opens or closes, or the game pauses or resumes.
ToggleHalt ==
    /\ phase = "game"
    /\ halted' = ~halted
    /\ UNCHANGED <<fg, sub, shared, captured, settings, adapter, phase, verdict>>

\* reset_all_history, after a save was loaded.
ResetAllHistory ==
    /\ phase = "game"
    /\ fg.ready
    /\ sub' = RequestHistoryReset(sub)
    /\ UNCHANGED <<fg, shared, captured, settings, halted, adapter, phase,
                   verdict>>

\* pre_reset: the outcome of the suspension is ignored.
ResetRuntime(c) ==
    /\ \E o \in FG!SuspendForResetOutcomes(c) : fg' = o.fg
    /\ sub' = AbandonFrame(RequestHistoryReset(sub))
    /\ shared' = FALSE
    /\ captured' = FALSE

\* The ENB callback around a device reset.
PreReset ==
    /\ CallbackPossible
    /\ ~adapter.vanilla
    /\ ResetRuntime(fg)
    /\ UNCHANGED <<settings, halted, adapter, phase, verdict>>

-----------------------------------------------------------------------------
(***************************************************************************)
(* Swap-chain mutations.  Each first takes generation down, and is given   *)
(* up when that, or waiting for the GPU, fails.                            *)
(***************************************************************************)
ResizeBuffers ==
    /\ phase = "game"
    /\ \E o \in FG!SuspendForResetOutcomes(fg) :
        \/ /\ fg' = o.fg
           /\ UNCHANGED <<sub, shared, captured, phase>>
        \/ /\ o.ok
           /\ ResetRuntime(o.fg)
           /\ phase' = "resizing"
    /\ UNCHANGED <<settings, halted, adapter, verdict>>

\* After the mutation: the feature controllers are reconfigured and vanilla
\* begins a frame, unless a step before it fails.
FinishResize ==
    /\ phase = "resizing"
    /\ phase' = "game"
    /\ \E resized \in BOOLEAN, configured \in BOOLEAN :
        \E o \in {FG!Refuse(fg)} \cup FG!ReconfigureOutcomes(fg) :
            LET timed == IF o.ok THEN InitializeTiming(sub, resized) ELSE sub
            IN  /\ fg' = o.fg
                /\ IF adapter.vanilla /\ configured /\ (o.ok \/ ~fg.ready)
                   THEN BeginRuntimeFrame(timed)
                   ELSE sub' = timed /\ UNCHANGED captured
    /\ UNCHANGED <<shared, settings, halted, adapter, verdict>>

\* SetFullscreenState, and ResizeTarget of a native surface.
SwitchTarget ==
    /\ phase = "game"
    /\ \E o \in FG!SuspendForResetOutcomes(fg) :
        /\ fg' = o.fg
        /\ \/ UNCHANGED phase
           \/ o.ok /\ phase' = "switching"
    /\ UNCHANGED <<sub, shared, captured, settings, halted, adapter, verdict>>

FinishSwitch ==
    /\ phase = "switching"
    /\ phase' = "game"
    /\ UNCHANGED <<fg, sub, shared, captured, settings, halted, adapter, verdict>>

-----------------------------------------------------------------------------
(***************************************************************************)
(* present(), up to end_frame: the UI judgement.                           *)
(***************************************************************************)
JudgeHealthy ==
    /\ phase = "game"
    /\ phase' = "judged"
    /\ verdict' = "healthy"
    /\ fg' = IF adapter.virtual THEN FG!NotePresentationHealthy(fg) ELSE fg
    /\ UNCHANGED <<sub, shared, captured, settings, halted, adapter>>

JudgeUnhealthy ==
    /\ phase = "game"
    /\ phase' = "judged"
    /\ \E o \in FG!SuspendForUnhealthyOutcomes(fg) :
        /\ fg' = o.fg
        /\ verdict' = IF o.ok THEN "unhealthy" ELSE "refused"
    /\ UNCHANGED <<sub, shared, captured, settings, halted, adapter>>

-----------------------------------------------------------------------------
(***************************************************************************)
(* end_frame.  Settings changed on disk come into force first, and reset   *)
(* the history unless they need a restart.                                 *)
(***************************************************************************)
Reloads ==
    {[settings |-> settings, sub |-> sub]}
    \cup [settings : Settings, sub : {RequestHistoryReset(sub)}]
    \cup (IF adapter.virtual THEN [settings : Settings, sub : {sub}] ELSE {})

EndFrame == phase = "judged" /\ phase' = "ended"

EndFrameWithoutFeatures ==
    /\ EndFrame
    /\ ~fg.ready
    /\ \E r \in Reloads : settings' = r.settings /\ sub' = r.sub
    /\ UNCHANGED <<fg, shared, captured, halted, adapter, verdict>>

EndFrameOff ==
    /\ EndFrame
    /\ fg.ready
    /\ \E r \in Reloads :
        /\ settings' = r.settings
        /\ ~r.settings.generate
        /\ \E i \in SubmitInactiveOutcomes(r.sub) : sub' = i.sub
    /\ \E o \in FG!SuspendForResetOutcomes(fg) : fg' = o.fg
    /\ UNCHANGED <<shared, captured, halted, adapter, verdict>>

EndFrameHalted ==
    /\ EndFrame
    /\ fg.ready
    /\ halted
    /\ \E r \in Reloads :
        /\ settings' = r.settings
        /\ r.settings.generate
        /\ \E i \in SubmitInactiveOutcomes(r.sub) : sub' = i.sub
        /\ \E o \in FG!SuspendForGateOutcomes(fg, r.settings.multiplier) :
            fg' = o.fg
    /\ UNCHANGED <<shared, captured, halted, adapter, verdict>>

\* copy_frame fails: it may create the textures, whose HUD-less colour is
\* missing then, or tear them down because a source no longer matches them.
CopyFails ==
    \/ UNCHANGED <<shared, captured>>
    \/ ~shared /\ shared' = TRUE /\ UNCHANGED captured
    \/ shared' = FALSE /\ captured' = FALSE

\* A frame that could not be copied or submitted keeps the mode.
EndFrameIncomplete ==
    /\ EndFrame
    /\ fg.ready
    /\ ~halted
    /\ \E r \in Reloads :
        /\ settings' = r.settings
        /\ r.settings.generate
        /\ \/ /\ CopyFails
              /\ \E i \in SubmitInactiveOutcomes(r.sub) : sub' = i.sub
           \/ /\ captured
              /\ UNCHANGED <<shared, captured>>
              /\ \E s \in SubmitOutcomes(r.sub) :
                  /\ ~s.ok
                  /\ \E i \in SubmitInactiveOutcomes(s.sub) : sub' = i.sub
    /\ UNCHANGED <<fg, halted, adapter, verdict>>

\* What a complete frame makes of the controller: it leaves the gate, or
\* counts as healthy, may recover, and is configured as the settings say.
ConfigureOutcomes(m, k) ==
    IF FG!GateActive(fg.policy) THEN FG!ResumeFromGateOutcomes(fg, m, k)
    ELSE UNION {{[e EXCEPT !.reset = @ \/ r.reset]
                    : e \in FG!EnableOutcomes(r.fg, m, k)}
                : r \in FG!ResumeIfEligibleOutcomes(
                            FG!NotePresentationHealthy(fg), m, k)}

EndFrameComplete ==
    /\ EndFrame
    /\ fg.ready
    /\ ~halted
    /\ captured
    /\ \E r \in Reloads, k \in Contracts :
        /\ settings' = r.settings
        /\ r.settings.generate
        /\ \E s \in SubmitOutcomes(r.sub),
              o \in ConfigureOutcomes(r.settings.multiplier, k) :
            LET t == IF o.reset THEN RequestHistoryReset(s.sub) ELSE s.sub
            IN  /\ s.ok
                /\ IF o.ok THEN fg' = o.fg /\ sub' = t
                   ELSE /\ \E u \in FG!SuspendForUnhealthyOutcomes(o.fg) :
                            fg' = u.fg
                        /\ \E i \in SubmitInactiveOutcomes(t) : sub' = i.sub
    /\ UNCHANGED <<shared, captured, halted, adapter, verdict>>

-----------------------------------------------------------------------------
(***************************************************************************)
(* present(), from end_frame on.                                           *)
(***************************************************************************)

\* Any failure before the command list is executed: the frame stays open.
DropFrame ==
    /\ phase = "ended"
    /\ phase' = "game"
    /\ verdict' = "none"
    /\ UNCHANGED <<fg, sub, shared, captured, settings, halted, adapter>>

SubmitFrame ==
    /\ phase = "ended"
    /\ phase' = "submitted"
    /\ sub' = StartPresent(SubmitRendering(sub))
    /\ UNCHANGED <<fg, shared, captured, settings, halted, adapter, verdict>>

\* Vanilla begins the next frame here, unless Present, the completion signal
\* or the wait for it failed.
Present ==
    /\ phase = "submitted"
    /\ phase' = "game"
    /\ verdict' = "none"
    /\ \/ sub' = EndPresent(sub) /\ UNCHANGED captured
       \/ adapter.vanilla /\ BeginRuntimeFrame(EndPresent(sub))
    /\ UNCHANGED <<fg, shared, settings, halted, adapter>>

-----------------------------------------------------------------------------
Next ==
    \/ Initialize
    \/ Exit
    \/ BeginFrame
    \/ CaptureHudless
    \/ ChangeSettings
    \/ ToggleHalt
    \/ ResetAllHistory
    \/ PreReset
    \/ ResizeBuffers
    \/ FinishResize
    \/ SwitchTarget
    \/ FinishSwitch
    \/ JudgeHealthy
    \/ JudgeUnhealthy
    \/ EndFrameWithoutFeatures
    \/ EndFrameOff
    \/ EndFrameHalted
    \/ EndFrameIncomplete
    \/ EndFrameComplete
    \/ DropFrame
    \/ SubmitFrame
    \/ Present

Spec == Init /\ [][Next]_vars

-----------------------------------------------------------------------------
(***************************************************************************)
(* Properties.                                                             *)
(***************************************************************************)

\* Every part of the state ranges over its type; a frame never has more
\* markers than the pipeline has.
TypeOK ==
    /\ FG!TypeOK
    /\ sub \in [ready : BOOLEAN, open : BOOLEAN, prepared : BOOLEAN,
                simulation : BOOLEAN, constants : BOOLEAN, reset : BOOLEAN,
                tags : TagStates, marks : Seq(Markers), owed : BOOLEAN,
                carries : BOOLEAN]
    /\ Len(sub.marks) <= 6
    /\ shared \in BOOLEAN
    /\ captured \in BOOLEAN
    /\ settings \in Settings
    /\ halted \in BOOLEAN
    /\ adapter \in Adapters
    /\ phase \in Phases
    /\ verdict \in Verdicts

\* The swap chain is only mutated while the runtime neither generates nor
\* holds resources, whatever was refused, rolled back or resumed before: a
\* preparation that answers success has really released everything.
SwapChainReleased ==
    phase \in {"resizing", "switching"} => ~fg.on /\ ~fg.held

\* A reset of the history is never lost: until a frame that is presented
\* with this plugin's inputs has told the runtime, it is pending or in the
\* constants of the open frame.  Dropped and abandoned frames, refused tags
\* and frames without a token are what could lose it.
ResetNotLost ==
    sub.owed => sub.reset \/ (sub.open /\ sub.constants /\ sub.carries)

\* The latency markers of a frame are set in pipeline order and none twice,
\* also when begin_frame is repeated, a token is acquired late, or a frame
\* was dropped and is presented by a later call.
MarkersInOrder ==
    \A i, j \in DOMAIN sub.marks : i < j => sub.marks[i] < sub.marks[j]

\* A frame that reaches Present with this plugin's inputs has constants, and
\* the textures it names exist and hold a capture.  While generation is off
\* or halted no frame has them, not even one that was dropped before the menu
\* opened.
PresentedInputsAlive ==
    /\ phase = "submitted" /\ sub.tags = "active" =>
           sub.constants /\ shared /\ captured
    /\ phase \in {"ended", "submitted"} /\ fg.ready /\ sub.tags = "active" =>
           ~halted /\ settings.generate

-----------------------------------------------------------------------------
(***************************************************************************)
(* Recovery.  Nothing obliges the game to draw complete frames, the user   *)
(* to leave generation on or to choose another multiplier, or the GPU to   *)
(* accept them.  But where complete frames keep being possible under the   *)
(* settings in force, they are not avoided for ever, and a runtime that    *)
(* keeps being asked for a multiplier it supports does not refuse for      *)
(* ever.  Fairness is of frames at which no settings are reloaded, so it   *)
(* never makes anybody edit them.                                          *)
(***************************************************************************)
Completable ==
    /\ phase = "judged"
    /\ fg.ready
    /\ settings.generate
    /\ ~halted
    /\ captured
    /\ sub.open

Supported == settings.multiplier <= MaxMultiplier

CompleteFrame ==
    /\ settings' = settings
    /\ EndFrameComplete
    /\ sub'.tags = "active"

ResumingFrame == CompleteFrame /\ ~FG!Suspended(fg'.policy)

FairSpec == Spec /\ SF_vars(CompleteFrame) /\ SF_vars(ResumingFrame)

\* From some time on the settings keep to multipliers that the driver
\* supports, and are edited between frames (in the menu, by a hot key), not
\* by a reload of the file in the very frame that would resume.
SettingsSettle ==
    /\ <>[]Supported
    /\ <>[][EndFrame => settings' = settings]_vars

\* No suspension is permanent: as long as complete frames keep occurring and
\* the settings settle on multipliers that the driver supports, generation is
\* released from its gate or guarded suspension again and again, even if
\* present() judges every single frame unhealthy, the user opens menus or
\* turns generation off and on in between, and the renderer is reset.
\* Without a supported multiplier nothing of the kind is promised: enable
\* says that generation stays off until one is selected.
SuspensionEnds ==
    []<>Completable /\ SettingsSettle => []<>~FG!Suspended(fg.policy)
=============================================================================
