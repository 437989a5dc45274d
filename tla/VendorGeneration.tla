-------------------------- MODULE VendorGeneration --------------------------
(***************************************************************************)
(* A session whose frames are generated by XeSS-FG or FSR, translated from *)
(* src/render/XessFrameGeneration.cpp, FsrFrameGeneration.cpp, and the     *)
(* callers that install, enable, disable and reset them: the present loop  *)
(* and the swap-chain mutations of PresentationBridge.cpp, pre_reset and   *)
(* post_reset of RendererRuntime.cpp, and the rebuilding of the shared     *)
(* textures in SharedResources.cpp.                                        *)
(*                                                                         *)
(* The generators are those of VendorGenerators.                           *)
(*                                                                         *)
(* There is one switch, set_enabled, and four parties that turn it off for *)
(* a while and on again, each with a flag of its own: the present loop     *)
(* (gate), a display mutation (the gate again), a device reset             *)
(* (reset_hold) and a rebuild of the shared textures (rebuild_hold).  None *)
(* looks at the flags of the others.                                       *)
(*                                                                         *)
(* The two are fed at different times: FSR records a frame into the command *)
(* list before the gate and the installation are looked at, XeSS-FG tags it *)
(* after.  Deciding what a frame looks like and pacing are choices of the  *)
(* step that asks for them.                                                *)
(***************************************************************************)
EXTENDS VendorGenerators

VARIABLES
    gen,            \* the generator this session selected
    bridge,         \* who owns the swap chain
    gate,           \* vendor_generation_gate
    reset_hold,     \* vendor_generation_suspended_
    rebuild_hold,   \* vendor_suspended_for_rebuild
    shared,         \* SharedResources::ready()
    wanted,         \* frames to interpolate, in the settings
    scene,          \* the depth convention measured, and the display
    phase,          \* where the render thread is
    index,          \* back buffer of the frame, 0 outside one
    open,           \* native_frame_open_
    fed             \* history: the frame was submitted to the end

holds == <<gate, reset_hold, rebuild_hold>>

frame == <<phase, index, open, fed>>

outside == <<wanted, scene>>

vars == <<gen, bridge, holds, shared, outside, frame>>

Phases == {"game", "recorded", "presenting", "resizing", "exited"}

\* What a generator is installed for.
World == [depth |-> scene.depth, display |-> scene.display,
          frames |-> wanted, shared |-> shared]

-----------------------------------------------------------------------------
Init ==
    /\ \E v \in Vendors : gen = NewGenerator(v)
    /\ \E n \in BufferCounts : bridge = NewBridge(n)
    /\ gate = TRUE
    /\ reset_hold = FALSE
    /\ rebuild_hold = FALSE
    /\ shared = FALSE
    /\ wanted = 1
    /\ scene = [depth |-> "unknown", display |-> 1]
    /\ phase = "game"
    /\ index = 0
    /\ open = FALSE
    /\ fed = FALSE

(***************************************************************************)
(* Between two presents.                                                   *)
(***************************************************************************)
Callback == phase \in {"game", "exited"}

\* The frame of a simulation step that was dropped is still open, and then
\* the next has no latency frame of its own.
BeginFrame ==
    /\ phase = "game"
    /\ ~open
    /\ open' = TRUE
    /\ gen' = BeginLatencyFrame(gen)
    /\ UNCHANGED <<bridge, holds, shared, outside, phase, index, fed>>

\* By the plugin menu, or on disk, where end_frame finds them and resets the
\* history.
ChangeSettings ==
    /\ phase = "game"
    /\ wanted' \in 1 .. MaxInterpolated + 1
    /\ gen' \in {gen} \cup (IF Owns(gen) THEN {ResetHistory(gen)} ELSE {})
    /\ UNCHANGED <<bridge, holds, shared, scene, frame>>

\* The camera is measured, and not always to the same result.
MeasureDepth ==
    /\ phase = "game"
    /\ \E d \in Depths : scene' = [scene EXCEPT !.depth = d]
    /\ UNCHANGED <<gen, bridge, holds, shared, wanted, frame>>

\* reset_all_history
ResetAllHistory ==
    /\ phase = "game"
    /\ Owns(gen)
    /\ gen' = ResetHistory(gen)
    /\ UNCHANGED <<bridge, holds, shared, outside, frame>>

ResumeOutcomes(g) == SetEnabled(ResetHistory(g), TRUE)

\* A slip the properties have to notice: the rebuilt textures restore only
\* the history.
InitializeSharedHistoryOnly ==
    /\ phase = "game"
    /\ ~shared
    /\ shared' = TRUE
    /\ rebuild_hold' = FALSE
    /\ gen' = IF rebuild_hold THEN ResetHistory(gen) ELSE gen
    /\ UNCHANGED <<bridge, gate, reset_hold, outside, frame>>

\* SharedResources::initialize, at its end.
InitializeShared ==
    /\ phase = "game"
    /\ ~shared
    /\ shared' = TRUE
    /\ rebuild_hold' = FALSE
    /\ gen' \in IF rebuild_hold THEN ResumeOutcomes(gen) ELSE {gen}
    /\ UNCHANGED <<bridge, gate, reset_hold, outside, frame>>

Suspended(g, first) ==
    IF first /\ Owns(g) THEN SetEnabled(g, FALSE) ELSE {g}

\* suspend_vendor_generation_for_rebuild, and the textures are gone.
TearDownFrom(gens) ==
    /\ shared' = FALSE
    /\ rebuild_hold' = (rebuild_hold \/ Owns(gen))
    /\ gen' \in UNION {Suspended(g, ~rebuild_hold) : g \in gens}

\* A source no longer matches the shared textures.
ShutdownShared ==
    /\ phase = "game"
    /\ shared
    /\ TearDownFrom({gen})
    /\ UNCHANGED <<bridge, gate, reset_hold, outside, frame>>

\* pre_reset and post_reset
SuspendForReset ==
    /\ reset_hold' = (reset_hold \/ Owns(gen))
    /\ TearDownFrom(Suspended(gen, TRUE))
    /\ open' = FALSE

ResumeAfterReset(g) == IF reset_hold THEN ResumeOutcomes(g) ELSE {g}

PreReset ==
    /\ Callback
    /\ SuspendForReset
    /\ UNCHANGED <<bridge, gate, outside, phase, index, fed>>

PostReset ==
    /\ Callback
    /\ reset_hold' = FALSE
    /\ gen' \in ResumeAfterReset(gen)
    /\ UNCHANGED <<bridge, gate, rebuild_hold, shared, outside, frame>>

\* The ENB exit callback: the renderer, then the bridge and its generator.
Exit ==
    /\ Callback
    /\ phase' = "exited"
    /\ shared' = FALSE
    /\ rebuild_hold' = (rebuild_hold \/ Owns(gen))
    /\ \E g \in Suspended(gen, ~rebuild_hold), r \in ReleaseOutcomes(bridge) :
          /\ gen' = ShutdownGenerator(g)
          /\ bridge' = r.bridge
    /\ UNCHANGED <<gate, reset_hold, outside, index, open, fed>>

-----------------------------------------------------------------------------
(***************************************************************************)
(* Swap-chain mutations, which use the chain without looking whether there *)
(* is one: without it the process ends, and so does the model.             *)
(***************************************************************************)
ResizeBuffers ==
    /\ phase = "game"
    /\ phase' = "resizing"
    /\ SuspendForReset
    /\ UNCHANGED <<bridge, gate, outside, index, fed>>

\* The display has another size or format when the resize was granted.
FinishResize ==
    /\ phase = "resizing"
    /\ bridge.chain # "none"
    /\ phase' = "game"
    /\ \E r \in ResizeOutcomes(bridge) :
          /\ bridge' = r.bridge
          /\ scene' \in IF r.ok
                        THEN {[scene EXCEPT !.display = d] : d \in 1 .. 2}
                        ELSE {scene}
    /\ reset_hold' = FALSE
    /\ gen' \in ResumeAfterReset(gen)
    /\ UNCHANGED <<gate, rebuild_hold, shared, wanted, index, open, fed>>

\* SetFullscreenState and ResizeTarget, with the generator suspended around
\* the mutation, whether it succeeds or not.
SwitchTarget ==
    /\ phase = "game"
    /\ bridge.chain # "none"
    /\ Owns(gen)
    /\ \E g \in SetEnabled(gen, FALSE) : gen' \in ResumeOutcomes(g)
    /\ gate' = TRUE
    /\ UNCHANGED <<bridge, reset_hold, rebuild_hold, shared, outside, frame>>

-----------------------------------------------------------------------------
(***************************************************************************)
(* present(): the recording of the copy, the gate and the installation,    *)
(* and Present.  The retry with which present() begins when there is no    *)
(* chain does not appear: the frame that loses the chain also presents     *)
(* through it, and the process ends before there is another.               *)
(***************************************************************************)

\* The frame is dropped when the back buffer is not among those tracked.
TrackedBuffers(b) == 1 .. b.buffers

\* end_frame, and the recording: fed tells what becomes of the frame.
Record ==
    /\ phase = "game"
    /\ bridge.chain # "none"
    /\ phase' = "recorded"
    /\ open' = FALSE
    /\ index' \in TrackedBuffers(bridge)
    /\ \E s \in IF gen.vendor = "fsr" THEN SubmitOutcomes(gen)
              ELSE {Submitted(gen, FALSE)} :
          /\ gen' = s.gen
          /\ fed' = s.ok
    /\ UNCHANGED <<bridge, holds, shared, outside>>

\* The command list does not close, or does not reach the queue.
DropFrame ==
    /\ phase = "recorded"
    /\ phase' = "game"
    /\ index' = 0
    /\ fed' = FALSE
    /\ UNCHANGED <<gen, bridge, holds, shared, outside, open>>

\* XeSS-FG is given the frame limit, with or without low latency.
Limited(g) ==
    IF g.vendor = "fsr" THEN {g}
    ELSE UNION {SleepOutcomes(g, low) : low \in BOOLEAN}

\* A change of the gate switches the generator, and only a change does.
PassGate(g, on) ==
    IF on = gate THEN {g}
    ELSE IF on THEN {ResetHistory(s) : s \in SetEnabled(g, TRUE)}
    ELSE SetEnabled(g, FALSE)

\* The gate follows the setting, the plugin menu, the pause and the UI of the
\* frame, which are all read here.
Generate ==
    /\ phase = "recorded"
    /\ phase' = "presenting"
    /\ gate' \in BOOLEAN
    /\ \E o \in InstallIfReady(gen, bridge, World) :
          /\ bridge' = o.bridge
          /\ \E l \in Limited(o.gen) : \E g \in PassGate(l, gate') :
               IF g.vendor = "fsr" THEN gen' = g /\ fed' = fed
               ELSE \E s \in SubmitOutcomes(g) : gen' = s.gen /\ fed' = s.ok
    /\ UNCHANGED <<reset_hold, rebuild_hold, shared, outside, index, open>>

Present ==
    /\ phase = "presenting"
    /\ bridge.chain # "none"
    /\ phase' = "game"
    /\ index' = 0
    /\ fed' = FALSE
    /\ UNCHANGED <<gen, bridge, holds, shared, outside, open>>

-----------------------------------------------------------------------------
Next ==
    \/ BeginFrame
    \/ ChangeSettings
    \/ MeasureDepth
    \/ ResetAllHistory
    \/ InitializeShared
    \/ ShutdownShared
    \/ PreReset
    \/ PostReset
    \/ Exit
    \/ ResizeBuffers
    \/ FinishResize
    \/ SwitchTarget
    \/ Record
    \/ DropFrame
    \/ Generate
    \/ Present

Spec == Init /\ [][Next]_vars

-----------------------------------------------------------------------------
(***************************************************************************)
(* Properties.                                                             *)
(***************************************************************************)

\* Every part of the state ranges over its type.
TypeOK ==
    /\ gen \in [vendor : Vendors, status : Statuses, enabled : BOOLEAN,
                reset : BOOLEAN, context : BOOLEAN, live : BOOLEAN,
                frames : 0 .. MaxInterpolated, stale : BOOLEAN,
                made : [depth : Depths, display : 1 .. 2] \cup {Unmade},
                xell : SleepModes, ahead : BOOLEAN, owed : BOOLEAN,
                refused : BOOLEAN, twice : BOOLEAN]
    /\ bridge \in Bridges
    /\ {gate, reset_hold, rebuild_hold, shared, open, fed}
          \subseteq BOOLEAN
    /\ wanted \in 1 .. MaxInterpolated + 1
    /\ scene \in [depth : Depths \cup {"unknown"}, display : 1 .. 2]
    /\ phase \in Phases
    /\ index \in {0} \cup UNION {1 .. n : n \in BufferCounts}

\* The generator is installed exactly while its chain is the one presented
\* through, and the window of a handoff is remembered exactly while the
\* bridge has no chain of its own: whichever step of an installation, a
\* reinstallation or an exit failed, neither is left without the other, what
\* is lost can be made again, and nothing is restored twice.
ChainMatchesGenerator ==
    /\ bridge.chain = "vendor" <=> Owns(gen)
    /\ bridge.window <=> bridge.chain # "own"

\* The switch is never left off with nobody to turn it on: some party that
\* turned it off still remembers, and the one that remembers a rebuild has
\* the end of the rebuild to come.
NeverStranded ==
    /\ ~gen.enabled => ~gate \/ reset_hold \/ rebuild_hold
    /\ rebuild_hold => ~shared

\* Interpolation never continues over a break: an enabled generator that
\* has not seen a reset since the history broke has one pending.
HistoryResetPending ==
    Owns(gen) /\ gen.enabled /\ gen.owed => gen.reset

\* The runtime generates only for a switch that is on, wherever it was
\* installed, switched or told; and FSR, which is configured before a frame
\* is known to be whole, never goes to Present configured for one that is
\* not.  Only a refusal of the runtime to be stopped excuses it.
WholeFramesGenerated ==
    gen.live /\ ~gen.refused =>
        /\ gen.enabled
        /\ gen.vendor = "fsr" /\ phase = "presenting" => fed

\* The latency context never sleeps without low latency under XeSS-FG, which
\* needs it; and no two frames are tagged under one id, although frames are
\* dropped with their latency frame still open.
LatencyServesGenerator == gen.xell # "high" /\ ~gen.twice

-----------------------------------------------------------------------------
(***************************************************************************)
(* What a message of the code says, and the code does not keep.            *)
(***************************************************************************)

\* "The frame was dropped rather than written out of bounds": a frame that
\* reaches Present has a chain, and its back buffer is tracked.
PresentHasBuffer ==
    phase = "presenting" => bridge.chain # "none" /\ index <= bridge.buffers
=============================================================================
