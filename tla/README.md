# UFGU in TLA+

UFGU is an SKSE plugin that puts a frame generator and an upscaler between
Skyrim's Direct3D 11 renderer and the screen. It moves every finished frame to
Direct3D 12, hands it to one of three generators (NVIDIA DLSS-G through
Streamline, Intel XeSS-FG, AMD FSR), and has to survive menus, pauses, device
resets, resizes, refused calls and runtimes that fail half way. This directory
holds the models of that machinery, the TLC runs that check them and the proofs
about the most central one. `PROJECT.json` maps every definition to its source
lines.

## 1. Inventory

Everything runs in the game's process. The render thread calls nearly all of
the code, from three places: the game's Present (through the swap-chain proxy),
ENB's callbacks (begin frame, resets, exit), and hooks into the game's own
drawing. The GPU works asynchronously, and that is the real concurrency; the
rest is the interleaving of whole handlers in an order nobody controls.

| Component (source) | State | Operations | What makes it correct |
|---|---|---|---|
| DLSS-G controller (`streamline/FrameGeneration`) | multiplier, contract, retained resources, suspension | initialize, enable, suspend (3 kinds), resume (2 kinds), reconfigure, shutdown | believes of the runtime what is true of it; suspensions are served and end |
| Recovery policy (`FrameGenerationRecoveryPolicy`) | cause, counters, eligibility | gate, failure, healthy report | a menu never shortens a guarded suspension; the watchdog ends it |
| Frame submission (`streamline/FrameSubmission`) | token, constants, tags, markers, pending reset | begin, submit, inactive tags, markers, present end | no reset of the history is lost; markers in order; no dead texture is tagged |
| Renderer runtime (`render/RendererRuntime`) | readiness, vendor hold of a reset | begin/end frame, pre/post reset, resize | calls the others in an order they survive |
| Presentation bridge (`render/PresentationBridge`) | swap chain, fence, allocators, vendor gate | present, resize, fullscreen, handoff | nothing is reused that the GPU still uses; a lost chain can be made again |
| XeSS-FG, FSR (`render/XessFrameGeneration`, `FsrFrameGeneration`) | status, switch, pending reset | install, submit, switch, shutdown | the chain and the generator agree; somebody always switches it on again |
| Shared resources (`render/SharedResources`) | textures, fence, captures, retry, hold of a rebuild | initialize, capture, copy, synchronize, shutdown | readers find textures that exist and hold their frame; nothing goes while the GPU uses it |
| Settings (`config/Settings`) | values, time stamp of the file | load, reload, set and persist, commit a pair, stage | file and memory agree, whoever else writes the file; a pair is whole |
| Profile change, overlay (`render/ProfileChangeController`, `StatusOverlay`) | staged profile, outcome | stage, preflight, apply, roll back | a failed apply restores what was there |
| Upscaling (`render/UpscalingPass`, `streamline/SuperResolution`, `providers/*Upscaler`) | contract, feature, contexts, who evaluates, recovery | evaluate, fall back, switch, recover, reset | contract, feature, selection and evaluator agree; no frame from a history with a gap |
| Dynamic resolution, jitter, camera (`render/DynamicResolution`, `CameraData`, `Jitter*`) | extents, scale, flag, settings, sample, owner; cached camera, report | the hooks on Skyrim's resolution, jitter, UI and context; capture, freeze, report | all consumers of a frame have the jitter and the extent it was drawn with; what was changed is given back |
| UI layer and its passes (`render/UiCompositePass`, `ScaleformBoundary`, part of `SharedResources`) | layer, who draws, what was classified, for which texture, how long ago | begin, end, composite, extract, validate | a lost layer is not healthy; what is drawn fits; a verdict is about this texture |
| Menu and pacing (`render/StatusOverlay`, `FramePacingRules`, `OutputCapControls`; Reflex in `streamline/FrameGeneration`) | rows and edits; mode, limit and multiplier given to Reflex | adjust, type, apply, reload | Reflex paces by what is configured; caps are valid |
| Session (`plugin/Plugin`, `enb/EnbApi`, `render/D3D12Backend`, `streamline/StreamlineApi`, `FeatureSupport`, `providers/RuntimeLoader`, `LowLatencyController`) | what is up | start, ENB's initialize and exit, relaunch | parts go up and down together; one generator is served |
| Audio, diagnostics, N-frame plan | - | - | drawing, logging, or called by tests only |

How they interact: `PresentationBridge::State::present` drives a frame. It
judges the frame's UI (and reports to the controller), calls
`RendererRuntime::end_frame` (which reloads settings, copies the frame into the
shared textures, submits them and configures the controller), records and
executes the copy to the back buffer, switches or installs a vendor generator,
and presents. ENB's callbacks and the swap-chain mutations call `pre_reset`,
`post_reset` and `resize` between frames. Four parties switch a vendor
generator, five call the DLSS-G controller; none of them asks the others.

What is hard: a call refused half way with its rollback refused too; a
suspension on top of another; a frame dropped between its steps and presented
later; a chain given away and not got back; a wait that times out; three
parties, one fence. The list, with lines, is `hazards` in `PROJECT.json`.

## 2. Modules

| Module | Models | Extends / instances |
|---|---|---|
| `RecoveryPolicy` | the recovery policy, function by function | |
| `FrameGeneration` | the DLSS-G controller | extends `RecoveryPolicy` |
| `GenerationLifecycle` | abstract specification of the controller | |
| `FrameGeneration_proofs` | theorems about the controller | extends `FrameGeneration`, `TLAPS` |
| `RendererFrame_proofs` | theorems about the frame loop | extends `RendererFrame`, instances `FrameGeneration_proofs` |
| `VendorGeneration_proofs`, `PresentationFences_proofs`, `Session_proofs`, `SharedWork_proofs` | theorems about these modules | each extends its own |
| `Interface_proofs` | theorems about what is drawn over a frame | extends `UiLayer`, `OptionsMenu` |
| `Scene_proofs` | theorems about the scene and who upscales it | extends `SceneRoute`, `Upscaling` |
| `FrameSubmission` | the Streamline frame | |
| `RendererFrame` | frame loop, mutations and callbacks of an NVIDIA session | extends `FrameSubmission`, instances `FrameGeneration` |
| `PresentationHandoff` | who owns the swap chain | |
| `VendorGeneration` | a session with XeSS-FG or FSR | extends `VendorGenerators` |
| `PresentationFences` | render thread, two GPU queues, fence and event | |
| `VendorGenerators` | XeSS-FG and FSR, function by function | extends `PresentationHandoff` |
| `UpscalerRuntimes` | the upscaling contract and the three runtimes behind it | |
| `Upscaling` | who upscales: the pass, the menu, a profile change, a reload, resets | extends `UpscalerRuntimes` |
| `CameraCapture` | the camera, the jitter measured in it, the constants | |
| `ResolutionControl` | the plugin's hold over Skyrim's resolution, jitter and TAA | extends `CameraCapture` |
| `SceneRoute` | a frame from Skyrim's resolution update to Present | extends `ResolutionControl` |
| `RasterGuard` | the hooks on the D3D11 context | |
| `UiVerification` | the passes over the UI layer | |
| `UiLayer` | what is drawn into the layer and what becomes of it | extends `RasterGuard`, `UiVerification` |
| `SharedWork` | a frame's commands on two queues; slots, fences, shared textures | |
| `FramePacing` | the arithmetic of caps | |
| `OptionsMenu` | the menu, the settings and Reflex | extends `FramePacing` |
| `SettingsFile` | the file, the memory, and who writes either | |
| `Session` | one process after another | extends `SettingsFile` |
| `MCFrameGeneration`, `MCRendererFrame`, `MCVendorGeneration`, `MCUpscaling`, `MCSceneRoute`, `MCOptionsMenu` | small instances | |

State and actions correspond to the code as follows. A class of the plugin is
a record (`fg`, `sub`, `gen`, `bridge`) whose fields are its members, named as
there where the name is short enough. A member function is an operator from the
record to the set of its outcomes; the set has more than one element where
Streamline, Direct3D or a vendor runtime may accept or refuse. An action is a
handler: it applies those operators in the order of the code. This is what
lets `RendererFrame` compose the very operators the theorems are about.

`present()` is not atomic in `RendererFrame` and `VendorGeneration`: it is cut
where a property looks at it or where it can return early. In
`PresentationFences` the render thread is cut at every wait, and the GPU may run
between any two steps. The other cuts lose nothing: no other thread writes the
state of those components.

`Upscaling` is a session on the reduced surface, the only one that selects an
upscaler. Its handlers run one after the other on the render thread; each is an
action, and the set of its outcomes goes through every refusal: a query, the
DLSS feature, a context, an evaluation, each key of the settings file, and the
undoing of any of these. The settings in memory are followed; the file is not,
because it may be edited, torn or staged for the next launch at any time, so a
reload may find any pair. Once an undo has failed, or a reload has brought a
pair that is not in memory (`ini.fault`), menu and runtime are known to
disagree: the session is followed to the end of that frame, and the properties
that relate the two say nothing of it. DLSS evaluates on surfaces of its
own: they are made when the contract's extent is not theirs, which is one of the
places that ask for a reset, and the copy of the depth into them is refused at
any extent but the screen's.

`SceneRoute` cuts a frame at the hooks: each is an action, guarded by the order in
which Skyrim calls them, and whatever may come at any point (a camera write, a
display, a menu event, a lost texture) is an action that every phase allows.
`Session` takes a callback as one action, since nothing runs beside it, but cuts
the writes of the settings file at every key, because an editor may save between
two of them and a crash may end the process there.

Some fields are history or stand for what is outside: `on` and `held` of a
controller are the runtime's own state, `marks`, `owed` and `carries` of a
submission and `owed` of a generator record what the generator has been told,
`mishaps` what has gone wrong so far. None is read by a guard that models code.

A few definitions are called slips in their comments (`HeldOneMore`,
`OrphanUnmarked`...). No specification uses them: they are plausible mistakes
in the function defined after them, kept to show that the properties notice.

## 3. Runs

| Run | Shows | Distinct states |
|---|---|---|
| `frame_generation` | under any order of calls and refusals the controller accounts for the runtime's resources, is off while suspended, has earned its eligibility, and implements `GenerationLifecycle` | 334 |
| `renderer_frame` | the swap chain is mutated only when nothing is held; no reset of the history is lost; markers are in order; inputs presented exist; and, with fairness, no suspension is permanent where complete frames keep occurring and the settings settle on a supported multiplier | 486 000 |
| `vendor_generation` | chain and generator agree, through every failed handoff; the switch is never off for good; a break of the history is followed by a reset; only whole frames are generated; latency frames have ids of their own and sleep as the generator needs | 1 741 000 |
| `presentation_fences` | allocators, frame resources and the shared back buffer are not reused early; the queues never wait for each other | 385 000 |
| `upscaling` | contract, feature, evaluating provider and selection in memory agree, whatever was refused; no frame is resolved from a history that has missed one | 4 890 000 |
| `scene_route` | everybody who uses a frame's jitter is told the same one, and the one it was drawn with; viewport, scale and lock follow the UI phase; a UI that was lost is never healthy | 4 984 000 |
| `ui_layer` | what is drawn fits the target that is bound, in any order of binds and rectangles; a verdict on the UI layer is about the texture in use and not old | 685 000 |
| `shared_work` | what the GPU has yet to execute keeps its allocator and textures; no input is overwritten and no output read early; the two queues drain | 2 727 000 |
| `options_menu` | Reflex has the limit that the file, the menu, the display and the multiplier ask for; it is on while frames are generated; every cap can be read back | 2 140 000 |
| `session` | memory says what the file says; a pair of provider and mode is never half of two; one frame generator is served; the parts of the runtime go up and down together | 8 018 000 |

Two runs state what a message of the code says, and TLC refutes it. Each is a
finding in `PROJECT.json`:

- `vendor_buffer`: "dropped rather than written out of bounds", but an
  installation after that guard replaces or loses the chain.
- `flag_restored`: "promises to return every setting it touches exactly as it
  was", but the live TAA flag is remembered after it was overwritten.

Other messages that the models contradict are hazards without a property,
described at their lines: an unhealthy frame resumed by its own `end_frame`, an
unsupported multiplier refused every second frame, a vendor generator switched
on under an open menu, an event of a wait that timed out ending the next wait,
a reload that commits another extent in a running session.

`PROJECT.json` lists for every property a mutant of the code that breaks it.
The `TypeOK` of the modules other than `FrameGeneration` describe their state
for the reader and hold in the same instances; the runs spend their time on the
other properties.

### How the runs divide the program

The handlers all run on the render thread, so a run is a choice of which
components' states have to be seen together. `renderer_frame` and
`vendor_generation` are the frame loop with one generator each. `scene_route`
and `ui_layer` are the same frame seen from Skyrim's side: the first follows a
frame through the hooks in the order Skyrim can call them, the second lets
targets, viewports and scissors come in any order. `shared_work` and
`presentation_fences` are the GPU's side: the render thread only issues
commands, and the queues execute them when they like. `session` follows no
frames, only what is up and what the file says; `upscaling` and `options_menu`
follow what is chosen.

### Bounds

- `GuardedFrames`, `ForcedFrames`, `GraceFrames` (60, 900, 30 in the code) are
  small and keep their order. Only comparisons with them matter, so what counts
  is that each can be reached, missed by one, and broken off. The theorems hold
  for all values. `renderer_frame` has 1, 3 and 1, which suffice for a run that
  is broken off and a watchdog that is not.
- `MaxMultiplier` 2 or 3; the settings may also hold one more, which stands for
  all that are unsupported. One contract is enough for the frame loop (a change
  of contract is a change of multiplier to it); the controller has two.
- `healthy` saturates at `ForcedFrames`, which is all the code compares it with.
- `BufferCounts` {2, 3}: a chain may be replaced by a larger or a smaller one.
  `MaxInterpolated` 2: one frame, several, and more than are supported.
- `Budget` 1 (600 in the code): a switch is confirmed at once, late, or never.
  Two modes at two extents, so that a mode of one provider has the extent of
  another mode of another, as the runtimes do, and a switch may or may not be
  at the recommended extent. A session may stop anywhere, and stops after a
  fault, so `upscaling` does not check for deadlock.
- `Buffers` 2 and `MaxValue` 8: fence values for four operations of the render
  thread that hand out two each, enough to come round to an allocator twice, to
  lose a frame and to idle after it, or to be overtaken by a wait that gave up.
  When the values are used up nothing more can start, so this run does not
  check for deadlock; that the queues do not block each other is
  `QueuesAdvance`.
- `scene_route`: a jitter of frame 1 and one of frame 2 differ (`Samples` 2);
  `MaxFrames` 1 counts from 0, so a frame and its successor meet; two events
  of those nobody controls (a menu, a broken camera, a target refused, an exit)
  may combine. The sessions end after the last frame. The jitter is measured in
  the camera or is the one requested; a late frame counts as one of the events.
- `ui_layer`: two addresses and three textures, so an address is used again by
  another texture; one failure; an age of four presented frames exceeds the
  cadence of reports and checks.
- `shared_work`: fewer slots than frames (`Slots` 2, four in the code;
  `MaxFrames` 3), so that slots run out and come round; a second state of the
  shared textures; two refusals or losses in all, which combine freely.
- `options_menu`: caps 2..10 with two presets; three inputs, two refusals and one
  change from outside, enough to change both caps, refuse, and undo.
- `session`: one save from outside, one refusal (of a write, or of the
  reconfiguration after the last) and two operations, and a relaunch. Sessions end when these are used up.

### Fairness

`renderer_frame` and `shared_work` have liveness properties.

The code guarantees no fairness to the frame loop by itself: nobody makes the
game draw. `FairSpec` of `RendererFrame` says that if complete frames keep being
possible (the game is running, generation is on, the frame's capture exists),
they are not for ever avoided by accident, and a runtime asked again and again
to resume does not refuse for ever. Both are strong fairness, because a menu, a
dropped frame or a reset disables them in between. Both are about ends of
frames that leave the settings as they are (`settings' = settings`), so nothing
here makes a user or an editor change them. No fairness is put on healthy
judgements: the point of the watchdog is that a suspension ends even if every
frame is judged unhealthy.

`SuspensionEnds` has two premises. `[]<>Completable`: complete frames keep being
possible, so it says nothing of a game that stays in a menu. `SettingsSettle`:
from some time on the configured multiplier is supported, and no reload of the
file falls into the end of a frame. Neither can be dropped. With an unsupported
multiplier, and none remembered, `enable` refuses (FrameGeneration.cpp:554-565),
`resume_from_gate` ends in a guarded suspension (751) and `resume_if_eligible`
retries the same value (1083-1096) for as long as frames are complete; the log
says that generation stays off until a supported multiplier is selected. And a
file that switches generation off and on again always in the very frame that
would resume starts the wait anew each time; TLC shows it when the second half
of `SettingsSettle` is left out. The menu, hot keys, device resets and handoffs
remain free to interfere for ever.

`SharedWork` has weak fairness of the two queues only: a GPU executes a command
that nothing holds back. The render thread may stop anywhere.

### What the properties exclude

`PresentationFences` names what has gone wrong so far, and each property says
what it tolerates. `QueuesAdvance` tolerates dropped frames, refused idle waits
and timeouts, not a call refused after a frame was executed: there the D3D11
signal of the next idle wait may overtake the signal of the completion guard,
the fence goes back, and both queues wait for ever. TLC shows this as soon as
`"present"` is added to the property. It needs a Present that fails on a device
that goes on working, so it is kept as a hazard. For the same reason
`AllocatorReusable` and `ReleasedIdle` tolerate a refused Present, but not one
combined with a wait that gave up.

`SharedWork` does the same: `InFlightKept` covers textures let go by a resize,
and dispatches under ENB's reset, but not a generation under ENB's reset nor a
mismatch of textures, since nothing in the code waits there; `InputsNotTorn`
needs one of two exchanges, and `QueuesDrain` excepts a D3D11 wait refused after
D3D12's signal was queued.

`MemoryIsFile` leaves out keys whose save from outside fell between a write of
the plugin and its look at the file's time, which the code cannot tell apart,
and what is staged for the next launch. Such saves are steps of the model, before
the write (`Edit`) and between it and the time (`RacedWrite`, `RacedCommit`, the
races of `Load`): the memory and the file stay apart for that key, and the
property says that no other key is lost with it. `PairWhole` leaves out operations
into which an editor broke, up to their last step, or whose undo was refused.

`JitterReportedAsRastered` leaves out late frames. A frame that Present dropped
is still open, so the next `begin_frame` returns early and resets nothing: the
capture stays closed, and the next world is drawn while the camera of the dropped
frame is the one that is told. TLC shows the difference as soon as `~pass.late` is
taken out. The other properties of `SceneRoute` hold of such frames too.

`ReflexAsConfigured` speaks of a Reflex that is not owed anything: what it
refused is recorded as owed until it is next given options.

## 4. Proofs

Eight modules of theorems about ten specifications, for every value of their
constants. `Interface_proofs` and `Scene_proofs` hold two specifications each that
share no variable, so that nothing of one can be used for the other; that is why
`OptionsMenu` and `Upscaling` name their `Init`, `Next` and `Spec` after themselves.
Every specification has an inductive invariant that TLC first checked on the
instance of its run, the lemmas about the operators that it rests on, and the
properties as consequences. The assumptions are those that the modules declare:
thresholds are positive, at least 2x is supported, "no contract" is not a
contract, bounds and cadences are natural numbers, presets ascend from "no cap"
between the lowest and the highest cap, every mode has an extent, no texture lies at address 0. No theorem
needs a bound of a run. All invariants and action properties of the passing runs
are theorems.

**`FrameGeneration_proofs`** (`RecoveryPolicy`, `FrameGeneration`):
`Invariance`; `TypeCorrect`, `Accounting`, `SuspensionIsOff`,
`EligibilityIsEarned`; `Refinement` of `GenerationLifecycle`. None of the
properties is inductive alone. That a suspended controller has multiplier 1
depends on a controller that is not ready being unused (`Unused`): otherwise a
shutdown and a late callback could combine. That an eligible suspension was
served depends on counters being zero outside one (`Uncounted`), and the range
of the clean run on its end having been noticed (`Recognised`). The argument
goes by member function: a lemma says of each operator that its outcomes are
`Sound` if its argument is; another that they move the lifecycle by one of its
steps or not at all.

**`RendererFrame_proofs`** (the frame loop over that controller): `FrameInvariant`;
`SwapChainAlwaysReleased`, `ResetNeverLost`, `MarkersAlwaysInOrder`,
`PresentedInputsAlwaysAlive`. The controller is not opened again: the module
instances `FrameGeneration_proofs` and uses, of each member function, that its
outcomes are `Sound` and what a caller may conclude from its answer (`Settled`,
`Fallen`: a reset that answers TRUE has left nothing standing). The rest is
`Lawful`: which flags of a frame presuppose which, and where a reset still owed
is recorded while the frame is open.

**`VendorGeneration_proofs`** (XeSS-FG, FSR and the handoff of the chain):
`VendorInvariant`; `ChainAlwaysMatches`, `NobodyIsStranded`,
`ResetAlwaysPending`, `OnlyWholeFramesGenerated`, `LatencyAlwaysServes`,
`TypesHold`. The generator is followed through the operators of
`VendorGenerators` and the chain through those of `PresentationHandoff`; an
installation that fails half way is why both are in the invariant together.

**`PresentationFences_proofs`** (two queues, one fence, one event): `FenceInvariant`;
`FramesNeverTorn`, `QueuesAlwaysAdvance`, `AlwaysReleasedIdle`,
`AllocatorsAlwaysReusable`, `TypesHold`. The invariant is about the marks, the
signals and waits still queued: in each queue their values increase, every
value has one signaller, no signal comes before the wait it would pass. From
this follows that a frame's turn is still to come or wholly over, although a
late signal may set the fence back. It falls into families that hold only while
certain mishaps have not happened (`Traced`, `Unlost`, `Punctual`, `Reusable`),
and each property uses the family whose mishaps it tolerates.

**`Session_proofs`** (the file, the memory, the parts): `SessionInvariant`;
`MemoryIsAlwaysFile`, `PairAlwaysWhole` (an action property),
`RouteAlwaysAgrees`, `PartsAlwaysWhole`, `TypesHold`. What is still to be
written and what an editor wrote meanwhile are both part of "the memory is the
file"; the parts are taken up and down by operators, and the lemmas are about
those.

**`Interface_proofs`**, `UiLayer` (the context and the passes): `UiInvariant`;
`RasterAlwaysFits`, `ClassifiedTextureAlways`, `ClassificationNeverOld`,
`TypesHold`. Both rectangles fit after every single hook, whatever they were
before, so nothing has to be known of a sequence of them. A pass that holds a
view keeps its address from being taken; the report holds none, and is right
only because the composite, which does, was asked of the same layer just before
(`Reported`, until a composite fails). The age of a reading plus the frames it
still waits stay under one interval for each readback missed (`Fresh`).

**`Scene_proofs`**, `SceneRoute` (a frame from the resolution update to Present):
`RouteInvariant`; `ConsumersAlwaysAgree`, `JitterAlwaysAsRastered`,
`ExtentAlwaysFollows`, `LostLayerAlwaysUnhealthy`, `TypesHold`. A frame has one
offset (`Offset`), fixed when its world is drawn; the camera kept and the
snapshot taken of it stand for that offset (`Carried`) until the Present, since
the camera is frozen once the scene is final. A resolve is owed only in that
stretch, so both places that may commit it are reached with `Carried`. On a
virtual surface the UI phase can be open only after the scene is final
(`SizedOf`), and UI drawn into the layer keeps it open to the Present (`Kept`),
which is what makes a lost layer count.

**`Interface_proofs`**, `OptionsMenu` (the menu, the settings and Reflex):
`MenuInvariant`; `PacedAsConfigured`, `GeneratesWithReflex`, `EveryCapValid`.
`ReflexAsConfigured` is not inductive: a handler between two options has a cap of
one setting and a limit of another. `Settled` keeps the two apart (the output and
the cap first, the limit made of that cap and the base cap in use second), so each
of the calls `set_reflex_mode`, `set_output_target_fps`, `enable` and `suspend_impl`
is one lemma about the world it is given (settings, pacing, refusals), and an
apply with its partial writes and its undoing is a chain of those lemmas. The one
place where that chain needs another fact is a new base cap: the limit that Reflex
has was made of the old one. It is harmless because the menu halts generation, so
no limit is multiplied while it can be applied, unless the suspension was refused,
which is owed; this is `HaltedOrOwed`, and it holds only between the end of a frame
and the menu drawn on it. That caps stay valid follows row by row from the
arithmetic of `FramePacing`: stepping up and down, presets, a base cap walked to by
its output (`BaseByOutputFacts`: base and product are both caps), typed numbers.

**`Scene_proofs`**, `Upscaling` (who upscales): `UpscalingInvariant`; `ContractRuns`,
`SavedRuns`, `HistoryNeverStale` (an action property), `UpscalingTypes`. Four things
are about one contract: what DLSS was made for (`FeatureOfContract`), FSR's context
while no reset is due (`ContextOfContract`), the saved selection with the evaluating
provider (`SelectionGood`), and the provider a recovery would return to, which is
not the one that runs. What a history is worth is `HistoryGood`: without a pending
reset the evaluator is the provider that has seen every frame. Every vendor call is
a lemma about what it leaves of the contract (`Committed`, `OnlyPrepared`,
`FrameKept`), and the menu's and the pass's handlers combine them through every
refusal and rollback.

**`SharedWork_proofs`** (two queues, a fence for each of three purposes, slots and
textures): `WorkInvariant`; `InFlightAlwaysKept`, `InputsNeverTorn`,
`OutputAlwaysFrame`. One relation carries it, `After`: a queued command is not
executed before another one of the other queue, because a wait in front of it is
blocked and nothing before the other lets it pass. The execution of either queue
preserves it, so do commands put behind, and a wait for a value that nobody has
signalled yet establishes it against everything queued so far (`GatesOpened`).
The textures follow from a statement about readers and writers alone (`Served`):
whoever reads is after the writes of its own frame, later writes are after it,
and what it reads is there or queued (`Fed`). Work that nobody waits for, because
both exchanges of its frame were refused, is taken out by name (`Excused`), and
`Guarded` says that everything else is waited for before the next frame writes.
Between the dispatch and the Present a dispatch may be unguarded (`Loose`): the
bridge waits for it later, and no step in between writes its inputs. A slot is
kept because the fence is below its value as long as its dispatch is queued
(`Slotted`).

Only model-checked:

- `SuspensionEnds` of `RendererFrame` and `QueuesDrain` of `SharedWork`: liveness
  under fairness, and ENABLED, are beyond the proof system;
- the two runs that expect a violation.

Induction over data is beyond the provers too, and so are recursive operators; no
module declares one.

## 5. Not modelled

- Dynamic cadence and the verification of presented frames (`after_present`):
  they reach the controller only through the contract value and telemetry.
- Contents: formats, matrices, shaders. A frame is complete or not, a readback
  is nothing, UI or scene, as a choice of the step. A texture of `SharedWork` is
  the number of the frame it holds.
- What Streamline keeps after a refused `slSetTagForFrame`: such tags are
  "stale" and the properties about tags say nothing of them.
- The interior of vendor runtimes and DXGI: accepted or refused.
- The native route of the upscaling pass (`evaluate_pre_postprocessing_scene`),
  which needs an upscaler without a reduced surface; the modes Off and DLAA in
  `Upscaling`, and DLAA in `SceneRoute`, where extents do not differ; `availability_`, which only makes FSR and XeSS refuse; a ResizeBuffers
  that fails, which leaves the bridge without its resources.
- Branches that a Streamline session or the calls before them rule out: in
  `OptionsMenu`, `vendor_viable` of the menu's mode, which only a session of
  another vendor's generator reaches; in `RasterGuard`, a layer without a depth
  view (DynamicResolution.cpp:1946-1958), since `ui_rendering` presupposes
  `ui_recomposition_available`, which asks for that view, and both live in the
  same state (SharedResources.cpp:1438, 2100).
- Code that nothing calls: `UiCompositePass::apply_delta`,
  `DepthRestoration::restore`, the depth of a full-resolution UI target, and the
  N-frame plan but for its count of back buffers.
- The destruction of the bridge while the game still holds the proxy, and idle
  waits whose failure is dropped: see the hazards.
- The deadline arithmetic of the base frame limiter (floating-point ticks), mip
  bias, sharpening, debug views, drawing of the menu, audio, logging.
- Components with status `not_modelled` in `PROJECT.json`, each with its reason.

## 6. Plan

What is left, in this order:

1. An abstract specification of a selection (the pair chosen, running and saved)
   for `Upscaling` and `SettingsFile` to refine, and one of a fenced queue for
   `PresentationFences` and `SharedWork`.
2. The base frame limiter with its deadline as a function of time.
