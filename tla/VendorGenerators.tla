-------------------------- MODULE VendorGenerators --------------------------
(***************************************************************************)
(* The two vendor frame generators, XeSS-FG and FSR, translated from       *)
(* src/render/XessFrameGeneration.cpp and FsrFrameGeneration.cpp: how they *)
(* are installed on the chain of the bridge, switched, fed with frames,    *)
(* and taken down.                                                         *)
(*                                                                         *)
(* A generator is a record whose fields are the members of State, and of   *)
(* the runtime behind it what calls of these files change:                 *)
(*   status, enabled, reset (reset_pending)                                *)
(*   context   the runtime's context exists (XeSS-FG: handle)              *)
(*   live      the runtime was last told to generate                       *)
(*   frames    interpolated_frames, requested_frames                       *)
(*   stale     reinstall_required                                          *)
(*   made      the depth and display it was installed for                  *)
(*   xell      the latency context of XeSS-FG and its last sleep mode      *)
(*   ahead     latency_frame_id differs from last_tagged_frame_id          *)
(* and of history: owed, the interpolation history was broken and no frame *)
(* has said so to the runtime; refused, the runtime did not take the last  *)
(* order to stop; twice, a frame was tagged under the id of another.       *)
(*                                                                         *)
(* A function is an operator to the set of its outcomes, one for each      *)
(* answer of the runtime.  w is what the rest of the program offers:       *)
(* depth convention, display, requested frames, shared textures.           *)
(***************************************************************************)
EXTENDS PresentationHandoff

CONSTANT MaxInterpolated    \* what the XeSS runtime says it supports

ASSUME InterpolatedAssumption == MaxInterpolated \in Nat \ {0}

Vendors == {"xess", "fsr"}

Statuses == {"inactive", "waiting", "installed", "failed"}

Depths == {"normal", "reversed"}

Unmade == [depth |-> "none", display |-> 0]

SleepModes == {"none", "unset", "low", "high"}

NewGenerator(v) ==
    [vendor |-> v, status |-> "inactive", enabled |-> TRUE, reset |-> FALSE,
     context |-> FALSE, live |-> FALSE, frames |-> 0, stale |-> FALSE,
     made |-> Unmade, xell |-> "none", ahead |-> FALSE,
     owed |-> TRUE, refused |-> FALSE, twice |-> FALSE]

Owns(g) == g.status = "installed"

Break(g) == [g EXCEPT !.owed = TRUE]

ResetHistory(g) == [Break(g) EXCEPT !.reset = TRUE]

-----------------------------------------------------------------------------
(***************************************************************************)
(* The switch.                                                             *)
(***************************************************************************)

\* The runtime is told to stop, or refuses, which is only logged.
StopOutcomes(g) ==
    {[g EXCEPT !.live = FALSE, !.refused = FALSE],
     [g EXCEPT !.refused = g.live]}

StartOutcomes(g) ==
    {[g EXCEPT !.live = TRUE, !.refused = FALSE], g}

\* XeSS-FG asks for a reset whether it is installed or not.
SwitchXess(g, on) ==
    LET s == [g EXCEPT !.enabled = on, !.reset = @ \/ on]
    IN  IF ~Owns(g) THEN {s}
        ELSE IF on THEN StartOutcomes(s) ELSE StopOutcomes(s)

\* FSR starts with the next frame that is submitted.
SwitchFsr(g, on) ==
    LET s == [g EXCEPT !.enabled = on, !.reset = @ \/ (on /\ Owns(g))]
    IN  IF ~Owns(g) \/ on THEN {s} ELSE StopOutcomes(s)

SetEnabled(g, on) ==
    IF g.vendor = "xess" THEN SwitchXess(Break(g), on)
    ELSE SwitchFsr(Break(g), on)

-----------------------------------------------------------------------------
(***************************************************************************)
(* The latency frame of XeSS-FG.                                           *)
(***************************************************************************)
BeginLatencyFrame(g) == [g EXCEPT !.ahead = TRUE]

\* A slip the properties have to notice: low latency as it is in the settings.
SleepAsRequested(g, low) == IF low THEN "low" ELSE "high"

\* A generator cannot do without low latency, whatever is requested.
SleepMode(g, low) == IF low \/ g.context THEN "low" ELSE "high"

SleepOutcomes(g, low) ==
    {g} \cup (IF g.xell = "none" THEN {}
              ELSE {[g EXCEPT !.xell = SleepMode(g, low)]})

-----------------------------------------------------------------------------
(***************************************************************************)
(* Frames.                                                                 *)
(***************************************************************************)
Submitted(g, ok) == [gen |-> g, ok |-> ok]

\* The frame carries the pending reset.
TakeReset(g) == [g EXCEPT !.reset = FALSE, !.owed = @ /\ ~g.reset]

\* A simulation step that did not begin a frame gets an id of its own.
AdvanceId(g) == [g EXCEPT !.ahead = TRUE]

TagId(g) ==
    LET a == AdvanceId(g)
    IN  [a EXCEPT !.ahead = FALSE, !.twice = @ \/ ~a.ahead]

\* XeSS-FG: a frame without its inputs is left out; one whose tags or
\* constants are refused has its id, and keeps the reset.
SubmitXess(g) ==
    {Submitted(g, FALSE), Submitted(TagId(g), FALSE),
     Submitted(TakeReset(TagId(g)), TRUE)}

\* A slip the properties have to notice: an incomplete frame is left as the
\* frame before it was.
SuppressNothing(g) == {g}

\* A frame that is not whole is configured not to be generated.
Suppress(g) == StopOutcomes(g)

\* FSR: configured to be generated, then the UI, the camera or the dispatch
\* may fail.
SubmitFsr(g) ==
    LET on == [g EXCEPT !.live = TRUE, !.refused = FALSE]
    IN  {Submitted(TakeReset(on), TRUE)}
        \cup {Submitted(s, FALSE) : s \in Suppress(g) \cup Suppress(on)}

\* Slips the properties have to notice: a frame that is left out takes the
\* pending reset with it.
SubmitTakingReset(g) ==
    IF ~Owns(g) \/ ~g.enabled THEN {Submitted(g, FALSE)}
    ELSE {Submitted([s.gen EXCEPT !.reset = FALSE], s.ok)
             : s \in IF g.vendor = "xess" THEN SubmitXess(g) ELSE SubmitFsr(g)}

SubmitOutcomes(g) ==
    IF ~Owns(g) \/ ~g.enabled THEN {Submitted(g, FALSE)}
    ELSE IF g.vendor = "xess" THEN SubmitXess(g) ELSE SubmitFsr(g)

-----------------------------------------------------------------------------
(***************************************************************************)
(* Taking down and installing, to the set of pairs [gen, bridge].          *)
(***************************************************************************)
Outcome(g, b) == [gen |-> g, bridge |-> b]

Failed(g) == [g EXCEPT !.status = "failed"]

\* Everything of the runtime is released.  The switch keeps its position,
\* and with FSR a reset that is pending stays so.
ShutdownGenerator(g) ==
    [NewGenerator(g.vendor) EXCEPT
        !.status = IF Owns(g) THEN "inactive" ELSE g.status,
        !.enabled = g.enabled,
        !.reset = g.reset /\ g.vendor = "fsr",
        !.made = g.made,
        !.owed = g.owed, !.twice = g.twice,
        !.ahead = g.ahead /\ g.vendor = "fsr"]

GiveUp(g) == Failed(ShutdownGenerator(g))

\* The bridge makes a chain of its own when the generator had one.
ShutdownOutcomes(g, b) ==
    {Outcome(ShutdownGenerator(g), r.bridge) : r \in ReleaseOutcomes(b)}

\* From a failure after the handoff on: presentation is restored if it can.
FailAfterHandoff(g, b) ==
    {Outcome(GiveUp(g), r.bridge) : r \in AbortHandoffOutcomes(b)}

Clamped(n) == IF n > MaxInterpolated THEN MaxInterpolated ELSE n

\* A count the runtime refuses as an argument leaves the last one; any other
\* refusal asks for a new installation.
SetFramesOutcomes(g, n) ==
    IF Clamped(n) = g.frames THEN {Submitted(g, TRUE)}
    ELSE {Submitted([g EXCEPT !.frames = Clamped(n), !.reset = TRUE], TRUE),
          Submitted(g, FALSE), Submitted([g EXCEPT !.stale = TRUE], FALSE)}

Installed(g, w, n, live) ==
    [ResetHistory(g) EXCEPT
        !.status = "installed", !.context = TRUE, !.frames = n, !.live = live,
        !.made = [depth |-> w.depth, display |-> w.display], !.ahead = FALSE]

\* The runtime is made to compose the UI, given its count and the position
\* of the switch; FSR starts off and with one frame.
ConfiguredAs(g, w) ==
    IF g.vendor = "xess" THEN Installed(g, w, Clamped(w.frames), g.enabled)
    ELSE [Installed(g, w, 1, FALSE) EXCEPT !.ahead = g.ahead]

\* A slip the properties have to notice: a configuration that fails keeps
\* the chain.
FinishInstallKeepingChain(g, b, w) ==
    {Outcome(ConfiguredAs(g, w), b), Outcome(GiveUp(g), b)}

\* The adopted chain is configured; when that fails it is given back.
FinishInstall(g, b, w) ==
    {Outcome(ConfiguredAs(g, w), b)}
    \cup {Outcome(Failed(o.gen), o.bridge) : o \in ShutdownOutcomes(g, b)}

AdoptGenerated(g, b, w) ==
    UNION {IF a.ok THEN FinishInstall(g, a.bridge, w)
           ELSE FailAfterHandoff(g, a.bridge) : a \in AdoptOutcomes(b)}

\* A bridge that does not give its chain leaves the contexts that were made
\* for it.
HandOver(g, b, w) ==
    UNION {IF h.ok
           THEN FailAfterHandoff(g, h.bridge) \cup AdoptGenerated(g, h.bridge, w)
           ELSE {Outcome(Failed(g), b)} : h \in BeginHandoffOutcomes(b)}

\* XeSS-FG has a context since it asked for the number of frames, and makes
\* one for the latency, which is told to sleep or refuses.
ContextsOf(g) ==
    IF g.vendor = "fsr" THEN {g}
    ELSE {[g EXCEPT !.context = TRUE, !.xell = m] : m \in {"unset", "low"}}

Probed(g) == [g EXCEPT !.context = @ \/ g.vendor = "xess"]

\* Fails for good without its runtime, waits for what the session may still
\* bring, or takes the swap chain over.
Install(g, b, w) ==
    IF g.status = "failed" THEN {Outcome(g, b)}
    ELSE {Outcome(Failed(g), b), Outcome(Failed(Probed(g)), b),
          Outcome(GiveUp(g), b),
          Outcome([Probed(g) EXCEPT !.status = "waiting"], b)}
         \cup (IF w.shared /\ w.depth \in Depths /\ b.chain # "none"
               THEN UNION {HandOver(c, b, w) : c \in ContextsOf(g)} ELSE {})

Reinstall(g, b, w) ==
    UNION {Install(o.gen, o.bridge, w) : o \in ShutdownOutcomes(g, b)}

\* XeSS-FG is made for a convention of the depth, FSR for the display too.
Outdated(g, w) ==
    \/ w.depth \in Depths /\ w.depth # g.made.depth
    \/ g.vendor = "fsr" /\ w.display # g.made.display

\* An installed generator stays unless what was fixed at its installation is
\* out of date, or its count cannot be changed without a new one.
InstallIfReady(g, b, w) ==
    IF ~Owns(g) THEN Install(g, b, w)
    ELSE IF Outdated(g, w) THEN Reinstall(g, b, w)
    ELSE IF g.vendor = "fsr" THEN {Outcome(g, b)}
    ELSE UNION {IF s.ok \/ ~s.gen.stale THEN {Outcome(s.gen, b)}
                ELSE Reinstall(s.gen, b, w)
                   : s \in SetFramesOutcomes(g, w.frames)}
=============================================================================
