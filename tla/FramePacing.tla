---------------------------- MODULE FramePacing ----------------------------
(***************************************************************************)
(* The arithmetic of frame rate caps, translated from                      *)
(* src/render/FramePacingRules.hpp, OutputCapControls.hpp and              *)
(* MultiplierProjection.hpp: what cap Streamline is given, how a cap of    *)
(* rendered frames and a cap of displayed frames go together, and how the  *)
(* menu steps through both.                                                *)
(*                                                                         *)
(* A cap is a number of frames a second; 0 stands for no cap.              *)
(***************************************************************************)
EXTENDS Integers, Sequences, SequencesExt, FiniteSetsExt

CONSTANTS
    MinimumCap,     \* kMinimumPresentationCap
    MaximumCap,     \* kMaximumPresentationCap
    Presets         \* kOutputCapPresets, ascending, "no cap" first

ASSUME CapsAssumption ==
    /\ MinimumCap \in Nat \ {0}
    /\ MaximumCap \in Nat
    /\ MinimumCap <= MaximumCap
    /\ Presets \in Seq(Nat)
    /\ Len(Presets) > 1
    /\ Presets[1] = 0
    /\ \A i \in 2..Len(Presets) : /\ Presets[i] \in MinimumCap..MaximumCap
                                  /\ Presets[i - 1] < Presets[i]

-----------------------------------------------------------------------------
(***************************************************************************)
(* Caps the settings accept, and caps the menu lists.                      *)
(***************************************************************************)
ValidCap(v) == v = 0 \/ v \in MinimumCap..MaximumCap

IsPreset(v) == v \in ToSet(Presets)

LastPreset == Presets[Len(Presets)]

\* The base cap that makes this output at this multiplier, or 0.
BaseForOutput(output, multiplier) ==
    LET base == output \div multiplier
    IN  IF multiplier >= 2 /\ base >= MinimumCap /\ base * multiplier = output
        THEN base ELSE 0

\* adjust_output_cap by a step of the user's.
StepUp(cap, step) ==
    IF cap = 0 THEN MinimumCap
    ELSE IF cap >= MaximumCap - Min({step, MaximumCap}) THEN MaximumCap
    ELSE cap + step

\* A slip the properties have to notice: no stop at the lowest cap.
StepDownUnstopped(cap, step) ==
    IF cap <= MinimumCap THEN 0 ELSE Max({cap - step, 1})

StepDown(cap, step) ==
    IF cap <= MinimumCap THEN 0
    ELSE IF cap - MinimumCap <= step THEN MinimumCap
    ELSE cap - step

\* adjust_output_cap to the next preset; both ends wrap.
NextPreset(cap) ==
    LET above == {p \in ToSet(Presets) : p > cap}
    IN  IF above = {} THEN 0 ELSE Min(above)

PreviousPreset(cap) ==
    LET below == {p \in ToSet(Presets) : p < cap}
    IN  IF below = {} THEN LastPreset ELSE Max(below)

NeighbourPreset(cap, direction) ==
    IF direction > 0 THEN NextPreset(cap) ELSE PreviousPreset(cap)

\* adjust_base_by_output: the presets are walked once around, those ahead of
\* the output in use first, until one can be displayed from another base cap.
BaseByOutput(base, multiplier, direction) ==
    LET output == base * multiplier
        shown == {p \in ToSet(Presets) :
                     BaseForOutput(p, multiplier) \notin {0, base}}
        ahead == {p \in shown : IF direction > 0 THEN p > output
                                ELSE p < output}
        walked == IF ahead = {} THEN shown ELSE ahead
        reached == IF direction > 0 THEN Min(walked) ELSE Max(walked)
    IN  IF multiplier < 2 \/ base < MinimumCap \/ shown = {} THEN base
        ELSE BaseForOutput(reached, multiplier)

-----------------------------------------------------------------------------
(***************************************************************************)
(* What Streamline is asked for.                                           *)
(***************************************************************************)
ClampedCap(fps) == Max({MinimumCap, Min({MaximumCap, fps})})

\* decide_pacing: no cap means the rate of the display, if it is known.
PacingCap(requested, refresh) ==
    IF requested # 0 THEN ClampedCap(requested)
    ELSE IF refresh # 0 THEN ClampedCap(refresh)
    ELSE 0

\* reflex_limit_preserving_base: Streamline divides its limit by the frames
\* it shows for one, so the base cap is what decides.
LimitPreservingBase(output, base, multiplier) ==
    IF output = 0 THEN 0
    ELSE IF multiplier < 2 \/ base = 0 THEN output
    ELSE base * multiplier

FixedCadence == [kind |-> "fixed", target |-> 0]

\* decide_cadence: who chooses the multiplier of a frame.
Cadence(dynamicSelected, dynamicSupported, multiplier, cap) ==
    IF multiplier < 2 \/ ~dynamicSelected \/ ~dynamicSupported
    THEN FixedCadence
    ELSE IF cap # 0 THEN [kind |-> "outputCap", target |-> cap]
    ELSE [kind |-> "displayRefresh", target |-> 0]
=============================================================================
