-------------------------- MODULE FrameGeneration --------------------------
(***************************************************************************)
(* The DLSS-G controller, translated from src/streamline/                  *)
(* FrameGeneration.cpp.  The controller is one record, fg.  Because the    *)
(* render thread calls several member functions of it in one handler, each *)
(* member function is an operator from a controller record to the set of   *)
(* its outcomes [fg, ok, reset]: the controller afterwards, the function's *)
(* result and whether FrameSubmission::request_history_reset was called.   *)
(* A set has more than one element where Streamline may accept or refuse a *)
(* call.  This module's own specification lets the member functions be     *)
(* called in any order: it is the contract of a singleton that six other   *)
(* components call.  RendererFrame composes the same operators in the      *)
(* order the frame loop uses.                                              *)
(*                                                                         *)
(* The runtime behind slDLSSGSetOptions is external.  It is two Booleans   *)
(* of the record: on (the last accepted mode generates) and held (it has   *)
(* feature resources allocated).  Reflex appears only through the refusal  *)
(* that makes enable roll back; the limit and mode it is given, and        *)
(* telemetry, do not feed back into what is modelled here.                 *)
(*                                                                         *)
(* A session that selects a vendor generator never makes this controller   *)
(* ready (D3D12Backend keeps Streamline out of presentation), so the       *)
(* vendor guard of enable does not appear.                                 *)
(***************************************************************************)
EXTENDS RecoveryPolicy

CONSTANTS
    MaxMultiplier,    \* FeatureSupport::maximum_multiplier(), at least 2
    GraceFrames,      \* kGateGraceFrames, 30 in the code
    Contracts,        \* values of (extent, UI recomposition, cadence, target)
    NoContract        \* the contract field when no generation is configured

ASSUME MaxMultiplierAssumption == MaxMultiplier \in Nat /\ MaxMultiplier >= 2
ASSUME GraceFramesAssumption == GraceFrames \in Nat
ASSUME NoContractAssumption == NoContract \notin Contracts

VARIABLE fg

Multipliers == 1 .. MaxMultiplier

\* The multipliers the settings can hold.  The largest stands for all those
\* that this GPU and driver do not support.
Selectable == 2 .. MaxMultiplier + 1

-----------------------------------------------------------------------------
(***************************************************************************)
(* Outcomes of a call.                                                     *)
(***************************************************************************)
Succeed(c) == [fg |-> c, ok |-> TRUE, reset |-> FALSE]

Refuse(c) == [fg |-> c, ok |-> FALSE, reset |-> FALSE]

Controllers ==
    [ready: BOOLEAN, multiplier: Multipliers,
     contract: Contracts \cup {NoContract}, retained: BOOLEAN,
     grace: 0 .. GraceFrames, on: BOOLEAN, held: BOOLEAN, policy: Policies]

NewController ==
    [ready |-> FALSE, multiplier |-> 1, contract |-> NoContract,
     retained |-> FALSE, grace |-> 0, on |-> FALSE, held |-> FALSE,
     policy |-> NewPolicy]

\* shutdown() resets every member except the count of grace frames.  It runs
\* before anything was asked of the runtime, when initialize fails, or from
\* the renderer's exit, where Api::shutdown takes the runtime down with it.
ShutdownOf(c) == [NewController EXCEPT !.grace = c.grace]

InitializeOutcomes(c) ==
    IF c.ready THEN {Succeed(c)}
    ELSE {Refuse(ShutdownOf(c)), Succeed([c EXCEPT !.ready = TRUE])}

(***************************************************************************)
(* Slips the properties have to notice: a rollback that leaves retained as *)
(* it was, a grace limit off by one, a suspension that does not release    *)
(* again, and one that stays when the runtime refused it.                  *)
(***************************************************************************)
RollBackForgetting(c) ==
    {Refuse([c EXCEPT !.on = stuck, !.held = TRUE, !.multiplier = 1,
                      !.contract = NoContract]) : stuck \in BOOLEAN}

HeldOneMore(c, cause) ==
    /\ cause # "deterministic_gate"
    /\ c.policy.cause # "unhealthy_frame"
    /\ c.grace <= GraceFrames

SuspendAgainIdly(s, retain) == {Succeed(s)}

SuspendActiveAnyway(s, retain) ==
    {Refuse(s),
     Succeed([s EXCEPT !.on = FALSE, !.held = retain /\ @, !.multiplier = 1,
                       !.contract = NoContract, !.retained = retain])}

(***************************************************************************)
(* enable(m) with the contract k wanted this frame.  A suspended           *)
(* controller answers TRUE without generating.  When Reflex refuses, the   *)
(* mode just set is rolled back and a failure of the rollback is only      *)
(* logged: on may stay TRUE, and retained is what still accounts for it.   *)
(***************************************************************************)
RollBackEnable(c) ==
    {Refuse([c EXCEPT !.on = stuck, !.held = TRUE, !.multiplier = 1,
                      !.contract = NoContract, !.retained = TRUE])
        : stuck \in BOOLEAN}

ConfigureGeneration(c, m, k) ==
    [fg    |-> [c EXCEPT !.on = TRUE, !.held = TRUE, !.multiplier = m,
                         !.contract = k, !.retained = FALSE],
     ok    |-> TRUE,
     reset |-> c.multiplier > 1]

EnableOutcomes(c, m, k) ==
    IF ~c.ready \/ m < 2 \/ m > MaxMultiplier THEN {Refuse(c)}
    ELSE LET r == [c EXCEPT !.policy = RememberMultiplier(@, m)]
         IN  IF \/ Suspended(r.policy)
                \/ r.multiplier = m /\ r.contract = k
             THEN {Succeed(r)}
             ELSE {Refuse(r), ConfigureGeneration(r, m, k)}
                  \cup RollBackEnable(r)

(***************************************************************************)
(* suspend_impl.  The first GraceFrames unhealthy frames of a run are held *)
(* in the gate; only the following one becomes a guarded suspension.       *)
(***************************************************************************)
HeldByGrace(c, cause) ==
    /\ cause # "deterministic_gate"
    /\ c.policy.cause # "unhealthy_frame"
    /\ c.grace < GraceFrames

EnterSuspension(c, cause) ==
    [c EXCEPT
        !.grace = IF cause = "deterministic_gate" THEN 0
                  ELSE IF HeldByGrace(c, cause) THEN @ + 1 ELSE @,
        !.policy = IF cause = "deterministic_gate" \/ HeldByGrace(c, cause)
                   THEN EnterDeterministicGate(@)
                   ELSE EnterUnhealthyFrame(@)]

\* Already suspended: only a reset has something left to release.
SuspendAgain(s, retain) ==
    IF retain \/ ~s.retained THEN {Succeed(s)}
    ELSE {Refuse(s),
          Succeed([s EXCEPT !.on = FALSE, !.held = FALSE,
                            !.retained = FALSE])}

\* A refusal withdraws the suspension: the controller stays active.
SuspendActive(s, retain) ==
    {Refuse([s EXCEPT !.policy = MarkActive(@), !.grace = 0]),
     Succeed([s EXCEPT !.on = FALSE, !.held = retain /\ @, !.multiplier = 1,
                       !.contract = NoContract, !.retained = retain])}

SuspendOutcomes(c, retain, cause) ==
    IF ~c.ready THEN {Succeed(c)}
    ELSE LET s == EnterSuspension(c, cause)
         IN  IF Suspended(c.policy) THEN SuspendAgain(s, retain)
             ELSE IF c.multiplier <= 1 THEN {Succeed(s)}
             ELSE SuspendActive(s, retain)

SuspendForResetOutcomes(c) == SuspendOutcomes(c, FALSE, "unhealthy_frame")

SuspendForUnhealthyOutcomes(c) == SuspendOutcomes(c, TRUE, "unhealthy_frame")

RememberIfSupported(c, m) ==
    IF m \in 2 .. MaxMultiplier
    THEN [c EXCEPT !.policy = RememberMultiplier(@, m)] ELSE c

SuspendForGateOutcomes(c, m) ==
    SuspendOutcomes(RememberIfSupported(c, m), TRUE, "deterministic_gate")

-----------------------------------------------------------------------------
(***************************************************************************)
(* Leaving a suspension.  Both ways mark the policy active, call enable    *)
(* and fall back to a guarded suspension when it fails.                    *)
(***************************************************************************)
Activate(c) == [c EXCEPT !.policy = MarkActive(@), !.grace = 0]

GuardAgain(c) == [c EXCEPT !.policy = EnterUnhealthyFrame(@)]

EnableOrGuard(c, m, k) ==
    {IF o.ok THEN o ELSE Refuse(GuardAgain(o.fg))
        : o \in EnableOutcomes(c, m, k)}

ResumeFromGateOutcomes(c, m, k) ==
    IF ~c.ready \/ ~GateActive(c.policy) THEN {Refuse(c)}
    ELSE LET a == Activate(RememberIfSupported(c, m))
         IN  IF a.policy.desired < 2 THEN {Refuse(GuardAgain(a))}
             ELSE EnableOrGuard(a, a.policy.desired, k)

NotePresentationHealthy(c) ==
    IF c.ready THEN [c EXCEPT !.policy = NoteHealthyFrame(@)] ELSE c

\* m is the multiplier of the settings, used when none was remembered.
EffectiveDesiredMultiplier(c, m) ==
    IF c.policy.desired >= 2 THEN c.policy.desired ELSE m

ResumeIfEligibleOutcomes(c, m, k) ==
    IF ~c.ready \/ ~GuardedRecoveryEligible(c.policy) THEN {Refuse(c)}
    ELSE LET d == EffectiveDesiredMultiplier(c, m)
         IN  IF d < 2 THEN {Refuse(Activate(c))}
             ELSE EnableOrGuard(Activate(c), d, k)

\* reconfigure(): new extents after a resize, refused while generating.
ReconfigureOutcomes(c) ==
    IF ~c.ready \/ c.multiplier > 1 THEN {Refuse(c)}
    ELSE {Succeed([c EXCEPT !.contract = NoContract, !.retained = FALSE,
                            !.on = @ /\ ~c.retained,
                            !.held = @ /\ ~c.retained])}
         \cup (IF c.retained THEN {Refuse(c)} ELSE {})

-----------------------------------------------------------------------------
(***************************************************************************)
(* The controller on its own: any member function, in any order.           *)
(***************************************************************************)
Init == fg = NewController

Becomes(outcomes) == \E o \in outcomes : fg' = o.fg

Initialize == Becomes(InitializeOutcomes(fg))

Enable ==
    \E m \in Selectable, k \in Contracts :
        Becomes(EnableOutcomes(fg, m, k))

Suspend == Becomes(SuspendForUnhealthyOutcomes(fg))

SuspendForGate ==
    \E m \in Selectable : Becomes(SuspendForGateOutcomes(fg, m))

SuspendForReset == Becomes(SuspendForResetOutcomes(fg))

ResumeFromGate ==
    \E m \in Selectable, k \in Contracts :
        Becomes(ResumeFromGateOutcomes(fg, m, k))

NoteHealthy == fg' = NotePresentationHealthy(fg)

ResumeIfEligible ==
    \E m \in Selectable, k \in Contracts :
        Becomes(ResumeIfEligibleOutcomes(fg, m, k))

Reconfigure == Becomes(ReconfigureOutcomes(fg))

Shutdown == fg' = ShutdownOf(fg)

Next ==
    \/ Initialize
    \/ Enable
    \/ Suspend
    \/ SuspendForGate
    \/ SuspendForReset
    \/ ResumeFromGate
    \/ NoteHealthy
    \/ ResumeIfEligible
    \/ Reconfigure
    \/ Shutdown

Spec == Init /\ [][Next]_fg

-----------------------------------------------------------------------------
(***************************************************************************)
(* Properties of the controller.                                           *)
(***************************************************************************)

\* The controller keeps its shape: every member ranges over its type.
TypeOK == fg \in Controllers

\* Whatever calls were refused and whatever rollback failed on the way, a
\* runtime that generates or holds resources is one the controller knows
\* about: it either believes it generates, or remembers that something has
\* to be released before the swap chain is touched.
GenerationAccounted ==
    fg.on \/ fg.held => fg.multiplier > 1 \/ fg.retained

\* A suspension and a running multiplier exclude each other, through
\* refused suspensions, failed resumptions and contract changes: this is
\* why enable may answer TRUE while suspended without touching the runtime.
OffWhileSuspended ==
    Suspended(fg.policy) => fg.multiplier = 1

\* The eligibility flag is only ever seen when the guarded suspension it
\* ends was really served, by a clean run or by the watchdog.
EligibleEarned ==
    fg.policy.eligible =>
        /\ GuardedFailureActive(fg.policy)
        /\ \/ fg.policy.recovery >= GuardedFrames
           \/ fg.policy.healthy >= ForcedFrames

(***************************************************************************)
(* The controller implements its lifecycle.                                *)
(***************************************************************************)
PhaseOf(c) ==
    IF ~c.ready THEN "off"
    ELSE IF GuardedFailureActive(c.policy) THEN "guarded"
    ELSE IF GateActive(c.policy) THEN "gated"
    ELSE IF c.multiplier > 1 THEN "running"
    ELSE "idle"

Lifecycle ==
    INSTANCE GenerationLifecycle WITH
        phase  <- PhaseOf(fg),
        clean  <- fg.policy.recovery,
        served <- fg.policy.healthy

\* A guarded suspension is left only by serving it: neither a menu opened on
\* top of it, nor a renderer reset, a refused call, a failed resumption or a
\* further failure shortens it, and a gate never outranks it.
LifecycleSpec == Lifecycle!Spec
=============================================================================
