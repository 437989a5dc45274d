--------------------------- MODULE RecoveryPolicy ---------------------------
(***************************************************************************)
(* The suspension bookkeeping of DLSS frame generation, translated from    *)
(* src/streamline/FrameGenerationRecoveryPolicy.hpp.  A policy is a record *)
(* and every member function of the class is an operator on it.            *)
(*                                                                         *)
(* Two kinds of suspension are told apart.  A "deterministic_gate" (a menu *)
(* or a pause) may be left at the first complete frame.  An                *)
(* "unhealthy_frame" suspension is guarded: it has to be served, either by *)
(* GuardedFrames healthy reports since the last failure or, as a watchdog, *)
(* by ForcedFrames healthy reports in all.                                 *)
(***************************************************************************)
EXTENDS Naturals

CONSTANTS
    GuardedFrames,    \* kGuardedRecoveryFrames, 60 in the code
    ForcedFrames      \* kForcedRecoveryFrames, 900 in the code

ASSUME GuardedFramesAssumption == GuardedFrames \in Nat \ {0}
ASSUME ForcedFramesAssumption == ForcedFrames \in Nat \ {0}

Causes == {"none", "deterministic_gate", "unhealthy_frame"}

(***************************************************************************)
(* desired: desired_multiplier_; recovery: recovery_frames_; healthy:      *)
(* healthy_frames_while_suspended_; failed: failed_this_frame_.            *)
(***************************************************************************)
NewPolicy ==
    [desired |-> 1, cause |-> "none", recovery |-> 0, healthy |-> 0,
     eligible |-> FALSE, failed |-> FALSE]

MarkActive(p) ==
    [p EXCEPT !.cause = "none", !.recovery = 0, !.healthy = 0,
              !.eligible = FALSE, !.failed = FALSE]

RememberMultiplier(p, m) ==
    IF m >= 2 THEN [p EXCEPT !.desired = m] ELSE p

(***************************************************************************)
(* Slips of a kind the two entries below are exposed to, which the         *)
(* properties have to notice: the gate demotes a guarded suspension, or    *)
(* leaves the eligibility of one it interrupts; a failure also restarts    *)
(* the watchdog.                                                           *)
(***************************************************************************)
DemotingGate(p) ==
    [p EXCEPT !.cause = "deterministic_gate", !.recovery = 0,
              !.eligible = FALSE]

GateKeepingEligible(p) ==
    [p EXCEPT !.cause = IF @ = "none" THEN "deterministic_gate" ELSE @,
              !.recovery = 0]

FailureRestartingWatchdog(p) ==
    [p EXCEPT !.cause = "unhealthy_frame", !.recovery = 0, !.healthy = 0,
              !.eligible = FALSE, !.failed = TRUE]

\* The gate never demotes a guarded suspension, but it restarts its count.
EnterDeterministicGate(p) ==
    [p EXCEPT !.cause = IF @ = "none" THEN "deterministic_gate" ELSE @,
              !.recovery = 0, !.eligible = FALSE]

EnterUnhealthyFrame(p) ==
    [p EXCEPT !.cause = "unhealthy_frame", !.recovery = 0,
              !.eligible = FALSE, !.failed = TRUE]

\* The values a policy can take: a count of clean frames never exceeds the
\* threshold that ends it.
Policies ==
    [desired: Nat, cause: Causes, recovery: 0 .. GuardedFrames,
     healthy: 0 .. ForcedFrames, eligible: BOOLEAN, failed: BOOLEAN]

\* The code compares healthy_frames_while_suspended_ with ForcedFrames only,
\* so the count saturates there.
CountHealthy(n) == IF n < ForcedFrames THEN n + 1 ELSE n

NoteHealthyFrame(p) ==
    IF p.cause # "unhealthy_frame" \/ p.eligible
    THEN p
    ELSE LET waited == CountHealthy(p.healthy)
             clean  == IF p.failed THEN 0 ELSE p.recovery + 1
         IN  [p EXCEPT !.healthy  = waited,
                       !.recovery = clean,
                       !.failed   = FALSE,
                       !.eligible = clean >= GuardedFrames
                                    \/ waited >= ForcedFrames]

Suspended(p) == p.cause # "none"

GateActive(p) == p.cause = "deterministic_gate"

GuardedFailureActive(p) == p.cause = "unhealthy_frame"

GuardedRecoveryEligible(p) == GuardedFailureActive(p) /\ p.eligible
=============================================================================
