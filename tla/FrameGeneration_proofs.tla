----------------------- MODULE FrameGeneration_proofs -----------------------
(***************************************************************************)
(* Proofs about the DLSS-G controller of FrameGeneration, for any          *)
(* thresholds, any number of grace frames and any multiplier ceiling.      *)
(*                                                                         *)
(* Every member function is an operator from a controller to its possible  *)
(* outcomes, so the lemmas are about those operators: what the outcomes    *)
(* keep (Sound), and what they do to the counters of a suspension.  The    *)
(* theorems about the specification then take one action at a time.        *)
(***************************************************************************)
EXTENDS FrameGeneration, TLAPS

-----------------------------------------------------------------------------
(***************************************************************************)
(* What is known of a controller.  Accounted, Off and Earned are the       *)
(* properties of FrameGeneration; the others make them inductive.          *)
(***************************************************************************)
Accounted(c) == c.on \/ c.held => c.multiplier > 1 \/ c.retained

Off(c) == Suspended(c.policy) => c.multiplier = 1

Earned(c) ==
    c.policy.eligible =>
        /\ GuardedFailureActive(c.policy)
        /\ \/ c.policy.recovery >= GuardedFrames
           \/ c.policy.healthy >= ForcedFrames

\* Outside a guarded suspension nothing is counted.
Uncounted(c) ==
    ~GuardedFailureActive(c.policy) =>
        c.policy.recovery = 0 /\ c.policy.healthy = 0

\* A run long enough to serve the suspension has made it eligible.
Recognised(c) ==
    c.policy.recovery >= GuardedFrames => c.policy.eligible

\* A controller that is not ready was never asked for anything.
Unused(c) ==
    ~c.ready => c.multiplier = 1 /\ c.policy.cause = "none"

Sound(c) ==
    /\ c \in Controllers
    /\ Accounted(c)
    /\ Off(c)
    /\ Earned(c)
    /\ Uncounted(c)
    /\ Recognised(c)
    /\ Unused(c)

IInv == Sound(fg)

-----------------------------------------------------------------------------
(***************************************************************************)
(* Types.  Changing one member at a time keeps a policy or a controller.   *)
(***************************************************************************)
LEMMA PolicyUpdate ==
    ASSUME NEW p \in Policies
    PROVE  /\ \A x \in Nat : [p EXCEPT !.desired = x] \in Policies
           /\ \A x \in Causes : [p EXCEPT !.cause = x] \in Policies
           /\ [p EXCEPT !.recovery = 0] \in Policies
           /\ [p EXCEPT !.healthy = 0] \in Policies
           /\ \A x \in BOOLEAN : [p EXCEPT !.eligible = x] \in Policies
           /\ \A x \in BOOLEAN : [p EXCEPT !.failed = x] \in Policies
BY GuardedFramesAssumption, ForcedFramesAssumption DEF Policies

LEMMA ControllerUpdate ==
    ASSUME NEW c \in Controllers
    PROVE  /\ \A x \in BOOLEAN : [c EXCEPT !.ready = x] \in Controllers
           /\ \A x \in Multipliers : [c EXCEPT !.multiplier = x] \in Controllers
           /\ \A x \in Contracts \cup {NoContract} :
                  [c EXCEPT !.contract = x] \in Controllers
           /\ \A x \in BOOLEAN : [c EXCEPT !.retained = x] \in Controllers
           /\ \A x \in 0 .. GraceFrames : [c EXCEPT !.grace = x] \in Controllers
           /\ \A x \in BOOLEAN : [c EXCEPT !.on = x] \in Controllers
           /\ \A x \in BOOLEAN : [c EXCEPT !.held = x] \in Controllers
           /\ \A x \in Policies : [c EXCEPT !.policy = x] \in Controllers
BY DEF Controllers

LEMMA ControllerMembers ==
    ASSUME NEW c \in Controllers
    PROVE  /\ c.ready \in BOOLEAN
           /\ c.multiplier \in Multipliers
           /\ c.contract \in Contracts \cup {NoContract}
           /\ c.retained \in BOOLEAN
           /\ c.grace \in 0 .. GraceFrames
           /\ c.on \in BOOLEAN
           /\ c.held \in BOOLEAN
           /\ c.policy \in Policies
BY DEF Controllers

LEMMA PolicyMembers ==
    ASSUME NEW p \in Policies
    PROVE  /\ p.desired \in Nat
           /\ p.cause \in Causes
           /\ p.recovery \in 0 .. GuardedFrames
           /\ p.healthy \in 0 .. ForcedFrames
           /\ p.eligible \in BOOLEAN
           /\ p.failed \in BOOLEAN
BY DEF Policies

(***************************************************************************)
(* The member functions of the recovery policy.                            *)
(***************************************************************************)

\* Marking a policy active forgets the suspension but not the multiplier.
LEMMA MarkActiveLemma ==
    ASSUME NEW p \in Policies
    PROVE  LET q == MarkActive(p)
           IN  /\ q \in Policies
               /\ q.desired = p.desired
               /\ q.cause = "none"
               /\ q.recovery = 0
               /\ q.healthy = 0
               /\ ~q.eligible
<1>1. MarkActive(p) \in Policies
  <2>1. [p EXCEPT !.cause = "none", !.recovery = 0] \in Policies
    BY PolicyUpdate DEF Causes
  <2>2. [p EXCEPT !.cause = "none", !.recovery = 0, !.healthy = 0] \in Policies
    BY <2>1, PolicyUpdate
  <2> QED
    BY <2>2, PolicyUpdate, Zenon DEF MarkActive
<1>2. /\ MarkActive(p).desired = p.desired
      /\ MarkActive(p).cause = "none"
      /\ MarkActive(p).recovery = 0
      /\ MarkActive(p).healthy = 0
      /\ ~MarkActive(p).eligible
  BY DEF MarkActive, Policies
<1> QED
  BY <1>1, <1>2

LEMMA RememberLemma ==
    ASSUME NEW p \in Policies, NEW m \in Nat
    PROVE  LET q == RememberMultiplier(p, m)
           IN  /\ q \in Policies
               /\ q.cause = p.cause
               /\ q.recovery = p.recovery
               /\ q.healthy = p.healthy
               /\ q.eligible = p.eligible
BY PolicyUpdate DEF RememberMultiplier, Policies

\* A gate never takes a guarded suspension away, only its clean run.
LEMMA GateLemma ==
    ASSUME NEW p \in Policies
    PROVE  LET q == EnterDeterministicGate(p)
           IN  /\ q \in Policies
               /\ q.cause = IF p.cause = "none" THEN "deterministic_gate"
                            ELSE p.cause
               /\ q.recovery = 0
               /\ q.healthy = p.healthy
               /\ ~q.eligible
<1>1. EnterDeterministicGate(p) \in Policies
  <2>1. [p EXCEPT !.cause = IF p.cause = "none" THEN "deterministic_gate"
                            ELSE p.cause] \in Policies
    BY PolicyUpdate, PolicyMembers DEF Causes
  <2> QED
    BY <2>1, PolicyUpdate, Zenon DEF EnterDeterministicGate
<1>2. /\ EnterDeterministicGate(p).cause =
             IF p.cause = "none" THEN "deterministic_gate" ELSE p.cause
      /\ EnterDeterministicGate(p).recovery = 0
      /\ EnterDeterministicGate(p).healthy = p.healthy
      /\ ~EnterDeterministicGate(p).eligible
  BY DEF EnterDeterministicGate, Policies
<1> QED
  BY <1>1, <1>2

LEMMA UnhealthyLemma ==
    ASSUME NEW p \in Policies
    PROVE  LET q == EnterUnhealthyFrame(p)
           IN  /\ q \in Policies
               /\ q.cause = "unhealthy_frame"
               /\ q.recovery = 0
               /\ q.healthy = p.healthy
               /\ ~q.eligible
<1>1. EnterUnhealthyFrame(p) \in Policies
  <2>1. [p EXCEPT !.cause = "unhealthy_frame", !.recovery = 0] \in Policies
    BY PolicyUpdate DEF Causes
  <2> QED
    BY <2>1, PolicyUpdate, Zenon DEF EnterUnhealthyFrame
<1>2. /\ EnterUnhealthyFrame(p).cause = "unhealthy_frame"
      /\ EnterUnhealthyFrame(p).recovery = 0
      /\ EnterUnhealthyFrame(p).healthy = p.healthy
      /\ ~EnterUnhealthyFrame(p).eligible
  BY DEF EnterUnhealthyFrame, Policies
<1> QED
  BY <1>1, <1>2

\* A report counts in a guarded suspension that is not yet eligible, and
\* finds it eligible exactly when one of the counts has reached its end.
LEMMA HealthyLemma ==
    ASSUME NEW p \in Policies,
           p.recovery >= GuardedFrames => p.eligible,
           p.cause = "unhealthy_frame", ~p.eligible
    PROVE  LET q == NoteHealthyFrame(p)
           IN  /\ q \in Policies
               /\ q.cause = p.cause
               /\ q.recovery \in {0, p.recovery + 1}
               /\ q.healthy = IF p.healthy < ForcedFrames THEN p.healthy + 1
                              ELSE p.healthy
               /\ q.eligible <=> \/ q.recovery >= GuardedFrames
                                 \/ q.healthy >= ForcedFrames
<1> DEFINE waited == CountHealthy(p.healthy)
           clean  == IF p.failed THEN 0 ELSE p.recovery + 1
           done   == clean >= GuardedFrames \/ waited >= ForcedFrames
           q      == [p EXCEPT !.healthy = waited, !.recovery = clean,
                               !.failed = FALSE, !.eligible = done]
<1>1. NoteHealthyFrame(p) = q
  BY DEF NoteHealthyFrame
<1>2. /\ waited \in 0 .. ForcedFrames
      /\ waited = IF p.healthy < ForcedFrames THEN p.healthy + 1 ELSE p.healthy
  BY PolicyMembers, ForcedFramesAssumption DEF CountHealthy
<1>3. clean \in 0 .. GuardedFrames /\ clean \in {0, p.recovery + 1}
  BY PolicyMembers, GuardedFramesAssumption
<1>4. done \in BOOLEAN
  OBVIOUS
<1>5. q \in Policies
  <2> HIDE DEF waited, clean, done
  <2>1. [p EXCEPT !.healthy = waited] \in Policies
    BY <1>2 DEF Policies
  <2>2. ASSUME NEW r \in Policies PROVE [r EXCEPT !.recovery = clean] \in Policies
    BY <1>3 DEF Policies
  <2>3. [p EXCEPT !.healthy = waited, !.recovery = clean] \in Policies
    BY <2>1, <2>2
  <2> QED
    BY <2>3, <1>4, PolicyUpdate, Zenon
<1>6. /\ q.cause = p.cause
      /\ q.recovery = clean
      /\ q.healthy = waited
      /\ q.eligible = done
  <2> HIDE DEF waited, clean, done
  <2> QED
    BY DEF Policies
<1> QED
  BY <1>1, <1>2, <1>3, <1>5, <1>6

-----------------------------------------------------------------------------
(***************************************************************************)
(* The member functions of the controller.                                 *)
(***************************************************************************)

\* A new controller, and the one shutdown() leaves behind.
LEMMA NewControllerLemma == Sound(NewController)
<1>1. NewPolicy \in Policies
  BY GuardedFramesAssumption, ForcedFramesAssumption
  DEF NewPolicy, Policies, Causes
<1>2. NewController \in Controllers
  BY <1>1, MaxMultiplierAssumption, GraceFramesAssumption
  DEF NewController, Controllers, Multipliers
<1> QED
  BY <1>2, GuardedFramesAssumption
  DEF NewController, NewPolicy, Sound, Accounted, Off, Earned, Uncounted,
      Recognised, Unused, Suspended, GuardedFailureActive

LEMMA ShutdownLemma ==
    ASSUME NEW c \in Controllers
    PROVE  LET d == ShutdownOf(c)
           IN  /\ Sound(d)
               /\ ~d.ready
               /\ d.policy.recovery = 0
               /\ d.policy.healthy = 0
<1> DEFINE d == ShutdownOf(c)
<1>1. NewController \in Controllers
  BY NewControllerLemma DEF Sound
<1>2. d \in Controllers
  BY <1>1, ControllerUpdate, ControllerMembers DEF ShutdownOf
<1>3. /\ d.ready = FALSE
      /\ d.multiplier = 1
      /\ d.on = FALSE
      /\ d.held = FALSE
      /\ d.policy = NewPolicy
  BY <1>1 DEF ShutdownOf, NewController
<1> QED
  BY <1>2, <1>3, GuardedFramesAssumption
  DEF NewPolicy, Sound, Accounted, Off, Earned, Uncounted, Recognised, Unused,
      Suspended, GuardedFailureActive

\* Two controllers that agree on the suspension and its counters.
SamePolicy(c, d) ==
    /\ d.ready = c.ready
    /\ d.policy.cause = c.policy.cause
    /\ d.policy.recovery = c.policy.recovery
    /\ d.policy.healthy = c.policy.healthy
    /\ d.policy.eligible = c.policy.eligible

\* A controller whose generation is unchanged, or whose suspension is none,
\* stays sound when its policy does.
LEMMA SamePolicyLemma ==
    ASSUME NEW c, Sound(c), NEW d \in Controllers, SamePolicy(c, d),
           Accounted(d), Off(d), ~d.ready => d.multiplier = 1
    PROVE  Sound(d)
BY DEF Sound, SamePolicy, Earned, Uncounted, Recognised, Unused, Suspended,
       GuardedFailureActive

LEMMA RememberControllerLemma ==
    ASSUME NEW c, Sound(c), NEW m \in Nat
    PROVE  LET d == [c EXCEPT !.policy = RememberMultiplier(@, m)]
           IN  /\ Sound(d)
               /\ SamePolicy(c, d)
               /\ d.multiplier = c.multiplier
<1> DEFINE q == RememberMultiplier(c.policy, m)
           d == [c EXCEPT !.policy = q]
<1>1. c \in Controllers /\ c.policy \in Policies
  BY ControllerMembers DEF Sound
<1>2. /\ q \in Policies
      /\ q.cause = c.policy.cause
      /\ q.recovery = c.policy.recovery
      /\ q.healthy = c.policy.healthy
      /\ q.eligible = c.policy.eligible
  BY <1>1, RememberLemma
<1> HIDE DEF q
<1>3. d \in Controllers
  BY <1>1, <1>2, ControllerUpdate
<1>4. /\ d.policy = q
      /\ d.ready = c.ready
      /\ d.multiplier = c.multiplier
      /\ d.retained = c.retained
      /\ d.on = c.on
      /\ d.held = c.held
  BY <1>1 DEF Controllers
<1> HIDE DEF d
<1>5. SamePolicy(c, d)
  BY <1>2, <1>4 DEF SamePolicy
<1>6. Accounted(d) /\ Off(d) /\ (~d.ready => d.multiplier = 1)
  BY <1>2, <1>4 DEF Sound, Accounted, Off, Unused, Suspended
<1>7. Sound(d)
  BY <1>3, <1>5, <1>6, SamePolicyLemma
<1> QED
  BY <1>4, <1>5, <1>7 DEF d, q

LEMMA RememberIfSupportedLemma ==
    ASSUME NEW c, Sound(c), NEW m \in Nat
    PROVE  LET d == RememberIfSupported(c, m)
           IN  Sound(d) /\ SamePolicy(c, d) /\ d.multiplier = c.multiplier
<1>1. CASE m \in 2 .. MaxMultiplier
  BY <1>1, RememberControllerLemma DEF RememberIfSupported
<1>2. CASE m \notin 2 .. MaxMultiplier
  BY <1>2 DEF RememberIfSupported, SamePolicy
<1> QED
  BY <1>1, <1>2

(***************************************************************************)
(* enable() leaves the suspension alone, whatever comes of it; a refusal   *)
(* leaves a multiplier that was there before, or none.                     *)
(***************************************************************************)
LEMMA EnableLemma ==
    ASSUME NEW c, Sound(c), NEW m \in Nat, NEW k \in Contracts,
           NEW o \in EnableOutcomes(c, m, k)
    PROVE  /\ Sound(o.fg)
           /\ SamePolicy(c, o.fg)
           /\ ~o.ok => o.fg.multiplier \in {1, c.multiplier}
<1> DEFINE r == [c EXCEPT !.policy = RememberMultiplier(@, m)]
<1>1. Sound(r) /\ SamePolicy(c, r) /\ r.multiplier = c.multiplier
  BY RememberControllerLemma
<1>2. CASE ~c.ready \/ m < 2 \/ m > MaxMultiplier
  <2>1. o = Refuse(c)
    BY <1>2 DEF EnableOutcomes
  <2> QED
    BY <2>1 DEF Refuse, SamePolicy
<1>3. CASE ~(~c.ready \/ m < 2 \/ m > MaxMultiplier)
  <2> HIDE DEF r
  <2>1. r \in Controllers /\ r.ready
    BY <1>1, <1>3 DEF Sound, SamePolicy
  <2>2. \/ o = Succeed(r)
        \/ o = Refuse(r)
        \/ ~Suspended(r.policy)
              /\ (o = ConfigureGeneration(r, m, k) \/ o \in RollBackEnable(r))
    BY <1>3 DEF EnableOutcomes, r
  <2>3. CASE o = Succeed(r) \/ o = Refuse(r)
    BY <1>1, <2>3 DEF Succeed, Refuse
  <2>4. CASE o = ConfigureGeneration(r, m, k) /\ ~Suspended(r.policy)
    <3> DEFINE d == [r EXCEPT !.on = TRUE, !.held = TRUE, !.multiplier = m,
                              !.contract = k, !.retained = FALSE]
    <3>1. o.fg = d /\ o.ok
      BY <2>4 DEF ConfigureGeneration
    <3>2. m \in Multipliers
      BY <1>3, MaxMultiplierAssumption DEF Multipliers
    <3>3. [r EXCEPT !.on = TRUE, !.held = TRUE, !.multiplier = m]
              \in Controllers
      BY <2>1, <3>2, ControllerUpdate, Zenon
    <3>4. d \in Controllers
      BY <3>3, ControllerUpdate, Zenon
    <3>5. /\ d.policy = r.policy
          /\ d.ready = r.ready
          /\ d.multiplier = m
      BY <2>1 DEF Controllers
    <3> HIDE DEF d
    <3>6. SamePolicy(r, d)
      BY <3>5 DEF SamePolicy
    <3>7. Accounted(d) /\ Off(d) /\ (~d.ready => d.multiplier = 1)
      BY <1>3, <2>1, <2>4, <3>5 DEF Accounted, Off
    <3>8. Sound(d)
      BY <1>1, <3>4, <3>6, <3>7, SamePolicyLemma
    <3> QED
      BY <1>1, <3>1, <3>6, <3>8 DEF SamePolicy
  <2>5. CASE o \in RollBackEnable(r) /\ ~Suspended(r.policy)
    <3>1. PICK stuck \in BOOLEAN :
            o = Refuse([r EXCEPT !.on = stuck, !.held = TRUE, !.multiplier = 1,
                                 !.contract = NoContract, !.retained = TRUE])
      BY <2>5 DEF RollBackEnable
    <3> DEFINE d == [r EXCEPT !.on = stuck, !.held = TRUE, !.multiplier = 1,
                              !.contract = NoContract, !.retained = TRUE]
    <3>2. o.fg = d
      BY <3>1 DEF Refuse
    <3>3. 1 \in Multipliers
      BY MaxMultiplierAssumption DEF Multipliers
    <3>4. [r EXCEPT !.on = stuck, !.held = TRUE, !.multiplier = 1]
              \in Controllers
      BY <2>1, <3>3, ControllerUpdate, Zenon
    <3>5. d \in Controllers
      BY <3>4, ControllerUpdate, Zenon
    <3>6. /\ d.policy = r.policy
          /\ d.ready = r.ready
          /\ d.multiplier = 1
          /\ d.retained = TRUE
      BY <2>1 DEF Controllers
    <3> HIDE DEF d
    <3>7. SamePolicy(r, d)
      BY <3>6 DEF SamePolicy
    <3>8. Accounted(d) /\ Off(d) /\ (~d.ready => d.multiplier = 1)
      BY <3>6 DEF Accounted, Off
    <3>9. Sound(d)
      BY <1>1, <3>5, <3>7, <3>8, SamePolicyLemma
    <3> QED
      BY <1>1, <3>2, <3>6, <3>7, <3>9 DEF SamePolicy
  <2> QED
    BY <2>2, <2>3, <2>4, <2>5
<1> QED
  BY <1>2, <1>3

(***************************************************************************)
(* Suspending.  Entering the suspension changes the policy only.           *)
(***************************************************************************)
LEMMA EnterSuspensionLemma ==
    ASSUME NEW c, Sound(c), NEW cause \in {"deterministic_gate",
                                          "unhealthy_frame"}
    PROVE  LET s == EnterSuspension(c, cause)
           IN  /\ s \in Controllers
               /\ s.policy \in Policies
               /\ s.ready = c.ready
               /\ s.multiplier = c.multiplier
               /\ s.retained = c.retained
               /\ s.on = c.on
               /\ s.held = c.held
               /\ s.policy.cause # "none"
               /\ GuardedFailureActive(c.policy)
                      => GuardedFailureActive(s.policy)
               /\ s.policy.recovery = 0
               /\ s.policy.healthy = c.policy.healthy
               /\ ~s.policy.eligible
<1> DEFINE gated == cause = "deterministic_gate" \/ HeldByGrace(c, cause)
           g == IF cause = "deterministic_gate" THEN 0
                ELSE IF HeldByGrace(c, cause) THEN c.grace + 1 ELSE c.grace
           q == IF gated THEN EnterDeterministicGate(c.policy)
                ELSE EnterUnhealthyFrame(c.policy)
           s == [c EXCEPT !.grace = g, !.policy = q]
<1>1. c \in Controllers /\ c.policy \in Policies /\ c.policy.cause \in Causes
  BY ControllerMembers, PolicyMembers DEF Sound
<1>2. /\ q \in Policies
      /\ q.cause # "none"
      /\ GuardedFailureActive(c.policy) => q.cause = "unhealthy_frame"
      /\ q.recovery = 0
      /\ q.healthy = c.policy.healthy
      /\ ~q.eligible
  <2>1. CASE gated
    BY <1>1, <2>1, GateLemma DEF GuardedFailureActive, Causes
  <2>2. CASE ~gated
    BY <1>1, <2>2, UnhealthyLemma
  <2> QED
    BY <2>1, <2>2
<1>3. g \in 0 .. GraceFrames
  BY <1>1, ControllerMembers, GraceFramesAssumption DEF HeldByGrace
<1>4. EnterSuspension(c, cause) = s
  BY DEF EnterSuspension
<1> HIDE DEF g, q
<1>5. s \in Controllers
  BY <1>1, <1>2, <1>3, ControllerUpdate, Zenon
<1>6. /\ s.policy = q
      /\ s.ready = c.ready
      /\ s.multiplier = c.multiplier
      /\ s.retained = c.retained
      /\ s.on = c.on
      /\ s.held = c.held
  BY <1>1 DEF Controllers
<1> QED
  BY <1>2, <1>4, <1>5, <1>6 DEF GuardedFailureActive

\* A guarded suspension survives every suspension on top of it, with its
\* waiting time; none starts with anything counted.
SuspendedOver(c, d) ==
    /\ d.ready = c.ready
    /\ GuardedFailureActive(c.policy) => GuardedFailureActive(d.policy)
    /\ d.policy.recovery = 0
    /\ d.policy.healthy = c.policy.healthy

LEMMA SuspendLemma ==
    ASSUME NEW c, Sound(c), NEW retain \in BOOLEAN,
           NEW cause \in {"deterministic_gate", "unhealthy_frame"},
           NEW o \in SuspendOutcomes(c, retain, cause)
    PROVE  /\ Sound(o.fg)
           /\ o.fg = c \/ SuspendedOver(c, o.fg)
<1> DEFINE s == EnterSuspension(c, cause)
<1>1. /\ s \in Controllers
      /\ s.policy \in Policies
      /\ s.ready = c.ready
      /\ s.multiplier = c.multiplier
      /\ s.retained = c.retained
      /\ s.on = c.on
      /\ s.held = c.held
      /\ s.policy.cause # "none"
      /\ GuardedFailureActive(c.policy) => GuardedFailureActive(s.policy)
      /\ s.policy.recovery = 0
      /\ s.policy.healthy = c.policy.healthy
      /\ ~s.policy.eligible
  BY EnterSuspensionLemma
<1>2. CASE ~c.ready
  BY <1>2 DEF SuspendOutcomes, Succeed
<1> HIDE DEF s
<1>3. Uncounted(s)
  BY <1>1 DEF Sound, Uncounted
<1>4. ASSUME NEW d \in Controllers, c.ready, d.ready = s.ready,
             d.policy = s.policy, d.multiplier = 1, Accounted(d)
      PROVE  Sound(d) /\ SuspendedOver(c, d)
  <2>1. SuspendedOver(c, d)
    BY <1>1, <1>4 DEF SuspendedOver, GuardedFailureActive
  <2>2. Off(d) /\ Earned(d) /\ Uncounted(d)
    BY <1>1, <1>3, <1>4 DEF Off, Earned, Uncounted
  <2>3. Recognised(d) /\ Unused(d)
    BY <1>1, <1>4, GuardedFramesAssumption DEF Recognised, Unused
  <2> QED
    BY <1>4, <2>1, <2>2, <2>3 DEF Sound
<1>5. CASE c.ready /\ Suspended(c.policy)
  <2>1. s.multiplier = 1
    BY <1>1, <1>5 DEF Sound, Off
  <2>2. Accounted(s)
    BY <1>1 DEF Sound, Accounted
  <2>3. o.fg = s \/ o.fg = [s EXCEPT !.on = FALSE, !.held = FALSE,
                                      !.retained = FALSE]
    BY <1>5 DEF SuspendOutcomes, SuspendAgain, Succeed, Refuse, s
  <2> DEFINE d == [s EXCEPT !.on = FALSE, !.held = FALSE, !.retained = FALSE]
  <2>4. d \in Controllers
    BY <1>1, ControllerUpdate, Zenon
  <2>5. /\ d.ready = s.ready
        /\ d.policy = s.policy
        /\ d.multiplier = s.multiplier
        /\ d.on = FALSE
        /\ d.held = FALSE
    BY <1>1 DEF Controllers
  <2> HIDE DEF d
  <2>6. Accounted(d)
    BY <2>5 DEF Accounted
  <2>7. Sound(s) /\ SuspendedOver(c, s)
    BY <1>1, <1>4, <1>5, <2>1, <2>2
  <2>8. Sound(d) /\ SuspendedOver(c, d)
    BY <1>4, <1>5, <2>1, <2>4, <2>5, <2>6
  <2> QED
    BY <2>3, <2>7, <2>8 DEF d
<1>6. CASE c.ready /\ ~Suspended(c.policy) /\ c.multiplier <= 1
  <2>1. s.multiplier = 1
    BY <1>1, <1>6, MaxMultiplierAssumption DEF Controllers, Multipliers
  <2>2. Accounted(s)
    BY <1>1 DEF Sound, Accounted
  <2>3. o.fg = s
    BY <1>6 DEF SuspendOutcomes, Succeed, s
  <2> QED
    BY <1>1, <1>4, <1>6, <2>1, <2>2, <2>3
<1>7. CASE c.ready /\ ~Suspended(c.policy) /\ ~(c.multiplier <= 1)
  <2> DEFINE a == [s EXCEPT !.policy = MarkActive(@), !.grace = 0]
             d == [s EXCEPT !.on = FALSE, !.held = retain /\ @,
                            !.multiplier = 1, !.contract = NoContract,
                            !.retained = retain]
  <2>1. o.fg = a \/ o.fg = d
    BY <1>7 DEF SuspendOutcomes, SuspendActive, Succeed, Refuse, s
  <2>2. CASE o.fg = a
    <3> DEFINE q == MarkActive(s.policy)
    <3>1. /\ q \in Policies
          /\ q.cause = "none"
          /\ q.recovery = 0
          /\ q.healthy = 0
          /\ ~q.eligible
      BY <1>1, MarkActiveLemma
    <3> HIDE DEF q
    <3>2. 0 \in 0 .. GraceFrames
      BY GraceFramesAssumption
    <3>3. [s EXCEPT !.policy = q, !.grace = 0] \in Controllers
      BY <1>1, <3>1, <3>2, ControllerUpdate, Zenon
    <3>4. /\ a.policy = q
          /\ a.ready = s.ready
          /\ a.multiplier = s.multiplier
          /\ a.retained = s.retained
          /\ a.on = s.on
          /\ a.held = s.held
      BY <1>1 DEF Controllers, q
    <3>5. a \in Controllers
      BY <3>3 DEF q
    <3> HIDE DEF a
    <3>6. Sound(a)
      BY <1>1, <1>7, <3>1, <3>4, <3>5, GuardedFramesAssumption
      DEF Sound, Accounted, Off, Earned, Uncounted, Recognised, Unused,
          Suspended, GuardedFailureActive
    <3>7. SuspendedOver(c, a)
      BY <1>1, <1>7, <3>1, <3>4
      DEF Sound, Uncounted, SuspendedOver, Suspended, GuardedFailureActive
    <3> QED
      BY <2>2, <3>6, <3>7
  <2>3. CASE o.fg = d
    <3>1. 1 \in Multipliers /\ (retain /\ s.held) \in BOOLEAN
      BY MaxMultiplierAssumption DEF Multipliers
    <3>2. [s EXCEPT !.on = FALSE, !.held = retain /\ @, !.multiplier = 1]
              \in Controllers
      BY <1>1, <3>1, ControllerUpdate, Zenon
    <3>3. d \in Controllers
      BY <3>2, ControllerUpdate, Zenon
    <3>4. /\ d.policy = s.policy
          /\ d.ready = s.ready
          /\ d.multiplier = 1
          /\ d.on = FALSE
          /\ d.held = (retain /\ s.held)
          /\ d.retained = retain
      BY <1>1 DEF Controllers
    <3> HIDE DEF d
    <3>5. Accounted(d)
      BY <3>4 DEF Accounted
    <3> QED
      BY <1>4, <1>7, <2>3, <3>3, <3>4, <3>5
  <2> QED
    BY <2>1, <2>2, <2>3
<1> QED
  BY <1>2, <1>5, <1>6, <1>7

(***************************************************************************)
(* Resuming.  The suspension is forgotten first; a failure starts a new    *)
(* guarded one, with nothing counted, over a runtime that is off.          *)
(***************************************************************************)
LEMMA ActivateLemma ==
    ASSUME NEW c, Sound(c)
    PROVE  LET a == Activate(c)
           IN  /\ Sound(a)
               /\ a.ready = c.ready
               /\ a.multiplier = c.multiplier
               /\ a.policy \in Policies
               /\ a.policy.desired = c.policy.desired
               /\ a.policy.cause = "none"
               /\ a.policy.recovery = 0
               /\ a.policy.healthy = 0
<1> DEFINE q == MarkActive(c.policy)
           a == [c EXCEPT !.policy = q, !.grace = 0]
<1>1. c \in Controllers /\ c.policy \in Policies
  BY ControllerMembers DEF Sound
<1>2. /\ q \in Policies
      /\ q.desired = c.policy.desired
      /\ q.cause = "none"
      /\ q.recovery = 0
      /\ q.healthy = 0
      /\ ~q.eligible
  BY <1>1, MarkActiveLemma
<1>3. Activate(c) = a
  BY DEF Activate
<1> HIDE DEF q
<1>4. 0 \in 0 .. GraceFrames
  BY GraceFramesAssumption
<1>5. a \in Controllers
  BY <1>1, <1>2, <1>4, ControllerUpdate, Zenon
<1>6. /\ a.policy = q
      /\ a.ready = c.ready
      /\ a.multiplier = c.multiplier
      /\ a.retained = c.retained
      /\ a.on = c.on
      /\ a.held = c.held
  BY <1>1 DEF Controllers
<1> HIDE DEF a
<1>7. Accounted(a) /\ Off(a) /\ Earned(a)
  BY <1>2, <1>6 DEF Sound, Accounted, Off, Earned, Suspended
<1>8. Uncounted(a) /\ Recognised(a) /\ Unused(a)
  BY <1>2, <1>6, GuardedFramesAssumption
  DEF Sound, Uncounted, Recognised, Unused
<1> QED
  BY <1>2, <1>3, <1>5, <1>6, <1>7, <1>8 DEF Sound

LEMMA GuardAgainLemma ==
    ASSUME NEW c, Sound(c), c.ready, c.multiplier = 1,
           c.policy.healthy = 0
    PROVE  LET d == GuardAgain(c)
           IN  /\ Sound(d)
               /\ d.ready
               /\ GuardedFailureActive(d.policy)
               /\ d.policy.recovery = 0
               /\ d.policy.healthy = 0
<1> DEFINE q == EnterUnhealthyFrame(c.policy)
           d == [c EXCEPT !.policy = q]
<1>1. c \in Controllers /\ c.policy \in Policies
  BY ControllerMembers DEF Sound
<1>2. /\ q \in Policies
      /\ q.cause = "unhealthy_frame"
      /\ q.recovery = 0
      /\ q.healthy = 0
      /\ ~q.eligible
  BY <1>1, UnhealthyLemma
<1>3. GuardAgain(c) = d
  BY DEF GuardAgain
<1> HIDE DEF q
<1>4. d \in Controllers
  BY <1>1, <1>2, ControllerUpdate
<1>5. /\ d.policy = q
      /\ d.ready = c.ready
      /\ d.multiplier = c.multiplier
      /\ d.retained = c.retained
      /\ d.on = c.on
      /\ d.held = c.held
  BY <1>1 DEF Controllers
<1> HIDE DEF d
<1>6. Accounted(d) /\ Off(d) /\ Earned(d)
  BY <1>2, <1>5 DEF Sound, Accounted, Off, Earned
<1>7. Uncounted(d) /\ Recognised(d) /\ Unused(d)
  BY <1>2, <1>5, GuardedFramesAssumption
  DEF Uncounted, Recognised, Unused, GuardedFailureActive
<1> QED
  BY <1>2, <1>3, <1>4, <1>5, <1>6, <1>7 DEF Sound, GuardedFailureActive

\* What a recovery, or a try at one, leaves: no gate, and nothing counted.
Recovered(d) ==
    /\ d.ready
    /\ ~GateActive(d.policy)
    /\ d.policy.recovery = 0
    /\ d.policy.healthy = 0

LEMMA EnableOrGuardLemma ==
    ASSUME NEW c, Sound(c), c.ready, Suspended(c.policy),
           NEW m \in Nat, NEW k \in Contracts,
           NEW o \in EnableOrGuard(Activate(c), m, k)
    PROVE  Sound(o.fg) /\ Recovered(o.fg)
<1> DEFINE a == Activate(c)
<1>1. /\ Sound(a)
      /\ a.ready
      /\ a.multiplier = 1
      /\ a.policy.cause = "none"
      /\ a.policy.recovery = 0
      /\ a.policy.healthy = 0
  BY ActivateLemma DEF Sound, Off
<1>2. PICK e \in EnableOutcomes(a, m, k) :
        o = IF e.ok THEN e ELSE Refuse(GuardAgain(e.fg))
  BY DEF EnableOrGuard
<1> HIDE DEF a
<1>3. /\ Sound(e.fg)
      /\ SamePolicy(a, e.fg)
      /\ ~e.ok => e.fg.multiplier = 1
  BY <1>1, EnableLemma
<1>4. CASE e.ok
  BY <1>1, <1>2, <1>3, <1>4 DEF SamePolicy, Recovered, GateActive
<1>5. CASE ~e.ok
  <2>1. o.fg = GuardAgain(e.fg)
    BY <1>2, <1>5 DEF Refuse
  <2>2. e.fg.ready /\ e.fg.multiplier = 1 /\ e.fg.policy.healthy = 0
    BY <1>1, <1>3, <1>5 DEF SamePolicy
  <2>3. /\ Sound(GuardAgain(e.fg))
        /\ GuardAgain(e.fg).ready
        /\ GuardedFailureActive(GuardAgain(e.fg).policy)
        /\ GuardAgain(e.fg).policy.recovery = 0
        /\ GuardAgain(e.fg).policy.healthy = 0
    BY <1>3, <2>2, GuardAgainLemma
  <2> QED
    BY <2>1, <2>3 DEF Recovered, GuardedFailureActive, GateActive
<1> QED
  BY <1>4, <1>5

LEMMA ResumeFromGateLemma ==
    ASSUME NEW c, Sound(c), NEW m \in Nat, NEW k \in Contracts,
           NEW o \in ResumeFromGateOutcomes(c, m, k)
    PROVE  /\ Sound(o.fg)
           /\ \/ o.fg = c
              \/ c.ready /\ GateActive(c.policy) /\ Recovered(o.fg)
<1>1. CASE ~c.ready \/ ~GateActive(c.policy)
  BY <1>1 DEF ResumeFromGateOutcomes, Refuse
<1>2. CASE c.ready /\ GateActive(c.policy)
  <2> DEFINE r == RememberIfSupported(c, m)
             a == Activate(r)
  <2>1. /\ Sound(r)
        /\ r.ready
        /\ Suspended(r.policy)
        /\ r.multiplier = 1
    BY <1>2, RememberIfSupportedLemma
    DEF SamePolicy, Sound, Off, Suspended, GateActive
  <2>2. /\ Sound(a)
        /\ a.ready
        /\ a.multiplier = 1
        /\ a.policy.desired \in Nat
        /\ a.policy.healthy = 0
    BY <2>1, ActivateLemma, PolicyMembers
  <2>3. CASE a.policy.desired < 2
    <3>1. o.fg = GuardAgain(a)
      BY <1>2, <2>3 DEF ResumeFromGateOutcomes, Refuse
    <3> QED
      BY <1>2, <2>2, <3>1, GuardAgainLemma
      DEF Recovered, GuardedFailureActive, GateActive
  <2>4. CASE ~(a.policy.desired < 2)
    <3>1. o \in EnableOrGuard(a, a.policy.desired, k)
      BY <1>2, <2>4 DEF ResumeFromGateOutcomes
    <3> QED
      BY <1>2, <2>1, <2>2, <3>1, EnableOrGuardLemma
  <2> QED
    BY <2>3, <2>4
<1> QED
  BY <1>1, <1>2

LEMMA ResumeIfEligibleLemma ==
    ASSUME NEW c, Sound(c), NEW m \in Nat, NEW k \in Contracts,
           NEW o \in ResumeIfEligibleOutcomes(c, m, k)
    PROVE  /\ Sound(o.fg)
           /\ \/ o.fg = c
              \/ /\ c.ready
                 /\ GuardedRecoveryEligible(c.policy)
                 /\ Recovered(o.fg)
<1> DEFINE d == EffectiveDesiredMultiplier(c, m)
<1>1. CASE ~c.ready \/ ~GuardedRecoveryEligible(c.policy)
  BY <1>1 DEF ResumeIfEligibleOutcomes, Refuse
<1>2. CASE c.ready /\ GuardedRecoveryEligible(c.policy)
  <2>1. d \in Nat
    BY ControllerMembers, PolicyMembers DEF Sound, EffectiveDesiredMultiplier
  <2>2. Suspended(c.policy)
    BY <1>2 DEF GuardedRecoveryEligible, GuardedFailureActive, Suspended
  <2>3. CASE d < 2
    <3>1. o.fg = Activate(c)
      BY <1>2, <2>3 DEF ResumeIfEligibleOutcomes, Refuse
    <3> QED
      BY <1>2, <3>1, ActivateLemma DEF Recovered, GateActive
  <2>4. CASE ~(d < 2)
    <3>1. o \in EnableOrGuard(Activate(c), d, k)
      BY <1>2, <2>4 DEF ResumeIfEligibleOutcomes
    <3> QED
      BY <1>2, <2>1, <2>2, <3>1, EnableOrGuardLemma
  <2> QED
    BY <2>3, <2>4
<1> QED
  BY <1>1, <1>2

(***************************************************************************)
(* The other member functions.                                             *)
(***************************************************************************)

\* A report counts in a guarded suspension that is not yet eligible.
Reported(c, d) ==
    /\ c.ready /\ d.ready
    /\ GuardedFailureActive(c.policy) /\ GuardedFailureActive(d.policy)
    /\ c.policy.recovery < GuardedFrames
    /\ d.policy.recovery \in {0, c.policy.recovery + 1}
    /\ d.policy.healthy = IF c.policy.healthy < ForcedFrames
                          THEN c.policy.healthy + 1 ELSE c.policy.healthy

LEMMA NoteHealthyLemma ==
    ASSUME NEW c, Sound(c)
    PROVE  LET d == NotePresentationHealthy(c)
           IN  Sound(d) /\ (d = c \/ Reported(c, d))
<1>1. c \in Controllers /\ c.policy \in Policies
  BY ControllerMembers DEF Sound
<1>2. CASE ~c.ready
  BY <1>2 DEF NotePresentationHealthy
<1>3. CASE c.ready /\ (c.policy.cause # "unhealthy_frame" \/ c.policy.eligible)
  <2>1. NoteHealthyFrame(c.policy) = c.policy
    BY <1>3 DEF NoteHealthyFrame
  <2>2. [c EXCEPT !.policy = c.policy] = c
    BY <1>1 DEF Controllers
  <2> QED
    BY <1>3, <2>1, <2>2 DEF NotePresentationHealthy
<1>4. CASE /\ c.ready
           /\ c.policy.cause = "unhealthy_frame"
           /\ ~c.policy.eligible
  <2> DEFINE q == NoteHealthyFrame(c.policy)
             d == [c EXCEPT !.policy = q]
  <2>1. c.policy.recovery < GuardedFrames
    BY <1>1, <1>4, PolicyMembers, GuardedFramesAssumption DEF Sound, Recognised
  <2>2. /\ q \in Policies
        /\ q.cause = "unhealthy_frame"
        /\ q.recovery \in {0, c.policy.recovery + 1}
        /\ q.healthy = IF c.policy.healthy < ForcedFrames
                       THEN c.policy.healthy + 1 ELSE c.policy.healthy
        /\ q.eligible <=> \/ q.recovery >= GuardedFrames
                          \/ q.healthy >= ForcedFrames
    BY <1>1, <1>4, HealthyLemma DEF Sound, Recognised
  <2>3. NotePresentationHealthy(c) = d
    BY <1>4 DEF NotePresentationHealthy
  <2> HIDE DEF q
  <2>4. d \in Controllers
    BY <1>1, <2>2, ControllerUpdate
  <2>5. /\ d.policy = q
        /\ d.ready = c.ready
        /\ d.multiplier = c.multiplier
        /\ d.retained = c.retained
        /\ d.on = c.on
        /\ d.held = c.held
    BY <1>1 DEF Controllers
  <2> HIDE DEF d
  <2>6. Reported(c, d)
    BY <1>4, <2>1, <2>2, <2>5 DEF Reported, GuardedFailureActive
  <2>7. Accounted(d) /\ Off(d)
    BY <1>4, <2>5 DEF Sound, Accounted, Off, Suspended
  <2>8. Earned(d) /\ Uncounted(d) /\ Recognised(d) /\ Unused(d)
    BY <1>4, <2>2, <2>5
    DEF Earned, Uncounted, Recognised, Unused, GuardedFailureActive
  <2> QED
    BY <2>3, <2>4, <2>6, <2>7, <2>8 DEF Sound
<1> QED
  BY <1>2, <1>3, <1>4

LEMMA ReconfigureLemma ==
    ASSUME NEW c, Sound(c), NEW o \in ReconfigureOutcomes(c)
    PROVE  Sound(o.fg) /\ SamePolicy(c, o.fg)
<1> DEFINE d == [c EXCEPT !.contract = NoContract, !.retained = FALSE,
                          !.on = @ /\ ~c.retained,
                          !.held = @ /\ ~c.retained]
<1>1. c \in Controllers
  BY DEF Sound
<1>2. o.fg = c \/ (c.ready /\ c.multiplier <= 1 /\ o.fg = d)
  BY <1>1, MaxMultiplierAssumption
  DEF ReconfigureOutcomes, Succeed, Refuse, Controllers, Multipliers
<1>3. CASE o.fg = c
  BY <1>3 DEF SamePolicy
<1>4. CASE c.ready /\ c.multiplier <= 1 /\ o.fg = d
  <2>1. (c.on /\ ~c.retained) \in BOOLEAN /\ (c.held /\ ~c.retained) \in BOOLEAN
    OBVIOUS
  <2>2. [c EXCEPT !.contract = NoContract, !.retained = FALSE,
                  !.on = @ /\ ~c.retained] \in Controllers
    BY <1>1, <2>1, ControllerUpdate, Zenon
  <2>3. d \in Controllers
    BY <2>1, <2>2, ControllerUpdate, Zenon
  <2>4. /\ d.policy = c.policy
        /\ d.ready = c.ready
        /\ d.multiplier = c.multiplier
        /\ d.on = (c.on /\ ~c.retained)
        /\ d.held = (c.held /\ ~c.retained)
    BY <1>1 DEF Controllers
  <2> HIDE DEF d
  <2>5. SamePolicy(c, d)
    BY <2>4 DEF SamePolicy
  <2>6. c.multiplier = 1
    BY <1>1, <1>4, MaxMultiplierAssumption DEF Controllers, Multipliers
  <2>7. Accounted(d) /\ Off(d)
    BY <1>4, <2>4, <2>6 DEF Sound, Accounted, Off
  <2> QED
    BY <1>4, <2>3, <2>4, <2>5, <2>6, <2>7, SamePolicyLemma
<1> QED
  BY <1>2, <1>3, <1>4

LEMMA InitializeLemma ==
    ASSUME NEW c, Sound(c), NEW o \in InitializeOutcomes(c)
    PROVE  /\ Sound(o.fg)
           /\ \/ o.fg = c
              \/ o.fg = ShutdownOf(c)
              \/ /\ ~c.ready
                 /\ o.fg.ready
                 /\ o.fg.multiplier = 1
                 /\ o.fg.policy = c.policy
<1>1. c \in Controllers
  BY DEF Sound
<1>2. CASE c.ready
  BY <1>2 DEF InitializeOutcomes, Succeed
<1>3. CASE ~c.ready /\ o.fg = ShutdownOf(c)
  BY <1>1, <1>3, ShutdownLemma
<1>4. CASE ~c.ready /\ o.fg = [c EXCEPT !.ready = TRUE]
  <2> DEFINE d == [c EXCEPT !.ready = TRUE]
  <2>1. d \in Controllers
    BY <1>1, ControllerUpdate
  <2>2. /\ d.policy = c.policy
        /\ d.ready = TRUE
        /\ d.multiplier = c.multiplier
        /\ d.retained = c.retained
        /\ d.on = c.on
        /\ d.held = c.held
    BY <1>1 DEF Controllers
  <2>3. o.fg = d
    BY <1>4
  <2> HIDE DEF d
  <2>4. c.multiplier = 1 /\ c.policy.cause = "none"
    BY <1>4 DEF Sound, Unused
  <2>5. Accounted(d) /\ Off(d) /\ Earned(d)
    BY <2>2, <2>4 DEF Sound, Accounted, Off, Earned
  <2>6. Uncounted(d) /\ Recognised(d) /\ Unused(d)
    BY <2>2 DEF Sound, Uncounted, Recognised, Unused
  <2> QED
    BY <1>4, <2>1, <2>2, <2>3, <2>4, <2>5, <2>6 DEF Sound
<1>5. \/ c.ready
      \/ ~c.ready /\ o.fg = ShutdownOf(c)
      \/ ~c.ready /\ o.fg = [c EXCEPT !.ready = TRUE]
  <2>1. CASE ~c.ready
    <3>1. \/ o = Refuse(ShutdownOf(c))
          \/ o = Succeed([c EXCEPT !.ready = TRUE])
      BY <2>1 DEF InitializeOutcomes
    <3>2. Refuse(ShutdownOf(c)).fg = ShutdownOf(c)
      BY DEF Refuse
    <3>3. Succeed([c EXCEPT !.ready = TRUE]).fg = [c EXCEPT !.ready = TRUE]
      BY DEF Succeed
    <3> QED
      BY <2>1, <3>1, <3>2, <3>3, Zenon
  <2> QED
    BY <2>1, Zenon
<1> QED
  BY <1>2, <1>3, <1>4, <1>5

-----------------------------------------------------------------------------
(***************************************************************************)
(* One step of the specification: it keeps IInv, and it does to the        *)
(* suspension one of the things the lifecycle knows.                       *)
(***************************************************************************)
Started(c, d) ==
    ~c.ready /\ d.ready /\ d.multiplier = 1 /\ d.policy = c.policy

Stopped(d) == ~d.ready /\ d.policy.recovery = 0 /\ d.policy.healthy = 0

Moved(c, d) ==
    \/ SamePolicy(c, d)
    \/ Started(c, d)
    \/ Stopped(d)
    \/ SuspendedOver(c, d)
    \/ c.ready /\ GateActive(c.policy) /\ Recovered(d)
    \/ c.ready /\ GuardedRecoveryEligible(c.policy) /\ Recovered(d)
    \/ Reported(c, d)

LEMMA SelectableLemma == Selectable \subseteq Nat
BY MaxMultiplierAssumption DEF Selectable

LEMMA InitLemma == Init => IInv
BY NewControllerLemma DEF Init, IInv

LEMMA StepLemma ==
    ASSUME IInv, [Next]_fg
    PROVE  IInv' /\ Moved(fg, fg')
<1>1. Sound(fg) /\ fg \in Controllers
  BY DEF IInv, Sound
<1>2. ASSUME Sound(fg'), Moved(fg, fg') PROVE IInv' /\ Moved(fg, fg')
  BY <1>2 DEF IInv
<1>3. CASE Initialize
  <2>1. PICK o \in InitializeOutcomes(fg) : fg' = o.fg
    BY <1>3 DEF Initialize, Becomes
  <2>2. /\ Sound(o.fg)
        /\ o.fg = fg \/ o.fg = ShutdownOf(fg) \/ Started(fg, o.fg)
    BY <1>1, InitializeLemma DEF Started
  <2> QED
    BY <1>1, <1>2, <2>1, <2>2, ShutdownLemma DEF Moved, SamePolicy, Stopped
<1>4. CASE Enable
  <2>1. PICK m \in Selectable, k \in Contracts :
            \E o \in EnableOutcomes(fg, m, k) : fg' = o.fg
    BY <1>4 DEF Enable, Becomes
  <2>2. PICK o \in EnableOutcomes(fg, m, k) : fg' = o.fg
    BY <2>1
  <2> QED
    BY <1>1, <1>2, <2>2, EnableLemma, SelectableLemma DEF Moved
<1>5. CASE Suspend
  <2>1. PICK o \in SuspendOutcomes(fg, TRUE, "unhealthy_frame") : fg' = o.fg
    BY <1>5 DEF Suspend, Becomes, SuspendForUnhealthyOutcomes
  <2> QED
    BY <1>1, <1>2, <2>1, SuspendLemma DEF Moved, SamePolicy
<1>6. CASE SuspendForGate
  <2>1. PICK m \in Selectable :
            \E o \in SuspendForGateOutcomes(fg, m) : fg' = o.fg
    BY <1>6 DEF SuspendForGate, Becomes
  <2> DEFINE r == RememberIfSupported(fg, m)
  <2>2. PICK o \in SuspendOutcomes(r, TRUE, "deterministic_gate") : fg' = o.fg
    BY <2>1 DEF SuspendForGateOutcomes
  <2>3. Sound(r) /\ SamePolicy(fg, r)
    BY <1>1, RememberIfSupportedLemma, SelectableLemma
  <2> HIDE DEF r
  <2>4. Sound(o.fg) /\ (o.fg = r \/ SuspendedOver(r, o.fg))
    BY <2>2, <2>3, SuspendLemma
  <2>5. SuspendedOver(r, o.fg) => SuspendedOver(fg, o.fg)
    BY <2>3 DEF SuspendedOver, SamePolicy, GuardedFailureActive
  <2> QED
    BY <1>2, <2>2, <2>3, <2>4, <2>5 DEF Moved
<1>7. CASE SuspendForReset
  <2>1. PICK o \in SuspendOutcomes(fg, FALSE, "unhealthy_frame") : fg' = o.fg
    BY <1>7 DEF SuspendForReset, Becomes, SuspendForResetOutcomes
  <2> QED
    BY <1>1, <1>2, <2>1, SuspendLemma DEF Moved, SamePolicy
<1>8. CASE ResumeFromGate
  <2>1. PICK m \in Selectable, k \in Contracts :
            \E o \in ResumeFromGateOutcomes(fg, m, k) : fg' = o.fg
    BY <1>8 DEF ResumeFromGate, Becomes
  <2>2. PICK o \in ResumeFromGateOutcomes(fg, m, k) : fg' = o.fg
    BY <2>1
  <2>3. /\ Sound(o.fg)
        /\ \/ o.fg = fg
           \/ fg.ready /\ GateActive(fg.policy) /\ Recovered(o.fg)
    BY <1>1, ResumeFromGateLemma, SelectableLemma
  <2> QED
    BY <1>2, <2>2, <2>3 DEF Moved, SamePolicy
<1>9. CASE NoteHealthy
  BY <1>1, <1>2, <1>9, NoteHealthyLemma DEF NoteHealthy, Moved, SamePolicy
<1>10. CASE ResumeIfEligible
  <2>1. PICK m \in Selectable, k \in Contracts :
            \E o \in ResumeIfEligibleOutcomes(fg, m, k) : fg' = o.fg
    BY <1>10 DEF ResumeIfEligible, Becomes
  <2>2. PICK o \in ResumeIfEligibleOutcomes(fg, m, k) : fg' = o.fg
    BY <2>1
  <2>3. /\ Sound(o.fg)
        /\ \/ o.fg = fg
           \/ /\ fg.ready
              /\ GuardedRecoveryEligible(fg.policy)
              /\ Recovered(o.fg)
    BY <1>1, ResumeIfEligibleLemma, SelectableLemma
  <2> QED
    BY <1>2, <2>2, <2>3 DEF Moved, SamePolicy
<1>11. CASE Reconfigure
  <2>1. PICK o \in ReconfigureOutcomes(fg) : fg' = o.fg
    BY <1>11 DEF Reconfigure, Becomes
  <2> QED
    BY <1>1, <1>2, <2>1, ReconfigureLemma DEF Moved
<1>12. CASE Shutdown
  BY <1>1, <1>2, <1>12, ShutdownLemma DEF Shutdown, Moved, Stopped
<1>13. CASE UNCHANGED fg
  BY <1>1, <1>2, <1>13 DEF Moved, SamePolicy
<1> QED
  BY <1>3, <1>4, <1>5, <1>6, <1>7, <1>8, <1>9, <1>10, <1>11, <1>12, <1>13
  DEF Next

\* The inductive invariant, of every behaviour.
THEOREM Invariance == Spec => []IInv
<1>1. IInv /\ [Next]_fg => IInv'
  BY StepLemma
<1> QED
  BY <1>1, InitLemma, PTL DEF Spec

-----------------------------------------------------------------------------
(***************************************************************************)
(* The properties of the controller.                                       *)
(***************************************************************************)

\* The controller of FrameGeneration.cpp keeps its shape: no sequence of
\* calls takes a member out of its range, the clean run and the grace count
\* included.
THEOREM TypeCorrect == Spec => []TypeOK
<1>1. IInv => TypeOK
  BY DEF IInv, Sound, TypeOK
<1> QED
  BY <1>1, Invariance, PTL

\* A runtime that generates or holds resources is one the controller can
\* account for, through every refused call and failed rollback of enable(),
\* suspend_impl() and reconfigure().
THEOREM Accounting == Spec => []GenerationAccounted
<1>1. IInv => GenerationAccounted
  BY DEF IInv, Sound, Accounted, GenerationAccounted
<1> QED
  BY <1>1, Invariance, PTL

\* A suspended controller has no running multiplier, whichever of
\* suspend_impl() and the two resumes refused or failed on the way.
THEOREM SuspensionIsOff == Spec => []OffWhileSuspended
<1>1. IInv => OffWhileSuspended
  BY DEF IInv, Sound, Off, OffWhileSuspended
<1> QED
  BY <1>1, Invariance, PTL

\* resume_if_eligible() finds the flag only after the clean run or the
\* watchdog of FrameGenerationRecoveryPolicy has served the suspension.
THEOREM EligibilityIsEarned == Spec => []EligibleEarned
<1>1. IInv => EligibleEarned
  BY DEF IInv, Sound, Earned, EligibleEarned
<1> QED
  BY <1>1, Invariance, PTL

-----------------------------------------------------------------------------
(***************************************************************************)
(* The controller implements the lifecycle.                                *)
(***************************************************************************)
LEMMA LifecycleInit == Init => Lifecycle!Init
BY DEF Init, NewController, NewPolicy, PhaseOf, Lifecycle!Init

LEMMA LifecycleStep ==
    ASSUME IInv, Moved(fg, fg')
    PROVE  [Lifecycle!Next]_Lifecycle!vars
<1>1. /\ Sound(fg)
      /\ fg.policy.cause \in Causes
      /\ ~GuardedFailureActive(fg.policy) =>
             fg.policy.recovery = 0 /\ fg.policy.healthy = 0
      /\ ~fg.ready => fg.multiplier = 1 /\ fg.policy.cause = "none"
  BY ControllerMembers, PolicyMembers DEF IInv, Sound, Uncounted, Unused
<1>2. PhaseOf(fg') \in Lifecycle!Phases
  BY DEF PhaseOf, Lifecycle!Phases
<1>3. CASE SamePolicy(fg, fg')
  <2>1. fg'.policy.recovery = fg.policy.recovery
        /\ fg'.policy.healthy = fg.policy.healthy
    BY <1>3 DEF SamePolicy
  <2>2. \/ PhaseOf(fg') = PhaseOf(fg)
        \/ /\ PhaseOf(fg) \in {"idle", "running"}
           /\ PhaseOf(fg') \in {"idle", "running"}
    BY <1>3 DEF SamePolicy, PhaseOf, GuardedFailureActive, GateActive
  <2> QED
    BY <1>2, <2>1, <2>2
    DEF Lifecycle!Next, Lifecycle!Switch, Lifecycle!vars
<1>4. CASE Started(fg, fg')
  BY <1>1, <1>4
  DEF Started, PhaseOf, GuardedFailureActive, GateActive,
      Lifecycle!Next, Lifecycle!Start
<1>5. CASE Stopped(fg')
  BY <1>5 DEF Stopped, PhaseOf, Lifecycle!Next, Lifecycle!Stop
<1>6. CASE SuspendedOver(fg, fg')
  <2>1. CASE ~fg.ready
    BY <1>1, <1>6, <2>1
    DEF SuspendedOver, PhaseOf, GuardedFailureActive, Lifecycle!vars
  <2>2. CASE fg.ready /\ GuardedFailureActive(fg.policy)
    BY <1>6, <2>2
    DEF SuspendedOver, PhaseOf, Lifecycle!Next, Lifecycle!Relapse
  <2>3. CASE fg.ready /\ ~GuardedFailureActive(fg.policy)
    <3>1. /\ PhaseOf(fg) \in {"idle", "running", "gated"}
          /\ PhaseOf(fg') # "off"
      BY <1>6, <2>3 DEF SuspendedOver, PhaseOf
    <3> QED
      BY <1>1, <1>2, <1>6, <2>3, <3>1
      DEF SuspendedOver, Lifecycle!Next, Lifecycle!Switch
  <2> QED
    BY <2>1, <2>2, <2>3
<1>7. CASE fg.ready /\ GateActive(fg.policy) /\ Recovered(fg')
  <2>1. PhaseOf(fg) = "gated" /\ PhaseOf(fg') # "off"
    BY <1>7 DEF PhaseOf, Recovered, GateActive, GuardedFailureActive
  <2>2. fg.policy.recovery = 0 /\ fg.policy.healthy = 0
    BY <1>1, <1>7 DEF GateActive, GuardedFailureActive
  <2> QED
    BY <1>2, <1>7, <2>1, <2>2
    DEF Recovered, Lifecycle!Next, Lifecycle!Switch
<1>8. CASE fg.ready /\ GuardedRecoveryEligible(fg.policy) /\ Recovered(fg')
  <2>1. PhaseOf(fg) = "guarded"
        /\ PhaseOf(fg') \in {"idle", "running", "guarded"}
    BY <1>8 DEF PhaseOf, Recovered, GuardedRecoveryEligible
  <2>2. Lifecycle!Served
    BY <1>1, <1>8
    DEF Sound, Earned, GuardedRecoveryEligible, Lifecycle!Served
  <2> QED
    BY <1>8, <2>1, <2>2
    DEF Recovered, Lifecycle!Next, Lifecycle!Recover
<1>9. CASE Reported(fg, fg')
  BY <1>9
  DEF Reported, PhaseOf, Lifecycle!Next, Lifecycle!Report
<1> QED
  BY <1>3, <1>4, <1>5, <1>6, <1>7, <1>8, <1>9 DEF Moved

\* Every behaviour of the controller is one of GenerationLifecycle: a
\* guarded suspension is left, or started afresh, only by serving it.
THEOREM Refinement == Spec => LifecycleSpec
<1>1. IInv /\ [Next]_fg => [Lifecycle!Next]_Lifecycle!vars
  BY StepLemma, LifecycleStep
<1> QED
  BY <1>1, Invariance, LifecycleInit, PTL
  DEF Spec, LifecycleSpec, Lifecycle!Spec
-----------------------------------------------------------------------------
(***************************************************************************)
(* What a frame loop that calls the controller can rely on.  A rollback    *)
(* that may have left the runtime running is remembered in retained, and   *)
(* a controller is settled when it is suspended as long as that stands:    *)
(* then a reset that succeeds has released everything.  Between a failed   *)
(* enable() and the suspension that follows it, the controller is only     *)
(* fallen: retained, with no running multiplier.                           *)
(***************************************************************************)
Settled(c) == c.retained => Suspended(c.policy)

Fallen(c) == c.retained => Suspended(c.policy) \/ c.multiplier = 1

\* Suspending never starts the runtime, and settles a fallen controller.
LEMMA SuspendSettles ==
    ASSUME NEW c, Sound(c), NEW retain \in BOOLEAN,
           NEW cause \in {"deterministic_gate", "unhealthy_frame"},
           NEW o \in SuspendOutcomes(c, retain, cause),
           Settled(c) \/ (c.ready /\ Fallen(c))
    PROVE  /\ o.fg.ready = c.ready
           /\ o.fg.on => c.on
           /\ o.fg.held => c.held
           /\ Settled(o.fg)
<1> DEFINE s == EnterSuspension(c, cause)
<1>1. /\ s \in Controllers
      /\ s.ready = c.ready
      /\ s.multiplier = c.multiplier
      /\ s.retained = c.retained
      /\ s.on = c.on
      /\ s.held = c.held
      /\ s.policy.cause # "none"
  BY EnterSuspensionLemma
<1>2. CASE ~c.ready
  <2>1. o.fg = c
    BY <1>2 DEF SuspendOutcomes, Succeed
  <2> QED
    BY <1>2, <2>1
<1> HIDE DEF s
<1>3. Settled(s)
  BY <1>1 DEF Settled, Suspended
<1>4. CASE c.ready /\ Suspended(c.policy)
  <2> DEFINE d == [s EXCEPT !.on = FALSE, !.held = FALSE, !.retained = FALSE]
  <2>1. o.fg = s \/ o.fg = d
    BY <1>4 DEF SuspendOutcomes, SuspendAgain, Succeed, Refuse, s
  <2>2. d.ready = s.ready /\ ~d.on /\ ~d.held /\ ~d.retained
    BY <1>1 DEF Controllers
  <2> QED
    BY <1>1, <1>3, <2>1, <2>2 DEF Settled
<1>5. CASE c.ready /\ ~Suspended(c.policy) /\ c.multiplier <= 1
  <2>1. o.fg = s
    BY <1>5 DEF SuspendOutcomes, Succeed, s
  <2> QED
    BY <1>1, <1>3, <2>1
<1>6. CASE c.ready /\ ~Suspended(c.policy) /\ ~(c.multiplier <= 1)
  <2> DEFINE a == [s EXCEPT !.policy = MarkActive(@), !.grace = 0]
             d == [s EXCEPT !.on = FALSE, !.held = retain /\ @,
                            !.multiplier = 1, !.contract = NoContract,
                            !.retained = retain]
  <2>1. o.fg = a \/ o.fg = d
    BY <1>6 DEF SuspendOutcomes, SuspendActive, Succeed, Refuse, s
  <2>2. ~c.retained
    BY <1>6 DEF Settled, Fallen
  <2>3. /\ a.ready = s.ready
        /\ a.on = s.on
        /\ a.held = s.held
        /\ a.retained = s.retained
    BY <1>1 DEF Controllers
  <2>4. /\ d.ready = s.ready
        /\ ~d.on
        /\ d.held => s.held
        /\ d.policy = s.policy
    BY <1>1 DEF Controllers
  <2> HIDE DEF a, d
  <2>5. CASE o.fg = a
    BY <1>1, <2>2, <2>3, <2>5 DEF Settled
  <2>6. CASE o.fg = d
    BY <1>1, <2>4, <2>6 DEF Settled, Suspended
  <2> QED
    BY <2>1, <2>5, <2>6
<1> QED
  BY <1>2, <1>4, <1>5, <1>6

\* suspend_for_reset that answers TRUE has released a settled controller.
LEMMA ResetReleases ==
    ASSUME NEW c, Sound(c), Settled(c),
           NEW o \in SuspendForResetOutcomes(c), o.ok
    PROVE  ~o.fg.on /\ ~o.fg.held
<1> DEFINE s == EnterSuspension(c, "unhealthy_frame")
<1>1. /\ s \in Controllers
      /\ s.multiplier = c.multiplier
      /\ s.retained = c.retained
      /\ s.on = c.on
      /\ s.held = c.held
  BY EnterSuspensionLemma
<1>2. c \in Controllers /\ (~c.retained /\ c.multiplier = 1 => ~c.on /\ ~c.held)
  BY MaxMultiplierAssumption DEF Sound, Accounted, Controllers, Multipliers
<1>3. CASE ~c.ready
  <2>1. o.fg = c
    BY <1>3 DEF SuspendForResetOutcomes, SuspendOutcomes, Succeed
  <2> QED
    BY <1>2, <1>3, <2>1 DEF Sound, Unused, Settled, Suspended
<1> HIDE DEF s
<1>4. CASE c.ready /\ Suspended(c.policy)
  <2> DEFINE d == [s EXCEPT !.on = FALSE, !.held = FALSE, !.retained = FALSE]
  <2>1. o.fg = d \/ (o.fg = s /\ ~s.retained)
    BY <1>4
    DEF SuspendForResetOutcomes, SuspendOutcomes, SuspendAgain, Succeed, Refuse,
        s
  <2>2. ~d.on /\ ~d.held
    BY <1>1 DEF Controllers
  <2>3. c.multiplier = 1
    BY <1>4 DEF Sound, Off
  <2> QED
    BY <1>1, <1>2, <2>1, <2>2, <2>3
<1>5. CASE c.ready /\ ~Suspended(c.policy) /\ c.multiplier <= 1
  <2>1. o.fg = s
    BY <1>5 DEF SuspendForResetOutcomes, SuspendOutcomes, Succeed, s
  <2>2. c.multiplier = 1 /\ ~c.retained
    BY <1>2, <1>5, MaxMultiplierAssumption
    DEF Settled, Controllers, Multipliers
  <2> QED
    BY <1>1, <1>2, <2>1, <2>2
<1>6. CASE c.ready /\ ~Suspended(c.policy) /\ ~(c.multiplier <= 1)
  <2> DEFINE d == [s EXCEPT !.on = FALSE, !.held = FALSE /\ @,
                            !.multiplier = 1, !.contract = NoContract,
                            !.retained = FALSE]
  <2>1. o.fg = d
    BY <1>6
    DEF SuspendForResetOutcomes, SuspendOutcomes, SuspendActive, Succeed,
        Refuse, s
  <2>2. ~d.on /\ ~d.held
    BY <1>1 DEF Controllers
  <2> QED
    BY <2>1, <2>2
<1> QED
  BY <1>3, <1>4, <1>5, <1>6

\* enable() falls only when its rollback is what failed.
LEMMA EnableSettles ==
    ASSUME NEW c, Sound(c), NEW m \in Nat, NEW k \in Contracts,
           NEW o \in EnableOutcomes(c, m, k), Fallen(c)
    PROVE  /\ o.fg.ready = c.ready
           /\ Fallen(o.fg)
           /\ o.ok => Settled(o.fg)
<1> DEFINE r == [c EXCEPT !.policy = RememberMultiplier(@, m)]
<1>1. Sound(r) /\ SamePolicy(c, r) /\ r.multiplier = c.multiplier
  BY RememberControllerLemma
<1>2. r.retained = c.retained
  BY DEF Sound, Controllers
<1>3. CASE ~c.ready \/ m < 2 \/ m > MaxMultiplier
  <2>1. o = Refuse(c)
    BY <1>3 DEF EnableOutcomes
  <2>2. Refuse(c).fg = c /\ ~Refuse(c).ok
    BY DEF Refuse
  <2> QED
    BY <2>1, <2>2
<1>4. CASE ~(~c.ready \/ m < 2 \/ m > MaxMultiplier)
  <2> HIDE DEF r
  <2>1. r \in Controllers /\ Fallen(r) /\ r.ready = c.ready
    BY <1>1, <1>2 DEF Sound, SamePolicy, Fallen, Suspended
  <2>2. \/ /\ o = Succeed(r)
           /\ Suspended(r.policy) \/ r.multiplier = m
        \/ o = Refuse(r)
        \/ o = ConfigureGeneration(r, m, k)
        \/ o \in RollBackEnable(r)
    BY <1>4 DEF EnableOutcomes, r
  <2>3. CASE o = Succeed(r) /\ (Suspended(r.policy) \/ r.multiplier = m)
    <3>1. o.fg = r
      BY <2>3 DEF Succeed
    <3>2. Settled(r)
      BY <1>4, <2>1, <2>3 DEF Fallen, Settled
    <3> QED
      BY <2>1, <3>1, <3>2
  <2>4. CASE o = Refuse(r)
    BY <2>1, <2>4 DEF Refuse
  <2>5. CASE o = ConfigureGeneration(r, m, k)
    <3> DEFINE d == [r EXCEPT !.on = TRUE, !.held = TRUE, !.multiplier = m,
                              !.contract = k, !.retained = FALSE]
    <3>1. o.fg = d
      BY <2>5 DEF ConfigureGeneration
    <3>2. d.ready = r.ready /\ ~d.retained
      BY <2>1 DEF Controllers
    <3> HIDE DEF d
    <3> QED
      BY <2>1, <3>1, <3>2 DEF Fallen, Settled
  <2>6. CASE o \in RollBackEnable(r)
    <3>1. PICK stuck \in BOOLEAN :
            o = Refuse([r EXCEPT !.on = stuck, !.held = TRUE, !.multiplier = 1,
                                 !.contract = NoContract, !.retained = TRUE])
      BY <2>6 DEF RollBackEnable
    <3> DEFINE d == [r EXCEPT !.on = stuck, !.held = TRUE, !.multiplier = 1,
                              !.contract = NoContract, !.retained = TRUE]
    <3>2. o.fg = d /\ ~o.ok
      BY <3>1 DEF Refuse
    <3>3. d.ready = r.ready /\ d.multiplier = 1
      BY <2>1 DEF Controllers
    <3> HIDE DEF d
    <3> QED
      BY <2>1, <3>2, <3>3 DEF Fallen
  <2> QED
    BY <2>2, <2>3, <2>4, <2>5, <2>6
<1> QED
  BY <1>3, <1>4

\* Either way out of a suspension is settled again.
LEMMA EnableOrGuardSettles ==
    ASSUME NEW c, Sound(c), Suspended(c.policy),
           NEW m \in Nat, NEW k \in Contracts,
           NEW o \in EnableOrGuard(Activate(c), m, k)
    PROVE  o.fg.ready = c.ready /\ Settled(o.fg)
<1> DEFINE a == Activate(c)
<1>1. Sound(a) /\ a.ready = c.ready /\ a.multiplier = 1
  BY ActivateLemma DEF Sound, Off
<1>2. PICK e \in EnableOutcomes(a, m, k) :
        o = IF e.ok THEN e ELSE Refuse(GuardAgain(e.fg))
  BY DEF EnableOrGuard
<1> HIDE DEF a
<1>3. /\ Sound(e.fg)
      /\ e.fg.ready = c.ready
      /\ e.ok => Settled(e.fg)
  BY <1>1, EnableLemma, EnableSettles DEF Fallen
<1>4. CASE e.ok
  BY <1>2, <1>3, <1>4
<1>5. CASE ~e.ok
  <2> DEFINE g == GuardAgain(e.fg)
  <2>1. o.fg = g
    BY <1>2, <1>5 DEF Refuse
  <2>2. e.fg \in Controllers /\ e.fg.policy \in Policies
    BY <1>3, ControllerMembers DEF Sound
  <2>3. /\ g.ready = e.fg.ready
        /\ g.policy = EnterUnhealthyFrame(e.fg.policy)
    BY <2>2 DEF GuardAgain, Controllers
  <2>4. g.policy.cause = "unhealthy_frame"
    BY <2>2, <2>3, UnhealthyLemma
  <2> QED
    BY <1>3, <2>1, <2>3, <2>4 DEF Settled, Suspended
<1> QED
  BY <1>4, <1>5

LEMMA RememberSettles ==
    ASSUME NEW c, Sound(c), NEW m \in Nat
    PROVE  LET d == RememberIfSupported(c, m)
           IN  /\ d.ready = c.ready
               /\ Settled(c) => Settled(d)
<1>1. c \in Controllers
  BY DEF Sound
<1>2. RememberIfSupported(c, m).retained = c.retained
  BY <1>1 DEF RememberIfSupported, Controllers
<1> QED
  BY <1>2, RememberIfSupportedLemma DEF SamePolicy, Settled, Suspended

LEMMA ResumeFromGateSettles ==
    ASSUME NEW c, Sound(c), Settled(c), NEW m \in Nat, NEW k \in Contracts,
           NEW o \in ResumeFromGateOutcomes(c, m, k)
    PROVE  o.fg.ready = c.ready /\ Settled(o.fg)
<1>1. CASE ~c.ready \/ ~GateActive(c.policy)
  BY <1>1 DEF ResumeFromGateOutcomes, Refuse
<1>2. CASE c.ready /\ GateActive(c.policy)
  <2> DEFINE r == RememberIfSupported(c, m)
             a == Activate(r)
  <2>1. /\ Sound(r)
        /\ r.ready = c.ready
        /\ Suspended(r.policy)
    BY <1>2, RememberIfSupportedLemma DEF SamePolicy, Suspended, GateActive
  <2>2. /\ Sound(a)
        /\ a.ready = c.ready
        /\ a.multiplier = 1
        /\ a.policy.desired \in Nat
        /\ a.policy.healthy = 0
    BY <2>1, ActivateLemma, PolicyMembers DEF Sound, Off
  <2>3. CASE a.policy.desired < 2
    <3>1. o.fg = GuardAgain(a)
      BY <1>2, <2>3 DEF ResumeFromGateOutcomes, Refuse
    <3> QED
      BY <1>2, <2>2, <3>1, GuardAgainLemma
      DEF Settled, GuardedFailureActive, Suspended
  <2>4. CASE ~(a.policy.desired < 2)
    <3>1. o \in EnableOrGuard(a, a.policy.desired, k)
      BY <1>2, <2>4 DEF ResumeFromGateOutcomes
    <3> QED
      BY <2>1, <2>2, <3>1, EnableOrGuardSettles
  <2> QED
    BY <2>3, <2>4
<1> QED
  BY <1>1, <1>2

LEMMA ResumeIfEligibleSettles ==
    ASSUME NEW c, Sound(c), Settled(c), NEW m \in Nat, m >= 2,
           NEW k \in Contracts, NEW o \in ResumeIfEligibleOutcomes(c, m, k)
    PROVE  o.fg.ready = c.ready /\ Settled(o.fg)
<1> DEFINE d == EffectiveDesiredMultiplier(c, m)
<1>1. CASE ~c.ready \/ ~GuardedRecoveryEligible(c.policy)
  BY <1>1 DEF ResumeIfEligibleOutcomes, Refuse
<1>2. CASE c.ready /\ GuardedRecoveryEligible(c.policy)
  <2>1. d \in Nat /\ ~(d < 2)
    BY ControllerMembers, PolicyMembers DEF Sound, EffectiveDesiredMultiplier
  <2>2. Suspended(c.policy)
    BY <1>2 DEF GuardedRecoveryEligible, GuardedFailureActive, Suspended
  <2>3. o \in EnableOrGuard(Activate(c), d, k)
    BY <1>2, <2>1 DEF ResumeIfEligibleOutcomes
  <2> QED
    BY <2>1, <2>2, <2>3, EnableOrGuardSettles
<1> QED
  BY <1>1, <1>2

LEMMA NoteHealthySettles ==
    ASSUME NEW c, Sound(c), Settled(c)
    PROVE  LET d == NotePresentationHealthy(c)
           IN  /\ d.ready = c.ready
               /\ d.on = c.on
               /\ d.held = c.held
               /\ Settled(d)
<1> DEFINE d == NotePresentationHealthy(c)
<1>1. /\ d.ready = c.ready
      /\ d.on = c.on
      /\ d.held = c.held
      /\ d.retained = c.retained
  BY DEF Sound, NotePresentationHealthy, Controllers
<1>2. d = c \/ GuardedFailureActive(d.policy)
  BY NoteHealthyLemma DEF Reported
<1> HIDE DEF d
<1>3. Settled(d)
  BY <1>1, <1>2 DEF Settled, Suspended, GuardedFailureActive
<1> QED
  BY <1>1, <1>3 DEF d

LEMMA ReconfigureSettles ==
    ASSUME NEW c, Sound(c), Settled(c), NEW o \in ReconfigureOutcomes(c)
    PROVE  o.fg.ready = c.ready /\ Settled(o.fg)
<1> DEFINE d == [c EXCEPT !.contract = NoContract, !.retained = FALSE,
                          !.on = @ /\ ~c.retained,
                          !.held = @ /\ ~c.retained]
<1>1. o.fg = c \/ o.fg = d
  BY DEF ReconfigureOutcomes, Succeed, Refuse
<1>2. d.ready = c.ready /\ ~d.retained
  BY DEF Sound, Controllers
<1> QED
  BY <1>1, <1>2 DEF Settled

LEMMA ShutdownSettles ==
    Settled(NewController) /\ \A c : Settled(ShutdownOf(c))
BY DEF NewController, ShutdownOf, Settled

LEMMA InitializeSettles ==
    ASSUME NEW c, Sound(c), Settled(c), NEW o \in InitializeOutcomes(c)
    PROVE  Settled(o.fg) /\ (o.ok => o.fg.ready) /\ (~o.ok => ~o.fg.ready)
<1> DEFINE d == [c EXCEPT !.ready = TRUE]
<1>1. \/ c.ready /\ o = Succeed(c)
      \/ o = Refuse(ShutdownOf(c))
      \/ o = Succeed(d)
  BY DEF InitializeOutcomes
<1>2. d.ready /\ d.retained = c.retained /\ d.policy = c.policy
  BY DEF Sound, Controllers
<1>3. Settled(d)
  BY <1>2 DEF Settled
<1>4. ~ShutdownOf(c).ready
  BY DEF ShutdownOf, NewController
<1> HIDE DEF d
<1> QED
  BY <1>1, <1>2, <1>3, <1>4, ShutdownSettles DEF Succeed, Refuse

=============================================================================
