---------------------- MODULE VendorGeneration_proofs ----------------------
(***************************************************************************)
(* Proofs about a session with a vendor generator, VendorGeneration, for   *)
(* any number of back buffers and any number of frames that the runtime    *)
(* can interpolate: the generator and its chain go together, the switch is *)
(* never stranded off, no break of the history is interpolated over, and   *)
(* the runtime generates only what it was told and only from whole frames. *)
(*                                                                         *)
(* The lemmas follow the generator through the operators of                *)
(* VendorGenerators, and the bridge through those of PresentationHandoff;  *)
(* the theorems then take one action at a time.                            *)
(***************************************************************************)
EXTENDS VendorGeneration, TLAPS

-----------------------------------------------------------------------------
(***************************************************************************)
(* What is known of a generator.                                           *)
(***************************************************************************)
Generators ==
    [vendor : Vendors, status : Statuses, enabled : BOOLEAN,
     reset : BOOLEAN, context : BOOLEAN, live : BOOLEAN,
     frames : 0 .. MaxInterpolated, stale : BOOLEAN,
     made : [depth : Depths, display : 1 .. 2] \cup {Unmade},
     xell : SleepModes, ahead : BOOLEAN, owed : BOOLEAN,
     refused : BOOLEAN, twice : BOOLEAN]

\* Only an installed generator is live, and one that sleeps has a context.
Standing(g) ==
    /\ g \in Generators
    /\ g.live => Owns(g)
    /\ g.xell # "none" => g.context
    /\ g.xell # "high"
    /\ ~g.twice

\* It generates only with the switch on, unless it refused to stop, and a
\* break of the history is waiting to be told.
Disciplined(g) ==
    /\ g.live /\ ~g.refused => g.enabled
    /\ Owns(g) /\ g.enabled /\ g.owed => g.reset

SoundGen(g) == Standing(g) /\ Disciplined(g)

LEMMA NewGeneratorLemma ==
    ASSUME NEW v \in Vendors
    PROVE  LET g == NewGenerator(v)
           IN  /\ SoundGen(g)
               /\ g.vendor = v /\ g.enabled /\ ~g.live /\ ~Owns(g)
<1> DEFINE g == NewGenerator(v)
<1>1. g \in Generators
  BY InterpolatedAssumption
  DEF NewGenerator, Generators, Statuses, SleepModes
<1>2. /\ g.vendor = v /\ g.enabled /\ ~g.live /\ g.status = "inactive"
      /\ g.xell = "none" /\ ~g.twice
  BY DEF NewGenerator
<1> HIDE DEF g
<1>3. SoundGen(g) /\ ~Owns(g)
  BY <1>1, <1>2 DEF SoundGen, Standing, Disciplined, Owns
<1> QED
  BY <1>2, <1>3 DEF g

-----------------------------------------------------------------------------
(***************************************************************************)
(* The switch.                                                             *)
(***************************************************************************)
LEMMA ResetHistoryLemma ==
    ASSUME NEW g, Standing(g)
    PROVE  LET h == ResetHistory(g)
           IN  /\ Standing(h)
               /\ h.vendor = g.vendor
               /\ h.status = g.status
               /\ h.enabled = g.enabled
               /\ h.live = g.live
               /\ h.refused = g.refused
               /\ h.reset
               /\ Disciplined(g) => Disciplined(h)
<1> DEFINE h == ResetHistory(g)
<1>1. /\ h \in Generators
      /\ h.vendor = g.vendor
      /\ h.status = g.status
      /\ h.enabled = g.enabled
      /\ h.live = g.live
      /\ h.refused = g.refused
      /\ h.reset
      /\ h.xell = g.xell
      /\ h.context = g.context
      /\ h.twice = g.twice
  BY DEF Standing, Generators, ResetHistory, Break
<1> HIDE DEF h
<1>2. Standing(h) /\ (Disciplined(g) => Disciplined(h))
  BY <1>1 DEF Standing, Disciplined, Owns
<1> QED
  BY <1>1, <1>2 DEF h

\* Two generators that differ only in what the switch changes.
SameMake(g, s) ==
    /\ s \in Generators
    /\ s.vendor = g.vendor
    /\ s.status = g.status
    /\ s.xell = g.xell
    /\ s.context = g.context
    /\ s.twice = g.twice

LEMMA StopLemma ==
    ASSUME NEW g \in Generators, NEW s \in StopOutcomes(g)
    PROVE  /\ SameMake(g, s)
           /\ s.enabled = g.enabled
           /\ s.reset = g.reset
           /\ s.owed = g.owed
           /\ s.live => g.live
           /\ s.live => s.refused
<1>1. \/ s = [g EXCEPT !.live = FALSE, !.refused = FALSE]
      \/ s = [g EXCEPT !.refused = g.live]
  BY DEF StopOutcomes
<1>2. CASE s = [g EXCEPT !.live = FALSE, !.refused = FALSE]
  BY <1>2 DEF Generators, SameMake
<1>3. CASE s = [g EXCEPT !.refused = g.live]
  BY <1>3 DEF Generators, SameMake
<1> QED
  BY <1>1, <1>2, <1>3

\* Whoever turns the switch leaves a sound generator, whatever the runtime
\* answers; FSR is never started by it.
LEMMA SetEnabledLemma ==
    ASSUME NEW g, Standing(g), NEW on \in BOOLEAN, NEW s \in SetEnabled(g, on)
    PROVE  /\ SoundGen(s)
           /\ s.enabled = on
           /\ s.vendor = g.vendor
           /\ s.status = g.status
           /\ g.vendor = "fsr" /\ s.live /\ ~s.refused =>
                  g.live /\ ~g.refused
<1> DEFINE b == Break(g)
           x == [b EXCEPT !.enabled = on, !.reset = @ \/ on]
           f == [b EXCEPT !.enabled = on, !.reset = @ \/ (on /\ Owns(b))]
<1>1. /\ SameMake(g, b)
      /\ b.live = g.live
      /\ b.refused = g.refused
      /\ b.owed
  BY DEF Standing, Generators, Break, SameMake
<1> HIDE DEF b
<1>2. /\ SameMake(b, x)
      /\ x.live = b.live
      /\ x.refused = b.refused
      /\ x.enabled = on
      /\ on => x.reset
  BY <1>1 DEF Generators, SameMake
<1>3. /\ SameMake(b, f)
      /\ f.live = b.live
      /\ f.refused = b.refused
      /\ f.enabled = on
      /\ on /\ Owns(b) => f.reset
  BY <1>1 DEF Generators, SameMake
<1>4. \/ g.vendor = "xess" /\ s \in SwitchXess(b, on)
      \/ g.vendor # "xess" /\ s \in SwitchFsr(b, on)
  BY DEF SetEnabled, b
<1>5. \/ s = x /\ (~Owns(b) \/ on)
      \/ g.vendor = "xess" /\ on /\ s = [x EXCEPT !.live = TRUE,
                                                  !.refused = FALSE]
                /\ Owns(b)
      \/ ~on /\ s \in StopOutcomes(x)
      \/ s = f /\ (~Owns(b) \/ on)
      \/ ~on /\ s \in StopOutcomes(f)
  BY <1>4 DEF SwitchXess, SwitchFsr, StartOutcomes, Owns
<1> HIDE DEF x, f
<1>6. ASSUME NEW t, SameMake(b, t), t.live = b.live, t.refused = b.refused,
             t.enabled = on, on /\ Owns(b) => t.reset
      PROVE  /\ t \in Generators
             /\ ~Owns(b) \/ on => SoundGen(t)
             /\ t.live => Owns(t)
             /\ t.vendor = g.vendor /\ t.status = g.status
             /\ t.xell # "none" => t.context
             /\ t.xell # "high" /\ ~t.twice
  BY <1>1, <1>6
  DEF SameMake, Standing, SoundGen, Disciplined, Owns
<1>7. CASE s = x /\ (~Owns(b) \/ on)
  BY <1>1, <1>2, <1>6, <1>7
<1>8. CASE s = f /\ (~Owns(b) \/ on)
  BY <1>1, <1>3, <1>6, <1>8
<1>9. ASSUME NEW t, SameMake(b, t), t.live = b.live, t.refused = b.refused,
             t.enabled = on, on /\ Owns(b) => t.reset,
             ~on, s \in StopOutcomes(t)
      PROVE  /\ SoundGen(s)
             /\ s.enabled = on
             /\ s.vendor = g.vendor
             /\ s.status = g.status
             /\ ~s.live \/ s.refused
  <2>1. /\ t \in Generators
        /\ t.live => Owns(t)
        /\ t.vendor = g.vendor /\ t.status = g.status
        /\ t.xell # "none" => t.context
        /\ t.xell # "high" /\ ~t.twice
    BY <1>6, <1>9
  <2>2. /\ SameMake(t, s)
        /\ s.enabled = t.enabled
        /\ s.live => t.live
        /\ s.live => s.refused
    BY <1>9, <2>1, StopLemma
  <2> QED
    BY <1>9, <2>1, <2>2 DEF SameMake, SoundGen, Standing, Disciplined, Owns
<1>10. CASE ~on /\ s \in StopOutcomes(x)
  BY <1>2, <1>9, <1>10
<1>11. CASE ~on /\ s \in StopOutcomes(f)
  BY <1>3, <1>9, <1>11
<1>12. CASE /\ g.vendor = "xess" /\ on
            /\ s = [x EXCEPT !.live = TRUE, !.refused = FALSE]
            /\ Owns(b)
  <2>1. /\ SameMake(x, s)
        /\ s.live /\ s.enabled = x.enabled /\ s.reset = x.reset
    BY <1>2, <1>12 DEF SameMake, Generators
  <2>2. /\ x.vendor = g.vendor /\ x.status = g.status
        /\ x.xell # "none" => x.context
        /\ x.xell # "high" /\ ~x.twice
    BY <1>2, <1>6
  <2> QED
    BY <1>1, <1>2, <1>12, <2>1, <2>2
    DEF SameMake, SoundGen, Standing, Disciplined, Owns
<1> QED
  BY <1>5, <1>7, <1>8, <1>10, <1>11, <1>12
-----------------------------------------------------------------------------
(***************************************************************************)
(* Latency and frames.                                                     *)
(***************************************************************************)

\* What no call but the switch and an installation changes.
SameStanding(g, h) ==
    /\ h.vendor = g.vendor
    /\ h.status = g.status
    /\ h.enabled = g.enabled

LEMMA BeginLatencyFrameLemma ==
    ASSUME NEW g, SoundGen(g)
    PROVE  LET h == BeginLatencyFrame(g)
           IN  /\ SoundGen(h) /\ SameStanding(g, h)
               /\ h.live = g.live /\ h.refused = g.refused
<1> DEFINE h == BeginLatencyFrame(g)
<1>1. /\ h \in Generators /\ SameStanding(g, h)
      /\ h.live = g.live /\ h.refused = g.refused
      /\ h.reset = g.reset /\ h.owed = g.owed
      /\ h.xell = g.xell /\ h.context = g.context /\ h.twice = g.twice
  BY DEF SoundGen, Standing, Generators, BeginLatencyFrame, SameStanding
<1> HIDE DEF h
<1>2. SoundGen(h)
  BY <1>1 DEF SoundGen, Standing, Disciplined, SameStanding, Owns
<1> QED
  BY <1>1, <1>2 DEF h

\* A generator with a latency context has a context, and so needs low latency.
LEMMA LimitedLemma ==
    ASSUME NEW g, SoundGen(g), NEW h \in Limited(g)
    PROVE  /\ SoundGen(h) /\ SameStanding(g, h)
           /\ h.live = g.live /\ h.refused = g.refused
<1>1. CASE h = g
  BY <1>1 DEF SameStanding
<1>2. ASSUME h # g
      PROVE  g.xell # "none" /\ \E low \in BOOLEAN :
                 h = [g EXCEPT !.xell = SleepMode(g, low)]
  BY <1>2 DEF Limited, SleepOutcomes
<1>3. CASE h # g
  <2>1. g.context
    BY <1>2, <1>3 DEF SoundGen, Standing
  <2>2. h = [g EXCEPT !.xell = "low"]
    BY <1>2, <1>3, <2>1 DEF SleepMode
  <2>3. /\ h \in Generators /\ SameStanding(g, h)
        /\ h.live = g.live /\ h.refused = g.refused
        /\ h.reset = g.reset /\ h.owed = g.owed
        /\ h.xell = "low" /\ h.context = g.context /\ h.twice = g.twice
    BY <2>2 DEF SoundGen, Standing, Generators, SameStanding, SleepModes
  <2> QED
    BY <2>1, <2>3 DEF SoundGen, Standing, Disciplined, SameStanding, Owns
<1> QED
  BY <1>1, <1>3

\* The frame is given an id of its own, so none is tagged twice.
LEMMA TagIdLemma ==
    ASSUME NEW g \in Generators
    PROVE  LET h == TagId(g)
           IN  /\ SameMake(g, h) /\ h.enabled = g.enabled
               /\ h.live = g.live /\ h.refused = g.refused
               /\ h.reset = g.reset /\ h.owed = g.owed
<1> DEFINE a == AdvanceId(g)
<1>1. /\ SameMake(g, a) /\ a.enabled = g.enabled
      /\ a.live = g.live /\ a.refused = g.refused
      /\ a.reset = g.reset /\ a.owed = g.owed
      /\ a.ahead
  BY DEF AdvanceId, Generators, SameMake
<1>2. TagId(g) = [a EXCEPT !.ahead = FALSE, !.twice = @ \/ ~a.ahead]
  BY DEF TagId
<1> HIDE DEF a
<1>3. a \in Generators
  BY <1>1 DEF SameMake
<1>4. /\ SameMake(a, TagId(g)) /\ TagId(g).enabled = a.enabled
      /\ TagId(g).live = a.live /\ TagId(g).refused = a.refused
      /\ TagId(g).reset = a.reset /\ TagId(g).owed = a.owed
  <2>1. TagId(g) = [a EXCEPT !.ahead = FALSE]
    BY <1>1, <1>2, <1>3 DEF Generators
  <2> QED
    BY <1>3, <2>1 DEF SameMake, Generators
<1> QED
  BY <1>1, <1>4 DEF SameMake

\* A frame that carries the pending reset owes none any more.
LEMMA TakeResetLemma ==
    ASSUME NEW g, Standing(g), Disciplined(g), g.enabled, Owns(g)
    PROVE  LET h == TakeReset(g)
           IN  /\ SoundGen(h) /\ SameStanding(g, h)
               /\ h.live = g.live /\ h.refused = g.refused
<1> DEFINE h == TakeReset(g)
<1>1. /\ h \in Generators /\ SameMake(g, h) /\ h.enabled = g.enabled
      /\ h.live = g.live /\ h.refused = g.refused
      /\ h.owed = (g.owed /\ ~g.reset)
  BY DEF Standing, Generators, TakeReset, SameMake
<1> HIDE DEF h
<1>2. ~h.owed
  BY <1>1 DEF Disciplined
<1>3. SoundGen(h) /\ SameStanding(g, h)
  BY <1>1, <1>2
  DEF SoundGen, Standing, Disciplined, SameMake, SameStanding, Owns
<1> QED
  BY <1>1, <1>3 DEF h

\* A generator that is made whole by one that differs from a sound one at
\* most in what the runtime was told.
LEMMA SoundKin ==
    ASSUME NEW g, SoundGen(g), NEW h, SameMake(g, h),
           h.enabled = g.enabled, h.reset = g.reset, h.owed = g.owed,
           h.live => Owns(g), h.live /\ ~h.refused => g.enabled
    PROVE  SoundGen(h) /\ SameStanding(g, h)
BY DEF SoundGen, Standing, Disciplined, SameMake, SameStanding, Owns

LEMMA SuppressLemma ==
    ASSUME NEW g, SoundGen(g), Owns(g), NEW h \in Suppress(g)
    PROVE  /\ SoundGen(h) /\ SameStanding(g, h)
           /\ ~h.live \/ h.refused
<1>1. /\ SameMake(g, h)
      /\ h.enabled = g.enabled
      /\ h.reset = g.reset
      /\ h.owed = g.owed
      /\ h.live => h.refused
  BY StopLemma DEF SoundGen, Standing, Suppress
<1> QED
  BY <1>1, SoundKin

\* What a submission leaves: a frame that is not whole never leaves FSR
\* configured for it, and one that is left out keeps the reset.
LEMMA SubmitLemma ==
    ASSUME NEW g, SoundGen(g), NEW s \in SubmitOutcomes(g)
    PROVE  /\ SoundGen(s.gen) /\ SameStanding(g, s.gen)
           /\ s.ok \in BOOLEAN
           /\ g.vendor = "fsr" /\ s.gen.live /\ ~s.gen.refused => s.ok
<1>1. CASE ~Owns(g) \/ ~g.enabled
  <2>1. s.gen = g /\ s.ok = FALSE
    BY <1>1 DEF SubmitOutcomes, Submitted
  <2>2. ~g.live \/ g.refused
    BY <1>1 DEF SoundGen, Standing, Disciplined
  <2> QED
    BY <2>1, <2>2 DEF SameStanding
<1>2. CASE Owns(g) /\ g.enabled /\ g.vendor = "xess"
  <2> DEFINE t == TagId(g)
  <2>1. /\ SameMake(g, t) /\ t.enabled = g.enabled
        /\ t.live = g.live /\ t.refused = g.refused
        /\ t.reset = g.reset /\ t.owed = g.owed
    BY TagIdLemma DEF SoundGen, Standing
  <2>2. \/ s.gen = g /\ s.ok = FALSE
        \/ s.gen = t /\ s.ok = FALSE
        \/ s.gen = TakeReset(t) /\ s.ok = TRUE
    BY <1>2 DEF SubmitOutcomes, SubmitXess, Submitted
  <2> HIDE DEF t
  <2>3. SoundGen(t) /\ SameStanding(g, t)
    BY <2>1, SoundKin DEF SoundGen, Standing, Disciplined
  <2>4. SoundGen(TakeReset(t)) /\ SameStanding(t, TakeReset(t))
    BY <1>2, <2>3, TakeResetLemma DEF SoundGen, SameStanding, Owns
  <2> QED
    BY <1>2, <2>2, <2>3, <2>4 DEF SameStanding
<1>3. CASE Owns(g) /\ g.enabled /\ g.vendor # "xess"
  <2> DEFINE on == [g EXCEPT !.live = TRUE, !.refused = FALSE]
  <2>1. /\ SameMake(g, on) /\ on.enabled = g.enabled
        /\ on.reset = g.reset /\ on.owed = g.owed
    BY DEF SoundGen, Standing, Generators, SameMake
  <2>2. \/ s.gen = TakeReset(on) /\ s.ok = TRUE
        \/ s.gen \in Suppress(g) /\ s.ok = FALSE
        \/ s.gen \in Suppress(on) /\ s.ok = FALSE
    BY <1>3 DEF SubmitOutcomes, SubmitFsr, Submitted
  <2> HIDE DEF on
  <2>3. SoundGen(on) /\ SameStanding(g, on) /\ Owns(on)
    BY <1>3, <2>1, SoundKin DEF SameMake, Owns
  <2>4. SoundGen(TakeReset(on)) /\ SameStanding(on, TakeReset(on))
    BY <1>3, <2>3, TakeResetLemma DEF SoundGen, SameStanding
  <2>5. ASSUME s.gen \in Suppress(g)
        PROVE  SoundGen(s.gen) /\ SameStanding(g, s.gen)
               /\ (~s.gen.live \/ s.gen.refused)
    BY <1>3, <2>5, SuppressLemma
  <2>6. ASSUME s.gen \in Suppress(on)
        PROVE  SoundGen(s.gen) /\ SameStanding(on, s.gen)
               /\ (~s.gen.live \/ s.gen.refused)
    BY <2>3, <2>6, SuppressLemma
  <2> QED
    BY <2>2, <2>3, <2>4, <2>5, <2>6 DEF SameStanding
<1> QED
  BY <1>1, <1>2, <1>3

-----------------------------------------------------------------------------
(***************************************************************************)
(* Taking down and giving up.                                              *)
(***************************************************************************)

\* Nothing of the runtime is left.
Idle(g, h) ==
    /\ SoundGen(h)
    /\ h.vendor = g.vendor /\ h.enabled = g.enabled
    /\ ~h.live /\ ~Owns(h)

LEMMA ShutdownGeneratorLemma ==
    ASSUME NEW g, SoundGen(g)
    PROVE  Idle(g, ShutdownGenerator(g))
<1> DEFINE n == NewGenerator(g.vendor)
           h == ShutdownGenerator(g)
<1>1. g \in Generators /\ g.vendor \in Vendors
  BY DEF SoundGen, Standing, Generators
<1>2. /\ n \in Generators /\ n.vendor = g.vendor /\ n.live = FALSE
      /\ n.xell = "none"
  BY <1>1, NewGeneratorLemma, Zenon DEF SoundGen, Standing, NewGenerator
<1> DEFINE status == IF Owns(g) THEN "inactive" ELSE g.status
           reset == g.reset /\ g.vendor = "fsr"
           ahead == g.ahead /\ g.vendor = "fsr"
<1>3. h = [n EXCEPT !.status = status, !.enabled = g.enabled,
                    !.reset = reset, !.made = g.made, !.owed = g.owed,
                    !.twice = g.twice, !.ahead = ahead]
  BY DEF ShutdownGenerator
<1>4. /\ status \in Statuses /\ status # "installed"
      /\ reset \in BOOLEAN /\ ahead \in BOOLEAN
  <2>1. g.status \in Statuses
    BY <1>1 DEF Generators
  <2>2. status \in Statuses /\ status # "installed"
    BY <2>1 DEF Statuses, Owns
  <2> QED
    BY <2>2
<1> HIDE DEF n, h, status, reset, ahead
<1>5. /\ h \in Generators /\ h.vendor = g.vendor /\ h.enabled = g.enabled
      /\ h.live = n.live /\ h.status = status
      /\ h.xell = n.xell /\ h.twice = g.twice
  BY <1>1, <1>2, <1>3, <1>4 DEF Generators
<1>6. Idle(g, h)
  BY <1>2, <1>4, <1>5 DEF SoundGen, Standing, Disciplined, Idle, Owns
<1> QED
  BY <1>6 DEF h

LEMMA FailedLemma ==
    ASSUME NEW g, NEW h, Idle(g, h)
    PROVE  Idle(g, Failed(h))
<1> DEFINE f == Failed(h)
<1>1. /\ f \in Generators /\ f.status = "failed"
      /\ f.vendor = h.vendor /\ f.enabled = h.enabled /\ f.live = h.live
      /\ f.xell = h.xell /\ f.context = h.context /\ f.twice = h.twice
  BY DEF Idle, SoundGen, Standing, Generators, Statuses, Failed
<1> HIDE DEF f
<1>2. Idle(g, f)
  BY <1>1 DEF Idle, SoundGen, Standing, Disciplined, Owns
<1> QED
  BY <1>2 DEF f

LEMMA GiveUpLemma ==
    ASSUME NEW g, SoundGen(g)
    PROVE  Idle(g, GiveUp(g))
BY ShutdownGeneratorLemma, FailedLemma DEF GiveUp

\* Probing the runtime, and the contexts made before the handoff.
LEMMA ContextLemma ==
    ASSUME NEW g, NEW h, Idle(g, h), NEW c \in ContextsOf(h) \cup {Probed(h)}
    PROVE  Idle(g, c) /\ Idle(g, [c EXCEPT !.status = "waiting"])
<1>1. h \in Generators /\ ~h.live /\ h.status # "installed"
  BY DEF Idle, SoundGen, Standing, Owns
<1>2. /\ c \in Generators /\ c.status = h.status
      /\ c.vendor = h.vendor /\ c.enabled = h.enabled /\ ~c.live
      /\ c.xell # "none" => c.context
      /\ c.xell # "high" /\ ~c.twice
  <2>1. CASE c = h
    BY <2>1 DEF Idle, SoundGen, Standing
  <2>2. CASE c = Probed(h)
    <3>1. /\ c \in Generators /\ c.status = h.status
          /\ c.vendor = h.vendor /\ c.enabled = h.enabled /\ ~c.live
          /\ c.xell = h.xell /\ c.twice = h.twice
          /\ h.context => c.context
      BY <1>1, <2>2 DEF Probed, Generators
    <3> QED
      BY <3>1 DEF Idle, SoundGen, Standing
  <2>3. ASSUME NEW m \in {"unset", "low"},
               c = [h EXCEPT !.context = TRUE, !.xell = m]
        PROVE  /\ c \in Generators /\ c.status = h.status
               /\ c.vendor = h.vendor /\ c.enabled = h.enabled /\ ~c.live
               /\ c.xell = m /\ c.context /\ c.twice = h.twice
    BY <1>1, <2>3 DEF Generators, SleepModes
  <2>4. CASE \E m \in {"unset", "low"} :
                 c = [h EXCEPT !.context = TRUE, !.xell = m]
    <3>1. PICK m \in {"unset", "low"} :
              c = [h EXCEPT !.context = TRUE, !.xell = m]
      BY <2>4
    <3>2. /\ c \in Generators /\ c.status = h.status
          /\ c.vendor = h.vendor /\ c.enabled = h.enabled /\ ~c.live
          /\ c.xell = m /\ c.context /\ c.twice = h.twice
      BY <2>3, <3>1
    <3> QED
      BY <3>2 DEF Idle, SoundGen, Standing
  <2> QED
    BY <2>1, <2>2, <2>4 DEF ContextsOf
<1>3. Idle(g, c)
  BY <1>1, <1>2 DEF Idle, SoundGen, Standing, Disciplined, Owns
<1>4. Idle(g, [c EXCEPT !.status = "waiting"])
  <2> DEFINE d == [c EXCEPT !.status = "waiting"]
  <2>1. /\ d \in Generators /\ d.status = "waiting"
        /\ d.vendor = c.vendor /\ d.enabled = c.enabled /\ d.live = c.live
        /\ d.xell = c.xell /\ d.context = c.context /\ d.twice = c.twice
    BY <1>2 DEF Generators, Statuses
  <2> HIDE DEF d
  <2>2. Idle(g, d)
    BY <1>3, <2>1 DEF Idle, SoundGen, Standing, Disciplined, Owns
  <2> QED
    BY <2>2 DEF d
<1> QED
  BY <1>3, <1>4

-----------------------------------------------------------------------------
(***************************************************************************)
(* Configuring.                                                            *)
(***************************************************************************)
Offers == [depth : Depths \cup {"unknown"}, display : 1 .. 2,
           frames : 1 .. MaxInterpolated + 1, shared : BOOLEAN]

LEMMA ClampedLemma ==
    ASSUME NEW n \in 1 .. MaxInterpolated + 1
    PROVE  Clamped(n) \in 0 .. MaxInterpolated
BY InterpolatedAssumption DEF Clamped

\* A generator that was just installed: a break is owed, and asked for.
LEMMA ConfiguredLemma ==
    ASSUME NEW g, SoundGen(g), g.xell # "none" => g.context,
           NEW w \in Offers, w.depth \in Depths
    PROVE  LET h == ConfiguredAs(g, w)
           IN  /\ SoundGen(h) /\ Owns(h)
               /\ h.vendor = g.vendor /\ h.enabled = g.enabled
               /\ g.vendor = "fsr" => ~h.live
<1> DEFINE r == ResetHistory(g)
           made == [depth |-> w.depth, display |-> w.display]
<1>1. /\ r \in Generators /\ r.vendor = g.vendor /\ r.enabled = g.enabled
      /\ r.reset /\ r.xell = g.xell /\ r.twice = g.twice
  BY DEF SoundGen, Standing, Generators, ResetHistory, Break
<1>2. made \in [depth : Depths, display : 1 .. 2]
  BY DEF Offers
<1> HIDE DEF r, made
<1>3. ASSUME NEW n \in 0 .. MaxInterpolated, NEW live \in BOOLEAN,
             NEW ahead \in BOOLEAN, live => g.enabled,
             g.vendor = "fsr" => ~live,
             NEW h, h = [r EXCEPT !.status = "installed", !.context = TRUE,
                            !.frames = n, !.live = live, !.made = made,
                            !.ahead = ahead]
      PROVE  /\ SoundGen(h) /\ Owns(h)
             /\ h.vendor = g.vendor /\ h.enabled = g.enabled
             /\ g.vendor = "fsr" => ~h.live
  <2>1. /\ h \in Generators /\ h.status = "installed" /\ h.context
        /\ h.live = live /\ h.vendor = g.vendor /\ h.enabled = g.enabled
        /\ h.reset /\ h.xell = g.xell /\ h.twice = g.twice
    BY <1>1, <1>2, <1>3 DEF Generators, Statuses
  <2> QED
    BY <1>3, <2>1 DEF SoundGen, Standing, Disciplined, Owns
<1>4. /\ Clamped(w.frames) \in 0 .. MaxInterpolated
      /\ 1 \in 0 .. MaxInterpolated
      /\ g.enabled \in BOOLEAN /\ g.ahead \in BOOLEAN
  BY ClampedLemma, InterpolatedAssumption
  DEF Offers, SoundGen, Standing, Generators
<1>5. CASE g.vendor = "xess"
  <2>1. ConfiguredAs(g, w) =
            [r EXCEPT !.status = "installed", !.context = TRUE,
                      !.frames = Clamped(w.frames), !.live = g.enabled,
                      !.made = made, !.ahead = FALSE]
    BY <1>5 DEF ConfiguredAs, Installed, r, made
  <2> QED
    BY <1>3, <1>4, <1>5, <2>1
<1>6. CASE g.vendor # "xess"
  <2>1. ConfiguredAs(g, w) =
            [[r EXCEPT !.status = "installed", !.context = TRUE,
                       !.frames = 1, !.live = FALSE,
                       !.made = made, !.ahead = FALSE]
             EXCEPT !.ahead = g.ahead]
    BY <1>6 DEF ConfiguredAs, Installed, r, made
  <2>2. ConfiguredAs(g, w) =
            [r EXCEPT !.status = "installed", !.context = TRUE,
                      !.frames = 1, !.live = FALSE,
                      !.made = made, !.ahead = g.ahead]
    BY <1>1, <2>1 DEF Generators
  <2> QED
    BY <1>3, <1>4, <2>2
<1> QED
  BY <1>5, <1>6

\* The number of frames, whatever the runtime makes of it.
LEMMA SetFramesLemma ==
    ASSUME NEW g, SoundGen(g), NEW n \in 1 .. MaxInterpolated + 1,
           NEW s \in SetFramesOutcomes(g, n)
    PROVE  /\ SoundGen(s.gen) /\ SameStanding(g, s.gen)
           /\ s.gen.live = g.live /\ s.gen.refused = g.refused
<1> DEFINE h == s.gen
<1>1. \/ h = g
      \/ h = [g EXCEPT !.frames = Clamped(n), !.reset = TRUE]
      \/ h = [g EXCEPT !.stale = TRUE]
  <2>1. CASE Clamped(n) = g.frames
    BY <2>1 DEF SetFramesOutcomes, Submitted
  <2>2. CASE Clamped(n) # g.frames
    <3>1. \/ s = Submitted([g EXCEPT !.frames = Clamped(n), !.reset = TRUE],
                           TRUE)
          \/ s = Submitted(g, FALSE)
          \/ s = Submitted([g EXCEPT !.stale = TRUE], FALSE)
      BY <2>2 DEF SetFramesOutcomes
    <3>2. \A x, ok : Submitted(x, ok).gen = x
      BY DEF Submitted
    <3> QED
      BY <3>1, <3>2, Zenon
  <2> QED
    BY <2>1, <2>2
<1>2. g \in Generators /\ Clamped(n) \in 0 .. MaxInterpolated
  BY ClampedLemma DEF SoundGen, Standing
<1> HIDE DEF h
<1>3. /\ SameMake(g, h) /\ h.enabled = g.enabled
      /\ h.live = g.live /\ h.refused = g.refused
      /\ h.owed = g.owed /\ (g.reset => h.reset)
  <2>1. CASE h = g
    BY <1>2, <2>1 DEF SameMake
  <2>2. CASE h = [g EXCEPT !.frames = Clamped(n), !.reset = TRUE]
    BY <1>2, <2>2 DEF SameMake, Generators
  <2>3. CASE h = [g EXCEPT !.stale = TRUE]
    BY <1>2, <2>3 DEF SameMake, Generators
  <2> QED
    BY <1>1, <2>1, <2>2, <2>3
<1>4. SoundGen(h) /\ SameStanding(g, h)
  BY <1>3 DEF SoundGen, Standing, Disciplined, SameMake, SameStanding, Owns
<1> QED
  BY <1>3, <1>4 DEF h

-----------------------------------------------------------------------------
(***************************************************************************)
(* The chain.                                                              *)
(***************************************************************************)

\* The bridge has its own chain, or none and the window to make one.
Free(b) ==
    /\ b \in Bridges
    /\ b.chain # "vendor"
    /\ b.window <=> b.chain # "own"

\* The generator's chain is presented through.
Lent(b) ==
    /\ b \in Bridges
    /\ b.chain = "vendor"
    /\ b.window

LEMMA NewBridgeLemma ==
    ASSUME NEW n \in BufferCounts
    PROVE  Free(NewBridge(n))
BY DEF Free, NewBridge, Bridges, Chains

LEMMA RecreateLemma ==
    ASSUME NEW b \in Bridges, b.window, NEW r \in RecreateOutcomes(b)
    PROVE  Free(r.bridge)
<1> DEFINE none == WithoutChain(b)
           own == [b EXCEPT !.chain = "own", !.window = FALSE,
                            !.buffers = b.described]
<1>1. \/ r = Denied(none)
      \/ r = Granted(own)
  BY DEF RecreateOutcomes
<1>2. Free(none) /\ Free(own)
  BY DEF Free, WithoutChain, Bridges, Chains
<1> HIDE DEF none, own
<1>3. r.bridge = none \/ r.bridge = own
  BY <1>1 DEF Denied, Granted
<1> QED
  BY <1>2, <1>3

LEMMA ReleaseLemma ==
    ASSUME NEW b, Lent(b), NEW r \in ReleaseOutcomes(b)
    PROVE  Free(r.bridge)
BY RecreateLemma DEF Lent, ReleaseOutcomes

\* Nothing is released that was not lent.
LEMMA ReleaseNothing ==
    ASSUME NEW b, Free(b), NEW r \in ReleaseOutcomes(b)
    PROVE  r.bridge = b
BY DEF Free, ReleaseOutcomes, Denied

LEMMA BeginHandoffLemma ==
    ASSUME NEW b, Free(b), NEW h \in BeginHandoffOutcomes(b)
    PROVE  \/ h.ok /\ Free(h.bridge) /\ h.bridge.chain = "none"
           \/ ~h.ok /\ h.bridge = b
<1> DEFINE given == [WithoutChain(b) EXCEPT !.window = TRUE]
<1>1. \/ h = Denied(b)
      \/ h = Granted(given)
  BY DEF BeginHandoffOutcomes
<1>2. Free(given) /\ given.chain = "none"
  BY DEF Free, WithoutChain, Bridges, Chains
<1> HIDE DEF given
<1> QED
  BY <1>1, <1>2 DEF Denied, Granted

LEMMA AdoptLemma ==
    ASSUME NEW b, Free(b), b.chain = "none", NEW a \in AdoptOutcomes(b)
    PROVE  IF a.ok THEN Lent(a.bridge) ELSE Free(a.bridge)
<1>1. b \in Bridges /\ b.window
  BY DEF Free
<1>2. CASE a = Denied(b)
  BY <1>2 DEF Denied
<1>3. CASE \E n \in BufferCounts :
               a = Granted([b EXCEPT !.chain = "vendor", !.buffers = n])
  <2>1. PICK n \in BufferCounts :
            a = Granted([b EXCEPT !.chain = "vendor", !.buffers = n])
    BY <1>3
  <2> DEFINE c == [b EXCEPT !.chain = "vendor", !.buffers = n]
  <2>2. Lent(c)
    BY <1>1 DEF Lent, Bridges, Chains
  <2> HIDE DEF c
  <2>3. a.ok /\ a.bridge = c
    BY <2>1 DEF Granted, c
  <2> QED
    BY <2>2, <2>3
<1>4. CASE \E r \in RecreateOutcomes(b) : a = Denied(r.bridge)
  <2>1. PICK r \in RecreateOutcomes(b) : a = Denied(r.bridge)
    BY <1>4
  <2>2. Free(r.bridge)
    BY <1>1, RecreateLemma
  <2>3. ~a.ok /\ a.bridge = r.bridge
    BY <2>1 DEF Denied
  <2> QED
    BY <2>2, <2>3
<1>5. a = Denied(b)
      \/ (\E n \in BufferCounts :
             a = Granted([b EXCEPT !.chain = "vendor", !.buffers = n]))
      \/ (\E r \in RecreateOutcomes(b) : a = Denied(r.bridge))
  BY DEF AdoptOutcomes
<1> QED
  BY <1>2, <1>3, <1>4, <1>5

LEMMA AbortHandoffLemma ==
    ASSUME NEW b, Free(b), NEW r \in AbortHandoffOutcomes(b)
    PROVE  Free(r.bridge)
<1>1. CASE ~b.window
  BY <1>1 DEF AbortHandoffOutcomes, Denied
<1>2. CASE b.window
  <2>1. b \in Bridges /\ b.chain = "none"
    BY <1>2 DEF Free, Bridges, Chains
  <2>2. r \in RecreateOutcomes(b)
    BY <1>2, <2>1 DEF AbortHandoffOutcomes
  <2> QED
    BY <1>2, <2>1, <2>2, RecreateLemma
<1> QED
  BY <1>1, <1>2

LEMMA ResizeLemma ==
    ASSUME NEW b \in Bridges, NEW r \in ResizeOutcomes(b)
    PROVE  /\ r.bridge \in Bridges
           /\ r.bridge.chain = b.chain
           /\ r.bridge.window = b.window
<1>1. CASE \E n \in BufferCounts \cup {0} :
               r = Denied([b EXCEPT !.buffers = n])
  <2>1. PICK n \in BufferCounts \cup {0} :
            r = Denied([b EXCEPT !.buffers = n])
    BY <1>1
  <2>2. r.bridge = [b EXCEPT !.buffers = n]
    BY <2>1 DEF Denied
  <2> QED
    BY <2>2 DEF Bridges
<1>2. CASE \E n \in BufferCounts :
               r = Granted([b EXCEPT !.buffers = n, !.described = n])
  <2>1. PICK n \in BufferCounts :
            r = Granted([b EXCEPT !.buffers = n, !.described = n])
    BY <1>2
  <2>2. r.bridge = [b EXCEPT !.buffers = n, !.described = n]
    BY <2>1 DEF Granted
  <2> QED
    BY <2>2 DEF Bridges
<1> QED
  BY <1>1, <1>2 DEF ResizeOutcomes

-----------------------------------------------------------------------------
(***************************************************************************)
(* Installing.                                                             *)
(***************************************************************************)

\* The generator has the chain exactly when it is installed.
Matched(g, b) ==
    IF Owns(g) THEN Lent(b) ELSE Free(b)

\* What an installation that began with the generator g leaves.
Left(g, o) ==
    /\ SoundGen(o.gen)
    /\ Matched(o.gen, o.bridge)
    /\ o.gen.vendor = g.vendor /\ o.gen.enabled = g.enabled
    /\ g.vendor = "fsr" => ~o.gen.live

LEMMA OutcomeLemma ==
    \A g, b : Outcome(g, b).gen = g /\ Outcome(g, b).bridge = b
BY DEF Outcome

LEMMA IdleLeft ==
    ASSUME NEW g, NEW h, Idle(g, h), NEW b, Free(b)
    PROVE  Left(g, Outcome(h, b))
BY OutcomeLemma, Zenon DEF Idle, Left, Matched

LEMMA ShutdownOutcomesLemma ==
    ASSUME NEW g, SoundGen(g), NEW b, Lent(b) \/ Free(b),
           NEW o \in ShutdownOutcomes(g, b)
    PROVE  Idle(g, o.gen) /\ Free(o.bridge)
<1>1. PICK r \in ReleaseOutcomes(b) :
          o = Outcome(ShutdownGenerator(g), r.bridge)
  BY DEF ShutdownOutcomes
<1>2. o.gen = ShutdownGenerator(g) /\ o.bridge = r.bridge
  BY <1>1, OutcomeLemma, Zenon
<1>3. Free(r.bridge)
  BY ReleaseLemma, ReleaseNothing
<1> QED
  BY <1>2, <1>3, ShutdownGeneratorLemma

\* An idle generator may have been made from another: what is left is left
\* by both.
LEMMA LeftByBoth ==
    ASSUME NEW g, NEW h, Idle(g, h), NEW o, Left(h, o)
    PROVE  Left(g, o)
BY DEF Idle, Left

LEMMA IdleTrans ==
    ASSUME NEW g, NEW h, Idle(g, h), NEW f, Idle(h, f)
    PROVE  Idle(g, f)
BY DEF Idle

LEMMA FailAfterHandoffLemma ==
    ASSUME NEW g, SoundGen(g), NEW b, Free(b),
           NEW o \in FailAfterHandoff(g, b)
    PROVE  Left(g, o)
<1>1. PICK r \in AbortHandoffOutcomes(b) : o = Outcome(GiveUp(g), r.bridge)
  BY DEF FailAfterHandoff
<1>2. Free(r.bridge)
  BY AbortHandoffLemma
<1>3. Idle(g, GiveUp(g))
  BY GiveUpLemma
<1> QED
  BY <1>1, <1>2, <1>3, IdleLeft

LEMMA FinishInstallLemma ==
    ASSUME NEW g, SoundGen(g), NEW b, Lent(b),
           NEW w \in Offers, w.depth \in Depths,
           NEW o \in FinishInstall(g, b, w)
    PROVE  Left(g, o)
<1>1. CASE o = Outcome(ConfiguredAs(g, w), b)
  <2>1. o.gen = ConfiguredAs(g, w) /\ o.bridge = b
    BY <1>1, OutcomeLemma, Zenon
  <2>2. g.xell # "none" => g.context
    BY DEF SoundGen, Standing
  <2> QED
    BY <2>1, <2>2, ConfiguredLemma DEF Left, Matched
<1>2. CASE \E s \in ShutdownOutcomes(g, b) :
               o = Outcome(Failed(s.gen), s.bridge)
  <2>1. PICK s \in ShutdownOutcomes(g, b) :
            o = Outcome(Failed(s.gen), s.bridge)
    BY <1>2
  <2>2. Idle(g, s.gen) /\ Free(s.bridge)
    BY ShutdownOutcomesLemma
  <2>3. Idle(g, Failed(s.gen))
    BY <2>2, FailedLemma
  <2> QED
    BY <2>1, <2>2, <2>3, IdleLeft
<1> QED
  BY <1>1, <1>2 DEF FinishInstall

LEMMA AdoptGeneratedLemma ==
    ASSUME NEW g, SoundGen(g), NEW b, Free(b), b.chain = "none",
           NEW w \in Offers, w.depth \in Depths,
           NEW o \in AdoptGenerated(g, b, w)
    PROVE  Left(g, o)
<1> DEFINE After(a) == IF a.ok THEN FinishInstall(g, a.bridge, w)
                       ELSE FailAfterHandoff(g, a.bridge)
<1>1. AdoptGenerated(g, b, w) = UNION {After(a) : a \in AdoptOutcomes(b)}
  BY DEF AdoptGenerated
<1> HIDE DEF After
<1>2. PICK a \in AdoptOutcomes(b) : o \in After(a)
  BY <1>1
<1>3. IF a.ok THEN Lent(a.bridge) ELSE Free(a.bridge)
  BY AdoptLemma
<1>4. CASE a.ok
  BY <1>2, <1>3, <1>4, FinishInstallLemma DEF After
<1>5. CASE ~a.ok
  BY <1>2, <1>3, <1>5, FailAfterHandoffLemma DEF After
<1> QED
  BY <1>4, <1>5

LEMMA HandOverLemma ==
    ASSUME NEW g, Idle(g, g), NEW b, Free(b),
           NEW w \in Offers, w.depth \in Depths,
           NEW o \in HandOver(g, b, w)
    PROVE  Left(g, o)
<1> DEFINE After(h) == IF h.ok
                       THEN FailAfterHandoff(g, h.bridge)
                                \cup AdoptGenerated(g, h.bridge, w)
                       ELSE {Outcome(Failed(g), b)}
<1>1. HandOver(g, b, w) = UNION {After(h) : h \in BeginHandoffOutcomes(b)}
  BY DEF HandOver
<1> HIDE DEF After
<1>2. PICK h \in BeginHandoffOutcomes(b) : o \in After(h)
  BY <1>1
<1>3. SoundGen(g)
  BY DEF Idle
<1>4. \/ h.ok /\ Free(h.bridge) /\ h.bridge.chain = "none"
      \/ ~h.ok
  BY BeginHandoffLemma
<1>5. CASE h.ok
  <2>1. \/ o \in FailAfterHandoff(g, h.bridge)
        \/ o \in AdoptGenerated(g, h.bridge, w)
    BY <1>2, <1>5 DEF After
  <2>2. Free(h.bridge) /\ h.bridge.chain = "none"
    BY <1>4, <1>5
  <2> QED
    BY <1>3, <2>1, <2>2, FailAfterHandoffLemma, AdoptGeneratedLemma
<1>6. CASE ~h.ok
  <2>1. o = Outcome(Failed(g), b)
    BY <1>2, <1>6 DEF After
  <2> QED
    BY <2>1, FailedLemma, IdleLeft
<1> QED
  BY <1>5, <1>6

LEMMA InstallLemma ==
    ASSUME NEW g, Idle(g, g), NEW b, Free(b), NEW w \in Offers,
           NEW o \in Install(g, b, w)
    PROVE  Left(g, o)
<1>1. SoundGen(g)
  BY DEF Idle
<1>2. Probed(g) \in ContextsOf(g) \cup {Probed(g)}
  OBVIOUS
<1>3. Idle(g, Failed(g)) /\ Idle(g, Failed(Probed(g)))
      /\ Idle(g, GiveUp(g)) /\ Idle(g, [Probed(g) EXCEPT !.status = "waiting"])
  BY <1>1, <1>2, FailedLemma, GiveUpLemma, ContextLemma
<1>4. CASE \E h \in {g, Failed(g), Failed(Probed(g)), GiveUp(g),
                     [Probed(g) EXCEPT !.status = "waiting"]} :
               o = Outcome(h, b)
  <2>1. PICK h \in {g, Failed(g), Failed(Probed(g)), GiveUp(g),
                    [Probed(g) EXCEPT !.status = "waiting"]} :
                 o = Outcome(h, b)
    BY <1>4
  <2>2. Idle(g, h)
    BY <1>3
  <2> QED
    BY <2>1, <2>2, IdleLeft
<1>5. ASSUME NEW c \in ContextsOf(g), o \in HandOver(c, b, w),
             w.depth \in Depths
      PROVE  Left(g, o)
  <2>1. Idle(g, c)
    BY <1>5, ContextLemma
  <2>2. Idle(c, c)
    BY <2>1 DEF Idle
  <2>3. Left(c, o)
    BY <1>5, <2>2, HandOverLemma
  <2> QED
    BY <2>1, <2>3, LeftByBoth
<1>6. \/ \E h \in {g, Failed(g), Failed(Probed(g)), GiveUp(g),
                   [Probed(g) EXCEPT !.status = "waiting"]} :
             o = Outcome(h, b)
      \/ /\ w.depth \in Depths
         /\ \E c \in ContextsOf(g) : o \in HandOver(c, b, w)
  <2>1. CASE g.status = "failed"
    BY <2>1 DEF Install
  <2>2. CASE g.status # "failed"
    BY <2>2 DEF Install
  <2> QED
    BY <2>1, <2>2
<1> QED
  BY <1>4, <1>5, <1>6

LEMMA ReinstallLemma ==
    ASSUME NEW g, SoundGen(g), NEW b, Lent(b), NEW w \in Offers,
           NEW o \in Reinstall(g, b, w)
    PROVE  Left(g, o)
<1>1. PICK s \in ShutdownOutcomes(g, b) : o \in Install(s.gen, s.bridge, w)
  BY DEF Reinstall
<1>2. Idle(g, s.gen) /\ Free(s.bridge)
  BY ShutdownOutcomesLemma
<1>3. Idle(s.gen, s.gen)
  BY <1>2 DEF Idle
<1>4. Left(s.gen, o)
  BY <1>1, <1>2, <1>3, InstallLemma
<1> QED
  BY <1>2, <1>4, LeftByBoth

\* The step present() takes before every frame: whatever fails on the way,
\* the chain and the generator go together; FSR goes on generating only when
\* it was before.
LEMMA InstallIfReadyLemma ==
    ASSUME NEW g, SoundGen(g), NEW b, Matched(g, b), NEW w \in Offers,
           NEW o \in InstallIfReady(g, b, w)
    PROVE  /\ SoundGen(o.gen) /\ Matched(o.gen, o.bridge)
           /\ o.gen.vendor = g.vendor /\ o.gen.enabled = g.enabled
           /\ g.vendor = "fsr" /\ o.gen.live /\ ~o.gen.refused =>
                  g.live /\ ~g.refused
<1>1. ASSUME Left(g, o)
      PROVE  /\ SoundGen(o.gen) /\ Matched(o.gen, o.bridge)
             /\ o.gen.vendor = g.vendor /\ o.gen.enabled = g.enabled
             /\ g.vendor = "fsr" => ~o.gen.live
  BY <1>1 DEF Left
<1>2. CASE ~Owns(g)
  <2>1. Idle(g, g) /\ Free(b)
    BY <1>2 DEF Idle, Matched, SoundGen, Standing
  <2>2. o \in Install(g, b, w)
    BY <1>2 DEF InstallIfReady
  <2> QED
    BY <1>1, <2>1, <2>2, InstallLemma
<1>3. CASE Owns(g)
  <2>1. Lent(b)
    BY <1>3 DEF Matched
  <2>2. CASE o \in Reinstall(g, b, w)
    BY <1>1, <2>1, <2>2, ReinstallLemma
  <2>3. CASE o = Outcome(g, b)
    BY <2>3, OutcomeLemma, Zenon
  <2>4. ASSUME NEW s \in SetFramesOutcomes(g, w.frames),
               \/ o = Outcome(s.gen, b)
               \/ o \in Reinstall(s.gen, b, w)
        PROVE  /\ SoundGen(o.gen) /\ Matched(o.gen, o.bridge)
               /\ o.gen.vendor = g.vendor /\ o.gen.enabled = g.enabled
               /\ g.vendor = "fsr" /\ o.gen.live /\ ~o.gen.refused =>
                      g.live /\ ~g.refused
    <3>1. w.frames \in 1 .. MaxInterpolated + 1
      BY DEF Offers
    <3>2. /\ SoundGen(s.gen) /\ SameStanding(g, s.gen)
          /\ s.gen.live = g.live /\ s.gen.refused = g.refused
      BY <2>4, <3>1, SetFramesLemma
    <3>3. CASE o = Outcome(s.gen, b)
      <4>1. o.gen = s.gen /\ o.bridge = b
        BY <3>3, OutcomeLemma, Zenon
      <4> QED
        BY <1>3, <2>1, <3>2, <4>1 DEF SameStanding, Matched, Owns
    <3>4. CASE o \in Reinstall(s.gen, b, w)
      <4>1. Left(s.gen, o)
        BY <2>1, <3>2, <3>4, ReinstallLemma
      <4> QED
        BY <3>2, <4>1 DEF Left, SameStanding
    <3> QED
      BY <2>4, <3>3, <3>4
  <2>5. \/ o \in Reinstall(g, b, w)
        \/ o = Outcome(g, b)
        \/ \E s \in SetFramesOutcomes(g, w.frames) :
               \/ o = Outcome(s.gen, b)
               \/ o \in Reinstall(s.gen, b, w)
    <3> DEFINE After(s) == IF s.ok \/ ~s.gen.stale THEN {Outcome(s.gen, b)}
                           ELSE Reinstall(s.gen, b, w)
    <3>1. \/ o \in Reinstall(g, b, w)
          \/ o = Outcome(g, b)
          \/ o \in UNION {After(s) : s \in SetFramesOutcomes(g, w.frames)}
      BY <1>3 DEF InstallIfReady
    <3> HIDE DEF After
    <3>2. ASSUME NEW s, o \in After(s)
          PROVE  o = Outcome(s.gen, b) \/ o \in Reinstall(s.gen, b, w)
      BY <3>2 DEF After
    <3> QED
      BY <3>1, <3>2
  <2> QED
    BY <1>3, <2>1, <2>2, <2>3, <2>4, <2>5
<1> QED
  BY <1>2, <1>3

-----------------------------------------------------------------------------
(***************************************************************************)
(* The session.  Its inductive invariant: the generator is sound, it has   *)
(* the chain exactly while it is installed, whoever turned the switch off  *)
(* remembers, and FSR is never configured for a frame that is not whole    *)
(* once that frame was recorded.                                           *)
(***************************************************************************)
Ranges ==
    /\ {gate, reset_hold, rebuild_hold, shared, open, fed} \subseteq BOOLEAN
    /\ wanted \in 1 .. MaxInterpolated + 1
    /\ scene \in [depth : Depths \cup {"unknown"}, display : 1 .. 2]
    /\ phase \in Phases
    /\ index \in {0} \cup UNION {1 .. n : n \in BufferCounts}

Whole ==
    gen.vendor = "fsr" /\ phase \in {"recorded", "presenting"} =>
        (gen.live /\ ~gen.refused => fed)

VendorInv ==
    /\ SoundGen(gen)
    /\ Matched(gen, bridge)
    /\ Ranges
    /\ NeverStranded
    /\ Whole

LEMMA WorldOffers ==
    Ranges => World \in Offers
BY DEF Ranges, World, Offers

\* A generator that stands as it did has the chain it had.
LEMMA StandsMatched ==
    ASSUME NEW g, NEW h, h.status = g.status, NEW b, Matched(g, b)
    PROVE  Matched(h, b)
BY DEF Matched, Owns

LEMMA ResumeLemma ==
    ASSUME NEW g, SoundGen(g), NEW h \in ResumeOutcomes(g)
    PROVE  /\ SoundGen(h)
           /\ h.vendor = g.vendor /\ h.status = g.status
           /\ h.enabled
<1> DEFINE r == ResetHistory(g)
<1>1. Standing(r) /\ r.vendor = g.vendor /\ r.status = g.status
  BY ResetHistoryLemma DEF SoundGen
<1>2. h \in SetEnabled(r, TRUE)
  BY DEF ResumeOutcomes
<1> HIDE DEF r
<1> QED
  BY <1>1, <1>2, SetEnabledLemma

LEMMA SuspendedLemma ==
    ASSUME NEW g, SoundGen(g), NEW first \in BOOLEAN,
           NEW h \in Suspended(g, first)
    PROVE  /\ SoundGen(h)
           /\ h.vendor = g.vendor /\ h.status = g.status
           /\ ~h.enabled => ~g.enabled \/ (first /\ Owns(g))
<1>1. CASE first /\ Owns(g)
  BY <1>1, SetEnabledLemma DEF Suspended, SoundGen
<1>2. CASE ~(first /\ Owns(g))
  BY <1>2 DEF Suspended
<1> QED
  BY <1>1, <1>2

LEMMA TearDownLemma ==
    ASSUME Ranges, NEW gens, TearDownFrom(gens),
           \A g \in gens : SoundGen(g) /\ g.vendor = gen.vendor
                           /\ g.status = gen.status
    PROVE  /\ SoundGen(gen')
           /\ gen'.vendor = gen.vendor /\ gen'.status = gen.status
           /\ shared' = FALSE
           /\ rebuild_hold' \in BOOLEAN
           /\ rebuild_hold => rebuild_hold'
           /\ ~gen'.enabled => rebuild_hold' \/ \E g \in gens : ~g.enabled
<1>1. PICK g \in gens : gen' \in Suspended(g, ~rebuild_hold)
  BY DEF TearDownFrom
<1>2. SoundGen(g) /\ g.vendor = gen.vendor /\ g.status = gen.status
  OBVIOUS
<1>3. shared' = FALSE /\ rebuild_hold' = (rebuild_hold \/ Owns(gen))
  BY DEF TearDownFrom
<1>4. rebuild_hold \in BOOLEAN /\ (~rebuild_hold) \in BOOLEAN
  BY DEF Ranges
<1>5. /\ SoundGen(gen')
      /\ gen'.vendor = g.vendor /\ gen'.status = g.status
      /\ ~gen'.enabled => ~g.enabled \/ (~rebuild_hold /\ Owns(g))
  BY <1>1, <1>2, <1>4, SuspendedLemma
<1> QED
  BY <1>2, <1>3, <1>4, <1>5 DEF Owns

LEMMA PassGateLemma ==
    ASSUME NEW g, SoundGen(g), NEW on \in BOOLEAN, NEW h \in PassGate(g, on)
    PROVE  /\ SoundGen(h)
           /\ h.vendor = g.vendor /\ h.status = g.status
           /\ ~h.enabled => ~on \/ (on = gate /\ ~g.enabled)
           /\ g.vendor = "fsr" /\ h.live /\ ~h.refused => g.live /\ ~g.refused
<1>1. Standing(g)
  BY DEF SoundGen
<1>2. CASE on = gate
  BY <1>2 DEF PassGate
<1>3. CASE on # gate /\ on
  <2>1. PICK s \in SetEnabled(g, TRUE) : h = ResetHistory(s)
    BY <1>3 DEF PassGate
  <2>2. /\ SoundGen(s) /\ s.enabled = TRUE
        /\ s.vendor = g.vendor /\ s.status = g.status
        /\ g.vendor = "fsr" /\ s.live /\ ~s.refused => g.live /\ ~g.refused
    BY <1>1, SetEnabledLemma
  <2>3. Standing(s) /\ Disciplined(s)
    BY <2>2 DEF SoundGen
  <2>4. /\ Standing(h) /\ Disciplined(h)
        /\ h.vendor = s.vendor /\ h.status = s.status
        /\ h.enabled = s.enabled /\ h.live = s.live /\ h.refused = s.refused
    BY <2>1, <2>3, ResetHistoryLemma
  <2> QED
    BY <2>2, <2>4 DEF SoundGen
<1>4. CASE on # gate /\ ~on
  <2>1. h \in SetEnabled(g, FALSE)
    BY <1>4 DEF PassGate
  <2> QED
    BY <1>1, <1>4, <2>1, SetEnabledLemma
<1> QED
  BY <1>2, <1>3, <1>4

-----------------------------------------------------------------------------
(***************************************************************************)
(* One lemma per action.                                                   *)
(***************************************************************************)
LEMMA InitHolds == Init => VendorInv
<1> SUFFICES ASSUME Init PROVE VendorInv
  OBVIOUS
<1>1. PICK v \in Vendors : gen = NewGenerator(v)
  BY DEF Init
<1>2. PICK n \in BufferCounts : bridge = NewBridge(n)
  BY DEF Init
<1>3. SoundGen(gen) /\ gen.enabled /\ ~gen.live /\ ~Owns(gen)
  BY <1>1, NewGeneratorLemma, Zenon
<1>4. Matched(gen, bridge)
  BY <1>2, <1>3, NewBridgeLemma DEF Matched
<1>5. Ranges
  <2>1. 1 \in 1 .. MaxInterpolated + 1
    BY InterpolatedAssumption
  <2>2. [depth |-> "unknown", display |-> 1]
            \in [depth : Depths \cup {"unknown"}, display : 1 .. 2]
    OBVIOUS
  <2> QED
    BY <2>1, <2>2 DEF Init, Ranges, Phases
<1>6. NeverStranded /\ Whole
  BY <1>3 DEF Init, NeverStranded, Whole
<1> QED
  BY <1>3, <1>4, <1>5, <1>6 DEF VendorInv

LEMMA BeginFrameKeeps == VendorInv /\ BeginFrame => VendorInv'
<1> SUFFICES ASSUME VendorInv, BeginFrame PROVE VendorInv'
  OBVIOUS
<1>1. /\ SoundGen(gen') /\ SameStanding(gen, gen')
      /\ gen'.live = gen.live /\ gen'.refused = gen.refused
  BY BeginLatencyFrameLemma DEF VendorInv, BeginFrame
<1>2. Matched(gen, bridge)'
  BY <1>1, StandsMatched DEF VendorInv, BeginFrame, SameStanding
<1>3. Ranges' /\ NeverStranded' /\ Whole'
  BY <1>1
  DEF VendorInv, BeginFrame, Ranges, NeverStranded, Whole, SameStanding,
      holds, outside
<1> QED
  BY <1>1, <1>2, <1>3 DEF VendorInv

\* A reset of the history, by whoever asks for it.
LEMMA HistoryKeeps ==
    ASSUME VendorInv, phase = "game", gen' \in {gen, ResetHistory(gen)},
           Ranges', UNCHANGED <<bridge, holds, shared, frame>>
    PROVE  VendorInv'
<1>1. /\ SoundGen(gen')
      /\ gen'.vendor = gen.vendor /\ gen'.status = gen.status
      /\ gen'.enabled = gen.enabled
  BY ResetHistoryLemma DEF VendorInv, SoundGen
<1>2. Matched(gen, bridge)'
  BY <1>1, StandsMatched DEF VendorInv
<1>3. NeverStranded' /\ Whole'
  BY <1>1 DEF VendorInv, NeverStranded, Whole, holds, frame
<1> QED
  BY <1>1, <1>2, <1>3 DEF VendorInv

LEMMA ChangeSettingsKeeps == VendorInv /\ ChangeSettings => VendorInv'
<1> SUFFICES ASSUME VendorInv, ChangeSettings PROVE VendorInv'
  OBVIOUS
<1>1. Ranges'
  BY DEF VendorInv, ChangeSettings, Ranges, holds, frame
<1> QED
  BY <1>1, HistoryKeeps DEF ChangeSettings

LEMMA MeasureDepthKeeps == VendorInv /\ MeasureDepth => VendorInv'
<1> SUFFICES ASSUME VendorInv, MeasureDepth PROVE VendorInv'
  OBVIOUS
<1>1. PICK d \in Depths : scene' = [scene EXCEPT !.depth = d]
  BY DEF MeasureDepth
<1>2. Ranges'
  BY <1>1 DEF VendorInv, MeasureDepth, Ranges, holds, frame
<1> QED
  BY <1>2, HistoryKeeps DEF MeasureDepth

LEMMA ResetAllHistoryKeeps == VendorInv /\ ResetAllHistory => VendorInv'
<1> SUFFICES ASSUME VendorInv, ResetAllHistory PROVE VendorInv'
  OBVIOUS
<1>1. Ranges'
  BY DEF VendorInv, ResetAllHistory, Ranges, holds, frame, outside
<1> QED
  BY <1>1, HistoryKeeps DEF ResetAllHistory

\* The end of a rebuild turns the switch on, whoever else holds it.
LEMMA InitializeSharedKeeps == VendorInv /\ InitializeShared => VendorInv'
<1> SUFFICES ASSUME VendorInv, InitializeShared PROVE VendorInv'
  OBVIOUS
<1>1. SoundGen(gen) /\ rebuild_hold \in BOOLEAN
  BY DEF VendorInv, Ranges
<1>2. /\ SoundGen(gen')
      /\ gen'.vendor = gen.vendor /\ gen'.status = gen.status
      /\ IF rebuild_hold THEN gen'.enabled ELSE gen'.enabled = gen.enabled
  <2>1. CASE rebuild_hold
    BY <1>1, <2>1, ResumeLemma DEF InitializeShared
  <2>2. CASE ~rebuild_hold
    BY <1>1, <2>2 DEF InitializeShared
  <2> QED
    BY <2>1, <2>2
<1>3. Matched(gen, bridge)'
  BY <1>2, StandsMatched DEF VendorInv, InitializeShared
<1>4. Ranges'
  BY DEF VendorInv, InitializeShared, Ranges, frame, outside
<1>5. NeverStranded' /\ Whole'
  BY <1>2 DEF VendorInv, InitializeShared, NeverStranded, Whole, frame
<1> QED
  BY <1>2, <1>3, <1>4, <1>5 DEF VendorInv

LEMMA ShutdownSharedKeeps == VendorInv /\ ShutdownShared => VendorInv'
<1> SUFFICES ASSUME VendorInv, ShutdownShared PROVE VendorInv'
  OBVIOUS
<1> DEFINE gens == {gen}
<1>1. TearDownFrom(gens)
  BY DEF ShutdownShared
<1>2. \A g \in gens : SoundGen(g) /\ g.vendor = gen.vendor
                     /\ g.status = gen.status
  BY DEF VendorInv
<1>0. \A g \in gens : g = gen
  OBVIOUS
<1> HIDE DEF gens
<1>3. /\ SoundGen(gen')
      /\ gen'.vendor = gen.vendor /\ gen'.status = gen.status
      /\ shared' = FALSE
      /\ rebuild_hold' \in BOOLEAN
      /\ rebuild_hold => rebuild_hold'
      /\ ~gen'.enabled => rebuild_hold' \/ \E g \in gens : ~g.enabled
  BY <1>1, <1>2, TearDownLemma DEF VendorInv
<1>4. Matched(gen, bridge)'
  BY <1>3, StandsMatched DEF VendorInv, ShutdownShared
<1>5. Ranges'
  BY <1>3 DEF VendorInv, ShutdownShared, Ranges, frame, outside
<1>6. NeverStranded' /\ Whole'
  BY <1>0, <1>3 DEF VendorInv, ShutdownShared, NeverStranded, Whole, frame
<1> QED
  BY <1>3, <1>4, <1>5, <1>6 DEF VendorInv

\* A device reset holds the switch under a flag of its own.
LEMMA SuspendForResetLemma ==
    ASSUME VendorInv, SuspendForReset
    PROVE  /\ SoundGen(gen')
           /\ gen'.vendor = gen.vendor /\ gen'.status = gen.status
           /\ shared' = FALSE /\ open' = FALSE
           /\ rebuild_hold' \in BOOLEAN /\ reset_hold' \in BOOLEAN
           /\ ~gen'.enabled => ~gate \/ reset_hold' \/ rebuild_hold'
<1> DEFINE gens == Suspended(gen, TRUE)
<1>1. SoundGen(gen) /\ reset_hold \in BOOLEAN /\ Owns(gen) \in BOOLEAN
  BY DEF VendorInv, Ranges, Owns
<1>2. \A g \in gens : /\ SoundGen(g) /\ g.vendor = gen.vendor
                      /\ g.status = gen.status
                      /\ ~g.enabled => ~gen.enabled \/ Owns(gen)
  BY <1>1, SuspendedLemma
<1>3. reset_hold' = (reset_hold \/ Owns(gen)) /\ open' = FALSE
      /\ TearDownFrom(gens)
  BY DEF SuspendForReset
<1> HIDE DEF gens
<1>4. /\ SoundGen(gen')
      /\ gen'.vendor = gen.vendor /\ gen'.status = gen.status
      /\ shared' = FALSE
      /\ rebuild_hold' \in BOOLEAN
      /\ rebuild_hold => rebuild_hold'
      /\ ~gen'.enabled => rebuild_hold' \/ \E g \in gens : ~g.enabled
  BY <1>2, <1>3, TearDownLemma DEF VendorInv
<1>5. ~gen'.enabled => rebuild_hold' \/ ~gen.enabled \/ Owns(gen)
  BY <1>2, <1>4
<1> QED
  BY <1>1, <1>3, <1>4, <1>5 DEF VendorInv, NeverStranded

LEMMA PreResetKeeps == VendorInv /\ PreReset => VendorInv'
<1> SUFFICES ASSUME VendorInv, PreReset PROVE VendorInv'
  OBVIOUS
<1>1. /\ SoundGen(gen')
      /\ gen'.vendor = gen.vendor /\ gen'.status = gen.status
      /\ shared' = FALSE /\ open' = FALSE
      /\ rebuild_hold' \in BOOLEAN /\ reset_hold' \in BOOLEAN
      /\ ~gen'.enabled => ~gate \/ reset_hold' \/ rebuild_hold'
  BY SuspendForResetLemma DEF PreReset
<1>2. Matched(gen, bridge)'
  BY <1>1, StandsMatched DEF VendorInv, PreReset
<1>3. Ranges'
  BY <1>1 DEF VendorInv, PreReset, Ranges, outside
<1>4. NeverStranded' /\ Whole'
  BY <1>1 DEF VendorInv, PreReset, Callback, NeverStranded, Whole
<1> QED
  BY <1>1, <1>2, <1>3, <1>4 DEF VendorInv

LEMMA ResizeBuffersKeeps == VendorInv /\ ResizeBuffers => VendorInv'
<1> SUFFICES ASSUME VendorInv, ResizeBuffers PROVE VendorInv'
  OBVIOUS
<1>1. /\ SoundGen(gen')
      /\ gen'.vendor = gen.vendor /\ gen'.status = gen.status
      /\ shared' = FALSE /\ open' = FALSE
      /\ rebuild_hold' \in BOOLEAN /\ reset_hold' \in BOOLEAN
      /\ ~gen'.enabled => ~gate \/ reset_hold' \/ rebuild_hold'
  BY SuspendForResetLemma DEF ResizeBuffers
<1>2. Matched(gen, bridge)'
  BY <1>1, StandsMatched DEF VendorInv, ResizeBuffers
<1>3. Ranges'
  BY <1>1 DEF VendorInv, ResizeBuffers, Ranges, outside, Phases
<1>4. NeverStranded' /\ Whole'
  BY <1>1 DEF VendorInv, ResizeBuffers, NeverStranded, Whole
<1> QED
  BY <1>1, <1>2, <1>3, <1>4 DEF VendorInv

LEMMA ResumeAfterResetLemma ==
    ASSUME VendorInv, NEW h \in ResumeAfterReset(gen)
    PROVE  /\ SoundGen(h)
           /\ h.vendor = gen.vendor /\ h.status = gen.status
           /\ ~h.enabled => ~gate \/ rebuild_hold
<1>1. SoundGen(gen)
  BY DEF VendorInv
<1>2. CASE reset_hold
  BY <1>1, <1>2, ResumeLemma DEF ResumeAfterReset
<1>3. CASE ~reset_hold
  BY <1>1, <1>3 DEF ResumeAfterReset, VendorInv, NeverStranded
<1> QED
  BY <1>2, <1>3

LEMMA PostResetKeeps == VendorInv /\ PostReset => VendorInv'
<1> SUFFICES ASSUME VendorInv, PostReset PROVE VendorInv'
  OBVIOUS
<1>1. /\ SoundGen(gen')
      /\ gen'.vendor = gen.vendor /\ gen'.status = gen.status
      /\ ~gen'.enabled => ~gate \/ rebuild_hold
  BY ResumeAfterResetLemma DEF PostReset
<1>2. Matched(gen, bridge)'
  BY <1>1, StandsMatched DEF VendorInv, PostReset
<1>3. Ranges'
  BY <1>1 DEF VendorInv, PostReset, Ranges, outside, frame
<1>4. NeverStranded' /\ Whole'
  BY <1>1 DEF VendorInv, PostReset, Callback, NeverStranded, Whole, frame
<1> QED
  BY <1>1, <1>2, <1>3, <1>4 DEF VendorInv

LEMMA FinishResizeKeeps == VendorInv /\ FinishResize => VendorInv'
<1> SUFFICES ASSUME VendorInv, FinishResize PROVE VendorInv'
  OBVIOUS
<1>1. /\ SoundGen(gen')
      /\ gen'.vendor = gen.vendor /\ gen'.status = gen.status
      /\ ~gen'.enabled => ~gate \/ rebuild_hold
  BY ResumeAfterResetLemma DEF FinishResize
<1>2. PICK r \in ResizeOutcomes(bridge) :
          /\ bridge' = r.bridge
          /\ scene' \in IF r.ok
                        THEN {[scene EXCEPT !.display = d] : d \in 1 .. 2}
                        ELSE {scene}
  BY DEF FinishResize
<1>3. bridge \in Bridges
  BY DEF VendorInv, Matched, Lent, Free
<1>4. /\ bridge' \in Bridges /\ bridge'.chain = bridge.chain
      /\ bridge'.window = bridge.window
  BY <1>2, <1>3, ResizeLemma
<1>5. Matched(gen, bridge)'
  BY <1>1, <1>4 DEF VendorInv, Matched, Lent, Free, Owns
<1>6. scene' \in [depth : Depths \cup {"unknown"}, display : 1 .. 2]
  <2>1. scene \in [depth : Depths \cup {"unknown"}, display : 1 .. 2]
    BY DEF VendorInv, Ranges
  <2>2. scene' = scene \/ \E d \in 1 .. 2 :
                              scene' = [scene EXCEPT !.display = d]
    BY <1>2
  <2> QED
    BY <2>1, <2>2
<1>7. Ranges'
  BY <1>6 DEF VendorInv, FinishResize, Ranges, Phases
<1>8. NeverStranded' /\ Whole'
  BY <1>1 DEF VendorInv, FinishResize, NeverStranded, Whole
<1> QED
  BY <1>1, <1>5, <1>7, <1>8 DEF VendorInv

LEMMA ExitKeeps == VendorInv /\ Exit => VendorInv'
<1> SUFFICES ASSUME VendorInv, Exit PROVE VendorInv'
  OBVIOUS
<1>1. PICK g \in Suspended(gen, ~rebuild_hold) :
          \E r \in ReleaseOutcomes(bridge) :
              gen' = ShutdownGenerator(g) /\ bridge' = r.bridge
  BY DEF Exit
<1>2. PICK r \in ReleaseOutcomes(bridge) :
          gen' = ShutdownGenerator(g) /\ bridge' = r.bridge
  BY <1>1
<1>3. SoundGen(gen) /\ rebuild_hold \in BOOLEAN /\ (~rebuild_hold) \in BOOLEAN
  BY DEF VendorInv, Ranges
<1>4. /\ SoundGen(g) /\ g.vendor = gen.vendor /\ g.status = gen.status
      /\ ~g.enabled => ~gen.enabled \/ (~rebuild_hold /\ Owns(gen))
  BY <1>3, SuspendedLemma
<1>5. Idle(g, gen')
  BY <1>2, <1>4, ShutdownGeneratorLemma
<1>6. Free(bridge')
  BY <1>2, ReleaseLemma, ReleaseNothing DEF VendorInv, Matched
<1>7. Matched(gen, bridge)'
  BY <1>5, <1>6 DEF Idle, Matched
<1>8. Ranges'
  <2>1. (rebuild_hold \/ Owns(gen)) \in BOOLEAN
    BY <1>3 DEF Owns
  <2> QED
    BY <2>1 DEF VendorInv, Exit, Ranges, outside, Phases
<1>9. NeverStranded' /\ Whole'
  BY <1>4, <1>5 DEF VendorInv, Exit, NeverStranded, Whole, Idle
<1> QED
  BY <1>5, <1>7, <1>8, <1>9 DEF VendorInv, Idle

\* Around a mutation of the display the gate is taken for open again.
LEMMA SwitchTargetKeeps == VendorInv /\ SwitchTarget => VendorInv'
<1> SUFFICES ASSUME VendorInv, SwitchTarget PROVE VendorInv'
  OBVIOUS
<1>1. PICK g \in SetEnabled(gen, FALSE) : gen' \in ResumeOutcomes(g)
  BY DEF SwitchTarget
<1>2. SoundGen(g) /\ g.vendor = gen.vendor /\ g.status = gen.status
  BY SetEnabledLemma DEF VendorInv, SoundGen
<1>3. /\ SoundGen(gen') /\ gen'.enabled
      /\ gen'.vendor = gen.vendor /\ gen'.status = gen.status
  BY <1>1, <1>2, ResumeLemma
<1>4. Matched(gen, bridge)'
  BY <1>3, StandsMatched DEF VendorInv, SwitchTarget
<1>5. Ranges'
  BY DEF VendorInv, SwitchTarget, Ranges, outside, frame
<1>6. NeverStranded' /\ Whole'
  BY <1>3 DEF VendorInv, SwitchTarget, NeverStranded, Whole, frame
<1> QED
  BY <1>3, <1>4, <1>5, <1>6 DEF VendorInv

\* What becomes of the frame is known when it is recorded, for FSR.
LEMMA RecordKeeps == VendorInv /\ Record => VendorInv'
<1> SUFFICES ASSUME VendorInv, Record PROVE VendorInv'
  OBVIOUS
<1>1. PICK s \in IF gen.vendor = "fsr" THEN SubmitOutcomes(gen)
                 ELSE {Submitted(gen, FALSE)} :
          gen' = s.gen /\ fed' = s.ok
  BY DEF Record
<1>2. SoundGen(gen)
  BY DEF VendorInv
<1>3. /\ SoundGen(gen') /\ SameStanding(gen, gen')
      /\ fed' \in BOOLEAN
      /\ gen.vendor = "fsr" /\ gen'.live /\ ~gen'.refused => fed'
  <2>1. CASE gen.vendor = "fsr"
    BY <1>1, <1>2, <2>1, SubmitLemma
  <2>2. CASE gen.vendor # "fsr"
    <3>1. s = Submitted(gen, FALSE)
      BY <1>1, <2>2
    <3>2. gen' = gen /\ fed' = FALSE
      BY <1>1, <3>1 DEF Submitted
    <3> QED
      BY <1>2, <2>2, <3>2 DEF SameStanding
  <2> QED
    BY <2>1, <2>2
<1>4. Matched(gen, bridge)'
  BY <1>3, StandsMatched DEF VendorInv, Record, SameStanding
<1>5. index' \in {0} \cup UNION {1 .. n : n \in BufferCounts}
  <2>1. bridge \in Bridges
    BY DEF VendorInv, Matched, Lent, Free
  <2>2. bridge.buffers \in BufferCounts \/ bridge.buffers = 0
    BY <2>1 DEF Bridges
  <2>3. index' \in 1 .. bridge.buffers
    BY DEF Record, TrackedBuffers
  <2>4. 1 .. 0 = {}
    OBVIOUS
  <2> QED
    BY <2>2, <2>3, <2>4
<1>6. Ranges'
  BY <1>3, <1>5 DEF VendorInv, Record, Ranges, Phases, holds, outside
<1>7. NeverStranded' /\ Whole'
  BY <1>3
  DEF VendorInv, Record, NeverStranded, Whole, SameStanding, holds
<1> QED
  BY <1>3, <1>4, <1>6, <1>7 DEF VendorInv

LEMMA DropFrameKeeps == VendorInv /\ DropFrame => VendorInv'
<1> SUFFICES ASSUME VendorInv, DropFrame PROVE VendorInv'
  OBVIOUS
<1>1. UNCHANGED <<gen, bridge, holds, shared, outside, open>>
      /\ phase' = "game" /\ index' = 0 /\ fed' = FALSE
  BY DEF DropFrame
<1>2. SoundGen(gen)' /\ Matched(gen, bridge)'
  BY <1>1 DEF VendorInv
<1>3. Ranges'
  BY <1>1 DEF VendorInv, Ranges, Phases, holds, outside
<1>4. NeverStranded' /\ Whole'
  BY <1>1 DEF VendorInv, NeverStranded, Whole, holds
<1> QED
  BY <1>2, <1>3, <1>4 DEF VendorInv

LEMMA PresentKeeps == VendorInv /\ Present => VendorInv'
<1> SUFFICES ASSUME VendorInv, Present PROVE VendorInv'
  OBVIOUS
<1>1. UNCHANGED <<gen, bridge, holds, shared, outside, open>>
      /\ phase' = "game" /\ index' = 0 /\ fed' = FALSE
  BY DEF Present
<1>2. SoundGen(gen)' /\ Matched(gen, bridge)'
  BY <1>1 DEF VendorInv
<1>3. Ranges'
  BY <1>1 DEF VendorInv, Ranges, Phases, holds, outside
<1>4. NeverStranded' /\ Whole'
  BY <1>1 DEF VendorInv, NeverStranded, Whole, holds
<1> QED
  BY <1>2, <1>3, <1>4 DEF VendorInv

\* The installation, the limit, the gate, and for XeSS-FG the frame.
LEMMA GenerateKeeps == VendorInv /\ Generate => VendorInv'
<1> SUFFICES ASSUME VendorInv, Generate PROVE VendorInv'
  OBVIOUS
<1> DEFINE Fed(g) == IF g.vendor = "fsr" THEN gen' = g /\ fed' = fed
                     ELSE \E s \in SubmitOutcomes(g) :
                              gen' = s.gen /\ fed' = s.ok
<1>1. PICK o \in InstallIfReady(gen, bridge, World) :
          /\ bridge' = o.bridge
          /\ \E l \in Limited(o.gen) : \E g \in PassGate(l, gate') : Fed(g)
  BY DEF Generate
<1> HIDE DEF Fed
<1>2. PICK l \in Limited(o.gen) : \E g \in PassGate(l, gate') : Fed(g)
  BY <1>1
<1>3. PICK g \in PassGate(l, gate') : Fed(g)
  BY <1>2
<1>4. gate' \in BOOLEAN /\ phase = "recorded" /\ phase' = "presenting"
  BY DEF Generate
<1>5. /\ SoundGen(o.gen) /\ Matched(o.gen, o.bridge)
      /\ o.gen.vendor = gen.vendor /\ o.gen.enabled = gen.enabled
      /\ gen.vendor = "fsr" /\ o.gen.live /\ ~o.gen.refused =>
             gen.live /\ ~gen.refused
  BY WorldOffers, InstallIfReadyLemma DEF VendorInv
<1>6. /\ SoundGen(l) /\ SameStanding(o.gen, l)
      /\ l.live = o.gen.live /\ l.refused = o.gen.refused
  BY <1>5, LimitedLemma
<1>7. /\ SoundGen(g)
      /\ g.vendor = l.vendor /\ g.status = l.status
      /\ ~g.enabled => ~gate' \/ (gate' = gate /\ ~l.enabled)
      /\ l.vendor = "fsr" /\ g.live /\ ~g.refused => l.live /\ ~l.refused
  BY <1>4, <1>6, PassGateLemma
<1>8. /\ g.vendor = gen.vendor /\ g.status = o.gen.status
      /\ ~g.enabled => ~gate' \/ (gate' = gate /\ ~gen.enabled)
      /\ gen.vendor = "fsr" /\ g.live /\ ~g.refused =>
             gen.live /\ ~gen.refused
  BY <1>5, <1>6, <1>7 DEF SameStanding
<1>9. /\ SoundGen(gen') /\ SameStanding(g, gen')
      /\ fed' \in BOOLEAN
      /\ gen.vendor = "fsr" => gen' = g /\ fed' = fed
  <2>1. CASE gen.vendor = "fsr"
    BY <1>3, <1>7, <1>8, <2>1 DEF Fed, SameStanding, VendorInv, Ranges
  <2>2. CASE gen.vendor # "fsr"
    <3>1. PICK s \in SubmitOutcomes(g) : gen' = s.gen /\ fed' = s.ok
      BY <1>3, <1>8, <2>2 DEF Fed
    <3> QED
      BY <1>7, <2>2, <3>1, SubmitLemma
  <2> QED
    BY <2>1, <2>2
<1>10. Matched(gen, bridge)'
  BY <1>1, <1>5, <1>8, <1>9, StandsMatched DEF SameStanding
<1>11. Ranges'
  BY <1>4, <1>9 DEF VendorInv, Generate, Ranges, Phases, outside
<1>12. NeverStranded'
  BY <1>8, <1>9 DEF VendorInv, Generate, NeverStranded, SameStanding
<1>13. Whole'
  BY <1>4, <1>8, <1>9 DEF VendorInv, Whole, SameStanding
<1> QED
  BY <1>9, <1>10, <1>11, <1>12, <1>13 DEF VendorInv

LEMMA StutterKeeps == VendorInv /\ UNCHANGED vars => VendorInv'
BY DEF VendorInv, vars, Matched, Lent, Free, Ranges, NeverStranded, Whole,
       holds, outside, frame

-----------------------------------------------------------------------------
(***************************************************************************)
(* The theorems.                                                           *)
(***************************************************************************)

\* The inductive invariant, for every number of back buffers and every number
\* of frames the runtime supports.
THEOREM VendorInvariant == Spec => []VendorInv
<1>1. VendorInv /\ [Next]_vars => VendorInv'
  BY BeginFrameKeeps, ChangeSettingsKeeps, MeasureDepthKeeps,
     ResetAllHistoryKeeps, InitializeSharedKeeps, ShutdownSharedKeeps,
     PreResetKeeps, PostResetKeeps, ExitKeeps, ResizeBuffersKeeps,
     FinishResizeKeeps, SwitchTargetKeeps, RecordKeeps, DropFrameKeeps,
     GenerateKeeps, PresentKeeps, StutterKeeps
  DEF Next
<1> QED
  BY <1>1, InitHolds, PTL DEF Spec

\* Every part of the session ranges over its type (TypeOK).
THEOREM TypesHold == Spec => []TypeOK
<1>1. VendorInv => TypeOK
  BY DEF VendorInv, SoundGen, Standing, Generators, Matched, Lent, Free,
         Ranges, TypeOK
<1> QED
  BY <1>1, VendorInvariant, PTL

\* The generator is installed exactly while its chain is the one presented
\* through, whichever step of an installation, a reinstallation or a handoff
\* back failed (install_if_ready and the handoff functions of the bridge).
THEOREM ChainAlwaysMatches == Spec => []ChainMatchesGenerator
<1>1. VendorInv => ChainMatchesGenerator
  BY DEF VendorInv, Matched, Lent, Free, ChainMatchesGenerator
<1> QED
  BY <1>1, VendorInvariant, PTL

\* Whoever turned the switch off, the gate, a device reset or a rebuild of
\* the shared textures, remembers it and will turn it on again.
THEOREM NobodyIsStranded == Spec => []NeverStranded
<1>1. VendorInv => NeverStranded
  BY DEF VendorInv
<1> QED
  BY <1>1, VendorInvariant, PTL

\* An enabled generator whose history broke has a reset pending until a frame
\* carries it (reset_pending of both generators).
THEOREM ResetAlwaysPending == Spec => []HistoryResetPending
<1>1. VendorInv => HistoryResetPending
  BY DEF VendorInv, SoundGen, Disciplined, HistoryResetPending
<1> QED
  BY <1>1, VendorInvariant, PTL

\* The runtime generates only while the switch is on, and FSR only from a
\* frame whose submission was complete.
THEOREM OnlyWholeFramesGenerated == Spec => []WholeFramesGenerated
<1>1. VendorInv => WholeFramesGenerated
  BY DEF VendorInv, SoundGen, Disciplined, Whole, WholeFramesGenerated
<1> QED
  BY <1>1, VendorInvariant, PTL

\* XeSS-FG never sleeps without low latency, and no two frames are tagged
\* under one id.
THEOREM LatencyAlwaysServes == Spec => []LatencyServesGenerator
<1>1. VendorInv => LatencyServesGenerator
  BY DEF VendorInv, SoundGen, Standing, LatencyServesGenerator
<1> QED
  BY <1>1, VendorInvariant, PTL

=============================================================================
