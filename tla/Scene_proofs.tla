---------------------------- MODULE Scene_proofs ----------------------------
(***************************************************************************)
(* Proofs about the scene of a frame and who upscales it, for any values   *)
(* of the constants.  SceneRoute and Upscaling share no state; they are    *)
(* proved about one after the other.                                       *)
(*                                                                         *)
(* SceneRoute, a frame's way from Skyrim's resolution update to Present:   *)
(* who is told a jitter is told the one the world was drawn with, the      *)
(* viewport follows the UI phase, and a frame that lost its UI is never    *)
(* called healthy.  First the operators of CameraCapture and               *)
(* ResolutionControl, then one action at a time.                           *)
(*                                                                         *)
(* Upscaling: Skyrim draws at the extent the running upscaler was set up   *)
(* for, the file names what runs, and no provider goes on with a history   *)
(* of frames it did not see.                                               *)
(***************************************************************************)
EXTENDS SceneRoute, Upscaling, TLAPS

-----------------------------------------------------------------------------
(***************************************************************************)
(* Types.                                                                  *)
(***************************************************************************)
Scales == {"reduced", "full"}

Owners == [requested : BOOLEAN, engine : BOOLEAN, probe : 0 .. SplitProbeFrames,
           abandoned : BOOLEAN]

\* A probe that is still running is not over.
Probing(o) == o \in Owners /\ (~o.abandoned => o.probe < SplitProbeFrames)

Resolutions ==
    [scale : Scales, last : Scales, jitter : Jitters, active : BOOLEAN,
     menu : BOOLEAN, owner : Owners, patched : BOOLEAN, captured : BOOLEAN,
     savedFlag : BOOLEAN, savedSetting : BOOLEAN, savedDynamic : BOOLEAN,
     savedLock : 0 .. 1, projection : Jitters, ui : BOOLEAN,
     uiFailed : BOOLEAN, uiDeclined : BOOLEAN]

Engines ==
    [readable : BOOLEAN, flag : BOOLEAN, setting : BOOLEAN, dynamic : BOOLEAN,
     lock : 0 .. 1, scale : Scales, previous : Scales, projection : Jitters,
     viewport : {"render", "output"}]

Cameras == [perspective : BOOLEAN, jitter : Jitters, located : BOOLEAN,
            history : Histories]

Reports == [jitter : Jitters, coherent : BOOLEAN]

Captures ==
    [enabled : BOOLEAN, frozen : BOOLEAN, valid : BOOLEAN, frame : Cameras,
     fresh : BOOLEAN, source : Sources \cup {"requested"}, snapshot : Reports,
     engine : BOOLEAN]

Decisions ==
    [upscaler : BOOLEAN, failed : BOOLEAN, planes : BOOLEAN, paused : BOOLEAN,
     jitter : BOOLEAN, source : Sources, generation : BOOLEAN,
     shared : BOOLEAN, up : BOOLEAN]

Uis == [inside : BOOLEAN, pending : BOOLEAN, opened : BOOLEAN,
        rendering : BOOLEAN, hudless : BOOLEAN, fgHudless : BOOLEAN,
        captured : BOOLEAN]

Passes == [final : BOOLEAN, resolve : BOOLEAN, prepared : BOOLEAN,
           late : BOOLEAN]

Places == {"reduced", "scene", "back", "layer"}

LEMMA JitterFacts ==
    /\ NoJitter \in Jitters /\ GameJitter \in Jitters /\ Unrastered \notin Jitters
    /\ \A f \in Nat : (f % Samples) + 1 \in Jitters
BY SamplesAssumption DEF NoJitter, GameJitter, Jitters, Unrastered

-----------------------------------------------------------------------------
(***************************************************************************)
(* The capture of the camera.                                              *)
(***************************************************************************)
\* The capture holds the same camera and may be written by the same hooks.
SameCamera(c, d) ==
    d.enabled = c.enabled /\ d.frozen = c.frozen /\ d.frame = c.frame

LEMMA CaptureStarts ==
    /\ NewCapture \in Captures /\ ~NewCapture.frozen /\ ~NewCapture.fresh
    /\ \A c \in Captures :
         /\ Install(c) \in Captures /\ Install(c).enabled = TRUE
         /\ Install(c).frozen = c.frozen
         /\ ShutdownCapture(c) \in Captures
         /\ ShutdownCapture(c).frozen = c.frozen
<1>1. NoCamera \in Cameras /\ NoReport \in Reports
  BY JitterFacts DEF NoCamera, NoReport, Cameras, Reports, Histories
<1>2. NewCapture \in Captures /\ ~NewCapture.frozen /\ ~NewCapture.fresh
  BY <1>1 DEF NewCapture, Captures
<1>3. ASSUME NEW c \in Captures
      PROVE  /\ Install(c) \in Captures /\ Install(c).enabled = TRUE
             /\ Install(c).frozen = c.frozen
             /\ ShutdownCapture(c) \in Captures
             /\ ShutdownCapture(c).frozen = c.frozen
  BY <1>1 DEF Install, ShutdownCapture, Captures
<1> QED
  BY <1>2, <1>3

LEMMA FreezeLemma ==
    ASSUME NEW c \in Captures, NEW on \in BOOLEAN
    PROVE  /\ Freeze(c, on) \in Captures
           /\ Freeze(c, on).frozen = on
           /\ Freeze(c, on).enabled = c.enabled
           /\ Freeze(c, on).frame = c.frame
           /\ Freeze(c, on).fresh = c.fresh
           /\ Freeze(c, on).source = c.source
           /\ Freeze(c, on).snapshot = c.snapshot
BY DEF Freeze, Captures

\* A write is kept only before the scene is final, and only a perspective one;
\* any write makes the snapshot old.
LEMMA WriteLemma ==
    ASSUME NEW c \in Captures, NEW m \in Cameras
    PROVE  /\ WriteCamera(c, m) \in Captures
           /\ WriteCamera(c, m).enabled = c.enabled
           /\ WriteCamera(c, m).frozen = c.frozen
           /\ c.enabled => ~WriteCamera(c, m).fresh
           /\ c.enabled /\ ~c.frozen /\ m.perspective =>
                WriteCamera(c, m).frame = m
           /\ c.frozen \/ ~m.perspective =>
                WriteCamera(c, m).frame = c.frame
<1>1. NoReport \in Reports
  BY JitterFacts DEF NoReport, Reports
<1> DEFINE kept == IF Accepts(c, m) THEN m ELSE c.frame
           w == [c EXCEPT !.frame = kept, !.valid = TRUE, !.fresh = FALSE,
                          !.snapshot = NoReport]
<1>2. kept \in Cameras
  BY DEF Captures
<1>3. /\ ~c.frozen /\ m.perspective => kept = m
      /\ c.frozen \/ ~m.perspective => kept = c.frame
  BY DEF Accepts
<1>4. WriteCamera(c, m) = IF ~c.enabled THEN c ELSE w
  BY DEF WriteCamera
<1> HIDE DEF kept
<1>5. /\ w \in Captures /\ w.enabled = c.enabled /\ w.frozen = c.frozen
      /\ ~w.fresh /\ w.frame = kept
  BY <1>1, <1>2 DEF Captures
<1> HIDE DEF w
<1> QED
  BY <1>3, <1>4, <1>5

LEMMA FrameJitterLemma ==
    ASSUME NEW c \in Captures, NEW source \in Sources, NEW requested \in Jitters
    PROVE  LET d == FrameJitter(c, source, requested)
           IN  /\ d \in Captures /\ SameCamera(c, d)
               /\ d.fresh /\ d.source = source
               /\ \/ c.fresh /\ c.source = source /\ d.snapshot = c.snapshot
                  \/ d.snapshot = SelectReported(source, requested,
                                                 MeasuredJitter(c.frame))
<1> DEFINE told_ == SelectReported(source, requested, MeasuredJitter(c.frame))
           engine_ == EngineApplies(c.frame)
           d == FrameJitter(c, source, requested)
           w == [c EXCEPT !.snapshot = told_, !.engine = engine_,
                          !.fresh = TRUE, !.source = source]
<1>1. c.frame \in Cameras
  BY DEF Captures
<1>2. told_ \in Reports
  BY <1>1, JitterFacts DEF SelectReported, MeasuredJitter, NoReport, Reports,
                           Cameras
<1>3. engine_ \in BOOLEAN
  BY <1>1 DEF EngineApplies, Cameras
<1>4. d = IF c.fresh /\ c.source = source THEN c ELSE w
  BY DEF FrameJitter
<1> HIDE DEF told_, engine_
<1>5. /\ w \in Captures /\ SameCamera(c, w) /\ w.fresh /\ w.source = source
      /\ w.snapshot = told_
  BY <1>2, <1>3 DEF Captures, SameCamera
<1> HIDE DEF w, d
<1> QED
  BY <1>4, <1>5 DEF d, told_, SameCamera

\* The frame's snapshot, where it still stands, is the offset.
Stands(c, source, offset) ==
    c.fresh /\ c.source = source =>
        c.snapshot = [jitter |-> offset, coherent |-> TRUE]

OffsetOf(source, requested, carried) ==
    IF source = "requested" THEN requested ELSE carried

\* build_constants leaves the camera as it is, and what it reports is what the
\* snapshot says.
LEMMA ConstantsLemma ==
    ASSUME NEW c \in Captures, NEW planes \in BOOLEAN, NEW source \in Sources,
           NEW requested \in Jitters
    PROVE  LET b == BuildConstants(c, planes, FALSE, source, requested)
           IN  /\ b.capture \in Captures /\ SameCamera(c, b.capture)
               /\ b.ok \in BOOLEAN /\ b.report \in Reports
               /\ c.frame.located /\ Stands(c, source,
                    OffsetOf(source, requested, c.frame.jitter)) =>
                  /\ Stands(b.capture, source,
                            OffsetOf(source, requested, c.frame.jitter))
                  /\ b.ok => b.report.jitter =
                            OffsetOf(source, requested, c.frame.jitter)
<1> DEFINE b == BuildConstants(c, planes, FALSE, source, requested)
           d == FrameJitter(c, source, requested)
           off == OffsetOf(source, requested, c.frame.jitter)
           again == FALSE \/ HistoryReset(c.frame)
<1>1. \/ b = [capture |-> c, ok |-> FALSE, report |-> NoReport, reset |-> FALSE]
      \/ b = [capture |-> d, ok |-> TRUE, report |-> d.snapshot,
              reset |-> again]
  BY DEF BuildConstants
<1>2. /\ d \in Captures /\ SameCamera(c, d)
      /\ d.fresh /\ d.source = source
      /\ \/ c.fresh /\ c.source = source /\ d.snapshot = c.snapshot
         \/ d.snapshot = SelectReported(source, requested,
                                        MeasuredJitter(c.frame))
  BY FrameJitterLemma
<1> HIDE DEF b, d, again
<1>3. d.snapshot \in Reports
  BY <1>2 DEF Captures
<1>4. c.frame.located => SelectReported(source, requested,
           MeasuredJitter(c.frame)) = [jitter |-> off, coherent |-> TRUE]
  BY DEF SelectReported, MeasuredJitter, OffsetOf
<1>5. NoReport \in Reports
  BY JitterFacts DEF NoReport, Reports
<1> HIDE DEF off
<1>6. c.frame.located /\ Stands(c, source, off) =>
         d.snapshot = [jitter |-> off, coherent |-> TRUE]
  BY <1>2, <1>4 DEF Stands
<1>7. CASE b = [capture |-> c, ok |-> FALSE, report |-> NoReport,
                reset |-> FALSE]
  <2>1. b.capture = c /\ b.ok = FALSE /\ b.report = NoReport
    BY <1>7
  <2> QED
    BY <1>5, <2>1 DEF SameCamera, b, off
<1>8. CASE b = [capture |-> d, ok |-> TRUE, report |-> d.snapshot,
                reset |-> again]
  <2>1. b.capture = d /\ b.ok = TRUE /\ b.report = d.snapshot
    BY <1>8
  <2>2. c.frame.located /\ Stands(c, source, off) =>
           Stands(d, source, off) /\ d.snapshot.jitter = off
    BY <1>6 DEF Stands
  <2> QED
    BY <1>2, <1>3, <2>1, <2>2 DEF b, off
<1> QED
  BY <1>1, <1>7, <1>8

-----------------------------------------------------------------------------
(***************************************************************************)
(* The plugin's hold over the engine.                                      *)
(***************************************************************************)
\* The members that the UI phase is made of.
SameUi(d, e) ==
    e.ui = d.ui /\ e.uiFailed = d.uiFailed /\ e.uiDeclined = d.uiDeclined

LEMMA ScaleLemma ==
    ASSUME NEW sf \in Surfaces, NEW ready \in BOOLEAN
    PROVE  /\ ScaleOf(sf, ready) \in Scales
           /\ \A v \in {"render", "output"} :
                WorldViewport(sf, v) \in {"render", "output"}
BY DEF ScaleOf, Scales, WorldViewport

LEMMA ScaledLemma ==
    ASSUME NEW d \in Resolutions, NEW e \in Engines, NEW sf \in Surfaces,
           NEW t \in Decisions, NEW ready \in BOOLEAN
    PROVE  /\ Scaled(d, e, sf, t, ready) \in Engines
           /\ Scaled(d, e, sf, t, ready).viewport = WorldViewport(sf, e.viewport)
<1> DEFINE view == WorldViewport(sf, e.viewport)
           mode == DynamicMode(d, sf, t.upscaler)
           scale == ScaleOf(sf, ready)
           lock == LockFor(sf, scale = "reduced", t.upscaler, d.savedLock)
<1>1. view \in {"render", "output"} /\ scale \in Scales
  BY ScaleLemma DEF Engines
<1>2. mode \in BOOLEAN
  BY DEF DynamicMode, Decisions, Resolutions
<1>3. lock \in 0 .. 1
  BY DEF LockFor, Resolutions, Surfaces
<1>4. d.last \in Scales
  BY DEF Resolutions
<1>5. Scaled(d, e, sf, t, ready) =
        [e EXCEPT !.viewport = view, !.dynamic = mode, !.scale = scale,
                  !.previous = d.last, !.lock = lock]
  BY DEF Scaled
<1> HIDE DEF view, mode, scale, lock
<1>6. /\ Scaled(d, e, sf, t, ready) \in Engines
      /\ Scaled(d, e, sf, t, ready).viewport = view
  BY <1>1, <1>2, <1>3, <1>4, <1>5 DEF Engines
<1> QED
  BY <1>6 DEF view

LEMMA ReadyLemma ==
    ASSUME NEW d \in Resolutions, NEW t \in Decisions, NEW c \in Captures
    PROVE  EvaluationReady(d, t, c) \in BOOLEAN
BY DEF EvaluationReady

LEMMA UpdateResolutionLemma ==
    ASSUME NEW d \in Resolutions, NEW e \in Engines, NEW sf \in Surfaces,
           NEW t \in Decisions, NEW c \in Captures
    PROVE  LET r == UpdateResolution(d, e, sf, t, c)
           IN  /\ r.dr \in Resolutions /\ SameUi(d, r.dr)
               /\ r.dr.owner = d.owner
               /\ r.engine \in Engines
               /\ r.engine.viewport = WorldViewport(sf, e.viewport)
<1> DEFINE ready == EvaluationReady(d, t, c)
           scale == ScaleOf(sf, ready)
           set == Scaled(d, e, sf, t, ready)
           n == [d EXCEPT !.scale = scale]
           r == UpdateResolution(d, e, sf, t, c)
<1>1. ready \in BOOLEAN
  BY ReadyLemma
<1>2. r = [dr |-> n, engine |-> set]
  BY DEF UpdateResolution
<1> HIDE DEF ready
<1>3. scale \in Scales /\ set \in Engines
      /\ set.viewport = WorldViewport(sf, e.viewport)
  BY <1>1, ScaleLemma, ScaledLemma
<1> HIDE DEF scale, set, r
<1>4. n \in Resolutions /\ SameUi(d, n) /\ n.owner = d.owner
  BY <1>3 DEF Resolutions, SameUi
<1> HIDE DEF n
<1>5. r.dr = n /\ r.engine = set
  BY <1>2
<1> QED
  BY <1>3, <1>4, <1>5 DEF r

\* The live flag of Skyrim's TAA, written where it can be read.
LEMMA FlagLemma ==
    ASSUME NEW d \in Resolutions, NEW e \in Engines, NEW up \in BOOLEAN
    PROVE  /\ EnableTaaForWorld(d, e, up) \in Engines
           /\ EnableTaaForWorld(d, e, up).viewport = e.viewport
           /\ EnableTaaForWorld(d, e, up).scale = e.scale
           /\ EnableTaaForWorld(d, e, up).lock = e.lock
           /\ SuppressTaaResolve(e, up) \in Engines
           /\ SuppressTaaResolve(e, up).viewport = e.viewport
           /\ SuppressTaaResolve(e, up).scale = e.scale
           /\ SuppressTaaResolve(e, up).lock = e.lock
<1>1. ASSUME NEW v \in BOOLEAN
      PROVE  /\ SetFlag(e, v) \in Engines
             /\ SetFlag(e, v).viewport = e.viewport
             /\ SetFlag(e, v).scale = e.scale /\ SetFlag(e, v).lock = e.lock
  BY <1>1 DEF SetFlag, Engines
<1>2. (~d.patched) \in BOOLEAN
  OBVIOUS
<1> QED
  BY <1>1, <1>2 DEF EnableTaaForWorld, SuppressTaaResolve

\* The probe of who jitters never runs past its end.
LEMMA OwnershipLemma ==
    ASSUME NEW o \in Owners, Probing(o), NEW up \in BOOLEAN,
           NEW requested \in BOOLEAN, NEW eng \in BOOLEAN,
           NEW patched \in BOOLEAN
    PROVE  Probing(UpdateOwnership(o, up, requested, eng, patched))
<1> DEFINE read == [o EXCEPT !.requested = requested, !.engine = eng]
           over == o.probe + 1 >= SplitProbeFrames
<1>1. /\ read \in Owners /\ read.probe = o.probe
      /\ read.abandoned = o.abandoned
  BY DEF Owners
<1>2. /\ o.probe \in 0 .. SplitProbeFrames /\ SplitProbeFrames \in Nat \ {0}
      /\ over \in BOOLEAN
  BY ProbeAssumption DEF Owners
<1>3. CASE eng
  <2> DEFINE n == [read EXCEPT !.probe = 0]
  <2>1. n \in Owners /\ n.probe = 0
    <3>1. 0 \in 0 .. SplitProbeFrames
      BY <1>2
    <3> QED
      BY <1>1, <3>1 DEF Owners
  <2>2. UpdateOwnership(o, up, requested, eng, patched) = n
    BY <1>3 DEF UpdateOwnership
  <2> HIDE DEF n
  <2> QED
    BY <1>2, <2>1, <2>2 DEF Probing
<1>4. CASE ~eng /\ up /\ requested /\ ~patched /\ ~o.abandoned
  <2> DEFINE n == [read EXCEPT !.probe = @ + 1, !.abandoned = over]
  <2>1. UpdateOwnership(o, up, requested, eng, patched) = n
    BY <1>4 DEF UpdateOwnership
  <2>2. o.probe + 1 \in 0 .. SplitProbeFrames
    BY <1>2, <1>4 DEF Probing
  <2>3. ~over => o.probe + 1 < SplitProbeFrames
    BY <1>2
  <2> HIDE DEF over
  <2>4. n \in Owners /\ n.probe = o.probe + 1 /\ n.abandoned = over
    BY <1>1, <1>2, <2>2 DEF Owners
  <2> HIDE DEF n
  <2> QED
    BY <2>1, <2>3, <2>4 DEF Probing
<1>5. CASE ~eng /\ ~(up /\ requested /\ ~patched /\ ~o.abandoned)
  <2>1. UpdateOwnership(o, up, requested, eng, patched) = read
    BY <1>5 DEF UpdateOwnership
  <2> HIDE DEF read
  <2> QED
    BY <1>1, <2>1 DEF Probing
<1> QED
  BY <1>3, <1>4, <1>5

LEMMA TaaLemma ==
    ASSUME NEW d \in Resolutions, NEW e \in Engines, NEW up \in BOOLEAN
    PROVE  LET r == UpdateTaa(d, e, up)
           IN  /\ r.dr \in Resolutions /\ SameUi(d, r.dr)
               /\ r.dr.owner = d.owner
               /\ r.engine \in Engines
               /\ r.engine.viewport = e.viewport
<1> DEFINE r == UpdateTaa(d, e, up)
           setting == IF up
                      THEN TemporalAaPolicy(d.owner, up) =
                               "engine_jitter_without_resolve"
                      ELSE d.savedSetting
           saved == IF d.captured THEN d.savedFlag ELSE e.flag
           flag == up \/ saved
           kept == [d EXCEPT !.captured = TRUE, !.savedFlag = saved]
           written == [e EXCEPT !.setting = setting]
           whole == [written EXCEPT !.flag = flag]
<1>1. setting \in BOOLEAN /\ saved \in BOOLEAN /\ flag \in BOOLEAN
  BY DEF Resolutions, Engines
<1>2. r = IF ~e.readable THEN [dr |-> d, engine |-> written]
          ELSE [dr |-> kept, engine |-> whole]
  BY DEF UpdateTaa
<1> HIDE DEF setting, saved, flag, r
<1>3. written \in Engines /\ written.viewport = e.viewport
  BY <1>1 DEF Engines
<1> HIDE DEF written
<1>4. whole \in Engines /\ whole.viewport = e.viewport
  BY <1>1, <1>3 DEF Engines
<1>5. kept \in Resolutions /\ SameUi(d, kept) /\ kept.owner = d.owner
  BY <1>1 DEF Resolutions, SameUi
<1> HIDE DEF whole, kept
<1>6. \/ r.dr = d /\ r.engine = written
      \/ r.dr = kept /\ r.engine = whole
  BY <1>2
<1>7. SameUi(d, d)
  BY DEF SameUi
<1> QED
  BY <1>3, <1>4, <1>5, <1>6, <1>7 DEF r

LEMMA EnterLemma ==
    ASSUME NEW d \in Resolutions, Probing(d.owner), NEW e \in Engines,
           NEW sf \in Surfaces, NEW t \in Decisions, NEW c \in Captures
    PROVE  LET r == EnterJitter(d, e, sf, t, c)
           IN  /\ r.dr \in Resolutions /\ SameUi(d, r.dr)
               /\ Probing(r.dr.owner)
               /\ r.engine \in Engines
               /\ r.engine.viewport = WorldViewport(sf, e.viewport)
<1> DEFINE r == EnterJitter(d, e, sf, t, c)
           asked == d.jitter # NoJitter
           owner == UpdateOwnership(d.owner, t.upscaler, asked, c.engine,
                                    d.patched)
           d1 == [d EXCEPT !.owner = owner, !.projection = e.projection]
           taa == UpdateTaa(d1, e, t.upscaler)
           ready == EvaluationReady(d, t, c)
           scale == ScaleOf(sf, ready)
           d2 == [taa.dr EXCEPT !.scale = scale, !.last = scale,
                                !.active = ready]
           set == Scaled(d, taa.engine, sf, t, ready)
<1>1. /\ d.owner \in Owners /\ t.upscaler \in BOOLEAN /\ c.engine \in BOOLEAN
      /\ d.patched \in BOOLEAN /\ asked \in BOOLEAN /\ e.projection \in Jitters
  BY DEF Resolutions, Decisions, Captures, Engines
<1>2. r = [dr |-> d2, engine |-> set, ready |-> ready]
  BY DEF EnterJitter
<1>3. ready \in BOOLEAN
  BY ReadyLemma
<1> HIDE DEF asked, ready, r
<1>4. Probing(owner)
  BY <1>1, OwnershipLemma
<1>5. owner \in Owners
  BY <1>4 DEF Probing
<1> HIDE DEF owner
<1>6. d1 \in Resolutions /\ SameUi(d, d1) /\ d1.owner = owner
  BY <1>1, <1>5 DEF Resolutions, SameUi
<1> HIDE DEF d1
<1>7. /\ taa.dr \in Resolutions /\ SameUi(d1, taa.dr) /\ taa.dr.owner = d1.owner
      /\ taa.engine \in Engines /\ taa.engine.viewport = e.viewport
  BY <1>1, <1>6, TaaLemma
<1> HIDE DEF taa
<1>8. scale \in Scales
  BY <1>3, ScaleLemma
<1> HIDE DEF scale
<1>9. d2 \in Resolutions /\ SameUi(taa.dr, d2) /\ d2.owner = taa.dr.owner
  BY <1>3, <1>7, <1>8 DEF Resolutions, SameUi
<1>10. set \in Engines /\ set.viewport = WorldViewport(sf, e.viewport)
  BY <1>3, <1>7, ScaledLemma
<1> HIDE DEF d2, set
<1>11. r.dr = d2 /\ r.engine = set
  BY <1>2
<1>12. SameUi(d, d2)
  BY <1>6, <1>7, <1>9 DEF SameUi
<1> QED
  BY <1>4, <1>6, <1>7, <1>9, <1>10, <1>11, <1>12 DEF r

LEMMA UpdateJitterLemma ==
    ASSUME NEW d \in Resolutions, Probing(d.owner), NEW e \in Engines,
           NEW sf \in Surfaces, NEW t \in Decisions, NEW c \in Captures,
           NEW f \in Nat
    PROVE  LET r == UpdateJitter(d, e, sf, t, c, f)
           IN  /\ r.dr \in Resolutions /\ SameUi(d, r.dr)
               /\ Probing(r.dr.owner)
               /\ r.engine \in Engines
               /\ r.engine.viewport = WorldViewport(sf, e.viewport)
<1> DEFINE r == UpdateJitter(d, e, sf, t, c, f)
           e1 == EnableTaaForWorld(d, e, t.upscaler)
           world == GameJitterUpdate(e1)
           n == EnterJitter(d, world, sf, t, c)
           sample == IF t.jitter THEN (f % Samples) + 1 ELSE NoJitter
           dw == [n.dr EXCEPT !.jitter = sample]
           ew == [n.engine EXCEPT !.projection = sample]
           dn == [n.dr EXCEPT !.jitter = NoJitter]
<1>1. r = IF n.ready THEN [dr |-> dw, engine |-> ew]
          ELSE [dr |-> dn, engine |-> n.engine]
  BY DEF UpdateJitter, WriteJitter, DropJitter
<1>2. t.upscaler \in BOOLEAN
  BY DEF Decisions
<1>3. sample \in Jitters /\ NoJitter \in Jitters /\ GameJitter \in Jitters
  BY JitterFacts
<1> HIDE DEF r, sample
<1>4. e1 \in Engines /\ e1.viewport = e.viewport
  BY <1>2, FlagLemma
<1> HIDE DEF e1
<1>5. world \in Engines /\ world.viewport = e.viewport
  BY <1>3, <1>4 DEF GameJitterUpdate, Engines
<1> HIDE DEF world
<1>6. /\ n.dr \in Resolutions /\ SameUi(d, n.dr) /\ Probing(n.dr.owner)
      /\ n.engine \in Engines
      /\ n.engine.viewport = WorldViewport(sf, e.viewport)
  BY <1>5, EnterLemma
<1> HIDE DEF n
<1>7. /\ dw \in Resolutions /\ SameUi(n.dr, dw) /\ dw.owner = n.dr.owner
      /\ dn \in Resolutions /\ SameUi(n.dr, dn) /\ dn.owner = n.dr.owner
  BY <1>3, <1>6 DEF Resolutions, SameUi
<1>8. ew \in Engines /\ ew.viewport = n.engine.viewport
  BY <1>3, <1>6 DEF Engines
<1> HIDE DEF dw, dn, ew
<1>9. \/ r.dr = dw /\ r.engine = ew
      \/ r.dr = dn /\ r.engine = n.engine
  BY <1>1
<1>10. SameUi(d, dw) /\ SameUi(d, dn)
  BY <1>6, <1>7 DEF SameUi
<1> QED
  BY <1>6, <1>7, <1>8, <1>9, <1>10 DEF r

LEMMA FoldedLemma ==
    ASSUME NEW d \in Resolutions, NEW e \in Engines
    PROVE  FoldedJitter(d, e) \in Jitters
BY JitterFacts DEF FoldedJitter, Engines

\* The UI phase opens on the output's extent.
OpenedUi(d, sf, b) ==
    /\ b.dr \in Resolutions /\ b.dr.owner = d.owner /\ b.dr.jitter = d.jitter
    /\ b.dr.ui = TRUE
    /\ b.engine \in Engines /\ b.engine.viewport = "output"
    /\ sf = "sub_rect" => b.engine.scale = "full" /\ b.engine.lock = 1

LEMMA BeginFullLemma ==
    ASSUME NEW d \in Resolutions, NEW e \in Engines, NEW sf \in Surfaces
    PROVE  OpenedUi(d, sf, BeginFullUi(d, e, sf))
<1> DEFINE o == [d EXCEPT !.ui = TRUE, !.uiFailed = FALSE,
                          !.uiDeclined = FALSE]
           x == RestoreFullResolution(d, e)
           y == [e EXCEPT !.viewport = "output"]
           b == BeginFullUi(d, e, sf)
<1>1. o \in Resolutions /\ o.owner = d.owner /\ o.jitter = d.jitter
      /\ o.ui = TRUE
  BY DEF Resolutions
<1>2. d.projection \in Jitters /\ "full" \in Scales
  BY DEF Resolutions, Scales
<1>3. x \in Engines /\ x.viewport = "output" /\ x.scale = "full" /\ x.lock = 1
  <2> DEFINE p == d.projection
  <2>1. x = [e EXCEPT !.projection = p, !.scale = "full", !.previous = "full",
                      !.lock = 1, !.viewport = "output"]
    BY DEF RestoreFullResolution
  <2>2. p \in Jitters /\ 1 \in 0 .. 1
    BY <1>2
  <2> HIDE DEF p, x
  <2> QED
    BY <1>2, <2>1, <2>2 DEF Engines
<1>4. y \in Engines /\ y.viewport = "output"
  BY DEF Engines
<1>5. b = [dr |-> o, engine |-> IF sf = "sub_rect" THEN x ELSE y]
  BY DEF BeginFullUi
<1> HIDE DEF o, x, y, b
<1>6. b.dr = o /\ b.engine = IF sf = "sub_rect" THEN x ELSE y
  BY <1>5
<1> QED
  BY <1>1, <1>3, <1>4, <1>6 DEF b, OpenedUi

\* Its end gives the scene's back.
ClosedUi(d, e, sf, n) ==
    /\ n.dr \in Resolutions /\ n.dr.owner = d.owner /\ n.dr.jitter = d.jitter
    /\ n.dr.ui = FALSE
    /\ n.engine \in Engines
    /\ n.engine.scale = e.scale /\ n.engine.lock = e.lock
    /\ ~d.ui => n.engine = e
    /\ d.ui => n.engine.viewport = UiEndExtent(sf)

LEMMA EndFullLemma ==
    ASSUME NEW d \in Resolutions, NEW e \in Engines, NEW sf \in Surfaces
    PROVE  ClosedUi(d, e, sf, EndFullUi(d, e, sf))
<1> DEFINE o == [d EXCEPT !.ui = FALSE]
           x == [e EXCEPT !.viewport = UiEndExtent(sf)]
           n == EndFullUi(d, e, sf)
<1>1. o \in Resolutions /\ o.owner = d.owner /\ o.jitter = d.jitter
      /\ o.ui = FALSE
  BY DEF Resolutions
<1>2. UiEndExtent(sf) \in {"render", "output"}
  BY DEF UiEndExtent
<1>3. x \in Engines /\ x.viewport = UiEndExtent(sf) /\ x.scale = e.scale
      /\ x.lock = e.lock
  BY <1>2 DEF Engines
<1>4. n = IF ~d.ui THEN [dr |-> d, engine |-> e] ELSE [dr |-> o, engine |-> x]
  BY DEF EndFullUi
<1>5. d.ui \in BOOLEAN
  BY DEF Resolutions
<1> HIDE DEF o, x, n
<1>6. \/ ~d.ui /\ n.dr = d /\ n.engine = e
      \/ d.ui /\ n.dr = o /\ n.engine = x
  BY <1>4, <1>5
<1> QED
  BY <1>1, <1>3, <1>5, <1>6 DEF n, ClosedUi

LEMMA ShutdownLemma ==
    ASSUME NEW d \in Resolutions, NEW e \in Engines
    PROVE  LET r == ShutdownResolution(d, e)
           IN  /\ r.dr \in Resolutions /\ r.dr.owner = d.owner /\ r.dr.ui = FALSE
               /\ r.engine \in Engines /\ r.engine.viewport = e.viewport
<1> DEFINE flag == IF d.captured /\ e.readable THEN d.savedFlag ELSE e.flag
           n == [d EXCEPT !.scale = "full", !.last = "full",
                          !.jitter = NoJitter, !.active = FALSE,
                          !.menu = FALSE, !.captured = FALSE,
                          !.projection = NoJitter, !.ui = FALSE,
                          !.uiFailed = FALSE]
           x == [e EXCEPT !.dynamic = d.savedDynamic,
                          !.setting = d.savedSetting, !.flag = flag,
                          !.scale = "full", !.previous = "full",
                          !.lock = d.savedLock]
           r == ShutdownResolution(d, e)
<1>1. flag \in BOOLEAN /\ d.savedDynamic \in BOOLEAN /\ d.savedSetting \in BOOLEAN
      /\ d.savedLock \in 0 .. 1 /\ "full" \in Scales
  BY DEF Resolutions, Engines, Scales
<1>2. r = [dr |-> n, engine |-> x]
  BY DEF ShutdownResolution
<1> HIDE DEF flag, r
<1>3. n \in Resolutions /\ n.owner = d.owner /\ n.ui = FALSE
  BY <1>1, JitterFacts DEF Resolutions
<1>4. x \in Engines /\ x.viewport = e.viewport
  BY <1>1 DEF Engines
<1> HIDE DEF n, x
<1> QED
  BY <1>2, <1>3, <1>4 DEF r

-----------------------------------------------------------------------------
(***************************************************************************)
(* The invariant.                                                          *)
(***************************************************************************)
Typed ==
    /\ surface \in Surfaces /\ phase \in Phases /\ frame \in 0 .. MaxFrames
    /\ dr \in Resolutions /\ Probing(dr.owner)
    /\ engine \in Engines /\ cam \in Captures /\ s \in Decisions
    /\ ui \in Uis /\ pass \in Passes
    /\ told \subseteq Jitters /\ raster \in Jitters \cup {Unrastered}
    /\ drawn \subseteq Places

\* How far the frame is: until its scene is final the camera is open and nobody
\* was told anything; from then on the camera is closed.  A late frame starts
\* with it closed, and resolves nothing.
Staged ==
    /\ pass.resolve => phase = "final" /\ Virtual(surface) /\ ~pass.late
    /\ pass.final <=> cam.frozen
    /\ phase \in {"begun", "scaled", "world"} => (pass.late <=> pass.final)
    /\ pass.late /\ phase # "presented" => told = {}
    /\ phase \in {"begun", "scaled"} => raster = Unrastered
    /\ phase = "final" => raster # Unrastered
    /\ phase \in {"begun", "scaled", "world"} => told = {}
    /\ Virtual(surface) /\ phase = "final" => cam.frozen
    /\ s.up => cam.enabled
    /\ phase # "presented" => s.up

\* The offset that this frame's consumers are told.
Offset == OffsetOf(s.source, dr.jitter, raster)

\* The camera that is kept is the one the world was drawn with.
Carried ==
    /\ cam.frame.jitter = raster /\ cam.frame.located
    /\ Stands(cam, s.source, Offset)

Announced ==
    /\ Virtual(surface) /\ phase \in {"world", "final"} /\ raster # Unrastered
           /\ ~pass.late
         => Carried
    /\ Virtual(surface) /\ phase = "final" => told \subseteq {Offset}
    /\ Virtual(surface) =>
         /\ \A a, b \in told : a = b
         /\ s.source # "requested" /\ raster # Unrastered /\ ~pass.late =>
               told \subseteq {raster}

\* The extents, and when the UI phase can be open.
SizedOf(sf, d, e, ph) ==
    /\ sf # "complete" => e.viewport = "output"
    /\ sf = "complete" /\ d.ui => e.viewport = "output"
    /\ sf = "complete" /\ ~d.ui /\ ph \in {"scaled", "world", "final"} =>
          e.viewport = "render"
    /\ Virtual(sf) /\ d.ui => ph = "final"
    /\ d.ui /\ sf = "sub_rect" => e.scale = "full" /\ e.lock = 1

\* UI that was drawn into the layer keeps the phase open to the Present, and a
\* native frame opens it only for a generator.
Kept ==
    /\ ~Virtual(surface) /\ dr.ui => s.generation
    /\ ui.rendering => ui.opened
    /\ phase # "presented" /\ "layer" \in drawn =>
          dr.ui /\ ui.opened /\ ~ui.pending
    /\ "layer" \in shown.lost => ~shown.healthy

RouteInv ==
    Typed /\ Staged /\ Announced /\ SizedOf(surface, dr, engine, phase) /\ Kept

-----------------------------------------------------------------------------
(***************************************************************************)
(* Opening and closing the UI phase.                                       *)
(***************************************************************************)
LEMMA SurfaceFacts ==
    /\ \A sf \in Surfaces : Virtual(sf) \in BOOLEAN
    /\ ~Virtual("native") /\ Virtual("complete") /\ Virtual("sub_rect")
    /\ \A sf \in Surfaces : ~Virtual(sf) => sf = "native"
BY DEF Surfaces, Virtual

LEMMA BeginSized ==
    ASSUME NEW d \in Resolutions, NEW sf \in Surfaces, NEW b,
           OpenedUi(d, sf, b), NEW ph, ~Virtual(sf) \/ ph = "final"
    PROVE  SizedOf(sf, b.dr, b.engine, ph)
BY DEF SizedOf, OpenedUi

LEMMA EndSized ==
    ASSUME NEW d \in Resolutions, NEW e \in Engines, NEW sf \in Surfaces, NEW n,
           ClosedUi(d, e, sf, n), NEW ph, SizedOf(sf, d, e, ph)
    PROVE  SizedOf(sf, n.dr, n.engine, ph)
<1>1. d.ui \in BOOLEAN
  BY DEF Resolutions
<1>2. CASE ~d.ui
  BY <1>2 DEF SizedOf, ClosedUi
<1>3. CASE d.ui
  BY <1>3 DEF SizedOf, ClosedUi, UiEndExtent
<1> QED
  BY <1>1, <1>2, <1>3

\* The flags of the UI that a capture leaves alone.
SameFlags(u, v) ==
    /\ v.inside = u.inside /\ v.pending = u.pending /\ v.opened = u.opened
    /\ v.rendering = u.rendering

LEMMA CaptureUiLemma ==
    ASSUME s \in Decisions, NEW u \in Uis
    PROVE  /\ CaptureHudless(u) \in Uis /\ SameFlags(u, CaptureHudless(u))
           /\ CaptureOutput(u) \in Uis /\ SameFlags(u, CaptureOutput(u))
<1>1. ASSUME NEW fg \in BOOLEAN
      PROVE  /\ [u EXCEPT !.hudless = TRUE, !.fgHudless = fg] \in Uis
             /\ SameFlags(u, [u EXCEPT !.hudless = TRUE, !.fgHudless = fg])
             /\ [u EXCEPT !.fgHudless = TRUE] \in Uis
             /\ SameFlags(u, [u EXCEPT !.fgHudless = TRUE])
  BY <1>1 DEF Uis, SameFlags
<1>2. (u.fgHudless \/ ~Virtual(surface)) \in BOOLEAN
  OBVIOUS
<1>3. CaptureHudless(u) =
        IF s.shared
        THEN [u EXCEPT !.hudless = TRUE,
                       !.fgHudless = u.fgHudless \/ ~Virtual(surface)]
        ELSE u
  BY DEF CaptureHudless, Uis
<1>4. SameFlags(u, u)
  BY DEF SameFlags
<1>5. CaptureHudless(u) \in Uis /\ SameFlags(u, CaptureHudless(u))
  BY <1>1, <1>2, <1>3, <1>4
<1>6. CaptureOutput(u) \in Uis /\ SameFlags(u, CaptureOutput(u))
  BY <1>1, <1>4 DEF CaptureOutput
<1> QED
  BY <1>5, <1>6

\* What commit_pending_scene_resolve may come to, when it is reached in a frame
\* whose scene is final.
LEMMA ResolveLemma ==
    ASSUME Typed, Virtual(surface), phase = "final",
           SizedOf(surface, dr, engine, phase), Carried, told \subseteq {Offset},
           NEW u \in Uis, NEW r \in ResolveOutcomes(u)
    PROVE  /\ r.ok \in BOOLEAN
           /\ r.cam \in Captures /\ SameCamera(cam, r.cam)
           /\ Stands(r.cam, s.source, Offset)
           /\ r.told \subseteq Jitters /\ r.told \subseteq {Offset}
           /\ r.pass \in Passes /\ ~r.pass.resolve
           /\ r.pass.final = pass.final /\ r.pass.late = pass.late
           /\ r.dr \in Resolutions /\ r.dr.jitter = dr.jitter
           /\ r.dr.owner = dr.owner /\ (r.dr.ui \/ r.dr = dr)
           /\ r.engine \in Engines
           /\ SizedOf(surface, r.dr, r.engine, phase)
           /\ r.ui \in Uis /\ SameFlags(u, r.ui)
           /\ r.drawn \subseteq Places
           /\ "layer" \in r.drawn => "layer" \in drawn
<1> DEFINE read == FrameJitter(cam, s.source, dr.jitter)
           hud == CaptureHudless(u)
           out == CaptureOutput(hud)
           opened == BeginFullUi(dr, engine, surface)
           heard == {read.snapshot.jitter}
           pYes == [pass EXCEPT !.resolve = FALSE, !.prepared = TRUE]
           pNo == [pass EXCEPT !.resolve = FALSE]
           moved == {IF w = "reduced" THEN "scene" ELSE w : w \in drawn}
           Evals(capture, ears) ==
               [ok |-> TRUE, cam |-> capture, told |-> told \cup ears,
                pass |-> pYes, dr |-> opened.dr, engine |-> opened.engine,
                ui |-> out, drawn |-> moved]
           Keeps(capture) ==
               [ok |-> FALSE, cam |-> capture, told |-> told, pass |-> pNo,
                dr |-> dr, engine |-> engine, ui |-> hud, drawn |-> drawn]
<1>1. \/ r = Evals(cam, {}) \/ r = Keeps(cam)
      \/ r = Evals(read, heard) \/ r = Evals(read, {}) \/ r = Keeps(read)
  BY DEF ResolveOutcomes
<1>2. /\ dr \in Resolutions /\ engine \in Engines /\ cam \in Captures
      /\ s \in Decisions /\ pass \in Passes /\ surface \in Surfaces
      /\ drawn \subseteq Places /\ told \subseteq Jitters
      /\ s.source \in Sources /\ dr.jitter \in Jitters
  BY DEF Typed, Decisions, Resolutions
<1>3. Offset = OffsetOf(s.source, dr.jitter, cam.frame.jitter)
      /\ cam.frame.located /\ Stands(cam, s.source, Offset)
  BY DEF Carried, Offset
<1>4. /\ read \in Captures /\ SameCamera(cam, read)
      /\ Stands(read, s.source, Offset)
      /\ read.snapshot.jitter = Offset /\ read.snapshot \in Reports
  <2>1. /\ read \in Captures /\ SameCamera(cam, read)
        /\ \/ cam.fresh /\ cam.source = s.source /\ read.snapshot = cam.snapshot
           \/ read.snapshot = SelectReported(s.source, dr.jitter,
                                             MeasuredJitter(cam.frame))
    BY <1>2, FrameJitterLemma
  <2> HIDE DEF read
  <2>2. SelectReported(s.source, dr.jitter, MeasuredJitter(cam.frame))
          = [jitter |-> Offset, coherent |-> TRUE]
    BY <1>3 DEF SelectReported, MeasuredJitter, OffsetOf
  <2>3. read.snapshot = [jitter |-> Offset, coherent |-> TRUE]
    BY <1>3, <2>1, <2>2 DEF Stands
  <2>4. Stands(read, s.source, Offset)
    BY <2>3 DEF Stands
  <2>5. read.snapshot \in Reports
    BY <2>1 DEF Captures
  <2>6. read.snapshot.jitter = Offset
    BY <2>3
  <2> QED
    BY <2>1, <2>4, <2>5, <2>6
<1>5. /\ hud \in Uis /\ SameFlags(u, hud)
  BY <1>2, CaptureUiLemma
<1>6. /\ out \in Uis /\ SameFlags(hud, out)
  BY <1>2, <1>5, CaptureUiLemma
<1>7. /\ opened.dr \in Resolutions /\ opened.dr.owner = dr.owner
      /\ opened.dr.jitter = dr.jitter /\ opened.dr.ui = TRUE
      /\ opened.engine \in Engines
      /\ SizedOf(surface, opened.dr, opened.engine, phase)
  <2>1. OpenedUi(dr, surface, opened)
    BY <1>2, BeginFullLemma
  <2> HIDE DEF opened
  <2>2. SizedOf(surface, opened.dr, opened.engine, phase)
    BY <1>2, <2>1, BeginSized
  <2> QED
    BY <2>1, <2>2 DEF OpenedUi
<1>9. /\ pYes \in Passes /\ pYes.resolve = FALSE
      /\ pYes.final = pass.final /\ pYes.late = pass.late
      /\ pNo \in Passes /\ pNo.resolve = FALSE
      /\ pNo.final = pass.final /\ pNo.late = pass.late
  BY <1>2 DEF Passes
<1>10. moved \subseteq Places /\ ("layer" \in moved => "layer" \in drawn)
  BY <1>2 DEF Places
<1>11. heard \subseteq Jitters /\ heard \subseteq {Offset}
  BY <1>4 DEF Reports
<1>12. SameFlags(u, out) /\ SameCamera(cam, cam)
  BY <1>5, <1>6 DEF SameFlags, SameCamera
<1> HIDE DEF read, hud, out, opened, heard, pYes, pNo, moved
<1>13. ASSUME NEW capture \in {cam, read}, NEW ears \in {{}, heard},
              r = Evals(capture, ears)
       PROVE  /\ r.ok = TRUE /\ r.cam = capture /\ r.told = told \cup ears
              /\ r.pass = pYes /\ r.dr = opened.dr
              /\ r.engine = opened.engine /\ r.ui = out /\ r.drawn = moved
  BY <1>13
<1>14. ASSUME NEW capture \in {cam, read}, r = Keeps(capture)
       PROVE  /\ r.ok = FALSE /\ r.cam = capture /\ r.told = told
              /\ r.pass = pNo /\ r.dr = dr
              /\ r.engine = engine /\ r.ui = hud /\ r.drawn = drawn
  BY <1>14
<1>15. ASSUME NEW capture \in {cam, read}
       PROVE  /\ capture \in Captures /\ SameCamera(cam, capture)
              /\ Stands(capture, s.source, Offset)
  BY <1>2, <1>3, <1>4, <1>12, <1>15
<1>16. CASE \E capture \in {cam, read}, ears \in {{}, heard} :
               r = Evals(capture, ears)
  <2>1. PICK capture \in {cam, read} :
             \E ears \in {{}, heard} : r = Evals(capture, ears)
    BY <1>16
  <2>2. PICK ears \in {{}, heard} : r = Evals(capture, ears)
    BY <2>1
  <2>3. /\ r.ok = TRUE /\ r.cam = capture /\ r.told = told \cup ears
        /\ r.pass = pYes /\ r.dr = opened.dr
        /\ r.engine = opened.engine /\ r.ui = out /\ r.drawn = moved
    BY <1>13, <2>1, <2>2
  <2>4. r.told \subseteq Jitters /\ r.told \subseteq {Offset}
    BY <1>2, <1>11, <2>2, <2>3
  <2>5. /\ r.cam \in Captures /\ SameCamera(cam, r.cam)
        /\ Stands(r.cam, s.source, Offset)
    BY <1>15, <2>1, <2>3
  <2> QED
    BY <1>6, <1>7, <1>9, <1>10, <1>12, <2>3, <2>4, <2>5
<1>17. CASE \E capture \in {cam, read} : r = Keeps(capture)
  <2>1. PICK capture \in {cam, read} : r = Keeps(capture)
    BY <1>17
  <2>2. /\ r.ok = FALSE /\ r.cam = capture /\ r.told = told
        /\ r.pass = pNo /\ r.dr = dr
        /\ r.engine = engine /\ r.ui = hud /\ r.drawn = drawn
    BY <1>14, <2>1
  <2>3. /\ r.cam \in Captures /\ SameCamera(cam, r.cam)
        /\ Stands(r.cam, s.source, Offset)
    BY <1>15, <2>1, <2>2
  <2> QED
    BY <1>2, <1>5, <1>9, <2>2, <2>3
<1>18. \/ \E capture \in {cam, read}, ears \in {{}, heard} :
             r = Evals(capture, ears)
       \/ \E capture \in {cam, read} : r = Keeps(capture)
  BY <1>1
<1> QED
  BY <1>16, <1>17, <1>18

-----------------------------------------------------------------------------
(***************************************************************************)
(* The start, and the scene.                                               *)
(***************************************************************************)
LEMMA InitRoute == ASSUME Init PROVE RouteInv
<1>1. /\ surface \in Surfaces
      /\ engine \in EngineStates /\ cam = Install(NewCapture) /\ ui = NewUi
      /\ pass = NewPass /\ frame = 0 /\ phase = "begun" /\ raster = Unrastered
      /\ told = {} /\ drawn = {} /\ shown = NothingShown
  BY DEF Init
<1>2. engine \in Engines /\ engine.viewport = "output"
  <2>1. /\ TaaSettings \subseteq BOOLEAN
        /\ {FALSE} \subseteq BOOLEAN /\ {0} \subseteq 0 .. 1
        /\ {"full"} \subseteq Scales /\ {NoJitter} \subseteq Jitters
        /\ {"output"} \subseteq {"render", "output"}
    BY RouteAssumption, JitterFacts DEF Scales
  <2>2. EngineStates \subseteq Engines
    BY <2>1 DEF EngineStates, Engines
  <2>3. engine.viewport = "output"
    BY <1>1 DEF EngineStates
  <2> QED
    BY <1>1, <2>2, <2>3
<1>3. PICK patched \in BOOLEAN : dr = NewResolution(engine, patched)
  BY DEF Init
<1>4. NewOwnership \in Owners /\ Probing(NewOwnership)
  <2>1. 0 \in 0 .. SplitProbeFrames /\ 0 < SplitProbeFrames
    BY ProbeAssumption
  <2> QED
    BY <2>1 DEF NewOwnership, Owners, Probing
<1>5. /\ dr \in Resolutions /\ dr.owner = NewOwnership /\ dr.ui = FALSE
  <2>1. engine.setting \in BOOLEAN /\ engine.dynamic \in BOOLEAN
        /\ engine.lock \in 0 .. 1
    BY <1>2 DEF Engines
  <2> QED
    BY <1>3, <1>4, <2>1, JitterFacts DEF NewResolution, Resolutions, Scales
<1>6. /\ cam \in Captures /\ cam.enabled = TRUE /\ ~cam.frozen
  <2>1. Install(NewCapture).frozen = NewCapture.frozen
    BY CaptureStarts DEF Install, Captures
  <2> QED
    BY <1>1, <2>1, CaptureStarts
<1>7. s \in Decisions /\ s.up = TRUE
  <2>1. Virtual(surface) \in BOOLEAN
    BY <1>1, SurfaceFacts
  <2> QED
    BY <2>1 DEF Init, Decisions
<1>8. ui \in Uis /\ ui.rendering = FALSE /\ pass \in Passes
      /\ pass.resolve = FALSE /\ pass.final = FALSE /\ pass.late = FALSE
  BY <1>1 DEF NewUi, Uis, NewPass, Passes
<1>9. Typed
  BY <1>1, <1>2, <1>4, <1>5, <1>6, <1>7, <1>8, RouteAssumption
  DEF Typed, Phases
<1>10. Staged
  <2>1. phase = "begun" /\ ~cam.frozen /\ cam.enabled = TRUE /\ s.up = TRUE
        /\ pass.resolve = FALSE /\ pass.final = FALSE /\ pass.late = FALSE
    BY <1>1, <1>6, <1>7, <1>8
  <2> QED
    BY <1>1, <2>1 DEF Staged
<1>11. Announced
  BY <1>1 DEF Announced
<1>12. SizedOf(surface, dr, engine, phase)
  BY <1>1, <1>2, <1>5 DEF SizedOf
<1>13. Kept
  BY <1>1, <1>5, <1>8 DEF Kept, NothingShown
<1> QED
  BY <1>9, <1>10, <1>11, <1>12, <1>13 DEF RouteInv

\* What an action that is not about it leaves alone.
LEMMA ResolutionStep == ASSUME RouteInv, GameResolution PROVE RouteInv'
<1> DEFINE r == UpdateResolution(dr, engine, surface, s, cam)
<1>1. /\ phase = "begun" /\ phase' = "scaled"
      /\ dr' = r.dr /\ engine' = r.engine
      /\ surface' = surface /\ cam' = cam /\ s' = s /\ ui' = ui
      /\ pass' = pass /\ frame' = frame /\ raster' = raster /\ told' = told
      /\ drawn' = drawn /\ shown' = shown
  BY DEF GameResolution
<1>2. Typed /\ Staged /\ SizedOf(surface, dr, engine, phase) /\ Kept
  BY DEF RouteInv
<1>3. /\ r.dr \in Resolutions /\ SameUi(dr, r.dr) /\ r.dr.owner = dr.owner
      /\ r.engine \in Engines
      /\ r.engine.viewport = WorldViewport(surface, engine.viewport)
  BY <1>2, UpdateResolutionLemma DEF Typed
<1> HIDE DEF r
<1>4. told = {} /\ raster = Unrastered /\ ~pass.resolve
  BY <1>1, <1>2 DEF Staged
<1>5. Typed'
  BY <1>1, <1>2, <1>3 DEF Typed, Phases
<1>6. Staged'
  BY <1>1, <1>2, <1>4 DEF Staged
<1>7. Announced'
  BY <1>1, <1>4 DEF Announced
<1>8. SizedOf(surface, dr, engine, phase)'
  <2>1. surface \in Surfaces
    BY <1>2 DEF Typed
  <2>2. /\ surface # "complete" => r.engine.viewport = "output"
        /\ surface = "complete" => r.engine.viewport = "render"
    BY <1>2, <1>3 DEF SizedOf, WorldViewport
  <2>3. dr'.ui = dr.ui
    BY <1>1, <1>3 DEF SameUi
  <2>4. Virtual(surface) => ~dr.ui
    BY <1>1, <1>2 DEF SizedOf
  <2>5. Virtual("complete") /\ Virtual("sub_rect")
    BY SurfaceFacts
  <2> QED
    BY <1>1, <2>2, <2>3, <2>4, <2>5 DEF SizedOf
<1>9. Kept'
  BY <1>1, <1>2, <1>3 DEF Kept, SameUi
<1> QED
  BY <1>5, <1>6, <1>7, <1>8, <1>9 DEF RouteInv

LEMMA JitterStep == ASSUME RouteInv, GameJitter_ PROVE RouteInv'
<1> DEFINE r == UpdateJitter(dr, engine, surface, s, cam, frame)
<1>1. /\ phase = "scaled" /\ phase' = "world"
      /\ dr' = r.dr /\ engine' = r.engine
      /\ surface' = surface /\ cam' = cam /\ s' = s /\ ui' = ui
      /\ pass' = pass /\ frame' = frame /\ raster' = raster /\ told' = told
      /\ drawn' = drawn /\ shown' = shown
  BY DEF GameJitter_
<1>2. Typed /\ Staged /\ SizedOf(surface, dr, engine, phase) /\ Kept
  BY DEF RouteInv
<1>3. /\ r.dr \in Resolutions /\ SameUi(dr, r.dr) /\ Probing(r.dr.owner)
      /\ r.engine \in Engines
      /\ r.engine.viewport = WorldViewport(surface, engine.viewport)
  <2>1. frame \in Nat
    BY <1>2, RouteAssumption DEF Typed
  <2> QED
    BY <1>2, <2>1, UpdateJitterLemma DEF Typed
<1> HIDE DEF r
<1>4. told = {} /\ raster = Unrastered /\ ~pass.resolve
  BY <1>1, <1>2 DEF Staged
<1>5. Typed'
  BY <1>1, <1>2, <1>3 DEF Typed, Phases
<1>6. Staged'
  BY <1>1, <1>2, <1>4 DEF Staged
<1>7. Announced'
  BY <1>1, <1>4 DEF Announced
<1>8. SizedOf(surface, dr, engine, phase)'
  <2>1. surface \in Surfaces
    BY <1>2 DEF Typed
  <2>2. /\ surface # "complete" => r.engine.viewport = "output"
        /\ surface = "complete" => r.engine.viewport = "render"
    BY <1>2, <1>3 DEF SizedOf, WorldViewport
  <2>3. dr'.ui = dr.ui
    BY <1>1, <1>3 DEF SameUi
  <2>4. Virtual(surface) => ~dr.ui
    BY <1>1, <1>2 DEF SizedOf
  <2>5. Virtual("complete") /\ Virtual("sub_rect")
    BY SurfaceFacts
  <2> QED
    BY <1>1, <2>2, <2>3, <2>4, <2>5 DEF SizedOf
<1>9. Kept'
  BY <1>1, <1>2, <1>3 DEF Kept, SameUi
<1> QED
  BY <1>5, <1>6, <1>7, <1>8, <1>9 DEF RouteInv

LEMMA WorldStep ==
    ASSUME RouteInv, NEW history \in WorldHistories, WorldCamera(history)
    PROVE  RouteInv'
<1> DEFINE j == FoldedJitter(dr, engine)
           m == [perspective |-> TRUE, jitter |-> j, located |-> TRUE,
                 history |-> history]
<1>1. /\ phase = "world" /\ cam' = WriteCamera(cam, m) /\ raster' = j
      /\ surface' = surface /\ dr' = dr /\ engine' = engine /\ s' = s
      /\ ui' = ui /\ pass' = pass /\ frame' = frame /\ phase' = phase
      /\ told' = told /\ drawn' = drawn /\ shown' = shown
  BY DEF WorldCamera
<1>2. Typed /\ Staged /\ SizedOf(surface, dr, engine, phase) /\ Kept
  BY DEF RouteInv
<1>3. j \in Jitters
  BY <1>2, FoldedLemma DEF Typed
<1> HIDE DEF j
<1>4. /\ m \in Cameras /\ m.perspective = TRUE /\ m.jitter = j
      /\ m.located = TRUE
  BY <1>3, RouteAssumption DEF Cameras
<1> HIDE DEF m
<1>5. told = {} /\ (~pass.late => ~cam.frozen) /\ cam.enabled /\ ~pass.resolve
  BY <1>1, <1>2 DEF Staged
<1>6. /\ cam' \in Captures /\ cam'.enabled = cam.enabled
      /\ cam'.frozen = cam.frozen /\ ~cam'.fresh
      /\ ~pass.late => cam'.frame = m
  BY <1>1, <1>2, <1>4, <1>5, WriteLemma DEF Typed
<1>7. Typed'
  BY <1>1, <1>2, <1>3, <1>6 DEF Typed
<1>8. Staged'
  BY <1>1, <1>2, <1>5, <1>6 DEF Staged
<1>9. Announced'
  <2>1. ~pass.late => Carried'
    BY <1>1, <1>4, <1>6 DEF Carried, Stands
  <2> QED
    BY <1>1, <1>5, <2>1 DEF Announced
<1>10. SizedOf(surface, dr, engine, phase)'
  BY <1>1, <1>2
<1>11. Kept'
  BY <1>1, <1>2 DEF Kept
<1> QED
  BY <1>7, <1>8, <1>9, <1>10, <1>11 DEF RouteInv

LEMMA OtherStep ==
    ASSUME RouteInv, NEW perspective \in BOOLEAN, OtherCamera(perspective)
    PROVE  RouteInv'
<1> DEFINE m == [perspective |-> perspective, jitter |-> NoJitter,
                 located |-> TRUE, history |-> "usable"]
<1>1. /\ phase # "presented" /\ (perspective => phase = "final")
      /\ cam' = WriteCamera(cam, m) /\ raster' = raster
      /\ surface' = surface /\ dr' = dr /\ engine' = engine /\ s' = s
      /\ ui' = ui /\ pass' = pass /\ frame' = frame /\ phase' = phase
      /\ told' = told /\ drawn' = drawn /\ shown' = shown
  BY DEF OtherCamera
<1>2. Typed /\ Staged /\ SizedOf(surface, dr, engine, phase) /\ Kept
      /\ Announced
  BY DEF RouteInv
<1>4. m \in Cameras /\ m.perspective = perspective
  BY JitterFacts DEF Cameras, Histories
<1> HIDE DEF m
<1>5. cam.enabled
  BY <1>1, <1>2 DEF Staged
<1>6. /\ cam' \in Captures /\ cam'.enabled = cam.enabled
      /\ cam'.frozen = cam.frozen /\ ~cam'.fresh
      /\ cam.frozen \/ ~perspective => cam'.frame = cam.frame
  BY <1>1, <1>2, <1>4, <1>5, WriteLemma DEF Typed
<1>7. Typed'
  BY <1>1, <1>2, <1>6 DEF Typed
<1>8. Staged'
  BY <1>1, <1>2, <1>6 DEF Staged
<1>9. Announced'
  <2>1. Virtual(surface) /\ phase \in {"world", "final"} => cam'.frame = cam.frame
    BY <1>1, <1>2, <1>6 DEF Staged
  <2>2. Stands(cam, s.source, Offset)'
    BY <1>6 DEF Stands
  <2>3. Offset' = Offset
    BY <1>1 DEF Offset
  <2>4. Virtual(surface) /\ phase \in {"world", "final"} /\ raster # Unrastered
           /\ ~pass.late => Carried'
    BY <1>1, <1>2, <2>1, <2>2 DEF Announced, Carried
  <2> QED
    BY <1>1, <1>2, <2>3, <2>4 DEF Announced
<1>10. SizedOf(surface, dr, engine, phase)'
  BY <1>1, <1>2
<1>11. Kept'
  BY <1>1, <1>2 DEF Kept
<1> QED
  BY <1>7, <1>8, <1>9, <1>10, <1>11 DEF RouteInv

LEMMA FinalStep == ASSUME RouteInv, SceneFinal PROVE RouteInv'
<1> DEFINE e1 == SuppressTaaResolve(engine, s.upscaler)
           e2 == EnableTaaForWorld(dr, e1, s.upscaler)
           p == [pass EXCEPT !.final = TRUE, !.resolve = TRUE]
<1>1. /\ phase = "world" /\ raster # Unrastered /\ phase' = "final"
      /\ engine' = e2
      /\ pass' = IF MakesFinal THEN p ELSE pass
      /\ cam' = IF MakesFinal THEN Freeze(cam, TRUE) ELSE cam
      /\ surface' = surface /\ dr' = dr /\ s' = s /\ ui' = ui
      /\ frame' = frame /\ raster' = raster /\ told' = told
      /\ drawn' = drawn /\ shown' = shown
  BY DEF SceneFinal
<1>2. /\ Typed /\ Staged /\ SizedOf(surface, dr, engine, phase) /\ Kept
      /\ Announced
  BY DEF RouteInv
<1>3. /\ dr \in Resolutions /\ engine \in Engines /\ s.upscaler \in BOOLEAN
      /\ cam \in Captures /\ pass \in Passes /\ Virtual(surface) \in BOOLEAN
  BY <1>2, SurfaceFacts DEF Typed, Decisions
<1>4. /\ e1 \in Engines /\ e1.viewport = engine.viewport
      /\ e1.scale = engine.scale /\ e1.lock = engine.lock
  BY <1>3, FlagLemma
<1> HIDE DEF e1
<1>5. /\ e2 \in Engines /\ e2.viewport = engine.viewport
      /\ e2.scale = engine.scale /\ e2.lock = engine.lock
  BY <1>3, <1>4, FlagLemma
<1> HIDE DEF e2
<1>6. p \in Passes /\ p.final /\ p.resolve /\ p.late = pass.late
  BY <1>3 DEF Passes
<1> HIDE DEF p
<1>7. /\ cam' \in Captures /\ cam'.enabled = cam.enabled
      /\ cam'.frame = cam.frame /\ cam'.fresh = cam.fresh
      /\ cam'.source = cam.source /\ cam'.snapshot = cam.snapshot
      /\ MakesFinal => cam'.frozen
      /\ ~MakesFinal => cam'.frozen = cam.frozen
  BY <1>1, <1>3, FreezeLemma
<1>8. /\ told = {} /\ ~pass.resolve
      /\ pass.late <=> pass.final
      /\ pass.final <=> cam.frozen
      /\ MakesFinal <=> Virtual(surface) /\ ~pass.final
  BY <1>1, <1>2 DEF Staged, MakesFinal
<1>9. Typed'
  BY <1>1, <1>2, <1>3, <1>5, <1>6, <1>7 DEF Typed, Phases
<1>10. Staged'
  BY <1>1, <1>2, <1>6, <1>7, <1>8 DEF Staged
<1>11. Announced'
  <2>1. Carried => Carried'
    BY <1>1, <1>7 DEF Carried, Stands, Offset
  <2>2. pass'.late = pass.late
    BY <1>1, <1>6
  <2> QED
    BY <1>1, <1>2, <1>8, <2>1, <2>2 DEF Announced
<1>12. SizedOf(surface, dr, engine, phase)'
  BY <1>1, <1>2, <1>5 DEF SizedOf
<1>13. Kept'
  BY <1>1, <1>2 DEF Kept
<1> QED
  BY <1>9, <1>10, <1>11, <1>12, <1>13 DEF RouteInv

-----------------------------------------------------------------------------
(***************************************************************************)
(* The resolve and the UI.                                                 *)
(***************************************************************************)
\* What touches neither the camera nor the scene leaves the story of the jitter
\* as it is.
LEMMA UiOnly ==
    ASSUME Staged, Announced,
           UNCHANGED <<surface, cam, pass, phase, raster, told>>,
           dr'.jitter = dr.jitter, s'.source = s.source, s'.up = s.up
    PROVE  Staged' /\ Announced'
<1>1. Staged'
  BY DEF Staged
<1>2. Offset' = Offset
  BY DEF Offset
<1>3. Carried => Carried'
  BY <1>2 DEF Carried
<1>4. Announced'
  BY <1>2, <1>3 DEF Announced
<1> QED
  BY <1>1, <1>4

\* The layer opens, or the UI stays as the caller has left it.
LEMMA OpenLayerLemma ==
    ASSUME NEW u \in Uis, NEW d \in Resolutions, NEW e \in Engines,
           surface \in Surfaces, SizedOf(surface, d, e, phase),
           OpenLayer(u, d, e)
    PROVE  /\ ui' \in Uis /\ (ui'.opened \/ ui' = u)
           /\ dr' \in Resolutions /\ dr'.owner = d.owner
           /\ dr'.jitter = d.jitter
           /\ engine' \in Engines /\ SizedOf(surface, dr', engine', phase)
<1> DEFINE n == EndFullUi(d, e, surface)
           o == [u EXCEPT !.rendering = TRUE, !.opened = TRUE,
                          !.pending = TRUE]
<1>1. ClosedUi(d, e, surface, n)
  BY EndFullLemma
<1>2. \/ ui' = o /\ dr' = d /\ engine' = e
      \/ ui' = u /\ dr' = n.dr /\ engine' = n.engine
  BY DEF OpenLayer
<1>3. o \in Uis /\ o.opened
  BY DEF Uis
<1> HIDE DEF n, o
<1>4. SizedOf(surface, n.dr, n.engine, phase)
  BY <1>1, EndSized
<1> QED
  BY <1>1, <1>2, <1>3, <1>4 DEF ClosedUi

LEMMA OpenUiLemma ==
    ASSUME ui \in Uis
    PROVE  /\ OpenUi \in Uis /\ OpenUi.pending = ui.pending
           /\ OpenUi.opened = ui.opened /\ OpenUi.rendering = ui.rendering
BY DEF OpenUi, Uis

LEMMA EnterStep ==
    ASSUME RouteInv, BeginDisplay, EnterDisplay
    PROVE  RouteInv'
<1>1. /\ ui' = OpenUi /\ dr' = dr /\ engine' = engine /\ cam' = cam
      /\ pass' = pass /\ told' = told /\ drawn' = drawn
      /\ surface' = surface /\ s' = s /\ frame' = frame /\ phase' = phase
      /\ raster' = raster /\ shown' = shown
  BY DEF BeginDisplay, EnterDisplay
<1>2. /\ Typed /\ Staged /\ Announced /\ Kept
      /\ SizedOf(surface, dr, engine, phase)
  BY DEF RouteInv
<1>3. /\ OpenUi \in Uis /\ OpenUi.pending = ui.pending
      /\ OpenUi.opened = ui.opened /\ OpenUi.rendering = ui.rendering
  BY <1>2, OpenUiLemma DEF Typed
<1>4. Typed'
  BY <1>1, <1>2, <1>3 DEF Typed
<1>5. Staged' /\ Announced'
  BY <1>1, <1>2, UiOnly
<1>6. SizedOf(surface, dr, engine, phase)'
  BY <1>1, <1>2
<1>7. Kept'
  BY <1>1, <1>2, <1>3 DEF Kept
<1> QED
  BY <1>4, <1>5, <1>6, <1>7 DEF RouteInv

LEMMA ResolveStep ==
    ASSUME RouteInv, BeginDisplay, ResolveAtDisplay
    PROVE  RouteInv'
<1>1. /\ ~Idle /\ Virtual(surface)
      /\ surface' = surface /\ s' = s /\ frame' = frame /\ phase' = phase
      /\ raster' = raster /\ shown' = shown
  BY DEF BeginDisplay, ResolveAtDisplay
<1>2. /\ Typed /\ Staged /\ Announced /\ Kept
      /\ SizedOf(surface, dr, engine, phase)
  BY DEF RouteInv
<1>3. /\ OpenUi \in Uis /\ OpenUi.pending = ui.pending
      /\ OpenUi.opened = ui.opened /\ OpenUi.rendering = ui.rendering
  BY <1>2, OpenUiLemma DEF Typed
<1>4. ~ui.opened /\ pass.resolve
  BY <1>1 DEF Idle
<1>5. phase = "final" /\ raster # Unrastered /\ cam.frozen /\ ~pass.late
      /\ surface \in Surfaces
  BY <1>1, <1>2, <1>4 DEF Staged, Typed
<1>6. Carried /\ told \subseteq {Offset}
  BY <1>1, <1>2, <1>5 DEF Announced
<1>7. PICK r \in ResolveOutcomes(OpenUi) :
         /\ cam' = r.cam /\ told' = r.told /\ pass' = r.pass
         /\ drawn' = r.drawn
         /\ IF r.ok THEN OpenLayer(r.ui, r.dr, r.engine)
                    ELSE ui' = r.ui /\ dr' = r.dr /\ engine' = r.engine
  BY DEF ResolveAtDisplay
<1>8. /\ r.cam \in Captures /\ SameCamera(cam, r.cam)
      /\ Stands(r.cam, s.source, Offset)
      /\ r.told \subseteq Jitters /\ r.told \subseteq {Offset}
      /\ r.pass \in Passes /\ ~r.pass.resolve
      /\ r.pass.final = pass.final /\ r.pass.late = pass.late
      /\ r.dr \in Resolutions /\ r.dr.jitter = dr.jitter
      /\ r.dr.owner = dr.owner
      /\ r.engine \in Engines
      /\ SizedOf(surface, r.dr, r.engine, phase)
      /\ r.ui \in Uis /\ SameFlags(OpenUi, r.ui)
      /\ r.drawn \subseteq Places
      /\ "layer" \in r.drawn => "layer" \in drawn
  BY <1>1, <1>2, <1>3, <1>5, <1>6, ResolveLemma
<1>9. /\ ui' \in Uis /\ (ui'.opened \/ ui' = r.ui)
      /\ dr' \in Resolutions /\ dr'.owner = r.dr.owner
      /\ dr'.jitter = r.dr.jitter
      /\ engine' \in Engines /\ SizedOf(surface, dr', engine', phase)
  <2>1. CASE r.ok
    <3>1. OpenLayer(r.ui, r.dr, r.engine)
      BY <1>7, <2>1
    <3> QED
      BY <1>5, <1>8, <3>1, OpenLayerLemma
  <2>2. CASE ~r.ok
    BY <1>7, <1>8, <2>2
  <2> QED
    BY <2>1, <2>2
<1>10. Typed'
  BY <1>1, <1>2, <1>7, <1>8, <1>9 DEF Typed
<1>11. Staged'
  BY <1>1, <1>2, <1>5, <1>7, <1>8 DEF Staged, SameCamera
<1>12. Offset' = Offset
  BY <1>1, <1>8, <1>9 DEF Offset
<1>13. Carried'
  BY <1>1, <1>6, <1>7, <1>8, <1>12 DEF Carried, SameCamera
<1>14. Announced'
  <2>1. told' \subseteq {Offset'}
    BY <1>7, <1>8, <1>12
  <2>2. s.source # "requested" => Offset = raster
    BY DEF Offset, OffsetOf
  <2> QED
    BY <1>1, <1>12, <1>13, <2>1, <2>2 DEF Announced
<1>15. SizedOf(surface, dr, engine, phase)'
  BY <1>1, <1>9
<1>16. Kept'
  <2>1. "layer" \notin drawn'
    BY <1>2, <1>4, <1>5, <1>7, <1>8 DEF Kept
  <2>2. ui'.rendering => ui'.opened
    BY <1>2, <1>3, <1>8, <1>9 DEF Kept, SameFlags
  <2> QED
    BY <1>1, <1>2, <2>1, <2>2 DEF Kept
<1> QED
  BY <1>10, <1>11, <1>14, <1>15, <1>16 DEF RouteInv

LEMMA CaptureStep ==
    ASSUME RouteInv, BeginDisplay, CaptureAtDisplay
    PROVE  RouteInv'
<1> DEFINE hud == CaptureHudless(OpenUi)
           b == BeginFullUi(dr, engine, surface)
<1>1. /\ ~Idle /\ ~Virtual(surface)
      /\ surface' = surface /\ s' = s /\ frame' = frame /\ phase' = phase
      /\ raster' = raster /\ shown' = shown
      /\ cam' = cam /\ pass' = pass /\ told' = told /\ drawn' = drawn
      /\ \/ OpenLayer(hud, b.dr, b.engine)
         \/ ui' = hud /\ dr' = dr /\ engine' = engine
  BY DEF BeginDisplay, CaptureAtDisplay
<1>2. /\ Typed /\ Staged /\ Announced /\ Kept
      /\ SizedOf(surface, dr, engine, phase)
  BY DEF RouteInv
<1>3. /\ OpenUi \in Uis /\ OpenUi.pending = ui.pending
      /\ OpenUi.opened = ui.opened /\ OpenUi.rendering = ui.rendering
  BY <1>2, OpenUiLemma DEF Typed
<1>4. ~ui.opened /\ s.generation
  BY <1>1 DEF Idle
<1>5. /\ dr \in Resolutions /\ engine \in Engines /\ surface \in Surfaces
      /\ s \in Decisions
  BY <1>2 DEF Typed
<1>6. hud \in Uis /\ SameFlags(OpenUi, hud)
  BY <1>3, <1>5, CaptureUiLemma
<1>7. OpenedUi(dr, surface, b)
  BY <1>5, BeginFullLemma
<1> HIDE DEF hud, b
<1>8. SizedOf(surface, b.dr, b.engine, phase)
  BY <1>1, <1>5, <1>7, BeginSized
<1>9. /\ ui' \in Uis /\ (ui'.opened \/ ui' = hud)
      /\ dr' \in Resolutions /\ dr'.owner = dr.owner
      /\ dr'.jitter = dr.jitter
      /\ engine' \in Engines /\ SizedOf(surface, dr', engine', phase)
  <2>1. CASE OpenLayer(hud, b.dr, b.engine)
    <3>1. /\ b.dr \in Resolutions /\ b.engine \in Engines
          /\ b.dr.owner = dr.owner /\ b.dr.jitter = dr.jitter
      BY <1>7 DEF OpenedUi
    <3> QED
      BY <1>5, <1>6, <1>8, <2>1, <3>1, OpenLayerLemma
  <2>2. CASE ui' = hud /\ dr' = dr /\ engine' = engine
    BY <1>2, <1>5, <1>6, <2>2
  <2> QED
    BY <1>1, <2>1, <2>2
<1>10. Typed'
  BY <1>1, <1>2, <1>9 DEF Typed
<1>11. Staged' /\ Announced'
  BY <1>1, <1>2, <1>9, UiOnly
<1>12. SizedOf(surface, dr, engine, phase)'
  BY <1>1, <1>9
<1>13. Kept'
  <2>1. phase # "presented" => "layer" \notin drawn
    BY <1>2, <1>4 DEF Kept
  <2>2. ui'.rendering => ui'.opened
    BY <1>2, <1>3, <1>6, <1>9 DEF Kept, SameFlags
  <2> QED
    BY <1>1, <1>2, <1>4, <2>1, <2>2 DEF Kept
<1> QED
  BY <1>10, <1>11, <1>12, <1>13 DEF RouteInv

LEMMA BeginStep == ASSUME RouteInv, BeginDisplay PROVE RouteInv'
<1>1. EnterDisplay \/ ResolveAtDisplay \/ CaptureAtDisplay
  BY DEF BeginDisplay
<1> QED
  BY <1>1, EnterStep, ResolveStep, CaptureStep

LEMMA AfterStep == ASSUME RouteInv, AfterDisplay PROVE RouteInv'
<1> DEFINE n == EndFullUi(dr, engine, surface)
           kept == [ui EXCEPT !.pending = FALSE]
           over == [ui EXCEPT !.pending = FALSE, !.opened = FALSE]
<1>1. /\ ui.pending
      /\ surface' = surface /\ cam' = cam /\ s' = s /\ pass' = pass
      /\ frame' = frame /\ phase' = phase /\ raster' = raster
      /\ told' = told /\ drawn' = drawn /\ shown' = shown
      /\ \/ ui' = kept /\ dr' = dr /\ engine' = engine
         \/ ~ui.rendering /\ ui' = over /\ dr' = n.dr /\ engine' = n.engine
  BY DEF AfterDisplay
<1>2. /\ Typed /\ Staged /\ Announced /\ Kept
      /\ SizedOf(surface, dr, engine, phase)
  BY DEF RouteInv
<1>3. /\ dr \in Resolutions /\ engine \in Engines /\ surface \in Surfaces
      /\ ui \in Uis
  BY <1>2 DEF Typed
<1>4. ClosedUi(dr, engine, surface, n)
  BY <1>3, EndFullLemma
<1>5. /\ kept \in Uis /\ kept.rendering = ui.rendering
      /\ kept.opened = ui.opened
      /\ over \in Uis /\ over.rendering = ui.rendering
  BY <1>3 DEF Uis
<1> HIDE DEF n, kept, over
<1>6. SizedOf(surface, n.dr, n.engine, phase)
  BY <1>2, <1>3, <1>4, EndSized
<1>7. /\ ui' \in Uis /\ (ui'.rendering => ui'.opened)
      /\ dr' \in Resolutions /\ dr'.owner = dr.owner
      /\ dr'.jitter = dr.jitter /\ (dr'.ui => dr.ui)
      /\ engine' \in Engines /\ SizedOf(surface, dr', engine', phase)
  <2>1. CASE ui' = kept /\ dr' = dr /\ engine' = engine
    BY <1>2, <1>3, <1>5, <2>1 DEF Kept
  <2>2. CASE ~ui.rendering /\ ui' = over /\ dr' = n.dr /\ engine' = n.engine
    BY <1>4, <1>5, <1>6, <2>2 DEF ClosedUi
  <2> QED
    BY <1>1, <2>1, <2>2
<1>8. Typed'
  BY <1>1, <1>2, <1>7 DEF Typed
<1>9. Staged' /\ Announced'
  BY <1>1, <1>2, <1>7, UiOnly
<1>10. SizedOf(surface, dr, engine, phase)'
  BY <1>1, <1>7
<1>11. Kept'
  BY <1>1, <1>2, <1>7 DEF Kept
<1> QED
  BY <1>8, <1>9, <1>10, <1>11 DEF RouteInv

\* A bind is redirected only while the layer is open.
LEMMA RemapLemma ==
    ASSUME dr \in Resolutions, NEW fits \in BOOLEAN, NEW depth \in BOOLEAN
    PROVE  LET m == Remap(fits, depth)
           IN  /\ m.dr \in Resolutions /\ m.dr.owner = dr.owner
               /\ m.dr.jitter = dr.jitter /\ m.dr.ui = dr.ui
               /\ m.layer => dr.ui /\ ui.rendering
<1> DEFINE m == Remap(fits, depth)
           refused == [dr EXCEPT !.uiDeclined = TRUE]
           failed == [dr EXCEPT !.uiFailed = TRUE]
<1>1. /\ refused \in Resolutions /\ refused.owner = dr.owner
      /\ refused.jitter = dr.jitter /\ refused.ui = dr.ui
      /\ failed \in Resolutions /\ failed.owner = dr.owner
      /\ failed.jitter = dr.jitter /\ failed.ui = dr.ui
  BY DEF Resolutions
<1>2. Redirects \in BOOLEAN /\ (Redirects => dr.ui /\ ui.rendering)
  BY DEF Redirects
<1>3. \/ m = [dr |-> dr, layer |-> FALSE]
      \/ m = [dr |-> refused, layer |-> FALSE]
      \/ m = [dr |-> failed, layer |-> FALSE]
      \/ Redirects /\ m = [dr |-> dr, layer |-> TRUE]
  BY <1>2 DEF Remap
<1> HIDE DEF m, refused, failed
<1>4. \/ m.dr = dr /\ m.layer = FALSE
      \/ m.dr = refused /\ m.layer = FALSE
      \/ m.dr = failed /\ m.layer = FALSE
      \/ Redirects /\ m.dr = dr /\ m.layer = TRUE
  BY <1>3
<1> QED
  BY <1>1, <1>2, <1>4 DEF m

LEMMA DrawStep ==
    ASSUME RouteInv, NEW fits \in BOOLEAN, NEW depth \in BOOLEAN,
           DrawUi(fits, depth)
    PROVE  RouteInv'
<1> DEFINE m == Remap(fits, depth)
<1>1. /\ ~ui.pending
      /\ dr' = m.dr
      /\ drawn' = drawn \cup {IF m.layer THEN "layer" ELSE BackBuffer}
      /\ surface' = surface /\ cam' = cam /\ s' = s /\ pass' = pass
      /\ frame' = frame /\ phase' = phase /\ raster' = raster
      /\ told' = told /\ shown' = shown /\ engine' = engine /\ ui' = ui
  BY DEF DrawUi
<1>2. /\ Typed /\ Staged /\ Announced /\ Kept
      /\ SizedOf(surface, dr, engine, phase)
  BY DEF RouteInv
<1>3. /\ m.dr \in Resolutions /\ m.dr.owner = dr.owner
      /\ m.dr.jitter = dr.jitter /\ m.dr.ui = dr.ui
      /\ m.layer => dr.ui /\ ui.rendering
  BY <1>2, RemapLemma DEF Typed
<1> HIDE DEF m
<1>4. /\ drawn' \subseteq Places
      /\ "layer" \in drawn' => "layer" \in drawn \/ m.layer
  BY <1>1, <1>2 DEF Typed, Places, BackBuffer
<1>5. Typed'
  BY <1>1, <1>2, <1>3, <1>4 DEF Typed
<1>6. Staged' /\ Announced'
  BY <1>1, <1>2, <1>3, UiOnly
<1>7. SizedOf(surface, dr, engine, phase)'
  BY <1>1, <1>2, <1>3 DEF SizedOf
<1>8. Kept'
  BY <1>1, <1>2, <1>3, <1>4 DEF Kept
<1> QED
  BY <1>5, <1>6, <1>7, <1>8 DEF RouteInv

LEMMA EndStep == ASSUME RouteInv, EndDisplay PROVE RouteInv'
<1> DEFINE o == [ui EXCEPT !.inside = FALSE]
<1>1. /\ ui' = o
      /\ surface' = surface /\ cam' = cam /\ s' = s /\ pass' = pass
      /\ frame' = frame /\ phase' = phase /\ raster' = raster
      /\ told' = told /\ shown' = shown /\ engine' = engine /\ dr' = dr
      /\ drawn' = drawn
  BY DEF EndDisplay
<1>2. /\ Typed /\ Staged /\ Announced /\ Kept
      /\ SizedOf(surface, dr, engine, phase)
  BY DEF RouteInv
<1>3. /\ o \in Uis /\ o.pending = ui.pending /\ o.opened = ui.opened
      /\ o.rendering = ui.rendering
  BY <1>2 DEF Typed, Uis
<1> HIDE DEF o
<1>4. Typed'
  BY <1>1, <1>2, <1>3 DEF Typed
<1>5. Staged' /\ Announced'
  BY <1>1, <1>2, UiOnly
<1>6. SizedOf(surface, dr, engine, phase)'
  BY <1>1, <1>2
<1>7. Kept'
  BY <1>1, <1>2, <1>3 DEF Kept
<1> QED
  BY <1>4, <1>5, <1>6, <1>7 DEF RouteInv

-----------------------------------------------------------------------------
(***************************************************************************)
(* Present.                                                                *)
(***************************************************************************)
\* What Present starts from, whether or not it had to resolve first.
LEMMA FloorLemma ==
    ASSUME RouteInv, phase # "presented", NEW f \in AtFloor
    PROVE  /\ f.cam \in Captures /\ SameCamera(cam, f.cam)
           /\ f.told \subseteq Jitters
           /\ f.pass \in Passes /\ ~f.pass.resolve
           /\ f.pass.final = pass.final /\ f.pass.late = pass.late
           /\ f.dr \in Resolutions /\ f.dr.jitter = dr.jitter
           /\ f.dr.owner = dr.owner /\ (f.dr.ui \/ f.dr = dr)
           /\ ~Virtual(surface) => f.dr = dr
           /\ f.engine \in Engines
           /\ SizedOf(surface, f.dr, f.engine, phase)
           /\ f.ui \in Uis /\ SameFlags(ui, f.ui)
           /\ f.drawn \subseteq Places
           /\ "layer" \in f.drawn => "layer" \in drawn
           /\ Virtual(surface) /\ (raster = Unrastered \/ pass.late) =>
                f.told = {}
           /\ Virtual(surface) /\ raster # Unrastered /\ ~pass.late =>
                f.told \subseteq {Offset} /\ Stands(f.cam, s.source, Offset)
<1>1. /\ Typed /\ Staged /\ Announced
      /\ SizedOf(surface, dr, engine, phase)
  BY DEF RouteInv
<1>2. /\ raster = Unrastered => phase # "final" /\ told = {}
      /\ phase # "final" \/ pass.late => told = {}
      /\ raster # Unrastered => phase \in {"world", "final"}
  BY <1>1 DEF Staged, Typed, Phases
<1>3. Virtual(surface) /\ raster # Unrastered /\ ~pass.late =>
         Carried /\ told \subseteq {Offset}
  BY <1>1, <1>2 DEF Announced
<1>4. CASE Virtual(surface) /\ pass.resolve
  <2>1. f \in ResolveOutcomes(ui)
    BY <1>4 DEF AtFloor
  <2>2. phase = "final" /\ raster # Unrastered /\ ~pass.late /\ ui \in Uis
    BY <1>1, <1>4 DEF Staged, Typed
  <2>3. /\ f.cam \in Captures /\ SameCamera(cam, f.cam)
        /\ Stands(f.cam, s.source, Offset)
        /\ f.told \subseteq Jitters /\ f.told \subseteq {Offset}
        /\ f.pass \in Passes /\ ~f.pass.resolve
        /\ f.pass.final = pass.final /\ f.pass.late = pass.late
        /\ f.dr \in Resolutions /\ f.dr.jitter = dr.jitter
        /\ f.dr.owner = dr.owner /\ (f.dr.ui \/ f.dr = dr)
        /\ f.engine \in Engines
        /\ SizedOf(surface, f.dr, f.engine, phase)
        /\ f.ui \in Uis /\ SameFlags(ui, f.ui)
        /\ f.drawn \subseteq Places
        /\ "layer" \in f.drawn => "layer" \in drawn
    BY <1>1, <1>3, <1>4, <2>1, <2>2, ResolveLemma
  <2> QED
    BY <1>4, <2>2, <2>3
<1>5. CASE ~(Virtual(surface) /\ pass.resolve)
  <2>1. f = [ok |-> TRUE, cam |-> cam, told |-> told, pass |-> pass, dr |-> dr,
             engine |-> engine, ui |-> ui, drawn |-> drawn]
    BY <1>5 DEF AtFloor
  <2>2. /\ f.cam = cam /\ f.told = told /\ f.pass = pass /\ f.dr = dr
        /\ f.engine = engine /\ f.ui = ui /\ f.drawn = drawn
    BY <2>1
  <2>3. ~pass.resolve
    BY <1>1, <1>5 DEF Staged
  <2>4. SameCamera(cam, cam) /\ SameFlags(ui, ui)
    BY DEF SameCamera, SameFlags
  <2>5. Virtual(surface) /\ raster # Unrastered /\ ~pass.late =>
           Stands(cam, s.source, Offset)
    BY <1>3 DEF Carried
  <2> QED
    BY <1>1, <1>2, <1>3, <2>2, <2>3, <2>4, <2>5 DEF Typed
<1> QED
  BY <1>4, <1>5

\* The generator is told no other offset than the upscaler was.
LEMMA SubmittedLemma ==
    ASSUME s \in Decisions, NEW f, f.cam \in Captures, f.dr.jitter \in Jitters,
           f.told \subseteq Jitters, NEW healthy
    PROVE  LET t == Submitted(f, healthy)
               off == OffsetOf(s.source, f.dr.jitter, f.cam.frame.jitter)
           IN  /\ t.cam \in Captures /\ SameCamera(f.cam, t.cam)
               /\ t.told \subseteq Jitters
               /\ f.told = {} => \A a, b \in t.told : a = b
               /\ f.cam.frame.located /\ Stands(f.cam, s.source, off)
                    /\ f.told \subseteq {off} => t.told \subseteq {off}
<1> DEFINE t == Submitted(f, healthy)
           off == OffsetOf(s.source, f.dr.jitter, f.cam.frame.jitter)
           c == BuildConstants(f.cam, s.planes, FALSE, s.source, f.dr.jitter)
           heard == {c.report.jitter}
<1>1. s.planes \in BOOLEAN /\ s.source \in Sources
  BY DEF Decisions
<1>2. /\ c.capture \in Captures /\ SameCamera(f.cam, c.capture)
      /\ c.report \in Reports
      /\ f.cam.frame.located /\ Stands(f.cam, s.source, off) =>
           (c.ok => c.report.jitter = off)
  BY <1>1, ConstantsLemma
<1>3. \/ c.ok /\ t = [cam |-> c.capture, told |-> f.told \cup heard]
      \/ t = [cam |-> f.cam, told |-> f.told]
  BY DEF Submitted
<1> HIDE DEF t, off, c
<1>4. /\ heard \subseteq Jitters /\ \A a, b \in heard : a = b
      /\ f.cam.frame.located /\ Stands(f.cam, s.source, off) /\ c.ok =>
           heard \subseteq {off}
  BY <1>2 DEF Reports
<1> HIDE DEF heard
<1>5. \/ c.ok /\ t.cam = c.capture /\ t.told = f.told \cup heard
      \/ t.cam = f.cam /\ t.told = f.told
  BY <1>3
<1>6. SameCamera(f.cam, f.cam)
  BY DEF SameCamera
<1> QED
  BY <1>2, <1>4, <1>5, <1>6 DEF t, off

LEMMA PresentStep == ASSUME RouteInv, Present PROVE RouteInv'
<1>1. /\ phase # "presented" /\ phase' = "presented"
      /\ surface' = surface /\ s' = s /\ frame' = frame /\ raster' = raster
  BY DEF Present
<1>2. PICK f \in AtFloor, gpu, safe, nvidia \in BOOLEAN :
         LET ready == Serviced(f) /\ LayerReady(f, gpu)
             healthy == ~(Serviced(f) /\ Unhealthy(f, ready, safe, nvidia))
             closed == IF Serviced(f) THEN EndFullUi(f.dr, f.engine, surface)
                       ELSE [dr |-> f.dr, engine |-> f.engine]
             sent == Submitted(f, healthy)
         IN  /\ ~f.ui.rendering => safe
             /\ dr' = closed.dr /\ engine' = closed.engine
             /\ cam' = sent.cam /\ told' = sent.told
             /\ pass' = f.pass
             /\ ui' = [f.ui EXCEPT !.rendering = FALSE,
                                   !.captured = ready /\ safe]
             /\ drawn' = {}
             /\ shown' = [lost |-> f.drawn \ Visible(f, ready),
                          healthy |-> healthy]
  BY DEF Present
<1> DEFINE ready == Serviced(f) /\ LayerReady(f, gpu)
           healthy == ~(Serviced(f) /\ Unhealthy(f, ready, safe, nvidia))
           n == EndFullUi(f.dr, f.engine, surface)
           t == Submitted(f, healthy)
           caught == ready /\ safe
           u == [f.ui EXCEPT !.rendering = FALSE, !.captured = caught]
           off == OffsetOf(s.source, f.dr.jitter, f.cam.frame.jitter)
<1>3. /\ Typed /\ Staged /\ Announced /\ Kept
      /\ SizedOf(surface, dr, engine, phase)
  BY DEF RouteInv
<1>4. /\ surface \in Surfaces /\ s \in Decisions /\ frame \in 0 .. MaxFrames
      /\ Probing(dr.owner) /\ raster \in Jitters \cup {Unrastered}
  BY <1>3 DEF Typed
<1>5. /\ f.cam \in Captures /\ SameCamera(cam, f.cam)
      /\ f.told \subseteq Jitters
      /\ f.pass \in Passes /\ ~f.pass.resolve
      /\ f.pass.final = pass.final /\ f.pass.late = pass.late
      /\ f.dr \in Resolutions /\ f.dr.jitter = dr.jitter
      /\ f.dr.owner = dr.owner /\ (f.dr.ui \/ f.dr = dr)
      /\ ~Virtual(surface) => f.dr = dr
      /\ f.engine \in Engines
      /\ SizedOf(surface, f.dr, f.engine, phase)
      /\ f.ui \in Uis /\ SameFlags(ui, f.ui)
      /\ "layer" \in f.drawn => "layer" \in drawn
      /\ Virtual(surface) /\ (raster = Unrastered \/ pass.late) =>
           f.told = {}
      /\ Virtual(surface) /\ raster # Unrastered /\ ~pass.late =>
           f.told \subseteq {Offset} /\ Stands(f.cam, s.source, Offset)
  BY <1>1, FloorLemma
<1>6. f.dr.jitter \in Jitters
  BY <1>5 DEF Resolutions
<1>7. /\ t.cam \in Captures /\ SameCamera(f.cam, t.cam)
      /\ t.told \subseteq Jitters
      /\ f.told = {} => \A a, b \in t.told : a = b
      /\ f.cam.frame.located /\ Stands(f.cam, s.source, off)
           /\ f.told \subseteq {off} => t.told \subseteq {off}
  BY <1>4, <1>5, <1>6, SubmittedLemma
<1>8. ClosedUi(f.dr, f.engine, surface, n)
  BY <1>4, <1>5, EndFullLemma
<1>9. /\ cam' = t.cam /\ told' = t.told /\ pass' = f.pass /\ ui' = u
      /\ drawn' = {}
      /\ \/ Serviced(f) /\ dr' = n.dr /\ engine' = n.engine
         \/ ~Serviced(f) /\ dr' = f.dr /\ engine' = f.engine
  BY <1>2
<1>10. /\ shown'.lost = f.drawn \ Visible(f, ready)
       /\ shown'.healthy = healthy
  BY <1>2
<1>11. u \in Uis /\ u.rendering = FALSE
  <2>1. caught \in BOOLEAN
    BY DEF Serviced, LayerReady
  <2> HIDE DEF caught
  <2> QED
    BY <1>5, <2>1 DEF Uis
<1>12. "layer" \in shown'.lost => ~shown'.healthy
  <2>1. ASSUME "layer" \in f.drawn \ Visible(f, ready)
        PROVE  Serviced(f) /\ f.dr.ui
    <3>1. dr.ui
      BY <1>1, <1>3, <1>5, <2>1 DEF Kept
    <3>2. f.dr.ui
      BY <1>5, <3>1
    <3>3. ~Virtual(surface) => s.generation
      BY <1>3, <3>1 DEF Kept
    <3> QED
      BY <3>2, <3>3 DEF Serviced
  <2>2. ASSUME "layer" \in f.drawn \ Visible(f, ready)
        PROVE  SpatialFallback(f) \/ ~ready
    BY <2>2 DEF Visible
  <2>3. ASSUME "layer" \in f.drawn \ Visible(f, ready) PROVE ~healthy
    BY <2>1, <2>2, <2>3 DEF Unhealthy
  <2> HIDE DEF ready, healthy
  <2> QED
    BY <1>10, <2>3
<1> HIDE DEF ready, healthy, n, t, u
<1>13. /\ dr' \in Resolutions /\ dr'.owner = dr.owner
       /\ dr'.jitter = dr.jitter /\ engine' \in Engines
       /\ SizedOf(surface, dr', engine', "presented")
       /\ ~Virtual(surface) /\ dr'.ui => s.generation
  <2>1. SizedOf(surface, n.dr, n.engine, phase)
    BY <1>4, <1>5, <1>8, EndSized
  <2>2. CASE Serviced(f) /\ dr' = n.dr /\ engine' = n.engine
    <3>1. /\ n.dr.ui = FALSE
          /\ n.dr \in Resolutions /\ n.dr.owner = f.dr.owner
          /\ n.dr.jitter = f.dr.jitter /\ n.engine \in Engines
      BY <1>8 DEF ClosedUi
    <3>2. SizedOf(surface, n.dr, n.engine, "presented")
      BY <2>1, <3>1 DEF SizedOf
    <3> QED
      BY <1>5, <2>2, <3>1, <3>2
  <2>3. CASE ~Serviced(f) /\ dr' = f.dr /\ engine' = f.engine
    <3>1. ~Virtual(surface)
      BY <2>3 DEF Serviced
    <3>2. SizedOf(surface, f.dr, f.engine, "presented")
      BY <1>4, <1>5, <3>1, SurfaceFacts DEF SizedOf
    <3> QED
      BY <1>3, <1>5, <2>3, <3>1, <3>2 DEF Kept
  <2> QED
    BY <1>9, <2>2, <2>3
<1>14. Typed'
  <2>1. "presented" \in Phases
    BY DEF Phases
  <2> QED
    BY <1>1, <1>4, <1>5, <1>7, <1>9, <1>11, <1>13, <2>1 DEF Typed
<1>15. Staged'
  <2>1. cam'.enabled = cam.enabled /\ cam'.frozen = cam.frozen
    BY <1>5, <1>7, <1>9 DEF SameCamera
  <2> QED
    BY <1>1, <1>3, <1>5, <1>9, <2>1 DEF Staged
<1>16. Announced'
  <2>1. CASE ~Virtual(surface)
    BY <1>1, <2>1 DEF Announced
  <2>2. CASE Virtual(surface) /\ (raster = Unrastered \/ pass.late)
    BY <1>1, <1>5, <1>7, <1>9, <2>2 DEF Announced
  <2>3. CASE Virtual(surface) /\ raster # Unrastered /\ ~pass.late
    <3>1. phase \in {"world", "final"}
      BY <1>1, <1>3, <2>3 DEF Staged, Typed, Phases
    <3>2. Carried
      BY <1>3, <2>3, <3>1 DEF Announced
    <3>3. f.cam.frame.located /\ off = Offset
      BY <1>5, <3>2 DEF Carried, SameCamera, Offset
    <3>4. told' \subseteq {Offset}
      BY <1>5, <1>7, <1>9, <2>3, <3>3
    <3>5. s.source # "requested" => Offset = raster
      BY DEF Offset, OffsetOf
    <3> QED
      BY <1>1, <3>4, <3>5 DEF Announced
  <2> QED
    BY <2>1, <2>2, <2>3
<1>17. SizedOf(surface, dr, engine, phase)'
  BY <1>1, <1>13
<1>18. Kept'
  BY <1>1, <1>9, <1>11, <1>12, <1>13 DEF Kept
<1> QED
  BY <1>14, <1>15, <1>16, <1>17, <1>18 DEF RouteInv

-----------------------------------------------------------------------------
(***************************************************************************)
(* The next frame, and what happens at any time.                           *)
(***************************************************************************)
LEMMA FrameStep == ASSUME RouteInv, BeginFrame PROVE RouteInv'
<1> DEFINE c == Freeze(cam, FALSE)
           k == [pass EXCEPT !.late = pass.final]
<1>1. PICK t \in FrameSettings : NextFrame(t)
  BY DEF BeginFrame
<1>2. /\ phase = "presented" /\ s.up /\ frame < MaxFrames
      /\ phase' = "begun" /\ s' = t /\ frame' = frame + 1
      /\ raster' = Unrastered
      /\ told' = {} /\ drawn' = {} /\ shown' = NothingShown
      /\ surface' = surface /\ dr' = dr /\ engine' = engine
  BY <1>1 DEF BeginFrame, NextFrame
<1>3. /\ Typed /\ Staged /\ Announced /\ Kept
      /\ SizedOf(surface, dr, engine, phase)
  BY DEF RouteInv
<1>4. /\ c \in Captures /\ c.frozen = FALSE /\ c.enabled = cam.enabled
  BY <1>3, FreezeLemma DEF Typed
<1>5. /\ t \in Decisions /\ t.generation = s.generation /\ t.up = TRUE
  <2>1. s \in Decisions /\ Virtual(surface) \in BOOLEAN
    BY <1>3, SurfaceFacts DEF Typed
  <2> QED
    BY <2>1 DEF FrameSettings, Decisions
<1>6. /\ NewUi \in Uis /\ NewUi.rendering = FALSE
      /\ NewPass \in Passes /\ NewPass.resolve = FALSE
      /\ NewPass.final = FALSE /\ NewPass.late = FALSE
  BY DEF NewUi, Uis, NewPass, Passes
<1>7. /\ k \in Passes /\ k.resolve = pass.resolve /\ k.final = pass.final
      /\ k.late = pass.final
  BY <1>3 DEF Typed, Passes
<1>8. ~pass.resolve
  BY <1>2, <1>3 DEF Staged
<1>9. /\ \/ cam' = c /\ ui' = NewUi /\ pass' = NewPass
         \/ cam' = cam /\ ui' = ui /\ pass' = k
  BY DEF BeginFrame, OpenFrame, KeepFrame
<1> HIDE DEF c, k
<1>10. /\ cam' \in Captures /\ cam'.enabled = cam.enabled
       /\ ui' \in Uis /\ (ui'.rendering => ui'.opened)
       /\ pass' \in Passes /\ ~pass'.resolve
       /\ pass'.final <=> cam'.frozen
       /\ pass'.late <=> pass'.final
  BY <1>3, <1>4, <1>6, <1>7, <1>8, <1>9 DEF Typed, Staged, Kept
<1>11. Typed'
  <2>1. frame' \in 0 .. MaxFrames
    BY <1>2, <1>3, RouteAssumption DEF Typed
  <2> QED
    BY <1>2, <1>3, <1>5, <1>10, <2>1 DEF Typed, Phases
<1>12. Staged'
  BY <1>2, <1>3, <1>5, <1>10 DEF Staged
<1>13. Announced'
  BY <1>2 DEF Announced
<1>14. SizedOf(surface, dr, engine, phase)'
  BY <1>2, <1>3 DEF SizedOf
<1>15. Kept'
  <2>1. shown'.lost = {}
    BY <1>2 DEF NothingShown
  <2> QED
    BY <1>2, <1>3, <1>5, <1>10, <2>1 DEF Kept
<1> QED
  BY <1>11, <1>12, <1>13, <1>14, <1>15 DEF RouteInv

LEMMA MenuStep ==
    ASSUME RouteInv, NEW menu, NEW opening \in BOOLEAN, Menu(menu, opening)
    PROVE  RouteInv'
<1> DEFINE r == MenuEvent(dr, menu, opening)
<1>1. /\ dr' = r
      /\ surface' = surface /\ cam' = cam /\ s' = s /\ pass' = pass
      /\ frame' = frame /\ phase' = phase /\ raster' = raster
      /\ told' = told /\ shown' = shown /\ engine' = engine /\ ui' = ui
      /\ drawn' = drawn
  BY DEF Menu
<1>2. /\ Typed /\ Staged /\ Announced /\ Kept
      /\ SizedOf(surface, dr, engine, phase)
  BY DEF RouteInv
<1>3. dr \in Resolutions
  BY <1>2 DEF Typed
<1>4. /\ r \in Resolutions /\ r.owner = dr.owner /\ r.jitter = dr.jitter
      /\ r.ui = dr.ui
  <2>1. ASSUME NEW on \in BOOLEAN
        PROVE  LET n == [dr EXCEPT !.menu = on]
               IN  /\ n \in Resolutions /\ n.owner = dr.owner
                   /\ n.jitter = dr.jitter /\ n.ui = dr.ui
    BY <1>3, <2>1 DEF Resolutions
  <2>2. r \in {[dr EXCEPT !.menu = on] : on \in BOOLEAN} \cup {dr}
    BY DEF MenuEvent
  <2> HIDE DEF r
  <2> QED
    BY <1>3, <2>1, <2>2
<1> HIDE DEF r
<1>5. Typed'
  BY <1>1, <1>2, <1>4 DEF Typed
<1>6. Staged' /\ Announced'
  BY <1>1, <1>2, <1>4, UiOnly
<1>7. SizedOf(surface, dr, engine, phase)'
  BY <1>1, <1>2, <1>4 DEF SizedOf
<1>8. Kept'
  BY <1>1, <1>2, <1>4 DEF Kept
<1> QED
  BY <1>5, <1>6, <1>7, <1>8 DEF RouteInv

\* What others decide may change, but not who generates, where the jitter comes
\* from, or whether the plugin runs.
LEMMA DecisionsLemma ==
    ASSUME s \in Decisions, NEW field \in {"planes", "paused", "shared"}
    PROVE  LET t == [s EXCEPT ![field] = ~@]
           IN  /\ t \in Decisions /\ t.source = s.source
               /\ t.generation = s.generation /\ t.up = s.up
<1>1. CASE field = "planes"
  BY <1>1 DEF Decisions
<1>2. CASE field = "paused"
  BY <1>2 DEF Decisions
<1>3. CASE field = "shared"
  BY <1>3 DEF Decisions
<1> QED
  BY <1>1, <1>2, <1>3

LEMMA OthersStep ==
    ASSUME RouteInv, NEW field \in {"planes", "paused"}, World(field)
    PROVE  RouteInv'
<1> DEFINE t == [s EXCEPT ![field] = ~@]
<1>1. /\ s' = t
      /\ surface' = surface /\ cam' = cam /\ dr' = dr /\ pass' = pass
      /\ frame' = frame /\ phase' = phase /\ raster' = raster
      /\ told' = told /\ shown' = shown /\ engine' = engine /\ ui' = ui
      /\ drawn' = drawn
  BY DEF World
<1>2. /\ Typed /\ Staged /\ Announced /\ Kept
      /\ SizedOf(surface, dr, engine, phase)
  BY DEF RouteInv
<1>3. /\ t \in Decisions /\ t.source = s.source
      /\ t.generation = s.generation /\ t.up = s.up
  BY <1>2, DecisionsLemma DEF Typed
<1> HIDE DEF t
<1>4. Typed'
  BY <1>1, <1>2, <1>3 DEF Typed
<1>5. Staged' /\ Announced'
  BY <1>1, <1>2, <1>3, UiOnly
<1>6. SizedOf(surface, dr, engine, phase)'
  BY <1>1, <1>2
<1>7. Kept'
  BY <1>1, <1>2, <1>3 DEF Kept
<1> QED
  BY <1>4, <1>5, <1>6, <1>7 DEF RouteInv

\* The UI without its textures.
LEMMA ReleasedLemma ==
    ASSUME ui \in Uis
    PROVE  LET u == [ui EXCEPT !.rendering = FALSE, !.hudless = FALSE,
                               !.fgHudless = FALSE, !.captured = FALSE]
           IN  /\ u \in Uis /\ u.rendering = FALSE
               /\ u.opened = ui.opened /\ u.pending = ui.pending
BY DEF Uis

LEMMA TexturesStep == ASSUME RouteInv, SharedTextures PROVE RouteInv'
<1> DEFINE t == [s EXCEPT !["shared"] = ~@]
           u == [ui EXCEPT !.rendering = FALSE, !.hudless = FALSE,
                           !.fgHudless = FALSE, !.captured = FALSE]
<1>1. /\ s' = t /\ ui' = u
      /\ surface' = surface /\ cam' = cam /\ dr' = dr /\ pass' = pass
      /\ frame' = frame /\ phase' = phase /\ raster' = raster
      /\ told' = told /\ shown' = shown /\ engine' = engine
      /\ drawn' = drawn
  BY DEF SharedTextures
<1>2. /\ Typed /\ Staged /\ Announced /\ Kept
      /\ SizedOf(surface, dr, engine, phase)
  BY DEF RouteInv
<1>3. /\ t \in Decisions /\ t.source = s.source
      /\ t.generation = s.generation /\ t.up = s.up
  BY <1>2, DecisionsLemma DEF Typed
<1>4. /\ u \in Uis /\ u.rendering = FALSE
      /\ u.opened = ui.opened /\ u.pending = ui.pending
  BY <1>2, ReleasedLemma DEF Typed
<1> HIDE DEF t, u
<1>5. Typed'
  BY <1>1, <1>2, <1>3, <1>4 DEF Typed
<1>6. Staged' /\ Announced'
  BY <1>1, <1>2, <1>3, UiOnly
<1>7. SizedOf(surface, dr, engine, phase)'
  BY <1>1, <1>2
<1>8. Kept'
  BY <1>1, <1>2, <1>3, <1>4 DEF Kept
<1> QED
  BY <1>5, <1>6, <1>7, <1>8 DEF RouteInv

LEMMA ExitStep == ASSUME RouteInv, Exit PROVE RouteInv'
<1> DEFINE r == ShutdownResolution(dr, engine)
           c == ShutdownCapture(cam)
           t == [s EXCEPT !.up = FALSE, !.upscaler = FALSE, !.failed = FALSE]
           u == [ui EXCEPT !.rendering = FALSE, !.hudless = FALSE,
                           !.fgHudless = FALSE, !.captured = FALSE]
<1>1. /\ phase = "presented"
      /\ dr' = r.dr /\ engine' = r.engine /\ cam' = c /\ ui' = u /\ s' = t
      /\ surface' = surface /\ pass' = pass /\ frame' = frame
      /\ phase' = phase /\ raster' = raster /\ told' = told
      /\ drawn' = drawn /\ shown' = shown
  BY DEF Exit
<1>2. /\ Typed /\ Staged /\ Announced /\ Kept
      /\ SizedOf(surface, dr, engine, phase)
  BY DEF RouteInv
<1>3. /\ dr \in Resolutions /\ engine \in Engines /\ cam \in Captures
      /\ s \in Decisions
  BY <1>2 DEF Typed
<1>4. /\ r.dr \in Resolutions /\ r.dr.owner = dr.owner /\ r.dr.ui = FALSE
      /\ r.engine \in Engines /\ r.engine.viewport = engine.viewport
  BY <1>3, ShutdownLemma
<1>5. c \in Captures /\ c.frozen = cam.frozen
  BY <1>3, CaptureStarts
<1>6. /\ t \in Decisions /\ t.up = FALSE /\ t.source = s.source
  BY <1>3 DEF Decisions
<1>7. /\ u \in Uis /\ u.rendering = FALSE
  BY <1>2, ReleasedLemma DEF Typed
<1> HIDE DEF r, c, t, u
<1>8. Typed'
  BY <1>1, <1>2, <1>4, <1>5, <1>6, <1>7 DEF Typed
<1>9. Staged'
  BY <1>1, <1>2, <1>5, <1>6 DEF Staged
<1>10. Announced'
  BY <1>1, <1>2, <1>6 DEF Announced
<1>11. SizedOf(surface, dr, engine, phase)'
  BY <1>1, <1>2, <1>4 DEF SizedOf
<1>12. Kept'
  BY <1>1, <1>2, <1>4, <1>7 DEF Kept
<1> QED
  BY <1>8, <1>9, <1>10, <1>11, <1>12 DEF RouteInv

LEMMA RestartStep == ASSUME RouteInv, Restart PROVE RouteInv'
<1> DEFINE c == Install(cam)
           t == [s EXCEPT !.up = TRUE]
<1>1. /\ ~s.up /\ cam' = c /\ s' = t
      /\ dr' = dr /\ engine' = engine /\ ui' = ui
      /\ surface' = surface /\ pass' = pass /\ frame' = frame
      /\ phase' = phase /\ raster' = raster /\ told' = told
      /\ drawn' = drawn /\ shown' = shown
  BY DEF Restart
<1>2. /\ Typed /\ Staged /\ Announced /\ Kept
      /\ SizedOf(surface, dr, engine, phase)
  BY DEF RouteInv
<1>3. cam \in Captures /\ s \in Decisions /\ phase = "presented"
  BY <1>1, <1>2 DEF Typed, Staged
<1>4. c \in Captures /\ c.enabled = TRUE /\ c.frozen = cam.frozen
  BY <1>3, CaptureStarts
<1>5. /\ t \in Decisions /\ t.up = TRUE /\ t.source = s.source
      /\ t.generation = s.generation
  BY <1>3 DEF Decisions
<1> HIDE DEF c, t
<1>6. Typed'
  BY <1>1, <1>2, <1>4, <1>5 DEF Typed
<1>7. Staged'
  BY <1>1, <1>2, <1>3, <1>4 DEF Staged
<1>8. Announced'
  BY <1>1, <1>2, <1>3, <1>5 DEF Announced
<1>9. SizedOf(surface, dr, engine, phase)'
  BY <1>1, <1>2
<1>10. Kept'
  BY <1>1, <1>2, <1>5 DEF Kept
<1> QED
  BY <1>6, <1>7, <1>8, <1>9, <1>10 DEF RouteInv

LEMMA StutterStep == ASSUME RouteInv, UNCHANGED vars PROVE RouteInv'
<1>1. /\ dr' = dr /\ engine' = engine /\ ui' = ui /\ cam' = cam /\ s' = s
      /\ surface' = surface /\ pass' = pass /\ frame' = frame
      /\ phase' = phase /\ raster' = raster /\ told' = told
      /\ drawn' = drawn /\ shown' = shown
  BY DEF vars
<1>2. /\ Typed /\ Staged /\ Announced /\ Kept
      /\ SizedOf(surface, dr, engine, phase)
  BY DEF RouteInv
<1>3. Typed'
  BY <1>1, <1>2 DEF Typed
<1>4. Staged' /\ Announced'
  BY <1>1, <1>2, UiOnly
<1>5. SizedOf(surface, dr, engine, phase)'
  BY <1>1, <1>2
<1>6. Kept'
  BY <1>1, <1>2 DEF Kept
<1> QED
  BY <1>3, <1>4, <1>5, <1>6 DEF RouteInv

LEMMA NextStep == ASSUME RouteInv, [Next]_vars PROVE RouteInv'
<1>1. CASE GameResolution
  BY <1>1, ResolutionStep
<1>2. CASE GameJitter_
  BY <1>2, JitterStep
<1>3. CASE SceneFinal
  BY <1>3, FinalStep
<1>4. CASE \E h \in WorldHistories : WorldCamera(h)
  BY <1>4, WorldStep
<1>5. CASE \E p \in BOOLEAN : OtherCamera(p)
  BY <1>5, OtherStep
<1>6. CASE BeginDisplay
  BY <1>6, BeginStep
<1>7. CASE AfterDisplay
  BY <1>7, AfterStep
<1>8. CASE EndDisplay
  BY <1>8, EndStep
<1>9. CASE \E fits, depth \in BOOLEAN : DrawUi(fits, depth)
  BY <1>9, DrawStep
<1>10. CASE Present
  BY <1>10, PresentStep
<1>11. CASE BeginFrame
  BY <1>11, FrameStep
<1>12. CASE \E m \in Menus, o \in BOOLEAN : Menu(m, o)
  BY <1>12, MenuStep
<1>13. CASE \E f \in {"planes", "paused"} : World(f)
  BY <1>13, OthersStep
<1>14. CASE SharedTextures
  BY <1>14, TexturesStep
<1>15. CASE Exit
  BY <1>15, ExitStep
<1>16. CASE Restart
  BY <1>16, RestartStep
<1>17. CASE UNCHANGED vars
  BY <1>17, StutterStep
<1> QED
  BY <1>1, <1>2, <1>3, <1>4, <1>5, <1>6, <1>7, <1>8, <1>9, <1>10, <1>11,
     <1>12, <1>13, <1>14, <1>15, <1>16, <1>17 DEF Next

-----------------------------------------------------------------------------
(***************************************************************************)
(* The theorems.                                                           *)
(***************************************************************************)
\* What the frame has done of its resolves, its writes of the camera and its UI
\* stays consistent whatever Skyrim calls and in whatever order.
THEOREM RouteInvariant == Spec => []RouteInv
<1>1. Init => RouteInv
  BY InitRoute
<1>2. RouteInv /\ [Next]_vars => RouteInv'
  BY NextStep
<1> QED
  BY <1>1, <1>2, PTL DEF Spec

\* The upscaler and frame generation are told the same jitter for a frame,
\* although the UI writes cameras between the resolve and the Present
\* (commit_pending_scene_resolve, and the submission of the frame's constants).
THEOREM ConsumersAlwaysAgree == Spec => []ConsumersAgree
<1>1. RouteInv => ConsumersAgree
  BY DEF RouteInv, Announced, ConsumersAgree
<1> QED
  BY <1>1, RouteInvariant, PTL

\* A measured jitter is the one in the matrices the world was drawn with, on any
\* virtual surface.
THEOREM JitterAlwaysAsRastered == Spec => []JitterReportedAsRastered
<1>1. RouteInv => JitterReportedAsRastered
  BY DEF RouteInv, Announced, JitterReportedAsRastered
<1> QED
  BY <1>1, RouteInvariant, PTL

\* Between the resolution hooks, begin_full_resolution_ui and its end the game's
\* viewport is the one the phase needs.
THEOREM ExtentAlwaysFollows == Spec => []ExtentFollowsPhase
<1>1. RouteInv => ExtentFollowsPhase
  BY DEF RouteInv, SizedOf, ExtentFollowsPhase
<1> QED
  BY <1>1, RouteInvariant, PTL

\* A frame whose UI stayed behind in the layer is never reported healthy, by
\* whichever branch of State::present it left.
THEOREM LostLayerAlwaysUnhealthy == Spec => []LostLayerIsUnhealthy
<1>1. RouteInv => LostLayerIsUnhealthy
  BY DEF RouteInv, Kept, LostLayerIsUnhealthy
<1> QED
  BY <1>1, RouteInvariant, PTL

\* Every member stays in its range; in particular the jitter is one of the
\* samples of the sequence, and the probe of who jitters ends in time.
THEOREM TypesHold == Spec => []TypeOK
<1>1. RouteInv => TypeOK
  <2> SUFFICES ASSUME RouteInv PROVE TypeOK
    OBVIOUS
  <2>1. Typed
    BY DEF RouteInv
  <2>2. /\ dr.jitter \in Jitters /\ dr.projection \in Jitters
        /\ dr.owner.probe \in 0 .. SplitProbeFrames
    BY <2>1 DEF Typed, Resolutions, Owners
  <2>3. engine.viewport \in {"render", "output"} /\ engine.lock \in 0 .. 1
    BY <2>1 DEF Typed, Engines
  <2>4. ui \in [DOMAIN NewUi -> BOOLEAN]
    <3>1. DOMAIN NewUi = {"inside", "pending", "opened", "rendering",
                          "hudless", "fgHudless", "captured"}
      BY DEF NewUi
    <3>2. ui \in Uis
      BY <2>1 DEF Typed
    <3> QED
      BY <3>1, <3>2 DEF Uis
  <2>5. pass \in [DOMAIN NewPass -> BOOLEAN]
    <3>1. DOMAIN NewPass = {"final", "resolve", "prepared", "late"}
      BY DEF NewPass
    <3>2. pass \in Passes
      BY <2>1 DEF Typed
    <3> QED
      BY <3>1, <3>2 DEF Passes
  <2> QED
    BY <2>1, <2>2, <2>3, <2>4, <2>5 DEF Typed, TypeOK, Places
<1> QED
  BY <1>1, RouteInvariant, PTL


-----------------------------------------------------------------------------
(***************************************************************************)
(* Who upscales.  The handlers take the runtimes, the pass, the recovery   *)
(* and the selection together to others, so what they keep is a predicate  *)
(* of those four.                                                          *)
(***************************************************************************)
SrContexts ==
    [mode : Modes \cup {"off"}, extent : Extents \cup {NoExtent}, reset : BOOLEAN]

SrFeatures == [mode : Modes, extent : Extents] \cup {NoFeature}

SrHistories == [Providers -> {"none", "kept", "stale"}]

UpscalingPasses ==
    [active : Providers \cup {"none"}, reset : BOOLEAN, verified : BOOLEAN,
     surfaces : Extents \cup {NoExtent}]

Recoveries ==
    [armed : {TRUE}, provider : Providers, mode : Modes, extent : Extents,
     left : 0..Budget] \cup {NoRecovery}

SavedSelections == [saved : Selections, fault : BOOLEAN]

SelectionWorlds ==
    [sr : Runtimes, pass : UpscalingPasses, recovery : Recoveries,
     ini : SavedSelections]

\* DLSS has the feature of the contract, or none.
FeatureOfContract(rt) ==
    rt.provider = "nvidia" =>
        rt.feature \in {NoFeature, [mode |-> rt.mode, extent |-> rt.extent]}

\* The FSR context, where there is one, was made for the contract.
ContextOfContract(rt) ==
    rt.context["amd"] # NoContext =>
        rt.context["amd"].mode = rt.mode /\ rt.context["amd"].extent = rt.extent

\* A pass that asks for no reset has evaluated with a provider whose history
\* has no gap, and FSR will not have to resize its context.
HistoryGood(rt, p) ==
    ~p.reset => /\ p.verified
                /\ p.active # "none"
                /\ rt.history[p.active] # "stale"
                /\ p.active = "amd" => ContextOfContract(rt)

\* What runs, what is saved and what a recovery would go back to agree.
SelectionGood(w) ==
    ~w.ini.fault => /\ w.ini.saved = Contract(w.sr)
                    /\ w.pass.active \in {"none", w.sr.provider}
                    /\ w.recovery.armed => w.recovery.provider # w.sr.provider

UpscalingGood(w) ==
    /\ w \in SelectionWorlds
    /\ FeatureOfContract(w.sr)
    /\ SelectionGood(w)
    /\ HistoryGood(w.sr, w.pass)

\* The same of the four variables.
PartsGood(rt, p, r, i) ==
    /\ rt \in Runtimes
    /\ p \in UpscalingPasses
    /\ r \in Recoveries
    /\ i \in SavedSelections
    /\ FeatureOfContract(rt)
    /\ ~i.fault => /\ i.saved = Contract(rt)
                   /\ p.active \in {"none", rt.provider}
                   /\ r.armed => r.provider # rt.provider
    /\ HistoryGood(rt, p)

UpscalingInv ==
    /\ PartsGood(sr, upscaling, recovery, ini)
    /\ screen \in Extents
    /\ resolved \in BOOLEAN
    /\ stage \in {"drawing", "presented"}

SameContract(rt, t) ==
    t.provider = rt.provider /\ t.mode = rt.mode /\ t.extent = rt.extent

\* Asking a runtime for a contract may cost DLSS its feature and no more.
OnlyPrepared(rt, t) ==
    /\ t \in Runtimes
    /\ SameContract(rt, t)
    /\ t.context = rt.context
    /\ \A p \in Providers : t.history[p] \in {rt.history[p], "none"}
LEMMA ExtentFacts ==
  ASSUME NEW p \in Providers, NEW m \in Modes
  PROVE  Optimal[p][m] \in Extents /\ Optimal[p][m] # NoExtent
BY OptimalAssumption DEF Extents

LEMMA NoExtentApart == NoExtent \notin Extents
BY OptimalAssumption DEF Extents

LEMMA RuntimesParts ==
  ASSUME NEW rt \in Runtimes
  PROVE  /\ rt.provider \in Providers
         /\ rt.mode \in Modes
         /\ rt.extent \in Extents
         /\ rt.feature \in SrFeatures
         /\ rt.context \in [Vendors -> SrContexts]
         /\ rt.history \in SrHistories
BY DEF Runtimes, SrFeatures, SrContexts, SrHistories

LEMMA RuntimesMade ==
  ASSUME NEW p \in Providers, NEW m \in Modes, NEW x \in Extents,
         NEW f \in SrFeatures, NEW c \in [Vendors -> SrContexts],
         NEW h \in SrHistories
  PROVE  [provider |-> p, mode |-> m, extent |-> x, feature |-> f,
          context |-> c, history |-> h] \in Runtimes
BY DEF Runtimes, SrFeatures, SrContexts, SrHistories

\* A runtime is the record of its six parts.
LEMMA RuntimesWhole ==
  ASSUME NEW rt \in Runtimes
  PROVE  rt = [provider |-> rt.provider, mode |-> rt.mode, extent |-> rt.extent,
              feature |-> rt.feature, context |-> rt.context,
              history |-> rt.history]
BY DEF Runtimes

LEMMA OkFacts ==
  ASSUME NEW rt
  PROVE  Ok(rt).sr = rt /\ Ok(rt).ok = TRUE
BY DEF Ok

LEMMA NoFacts ==
  ASSUME NEW rt
  PROVE  No(rt).sr = rt /\ No(rt).ok = FALSE
BY DEF No

LEMMA ReleaseLemma ==
  ASSUME NEW rt \in Runtimes
  PROVE  /\ OnlyPrepared(rt, ReleaseFeature(rt))
         /\ ReleaseFeature(rt).feature = NoFeature
<1> DEFINE h == [rt.history EXCEPT !["nvidia"] = "none"]
           t == ReleaseFeature(rt)
<1>1. h \in SrHistories /\ \A p \in Providers : h[p] \in {rt.history[p], "none"}
  BY RuntimesParts DEF SrHistories, Providers
<1>2. t = [rt EXCEPT !.feature = NoFeature, !.history = h]
  BY DEF ReleaseFeature
<1>3. NoFeature \in SrFeatures
  BY DEF SrFeatures
<1> HIDE DEF h, t
<1>4. t.provider = rt.provider
  BY <1>2 DEF Runtimes
<1>5. t.mode = rt.mode
  BY <1>2 DEF Runtimes
<1>6. t.extent = rt.extent
  BY <1>2 DEF Runtimes
<1>7. t.context = rt.context
  BY <1>2 DEF Runtimes
<1>8. t.feature = NoFeature
  BY <1>2 DEF Runtimes
<1>9. t.history = h
  BY <1>2 DEF Runtimes
<1>10. t \in Runtimes
  BY <1>1, <1>2, <1>3 DEF Runtimes, SrFeatures, SrHistories
<1> QED BY <1>1, <1>4, <1>5, <1>6, <1>7, <1>8, <1>9, <1>10 DEF OnlyPrepared, SameContract, t

LEMMA SameLemma ==
  ASSUME NEW rt \in Runtimes
  PROVE  OnlyPrepared(rt, rt)
BY RuntimesParts DEF OnlyPrepared, SameContract

LEMMA EnsureLemma ==
  ASSUME NEW rt \in Runtimes, NEW m \in Modes, NEW x \in Extents,
         NEW r \in EnsureFeatureOutcomes(rt, m, x)
  PROVE  /\ OnlyPrepared(rt, r.sr)
         /\ r.ok \in BOOLEAN
         /\ r.ok => r.sr.feature = [mode |-> m, extent |-> x]
         /\ ~r.ok => r.sr.feature = NoFeature
<1> DEFINE wanted == [mode |-> m, extent |-> x]
           u == ReleaseFeature(rt)
           t == [u EXCEPT !.feature = wanted]
<1>1. wanted \in SrFeatures
  BY DEF SrFeatures
<1>2. u \in Runtimes /\ OnlyPrepared(rt, u) /\ u.feature = NoFeature
  BY ReleaseLemma DEF OnlyPrepared
<1> HIDE DEF u, wanted
<1>3. /\ t = [provider |-> u.provider, mode |-> u.mode, extent |-> u.extent,
              feature |-> wanted, context |-> u.context, history |-> u.history]
  BY <1>2, RuntimesWhole
<1>4. t \in Runtimes
  BY <1>1, <1>2 DEF Runtimes, SrFeatures
<1>5. t.feature = wanted
  BY <1>3
<1>6. OnlyPrepared(rt, t)
  BY <1>2, <1>3, <1>4 DEF OnlyPrepared, SameContract
<1>7. CASE rt.feature = wanted
  <2>1. r = Ok(rt)
    BY <1>7 DEF EnsureFeatureOutcomes, wanted
  <2>2. r.sr = rt /\ r.ok = TRUE
    BY <2>1, OkFacts
  <2> QED BY <1>7, <2>2, SameLemma DEF wanted
<1>8. CASE rt.feature # wanted
  <2>1. r \in {Ok(t), No(u)}
    BY <1>8 DEF EnsureFeatureOutcomes, wanted, u
  <2> HIDE DEF t
  <2>2. CASE r = Ok(t)
    <3>1. r.sr = t /\ r.ok = TRUE
      BY <2>2, OkFacts
    <3> QED BY <3>1, <1>5, <1>6 DEF wanted
  <2>3. CASE r = No(u)
    <3>1. r.sr = u /\ r.ok = FALSE
      BY <2>3, NoFacts
    <3> QED BY <3>1, <1>2
  <2> QED BY <2>1, <2>2, <2>3
<1> QED BY <1>7, <1>8

LEMMA QueryLemma ==
  ASSUME NEW rt \in Runtimes, NEW p \in Providers, NEW m \in Modes,
         NEW x \in QueryOutcomes(rt, p, m)
  PROVE  /\ x \in Extents \cup {NoExtent}
         /\ p = "nvidia" /\ x # NoExtent => x = Optimal[p][m]
<1>1. Optimal[p][m] \in Extents
  BY ExtentFacts
<1>2. CASE p \in Vendors
  <2>1. rt.context[p] \in SrContexts
    BY <1>2, RuntimesParts
  <2> QED BY <1>1, <1>2, <2>1 DEF QueryOutcomes, VendorExtents, AskedOutcomes, SrContexts, Vendors
<1>3. CASE p \notin Vendors
  BY <1>1, <1>3 DEF QueryOutcomes
<1> QED BY <1>2, <1>3

\* q is what the preparation of a contract returns.
PreparedFor(rt, p, m, q) ==
    /\ OnlyPrepared(rt, q.sr)
    /\ q.extent \in Extents \cup {NoExtent}
    /\ p # "nvidia" => q.sr = rt
    /\ p = "nvidia" /\ q.extent # NoExtent =>
           q.sr.feature = [mode |-> m, extent |-> q.extent]
    /\ q.sr.feature \in {rt.feature, NoFeature, [mode |-> m, extent |-> q.extent]}

LEMMA PrepareLemma ==
  ASSUME NEW rt \in Runtimes, NEW p \in Providers, NEW m \in Modes,
         NEW q \in PrepareOutcomes(rt, p, m)
  PROVE  PreparedFor(rt, p, m, q)
<1>1. PICK x \in QueryOutcomes(rt, p, m) :
        q \in IF x = NoExtent \/ p # "nvidia" THEN {Sized(rt, x)}
              ELSE {Sized(e.sr, IF e.ok THEN x ELSE NoExtent) :
                       e \in EnsureFeatureOutcomes(rt, m, x)}
  BY DEF PrepareOutcomes
<1>2. x \in Extents \cup {NoExtent}
  BY QueryLemma
<1>3. CASE x = NoExtent \/ p # "nvidia"
  <2>1. q = Sized(rt, x)
    BY <1>1, <1>3
  <2>2. q.sr = rt /\ q.extent = x
    BY <2>1 DEF Sized
  <2> QED BY <1>2, <1>3, <2>2, SameLemma DEF PreparedFor
<1>4. CASE ~(x = NoExtent \/ p # "nvidia")
  <2>1. PICK e \in EnsureFeatureOutcomes(rt, m, x) :
          q = Sized(e.sr, IF e.ok THEN x ELSE NoExtent)
    BY <1>1, <1>4
  <2>2. x \in Extents
    BY <1>2, <1>4
  <2>3. /\ OnlyPrepared(rt, e.sr)
        /\ e.ok \in BOOLEAN
        /\ e.ok => e.sr.feature = [mode |-> m, extent |-> x]
        /\ ~e.ok => e.sr.feature = NoFeature
    BY <2>1, <2>2, EnsureLemma
  <2>4. q.sr = e.sr /\ q.extent = IF e.ok THEN x ELSE NoExtent
    BY <2>1 DEF Sized
  <2> QED BY <1>4, <2>2, <2>3, <2>4 DEF PreparedFor
<1> QED BY <1>3, <1>4

LEMMA PrepareAtLemma ==
  ASSUME NEW rt \in Runtimes, NEW p \in Providers, NEW m \in Modes,
         NEW x \in Extents, NEW q \in PrepareAtExtentOutcomes(rt, p, m, x)
  PROVE  /\ OnlyPrepared(rt, q.sr)
         /\ q.ok \in BOOLEAN
         /\ p # "nvidia" => q.sr = rt
         /\ p = "nvidia" /\ q.ok => q.sr.feature = [mode |-> m, extent |-> x]
<1>1. CASE p = "nvidia"
  <2>1. q \in {No(rt)} \cup EnsureFeatureOutcomes(rt, m, x)
    BY <1>1 DEF PrepareAtExtentOutcomes
  <2>2. CASE q = No(rt)
    BY <1>1, <2>2, SameLemma DEF No
  <2>3. CASE q \in EnsureFeatureOutcomes(rt, m, x)
    BY <1>1, <2>3, EnsureLemma
  <2> QED BY <2>1, <2>2, <2>3
<1>2. CASE p # "nvidia"
  <2>1. q \in {Ok(rt), No(rt)}
    BY <1>2 DEF PrepareAtExtentOutcomes, Supports
  <2>2. q.sr = rt /\ q.ok \in BOOLEAN
    BY <2>1, OkFacts, NoFacts
  <2> QED BY <1>2, <2>2, SameLemma
<1> QED BY <1>1, <1>2

\* c is what a commit of a contract returns.
Committed(rt, p, m, x, c) ==
    /\ c.ok \in BOOLEAN
    /\ c.sr \in Runtimes
    /\ c.sr.feature = rt.feature
    /\ c.sr.context = rt.context
    /\ c.sr.history = rt.history
    /\ c.ok => /\ c.sr.provider = p
               /\ c.sr.mode = m
               /\ c.sr.extent = x
               /\ FeatureOfContract(c.sr)
    /\ ~c.ok => /\ c.sr = rt
                /\ p = "nvidia"
                /\ rt.feature # [mode |-> m, extent |-> x]

LEMMA CommitLemma ==
  ASSUME NEW rt \in Runtimes, NEW p \in Providers, NEW m \in Modes,
         NEW x \in Extents
  PROVE  Committed(rt, p, m, x, CommitContract(rt, p, m, x))
<1> DEFINE t == [rt EXCEPT !.provider = p, !.mode = m, !.extent = x]
           c == CommitContract(rt, p, m, x)
<1>1. t \in Runtimes
  BY DEF Runtimes
<1>2. t.provider = p
  BY DEF Runtimes
<1>3. t.mode = m
  BY DEF Runtimes
<1>4. t.extent = x
  BY DEF Runtimes
<1>5. t.feature = rt.feature
  BY DEF Runtimes
<1>6. t.context = rt.context
  BY DEF Runtimes
<1>7. t.history = rt.history
  BY DEF Runtimes
<1>8. CASE p = "nvidia" /\ rt.feature # [mode |-> m, extent |-> x]
  <2>1. c = No(rt)
    BY <1>8 DEF CommitContract
  <2>2. c.sr = rt /\ c.ok = FALSE
    BY <2>1, NoFacts
  <2> HIDE DEF c
  <2>3. Committed(rt, p, m, x, c)
    BY <1>8, <2>2 DEF Committed
  <2> QED BY <2>3 DEF c
<1>9. CASE ~(p = "nvidia" /\ rt.feature # [mode |-> m, extent |-> x])
  <2>1. c = Ok(t)
    BY <1>9 DEF CommitContract
  <2>2. c.ok = TRUE /\ c.sr = t
    BY <2>1, OkFacts
  <2>3. FeatureOfContract(t)
    BY <1>2, <1>3, <1>4, <1>5, <1>9 DEF FeatureOfContract
  <2> HIDE DEF t, c
  <2>4. Committed(rt, p, m, x, c)
    BY <1>1, <1>2, <1>3, <1>4, <1>5, <1>6, <1>7, <2>2, <2>3 DEF Committed
  <2> QED BY <2>4 DEF c
<1> QED BY <1>8, <1>9
-----------------------------------------------------------------------------
\* What a change of the mode leaves of the runtimes.
ModeSet(rt, t) ==
    /\ t \in Runtimes
    /\ t.provider = rt.provider
    /\ t.context = rt.context
    /\ \A p \in Providers : t.history[p] \in {rt.history[p], "none"}
    /\ FeatureOfContract(t)

LEMMA SetModeLemma ==
  ASSUME NEW rt \in Runtimes, FeatureOfContract(rt), NEW m \in Modes,
         NEW r \in SetModeOutcomes(rt, m)
  PROVE  /\ ModeSet(rt, r.sr)
         /\ r.ok \in BOOLEAN
         /\ r.ok => r.sr.mode = m
         /\ ~r.ok => SameContract(rt, r.sr)
<1>1. rt.provider \in Providers
  BY RuntimesParts
<1>2. PICK q \in PrepareOutcomes(rt, rt.provider, m) :
        r = IF q.extent = NoExtent THEN No(q.sr)
            ELSE CommitContract(q.sr, rt.provider, m, q.extent)
  BY DEF SetModeOutcomes
<1>3. PreparedFor(rt, rt.provider, m, q)
  BY <1>1, <1>2, PrepareLemma
<1>4. /\ OnlyPrepared(rt, q.sr)
      /\ q.extent \in Extents \cup {NoExtent}
      /\ rt.provider # "nvidia" => q.sr = rt
      /\ rt.provider = "nvidia" /\ q.extent # NoExtent =>
             q.sr.feature = [mode |-> m, extent |-> q.extent]
  BY <1>3 DEF PreparedFor
<1>5. q.sr \in Runtimes /\ SameContract(rt, q.sr)
  BY <1>4 DEF OnlyPrepared
<1>6. CASE q.extent = NoExtent
  <2>1. r.sr = q.sr /\ r.ok = FALSE
    BY <1>2, <1>6, NoFacts
  <2>2. q.sr.feature \in {rt.feature, NoFeature, [mode |-> m, extent |-> NoExtent]}
    BY <1>3, <1>6 DEF PreparedFor
  <2>3. q.sr.feature \in SrFeatures
    BY <1>5, RuntimesParts
  <2>4. [mode |-> m, extent |-> NoExtent] \notin SrFeatures
    BY OptimalAssumption, NoExtentApart DEF SrFeatures, NoFeature
  <2>5. FeatureOfContract(q.sr)
    BY <1>5, <2>2, <2>3, <2>4 DEF FeatureOfContract, SameContract
  <2> QED BY <1>4, <1>5, <2>1, <2>5 DEF ModeSet, OnlyPrepared, SameContract
<1>7. CASE q.extent # NoExtent
  <2>1. q.extent \in Extents
    BY <1>4, <1>7
  <2>2. r = CommitContract(q.sr, rt.provider, m, q.extent)
    BY <1>2, <1>7
  <2>3. Committed(q.sr, rt.provider, m, q.extent, r)
    BY <1>1, <1>5, <2>1, <2>2, CommitLemma
  <2>4. /\ r.ok \in BOOLEAN
        /\ r.sr \in Runtimes
        /\ r.sr.context = q.sr.context
        /\ r.sr.history = q.sr.history
        /\ r.ok => /\ r.sr.provider = rt.provider
                   /\ r.sr.mode = m
                   /\ FeatureOfContract(r.sr)
        /\ ~r.ok => /\ rt.provider = "nvidia"
                    /\ q.sr.feature # [mode |-> m, extent |-> q.extent]
    BY <2>3 DEF Committed
  <2>5. r.ok
    BY <1>4, <1>7, <2>4
  <2> QED BY <1>4, <2>4, <2>5 DEF ModeSet, OnlyPrepared
<1> QED BY <1>6, <1>7

LEMMA ReconfigureLemma ==
  ASSUME NEW rt \in Runtimes, FeatureOfContract(rt), NEW m \in Modes,
         NEW r \in ReconfigureOutcomes(rt, m)
  PROVE  /\ r.sr \in Runtimes
         /\ FeatureOfContract(r.sr)
         /\ r.ok \in BOOLEAN
         /\ r.ok => Contract(r.sr) = [provider |-> rt.provider, mode |-> m]
         /\ ~r.ok => Contract(r.sr) = Contract(rt)
<1>1. PICK x \in QueryOutcomes(rt, rt.provider, m) :
        r \in IF x # screen THEN {No(rt)}
              ELSE UNION {IF q.ok THEN {q}
                          ELSE {No(b.sr) : b \in SetModeOutcomes(q.sr, rt.mode)}
                            : q \in SetModeOutcomes(rt, m)}
  BY DEF ReconfigureOutcomes
<1>2. CASE x # screen
  <2>1. r.sr = rt /\ r.ok = FALSE
    BY <1>1, <1>2, NoFacts
  <2> QED BY <2>1
<1>3. CASE x = screen
  <2>1. PICK q \in SetModeOutcomes(rt, m) :
          r \in IF q.ok THEN {q}
                ELSE {No(b.sr) : b \in SetModeOutcomes(q.sr, rt.mode)}
    BY <1>1, <1>3
  <2>2. /\ ModeSet(rt, q.sr)
        /\ q.ok \in BOOLEAN
        /\ q.ok => q.sr.mode = m
        /\ ~q.ok => SameContract(rt, q.sr)
    BY <2>1, SetModeLemma
  <2>3. CASE q.ok
    <3>1. r = q
      BY <2>1, <2>3
    <3> QED BY <2>2, <2>3, <3>1 DEF ModeSet, Contract
  <2>4. CASE ~q.ok
    <3>1. PICK b \in SetModeOutcomes(q.sr, rt.mode) : r = No(b.sr)
      BY <2>1, <2>4
    <3>2. r.sr = b.sr /\ r.ok = FALSE
      BY <3>1, NoFacts
    <3>3. q.sr \in Runtimes /\ FeatureOfContract(q.sr) /\ rt.mode \in Modes
      BY <2>2, RuntimesParts DEF ModeSet
    <3>4. /\ ModeSet(q.sr, b.sr)
          /\ b.ok \in BOOLEAN
          /\ b.ok => b.sr.mode = rt.mode
          /\ ~b.ok => SameContract(q.sr, b.sr)
      BY <3>1, <3>3, SetModeLemma
    <3>5. b.sr.mode = rt.mode /\ b.sr.provider = rt.provider
      BY <2>2, <2>4, <3>4 DEF ModeSet, SameContract
    <3> QED BY <3>2, <3>4, <3>5 DEF ModeSet, Contract
  <2> QED BY <2>3, <2>4
<1> QED BY <1>2, <1>3

-----------------------------------------------------------------------------
LEMMA WorldParts ==
  ASSUME NEW w \in SelectionWorlds
  PROVE  /\ w.sr \in Runtimes
         /\ w.pass \in UpscalingPasses
         /\ w.recovery \in Recoveries
         /\ w.ini \in SavedSelections
         /\ w.ini.saved \in Selections
         /\ w.ini.fault \in BOOLEAN
BY DEF SelectionWorlds, SavedSelections

LEMMA PassParts ==
  ASSUME NEW p \in UpscalingPasses
  PROVE  /\ p.active \in Providers \cup {"none"}
         /\ p.reset \in BOOLEAN
         /\ p.verified \in BOOLEAN
         /\ p.surfaces \in Extents \cup {NoExtent}
BY DEF UpscalingPasses

LEMMA ContractFacts ==
  ASSUME NEW rt \in Runtimes
  PROVE  /\ Contract(rt) \in Selections
         /\ Contract(rt).provider = rt.provider
         /\ Contract(rt).mode = rt.mode
BY RuntimesParts DEF Contract, Selections

LEMMA SelectionParts ==
  ASSUME NEW c \in Selections
  PROVE  /\ c.provider \in Providers
         /\ c.mode \in Modes
         /\ c = [provider |-> c.provider, mode |-> c.mode]
BY DEF Selections

LEMMA FaultyFacts ==
  ASSUME NEW i \in SavedSelections
  PROVE  Faulty(i) \in SavedSelections /\ Faulty(i).fault
BY DEF SavedSelections, Faulty

\* Giving a world another selection.
LEMMA WithIni ==
  ASSUME NEW w \in SelectionWorlds, NEW i \in SavedSelections
  PROVE  LET v == [w EXCEPT !.ini = i]
         IN  /\ v \in SelectionWorlds
             /\ v.sr = w.sr
             /\ v.pass = w.pass
             /\ v.recovery = w.recovery
             /\ v.ini = i
<1> DEFINE v == [w EXCEPT !.ini = i]
<1>1. v \in SelectionWorlds
  BY DEF SelectionWorlds
<1>2. v.sr = w.sr
  BY DEF SelectionWorlds
<1>3. v.pass = w.pass
  BY DEF SelectionWorlds
<1>4. v.recovery = w.recovery
  BY DEF SelectionWorlds
<1>5. v.ini = i
  BY DEF SelectionWorlds
<1> HIDE DEF v
<1>6. /\ v \in SelectionWorlds
      /\ v.sr = w.sr
      /\ v.pass = w.pass
      /\ v.recovery = w.recovery
      /\ v.ini = i
  BY <1>1, <1>2, <1>3, <1>4, <1>5
<1> QED BY <1>6 DEF v

LEMMA WithSr ==
  ASSUME NEW w \in SelectionWorlds, NEW rt \in Runtimes
  PROVE  LET v == [w EXCEPT !.sr = rt]
         IN  /\ v \in SelectionWorlds
             /\ v.sr = rt
             /\ v.pass = w.pass
             /\ v.recovery = w.recovery
             /\ v.ini = w.ini
<1> DEFINE v == [w EXCEPT !.sr = rt]
<1>1. v \in SelectionWorlds
  BY DEF SelectionWorlds
<1>2. v.sr = rt
  BY DEF SelectionWorlds
<1>3. v.pass = w.pass
  BY DEF SelectionWorlds
<1>4. v.recovery = w.recovery
  BY DEF SelectionWorlds
<1>5. v.ini = w.ini
  BY DEF SelectionWorlds
<1> HIDE DEF v
<1>6. /\ v \in SelectionWorlds
      /\ v.sr = rt
      /\ v.pass = w.pass
      /\ v.recovery = w.recovery
      /\ v.ini = w.ini
  BY <1>1, <1>2, <1>3, <1>4, <1>5
<1> QED BY <1>6 DEF v

\* A selection written, refused, or restored.
LEMMA CommitSelectionLemma ==
  ASSUME NEW i \in SavedSelections, NEW c \in Selections,
         NEW j \in CommitSelectionOutcomes(i, c)
  PROVE  /\ j.ini \in SavedSelections
         /\ j.ini.fault = i.fault
         /\ j.ok \in BOOLEAN
         /\ j.ok => j.ini.saved = c
         /\ ~j.ok => j.ini = i
<1>1. CASE j = Written(i, c)
  <2>1. j.ini = [i EXCEPT !.saved = c] /\ j.ok = TRUE
    BY <1>1 DEF Written
  <2> QED BY <2>1 DEF SavedSelections
<1>2. CASE j = NotWritten(i)
  <2>1. j.ini = i /\ j.ok = FALSE
    BY <1>2 DEF NotWritten
  <2> QED BY <2>1
<1> QED BY <1>1, <1>2 DEF CommitSelectionOutcomes

LEMMA PersistLemma ==
  ASSUME NEW i \in SavedSelections, NEW c \in Selections,
         NEW j \in PersistOutcomes(i, c)
  PROVE  /\ j.ini \in SavedSelections
         /\ j.ini.fault = i.fault
         /\ j.ok \in BOOLEAN
         /\ j.ok => j.ini.saved = c
<1> DEFINE a == [i EXCEPT !.saved = c]
           b == [i EXCEPT !.saved.provider = c.provider]
<1>1. a \in SavedSelections /\ a.fault = i.fault /\ a.saved = c
  BY DEF SavedSelections
<1>2. b \in SavedSelections /\ b.fault = i.fault
  BY SelectionParts DEF SavedSelections, Selections
<1>3. j \in {Written(i, c), NotWritten(i), NotWritten(a), NotWritten(b)}
  BY DEF PersistOutcomes
<1>4. CASE j = Written(i, c)
  <2>1. j.ini = a /\ j.ok = TRUE
    BY <1>4 DEF Written
  <2> HIDE DEF a
  <2> QED BY <1>1, <2>1
<1>5. CASE j \in {NotWritten(i), NotWritten(a), NotWritten(b)}
  <2> HIDE DEF a, b
  <2>1. j.ini \in {i, a, b} /\ j.ok = FALSE
    BY <1>5 DEF NotWritten
  <2> QED BY <1>1, <1>2, <2>1
<1> HIDE DEF a, b
<1> QED BY <1>3, <1>4, <1>5

LEMMA RestoredLemma ==
  ASSUME NEW w \in SelectionWorlds, NEW c \in Selections,
         NEW v \in Restored(w, c)
  PROVE  /\ v \in SelectionWorlds
         /\ v.sr = w.sr
         /\ v.pass = w.pass
         /\ v.recovery = w.recovery
         /\ v.ini.fault \in BOOLEAN
         /\ ~v.ini.fault => v.ini.saved = c
<1>1. PICK i \in RestoreOutcomes(w.ini, c) : v = [w EXCEPT !.ini = i]
  BY DEF Restored
<1>2. w.ini \in SavedSelections
  BY WorldParts
<1>3. PICK j \in {[w.ini EXCEPT !.saved = c],
                  [w.ini EXCEPT !.saved.provider = c.provider],
                  [w.ini EXCEPT !.saved.mode = c.mode], w.ini} :
        i = IF j.saved = c THEN j ELSE Faulty(j)
  BY <1>1 DEF RestoreOutcomes
<1>4. [w.ini EXCEPT !.saved = c] \in SavedSelections
  BY <1>2 DEF SavedSelections
<1>5. [w.ini EXCEPT !.saved.provider = c.provider] \in SavedSelections
  BY <1>2, SelectionParts DEF SavedSelections, Selections
<1>6. [w.ini EXCEPT !.saved.mode = c.mode] \in SavedSelections
  BY <1>2, SelectionParts DEF SavedSelections, Selections
<1>7. j \in SavedSelections
  BY <1>2, <1>3, <1>4, <1>5, <1>6
<1>8. i \in SavedSelections /\ (~i.fault => i.saved = c)
  BY <1>3, <1>7, FaultyFacts
<1>9. /\ v \in SelectionWorlds
      /\ v.sr = w.sr
      /\ v.pass = w.pass
      /\ v.recovery = w.recovery
      /\ v.ini = i
  BY <1>1, <1>8, WithIni
<1> QED BY <1>8, <1>9 DEF SavedSelections
-----------------------------------------------------------------------------
LEMMA PreparedHistory ==
  ASSUME NEW rt \in Runtimes, NEW t, OnlyPrepared(rt, t),
         NEW p \in UpscalingPasses, HistoryGood(rt, p)
  PROVE  HistoryGood(t, p)
<1>1. p.reset \in BOOLEAN /\ p.active \in Providers \cup {"none"}
  BY PassParts
<1>2. CASE p.reset
  BY <1>2 DEF HistoryGood
<1>3. CASE ~p.reset
  <2>1. /\ p.verified
        /\ p.active \in Providers
        /\ rt.history[p.active] # "stale"
        /\ p.active = "amd" => ContextOfContract(rt)
    BY <1>1, <1>3 DEF HistoryGood
  <2>2. t.history[p.active] # "stale"
    BY <2>1 DEF OnlyPrepared
  <2>3. ContextOfContract(rt) => ContextOfContract(t)
    BY DEF OnlyPrepared, SameContract, ContextOfContract
  <2> QED BY <1>3, <2>1, <2>2, <2>3 DEF HistoryGood
<1> QED BY <1>1, <1>2, <1>3

LEMMA ResetHistoryFacts ==
  ASSUME NEW p \in UpscalingPasses
  PROVE  /\ ResetHistory(p) \in UpscalingPasses
         /\ ResetHistory(p).reset
         /\ ResetHistory(p).active = p.active
BY DEF ResetHistory, UpscalingPasses

LEMMA ResetIsGood ==
  ASSUME NEW rt, NEW p, p.reset
  PROVE  HistoryGood(rt, p)
BY DEF HistoryGood

\* A runtime that has only been asked changes nothing that is relied on.
LEMMA PreparedGood ==
  ASSUME NEW w, UpscalingGood(w), NEW t, OnlyPrepared(w.sr, t),
         FeatureOfContract(t)
  PROVE  UpscalingGood([w EXCEPT !.sr = t])
<1> DEFINE v == [w EXCEPT !.sr = t]
<1>1. /\ w \in SelectionWorlds
      /\ SelectionGood(w)
      /\ HistoryGood(w.sr, w.pass)
  BY DEF UpscalingGood
<1>2. t \in Runtimes /\ SameContract(w.sr, t)
  BY DEF OnlyPrepared
<1>3. /\ v \in SelectionWorlds
      /\ v.sr = t
      /\ v.pass = w.pass
      /\ v.recovery = w.recovery
      /\ v.ini = w.ini
  BY <1>1, <1>2, WithSr
<1> HIDE DEF v
<1>4. HistoryGood(t, w.pass)
  BY <1>1, PreparedHistory, WorldParts
<1>5. Contract(t) = Contract(w.sr) /\ t.provider = w.sr.provider
  BY <1>2 DEF SameContract, Contract
<1>6. SelectionGood(v)
  BY <1>1, <1>3, <1>5 DEF SelectionGood
<1> QED BY <1>3, <1>4, <1>6 DEF UpscalingGood, v

LEMMA ArmedFacts ==
  ASSUME NEW rt \in Runtimes, NEW old \in Selections
  PROVE  Armed(rt, old) \in Recoveries /\ Armed(rt, old).provider = old.provider
BY BudgetAssumption, RuntimesParts, SelectionParts DEF Armed, Recoveries

LEMMA SwitchedLemma ==
  ASSUME NEW w \in SelectionWorlds, NEW old \in Selections,
         NEW i \in SavedSelections, FeatureOfContract(w.sr),
         i.saved = Contract(w.sr), old.provider # w.sr.provider
  PROVE  UpscalingGood(Switched(w, old, i))
<1> DEFINE p == [ResetHistory(w.pass) EXCEPT !.active = w.sr.provider]
           v == Switched(w, old, i)
<1>1. ResetHistory(w.pass) \in UpscalingPasses /\ ResetHistory(w.pass).reset
  BY WorldParts, ResetHistoryFacts
<1>2. w.sr \in Runtimes /\ w.sr.provider \in Providers
  BY WorldParts, RuntimesParts
<1>3. p \in UpscalingPasses
  BY <1>1, <1>2 DEF UpscalingPasses
<1>4. p.reset
  BY <1>1 DEF UpscalingPasses
<1>5. p.active = w.sr.provider
  BY <1>1 DEF UpscalingPasses
<1>6. Armed(w.sr, old) \in Recoveries /\ Armed(w.sr, old).provider = old.provider
  BY <1>2, ArmedFacts
<1>7. v = [w EXCEPT !.ini = i, !.recovery = Armed(w.sr, old), !.pass = p]
  BY DEF Switched, SelectionWorlds
<1> HIDE DEF p, v
<1>8. v \in SelectionWorlds
  BY <1>3, <1>6, <1>7 DEF SelectionWorlds
<1>9. v.sr = w.sr
  BY <1>7 DEF SelectionWorlds
<1>10. v.pass = p
  BY <1>7 DEF SelectionWorlds
<1>11. v.recovery = Armed(w.sr, old)
  BY <1>7 DEF SelectionWorlds
<1>12. v.ini = i
  BY <1>7 DEF SelectionWorlds
<1>13. HistoryGood(v.sr, v.pass)
  BY <1>4, <1>10, ResetIsGood
<1>14. SelectionGood(v)
  BY <1>5, <1>6, <1>9, <1>10, <1>11, <1>12 DEF SelectionGood
<1> QED BY <1>8, <1>9, <1>13, <1>14 DEF UpscalingGood, v

\* w, an unfinished switch: the contract is new, the rest is as u has it.
LEMMA RolledBackLemma ==
  ASSUME NEW u, UpscalingGood(u), ~u.ini.fault, NEW w \in SelectionWorlds,
         w.pass = u.pass, w.recovery = u.recovery,
         w.sr.context = u.sr.context, w.sr.history = u.sr.history,
         w.sr.extent = u.sr.extent, FeatureOfContract(w.sr),
         w.sr.provider # u.sr.provider
  PROVE  UpscalingGood(RolledBack(w, Contract(u.sr), u.ini))
<1> DEFINE c == Contract(u.sr)
           back == CommitContract(w.sr, c.provider, c.mode, w.sr.extent)
           j == IF back.ok THEN u.ini ELSE Faulty(u.ini)
           v == [w EXCEPT !.sr = back.sr, !.ini = j]
<1>1. /\ u \in SelectionWorlds
      /\ SelectionGood(u)
      /\ HistoryGood(u.sr, u.pass)
      /\ FeatureOfContract(u.sr)
  BY DEF UpscalingGood
<1>2. /\ u.sr \in Runtimes /\ w.sr \in Runtimes /\ w.sr.extent \in Extents
      /\ u.ini \in SavedSelections
      /\ u.pass \in UpscalingPasses
  BY <1>1, WorldParts, RuntimesParts
<1>3. /\ c.provider \in Providers /\ c.mode \in Modes
      /\ c.provider = u.sr.provider /\ c.mode = u.sr.mode
  BY <1>2, ContractFacts, SelectionParts
<1>4. /\ back.ok \in BOOLEAN
      /\ back.sr \in Runtimes
      /\ back.sr.context = w.sr.context
      /\ back.sr.history = w.sr.history
      /\ back.ok => /\ back.sr.provider = c.provider
                    /\ back.sr.mode = c.mode
                    /\ back.sr.extent = w.sr.extent
                    /\ FeatureOfContract(back.sr)
      /\ ~back.ok => back.sr = w.sr /\ c.provider = "nvidia"
  <2> HIDE DEF c, j, v
  <2>1. Committed(w.sr, c.provider, c.mode, w.sr.extent, back)
    BY <1>2, <1>3, CommitLemma
  <2> HIDE DEF back
  <2> QED BY <2>1 DEF Committed
<1>5. RolledBack(w, c, u.ini) = v
  BY DEF RolledBack
<1>6. j \in SavedSelections /\ (~back.ok => j.fault) /\ (back.ok => j = u.ini)
  BY <1>2, <1>4, FaultyFacts
<1> HIDE DEF back, j, c
<1>7. v \in SelectionWorlds
  BY <1>4, <1>6 DEF SelectionWorlds
<1>8. v.sr = back.sr
  BY DEF SelectionWorlds
<1>9. v.ini = j
  BY DEF SelectionWorlds
<1>10. v.pass = u.pass
  BY DEF SelectionWorlds
<1>11. v.recovery = u.recovery
  BY DEF SelectionWorlds
<1> HIDE DEF v
<1>12. CASE back.ok
  <2>1. Contract(back.sr) = Contract(u.sr) /\ back.sr.provider = u.sr.provider
    BY <1>3, <1>4, <1>12 DEF Contract
  <2>2. SelectionGood(v)
    BY <1>1, <1>6, <1>8, <1>9, <1>10, <1>11, <1>12, <2>1 DEF SelectionGood
  <2>3. ContextOfContract(u.sr) => ContextOfContract(back.sr)
    BY <1>3, <1>4, <1>12 DEF ContextOfContract
  <2>4. HistoryGood(back.sr, u.pass)
    BY <1>1, <1>4, <2>3 DEF HistoryGood
  <2>5. FeatureOfContract(v.sr)
    BY <1>4, <1>8, <1>12
  <2>6. UpscalingGood(v)
    BY <1>7, <1>8, <1>10, <2>2, <2>4, <2>5 DEF UpscalingGood
  <2> QED BY <1>5, <2>6 DEF c
<1>13. CASE ~back.ok
  <2>1. SelectionGood(v)
    BY <1>6, <1>9, <1>13 DEF SelectionGood
  <2>2. v.pass.active # "amd"
    BY <1>1, <1>3, <1>4, <1>10, <1>13 DEF SelectionGood
  <2>3. HistoryGood(v.sr, v.pass)
    BY <1>1, <1>4, <1>8, <1>10, <2>2 DEF HistoryGood
  <2>4. FeatureOfContract(v.sr)
    BY <1>4, <1>8, <1>13
  <2>5. UpscalingGood(v)
    BY <1>7, <2>1, <2>3, <2>4 DEF UpscalingGood
  <2> QED BY <1>5, <2>5 DEF c
<1> QED BY <1>4, <1>12, <1>13

LEMMA SwitchLemma ==
  ASSUME NEW w, UpscalingGood(w), ~w.ini.fault, NEW new \in Selections,
         new.provider # w.sr.provider, NEW v \in SwitchOutcomes(w, new)
  PROVE  UpscalingGood(v)
<1> DEFINE old == Contract(w.sr)
           x == w.sr.extent
           Saved(u) ==
            {IF i.ok THEN Switched(u, old, i.ini) ELSE RolledBack(u, old, i.ini)
               : i \in CommitSelectionOutcomes(u.ini, new)}
<1>1. w \in SelectionWorlds /\ FeatureOfContract(w.sr) /\ SelectionGood(w)
  BY DEF UpscalingGood
<1>2. /\ w.sr \in Runtimes /\ w.ini \in SavedSelections
      /\ x \in Extents /\ w.sr.provider \in Providers
  BY <1>1, WorldParts, RuntimesParts
<1>3. new.provider \in Providers /\ new.mode \in Modes
  BY SelectionParts
<1>4. old \in Selections /\ old.provider = w.sr.provider
  BY <1>2, ContractFacts
<1>5. CASE x # screen
  <2>1. v = w
    BY <1>5 DEF SwitchOutcomes, StagedSelection
  <2> QED BY <2>1
<1>6. CASE x = screen
  <2>1. PICK q \in PrepareAtExtentOutcomes(w.sr, new.provider, new.mode, x) :
          v \in IF ~q.ok THEN StagedSelection([w EXCEPT !.sr = q.sr])
                ELSE LET c == CommitContract(q.sr, new.provider, new.mode, x)
                         u == [w EXCEPT !.sr = c.sr]
                     IN  IF c.ok THEN Saved(u) ELSE {u}
    BY <1>6 DEF SwitchOutcomes
  <2>2. /\ OnlyPrepared(w.sr, q.sr)
        /\ q.ok \in BOOLEAN
        /\ new.provider # "nvidia" => q.sr = w.sr
        /\ new.provider = "nvidia" /\ q.ok =>
               q.sr.feature = [mode |-> new.mode, extent |-> x]
    BY <1>2, <1>3, <2>1, PrepareAtLemma
  <2>3. q.sr \in Runtimes /\ SameContract(w.sr, q.sr)
    BY <2>2 DEF OnlyPrepared
  <2>4. FeatureOfContract(q.sr)
    BY <1>1, <2>2, <2>3 DEF FeatureOfContract, SameContract
  <2>5. UpscalingGood([w EXCEPT !.sr = q.sr])
    BY <2>2, <2>4, PreparedGood
  <2>6. CASE ~q.ok
    <3>1. v = [w EXCEPT !.sr = q.sr]
      BY <2>1, <2>6 DEF StagedSelection
    <3> QED BY <2>5, <3>1
  <2>7. CASE q.ok
    <3> DEFINE c == CommitContract(q.sr, new.provider, new.mode, x)
               u == [w EXCEPT !.sr = c.sr]
    <3>1. Committed(q.sr, new.provider, new.mode, x, c)
      BY <1>2, <1>3, <2>3, CommitLemma
    <3>2. /\ c.ok \in BOOLEAN
          /\ c.sr \in Runtimes
          /\ c.sr.context = q.sr.context
          /\ c.sr.history = q.sr.history
          /\ c.ok => /\ c.sr.provider = new.provider
                     /\ c.sr.mode = new.mode
                     /\ c.sr.extent = x
                     /\ FeatureOfContract(c.sr)
          /\ ~c.ok => /\ new.provider = "nvidia"
                      /\ q.sr.feature # [mode |-> new.mode, extent |-> x]
      BY <3>1 DEF Committed
    <3>3. c.ok
      BY <2>2, <2>7, <3>2
    <3>4. v \in Saved(u)
      BY <2>1, <2>7, <3>3
    <3> HIDE DEF c
    <3>5. /\ u \in SelectionWorlds
          /\ u.sr = c.sr
          /\ u.pass = w.pass
          /\ u.recovery = w.recovery
          /\ u.ini = w.ini
      BY <1>1, <3>2, WithSr
    <3> HIDE DEF u
    <3>6. PICK i \in CommitSelectionOutcomes(u.ini, new) :
            v = IF i.ok THEN Switched(u, old, i.ini)
                ELSE RolledBack(u, old, i.ini)
      BY <3>4
    <3>7. /\ i.ini \in SavedSelections
          /\ i.ok \in BOOLEAN
          /\ i.ok => i.ini.saved = new
          /\ ~i.ok => i.ini = w.ini
      BY <1>2, <3>5, <3>6, CommitSelectionLemma
    <3>8. CASE i.ok
      <4>1. v = Switched(u, old, i.ini)
        BY <3>6, <3>8
      <4>2. i.ini.saved = Contract(u.sr)
        BY <3>2, <3>3, <3>5, <3>7, <3>8, SelectionParts DEF Contract
      <4>3. old.provider # u.sr.provider /\ FeatureOfContract(u.sr)
        BY <1>4, <3>2, <3>3, <3>5
      <4> HIDE DEF old
      <4> QED BY <1>4, <3>5, <3>7, <4>1, <4>2, <4>3, SwitchedLemma
    <3>9. CASE ~i.ok
      <4>1. v = RolledBack(u, old, w.ini)
        BY <3>6, <3>7, <3>9
      <4>2. UpscalingGood([w EXCEPT !.sr = q.sr])
        BY <2>5
      <4> DEFINE z == [w EXCEPT !.sr = q.sr]
      <4>3. /\ z.sr = q.sr /\ z.pass = w.pass /\ z.recovery = w.recovery
            /\ z.ini = w.ini
        BY <1>1, <2>3, WithSr
      <4>4. Contract(z.sr) = old /\ z.sr.extent = x /\ z.sr.provider = w.sr.provider
        BY <2>3, <4>3 DEF SameContract, Contract
      <4> HIDE DEF z, old
      <4>5. UpscalingGood(z)
        BY <4>2 DEF z
      <4>6. /\ ~z.ini.fault
            /\ u.pass = z.pass /\ u.recovery = z.recovery
            /\ u.sr.context = z.sr.context /\ u.sr.history = z.sr.history
            /\ u.sr.extent = z.sr.extent /\ FeatureOfContract(u.sr)
            /\ u.sr.provider # z.sr.provider
        BY <3>2, <3>3, <3>5, <4>3, <4>4
      <4>7. UpscalingGood(RolledBack(u, Contract(z.sr), z.ini))
        BY <3>5, <4>5, <4>6, RolledBackLemma
      <4> QED BY <4>1, <4>3, <4>4, <4>7
    <3> QED BY <3>7, <3>8, <3>9
  <2> QED BY <2>2, <2>6, <2>7
<1> QED BY <1>5, <1>6
LEMMA RestoredGood ==
  ASSUME NEW w \in SelectionWorlds, FeatureOfContract(w.sr),
         HistoryGood(w.sr, w.pass),
         w.pass.active \in {"none", w.sr.provider},
         w.recovery.armed => w.recovery.provider # w.sr.provider,
         NEW v \in Restored(w, Contract(w.sr))
  PROVE  UpscalingGood(v)
<1>1. Contract(w.sr) \in Selections
  BY WorldParts, ContractFacts
<1>2. /\ v \in SelectionWorlds
      /\ v.sr = w.sr
      /\ v.pass = w.pass
      /\ v.recovery = w.recovery
      /\ ~v.ini.fault => v.ini.saved = Contract(w.sr)
  BY <1>1, RestoredLemma
<1> QED BY <1>2 DEF UpscalingGood, SelectionGood

LEMMA ApplyProviderLemma ==
  ASSUME NEW w, UpscalingGood(w), ~w.ini.fault, NEW new \in Selections,
         new.provider # w.sr.provider, NEW v \in ApplyProviderOutcomes(w, new)
  PROVE  UpscalingGood(v)
<1>1. /\ w \in SelectionWorlds
      /\ FeatureOfContract(w.sr)
      /\ HistoryGood(w.sr, w.pass)
      /\ w.ini.saved = Contract(w.sr)
      /\ w.pass.active \in {"none", w.sr.provider}
      /\ w.recovery.armed => w.recovery.provider # w.sr.provider
  BY DEF UpscalingGood, SelectionGood
<1>2. v = w \/ v \in Restored(w, w.ini.saved) \/ v \in SwitchOutcomes(w, new)
  BY DEF ApplyProviderOutcomes
<1>3. CASE v \in Restored(w, w.ini.saved)
  <2>1. v \in Restored(w, Contract(w.sr))
    BY <1>1, <1>3
  <2> QED BY <1>1, <2>1, RestoredGood
<1> QED BY <1>2, <1>3, SwitchLemma

LEMMA ProfileChangeLemma ==
  ASSUME NEW w, UpscalingGood(w), ~w.ini.fault, NEW new \in Selections,
         new.provider = w.sr.provider, NEW v \in ProfileChangeOutcomes(w, new)
  PROVE  UpscalingGood(v)
<1> DEFINE old == w.ini.saved
           KeptAs(i) ==
            IF new.mode = w.sr.mode THEN {[w EXCEPT !.ini = i]}
            ELSE UNION {LET u == [w EXCEPT !.sr = r.sr, !.ini = i,
                                           !.pass = ResetHistory(@)]
                        IN  IF r.ok THEN {u} ELSE Restored(u, old)
                          : r \in ReconfigureOutcomes(w.sr, new.mode)}
<1>1. /\ w \in SelectionWorlds
      /\ FeatureOfContract(w.sr)
      /\ HistoryGood(w.sr, w.pass)
      /\ w.ini.saved = Contract(w.sr)
      /\ w.pass.active \in {"none", w.sr.provider}
      /\ w.recovery.armed => w.recovery.provider # w.sr.provider
  BY DEF UpscalingGood, SelectionGood
<1>2. /\ w.sr \in Runtimes /\ w.ini \in SavedSelections
      /\ w.pass \in UpscalingPasses /\ old \in Selections
  BY <1>1, WorldParts
<1>3. /\ new.provider \in Providers /\ new.mode \in Modes
      /\ new = [provider |-> new.provider, mode |-> new.mode]
  BY SelectionParts
<1>4. PICK i \in PersistOutcomes(w.ini, new) :
        \/ v \in Restored(w, old)
        \/ v \in IF i.ok THEN KeptAs(i.ini)
                 ELSE Restored([w EXCEPT !.ini = i.ini], old)
  <2>1. Written(w.ini, new) \in PersistOutcomes(w.ini, new)
    BY DEF PersistOutcomes
  <2> QED BY <2>1 DEF ProfileChangeOutcomes
<1>5. /\ i.ini \in SavedSelections
      /\ i.ini.fault = w.ini.fault
      /\ i.ok \in BOOLEAN
      /\ i.ok => i.ini.saved = new
  BY <1>2, <1>4, PersistLemma
<1>6. CASE v \in Restored(w, old)
  <2>1. v \in Restored(w, Contract(w.sr))
    BY <1>1, <1>6
  <2> QED BY <1>1, <2>1, RestoredGood
<1> DEFINE k == [w EXCEPT !.ini = i.ini]
<1>7. k \in SelectionWorlds /\ k.sr = w.sr /\ k.pass = w.pass
      /\ k.recovery = w.recovery /\ k.ini = i.ini
  BY <1>1, <1>5, WithIni
<1>8. CASE ~i.ok /\ v \in Restored(k, old)
  <2> HIDE DEF k
  <2>1. v \in Restored(k, Contract(k.sr))
    BY <1>1, <1>7, <1>8
  <2>2. /\ FeatureOfContract(k.sr)
        /\ HistoryGood(k.sr, k.pass)
        /\ k.pass.active \in {"none", k.sr.provider}
        /\ k.recovery.armed => k.recovery.provider # k.sr.provider
    BY <1>1, <1>7
  <2> QED BY <1>7, <2>1, <2>2, RestoredGood
<1>9. CASE i.ok /\ v \in KeptAs(i.ini)
  <2>1. CASE new.mode = w.sr.mode
    <3>1. v = k
      BY <1>9, <2>1
    <3> HIDE DEF k
    <3>2. new = Contract(w.sr)
      BY <1>3, <2>1 DEF Contract
    <3>3. SelectionGood(k)
      BY <1>1, <1>5, <1>7, <1>9, <3>2 DEF SelectionGood
    <3>4. UpscalingGood(k)
      BY <1>1, <1>7, <3>3 DEF UpscalingGood
    <3> QED BY <3>1, <3>4
  <2>2. CASE new.mode # w.sr.mode
    <3>1. PICK r \in ReconfigureOutcomes(w.sr, new.mode) :
            v \in LET u == [w EXCEPT !.sr = r.sr, !.ini = i.ini,
                                     !.pass = ResetHistory(@)]
                  IN  IF r.ok THEN {u} ELSE Restored(u, old)
      BY <1>9, <2>2
    <3>2. /\ r.sr \in Runtimes
          /\ FeatureOfContract(r.sr)
          /\ r.ok \in BOOLEAN
          /\ r.ok => Contract(r.sr) = [provider |-> w.sr.provider, mode |-> new.mode]
          /\ ~r.ok => Contract(r.sr) = Contract(w.sr)
      BY <1>1, <1>2, <1>3, <3>1, ReconfigureLemma
    <3> DEFINE p == ResetHistory(w.pass)
               u == [w EXCEPT !.sr = r.sr, !.ini = i.ini, !.pass = p]
    <3>3. p \in UpscalingPasses /\ p.reset /\ p.active = w.pass.active
      BY <1>2, ResetHistoryFacts
    <3>4. v \in IF r.ok THEN {u} ELSE Restored(u, old)
      BY <1>1, <3>1 DEF SelectionWorlds
    <3> HIDE DEF p
    <3>5. u \in SelectionWorlds
      BY <1>1, <1>5, <3>2, <3>3 DEF SelectionWorlds
    <3>6. u.sr = r.sr
      BY <1>1 DEF SelectionWorlds
    <3>7. u.pass = p
      BY <1>1 DEF SelectionWorlds
    <3>8. u.recovery = w.recovery
      BY <1>1 DEF SelectionWorlds
    <3>9. u.ini = i.ini
      BY <1>1 DEF SelectionWorlds
    <3> HIDE DEF u
    <3>10. r.sr.provider = w.sr.provider
      BY <1>2, <3>2, ContractFacts
    <3>11. HistoryGood(u.sr, u.pass)
      BY <3>3, <3>7, ResetIsGood
    <3>12. /\ FeatureOfContract(u.sr)
           /\ u.pass.active \in {"none", u.sr.provider}
           /\ u.recovery.armed => u.recovery.provider # u.sr.provider
      BY <1>1, <3>2, <3>3, <3>6, <3>7, <3>8, <3>10
    <3>13. CASE r.ok
      <4>1. v = u /\ u.ini.saved = Contract(u.sr)
        BY <1>3, <1>5, <1>9, <3>2, <3>4, <3>6, <3>9, <3>13
      <4> QED BY <3>5, <3>11, <3>12, <4>1 DEF UpscalingGood, SelectionGood
    <3>14. CASE ~r.ok
      <4>1. v \in Restored(u, Contract(u.sr))
        BY <1>1, <3>2, <3>4, <3>6, <3>14
      <4> QED BY <3>5, <3>11, <3>12, <4>1, RestoredGood
    <3> QED BY <3>2, <3>13, <3>14
  <2> QED BY <2>1, <2>2
<1> QED BY <1>4, <1>5, <1>6, <1>8, <1>9

LEMMA ApplyModeLemma ==
  ASSUME NEW w, UpscalingGood(w), ~w.ini.fault, NEW new \in Selections,
         new.provider = w.sr.provider, NEW v \in ApplyModeOutcomes(w, new)
  PROVE  UpscalingGood(v)
<1>1. v = w \/ v \in ProfileChangeOutcomes(w, new)
  BY DEF ApplyModeOutcomes, StagedSelection
<1> QED BY <1>1, ProfileChangeLemma

-----------------------------------------------------------------------------
\* A recovery that is over.
LEMMA Recovered ==
  ASSUME NEW w, UpscalingGood(w)
  PROVE  UpscalingGood([w EXCEPT !.recovery = NoRecovery])
<1> DEFINE v == [w EXCEPT !.recovery = NoRecovery]
<1>1. w \in SelectionWorlds
  BY DEF UpscalingGood
<1>2. v \in SelectionWorlds
  BY <1>1 DEF SelectionWorlds, Recoveries
<1>3. v.sr = w.sr
  BY <1>1 DEF SelectionWorlds
<1>4. v.pass = w.pass
  BY <1>1 DEF SelectionWorlds
<1>5. v.ini = w.ini
  BY <1>1 DEF SelectionWorlds
<1>6. v.recovery.armed = FALSE
  BY <1>1 DEF SelectionWorlds, NoRecovery
<1> HIDE DEF v
<1>7. UpscalingGood(v)
  BY <1>2, <1>3, <1>4, <1>5, <1>6 DEF UpscalingGood, SelectionGood
<1> QED BY <1>7 DEF v

LEMMA CountedDown ==
  ASSUME NEW w, UpscalingGood(w), w.recovery.armed, w.recovery.left # 0
  PROVE  UpscalingGood([w EXCEPT !.recovery.left = @ - 1])
<1> DEFINE r == [w.recovery EXCEPT !.left = @ - 1]
           v == [w EXCEPT !.recovery = r]
<1>1. w \in SelectionWorlds
  BY DEF UpscalingGood
<1>2. w.recovery \in [armed : {TRUE}, provider : Providers, mode : Modes,
                      extent : Extents, left : 0..Budget]
  <2>1. w.recovery \in Recoveries
    BY <1>1, WorldParts
  <2>2. NoRecovery.armed = FALSE
    BY DEF NoRecovery
  <2> QED BY <2>1, <2>2 DEF Recoveries
<1>3. r \in Recoveries /\ r.provider = w.recovery.provider /\ r.armed = w.recovery.armed
  <2>1. w.recovery.left - 1 \in 0..Budget
    <3>1. PICK n : n = w.recovery.left
      OBVIOUS
    <3>2. n \in 0..Budget /\ n # 0
      BY <1>2, <3>1
    <3> QED BY <3>1, <3>2, BudgetAssumption
  <2>2. r \in [armed : {TRUE}, provider : Providers, mode : Modes,
               extent : Extents, left : 0..Budget]
    BY <1>2, <2>1
  <2>3. r.provider = w.recovery.provider
    BY <1>2
  <2>4. r.armed = w.recovery.armed
    BY <1>2
  <2> QED BY <2>2, <2>3, <2>4 DEF Recoveries
<1>4. [w EXCEPT !.recovery.left = @ - 1] = v
  BY <1>1 DEF SelectionWorlds
<1> HIDE DEF r
<1>5. v \in SelectionWorlds
  BY <1>1, <1>3 DEF SelectionWorlds
<1>6. v.sr = w.sr
  BY <1>1 DEF SelectionWorlds
<1>7. v.pass = w.pass
  BY <1>1 DEF SelectionWorlds
<1>8. v.ini = w.ini
  BY <1>1 DEF SelectionWorlds
<1>9. v.recovery = r
  BY <1>1 DEF SelectionWorlds
<1> HIDE DEF v
<1>10. UpscalingGood(v)
  BY <1>3, <1>5, <1>6, <1>7, <1>8, <1>9 DEF UpscalingGood, SelectionGood
<1> QED BY <1>4, <1>10

\* The incumbent is committed, the pass has not heard of it yet.
LEMMA IncumbentLemma ==
  ASSUME NEW w \in SelectionWorlds, NEW r \in Recoveries,
         r.provider \in Providers, r.mode \in Modes,
         FeatureOfContract(w.sr), w.pass.reset, ~w.recovery.armed,
         Contract(w.sr) = [provider |-> r.provider, mode |-> r.mode],
         NEW v \in IncumbentOutcomes(w, r)
  PROVE  UpscalingGood(v)
<1> DEFINE old == [provider |-> r.provider, mode |-> r.mode]
           Told(u) == [u EXCEPT !.pass.active = r.provider, !.pass.reset = TRUE]
<1>1. old \in Selections /\ w.sr.provider = r.provider
  BY WorldParts, ContractFacts DEF Selections
<1>2. PICK i \in CommitSelectionOutcomes(w.ini, old) :
        v = IF i.ok THEN Told([w EXCEPT !.ini = i.ini])
            ELSE [w EXCEPT !.ini = Faulty(i.ini)]
  BY DEF IncumbentOutcomes
<1>3. /\ i.ini \in SavedSelections
      /\ i.ok \in BOOLEAN
      /\ i.ok => i.ini.saved = old
  <2> HIDE DEF old
  <2> QED BY <1>1, <1>2, WorldParts, CommitSelectionLemma
<1>4. CASE i.ok
  <2> DEFINE u == [w EXCEPT !.ini = i.ini]
             p == [w.pass EXCEPT !.active = r.provider, !.reset = TRUE]
             t == [u EXCEPT !.pass = p]
  <2>1. u \in SelectionWorlds /\ u.sr = w.sr /\ u.pass = w.pass
        /\ u.recovery = w.recovery /\ u.ini = i.ini
    BY <1>3, WithIni
  <2>2. p \in UpscalingPasses /\ p.active = r.provider /\ p.reset
    BY WorldParts DEF UpscalingPasses
  <2>3. v = Told(u)
    BY <1>2, <1>4
  <2> HIDE DEF u
  <2>4. v = t
    BY <2>1, <2>3 DEF SelectionWorlds, UpscalingPasses
  <2> HIDE DEF p
  <2>5. t \in SelectionWorlds
    BY <2>1, <2>2 DEF SelectionWorlds
  <2>6. t.sr = w.sr
    BY <2>1 DEF SelectionWorlds
  <2>7. t.pass = p
    BY <2>1 DEF SelectionWorlds
  <2>8. t.recovery = w.recovery
    BY <2>1 DEF SelectionWorlds
  <2>9. t.ini = i.ini
    BY <2>1 DEF SelectionWorlds
  <2> HIDE DEF t
  <2>10. SelectionGood(t)
    BY <1>1, <1>3, <1>4, <2>2, <2>6, <2>7, <2>8, <2>9 DEF SelectionGood
  <2>11. HistoryGood(t.sr, t.pass)
    BY <2>2, <2>7, ResetIsGood
  <2> QED BY <2>4, <2>5, <2>6, <2>10, <2>11 DEF UpscalingGood
<1>5. CASE ~i.ok
  <2>1. Faulty(i.ini) \in SavedSelections /\ Faulty(i.ini).fault
    BY <1>3, FaultyFacts
  <2>2. v = [w EXCEPT !.ini = Faulty(i.ini)]
    BY <1>2, <1>5
  <2>3. v \in SelectionWorlds /\ v.sr = w.sr /\ v.pass = w.pass
        /\ v.ini = Faulty(i.ini)
    BY <2>1, <2>2, WithIni
  <2>4. HistoryGood(v.sr, v.pass)
    BY <2>3, ResetIsGood
  <2> QED BY <2>1, <2>3, <2>4 DEF UpscalingGood, SelectionGood
<1> QED BY <1>3, <1>4, <1>5

LEMMA RestoreIncumbentLemma ==
  ASSUME NEW w, UpscalingGood(w), ~w.ini.fault, ~w.pass.verified,
         w.recovery.armed, NEW v \in RestoreIncumbentOutcomes(w, w.recovery)
  PROVE  UpscalingGood(v)
<1> DEFINE r == w.recovery
<1>1. /\ w \in SelectionWorlds
      /\ FeatureOfContract(w.sr)
      /\ HistoryGood(w.sr, w.pass)
      /\ r.provider # w.sr.provider
  BY DEF UpscalingGood, SelectionGood
<1>2. /\ w.sr \in Runtimes /\ w.pass \in UpscalingPasses /\ r \in Recoveries
      /\ w.pass.reset
  BY <1>1, WorldParts, PassParts DEF HistoryGood
<1>3. r.provider \in Providers /\ r.mode \in Modes /\ r.extent \in Extents
  <2>1. NoRecovery.armed = FALSE
    BY DEF NoRecovery
  <2> QED BY <1>2, <2>1 DEF Recoveries
<1>4. PICK q \in PrepareOutcomes(w.sr, r.provider, r.mode) :
        v \in LET c == IF q.extent # r.extent THEN No(q.sr)
                       ELSE CommitContract(q.sr, r.provider, r.mode, r.extent)
                  u == [w EXCEPT !.sr = c.sr, !.recovery = NoRecovery]
              IN  IF c.ok THEN IncumbentOutcomes(u, r) ELSE {u}
  BY DEF RestoreIncumbentOutcomes
<1>5. /\ OnlyPrepared(w.sr, q.sr)
      /\ r.provider # "nvidia" => q.sr = w.sr
  <2> HIDE DEF r
  <2>1. q \in PrepareOutcomes(w.sr, r.provider, r.mode)
    BY <1>4
  <2>2. PreparedFor(w.sr, r.provider, r.mode, q)
    BY <1>2, <1>3, <2>1, PrepareLemma
  <2> QED BY <2>2 DEF PreparedFor
<1>6. q.sr \in Runtimes /\ SameContract(w.sr, q.sr)
  BY <1>5 DEF OnlyPrepared
<1>7. FeatureOfContract(q.sr)
  BY <1>1, <1>5, <1>6 DEF FeatureOfContract, SameContract
<1> DEFINE c == IF q.extent # r.extent THEN No(q.sr)
                ELSE CommitContract(q.sr, r.provider, r.mode, r.extent)
           u == [w EXCEPT !.sr = c.sr, !.recovery = NoRecovery]
<1>8. /\ c.ok \in BOOLEAN
      /\ c.sr \in Runtimes
      /\ FeatureOfContract(c.sr)
      /\ c.ok => Contract(c.sr) = [provider |-> r.provider, mode |-> r.mode]
      /\ ~c.ok => c.sr = q.sr
  <2>1. CASE q.extent # r.extent
    <3>1. c.sr = q.sr /\ c.ok = FALSE
      BY <2>1, NoFacts
    <3> HIDE DEF c
    <3> QED BY <1>6, <1>7, <3>1
  <2>2. CASE q.extent = r.extent
    <3>1. c = CommitContract(q.sr, r.provider, r.mode, r.extent)
      BY <2>2
    <3> HIDE DEF c, r
    <3>2. Committed(q.sr, r.provider, r.mode, r.extent, c)
      BY <1>3, <1>6, <3>1, CommitLemma
    <3>3. /\ c.ok \in BOOLEAN
          /\ c.sr \in Runtimes
          /\ c.ok => /\ c.sr.provider = r.provider
                     /\ c.sr.mode = r.mode
                     /\ FeatureOfContract(c.sr)
          /\ ~c.ok => c.sr = q.sr
      BY <3>2 DEF Committed
    <3> QED BY <1>7, <3>3 DEF Contract
  <2> QED BY <2>1, <2>2
<1>9. v \in IF c.ok THEN IncumbentOutcomes(u, r) ELSE {u}
  BY <1>4
<1> HIDE DEF c
<1>10. NoRecovery \in Recoveries /\ NoRecovery.armed = FALSE
  BY DEF NoRecovery, Recoveries
<1>11. u \in SelectionWorlds
  BY <1>1, <1>8, <1>10 DEF SelectionWorlds
<1>12. u.sr = c.sr
  BY <1>1 DEF SelectionWorlds
<1>13. u.pass = w.pass
  BY <1>1 DEF SelectionWorlds
<1>14. u.recovery = NoRecovery
  BY <1>1 DEF SelectionWorlds
<1>15. u.ini = w.ini
  BY <1>1 DEF SelectionWorlds
<1> HIDE DEF u
<1>16. CASE c.ok
  <2>1. v \in IncumbentOutcomes(u, r)
    BY <1>9, <1>16
  <2>2. /\ FeatureOfContract(u.sr) /\ u.pass.reset /\ ~u.recovery.armed
        /\ Contract(u.sr) = [provider |-> r.provider, mode |-> r.mode]
    BY <1>2, <1>8, <1>10, <1>12, <1>13, <1>14, <1>16
  <2> HIDE DEF r
  <2> QED BY <1>2, <1>3, <1>11, <2>1, <2>2, IncumbentLemma
<1>17. CASE ~c.ok
  <2>1. v = u /\ u.sr = q.sr
    BY <1>8, <1>9, <1>12, <1>17
  <2>2. Contract(q.sr) = Contract(w.sr) /\ q.sr.provider = w.sr.provider
    BY <1>6 DEF SameContract, Contract
  <2>3. SelectionGood(u)
    BY <1>10, <1>13, <1>14, <1>15, <2>1, <2>2 DEF UpscalingGood, SelectionGood
  <2>4. HistoryGood(u.sr, u.pass)
    BY <1>2, <1>13, ResetIsGood
  <2> QED BY <1>7, <1>11, <2>1, <2>3, <2>4 DEF UpscalingGood
<1> QED BY <1>8, <1>16, <1>17

LEMMA NoteRecoveryLemma ==
  ASSUME NEW w, UpscalingGood(w), ~w.ini.fault,
         NEW v \in NoteRecoveryOutcomes(w)
  PROVE  UpscalingGood(v)
<1>1. CASE ~w.recovery.armed
  BY <1>1 DEF NoteRecoveryOutcomes
<1>2. CASE w.recovery.armed /\ w.pass.verified
  BY <1>2, Recovered DEF NoteRecoveryOutcomes
<1>3. CASE w.recovery.armed /\ ~w.pass.verified /\ w.recovery.left # 0
  BY <1>3, CountedDown DEF NoteRecoveryOutcomes
<1>4. CASE w.recovery.armed /\ ~w.pass.verified /\ w.recovery.left = 0
  <2>1. v \in RestoreIncumbentOutcomes(w, w.recovery)
    BY <1>4 DEF NoteRecoveryOutcomes
  <2> QED BY <1>4, <2>1, RestoreIncumbentLemma
<1> QED BY <1>1, <1>2, <1>3, <1>4
-----------------------------------------------------------------------------
(***************************************************************************)
(* A frame.  Neither the contract nor the DLSS feature is touched by one.  *)
(***************************************************************************)
FrameKept(rt, t) ==
    t \in Runtimes /\ SameContract(rt, t) /\ t.feature = rt.feature

\* c is what the configuration of an FSR or XeSS context returns.
ConfigureEffect(rt, v, c) ==
    /\ c.ok \in BOOLEAN
    /\ FrameKept(rt, c.sr)
    /\ \A q \in Providers \ {v} : c.sr.history[q] = rt.history[q]
    /\ c.sr.history[v] = "stale" =>
           rt.history[v] = "stale" \/ (v = "amd" /\ ~ContextOfContract(rt))
    /\ v = "amd" => ContextOfContract(c.sr)

\* e is what an evaluation by p returns.
EvaluateEffect(rt, p, e) ==
    /\ e.ok \in BOOLEAN
    /\ FrameKept(rt, e.sr)
    /\ ContextOfContract(rt) => ContextOfContract(e.sr)
    /\ e.ok => e.sr.history[p] = "kept"
    /\ ~e.ok => e.sr.history = rt.history
    /\ \A q \in Providers \ {p} :
           rt.history[q] = "stale" => e.sr.history[q] # "kept"

LEMMA WithContextFacts ==
  ASSUME NEW rt \in Runtimes, NEW v \in Vendors, NEW c \in SrContexts
  PROVE  LET t == WithContext(rt, v, c)
         IN  /\ FrameKept(rt, t)
             /\ t.context[v] = c
             /\ t.history[v] = "none"
             /\ \A q \in Providers \ {v} : t.history[q] = rt.history[q]
<1> DEFINE k == [rt.context EXCEPT ![v] = c]
           h == [rt.history EXCEPT ![v] = "none"]
           t == WithContext(rt, v, c)
<1>1. v \in Providers
  BY DEF Vendors
<1>2. k \in [Vendors -> SrContexts] /\ k[v] = c
  BY RuntimesParts
<1>3. /\ h \in SrHistories
      /\ h[v] = "none"
      /\ \A q \in Providers \ {v} : h[q] = rt.history[q]
  BY <1>1, RuntimesParts DEF SrHistories
<1>4. t = [rt EXCEPT !.context = k, !.history = h]
  BY DEF WithContext
<1> HIDE DEF k, h, t
<1>5. t \in Runtimes
  BY <1>2, <1>3, <1>4 DEF Runtimes, SrContexts, SrHistories
<1>6. t.provider = rt.provider
  BY <1>4 DEF Runtimes
<1>7. t.mode = rt.mode
  BY <1>4 DEF Runtimes
<1>8. t.extent = rt.extent
  BY <1>4 DEF Runtimes
<1>9. t.feature = rt.feature
  BY <1>4 DEF Runtimes
<1>10. t.context = k
  BY <1>4 DEF Runtimes
<1>11. t.history = h
  BY <1>4 DEF Runtimes
<1>12. FrameKept(rt, t)
  BY <1>5, <1>6, <1>7, <1>8, <1>9 DEF FrameKept, SameContract
<1>13. /\ FrameKept(rt, t)
       /\ t.context[v] = c
       /\ t.history[v] = "none"
       /\ \A q \in Providers \ {v} : t.history[q] = rt.history[q]
  BY <1>2, <1>3, <1>10, <1>11, <1>12
<1> QED BY <1>13 DEF t

LEMMA ResizedFacts ==
  ASSUME NEW rt \in Runtimes
  PROVE  LET t == Resized(rt, rt.mode, rt.extent)
         IN  /\ FrameKept(rt, t)
             /\ ContextOfContract(t)
             /\ \A q \in Providers \ {"amd"} : t.history[q] = rt.history[q]
<1> DEFINE k == [rt.context EXCEPT !["amd"].mode = rt.mode,
                                  !["amd"].extent = rt.extent,
                                  !["amd"].reset = TRUE]
           h == [rt.history EXCEPT !["amd"] = IF @ = "none" THEN @ ELSE "stale"]
           t == Resized(rt, rt.mode, rt.extent)
<1>1. "amd" \in Vendors /\ "amd" \in Providers
  BY DEF Vendors, Providers
<1>2. rt.context["amd"] \in SrContexts /\ rt.context \in [Vendors -> SrContexts]
  BY <1>1, RuntimesParts
<1>3. rt.mode \in Modes /\ rt.extent \in Extents
  BY RuntimesParts
<1>4. k \in [Vendors -> SrContexts]
  BY <1>1, <1>2, <1>3 DEF SrContexts
<1>5. k["amd"].mode = rt.mode
  BY <1>1, <1>2, <1>3 DEF SrContexts
<1>6. k["amd"].extent = rt.extent
  BY <1>1, <1>2, <1>3 DEF SrContexts
<1>7. h \in SrHistories /\ \A q \in Providers \ {"amd"} : h[q] = rt.history[q]
  BY <1>1, RuntimesParts DEF SrHistories
<1>8. t = [rt EXCEPT !.context = k, !.history = h]
  BY <1>1, <1>2, RuntimesParts DEF Resized, SrContexts, SrHistories
<1> HIDE DEF k, h, t
<1>9. t \in Runtimes
  BY <1>4, <1>7, <1>8 DEF Runtimes, SrContexts, SrHistories
<1>10. t.provider = rt.provider
  BY <1>8 DEF Runtimes
<1>11. t.mode = rt.mode
  BY <1>8 DEF Runtimes
<1>12. t.extent = rt.extent
  BY <1>8 DEF Runtimes
<1>13. t.feature = rt.feature
  BY <1>8 DEF Runtimes
<1>14. t.context = k
  BY <1>8 DEF Runtimes
<1>15. t.history = h
  BY <1>8 DEF Runtimes
<1>16. FrameKept(rt, t)
  BY <1>9, <1>10, <1>11, <1>12, <1>13 DEF FrameKept, SameContract
<1>17. ContextOfContract(t)
  BY <1>5, <1>6, <1>11, <1>12, <1>14 DEF ContextOfContract
<1>18. /\ FrameKept(rt, t)
       /\ ContextOfContract(t)
       /\ \A q \in Providers \ {"amd"} : t.history[q] = rt.history[q]
  BY <1>7, <1>15, <1>16, <1>17
<1> QED BY <1>18 DEF t

LEMMA FrameKeptSame ==
  ASSUME NEW rt \in Runtimes
  PROVE  FrameKept(rt, rt)
BY DEF FrameKept, SameContract

LEMMA ConfigureLemma ==
  ASSUME NEW rt \in Runtimes, NEW v \in Vendors,
         NEW c \in ConfigureOutcomes(rt, v, rt.mode, rt.extent)
  PROVE  ConfigureEffect(rt, v, c)
<1> DEFINE new == [mode |-> rt.mode, extent |-> rt.extent, reset |-> FALSE]
<1>1. new \in SrContexts /\ NoContext \in SrContexts
  BY RuntimesParts DEF SrContexts, NoContext
<1>2. CASE c = Ok(WithContext(rt, v, new))
  <2> DEFINE t == WithContext(rt, v, new)
  <2>1. /\ FrameKept(rt, t)
        /\ t.context[v] = new
        /\ t.history[v] = "none"
        /\ \A q \in Providers \ {v} : t.history[q] = rt.history[q]
    BY <1>1, WithContextFacts
  <2>2. c.sr = t /\ c.ok = TRUE
    BY <1>2, OkFacts
  <2> HIDE DEF t
  <2>3. v = "amd" => ContextOfContract(t)
    BY <2>1 DEF ContextOfContract, FrameKept, SameContract
  <2> QED BY <2>1, <2>2, <2>3 DEF ConfigureEffect
<1>3. CASE c = No(WithContext(rt, v, NoContext))
  <2> DEFINE t == WithContext(rt, v, NoContext)
  <2>1. /\ FrameKept(rt, t)
        /\ t.context[v] = NoContext
        /\ t.history[v] = "none"
        /\ \A q \in Providers \ {v} : t.history[q] = rt.history[q]
    BY <1>1, WithContextFacts
  <2>2. c.sr = t /\ c.ok = FALSE
    BY <1>3, NoFacts
  <2> HIDE DEF t
  <2>3. v = "amd" => ContextOfContract(t)
    BY <2>1 DEF ContextOfContract
  <2> QED BY <2>1, <2>2, <2>3 DEF ConfigureEffect
<1>4. CASE c = Ok(rt) /\ rt.context[v].mode = rt.mode /\ rt.context[v].extent = rt.extent
  <2>1. c.sr = rt /\ c.ok = TRUE
    BY <1>4, OkFacts
  <2>2. v = "amd" => ContextOfContract(rt)
    BY <1>4 DEF ContextOfContract
  <2> QED BY <2>1, <2>2, FrameKeptSame DEF ConfigureEffect
<1>5. CASE /\ v = "amd" /\ c = Ok(Resized(rt, rt.mode, rt.extent))
           /\ rt.context[v] # NoContext
           /\ ~(rt.context[v].mode = rt.mode /\ rt.context[v].extent = rt.extent)
  <2> DEFINE t == Resized(rt, rt.mode, rt.extent)
  <2>1. /\ FrameKept(rt, t)
        /\ ContextOfContract(t)
        /\ \A q \in Providers \ {"amd"} : t.history[q] = rt.history[q]
    BY ResizedFacts
  <2>2. c.sr = t /\ c.ok = TRUE
    BY <1>5, OkFacts
  <2>3. ~ContextOfContract(rt)
    BY <1>5 DEF ContextOfContract
  <2> HIDE DEF t
  <2> QED BY <1>5, <2>1, <2>2, <2>3 DEF ConfigureEffect
<1>6. \/ c = Ok(WithContext(rt, v, new))
      \/ c = No(WithContext(rt, v, NoContext))
      \/ c = Ok(rt) /\ rt.context[v].mode = rt.mode /\ rt.context[v].extent = rt.extent
      \/ /\ v = "amd" /\ c = Ok(Resized(rt, rt.mode, rt.extent))
         /\ rt.context[v] # NoContext
         /\ ~(rt.context[v].mode = rt.mode /\ rt.context[v].extent = rt.extent)
  BY DEF ConfigureOutcomes, RebuildOutcomes
<1> HIDE DEF new
<1> QED BY <1>2, <1>3, <1>4, <1>5, <1>6

\* Contexts of the same fields are the same context.
LEMMA SameContexts ==
  ASSUME NEW c \in SrContexts, NEW d \in SrContexts,
         c.mode = d.mode, c.extent = d.extent, c.reset = d.reset
  PROVE  c = d
BY DEF SrContexts

LEMMA TakenFacts ==
  ASSUME NEW rt \in Runtimes, NEW v \in Vendors
  PROVE  LET t == Taken(rt, v)
         IN  /\ FrameKept(rt, t)
             /\ t.history = rt.history
             /\ ContextOfContract(rt) => ContextOfContract(t)
<1> DEFINE k == [rt.context EXCEPT ![v].reset = FALSE]
           t == Taken(rt, v)
<1>1. rt.context \in [Vendors -> SrContexts] /\ rt.context[v] \in SrContexts
  BY RuntimesParts
<1>2. k \in [Vendors -> SrContexts]
  BY <1>1 DEF SrContexts
<1>3. t = [rt EXCEPT !.context = k]
  BY <1>1 DEF Taken, SrContexts
<1>4. rt.context["amd"] = NoContext => k["amd"] = NoContext
  <2>1. CASE v = "amd"
    <3>1. k["amd"] = [rt.context["amd"] EXCEPT !.reset = FALSE]
      BY <1>1, <2>1
    <3> DEFINE c == [NoContext EXCEPT !.reset = FALSE]
    <3>2. NoContext \in SrContexts /\ NoContext.reset = FALSE
      BY DEF SrContexts, NoContext
    <3>3. c \in SrContexts
      BY <3>2 DEF SrContexts
    <3>4. c.mode = NoContext.mode
      BY <3>2 DEF SrContexts
    <3>5. c.extent = NoContext.extent
      BY <3>2 DEF SrContexts
    <3>6. c.reset = NoContext.reset
      BY <3>2 DEF SrContexts
    <3> HIDE DEF c
    <3>7. c = NoContext
      BY <3>2, <3>3, <3>4, <3>5, <3>6, SameContexts
    <3> QED BY <3>1, <3>7 DEF c
  <2>2. CASE v # "amd"
    BY <1>1, <2>2 DEF Vendors, Providers
  <2> QED BY <2>1, <2>2
<1>5. k["amd"].mode = rt.context["amd"].mode
  BY <1>1 DEF SrContexts, Vendors, Providers
<1>6. k["amd"].extent = rt.context["amd"].extent
  BY <1>1 DEF SrContexts, Vendors, Providers
<1> HIDE DEF k, t
<1>7. t \in Runtimes
  BY <1>2, <1>3 DEF Runtimes, SrContexts
<1>8. t.provider = rt.provider
  BY <1>3 DEF Runtimes
<1>9. t.mode = rt.mode
  BY <1>3 DEF Runtimes
<1>10. t.extent = rt.extent
  BY <1>3 DEF Runtimes
<1>11. t.feature = rt.feature
  BY <1>3 DEF Runtimes
<1>12. t.context = k
  BY <1>3 DEF Runtimes
<1>13. t.history = rt.history
  BY <1>3 DEF Runtimes
<1>14. FrameKept(rt, t)
  BY <1>7, <1>8, <1>9, <1>10, <1>11 DEF FrameKept, SameContract
<1>15. ContextOfContract(rt) => ContextOfContract(t)
  BY <1>4, <1>5, <1>6, <1>9, <1>10, <1>12 DEF ContextOfContract
<1>16. /\ FrameKept(rt, t)
       /\ t.history = rt.history
       /\ ContextOfContract(rt) => ContextOfContract(t)
  BY <1>13, <1>14, <1>15
<1> QED BY <1>16 DEF t

\* Whatever replaces the histories replaces nothing else.
LEMMA WithHistory ==
  ASSUME NEW rt \in Runtimes, NEW h \in SrHistories
  PROVE  LET t == [rt EXCEPT !.history = h]
         IN  /\ FrameKept(rt, t)
             /\ t.history = h
             /\ ContextOfContract(rt) => ContextOfContract(t)
<1> DEFINE t == [rt EXCEPT !.history = h]
<1>1. t \in Runtimes
  BY DEF Runtimes, SrHistories
<1>2. t.provider = rt.provider
  BY DEF Runtimes
<1>3. t.mode = rt.mode
  BY DEF Runtimes
<1>4. t.extent = rt.extent
  BY DEF Runtimes
<1>5. t.feature = rt.feature
  BY DEF Runtimes
<1>6. t.context = rt.context
  BY DEF Runtimes
<1>7. t.history = h
  BY DEF Runtimes
<1> HIDE DEF t
<1>8. /\ FrameKept(rt, t)
      /\ t.history = h
      /\ ContextOfContract(rt) => ContextOfContract(t)
  BY <1>1, <1>2, <1>3, <1>4, <1>5, <1>6, <1>7
     DEF FrameKept, SameContract, ContextOfContract
<1> QED BY <1>8 DEF t

LEMMA ResolvedFacts ==
  ASSUME NEW rt \in Runtimes, NEW p \in Providers
  PROVE  LET t == Resolved(rt, p)
         IN  /\ FrameKept(rt, t)
             /\ ContextOfContract(rt) => ContextOfContract(t)
             /\ t.history[p] = "kept"
             /\ \A q \in Providers \ {p} : t.history[q] # "kept"
<1> DEFINE h == [q \in Providers |-> IF q = p THEN "kept"
                                     ELSE IF rt.history[q] = "none" THEN "none"
                                     ELSE "stale"]
           t == Resolved(rt, p)
<1>1. /\ h \in SrHistories
      /\ h[p] = "kept"
      /\ \A q \in Providers \ {p} : h[q] # "kept"
  BY DEF SrHistories
<1>2. t = [rt EXCEPT !.history = h]
  BY DEF Resolved
<1> HIDE DEF h, t
<1>3. /\ FrameKept(rt, t)
      /\ t.history = h
      /\ ContextOfContract(rt) => ContextOfContract(t)
  BY <1>1, <1>2, WithHistory
<1> QED BY <1>1, <1>3 DEF t

LEMMA EvaluateLemma ==
  ASSUME NEW rt \in Runtimes, NEW p \in Providers,
         NEW e \in EvaluateOutcomes(rt, p)
  PROVE  EvaluateEffect(rt, p, e)
<1>1. CASE e = No(rt)
  <2>1. e.sr = rt /\ e.ok = FALSE
    BY <1>1, NoFacts
  <2> QED BY <2>1, FrameKeptSame DEF EvaluateEffect
<1>2. CASE e = Ok(Resolved(rt, p))
  <2>1. e.sr = Resolved(rt, p) /\ e.ok = TRUE
    BY <1>2, OkFacts
  <2>2. /\ FrameKept(rt, e.sr)
        /\ ContextOfContract(rt) => ContextOfContract(e.sr)
        /\ e.sr.history[p] = "kept"
        /\ \A q \in Providers \ {p} : e.sr.history[q] # "kept"
    BY <2>1, ResolvedFacts
  <2> QED BY <2>1, <2>2 DEF EvaluateEffect
<1>3. CASE p \in Vendors /\ e = No(Taken(rt, p))
  <2> DEFINE t == Taken(rt, p)
  <2>1. /\ FrameKept(rt, t)
        /\ t.history = rt.history
        /\ ContextOfContract(rt) => ContextOfContract(t)
    BY <1>3, TakenFacts
  <2>2. e.sr = t /\ e.ok = FALSE
    BY <1>3, NoFacts
  <2> HIDE DEF t
  <2> QED BY <2>1, <2>2 DEF EvaluateEffect
<1>4. CASE p \in Vendors /\ e = Ok(Resolved(Taken(rt, p), p))
  <2> DEFINE t == Taken(rt, p)
             u == Resolved(t, p)
  <2>1. /\ FrameKept(rt, t)
        /\ ContextOfContract(rt) => ContextOfContract(t)
    BY <1>4, TakenFacts
  <2>2. t \in Runtimes
    BY <2>1 DEF FrameKept
  <2> HIDE DEF t
  <2>3. /\ FrameKept(t, u)
        /\ ContextOfContract(t) => ContextOfContract(u)
        /\ u.history[p] = "kept"
        /\ \A q \in Providers \ {p} : u.history[q] # "kept"
    BY <2>2, ResolvedFacts
  <2>4. e.sr = u /\ e.ok = TRUE
    BY <1>4, OkFacts DEF t
  <2> HIDE DEF u
  <2>5. FrameKept(rt, u)
    BY <2>1, <2>3 DEF FrameKept, SameContract
  <2> QED BY <2>1, <2>3, <2>4, <2>5 DEF EvaluateEffect
<1>5. \/ e = No(rt)
      \/ e = Ok(Resolved(rt, p))
      \/ p \in Vendors /\ e = No(Taken(rt, p))
      \/ p \in Vendors /\ e = Ok(Resolved(Taken(rt, p), p))
  BY DEF EvaluateOutcomes, Vendors
<1> QED BY <1>1, <1>2, <1>3, <1>4, <1>5

-----------------------------------------------------------------------------
(***************************************************************************)
(* What the histories go through outside of a frame.  No change of the     *)
(* contract makes a history good: it keeps it as it is or drops it.        *)
(***************************************************************************)
HistoryLost(rt, t) ==
    \A p \in Providers : t.history[p] \in {rt.history[p], "none"}

LEMMA HistoryLostTwice ==
  ASSUME NEW rt, NEW t, NEW u, HistoryLost(rt, t), HistoryLost(t, u)
  PROVE  HistoryLost(rt, u)
BY DEF HistoryLost

LEMMA ReconfigureHistory ==
  ASSUME NEW rt \in Runtimes, FeatureOfContract(rt), NEW m \in Modes,
         NEW r \in ReconfigureOutcomes(rt, m)
  PROVE  HistoryLost(rt, r.sr)
<1>1. PICK x \in QueryOutcomes(rt, rt.provider, m) :
        r \in IF x # screen THEN {No(rt)}
              ELSE UNION {IF q.ok THEN {q}
                          ELSE {No(b.sr) : b \in SetModeOutcomes(q.sr, rt.mode)}
                            : q \in SetModeOutcomes(rt, m)}
  BY DEF ReconfigureOutcomes
<1>2. CASE x # screen
  <2>1. r.sr = rt
    BY <1>1, <1>2, NoFacts
  <2> QED BY <2>1 DEF HistoryLost
<1>3. CASE x = screen
  <2>1. PICK q \in SetModeOutcomes(rt, m) :
          r \in IF q.ok THEN {q}
                ELSE {No(b.sr) : b \in SetModeOutcomes(q.sr, rt.mode)}
    BY <1>1, <1>3
  <2>2. ModeSet(rt, q.sr)
    BY <2>1, SetModeLemma
  <2>3. HistoryLost(rt, q.sr)
    BY <2>2 DEF ModeSet, HistoryLost
  <2>4. CASE r = q
    BY <2>3, <2>4
  <2>5. ASSUME NEW b \in SetModeOutcomes(q.sr, rt.mode), r = No(b.sr)
        PROVE  HistoryLost(rt, r.sr)
    <3>1. r.sr = b.sr
      BY <2>5, NoFacts
    <3>2. q.sr \in Runtimes /\ FeatureOfContract(q.sr) /\ rt.mode \in Modes
      BY <2>2, RuntimesParts DEF ModeSet
    <3>3. ModeSet(q.sr, b.sr)
      BY <2>5, <3>2, SetModeLemma
    <3>4. HistoryLost(q.sr, b.sr)
      BY <3>3 DEF ModeSet, HistoryLost
    <3> QED BY <2>3, <3>1, <3>4, HistoryLostTwice
  <2> QED BY <2>1, <2>4, <2>5
<1> QED BY <1>2, <1>3

LEMMA RolledBackHistory ==
  ASSUME NEW w \in SelectionWorlds, NEW c \in Selections, NEW i
  PROVE  RolledBack(w, c, i).sr.history = w.sr.history
<1> DEFINE b == CommitContract(w.sr, c.provider, c.mode, w.sr.extent)
<1>1. /\ w.sr \in Runtimes /\ w.sr.extent \in Extents
      /\ c.provider \in Providers /\ c.mode \in Modes
  BY WorldParts, RuntimesParts, SelectionParts
<1>2. Committed(w.sr, c.provider, c.mode, w.sr.extent, b)
  BY <1>1, CommitLemma
<1>3. b.sr.history = w.sr.history
  BY <1>2 DEF Committed
<1>4. RolledBack(w, c, i).sr = b.sr
  BY DEF RolledBack, SelectionWorlds
<1> QED BY <1>3, <1>4

LEMMA SwitchHistory ==
  ASSUME NEW w \in SelectionWorlds, NEW new \in Selections,
         NEW v \in SwitchOutcomes(w, new)
  PROVE  HistoryLost(w.sr, v.sr)
<1> DEFINE old == Contract(w.sr)
           x == w.sr.extent
           Saved(u) ==
            {IF i.ok THEN Switched(u, old, i.ini) ELSE RolledBack(u, old, i.ini)
               : i \in CommitSelectionOutcomes(u.ini, new)}
<1>1. w.sr \in Runtimes /\ x \in Extents /\ old \in Selections
  BY WorldParts, RuntimesParts, ContractFacts
<1>2. new.provider \in Providers /\ new.mode \in Modes
  BY SelectionParts
<1>3. CASE x # screen
  <2>1. v = w
    BY <1>3 DEF SwitchOutcomes, StagedSelection
  <2> QED BY <2>1 DEF HistoryLost
<1>4. CASE x = screen
  <2>1. PICK q \in PrepareAtExtentOutcomes(w.sr, new.provider, new.mode, x) :
          v \in IF ~q.ok THEN StagedSelection([w EXCEPT !.sr = q.sr])
                ELSE LET c == CommitContract(q.sr, new.provider, new.mode, x)
                         u == [w EXCEPT !.sr = c.sr]
                     IN  IF c.ok THEN Saved(u) ELSE {u}
    BY <1>4 DEF SwitchOutcomes
  <2>2. OnlyPrepared(w.sr, q.sr)
    BY <1>1, <1>2, <2>1, PrepareAtLemma
  <2>3. q.sr \in Runtimes /\ HistoryLost(w.sr, q.sr)
    BY <2>2 DEF OnlyPrepared, HistoryLost
  <2>4. CASE ~q.ok
    <3>1. v = [w EXCEPT !.sr = q.sr]
      BY <2>1, <2>4 DEF StagedSelection
    <3>2. v.sr = q.sr
      BY <2>3, <3>1, WithSr
    <3> QED BY <2>3, <3>2
  <2>5. CASE q.ok
    <3> DEFINE c == CommitContract(q.sr, new.provider, new.mode, x)
               u == [w EXCEPT !.sr = c.sr]
    <3>1. Committed(q.sr, new.provider, new.mode, x, c)
      BY <1>1, <1>2, <2>3, CommitLemma
    <3>2. v \in IF c.ok THEN Saved(u) ELSE {u}
      BY <2>1, <2>5
    <3> HIDE DEF c
    <3>3. c.sr \in Runtimes /\ c.sr.history = q.sr.history
      BY <3>1 DEF Committed
    <3>4. u \in SelectionWorlds /\ u.sr = c.sr
      BY <3>3, WithSr
    <3> HIDE DEF u
    <3>5. HistoryLost(w.sr, u.sr)
      BY <2>3, <3>3, <3>4 DEF HistoryLost
    <3>6. ASSUME NEW i, v = Switched(u, old, i)
          PROVE  v.sr.history = u.sr.history
      BY <3>4, <3>6 DEF Switched, SelectionWorlds
    <3>7. ASSUME NEW i, v = RolledBack(u, old, i)
          PROVE  v.sr.history = u.sr.history
      <4> HIDE DEF old
      <4> QED BY <1>1, <3>4, <3>7, RolledBackHistory
    <3>8. v.sr.history = u.sr.history
      BY <3>2, <3>6, <3>7
    <3> QED BY <3>5, <3>8 DEF HistoryLost
  <2> QED BY <2>4, <2>5
<1> QED BY <1>3, <1>4

LEMMA ApplyProviderHistory ==
  ASSUME NEW w \in SelectionWorlds, NEW new \in Selections,
         NEW v \in ApplyProviderOutcomes(w, new)
  PROVE  HistoryLost(w.sr, v.sr)
<1>1. v = w \/ v \in Restored(w, w.ini.saved) \/ v \in SwitchOutcomes(w, new)
  BY DEF ApplyProviderOutcomes
<1>2. CASE v = w
  BY <1>2 DEF HistoryLost
<1>3. CASE v \in Restored(w, w.ini.saved)
  <2>1. v.sr = w.sr
    BY <1>3, WorldParts, RestoredLemma
  <2> QED BY <2>1 DEF HistoryLost
<1> QED BY <1>1, <1>2, <1>3, SwitchHistory

LEMMA ProfileChangeHistory ==
  ASSUME NEW w \in SelectionWorlds, FeatureOfContract(w.sr),
         NEW new \in Selections, NEW v \in ProfileChangeOutcomes(w, new)
  PROVE  HistoryLost(w.sr, v.sr)
<1> DEFINE old == w.ini.saved
           KeptAs(i) ==
            IF new.mode = w.sr.mode THEN {[w EXCEPT !.ini = i]}
            ELSE UNION {LET u == [w EXCEPT !.sr = r.sr, !.ini = i,
                                           !.pass = ResetHistory(@)]
                        IN  IF r.ok THEN {u} ELSE Restored(u, old)
                          : r \in ReconfigureOutcomes(w.sr, new.mode)}
<1>1. /\ w.sr \in Runtimes /\ w.ini \in SavedSelections
      /\ w.pass \in UpscalingPasses /\ old \in Selections
  BY WorldParts
<1>2. new.mode \in Modes
  BY SelectionParts
<1>3. PICK i \in PersistOutcomes(w.ini, new) :
        \/ v \in Restored(w, old)
        \/ v \in IF i.ok THEN KeptAs(i.ini)
                 ELSE Restored([w EXCEPT !.ini = i.ini], old)
  <2>1. Written(w.ini, new) \in PersistOutcomes(w.ini, new)
    BY DEF PersistOutcomes
  <2> QED BY <2>1 DEF ProfileChangeOutcomes
<1>4. i.ini \in SavedSelections
  BY <1>1, <1>3, PersistLemma
<1> DEFINE k == [w EXCEPT !.ini = i.ini]
<1>5. k \in SelectionWorlds /\ k.sr = w.sr
  BY <1>4, WithIni
<1>6. CASE v \in Restored(w, old)
  <2>1. v.sr = w.sr
    BY <1>1, <1>6, RestoredLemma
  <2> QED BY <2>1 DEF HistoryLost
<1>7. CASE v \in Restored(k, old)
  <2> HIDE DEF k
  <2>1. v.sr = w.sr
    BY <1>1, <1>5, <1>7, RestoredLemma
  <2> QED BY <2>1 DEF HistoryLost
<1>8. CASE v = k
  BY <1>5, <1>8 DEF HistoryLost
<1>9. ASSUME NEW r \in ReconfigureOutcomes(w.sr, new.mode),
             v \in LET u == [w EXCEPT !.sr = r.sr, !.ini = i.ini,
                                      !.pass = ResetHistory(@)]
                   IN  IF r.ok THEN {u} ELSE Restored(u, old)
      PROVE  HistoryLost(w.sr, v.sr)
  <2>1. r.sr \in Runtimes
    BY <1>1, <1>2, <1>9, ReconfigureLemma
  <2>2. HistoryLost(w.sr, r.sr)
    BY <1>1, <1>2, <1>9, ReconfigureHistory
  <2> DEFINE p == ResetHistory(w.pass)
             u == [w EXCEPT !.sr = r.sr, !.ini = i.ini, !.pass = p]
  <2>3. p \in UpscalingPasses
    BY <1>1, ResetHistoryFacts
  <2>4. v \in {u} \cup Restored(u, old)
    BY <1>9 DEF SelectionWorlds
  <2> HIDE DEF p
  <2>5. u \in SelectionWorlds
    BY <1>4, <2>1, <2>3 DEF SelectionWorlds
  <2>6. u.sr = r.sr
    BY DEF SelectionWorlds
  <2> HIDE DEF u
  <2>7. v.sr = r.sr
    BY <1>1, <2>4, <2>5, <2>6, RestoredLemma
  <2> QED BY <2>2, <2>7
<1>10. \/ v \in Restored(w, old)
       \/ v \in Restored(k, old)
       \/ v = k
       \/ \E r \in ReconfigureOutcomes(w.sr, new.mode) :
             v \in LET u == [w EXCEPT !.sr = r.sr, !.ini = i.ini,
                                      !.pass = ResetHistory(@)]
                   IN  IF r.ok THEN {u} ELSE Restored(u, old)
  BY <1>3
<1> QED BY <1>6, <1>7, <1>8, <1>9, <1>10

LEMMA ApplyModeHistory ==
  ASSUME NEW w \in SelectionWorlds, FeatureOfContract(w.sr),
         NEW new \in Selections, NEW v \in ApplyModeOutcomes(w, new)
  PROVE  HistoryLost(w.sr, v.sr)
<1>1. v = w \/ v \in ProfileChangeOutcomes(w, new)
  BY DEF ApplyModeOutcomes, StagedSelection
<1>2. CASE v = w
  BY <1>2 DEF HistoryLost
<1> QED BY <1>1, <1>2, ProfileChangeHistory

LEMMA NoteRecoveryHistory ==
  ASSUME NEW w \in SelectionWorlds, NEW v \in NoteRecoveryOutcomes(w)
  PROVE  HistoryLost(w.sr, v.sr)
<1> DEFINE r == w.recovery
<1>1. CASE v.sr = w.sr
  BY <1>1 DEF HistoryLost
<1>2. CASE r.armed /\ v \in RestoreIncumbentOutcomes(w, r)
  <2>1. w.sr \in Runtimes /\ r \in Recoveries
    BY WorldParts
  <2>2. r.provider \in Providers /\ r.mode \in Modes /\ r.extent \in Extents
    <3>1. NoRecovery.armed = FALSE
      BY DEF NoRecovery
    <3> QED BY <1>2, <2>1, <3>1 DEF Recoveries
  <2>3. PICK q \in PrepareOutcomes(w.sr, r.provider, r.mode) :
          v \in LET c == IF q.extent # r.extent THEN No(q.sr)
                         ELSE CommitContract(q.sr, r.provider, r.mode, r.extent)
                    u == [w EXCEPT !.sr = c.sr, !.recovery = NoRecovery]
                IN  IF c.ok THEN IncumbentOutcomes(u, r) ELSE {u}
    BY <1>2 DEF RestoreIncumbentOutcomes
  <2> DEFINE c == IF q.extent # r.extent THEN No(q.sr)
                  ELSE CommitContract(q.sr, r.provider, r.mode, r.extent)
             u == [w EXCEPT !.sr = c.sr, !.recovery = NoRecovery]
  <2>4. v \in {u} \cup IncumbentOutcomes(u, r)
    BY <2>3
  <2> HIDE DEF r
  <2>5. q \in PrepareOutcomes(w.sr, r.provider, r.mode)
    BY <2>3 DEF r
  <2>6. PreparedFor(w.sr, r.provider, r.mode, q)
    BY <2>1, <2>2, <2>5, PrepareLemma
  <2>7. q.sr \in Runtimes /\ HistoryLost(w.sr, q.sr)
    BY <2>6 DEF PreparedFor, OnlyPrepared, HistoryLost
  <2>8. c.sr \in Runtimes /\ c.sr.history = q.sr.history
    <3>1. CASE q.extent # r.extent
      <4>1. c.sr = q.sr
        BY <3>1, NoFacts
      <4> QED BY <2>7, <4>1
    <3>2. CASE q.extent = r.extent
      <4>1. c = CommitContract(q.sr, r.provider, r.mode, r.extent)
        BY <3>2
      <4> HIDE DEF c
      <4>2. Committed(q.sr, r.provider, r.mode, r.extent, c)
        BY <2>2, <2>7, <4>1, CommitLemma
      <4> QED BY <4>2 DEF Committed
    <3> QED BY <3>1, <3>2
  <2> HIDE DEF c
  <2>9. u \in SelectionWorlds
    <3>1. NoRecovery \in Recoveries
      BY DEF Recoveries
    <3> QED BY <2>8, <3>1 DEF SelectionWorlds
  <2>10. u.sr = c.sr
    BY DEF SelectionWorlds
  <2> HIDE DEF u
  <2>11. ASSUME v \in IncumbentOutcomes(u, r)
         PROVE  v.sr = u.sr
    BY <2>9, <2>11 DEF IncumbentOutcomes, SelectionWorlds
  <2>12. v.sr = c.sr
    BY <2>4, <2>10, <2>11
  <2> QED BY <2>7, <2>8, <2>12 DEF HistoryLost
<1>3. v.sr = w.sr \/ (r.armed /\ v \in RestoreIncumbentOutcomes(w, r))
  BY DEF NoteRecoveryOutcomes, SelectionWorlds
<1> QED BY <1>1, <1>2, <1>3

-----------------------------------------------------------------------------
\* z is what the resolve of a scene by p.active returns.
SurfaceEffect(rt, p, z) ==
    /\ z.ok \in BOOLEAN
    /\ FrameKept(rt, z.sr)
    /\ z.pass \in UpscalingPasses
    /\ z.pass.active = p.active
    /\ HistoryGood(z.sr, z.pass)
    /\ \A q \in Providers :
           rt.history[q] = "stale" /\ z.sr.history[q] = "kept" => p.reset

\* An evaluation by the provider of a good pass, whatever was configured and
\* whatever surfaces were made before it.  t is what it evaluates, f the pass.
LEMMA EvaluatedLemma ==
  ASSUME NEW rt \in Runtimes, NEW p \in UpscalingPasses, p.active \in Providers,
         HistoryGood(rt, p),
         NEW f \in UpscalingPasses, f.active = p.active,
         f = p \/ f.reset,
         NEW t \in Runtimes, FrameKept(rt, t),
         \A q \in Providers \ {p.active} : t.history[q] = rt.history[q],
         t.history[p.active] = "stale" =>
             rt.history[p.active] = "stale"
             \/ (p.active = "amd" /\ ~ContextOfContract(rt)),
         p.active = "amd" => ContextOfContract(t),
         NEW e, EvaluateEffect(t, p.active, e)
  PROVE  SurfaceEffect(rt, p, Evaluated(e, f))
<1> DEFINE z == Evaluated(e, f)
           g == IF e.ok THEN [f EXCEPT !.reset = FALSE, !.verified = TRUE] ELSE f
<1>1. /\ e.ok \in BOOLEAN
      /\ FrameKept(t, e.sr)
      /\ ContextOfContract(t) => ContextOfContract(e.sr)
      /\ e.ok => e.sr.history[p.active] = "kept"
      /\ ~e.ok => e.sr.history = t.history
      /\ \A q \in Providers \ {p.active} :
             t.history[q] = "stale" => e.sr.history[q] # "kept"
  BY DEF EvaluateEffect
<1>2. z.sr = e.sr /\ z.ok = e.ok /\ z.pass = g
  BY DEF Evaluated
<1>3. /\ g \in UpscalingPasses
      /\ g.active = p.active
      /\ e.ok => g.verified
      /\ ~e.ok => g = f
  BY DEF UpscalingPasses
<1> HIDE DEF z, g
<1>4. FrameKept(rt, z.sr)
  BY <1>1, <1>2 DEF FrameKept, SameContract
<1>5. HistoryGood(z.sr, g)
  <2>1. CASE e.ok
    BY <1>1, <1>2, <1>3, <2>1 DEF HistoryGood, Providers
  <2>2. CASE ~e.ok /\ ~g.reset
    <3>1. f = p /\ g = p /\ ~p.reset
      BY <1>3, <2>2
    <3>2. /\ p.verified
          /\ rt.history[p.active] # "stale"
          /\ p.active = "amd" => ContextOfContract(rt)
      BY <3>1 DEF HistoryGood
    <3>3. t.history[p.active] # "stale"
      BY <3>2
    <3> QED BY <1>1, <1>2, <2>2, <3>1, <3>2, <3>3 DEF HistoryGood
  <2>3. CASE g.reset
    BY <2>3, ResetIsGood
  <2> QED BY <1>1, <2>1, <2>2, <2>3
<1>6. ASSUME NEW q \in Providers,
             rt.history[q] = "stale", z.sr.history[q] = "kept"
      PROVE  p.reset
  <2>1. q = p.active
    BY <1>1, <1>2, <1>6
  <2> QED BY <1>6, <2>1 DEF HistoryGood
<1>7. SurfaceEffect(rt, p, z)
  BY <1>1, <1>2, <1>3, <1>4, <1>5, <1>6 DEF SurfaceEffect
<1> QED BY <1>7 DEF z

\* Nothing was evaluated, and whatever was configured is as good.
LEMMA NotEvaluatedLemma ==
  ASSUME NEW rt \in Runtimes, NEW p \in UpscalingPasses, p.active \in Providers,
         HistoryGood(rt, p),
         NEW f \in UpscalingPasses, f.active = p.active,
         f = p \/ f.reset,
         NEW e, e.ok = FALSE, FrameKept(rt, e.sr),
         \A q \in Providers \ {p.active} : e.sr.history[q] = rt.history[q],
         e.sr.history[p.active] = "stale" =>
             rt.history[p.active] = "stale"
             \/ (p.active = "amd" /\ ~ContextOfContract(rt)),
         p.active = "amd" /\ ContextOfContract(rt) => ContextOfContract(e.sr)
  PROVE  SurfaceEffect(rt, p, Evaluated(e, f))
<1> DEFINE z == Evaluated(e, f)
<1>1. z.sr = e.sr /\ z.ok = FALSE /\ z.pass = f
  BY DEF Evaluated
<1> HIDE DEF z
<1>2. HistoryGood(z.sr, f)
  <2>1. CASE f.reset
    BY <2>1, ResetIsGood
  <2>2. CASE ~f.reset
    BY <1>1, <2>2 DEF HistoryGood
  <2> QED BY <2>1, <2>2
<1>3. ASSUME NEW q \in Providers,
             rt.history[q] = "stale", z.sr.history[q] = "kept"
      PROVE  p.reset
  <2>1. q = p.active
    BY <1>1, <1>3
  <2> QED BY <1>3, <2>1 DEF HistoryGood
<1>4. SurfaceEffect(rt, p, z)
  BY <1>1, <1>2, <1>3 DEF SurfaceEffect
<1> QED BY <1>4 DEF z

LEMMA SurfaceLemma ==
  ASSUME NEW rt \in Runtimes, NEW p \in UpscalingPasses,
         NEW f \in SurfaceOutcomes(rt, p)
  PROVE  /\ f.pass \in UpscalingPasses
         /\ f.pass.active = p.active
         /\ f.pass = p \/ f.pass.reset
<1> DEFINE g == [p EXCEPT !.surfaces = rt.extent, !.reset = TRUE]
<1>1. rt.extent \in Extents
  BY RuntimesParts
<1>2. g \in UpscalingPasses /\ g.active = p.active /\ g.reset
  BY <1>1 DEF UpscalingPasses
<1> HIDE DEF g
<1>3. f.pass = p \/ f.pass = g
  BY DEF SurfaceOutcomes, g
<1> QED BY <1>2, <1>3

LEMMA EvaluateSurfaceLemma ==
  ASSUME NEW rt \in Runtimes, NEW p \in UpscalingPasses, p.active \in Providers,
         HistoryGood(rt, p), NEW z \in EvaluateSurfaceOutcomes(rt, p)
  PROVE  SurfaceEffect(rt, p, z)
<1>1. No(rt).sr = rt /\ No(rt).ok = FALSE
  BY NoFacts
<1>2. CASE z = Evaluated(No(rt), p)
  BY <1>1, <1>2, FrameKeptSame, NotEvaluatedLemma
<1>3. ASSUME p.active \in Vendors,
             NEW e \in VendorOutcomes(rt, p.active), z = Evaluated(e, p)
      PROVE  SurfaceEffect(rt, p, z)
  <2>1. PICK v \in Vendors : v = p.active
    BY <1>3
  <2>2. PICK c \in ConfigureOutcomes(rt, v, rt.mode, rt.extent) :
          e \in IF c.ok THEN EvaluateOutcomes(c.sr, v) ELSE {c}
    BY <1>3, <2>1 DEF VendorOutcomes
  <2>3. ConfigureEffect(rt, v, c)
    BY <2>2, ConfigureLemma
  <2>4. /\ c.ok \in BOOLEAN
        /\ FrameKept(rt, c.sr)
        /\ \A q \in Providers \ {v} : c.sr.history[q] = rt.history[q]
        /\ c.sr.history[v] = "stale" =>
               rt.history[v] = "stale" \/ (v = "amd" /\ ~ContextOfContract(rt))
        /\ v = "amd" => ContextOfContract(c.sr)
    BY <2>3 DEF ConfigureEffect
  <2>5. CASE c.ok
    <3>1. e \in EvaluateOutcomes(c.sr, v)
      BY <2>2, <2>5
    <3>2. c.sr \in Runtimes
      BY <2>4 DEF FrameKept
    <3>3. EvaluateEffect(c.sr, p.active, e)
      BY <2>1, <3>1, <3>2, EvaluateLemma
    <3> QED BY <1>3, <2>1, <2>4, <3>2, <3>3, EvaluatedLemma
  <2>6. CASE ~c.ok
    <3>1. e = c /\ e.ok = FALSE
      BY <2>2, <2>4, <2>6
    <3> QED BY <1>3, <2>1, <2>4, <3>1, NotEvaluatedLemma
  <2> QED BY <2>5, <2>6
<1>4. ASSUME p.active \notin Vendors, NEW f \in SurfaceOutcomes(rt, p),
             NEW e \in DlssOutcomes(rt, f), z = Evaluated(e, f.pass)
      PROVE  SurfaceEffect(rt, p, z)
  <2>1. p.active = "nvidia" /\ "nvidia" \in Providers
    BY <1>4 DEF Vendors, Providers
  <2>2. /\ f.pass \in UpscalingPasses
        /\ f.pass.active = p.active
        /\ f.pass = p \/ f.pass.reset
    BY <1>4, SurfaceLemma
  <2>3. e = No(rt) \/ e \in EvaluateOutcomes(rt, "nvidia")
    BY <1>4 DEF DlssOutcomes
  <2>4. CASE e = No(rt)
    BY <1>1, <1>4, <2>2, <2>4, FrameKeptSame, NotEvaluatedLemma
  <2>5. CASE e \in EvaluateOutcomes(rt, "nvidia")
    <3>1. EvaluateEffect(rt, p.active, e)
      BY <2>1, <2>5, EvaluateLemma
    <3> QED BY <1>4, <2>1, <2>2, <3>1, FrameKeptSame, EvaluatedLemma
  <2> QED BY <2>3, <2>4, <2>5
<1>5. \/ z = Evaluated(No(rt), p)
      \/ p.active \in Vendors
         /\ \E e \in VendorOutcomes(rt, p.active) : z = Evaluated(e, p)
      \/ p.active \notin Vendors
         /\ \E f \in SurfaceOutcomes(rt, p) :
               \E e \in DlssOutcomes(rt, f) : z = Evaluated(e, f.pass)
  BY DEF EvaluateSurfaceOutcomes
<1> QED BY <1>2, <1>3, <1>4, <1>5

LEMMA StretchedFacts ==
  ASSUME NEW rt \in Runtimes
  PROVE  /\ FrameKept(rt, Stretched(rt))
         /\ \A q \in Providers : Stretched(rt).history[q] # "kept"
<1> DEFINE h == [q \in Providers |-> IF rt.history[q] = "none" THEN "none"
                                     ELSE "stale"]
           t == [rt EXCEPT !.history = h]
<1>1. h \in SrHistories /\ \A q \in Providers : h[q] # "kept"
  BY DEF SrHistories
<1>2. Stretched(rt) = t
  BY DEF Stretched
<1> HIDE DEF h
<1>3. FrameKept(rt, t) /\ t.history = h
  BY <1>1, WithHistory
<1> QED BY <1>1, <1>2, <1>3

LEMMA ShutdownFacts ==
  ASSUME NEW rt \in Runtimes
  PROVE  /\ FrameKept(rt, ShutdownVendors(rt))
         /\ HistoryLost(rt, ShutdownVendors(rt))
<1> DEFINE k == [v \in Vendors |-> NoContext]
           h == [q \in Providers |-> IF q \in Vendors THEN "none"
                                     ELSE rt.history[q]]
           t == [rt EXCEPT !.context = k, !.history = h]
<1>1. k \in [Vendors -> SrContexts]
  BY DEF SrContexts, NoContext
<1>2. /\ h \in SrHistories
      /\ \A q \in Providers : h[q] \in {rt.history[q], "none"}
  BY RuntimesParts DEF SrHistories
<1>3. ShutdownVendors(rt) = t
  BY DEF ShutdownVendors
<1> HIDE DEF k, h
<1>4. t \in Runtimes
  BY <1>1, <1>2 DEF Runtimes, SrContexts, SrHistories
<1>5. t.provider = rt.provider
  BY DEF Runtimes
<1>6. t.mode = rt.mode
  BY DEF Runtimes
<1>7. t.extent = rt.extent
  BY DEF Runtimes
<1>8. t.feature = rt.feature
  BY DEF Runtimes
<1>9. t.history = h
  BY DEF Runtimes
<1> HIDE DEF t
<1>10. FrameKept(rt, t) /\ HistoryLost(rt, t)
  BY <1>2, <1>4, <1>5, <1>6, <1>7, <1>8, <1>9
     DEF FrameKept, SameContract, HistoryLost
<1> QED BY <1>3, <1>10

-----------------------------------------------------------------------------
\* The four variables are what a handler takes with it.
LEMMA PartsOfWorld ==
  ASSUME NEW w, UpscalingGood(w)
  PROVE  PartsGood(w.sr, w.pass, w.recovery, w.ini)
<1>1. w \in SelectionWorlds
  BY DEF UpscalingGood
<1> QED BY <1>1, WorldParts DEF UpscalingGood, SelectionGood, PartsGood

LEMMA WorldOfParts ==
  ASSUME NEW rt, NEW p, NEW r, NEW i, PartsGood(rt, p, r, i),
         NEW w, w = [sr |-> rt, pass |-> p, recovery |-> r, ini |-> i]
  PROVE  UpscalingGood(w)
<1>1. w.sr = rt /\ w.pass = p /\ w.recovery = r /\ w.ini = i
  OBVIOUS
<1>2. w \in SelectionWorlds
  BY DEF PartsGood, SelectionWorlds
<1>3. SelectionGood(w)
  BY <1>1 DEF PartsGood, SelectionGood
<1> QED BY <1>1, <1>2, <1>3 DEF PartsGood, UpscalingGood

LEMMA NowGood ==
  ASSUME UpscalingInv
  PROVE  /\ UpscalingGood(Now)
         /\ Now.sr = sr
         /\ Now.ini = ini
BY WorldOfParts DEF UpscalingInv, Now

\* What a step may do to the histories.
HistoriesKept ==
    \A p \in Providers :
       sr.history[p] = "stale" /\ sr'.history[p] = "kept" => upscaling.reset

LEMMA LostIsKept ==
  ASSUME HistoryLost(sr, sr')
  PROVE  HistoriesKept
BY DEF HistoryLost, HistoriesKept

LEMMA SameIsKept ==
  ASSUME sr' = sr
  PROVE  HistoriesKept
BY DEF HistoriesKept

\* A handler that goes from one good world to another.
LEMMA BecomeGood ==
  ASSUME NEW w, UpscalingGood(w), Become(w), HistoryLost(sr, w.sr)
  PROVE  /\ PartsGood(sr', upscaling', recovery', ini')
         /\ HistoriesKept
<1>1. sr' = w.sr /\ upscaling' = w.pass /\ recovery' = w.recovery /\ ini' = w.ini
  BY DEF Become
<1>2. PartsGood(w.sr, w.pass, w.recovery, w.ini)
  BY PartsOfWorld
<1>3. HistoryLost(sr, sr')
  BY <1>1
<1> QED BY <1>1, <1>2, <1>3, LostIsKept

LEMMA NewPassFacts ==
  /\ NewUpscalingPass \in UpscalingPasses
  /\ NewUpscalingPass.active = "none"
  /\ NewUpscalingPass.reset
BY DEF NewUpscalingPass, UpscalingPasses

LEMMA NoRecoveryFacts ==
  NoRecovery \in Recoveries /\ NoRecovery.armed = FALSE
BY DEF NoRecovery, Recoveries

LEMMA UpscalingInitHolds == UpscalingInit => UpscalingInv
<1> SUFFICES ASSUME UpscalingInit
             PROVE  UpscalingInv
  OBVIOUS
<1>1. PICK c \in Selections :
        /\ sr = NewRuntimes(c.provider, c.mode)
        /\ ini = [saved |-> c, fault |-> FALSE]
        /\ screen = Optimal[c.provider][c.mode]
  BY DEF UpscalingInit
<1>2. c.provider \in Providers /\ c.mode \in Modes
  BY SelectionParts
<1>3. /\ Optimal[c.provider][c.mode] \in Extents
  BY <1>2, ExtentFacts
<1> DEFINE f == IF c.provider = "nvidia"
                THEN [mode |-> c.mode, extent |-> Optimal[c.provider][c.mode]]
                ELSE NoFeature
           k == [v \in Vendors |-> NoContext]
           h == [q \in Providers |-> "none"]
<1>4. f \in SrFeatures
  BY <1>2, <1>3 DEF SrFeatures
<1>5. k \in [Vendors -> SrContexts]
  BY DEF SrContexts, NoContext
<1>6. h \in SrHistories
  BY DEF SrHistories
<1>7. sr = [provider |-> c.provider, mode |-> c.mode,
            extent |-> Optimal[c.provider][c.mode], feature |-> f,
            context |-> k, history |-> h]
  BY <1>1 DEF NewRuntimes
<1>8. sr.provider = "nvidia" =>
         sr.feature = [mode |-> sr.mode, extent |-> sr.extent]
  BY <1>7
<1> HIDE DEF f, k, h
<1>9. sr \in Runtimes
  BY <1>2, <1>3, <1>4, <1>5, <1>6, <1>7, RuntimesMade
<1>10. FeatureOfContract(sr)
  BY <1>8 DEF FeatureOfContract
<1>11. ini \in SavedSelections /\ ini.saved = c
  BY <1>1 DEF SavedSelections
<1>12. c = Contract(sr)
  BY <1>7, SelectionParts DEF Contract
<1>13. /\ upscaling = NewUpscalingPass /\ recovery = NoRecovery
       /\ resolved = FALSE /\ stage = "presented"
  BY DEF UpscalingInit
<1>14. HistoryGood(sr, upscaling)
  BY <1>13, NewPassFacts, ResetIsGood
<1>15. PartsGood(sr, upscaling, recovery, ini)
  BY <1>9, <1>10, <1>11, <1>12, <1>13, <1>14, NewPassFacts, NoRecoveryFacts
     DEF PartsGood
<1> QED BY <1>1, <1>3, <1>13, <1>15 DEF UpscalingInv

LEMMA PassBeginFrameHolds ==
  ASSUME UpscalingInv, PassBeginFrame
  PROVE  UpscalingInv' /\ HistoriesKept
<1>1. PICK w \in NoteRecoveryOutcomes(Now) : Become(w)
  BY DEF PassBeginFrame
<1>2. UpscalingGood(Now) /\ Now.sr = sr /\ ~Now.ini.fault
  BY NowGood DEF PassBeginFrame, Followed
<1> HIDE DEF Now
<1>3. UpscalingGood(w)
  BY <1>1, <1>2, NoteRecoveryLemma
<1>4. Now \in SelectionWorlds
  BY <1>2 DEF UpscalingGood
<1>5. HistoryLost(sr, w.sr)
  BY <1>1, <1>2, <1>4, NoteRecoveryHistory
<1>6. PartsGood(sr', upscaling', recovery', ini') /\ HistoriesKept
  BY <1>1, <1>3, <1>5, BecomeGood
<1> QED BY <1>6 DEF PassBeginFrame, UpscalingInv

LEMMA ApplySelectionHolds ==
  ASSUME UpscalingInv, ApplySelection
  PROVE  UpscalingInv' /\ HistoriesKept
<1>1. PICK new \in Selections :
        \E w \in IF new.provider = sr.provider
                 THEN ApplyModeOutcomes(Now, new)
                 ELSE ApplyProviderOutcomes(Now, new) : Become(w)
  BY DEF ApplySelection
<1>2. PICK w \in IF new.provider = sr.provider
                 THEN ApplyModeOutcomes(Now, new)
                 ELSE ApplyProviderOutcomes(Now, new) : Become(w)
  BY <1>1
<1>3. UpscalingGood(Now) /\ Now.sr = sr /\ ~Now.ini.fault
  BY NowGood DEF ApplySelection, Followed
<1>4. Now \in SelectionWorlds /\ FeatureOfContract(Now.sr)
  BY <1>3 DEF UpscalingGood
<1>5. UpscalingGood(w)
  BY <1>2, <1>3, ApplyModeLemma, ApplyProviderLemma
<1>6. HistoryLost(sr, w.sr)
  BY <1>2, <1>3, <1>4, ApplyModeHistory, ApplyProviderHistory
<1>7. PartsGood(sr', upscaling', recovery', ini') /\ HistoriesKept
  BY <1>2, <1>5, <1>6, BecomeGood
<1> QED BY <1>7 DEF ApplySelection, UpscalingInv

LEMMA SkipPassBeginFrameHolds ==
  ASSUME UpscalingInv, SkipPassBeginFrame
  PROVE  UpscalingInv' /\ HistoriesKept
BY SameIsKept DEF SkipPassBeginFrame, UpscalingInv

LEMMA ResolveSceneHolds ==
  ASSUME UpscalingInv, ResolveScene
  PROVE  UpscalingInv' /\ HistoriesKept
<1> DEFINE by == [upscaling EXCEPT !.active = IF @ = "none" THEN sr.provider
                                              ELSE @]
<1>1. PICK e \in EvaluateSurfaceOutcomes(sr, by) :
        \/ /\ e.ok
           /\ sr' = e.sr
           /\ upscaling' = e.pass
        \/ /\ ~e.ok
           /\ sr' = Stretched(e.sr)
           /\ upscaling' = ResetHistory(e.pass)
        \/ /\ ~e.ok
           /\ sr' = e.sr
           /\ upscaling' = e.pass
  BY DEF ResolveScene
<1>2. /\ sr \in Runtimes
      /\ upscaling \in UpscalingPasses
      /\ FeatureOfContract(sr)
      /\ HistoryGood(sr, upscaling)
      /\ ~ini.fault => /\ ini.saved = Contract(sr)
                       /\ upscaling.active \in {"none", sr.provider}
                       /\ recovery.armed => recovery.provider # sr.provider
  BY DEF UpscalingInv, PartsGood
<1>3. sr.provider \in Providers
  BY <1>2, RuntimesParts
<1>4. by \in UpscalingPasses
  BY <1>2, <1>3 DEF UpscalingPasses
<1>5. by.active = IF upscaling.active = "none" THEN sr.provider
                  ELSE upscaling.active
  BY <1>2 DEF UpscalingPasses
<1>6. by.reset = upscaling.reset /\ by.verified = upscaling.verified
  BY <1>2 DEF UpscalingPasses
<1> HIDE DEF by
<1>7. by.active \in Providers /\ HistoryGood(sr, by)
  BY <1>2, <1>3, <1>5, <1>6, PassParts DEF HistoryGood
<1>8. SurfaceEffect(sr, by, e)
  BY <1>1, <1>2, <1>4, <1>7, EvaluateSurfaceLemma
<1>9. /\ FrameKept(sr, e.sr)
      /\ e.pass \in UpscalingPasses
      /\ e.pass.active = by.active
      /\ HistoryGood(e.sr, e.pass)
      /\ \A q \in Providers :
             sr.history[q] = "stale" /\ e.sr.history[q] = "kept" => by.reset
  BY <1>8 DEF SurfaceEffect
<1>10. e.sr \in Runtimes
  BY <1>9 DEF FrameKept
<1>11. /\ FrameKept(sr, sr')
       /\ upscaling' \in UpscalingPasses
       /\ upscaling'.active = by.active
       /\ HistoryGood(sr', upscaling')
       /\ HistoriesKept
  <2>1. CASE sr' = e.sr /\ upscaling' = e.pass
    BY <1>6, <1>9, <2>1 DEF HistoriesKept
  <2>2. CASE sr' = Stretched(e.sr) /\ upscaling' = ResetHistory(e.pass)
    <3>1. /\ FrameKept(e.sr, sr')
          /\ \A q \in Providers : sr'.history[q] # "kept"
      BY <1>10, <2>2, StretchedFacts
    <3>2. /\ upscaling' \in UpscalingPasses
          /\ upscaling'.reset
          /\ upscaling'.active = by.active
      BY <1>9, <2>2, ResetHistoryFacts
    <3>3. FrameKept(sr, sr')
      BY <1>9, <3>1 DEF FrameKept, SameContract
    <3> QED BY <3>1, <3>2, <3>3, ResetIsGood DEF HistoriesKept
  <2> QED BY <1>1, <2>1, <2>2
<1>12. /\ sr' \in Runtimes
       /\ sr'.provider = sr.provider
       /\ Contract(sr') = Contract(sr)
       /\ FeatureOfContract(sr')
  BY <1>2, <1>11 DEF FrameKept, SameContract, Contract, FeatureOfContract
<1>13. UNCHANGED <<recovery, ini, screen, stage>> /\ resolved' = TRUE
  BY DEF ResolveScene
<1>14. PartsGood(sr', upscaling', recovery', ini')
  BY <1>2, <1>5, <1>11, <1>12, <1>13 DEF UpscalingInv, PartsGood
<1> QED BY <1>11, <1>13, <1>14 DEF UpscalingInv

LEMMA EndFrameHolds ==
  ASSUME UpscalingInv, EndFrame
  PROVE  UpscalingInv' /\ HistoriesKept
<1>1. /\ sr \in Runtimes
      /\ upscaling \in UpscalingPasses
      /\ ini \in SavedSelections
      /\ FeatureOfContract(sr)
      /\ HistoryGood(sr, upscaling)
      /\ ~ini.fault => /\ ini.saved = Contract(sr)
                       /\ upscaling.active \in {"none", sr.provider}
                       /\ recovery.armed => recovery.provider # sr.provider
  BY DEF UpscalingInv, PartsGood
<1>2. sr.mode \in Modes
  BY <1>1, RuntimesParts
<1>3. UNCHANGED <<recovery, screen, resolved>> /\ stage' = "presented"
  BY DEF EndFrame
<1>4. ini' \in SavedSelections /\ (ini' = ini \/ ini'.fault)
  <2>1. CASE ini' = ini
    BY <1>1, <2>1
  <2>2. ASSUME NEW c \in Selections, ini' = Faulty([ini EXCEPT !.saved = c])
        PROVE  ini' \in SavedSelections /\ ini'.fault
    <3>1. [ini EXCEPT !.saved = c] \in SavedSelections
      BY <1>1 DEF SavedSelections
    <3> QED BY <2>2, <3>1, FaultyFacts
  <2> QED BY <2>1, <2>2 DEF EndFrame
<1>5. /\ sr' \in Runtimes
      /\ upscaling' \in UpscalingPasses
      /\ sr'.provider = sr.provider
      /\ Contract(sr') = Contract(sr)
      /\ FeatureOfContract(sr')
      /\ upscaling'.active = upscaling.active
      /\ HistoryGood(sr', upscaling')
      /\ HistoriesKept
  <2>1. CASE UNCHANGED <<sr, upscaling>>
    BY <1>1, <2>1, SameIsKept
  <2>2. ASSUME upscaling' = ResetHistory(upscaling),
               NEW r \in SetModeOutcomes(sr, sr.mode), sr' = r.sr
        PROVE  /\ sr' \in Runtimes
               /\ upscaling' \in UpscalingPasses
               /\ sr'.provider = sr.provider
               /\ Contract(sr') = Contract(sr)
               /\ FeatureOfContract(sr')
               /\ upscaling'.active = upscaling.active
               /\ HistoryGood(sr', upscaling')
               /\ HistoriesKept
    <3>1. /\ ModeSet(sr, r.sr)
          /\ r.ok \in BOOLEAN
          /\ r.ok => r.sr.mode = sr.mode
          /\ ~r.ok => SameContract(sr, r.sr)
      BY <1>1, <1>2, <2>2, SetModeLemma
    <3>2. r.sr.provider = sr.provider /\ r.sr.mode = sr.mode
      BY <3>1 DEF ModeSet, SameContract
    <3>3. /\ upscaling' \in UpscalingPasses
          /\ upscaling'.reset
          /\ upscaling'.active = upscaling.active
      BY <1>1, <2>2, ResetHistoryFacts
    <3>4. HistoryLost(sr, sr')
      BY <2>2, <3>1 DEF ModeSet, HistoryLost
    <3>5. sr' \in Runtimes /\ FeatureOfContract(sr') /\ Contract(sr') = Contract(sr)
      BY <2>2, <3>1, <3>2 DEF ModeSet, Contract
    <3> QED BY <2>2, <3>2, <3>3, <3>4, <3>5, ResetIsGood, LostIsKept
  <2> QED BY <2>1, <2>2 DEF EndFrame
<1>6. PartsGood(sr', upscaling', recovery', ini')
  BY <1>1, <1>3, <1>4, <1>5 DEF UpscalingInv, PartsGood
<1> QED BY <1>3, <1>5, <1>6 DEF UpscalingInv

LEMMA ResetAllHistoryHolds ==
  ASSUME UpscalingInv, ResetAllHistory
  PROVE  UpscalingInv' /\ HistoriesKept
<1>1. PartsGood(sr, upscaling, recovery, ini)
  BY DEF UpscalingInv
<1>2. /\ upscaling' \in UpscalingPasses
      /\ upscaling'.reset
      /\ upscaling'.active = upscaling.active
  BY <1>1, ResetHistoryFacts DEF ResetAllHistory, PartsGood
<1>3. UNCHANGED <<sr, recovery, ini, screen, resolved, stage>>
  BY DEF ResetAllHistory
<1>4. HistoryGood(sr', upscaling')
  BY <1>2, ResetIsGood
<1>5. PartsGood(sr', upscaling', recovery', ini')
  BY <1>1, <1>2, <1>3, <1>4 DEF PartsGood
<1> QED BY <1>3, <1>5, SameIsKept DEF UpscalingInv

LEMMA PreResetHolds ==
  ASSUME UpscalingInv, PreReset
  PROVE  UpscalingInv' /\ HistoriesKept
<1>1. PartsGood(sr, upscaling, recovery, ini)
  BY DEF UpscalingInv
<1>2. /\ upscaling' = NewUpscalingPass
      /\ recovery' = NoRecovery
      /\ sr' = ShutdownVendors(sr)
      /\ UNCHANGED <<ini, screen, resolved, stage>>
  BY DEF PreReset
<1>3. FrameKept(sr, sr') /\ HistoryLost(sr, sr')
  BY <1>1, <1>2, ShutdownFacts DEF PartsGood
<1>4. /\ sr' \in Runtimes
      /\ Contract(sr') = Contract(sr)
      /\ FeatureOfContract(sr')
  BY <1>1, <1>3 DEF PartsGood, FrameKept, SameContract, Contract, FeatureOfContract
<1>5. HistoryGood(sr', upscaling')
  BY <1>2, NewPassFacts, ResetIsGood
<1>6. PartsGood(sr', upscaling', recovery', ini')
  BY <1>1, <1>2, <1>4, <1>5, NewPassFacts, NoRecoveryFacts DEF PartsGood
<1> QED BY <1>2, <1>3, <1>6, LostIsKept DEF UpscalingInv

LEMMA ResizeBuffersHolds ==
  ASSUME UpscalingInv, ResizeBuffers
  PROVE  UpscalingInv' /\ HistoriesKept
<1>1. PartsGood(sr, upscaling, recovery, ini)
  BY DEF UpscalingInv
<1>2. /\ upscaling' = NewUpscalingPass
      /\ recovery' = NoRecovery
      /\ resolved' \in {resolved, FALSE}
      /\ UNCHANGED <<ini, stage>>
  BY DEF ResizeBuffers
<1> DEFINE rt == ShutdownVendors(sr)
<1>3. PICK r \in SetModeOutcomes(rt, ini.saved.mode) :
        r.ok /\ sr' = r.sr /\ screen' = r.sr.extent
  BY DEF ResizeBuffers
<1>4. FrameKept(sr, rt) /\ HistoryLost(sr, rt)
  BY <1>1, ShutdownFacts DEF PartsGood
<1> HIDE DEF rt
<1>5. /\ rt \in Runtimes
      /\ rt.provider = sr.provider
      /\ FeatureOfContract(rt)
  BY <1>1, <1>4 DEF PartsGood, FrameKept, SameContract, FeatureOfContract
<1>6. ini.saved \in Selections /\ ini.saved.mode \in Modes
  <2>1. ini.saved \in Selections
    BY <1>1 DEF PartsGood, SavedSelections
  <2> QED BY <2>1, SelectionParts
<1>7. ModeSet(rt, r.sr) /\ r.sr.mode = ini.saved.mode
  BY <1>3, <1>5, <1>6, SetModeLemma
<1>8. /\ sr' \in Runtimes
      /\ sr'.provider = sr.provider
      /\ sr'.mode = ini.saved.mode
      /\ FeatureOfContract(sr')
  BY <1>3, <1>5, <1>7 DEF ModeSet
<1>9. ~ini.fault => ini.saved = Contract(sr')
  <2>1. ~ini.fault => ini.saved.provider = sr.provider
    BY <1>1, ContractFacts DEF PartsGood
  <2> QED BY <1>6, <1>8, <2>1, SelectionParts DEF Contract
<1>10. HistoryGood(sr', upscaling')
  BY <1>2, NewPassFacts, ResetIsGood
<1>11. PartsGood(sr', upscaling', recovery', ini')
  BY <1>1, <1>2, <1>8, <1>9, <1>10, NewPassFacts, NoRecoveryFacts DEF PartsGood
<1>12. screen' \in Extents
  BY <1>3, <1>8, RuntimesParts
<1>13. HistoryLost(rt, sr')
  BY <1>3, <1>7 DEF ModeSet, HistoryLost
<1>14. HistoriesKept
  BY <1>4, <1>13, HistoryLostTwice, LostIsKept
<1> QED BY <1>2, <1>11, <1>12, <1>14 DEF UpscalingInv

\* Every step keeps the invariant and treats the histories as it should.
LEMMA UpscalingStep ==
  ASSUME UpscalingInv, [UpscalingNext]_upscalingVars
  PROVE  UpscalingInv' /\ HistoriesKept
<1>1. CASE UpscalingNext
  BY <1>1, PassBeginFrameHolds, SkipPassBeginFrameHolds, ResolveSceneHolds,
     EndFrameHolds, ApplySelectionHolds, ResetAllHistoryHolds, PreResetHolds,
     ResizeBuffersHolds DEF UpscalingNext
<1>2. CASE UNCHANGED upscalingVars
  BY <1>2, SameIsKept DEF upscalingVars, UpscalingInv
<1> QED BY <1>1, <1>2

\* UpscalingInv is an invariant of every run of the pass, its runtimes and
\* the menu.
THEOREM UpscalingInvariant == UpscalingSpec => []UpscalingInv
<1>1. UpscalingInv /\ [UpscalingNext]_upscalingVars => UpscalingInv'
  BY UpscalingStep
<1> QED BY <1>1, UpscalingInitHolds, PTL DEF UpscalingSpec

(***************************************************************************)
(* What the pass, the runtimes, the recovery and the selection can be.     *)
(***************************************************************************)
THEOREM UpscalingTypes == UpscalingSpec => []UpscalingTypeOK
<1>1. UpscalingInv => UpscalingTypeOK
  BY DEF UpscalingInv, PartsGood, UpscalingTypeOK, UpscalingPasses, Recoveries,
         SavedSelections
<1> QED BY <1>1, UpscalingInvariant, PTL

(***************************************************************************)
(* DLSS never evaluates with a feature that is not the contract's, and the *)
(* pass evaluates with the provider of the contract, whatever was refused  *)
(* on the way to it.                                                       *)
(***************************************************************************)
THEOREM ContractRuns == UpscalingSpec => []ContractIsRunning
<1>1. UpscalingInv => ContractIsRunning
  BY DEF UpscalingInv, PartsGood, FeatureOfContract, ContractIsRunning
<1> QED BY <1>1, UpscalingInvariant, PTL

(***************************************************************************)
(* The selection in memory is the contract, until an undo of the menu      *)
(* fails as well or a reload finds another pair.                           *)
(***************************************************************************)
THEOREM SavedRuns == UpscalingSpec => []SavedAsRunning
<1>1. UpscalingInv => SavedAsRunning
  BY DEF UpscalingInv, PartsGood, SavedAsRunning
<1> QED BY <1>1, UpscalingInvariant, PTL

(***************************************************************************)
(* A history that has missed a frame is never resolved from: the pass asks *)
(* for its reset whatever led to the evaluation.                           *)
(***************************************************************************)
THEOREM HistoryNeverStale == UpscalingSpec => NoStaleHistory
<1> DEFINE A == \A p \in Providers :
                   sr.history[p] = "stale" /\ sr'.history[p] = "kept" =>
                      upscaling.reset \/ (p = "amd" /\ sr.context[p].reset)
<1>1. UpscalingInv /\ [UpscalingNext]_upscalingVars => A
  BY UpscalingStep DEF HistoriesKept
<1>2. UpscalingSpec => [][A]_upscalingVars
  BY <1>1, UpscalingInvariant, PTL DEF UpscalingSpec
<1> QED BY <1>2 DEF NoStaleHistory
=============================================================================
