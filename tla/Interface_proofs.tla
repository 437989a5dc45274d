-------------------------- MODULE Interface_proofs --------------------------
(***************************************************************************)
(* Proofs about what is drawn over a frame, for any values of the          *)
(* constants.  UiLayer and OptionsMenu share no state; they are proved     *)
(* about one after the other.                                              *)
(*                                                                         *)
(* UiLayer: the viewport and the scissor always fit the target that is     *)
(* bound, and a layer is handed over as safe only where this very texture  *)
(* was read, and not too long ago.                                         *)
(*                                                                         *)
(* OptionsMenu: whatever is edited, applied, refused or changed, Reflex    *)
(* paces by the caps that are configured or owes it, generation never runs *)
(* without Reflex, and no row holds a cap the settings would not accept.   *)
(***************************************************************************)
EXTENDS UiLayer, OptionsMenu, WellFoundedInduction, TLAPS

-----------------------------------------------------------------------------
(***************************************************************************)
(* The context.  Whatever is bound or set through the hooks leaves a       *)
(* context whose rectangles fit its target, whatever they were before.     *)
(***************************************************************************)
Rects == {"render", "output", "other"}

Context == [target : Targets, viewport : Rects, scissor : Rects, ui : BOOLEAN,
            failed : BOOLEAN, declined : BOOLEAN, rendering : BOOLEAN,
            inside : BOOLEAN]

\* The rectangle r fits the target of x.
Fitting(s, x, r) ==
    /\ s = "complete" /\ Extent(s, x.target) = "render" => r # "output"
    /\ x.ui /\ x.target = "layer" => r # "render"

Fits2(s, x) == Fitting(s, x, x.viewport) /\ Fitting(s, x, x.scissor)

LEMMA ExtentFacts ==
    ASSUME NEW s, NEW t \in Targets
    PROVE  /\ t = "layer" => Extent(s, t) = "output"
           /\ Extent(s, t) \in {"none", "other", "output", "render"}
BY DEF Extent, Targets

\* The two corrections, on one rectangle.
LEMMA CorrectedFits ==
    ASSUME NEW s, NEW x \in Context, NEW r \in Rects
    PROVE  /\ Clamped(s, x, r) \in Rects
           /\ Promoted(s, x, r) \in Rects
           /\ Fitting(s, x, Promoted(s, x, Clamped(s, x, r)))
           /\ Fitting(s, x, Clamped(s, x, Promoted(s, x, r)))
           /\ Fitting(s, x, r) => Fitting(s, x, Clamped(s, x, r))
<1>1. x.target \in Targets
  BY DEF Context
<1>2. /\ x.target = "layer" => Extent(s, x.target) = "output"
  BY <1>1, ExtentFacts
<1>3. Clamped(s, x, r) \in Rects /\ Promoted(s, x, r) \in Rects
  BY DEF Clamped, Promoted, Rects
<1>4. Fitting(s, x, Promoted(s, x, Clamped(s, x, r)))
  BY <1>2 DEF Fitting, Clamped, Promoted, Rects
<1>5. Fitting(s, x, Clamped(s, x, Promoted(s, x, r)))
  BY <1>2 DEF Fitting, Clamped, Promoted, Rects
<1>6. Fitting(s, x, r) => Fitting(s, x, Clamped(s, x, r))
  BY <1>2 DEF Fitting, Clamped
<1> QED
  BY <1>3, <1>4, <1>5, <1>6

\* Nothing but the rectangles differs.
SameButRects(x, y) ==
    /\ y.target = x.target /\ y.ui = x.ui /\ y.failed = x.failed
    /\ y.declined = x.declined /\ y.rendering = x.rendering
    /\ y.inside = x.inside

LEMMA SameFits ==
    ASSUME NEW s, NEW x, NEW y, SameButRects(x, y), NEW r
    PROVE  /\ Fitting(s, y, r) <=> Fitting(s, x, r)
           /\ Clamped(s, y, r) = Clamped(s, x, r)
           /\ Promoted(s, y, r) = Promoted(s, x, r)
BY DEF SameButRects, Fitting, Clamped, Promoted

LEMMA EnforceLemma ==
    ASSUME NEW s, NEW x \in Context
    PROVE  /\ EnforceVirtual(s, x) \in Context
           /\ SameButRects(x, EnforceVirtual(s, x))
           /\ EnforceVirtual(s, x).viewport = Clamped(s, x, x.viewport)
           /\ EnforceVirtual(s, x).scissor = Clamped(s, x, x.scissor)
           /\ EnforceFull(s, x) \in Context
           /\ SameButRects(x, EnforceFull(s, x))
           /\ EnforceFull(s, x).viewport = Promoted(s, x, x.viewport)
           /\ EnforceFull(s, x).scissor = Promoted(s, x, x.scissor)
<1>1. x.viewport \in Rects /\ x.scissor \in Rects
  BY DEF Context
<1>2. /\ Clamped(s, x, x.viewport) \in Rects /\ Clamped(s, x, x.scissor) \in Rects
      /\ Promoted(s, x, x.viewport) \in Rects /\ Promoted(s, x, x.scissor) \in Rects
  BY <1>1, CorrectedFits
<1> QED
  BY <1>2 DEF EnforceVirtual, EnforceFull, Context, SameButRects

LEMMA SetViewportLemma ==
    ASSUME NEW s, NEW x \in Context, NEW v \in Rects
    PROVE  /\ SetViewport(s, x, v) \in Context
           /\ SameButRects(x, SetViewport(s, x, v))
           /\ Fitting(s, x, SetViewport(s, x, v).viewport)
           /\ Fitting(s, x, x.scissor) => Fits2(s, SetViewport(s, x, v))
<1> DEFINE y == [x EXCEPT !.viewport = Promoted(s, x, v)]
           z == SetViewport(s, x, v)
<1>1. Promoted(s, x, v) \in Rects
  BY CorrectedFits
<1>2. /\ y \in Context /\ SameButRects(x, y)
      /\ y.viewport = Promoted(s, x, v) /\ y.scissor = x.scissor
  BY <1>1 DEF Context, SameButRects
<1>3. z = EnforceVirtual(s, y)
  BY DEF SetViewport
<1> HIDE DEF y, z
<1>4. /\ z \in Context /\ SameButRects(y, z)
      /\ z.viewport = Clamped(s, y, y.viewport)
      /\ z.scissor = Clamped(s, y, y.scissor)
  BY <1>2, <1>3, EnforceLemma
<1>5. SameButRects(x, z)
  BY <1>2, <1>4 DEF SameButRects
<1>6. z.viewport = Clamped(s, x, Promoted(s, x, v)) /\ z.scissor = Clamped(s, x, x.scissor)
  BY <1>2, <1>4, SameFits
<1>7. Fitting(s, x, z.viewport)
  BY <1>6, CorrectedFits
<1>8. x.scissor \in Rects
  BY DEF Context
<1>9. Fitting(s, x, x.scissor) => Fitting(s, x, z.scissor)
  BY <1>6, <1>8, CorrectedFits
<1>10. \A r : Fitting(s, z, r) <=> Fitting(s, x, r)
  BY <1>5, SameFits
<1> QED
  BY <1>4, <1>5, <1>7, <1>9, <1>10 DEF z, Fits2

LEMMA SetScissorLemma ==
    ASSUME NEW s, NEW x \in Context, NEW v \in Rects
    PROVE  /\ SetScissor(s, x, v) \in Context
           /\ SameButRects(x, SetScissor(s, x, v))
           /\ Fitting(s, x, SetScissor(s, x, v).scissor)
           /\ Fitting(s, x, x.viewport) => Fits2(s, SetScissor(s, x, v))
<1> DEFINE y == [x EXCEPT !.scissor = Promoted(s, x, v)]
           z == SetScissor(s, x, v)
<1>1. Promoted(s, x, v) \in Rects
  BY CorrectedFits
<1>2. /\ y \in Context /\ SameButRects(x, y)
      /\ y.scissor = Promoted(s, x, v) /\ y.viewport = x.viewport
  BY <1>1 DEF Context, SameButRects
<1>3. z = EnforceVirtual(s, y)
  BY DEF SetScissor
<1> HIDE DEF y, z
<1>4. /\ z \in Context /\ SameButRects(y, z)
      /\ z.viewport = Clamped(s, y, y.viewport)
      /\ z.scissor = Clamped(s, y, y.scissor)
  BY <1>2, <1>3, EnforceLemma
<1>5. SameButRects(x, z)
  BY <1>2, <1>4 DEF SameButRects
<1>6. z.scissor = Clamped(s, x, Promoted(s, x, v)) /\ z.viewport = Clamped(s, x, x.viewport)
  BY <1>2, <1>4, SameFits
<1>7. Fitting(s, x, z.scissor)
  BY <1>6, CorrectedFits
<1>8. x.viewport \in Rects
  BY DEF Context
<1>9. Fitting(s, x, x.viewport) => Fitting(s, x, z.viewport)
  BY <1>6, <1>8, CorrectedFits
<1>10. \A r : Fitting(s, z, r) <=> Fitting(s, x, r)
  BY <1>5, SameFits
<1> QED
  BY <1>4, <1>5, <1>7, <1>9, <1>10 DEF z, Fits2

\* What a bind asks for.
Request(b) ==
    /\ ~b.keep => b.first \in Targets
    /\ b.keep \in BOOLEAN

LEMMA SetTargetsLemma ==
    ASSUME NEW s, NEW x \in Context, NEW b, Request(b), NEW views \in BOOLEAN
    PROVE  /\ SetTargets(s, x, b, views) \in Context
           /\ Fits2(s, SetTargets(s, x, b, views))
           /\ SetTargets(s, x, b, views).ui = x.ui
           /\ SetTargets(s, x, b, views).rendering = x.rendering
<1> DEFINE remaps == Remaps(x, b) /\ ~(views /\ b.keep)
           declined == x.declined \/ (remaps /\ ~Fits(b))
           target == IF remaps /\ Fits(b) THEN "layer" ELSE Requested(x, b)
           y == [x EXCEPT !.declined = declined, !.target = target]
           v == EnforceVirtual(s, y)
           z == EnforceFull(s, v)
<1>1. declined \in BOOLEAN
  BY DEF Context
<1>2. target \in Targets
  BY DEF Context, Request, Requested, Targets
<1>3. SetTargets(s, x, b, views) = z
  BY DEF SetTargets
<1> HIDE DEF remaps, declined, target
<1>4. y \in Context /\ y.ui = x.ui /\ y.rendering = x.rendering
  BY <1>1, <1>2 DEF Context
<1> HIDE DEF y
<1>5. /\ v \in Context /\ SameButRects(y, v)
      /\ v.viewport = Clamped(s, y, y.viewport)
      /\ v.scissor = Clamped(s, y, y.scissor)
  BY <1>4, EnforceLemma
<1> HIDE DEF v
<1>6. /\ z \in Context /\ SameButRects(v, z)
      /\ z.viewport = Promoted(s, v, v.viewport)
      /\ z.scissor = Promoted(s, v, v.scissor)
  BY <1>5, EnforceLemma
<1> HIDE DEF z
<1>7. y.viewport \in Rects /\ y.scissor \in Rects
  BY <1>4 DEF Context
<1>8. SameButRects(y, z)
  BY <1>5, <1>6 DEF SameButRects
<1>9. /\ z.viewport = Promoted(s, y, Clamped(s, y, y.viewport))
      /\ z.scissor = Promoted(s, y, Clamped(s, y, y.scissor))
  BY <1>5, <1>6, SameFits
<1>10. Fitting(s, y, z.viewport) /\ Fitting(s, y, z.scissor)
  BY <1>4, <1>7, <1>9, CorrectedFits
<1>11. Fits2(s, z)
  BY <1>8, <1>10, SameFits DEF Fits2
<1> QED
  BY <1>3, <1>4, <1>6, <1>8, <1>11 DEF SameButRects

LEMMA BindLemma ==
    ASSUME NEW s, NEW x \in Context, NEW t \in Targets
    PROVE  /\ Bind(s, x, t) \in Context
           /\ Fits2(s, Bind(s, x, t))
           /\ Bind(s, x, t).ui = x.ui
           /\ Bind(s, x, t).rendering = x.rendering
<1> DEFINE b == [first |-> t, second |-> "none", keep |-> FALSE]
<1>1. Request(b)
  BY DEF Request
<1>2. Bind(s, x, t) = SetTargets(s, x, b, FALSE)
  BY DEF Bind
<1> HIDE DEF b
<1> QED
  BY <1>1, <1>2, SetTargetsLemma

\* Setting both rectangles: the scissor last.
LEMMA RectsLemma ==
    ASSUME NEW s, NEW x \in Context, NEW v \in Rects, NEW w \in Rects
    PROVE  /\ SetScissor(s, SetViewport(s, x, v), w) \in Context
           /\ SameButRects(x, SetScissor(s, SetViewport(s, x, v), w))
           /\ Fits2(s, SetScissor(s, SetViewport(s, x, v), w))
<1> DEFINE y == SetViewport(s, x, v)
           z == SetScissor(s, y, w)
<1>1. /\ y \in Context /\ SameButRects(x, y) /\ Fitting(s, x, y.viewport)
  BY SetViewportLemma
<1> HIDE DEF y
<1>2. Fitting(s, y, y.viewport)
  BY <1>1, SameFits
<1>3. /\ z \in Context /\ SameButRects(y, z) /\ Fits2(s, z)
  BY <1>1, <1>2, SetScissorLemma
<1> HIDE DEF z
<1>4. SameButRects(x, z)
  BY <1>1, <1>3 DEF SameButRects
<1> QED
  BY <1>3, <1>4 DEF z, y
\* begin_ui_rendering opens the layer, end_ui_rendering closes it.
LEMMA BeginUiLemma ==
    ASSUME NEW s, NEW x \in Context
    PROVE  BeginUi(s, x) \in Context /\ Fits2(s, BeginUi(s, x))
<1> DEFINE y == [x EXCEPT !.ui = TRUE, !.failed = FALSE,
                          !.declined = FALSE, !.rendering = TRUE]
           z == Bind(s, y, "layer")
<1>1. y \in Context
  BY DEF Context
<1>2. BeginUi(s, x) = SetScissor(s, SetViewport(s, z, "output"), "output")
  BY DEF BeginUi, RebindUi
<1> HIDE DEF y
<1>3. z \in Context
  BY <1>1, BindLemma DEF Targets
<1> HIDE DEF z
<1>4. "output" \in Rects
  BY DEF Rects
<1> QED
  BY <1>2, <1>3, <1>4, RectsLemma

LEMMA EndUiLemma ==
    ASSUME NEW s, NEW x \in Context, Fits2(s, x)
    PROVE  EndUi(s, x) \in Context /\ Fits2(s, EndUi(s, x))
<1> DEFINE y == IF x.rendering THEN Bind(s, x, "none") ELSE x
           z == [y EXCEPT !.rendering = FALSE, !.ui = FALSE]
<1>1. y \in Context /\ Fits2(s, y)
  BY BindLemma DEF Targets
<1>2. EndUi(s, x) = z
  BY DEF EndUi
<1> HIDE DEF y
<1>3. /\ z \in Context /\ z.target = y.target /\ z.ui = FALSE
      /\ z.viewport = y.viewport /\ z.scissor = y.scissor
  BY <1>1 DEF Context
<1> HIDE DEF z
<1> QED
  BY <1>1, <1>2, <1>3 DEF Fits2, Fitting

\* A pass of the plugin puts back what it found.
LEMMA DrawPassLemma ==
    ASSUME NEW s, NEW x \in Context, NEW t \in Targets
    PROVE  DrawPass(s, x, t) \in Context /\ Fits2(s, DrawPass(s, x, t))
<1> DEFINE a == Bind(s, x, "none")
           own == SetScissor(s, SetViewport(s, a, "output"), "output")
           e == Bind(s, own, t)
           drawn == Bind(s, e, "none")
           back == Bind(s, drawn, x.target)
<1>1. "none" \in Targets /\ "output" \in Rects /\ x.target \in Targets
      /\ x.viewport \in Rects /\ x.scissor \in Rects
  BY DEF Targets, Rects, Context
<1>2. DrawPass(s, x, t) = SetScissor(s, SetViewport(s, back, x.viewport), x.scissor)
  BY DEF DrawPass
<1>3. a \in Context
  BY <1>1, BindLemma
<1> HIDE DEF a
<1>4. own \in Context
  BY <1>1, <1>3, RectsLemma
<1> HIDE DEF own
<1>5. e \in Context
  BY <1>4, BindLemma
<1> HIDE DEF e
<1>6. drawn \in Context
  BY <1>1, <1>5, BindLemma
<1> HIDE DEF drawn
<1>7. back \in Context
  BY <1>1, <1>6, BindLemma
<1> HIDE DEF back
<1> QED
  BY <1>1, <1>2, <1>7, RectsLemma

-----------------------------------------------------------------------------
(***************************************************************************)
(* The passes.  A texture is told by its address as long as something      *)
(* holds it: a pass that keeps a view of the layer keeps its address, too. *)
(***************************************************************************)
Texture == [addr : Nat, id : Nat]

Report == [addr : Nat, id : Nat, wait : 0 .. ReportInterval, known : BOOLEAN,
           safe : BOOLEAN, reports : BOOLEAN, read : Texture, age : Nat,
           misses : Nat]

Extraction == [addr : Nat, id : Nat, wait : 0 .. CheckInterval,
               checks : 0 .. MaxChecks, pending : BOOLEAN, copy : Contents,
               verified : BOOLEAN]

\* Where t lies at the address of the layer it is the layer.
Same(t, l) == t.addr = l.addr => t.id = l.id

\* How old a classification can be, that long before it is renewed.
Fresh(r) ==
    r.known => r.age + r.wait <= (r.misses + 1) * (ReportInterval + 1) - 1

LEMMA TextureTypes ==
    /\ None \in Texture /\ None.addr = 0 /\ None.id = 0
    /\ NoReportState \in Report /\ NoReportState.addr = 0
    /\ ~NoReportState.known
    /\ NoExtraction \in Extraction /\ NoExtraction.addr = 0
    /\ \A l \in Texture :
          /\ NewReport(l) \in Report /\ NewReport(l).addr = l.addr
          /\ NewReport(l).id = l.id /\ ~NewReport(l).known
          /\ NewExtraction(l) \in Extraction /\ NewExtraction(l).addr = l.addr
          /\ NewExtraction(l).id = l.id
<1>1. None \in Texture /\ None.addr = 0 /\ None.id = 0
  BY DEF None, Texture
<1>2. 0 \in 0 .. ReportInterval /\ 0 \in 0 .. CheckInterval
      /\ 0 \in 0 .. MaxChecks /\ "none" \in Contents
  BY CadenceAssumption DEF Contents
<1>3. ASSUME NEW l \in Texture
      PROVE  /\ NewReport(l) \in Report /\ NewReport(l).addr = l.addr
             /\ NewReport(l).id = l.id /\ ~NewReport(l).known
             /\ NewExtraction(l) \in Extraction /\ NewExtraction(l).addr = l.addr
             /\ NewExtraction(l).id = l.id
  BY <1>1, <1>2 DEF NewReport, NewExtraction, Report, Extraction, Texture
<1>4. /\ NoReportState \in Report /\ NoReportState.addr = 0
      /\ NoReportState.known = NewReport(None).known
  BY <1>1, <1>3 DEF NoReportState, Report
<1>5. NoExtraction \in Extraction /\ NoExtraction.addr = 0
  BY <1>1, <1>3 DEF NoExtraction, Extraction
<1> QED
  BY <1>1, <1>3, <1>4, <1>5

LEMMA CompositeLemma ==
    ASSUME NEW h \in Texture, NEW l \in Texture, NEW created \in BOOLEAN,
           Same(h, l)
    PROVE  LET o == Composite(h, l, created)
           IN  /\ o.held \in Texture /\ o.ok \in BOOLEAN
               /\ o.ok => /\ o.held.addr = l.addr /\ o.held.id = l.id
                          /\ h.addr = l.addr => h.id = o.held.id
               /\ ~o.ok => o.held = None
<1> DEFINE o == Composite(h, l, created)
<1>1. \/ h.addr = l.addr /\ o = [held |-> h, ok |-> TRUE]
      \/ h.addr # l.addr /\ o = [held |-> l, ok |-> TRUE]
      \/ o = [held |-> None, ok |-> FALSE]
  BY DEF Composite
<1> HIDE DEF o
<1>2. CASE h.addr = l.addr /\ o = [held |-> h, ok |-> TRUE]
  <2>1. o.held = h /\ o.ok = TRUE
    BY <1>2
  <2> QED
    BY <1>2, <2>1 DEF Same, o
<1>3. CASE h.addr # l.addr /\ o = [held |-> l, ok |-> TRUE]
  <2>1. o.held = l /\ o.ok = TRUE
    BY <1>3
  <2> QED
    BY <1>3, <2>1 DEF o
<1>4. CASE o = [held |-> None, ok |-> FALSE]
  <2>1. o.held = None /\ o.ok = FALSE
    BY <1>4
  <2> QED
    BY <2>1, TextureTypes DEF o
<1> QED
  BY <1>1, <1>2, <1>3, <1>4

\* One interval more for one readback more.
LEMMA OneMore ==
    ASSUME NEW m \in Nat
    PROVE  ((m + 1) + 1) * (ReportInterval + 1) =
               (m + 1) * (ReportInterval + 1) + ReportInterval + 1
BY CadenceAssumption

LEMMA ReportLemma ==
    ASSUME NEW r \in Report, NEW l \in Texture, l.addr # 0,
           NEW created \in BOOLEAN, NEW mapped \in BOOLEAN, NEW what \in Contents,
           Fresh(r)
    PROVE  LET o == ReportLayer(r, l, created, mapped, what)
           IN  /\ o.state \in Report /\ o.safe \in BOOLEAN
               /\ o.state.addr \in {0, l.addr}
               /\ o.state.addr # 0 =>
                     \/ o.state.id = l.id
                     \/ r.addr = l.addr /\ o.state.id = r.id
               /\ o.state.known =>
                     \/ o.state.read = l
                     \/ r.addr = l.addr /\ r.known /\ o.state.read = r.read
               /\ o.state.known => o.state.addr # 0
               /\ o.safe => o.state.known
               /\ Fresh(o.state)
<1> DEFINE o == ReportLayer(r, l, created, mapped, what)
           cur == IF SameLayer(r, l) THEN r
                  ELSE IF created THEN NewReport(l) ELSE NoReportState
           older == [cur EXCEPT !.age = @ + 1]
           waited == [older EXCEPT !.wait = IF @ > 0 THEN @ - 1 ELSE 0]
           missed == [older EXCEPT !.wait = ReportInterval, !.misses = @ + 1]
           told == [cur EXCEPT !.wait = ReportInterval,
                               !.known = TRUE, !.safe = what # "scene",
                               !.reports = TRUE, !.read = l,
                               !.age = 0, !.misses = 0]
<1>1. /\ cur \in Report
      /\ cur.addr \in {0, l.addr}
      /\ cur.addr # 0 => cur.id = l.id \/ (r.addr = l.addr /\ cur.id = r.id)
      /\ cur.known => /\ r.addr = l.addr /\ r.known /\ cur.read = r.read
                      /\ cur.addr # 0
      /\ Fresh(cur)
  <2>1. CASE r.addr = l.addr
    BY <2>1 DEF SameLayer
  <2>2. CASE r.addr # l.addr /\ cur = NewReport(l)
    BY <2>2, TextureTypes DEF Fresh
  <2>3. CASE r.addr # l.addr /\ cur = NoReportState
    BY <2>3, TextureTypes DEF Fresh
  <2> QED
    BY <2>1, <2>2, <2>3 DEF SameLayer
<1>2. \/ cur.addr = 0 /\ o = [state |-> cur, safe |-> FALSE]
      \/ /\ cur.addr # 0 /\ cur.wait # 0
         /\ o = [state |-> waited, safe |-> cur.known /\ cur.safe]
      \/ /\ cur.addr # 0 /\ cur.wait = 0
         /\ o = [state |-> missed, safe |-> cur.known /\ cur.safe]
      \/ cur.addr # 0 /\ o = [state |-> told, safe |-> what # "scene"]
  BY DEF ReportLayer, Due
<1> HIDE DEF o, cur
<1>3. /\ cur.addr \in Nat /\ cur.id \in Nat /\ cur.wait \in 0 .. ReportInterval
      /\ cur.known \in BOOLEAN /\ cur.safe \in BOOLEAN /\ cur.reports \in BOOLEAN
      /\ cur.read \in Texture /\ cur.age \in Nat /\ cur.misses \in Nat
      /\ ReportInterval \in Nat
  BY <1>1, CadenceAssumption DEF Report
<1>8. /\ older \in Report /\ older.addr = cur.addr /\ older.id = cur.id
      /\ older.known = cur.known /\ older.read = cur.read
      /\ older.age = cur.age + 1 /\ older.wait = cur.wait
      /\ older.misses = cur.misses
  BY <1>1, <1>3 DEF Report
<1> HIDE DEF older
<1>4. CASE cur.addr = 0 /\ o = [state |-> cur, safe |-> FALSE]
  BY <1>1, <1>4 DEF o
<1>5. CASE /\ cur.addr # 0 /\ cur.wait # 0
           /\ o = [state |-> waited, safe |-> cur.known /\ cur.safe]
  <2> DEFINE ok == cur.known /\ cur.safe
  <2>1. /\ waited \in Report
        /\ waited.addr = cur.addr /\ waited.id = cur.id
        /\ waited.known = cur.known /\ waited.read = cur.read
        /\ waited.age = cur.age + 1 /\ waited.wait = cur.wait - 1
        /\ waited.misses = cur.misses
    <3>1. cur.wait - 1 \in 0 .. ReportInterval /\ cur.wait > 0
      BY <1>3, <1>5
    <3> QED
      BY <1>3, <1>8, <3>1 DEF Report
  <2>2. ok \in BOOLEAN /\ (ok => cur.known)
    BY <1>3
  <2> HIDE DEF ok
  <2>3. o.state = waited /\ o.safe = ok
    BY <1>5 DEF ok
  <2> HIDE DEF waited
  <2>4. Fresh(waited)
    BY <1>1, <1>3, <2>1 DEF Fresh
  <2> QED
    BY <1>1, <1>5, <2>1, <2>2, <2>3, <2>4 DEF o
<1>6. CASE /\ cur.addr # 0 /\ cur.wait = 0
           /\ o = [state |-> missed, safe |-> cur.known /\ cur.safe]
  <2> DEFINE ok == cur.known /\ cur.safe
  <2>1. /\ missed \in Report
        /\ missed.addr = cur.addr /\ missed.id = cur.id
        /\ missed.known = cur.known /\ missed.read = cur.read
        /\ missed.age = cur.age + 1 /\ missed.wait = ReportInterval
        /\ missed.misses = cur.misses + 1
    <3>1. ReportInterval \in 0 .. ReportInterval /\ cur.misses + 1 \in Nat
      BY <1>3
    <3> QED
      BY <1>8, <3>1 DEF Report
  <2>2. ok \in BOOLEAN /\ (ok => cur.known)
    BY <1>3
  <2> HIDE DEF ok
  <2>3. o.state = missed /\ o.safe = ok
    BY <1>6 DEF ok
  <2> HIDE DEF missed
  <2>4. Fresh(missed)
    <3> DEFINE m == (cur.misses + 1) * (ReportInterval + 1)
    <3>1. cur.known => cur.age + cur.wait <= m - 1
      BY <1>1 DEF Fresh
    <3>2. (missed.misses + 1) * (ReportInterval + 1) = m + ReportInterval + 1
      BY <1>3, <2>1, OneMore
    <3>3. m \in Nat
      BY <1>3
    <3> HIDE DEF m
    <3> QED
      BY <1>3, <1>6, <2>1, <3>1, <3>2, <3>3 DEF Fresh
  <2> QED
    BY <1>1, <1>6, <2>1, <2>2, <2>3, <2>4 DEF o
<1>7. CASE cur.addr # 0 /\ o = [state |-> told, safe |-> what # "scene"]
  <2> DEFINE ok == what # "scene"
  <2>1. ok \in BOOLEAN
    OBVIOUS
  <2> HIDE DEF ok
  <2>2. /\ told \in Report
        /\ told.addr = cur.addr /\ told.id = cur.id
        /\ told.known = TRUE /\ told.read = l
        /\ told.age = 0 /\ told.wait = ReportInterval /\ told.misses = 0
    <3>1. ReportInterval \in 0 .. ReportInterval /\ 0 \in Nat
      BY <1>3
    <3> QED
      BY <1>1, <2>1, <3>1 DEF Report, ok
  <2>3. o.state = told /\ o.safe = ok
    BY <1>7 DEF ok
  <2> HIDE DEF told
  <2>4. Fresh(told)
    BY <1>3, <2>2 DEF Fresh
  <2> QED
    BY <1>1, <1>7, <2>1, <2>2, <2>3, <2>4 DEF o
<1> QED
  BY <1>2, <1>4, <1>5, <1>6, <1>7

\* A copy is asked for only where one more may be looked at.
Counted(x) == x.pending => x.checks < MaxChecks

\* The copy that is looked at and the copy that is asked for leave the address
\* as it is.
LEMMA CopyLemma ==
    ASSUME NEW x \in Extraction, NEW copied \in BOOLEAN, NEW polled \in BOOLEAN,
           NEW what \in Contents, Counted(x)
    PROVE  /\ PollCopy(x, copied).addr = x.addr
           /\ PollCopy(x, copied).id = x.id
           /\ PollCopy(x, copied) \in Extraction /\ Counted(PollCopy(x, copied))
           /\ RequestCopy(x, polled, what) \in Extraction
           /\ Counted(RequestCopy(x, polled, what))
           /\ RequestCopy(x, polled, what).addr = x.addr
           /\ RequestCopy(x, polled, what).id = x.id
<1>1. /\ x.wait \in 0 .. CheckInterval /\ x.checks \in 0 .. MaxChecks
      /\ CheckInterval \in Nat /\ MaxChecks \in Nat /\ "none" \in Contents
  BY CadenceAssumption DEF Extraction, Contents
<1>2. /\ PollCopy(x, copied).addr = x.addr /\ PollCopy(x, copied).id = x.id
      /\ RequestCopy(x, polled, what).addr = x.addr
      /\ RequestCopy(x, polled, what).id = x.id
  BY DEF PollCopy, RequestCopy, Extraction
<1>3. PollCopy(x, copied) \in Extraction /\ Counted(PollCopy(x, copied))
  <2> DEFINE ui == x.copy = "ui"
  <2>1. ui \in BOOLEAN
    OBVIOUS
  <2>2. PollCopy(x, copied) = IF x.pending /\ copied
                              THEN [x EXCEPT !.pending = FALSE, !.checks = @ + 1,
                                             !.verified = ui, !.copy = "none"]
                              ELSE x
    BY DEF PollCopy
  <2> HIDE DEF ui
  <2>3. x.pending => x.checks + 1 \in 0 .. MaxChecks
    BY <1>1 DEF Counted
  <2> QED
    BY <1>1, <2>1, <2>2, <2>3 DEF Extraction, Counted
<1>4. /\ RequestCopy(x, polled, what) \in Extraction
      /\ Counted(RequestCopy(x, polled, what))
  <2>1. CheckInterval \in 0 .. CheckInterval
        /\ (x.wait # 0 => x.wait - 1 \in 0 .. CheckInterval)
    BY <1>1
  <2> DEFINE new == [x EXCEPT !.pending = TRUE, !.copy = what,
                              !.wait = CheckInterval]
             later == [x EXCEPT !.wait = @ - 1]
  <2>2. /\ new \in Extraction /\ new.checks = x.checks
    BY <2>1 DEF Extraction
  <2>3. x.wait # 0 => later \in Extraction /\ Counted(later)
    BY <2>1 DEF Extraction, Counted
  <2>4. \/ RequestCopy(x, polled, what) = x
        \/ ~(x.checks >= MaxChecks) /\ RequestCopy(x, polled, what) = new
        \/ x.wait # 0 /\ RequestCopy(x, polled, what) = later
    BY DEF RequestCopy
  <2> HIDE DEF new, later
  <2>5. ~(x.checks >= MaxChecks) => Counted(new)
    BY <1>1, <2>2 DEF Counted
  <2> QED
    BY <2>2, <2>3, <2>4, <2>5
<1> QED
  BY <1>2, <1>3, <1>4

LEMMA ExtractLemma ==
    ASSUME NEW x \in Extraction, NEW l \in Texture, l.addr # 0, Counted(x),
           NEW created \in BOOLEAN, NEW copied \in BOOLEAN, NEW what \in Contents
    PROVE  LET o == ExtractLayer(x, l, created, copied, what)
           IN  /\ o.state \in Extraction /\ Counted(o.state)
               /\ o.state.addr \in {0, l.addr}
               /\ o.state.addr # 0 =>
                     o.state.id = l.id \/ (x.addr = l.addr /\ o.state.id = x.id)
               /\ o.safe => o.state.addr # 0
<1> DEFINE o == ExtractLayer(x, l, created, copied, what)
           cur == IF x.addr = l.addr THEN x
                  ELSE IF created THEN NewExtraction(l) ELSE NoExtraction
           seen == IF cur.verified THEN cur ELSE PollCopy(cur, copied)
           asked == IF seen.verified THEN seen
                    ELSE RequestCopy(seen, cur.pending, what)
<1>1. /\ cur \in Extraction /\ Counted(cur)
      /\ cur.addr \in {0, l.addr}
      /\ cur.addr # 0 => cur.id = l.id \/ (x.addr = l.addr /\ cur.id = x.id)
  <2>1. NewExtraction(l).pending = FALSE /\ NoExtraction.pending = FALSE
    BY DEF NewExtraction, NoExtraction
  <2>2. CASE x.addr = l.addr
    BY <2>2
  <2>3. CASE x.addr # l.addr /\ cur = NewExtraction(l)
    BY <2>1, <2>3, TextureTypes DEF Counted
  <2>4. CASE x.addr # l.addr /\ cur = NoExtraction
    BY <2>1, <2>4, TextureTypes DEF Counted
  <2> QED
    BY <2>2, <2>3, <2>4
<1>2. \/ cur.addr = 0 /\ o = [state |-> cur, safe |-> FALSE]
      \/ cur.addr # 0 /\ o = [state |-> asked, safe |-> asked.verified]
  BY DEF ExtractLayer
<1> HIDE DEF o, cur
<1>3. cur.pending \in BOOLEAN
  BY <1>1 DEF Extraction
<1>4. /\ seen \in Extraction /\ Counted(seen)
      /\ seen.addr = cur.addr /\ seen.id = cur.id
  BY <1>1, CopyLemma
<1> HIDE DEF seen
<1>5. /\ asked \in Extraction /\ Counted(asked)
      /\ asked.addr = cur.addr /\ asked.id = cur.id
  BY <1>3, <1>4, CopyLemma
<1> HIDE DEF asked
<1>6. CASE cur.addr = 0 /\ o = [state |-> cur, safe |-> FALSE]
  <2>1. o.state = cur /\ o.safe = FALSE
    BY <1>6
  <2> QED
    BY <1>1, <1>6, <2>1 DEF o
<1>7. CASE cur.addr # 0 /\ o = [state |-> asked, safe |-> asked.verified]
  <2>1. o.state = asked /\ o.safe = asked.verified
    BY <1>7
  <2> QED
    BY <1>1, <1>5, <1>7, <2>1 DEF o
<1> QED
  BY <1>2, <1>6, <1>7

-----------------------------------------------------------------------------
(***************************************************************************)
(* The invariant.  The context is right on its own.  What a pass remembers *)
(* of a texture is true as long as it holds it: the report holds nothing,  *)
(* and is right only because the composite, which does hold the layer, was *)
(* told of the same one just before.                                       *)
(***************************************************************************)
Drawn(s, x, w) == x \in Context /\ Fits2(s, x) /\ w \in Contents

Held(l, h, e) ==
    /\ l \in Texture /\ l.addr # 0
    /\ h \in Texture /\ Same(h, l)
    /\ e \in Extraction /\ Same(e, l) /\ Counted(e)

Reported(h, r, f) ==
    /\ r \in Report /\ Fresh(r)
    /\ ~f /\ r.addr # 0 => r.addr = h.addr /\ r.id = h.id
    /\ ~f /\ r.known => r.read.id = r.id

Told(h, f) ==
    /\ h.id # 0 /\ ~f => h.read = h.id
    /\ h.age <= (h.misses + 1) * (ReportInterval + 1) - 1

UiInv ==
    /\ Drawn(surface, c, content)
    /\ Held(layer, held, extraction)
    /\ Reported(held, report, failed)
    /\ Told(handed, failed)
    /\ faults \in 0 .. MaxFaults

LEMMA NothingTold == ASSUME NEW f PROVE Told(NothingHanded, f)
<1>1. /\ NothingHanded.id = 0 /\ NothingHanded.age = 0
      /\ NothingHanded.misses = 0
  BY DEF NothingHanded
<1>2. 0 <= (0 + 1) * (ReportInterval + 1) - 1
  BY CadenceAssumption
<1> QED
  BY <1>1, <1>2 DEF Told

\* What a texture that holds nothing says is true of any layer.
LEMMA NothingHeld ==
    /\ \A l : l.addr # 0 => Same(None, l) /\ Same(NoExtraction, l)
    /\ Counted(NoExtraction)
    /\ \A h, f : Reported(h, NoReportState, f)
<1>1. NoExtraction.pending = FALSE
  BY DEF NoExtraction, NewExtraction
<1> QED
  BY <1>1, TextureTypes DEF Same, Counted, Reported, Fresh

LEMMA InitUi == ASSUME Init PROVE UiInv
<1>1. PICK a \in Addresses : layer = [addr |-> a, id |-> 1]
  BY DEF Init
<1>2. layer \in Texture /\ layer.addr # 0
  BY <1>1, AddressAssumption DEF Texture
<1>3. Drawn(surface, c, content)
  <2>1. c = NewContext /\ content = "none"
    BY DEF Init
  <2> QED
    BY <2>1 DEF NewContext, Drawn, Context, Targets, Rects, Contents, Fits2,
                Fitting, Extent
<1>4. /\ held = None /\ extraction = NoExtraction /\ report = NoReportState
      /\ handed = NothingHanded /\ faults = 0
  BY DEF Init
<1>5. Held(layer, held, extraction)
  BY <1>2, <1>4, TextureTypes, NothingHeld DEF Held
<1>6. Reported(held, report, failed) /\ Told(handed, failed)
  BY <1>4, NothingHeld, NothingTold
<1> QED
  BY <1>3, <1>4, <1>5, <1>6, BoundsAssumption DEF UiInv

-----------------------------------------------------------------------------
(***************************************************************************)
(* Skyrim's calls change the context and the content only.                 *)
(***************************************************************************)
LEMMA OnlyDrawing ==
    ASSUME UiInv, UnchangedPasses, Drawn(surface, c', content')
    PROVE  UiInv'
<1>1. /\ surface' = surface /\ layer' = layer /\ held' = held
      /\ report' = report /\ extraction' = extraction
      /\ faults' = faults /\ failed' = failed /\ handed' = handed
  BY DEF UnchangedPasses
<1> QED
  BY <1>1 DEF UiInv

LEMMA GameCalls ==
    ASSUME UiInv,
           \/ \E b \in Binds, views \in BOOLEAN : GameBind(b, views)
           \/ \E v \in SceneViewports : GameViewport(v) \/ GameScissor(v)
           \/ \E w \in {"ui", "scene"} : DrawLayer(w)
    PROVE  UiInv'
<1>1. /\ c \in Context /\ Fits2(surface, c) /\ content \in Contents
      /\ Fitting(surface, c, c.viewport) /\ Fitting(surface, c, c.scissor)
  BY DEF UiInv, Drawn, Fits2
<1>2. ASSUME NEW b \in Binds, NEW views \in BOOLEAN, GameBind(b, views)
      PROVE  UiInv'
  <2>1. b.first \in Targets /\ b.keep \in BOOLEAN
    BY <1>2 DEF Binds, Targets
  <2>2. /\ c' = SetTargets(surface, c, b, views) /\ content' = content
        /\ UnchangedPasses
    BY <1>2 DEF GameBind
  <2>3. Drawn(surface, c', content')
    BY <1>1, <1>2, <2>1, <2>2, SetTargetsLemma DEF Request, Drawn
  <2> QED
    BY <2>2, <2>3, OnlyDrawing
<1>3. ASSUME NEW v \in SceneViewports, GameViewport(v)
      PROVE  UiInv'
  <2>1. v \in Rects
    BY <1>3 DEF SceneViewports, Rects
  <2>2. /\ c' = SetViewport(surface, c, v) /\ content' = content
        /\ UnchangedPasses
    BY <1>3 DEF GameViewport
  <2>3. Drawn(surface, c', content')
    BY <1>1, <2>1, <2>2, SetViewportLemma DEF Drawn
  <2> QED
    BY <2>2, <2>3, OnlyDrawing
<1>4. ASSUME NEW v \in SceneViewports, GameScissor(v)
      PROVE  UiInv'
  <2>1. v \in Rects
    BY <1>4 DEF SceneViewports, Rects
  <2>2. /\ c' = SetScissor(surface, c, v) /\ content' = content
        /\ UnchangedPasses
    BY <1>4 DEF GameScissor
  <2>3. Drawn(surface, c', content')
    BY <1>1, <2>1, <2>2, SetScissorLemma DEF Drawn
  <2> QED
    BY <2>2, <2>3, OnlyDrawing
<1>5. ASSUME NEW w \in {"ui", "scene"}, DrawLayer(w)
      PROVE  UiInv'
  <2>1. c' = c /\ content' = w /\ UnchangedPasses
    BY <1>5 DEF DrawLayer
  <2>2. Drawn(surface, c', content')
    BY <1>1, <1>5, <2>1 DEF Drawn, Contents
  <2> QED
    BY <2>1, <2>2, OnlyDrawing
<1> QED
  BY <1>2, <1>3, <1>4, <1>5

LEMMA Displays ==
    ASSUME UiInv, (\E opens \in BOOLEAN : BeginDisplay(opens)) \/ EndDisplay
    PROVE  UiInv'
<1>1. c \in Context /\ Fits2(surface, c) /\ content \in Contents
  BY DEF UiInv, Drawn
<1>2. ASSUME NEW in \in BOOLEAN
      PROVE  /\ [c EXCEPT !.inside = in] \in Context
             /\ Fits2(surface, [c EXCEPT !.inside = in])
  <2> DEFINE x == [c EXCEPT !.inside = in]
  <2>1. /\ x \in Context /\ x.target = c.target /\ x.ui = c.ui
        /\ x.viewport = c.viewport /\ x.scissor = c.scissor
    BY <1>1 DEF Context
  <2> HIDE DEF x
  <2>2. Fits2(surface, x)
    BY <1>1, <2>1 DEF Fits2, Fitting
  <2> QED
    BY <2>1, <2>2 DEF x
<1>3. ASSUME NEW opens \in BOOLEAN, BeginDisplay(opens)
      PROVE  UiInv'
  <2> DEFINE entered == [c EXCEPT !.inside = TRUE]
  <2>1. /\ c' = entered \/ c' = BeginUi(surface, entered)
        /\ content' = content \/ content' = "none"
        /\ UnchangedPasses
    BY <1>3 DEF BeginDisplay
  <2>2. entered \in Context /\ Fits2(surface, entered)
    BY <1>2
  <2> HIDE DEF entered
  <2>3. c' \in Context /\ Fits2(surface, c')
    BY <2>1, <2>2, BeginUiLemma
  <2>4. content' \in Contents
    BY <1>1, <2>1 DEF Contents
  <2> QED
    BY <2>1, <2>3, <2>4, OnlyDrawing DEF Drawn
<1>4. ASSUME EndDisplay PROVE UiInv'
  <2>1. /\ c' = [c EXCEPT !.inside = FALSE] /\ content' = content
        /\ UnchangedPasses
    BY <1>4 DEF EndDisplay
  <2>2. Drawn(surface, c', content')
    BY <1>1, <1>2, <2>1 DEF Drawn
  <2> QED
    BY <2>1, <2>2, OnlyDrawing
<1> QED
  BY <1>3, <1>4

-----------------------------------------------------------------------------
(***************************************************************************)
(* Present.                                                                *)
(***************************************************************************)
LEMMA FaultBound ==
    ASSUME NEW happens \in BOOLEAN, faults \in 0 .. MaxFaults, Fault(happens)
    PROVE  faults' \in 0 .. MaxFaults
BY BoundsAssumption DEF Fault

LEMMA DirectStep ==
    ASSUME UiInv, NEW created \in BOOLEAN, NEW mapped \in BOOLEAN,
           PresentDirect(created, mapped)
    PROVE  UiInv'
<1> DEFINE composed == Composite(held, layer, created)
           closed == EndUi(surface, c)
           told == ReportLayer(report, layer, created, mapped, content)
           said == [id |-> layer.id, read |-> told.state.read.id,
                    age |-> told.state.age, misses |-> told.state.misses]
           fault == ~created \/ ~mapped
<1>1. /\ Fault(fault)
      /\ held' = composed.held
      /\ failed' = (failed \/ ~composed.ok)
      /\ c' = IF composed.ok THEN DrawPass(surface, closed, "back") ELSE closed
      /\ report' = IF composed.ok THEN told.state ELSE report
      /\ handed' = IF composed.ok /\ told.safe THEN said ELSE NothingHanded
      /\ content' = "none"
      /\ surface' = surface /\ layer' = layer /\ extraction' = extraction
  BY DEF PresentDirect
<1>2. /\ c \in Context /\ Fits2(surface, c) /\ content \in Contents
      /\ layer \in Texture /\ layer.addr # 0 /\ held \in Texture
      /\ Same(held, layer) /\ report \in Report /\ Fresh(report)
      /\ faults \in 0 .. MaxFaults
      /\ ~failed /\ report.addr # 0 =>
            report.addr = held.addr /\ report.id = held.id
      /\ ~failed /\ report.known => report.read.id = report.id
      /\ Held(layer, held, extraction) /\ Reported(held, report, failed)
  BY DEF UiInv, Drawn, Held, Reported
<1>3. faults' \in 0 .. MaxFaults
  BY <1>1, <1>2, FaultBound
<1>4. /\ composed.held \in Texture /\ composed.ok \in BOOLEAN
      /\ composed.ok => /\ composed.held.addr = layer.addr
                        /\ composed.held.id = layer.id
      /\ ~composed.ok => composed.held = None
  BY <1>2, CompositeLemma
<1>5. /\ told.state \in Report /\ told.safe \in BOOLEAN
      /\ told.state.addr \in {0, layer.addr}
      /\ told.state.addr # 0 =>
            \/ told.state.id = layer.id
            \/ report.addr = layer.addr /\ told.state.id = report.id
      /\ told.state.known =>
            \/ told.state.read = layer
            \/ report.addr = layer.addr /\ report.known
               /\ told.state.read = report.read
      /\ told.state.known => told.state.addr # 0
      /\ told.safe => told.state.known
      /\ Fresh(told.state)
  BY <1>2, ReportLemma
<1>6. closed \in Context /\ Fits2(surface, closed)
  BY <1>2, EndUiLemma
<1> HIDE DEF composed, closed, told, fault
<1>7. Drawn(surface', c', content')
  BY <1>1, <1>6, DrawPassLemma DEF Drawn, Contents, Targets
<1>8. Held(layer', held', extraction')
  <2>1. Same(composed.held, layer)
    BY <1>2, <1>4, TextureTypes DEF Same
  <2> QED
    BY <1>1, <1>2, <1>4, <2>1 DEF Held
\* While the composite has not failed, whatever lay at the layer's address
\* was the layer.
<1>9. ASSUME ~failed, composed.ok
      PROVE  /\ told.state.addr # 0 => told.state.id = layer.id
             /\ told.state.known /\ told.state.addr # 0 =>
                   told.state.read.id = layer.id
  <2>1. report.addr = layer.addr => report.id = layer.id
    BY <1>2, <1>9 DEF Same
  <2> QED
    BY <1>2, <1>5, <1>9, <2>1
<1>10. CASE ~composed.ok
  <2>1. /\ failed' = TRUE /\ report' = report /\ handed' = NothingHanded
    BY <1>1, <1>10
  <2>2. Reported(held', report', failed')
    BY <1>2, <2>1 DEF Reported
  <2> QED
    BY <1>3, <1>7, <1>8, <2>1, <2>2, NothingTold DEF UiInv
<1>11. CASE composed.ok
  <2>1. /\ report' = told.state
        /\ held'.addr = layer.addr /\ held'.id = layer.id
        /\ handed' = IF told.safe THEN said ELSE NothingHanded
    BY <1>1, <1>4, <1>11
  <2>4. failed' => failed
    BY <1>1, <1>11
  <2>5. failed => failed'
    BY <1>1
  <2>2. Reported(held', report', failed')
    <3>1. told.state \in Report /\ Fresh(told.state)
      BY <1>5
    <3>2. ~failed' /\ told.state.addr # 0 =>
             told.state.addr = held'.addr /\ told.state.id = held'.id
      BY <1>5, <1>9, <1>11, <2>1, <2>5
    <3>3. ~failed' /\ told.state.known => told.state.read.id = told.state.id
      BY <1>2, <1>5, <1>9, <1>11, <2>5
    <3> QED
      BY <2>1, <3>1, <3>2, <3>3 DEF Reported
  <2>3. Told(handed', failed')
    <3>1. CASE told.safe
      <4>1. /\ handed' = said
        BY <2>1, <3>1
      <4>2. /\ said.id = layer.id /\ said.read = told.state.read.id
            /\ said.age = told.state.age /\ said.misses = told.state.misses
        OBVIOUS
      <4> HIDE DEF said
      <4>3. told.state.age + told.state.wait <=
              (told.state.misses + 1) * (ReportInterval + 1) - 1
        BY <1>5, <3>1 DEF Fresh
      <4>4. /\ told.state.age \in Nat /\ told.state.wait \in Nat
            /\ (told.state.misses + 1) * (ReportInterval + 1) \in Nat
        <5>1. /\ told.state.age \in Nat /\ told.state.misses \in Nat
              /\ told.state.wait \in 0 .. ReportInterval
          BY <1>5 DEF Report
        <5> QED
          BY <5>1, CadenceAssumption
      <4>5. told.state.age <=
              (told.state.misses + 1) * (ReportInterval + 1) - 1
        BY <4>3, <4>4
      <4> QED
        BY <1>5, <1>9, <1>11, <2>5, <3>1, <4>1, <4>2, <4>5 DEF Told
    <3>2. CASE ~told.safe
      BY <2>1, <3>2, NothingTold
    <3> QED
      BY <3>1, <3>2
  <2> QED
    BY <1>3, <1>7, <1>8, <2>2, <2>3 DEF UiInv
<1> QED
  BY <1>10, <1>11

LEMMA ExtractedStep ==
    ASSUME UiInv, NEW created \in BOOLEAN, NEW copied \in BOOLEAN,
           NEW what \in Contents, PresentExtracted(created, copied, what)
    PROVE  UiInv'
<1> DEFINE found == ExtractLayer(extraction, layer, created, copied, what)
           closed == EndUi(surface, c)
           said == [NothingHanded EXCEPT !.id = layer.id, !.read = found.state.id]
           fault == ~created
<1>1. /\ Fault(fault)
      /\ extraction' = found.state
      /\ c' = IF found.state.addr # 0 THEN DrawPass(surface, closed, "layer")
              ELSE closed
      /\ handed' = IF found.safe THEN said ELSE NothingHanded
      /\ content' = "none"
      /\ surface' = surface /\ layer' = layer /\ held' = held
      /\ report' = report /\ failed' = failed
  BY DEF PresentExtracted
<1>2. /\ c \in Context /\ Fits2(surface, c) /\ faults \in 0 .. MaxFaults
      /\ layer \in Texture /\ layer.addr # 0 /\ held \in Texture
      /\ Same(held, layer) /\ extraction \in Extraction
      /\ Same(extraction, layer) /\ Counted(extraction)
      /\ Reported(held, report, failed)
  BY DEF UiInv, Drawn, Held
<1>3. faults' \in 0 .. MaxFaults
  BY <1>1, <1>2, FaultBound
<1>4. /\ found.state \in Extraction /\ Counted(found.state)
      /\ found.state.addr \in {0, layer.addr}
      /\ found.state.addr # 0 =>
            \/ found.state.id = layer.id
            \/ extraction.addr = layer.addr /\ found.state.id = extraction.id
      /\ found.safe => found.state.addr # 0
  BY <1>2, ExtractLemma
<1>5. closed \in Context /\ Fits2(surface, closed)
  BY <1>2, EndUiLemma
<1> HIDE DEF found, closed, fault
<1>6. Drawn(surface', c', content')
  BY <1>1, <1>5, DrawPassLemma DEF Drawn, Contents, Targets
<1>7. found.state.addr # 0 => found.state.id = layer.id
  BY <1>2, <1>4 DEF Same
<1>8. Held(layer', held', extraction')
  BY <1>1, <1>2, <1>4, <1>7 DEF Held, Same
<1>9. Told(handed', failed')
  <2>1. CASE found.safe
    <3>1. /\ said.id = layer.id /\ said.read = found.state.id
          /\ said.age = 0 /\ said.misses = 0
      BY DEF NothingHanded
    <3>2. handed' = said
      BY <1>1, <2>1
    <3> HIDE DEF said
    <3>3. 0 <= (0 + 1) * (ReportInterval + 1) - 1
      BY CadenceAssumption
    <3> QED
      BY <1>4, <1>7, <2>1, <3>1, <3>2, <3>3 DEF Told
  <2>2. CASE ~found.safe
    BY <1>1, <2>2, NothingTold
  <2> QED
    BY <2>1, <2>2
<1> QED
  BY <1>1, <1>2, <1>3, <1>6, <1>8, <1>9 DEF UiInv

-----------------------------------------------------------------------------
(***************************************************************************)
(* A save is loaded, the textures are rebuilt, the passes are shut down.   *)
(***************************************************************************)
LEMMA LoadStep == ASSUME UiInv, LoadSave PROVE UiInv'
<1>1. /\ report' = ResetReports(report)
      /\ surface' = surface /\ c' = c /\ content' = content /\ layer' = layer
      /\ held' = held /\ extraction' = extraction /\ faults' = faults
      /\ failed' = failed /\ handed' = handed
  BY DEF LoadSave
<1>2. report \in Report /\ Reported(held, report, failed)
  BY DEF UiInv, Reported
<1>3. 0 \in 0 .. ReportInterval
  BY CadenceAssumption
<1>4. /\ ResetReports(report) \in Report
      /\ ResetReports(report).addr = report.addr
      /\ ResetReports(report).id = report.id
      /\ \/ ResetReports(report) = report
         \/ ResetReports(report).known = FALSE
  BY <1>2, <1>3 DEF ResetReports, Report
<1>5. Reported(held, report', failed)
  BY <1>1, <1>2, <1>4 DEF Reported, Fresh
<1> QED
  BY <1>1, <1>5 DEF UiInv

LEMMA RebuildStep == ASSUME UiInv, Rebuild PROVE UiInv'
<1>1. PICK a \in Addresses \ InUse : layer' = [addr |-> a, id |-> layer.id + 1]
  BY DEF Rebuild
<1>2. /\ c' = [c EXCEPT !.rendering = FALSE,
                        !.target = IF @ = "layer" THEN "none" ELSE @]
      /\ content' = "none" /\ handed' = NothingHanded
      /\ surface' = surface /\ held' = held /\ report' = report
      /\ extraction' = extraction /\ faults' = faults /\ failed' = failed
  BY DEF Rebuild
<1>3. /\ c \in Context /\ Fits2(surface, c) /\ layer \in Texture
      /\ held \in Texture /\ extraction \in Extraction /\ Counted(extraction)
  BY DEF UiInv, Drawn, Held
<1>4. /\ layer' \in Texture /\ layer'.addr = a /\ a # 0
  BY <1>1, <1>3, AddressAssumption DEF Texture
<1>5. a # held.addr /\ a # extraction.addr
  <2>1. held.addr \in InUse
    BY DEF InUse
  <2>2. [addr |-> extraction.addr].addr \in InUse
    BY DEF InUse
  <2>3. extraction.addr \in InUse
    BY <2>2
  <2> QED
    BY <1>1, <2>1, <2>3
<1>6. Held(layer', held', extraction')
  BY <1>2, <1>3, <1>4, <1>5 DEF Held, Same
<1>7. Drawn(surface', c', content')
  <2>1. /\ c' \in Context /\ c'.ui = c.ui
        /\ c'.viewport = c.viewport /\ c'.scissor = c.scissor
        /\ c'.target = IF c.target = "layer" THEN "none" ELSE c.target
    BY <1>2, <1>3 DEF Context, Targets
  <2>2. Fits2(surface, c')
    <3>1. CASE c.target = "layer"
      BY <2>1, <3>1 DEF Fits2, Fitting, Extent
    <3>2. CASE c.target # "layer"
      BY <1>3, <2>1, <3>2 DEF Fits2, Fitting
    <3> QED
      BY <3>1, <3>2
  <2> QED
    BY <1>2, <2>1, <2>2 DEF Drawn, Contents
<1> QED
  BY <1>2, <1>6, <1>7, NothingTold DEF UiInv

LEMMA ResetStep == ASSUME UiInv, ResetPasses PROVE UiInv'
<1>1. /\ held' = None /\ report' = NoReportState /\ extraction' = NoExtraction
      /\ failed' = FALSE /\ handed' = NothingHanded
      /\ surface' = surface /\ c' = c /\ content' = content /\ layer' = layer
      /\ faults' = faults
  BY DEF ResetPasses
<1>2. layer \in Texture /\ layer.addr # 0
  BY DEF UiInv, Held
<1>3. Held(layer', held', extraction')
  BY <1>1, <1>2, NothingHeld, TextureTypes DEF Held
<1>4. Reported(held', report', failed') /\ Told(handed', failed')
  BY <1>1, NothingHeld, NothingTold
<1> QED
  BY <1>1, <1>3, <1>4 DEF UiInv

LEMMA Unmoved == ASSUME UiInv, UNCHANGED vars PROVE UiInv'
<1>1. /\ surface' = surface /\ c' = c /\ content' = content /\ layer' = layer
      /\ held' = held /\ report' = report /\ extraction' = extraction
      /\ faults' = faults /\ failed' = failed /\ handed' = handed
  BY DEF vars
<1> QED
  BY <1>1 DEF UiInv

-----------------------------------------------------------------------------
\* The invariant holds in every state, whatever the addresses are, however often
\* the layer is read and however long the session is.
THEOREM UiInvariant == Spec => []UiInv
<1>1. ASSUME UiInv, [Next]_vars
      PROVE  UiInv'
  <2>1. CASE UNCHANGED vars
    BY <1>1, <2>1, Unmoved
  <2>2. CASE \/ \E b \in Binds, views \in BOOLEAN : GameBind(b, views)
             \/ \E v \in SceneViewports : GameViewport(v) \/ GameScissor(v)
             \/ \E w \in {"ui", "scene"} : DrawLayer(w)
    BY <1>1, <2>2, GameCalls
  <2>3. CASE (\E o \in BOOLEAN : BeginDisplay(o)) \/ EndDisplay
    BY <1>1, <2>3, Displays
  <2>4. CASE \E made, mapped \in BOOLEAN : PresentDirect(made, mapped)
    BY <1>1, <2>4, DirectStep
  <2>5. CASE \E made, copied \in BOOLEAN, w \in Contents :
               PresentExtracted(made, copied, w)
    BY <1>1, <2>5, ExtractedStep
  <2>6. CASE LoadSave
    BY <1>1, <2>6, LoadStep
  <2>7. CASE Rebuild
    BY <1>1, <2>7, RebuildStep
  <2>8. CASE ResetPasses
    BY <1>1, <2>8, ResetStep
  <2> QED
    BY <1>1, <2>1, <2>2, <2>3, <2>4, <2>5, <2>6, <2>7, <2>8 DEF Next
<1> QED
  BY InitUi, <1>1, PTL DEF Spec

\* Whatever order Skyrim binds targets and sets rectangles in, and whatever a
\* pass of the plugin puts back, nothing is drawn past the reduced surface and
\* the UI fills the layer (remap_full_resolution_ui_targets and the two
\* enforce_ functions of DynamicResolution.cpp).
THEOREM RasterAlwaysFits == Spec => []RasterFits
<1>1. UiInv => RasterFits
  BY DEF UiInv, Drawn, Fits2, Fitting, RasterFits
<1> QED
  BY <1>1, UiInvariant, PTL

\* Wherever the textures of a rebuild come to lie, a layer is handed over as
\* safe only where this very texture was read (report_captured_ui_layer and
\* extract_ui_layer of UiCompositePass.cpp compare addresses only).
THEOREM ClassifiedTextureAlways == Spec => []ClassifiedTexture
<1>1. UiInv => ClassifiedTexture
  BY DEF UiInv, Told, ClassifiedTexture
<1> QED
  BY <1>1, UiInvariant, PTL

\* For any interval of the readbacks, what is handed over was read at most one
\* interval ago, and one more for each readback that failed since.
THEOREM ClassificationNeverOld == Spec => []ClassificationAge
<1>1. UiInv => ClassificationAge
  BY DEF UiInv, Told, ClassificationAge
<1> QED
  BY <1>1, UiInvariant, PTL

\* The state has the types that UiLayer declares.
THEOREM TypesHold == Spec => []TypeOK
<1>1. UiInv => TypeOK
  BY DEF UiInv, Drawn, Context, Rects, Held, Reported, Report, Extraction, TypeOK
<1> QED
  BY <1>1, UiInvariant, PTL


-----------------------------------------------------------------------------
(***************************************************************************)
(* OptionsMenu.  The least and the greatest member of a set of numbers.    *)
(***************************************************************************)
LEMMA LeastNatural ==
  ASSUME NEW S, S \subseteq Nat, S # {}
  PROVE  \E x \in S : \A y \in S : x <= y
<1>1. PICK x \in S : \A y \in S : ~ (<<y, x>> \in OpToRel(<, Nat))
  BY NatLessThanWellFounded, WFMin
<1>2. ASSUME NEW y \in S
      PROVE  x <= y
  <2>1. <<y, x>> \in Nat \X Nat /\ <<y, x>>[1] = y /\ <<y, x>>[2] = x
    OBVIOUS
  <2>2. ~ (y < x)
    BY <1>1, <2>1, Zenon DEF OpToRel
  <2> QED BY <2>2
<1> QED BY <1>2

LEMMA MinFacts ==
  ASSUME NEW S, S \subseteq Nat, S # {}
  PROVE  Min(S) \in S /\ \A y \in S : Min(S) <= y
BY LeastNatural DEF Min

LEMMA MaxFacts ==
  ASSUME NEW n \in Nat, NEW S, S \subseteq 0..n, S # {}
  PROVE  Max(S) \in S /\ \A y \in S : Max(S) >= y
<1> DEFINE T == {n - x : x \in S}
<1>1. T \subseteq Nat /\ T # {}
  <2>1. \A x \in S : n - x \in Nat
    OBVIOUS
  <2>2. PICK x : x \in S
    OBVIOUS
  <2>3. n - x \in T
    BY <2>2
  <2> QED BY <2>1, <2>3
<1>2. PICK t \in T : \A u \in T : t <= u
  <2> HIDE DEF T
  <2> QED BY <1>1, LeastNatural
<1>3. PICK x \in S : t = n - x
  BY <1>2
<1>4. ASSUME NEW y \in S
      PROVE  x >= y
  <2>1. n - x <= n - y
    BY <1>2, <1>3
  <2> QED BY <2>1
<1> QED BY <1>4 DEF Max

-----------------------------------------------------------------------------
(***************************************************************************)
(* Caps, however the controls come to them.                                *)
(***************************************************************************)
Caps == {v \in Nat : ValidCap(v)}

LEMMA CapFacts ==
  /\ \A v : v \in Caps <=> ValidCap(v)
  /\ 0 \in Caps /\ MinimumCap \in Caps /\ MaximumCap \in Caps
BY CapsAssumption DEF Caps, ValidCap

LEMMA PresetFacts ==
  ASSUME NEW p \in ToSet(Presets)
  PROVE  p \in Caps /\ p \in 0..MaximumCap
<1>1. PICK i \in 1..Len(Presets) : p = Presets[i]
  BY CapsAssumption DEF ToSet
<1>2. CASE i = 1
  BY <1>1, <1>2, CapsAssumption DEF Caps, ValidCap
<1>3. CASE i # 1
  <2>1. i \in 2..Len(Presets)
    BY <1>3, CapsAssumption
  <2> QED BY <1>1, <2>1, CapsAssumption DEF Caps, ValidCap
<1> QED BY <1>2, <1>3

LEMMA LastPresetFacts == LastPreset \in ToSet(Presets)
<1>1. Len(Presets) \in 1..Len(Presets)
  BY CapsAssumption
<1> QED BY <1>1, CapsAssumption DEF LastPreset, ToSet

LEMMA StepUpFacts ==
  ASSUME NEW cap \in Caps, NEW step \in Nat
  PROVE  StepUp(cap, step) \in Caps
<1> DEFINE m == Min({step, MaximumCap})
<1>1. /\ {step, MaximumCap} \subseteq Nat
      /\ {step, MaximumCap} # {}
  BY CapsAssumption
<1>2. m \in {step, MaximumCap} /\ m <= step /\ m <= MaximumCap
  BY <1>1, MinFacts
<1> HIDE DEF m
<1>3. StepUp(cap, step) = IF cap = 0 THEN MinimumCap
                          ELSE IF cap >= MaximumCap - m THEN MaximumCap
                          ELSE cap + step
  BY DEF StepUp, m
<1>4. CASE cap = 0 \/ cap >= MaximumCap - m
  BY <1>3, <1>4, CapFacts
<1>5. CASE cap # 0 /\ ~(cap >= MaximumCap - m)
  <2>1. m = step
    BY <1>2, <1>5, CapsAssumption DEF Caps
  <2>2. cap + step \in MinimumCap..MaximumCap
    BY <1>5, <2>1, CapsAssumption DEF Caps, ValidCap
  <2> QED BY <1>3, <1>5, <2>2, CapsAssumption DEF Caps, ValidCap
<1> QED BY <1>4, <1>5

LEMMA StepDownFacts ==
  ASSUME NEW cap \in Caps, NEW step \in Nat
  PROVE  StepDown(cap, step) \in Caps
BY CapsAssumption DEF Caps, ValidCap, StepDown

LEMMA NeighbourFacts ==
  ASSUME NEW cap \in Caps, NEW direction \in Int
  PROVE  NeighbourPreset(cap, direction) \in Caps
<1> DEFINE above == {p \in ToSet(Presets) : p > cap}
           below == {p \in ToSet(Presets) : p < cap}
<1>1. ASSUME above # {}
      PROVE  Min(above) \in Caps
  <2>1. above \subseteq Nat
    BY PresetFacts DEF Caps
  <2>2. Min(above) \in above
    BY <1>1, <2>1, MinFacts
  <2> QED BY <2>2, PresetFacts
<1>2. ASSUME below # {}
      PROVE  Max(below) \in Caps
  <2>1. below \subseteq 0..MaximumCap
    BY PresetFacts
  <2>2. Max(below) \in below
    BY <1>2, <2>1, MaxFacts, CapsAssumption
  <2> QED BY <2>2, PresetFacts
<1>3. LastPreset \in Caps
  BY LastPresetFacts, PresetFacts
<1> HIDE DEF above, below
<1>4. NextPreset(cap) = IF above = {} THEN 0 ELSE Min(above)
  BY DEF NextPreset, above
<1>5. PreviousPreset(cap) = IF below = {} THEN LastPreset ELSE Max(below)
  BY DEF PreviousPreset, below
<1> QED BY <1>1, <1>2, <1>3, <1>4, <1>5, CapFacts DEF NeighbourPreset

LEMMA ProductBound ==
  ASSUME NEW a \in Nat, NEW g \in Nat \ {0}
  PROVE  a * g \in Nat /\ a <= a * g
<1>1. PICK h \in Nat : g = h + 1
  <2>1. g - 1 \in Nat /\ g = (g - 1) + 1
    OBVIOUS
  <2> QED BY <2>1
<1>2. a * (h + 1) = a * h + a /\ a * h \in Nat
  OBVIOUS
<1> QED BY <1>1, <1>2

LEMMA BaseForOutputFacts ==
  ASSUME NEW output \in Nat, NEW multiplier \in Nat,
         NEW base, base = BaseForOutput(output, multiplier), base # 0
  PROVE  /\ base \in Nat
         /\ base >= MinimumCap
         /\ base <= output
         /\ base * multiplier = output
         /\ multiplier >= 2
<1>1. /\ base = output \div multiplier
      /\ multiplier >= 2
      /\ base >= MinimumCap
      /\ base * multiplier = output
  BY DEF BaseForOutput
<1>2. base \in Nat
  <2>1. output \div multiplier \in Int
    BY <1>1
  <2> QED BY <1>1, <2>1, CapsAssumption
<1>3. base <= output
  BY <1>1, <1>2, ProductBound
<1> QED BY <1>1, <1>2, <1>3

\* A base cap that shows a cap of the menu is a cap itself.
LEMMA DerivedBaseFacts ==
  ASSUME NEW output \in Caps, NEW multiplier \in Nat
  PROVE  BaseForOutput(output, multiplier) \in Caps
<1> DEFINE base == BaseForOutput(output, multiplier)
<1>1. CASE base = 0
  BY <1>1, CapFacts
<1>2. CASE base # 0
  <2> HIDE DEF base
  <2>1. /\ base \in Nat /\ base >= MinimumCap /\ base <= output
        /\ output \in Nat
    BY <1>2, BaseForOutputFacts DEF base, Caps
  <2>2. base \in Caps
    BY <2>1, CapsAssumption DEF Caps, ValidCap
  <2> QED BY <2>2 DEF base
<1> QED BY <1>1, <1>2

\* What the row of the multiplied output may set both rows to.
LEMMA BaseByOutputFacts ==
  ASSUME NEW base \in Caps, NEW multiplier \in Nat, NEW direction \in Int,
         NEW found, found = BaseByOutput(base, multiplier, direction),
         found # base
  PROVE  found \in Caps /\ found * multiplier \in Caps
<1> DEFINE output == base * multiplier
           shown == {p \in ToSet(Presets) :
                        BaseForOutput(p, multiplier) \notin {0, base}}
           ahead == {p \in shown : IF direction > 0 THEN p > output
                                   ELSE p < output}
           walked == IF ahead = {} THEN shown ELSE ahead
           reached == IF direction > 0 THEN Min(walked) ELSE Max(walked)
<1>1. shown # {} /\ found = BaseForOutput(reached, multiplier)
  BY DEF BaseByOutput
<1>2. walked \subseteq shown /\ walked # {}
  BY <1>1
<1>3. shown \subseteq ToSet(Presets)
  OBVIOUS
<1>4. \A p \in shown : BaseForOutput(p, multiplier) # 0
  OBVIOUS
<1> HIDE DEF shown, walked
<1>5. walked \subseteq 0..MaximumCap /\ walked \subseteq Nat
  BY <1>2, <1>3, PresetFacts
<1>6. reached \in walked
  BY <1>2, <1>5, MinFacts, MaxFacts, CapsAssumption
<1> HIDE DEF reached
<1>7. reached \in Caps /\ found # 0
  BY <1>1, <1>2, <1>3, <1>4, <1>6, PresetFacts
<1>8. found \in Caps
  BY <1>1, <1>7, DerivedBaseFacts
<1>9. found * multiplier = reached
  BY <1>1, <1>7, BaseForOutputFacts DEF Caps
<1> QED BY <1>7, <1>8, <1>9

LEMMA PacingCapFacts ==
  ASSUME NEW fps \in Nat, NEW hz \in Nat
  PROVE  PacingCap(fps, hz) \in Nat
<1>1. ASSUME NEW f \in Nat
      PROVE  ClampedCap(f) \in Nat
  <2>1. {MaximumCap, f} \subseteq Nat
    BY CapsAssumption
  <2>2. Min({MaximumCap, f}) \in {MaximumCap, f} /\ Min({MaximumCap, f}) <= MaximumCap
    BY <2>1, MinFacts
  <2> DEFINE a == Min({MaximumCap, f})
  <2>3. a \in 0..MaximumCap
    BY <2>1, <2>2, CapsAssumption
  <2> HIDE DEF a
  <2>4. {MinimumCap, a} \subseteq 0..MaximumCap
    BY <2>3, CapsAssumption
  <2>5. Max({MinimumCap, a}) \in {MinimumCap, a}
    BY <2>4, MaxFacts, CapsAssumption
  <2> QED BY <2>4, <2>5 DEF ClampedCap, a
<1> QED BY <1>1 DEF PacingCap

LEMMA LimitFacts ==
  ASSUME NEW cap \in Nat, NEW base \in Nat, NEW divisor \in Nat
  PROVE  LimitPreservingBase(cap, base, divisor) \in Nat
BY DEF LimitPreservingBase

\* Streamline is given the cap itself when a frame is shown for a frame.
LEMMA LimitWithoutBase ==
  ASSUME NEW cap, NEW base, NEW other, NEW divisor, divisor < 2
  PROVE  LimitPreservingBase(cap, base, divisor) =
         LimitPreservingBase(cap, other, divisor)
BY DEF LimitPreservingBase

-----------------------------------------------------------------------------
(***************************************************************************)
(* The controls.                                                           *)
(***************************************************************************)
Rows == [preset : Caps, isCustom : BOOLEAN, custom : Caps]

OpenMenus ==
    [open : {TRUE}, base : Rows, out : Rows, generated : Nat,
     dynamic : BOOLEAN, reflex : ReflexModes,
     editing : {"none", "base", "out"}, typed : Nat \cup {Nothing}]

Menus == OpenMenus \cup {Closed}

LEMMA OpenMenuParts ==
  ASSUME NEW m \in OpenMenus
  PROVE  /\ m.open
         /\ m.base \in Rows /\ m.out \in Rows
         /\ m.generated \in Nat /\ m.dynamic \in BOOLEAN
         /\ m.reflex \in ReflexModes
         /\ m.editing \in {"none", "base", "out"}
         /\ m.typed \in Nat \cup {Nothing}
BY DEF OpenMenus

LEMMA OpenIsOpen ==
  ASSUME NEW m \in Menus, m.open
  PROVE  m \in OpenMenus
<1>1. Closed.open = FALSE
  BY DEF Closed
<1> QED BY <1>1 DEF Menus

LEMMA SelectedFacts ==
  ASSUME NEW row \in Rows
  PROVE  Selected(row) \in Caps
BY DEF Rows, Selected

LEMMA CapRowFacts ==
  ASSUME NEW cap \in Caps, NEW offered \in Caps
  PROVE  CapRow(cap, offered) \in Rows
BY DEF CapRow, Rows, IsPreset

LEMMA AdjustedRowFacts ==
  ASSUME NEW row \in Rows, NEW direction \in Directions, NEW step \in Nat
  PROVE  AdjustedRow(row, direction, step) \in Rows
<1> DEFINE from == Selected(row)
           custom == IF direction > 0 THEN StepUp(from, step)
                     ELSE StepDown(from, step)
           preset == IF direction > 0 THEN 0 ELSE LastPreset
           next == NeighbourPreset(row.preset, direction)
           r == AdjustedRow(row, direction, step)
<1>1. direction \in Int
  BY DEF Directions
<1>2. custom \in Caps
  BY SelectedFacts, StepUpFacts, StepDownFacts
<1>3. preset \in Caps
  BY CapFacts, LastPresetFacts, PresetFacts
<1>4. row.preset \in Caps
  BY DEF Rows
<1>5. next \in Caps
  BY <1>1, <1>4, NeighbourFacts
<1>6. \/ r = [row EXCEPT !.isCustom = TRUE, !.custom = custom]
      \/ r = [row EXCEPT !.isCustom = FALSE, !.preset = preset]
      \/ r = [row EXCEPT !.isCustom = TRUE]
      \/ r = [row EXCEPT !.preset = next]
  BY DEF AdjustedRow, Rows
<1> HIDE DEF custom, preset, next, r
<1>7. r \in Rows
  BY <1>2, <1>3, <1>5, <1>6 DEF Rows
<1> QED BY <1>7 DEF r

LEMMA NotEditingFacts ==
  ASSUME NEW m \in OpenMenus
  PROVE  NotEditing(m) \in OpenMenus
BY DEF NotEditing, OpenMenus

LEMMA WithRows ==
  ASSUME NEW m \in OpenMenus, NEW b \in Rows, NEW o \in Rows
  PROVE  [m EXCEPT !.base = b, !.out = o] \in OpenMenus
BY DEF OpenMenus

LEMMA WithBase ==
  ASSUME NEW m \in OpenMenus, NEW b \in Rows
  PROVE  [m EXCEPT !.base = b] \in OpenMenus
BY DEF OpenMenus

LEMMA WithOut ==
  ASSUME NEW m \in OpenMenus, NEW o \in Rows
  PROVE  [m EXCEPT !.out = o] \in OpenMenus
BY DEF OpenMenus

LEMMA TypedIntoFacts ==
  ASSUME NEW m \in OpenMenus, ~CommitRefused(m)
  PROVE  TypedInto(m) \in OpenMenus
<1>1. m.typed \in Caps
  <2>1. m.typed \in Nat /\ ValidCap(m.typed)
    BY OpenMenuParts DEF CommitRefused
  <2> QED BY <2>1 DEF Caps
<1> DEFINE derived == BaseForOutput(m.typed, m.generated)
           b == [m.base EXCEPT !.custom = m.typed]
           o == [m.out EXCEPT !.custom = m.typed]
           db == CapRow(derived, derived)
           do == CapRow(m.typed, m.typed)
<1>2. derived \in Caps
  BY <1>1, OpenMenuParts, DerivedBaseFacts
<1>3. b \in Rows /\ o \in Rows
  BY <1>1, OpenMenuParts DEF Rows
<1> HIDE DEF derived
<1>4. db \in Rows /\ do \in Rows
  BY <1>1, <1>2, CapRowFacts
<1>5. \/ TypedInto(m) = NotEditing([m EXCEPT !.base = b])
      \/ TypedInto(m) = NotEditing([m EXCEPT !.out = o])
      \/ TypedInto(m) = NotEditing([m EXCEPT !.base = db, !.out = do])
  BY DEF TypedInto, OpenMenus, derived
<1> HIDE DEF b, o, db, do
<1> QED BY <1>3, <1>4, <1>5, WithBase, WithOut, WithRows, NotEditingFacts

-----------------------------------------------------------------------------
(***************************************************************************)
(* Reflex.  A call takes the settings, the pacing state and the refusals   *)
(* that are left; w is that world.                                         *)
(***************************************************************************)
Inis ==
    [base : Caps, limit : Caps, multiplier : Nat, dynamic : BOOLEAN,
     enabled : BOOLEAN, reflex : ReflexModes]

Cadences == [kind : {"fixed", "outputCap", "displayRefresh"}, target : Nat]

Paces ==
    [multiplier : Nat, cadence : Cadences, desired : Nat, output : Nat,
     cap : Nat, limit : Nat, mode : ReflexModes, submitted : ReflexModes,
     dirty : BOOLEAN, owed : BOOLEAN]

PacingWorlds == [ini : Inis, pace : Paces, refusals : Nat]

\* DLSS-G does not generate without Reflex.
Awake(p) == p.multiplier > 1 => p.submitted = "on"

\* Reflex has the options these settings ask for.
Paced(p, i, hz) ==
    /\ p.cap = PacingCap(i.limit, hz)
    /\ p.limit = LimitPreservingBase(p.cap, i.base, Divisor(p))

\* Unless somebody refused, Reflex has what is configured, but for a refresh
\* rate that enable has not seen.
Settled(p, i, hz) ==
    ~p.owed => /\ p.output = i.limit
               /\ ~p.dirty => Paced(p, i, hz)

\* A limit of frames that are generated stays owed while the menu, which
\* halts generation, is open.
HaltedOrOwed(p) == p.owed \/ p.multiplier < 2

PacingGood(w) ==
    /\ w \in PacingWorlds
    /\ Awake(w.pace)
    /\ Settled(w.pace, w.ini, refresh)

\* The same frames are generated at the same cadence.
SameFrames(p, q) ==
    /\ q.multiplier = p.multiplier
    /\ q.cadence = p.cadence
    /\ q.desired = p.desired
    /\ q.dirty = p.dirty

LEMMA PacingParts ==
  ASSUME NEW w \in PacingWorlds
  PROVE  w.ini \in Inis /\ w.pace \in Paces /\ w.refusals \in Nat
BY DEF PacingWorlds

LEMMA IniParts ==
  ASSUME NEW i \in Inis
  PROVE  /\ i.base \in Caps /\ i.limit \in Caps
         /\ i.base \in Nat /\ i.limit \in Nat
         /\ i.multiplier \in Nat /\ i.dynamic \in BOOLEAN
         /\ i.enabled \in BOOLEAN /\ i.reflex \in ReflexModes
BY DEF Inis, Caps

LEMMA PaceParts ==
  ASSUME NEW p \in Paces
  PROVE  /\ p.multiplier \in Nat /\ p.cadence \in Cadences
         /\ p.desired \in Nat /\ p.output \in Nat /\ p.cap \in Nat
         /\ p.limit \in Nat /\ p.mode \in ReflexModes
         /\ p.submitted \in ReflexModes /\ p.dirty \in BOOLEAN
         /\ p.owed \in BOOLEAN
BY DEF Paces

LEMMA DivisorFacts ==
  ASSUME NEW p \in Paces
  PROVE  /\ Divisor(p) \in Nat
         /\ p.multiplier < 2 => Divisor(p) < 2
BY PaceParts DEF Divisor

LEMMA SubmittedFacts ==
  ASSUME NEW p \in Paces, NEW mode \in ReflexModes
  PROVE  /\ SubmittedMode(p, mode) \in ReflexModes
         /\ p.multiplier > 1 \/ p.desired > 1 => SubmittedMode(p, mode) = "on"
BY DEF SubmittedMode, ReflexModes

LEMMA YesFacts ==
  ASSUME NEW w
  PROVE  Yes(w).w = w /\ Yes(w).ok = TRUE
BY DEF Yes

LEMMA NoFacts ==
  ASSUME NEW w
  PROVE  No(w).w = w /\ No(w).ok = FALSE
BY DEF No

\* Giving a world another pacing state.
LEMMA WithPace ==
  ASSUME NEW w \in PacingWorlds, NEW p \in Paces
  PROVE  LET v == [w EXCEPT !.pace = p]
         IN  /\ v \in PacingWorlds
             /\ v.pace = p
             /\ v.ini = w.ini
             /\ v.refusals = w.refusals
<1> DEFINE v == [w EXCEPT !.pace = p]
<1>1. v \in PacingWorlds
  BY DEF PacingWorlds
<1>2. v.pace = p
  BY DEF PacingWorlds
<1>3. v.ini = w.ini
  BY DEF PacingWorlds
<1>4. v.refusals = w.refusals
  BY DEF PacingWorlds
<1> QED BY <1>1, <1>2, <1>3, <1>4

\* Giving it other settings.
LEMMA WithSettings ==
  ASSUME NEW w \in PacingWorlds, NEW i \in Inis
  PROVE  LET v == [w EXCEPT !.ini = i]
         IN  /\ v \in PacingWorlds
             /\ v.pace = w.pace
             /\ v.ini = i
             /\ v.refusals = w.refusals
<1> DEFINE v == [w EXCEPT !.ini = i]
<1>1. v \in PacingWorlds
  BY DEF PacingWorlds
<1>2. v.pace = w.pace
  BY DEF PacingWorlds
<1>3. v.ini = i
  BY DEF PacingWorlds
<1>4. v.refusals = w.refusals
  BY DEF PacingWorlds
<1> QED BY <1>1, <1>2, <1>3, <1>4

\* v is w after somebody refused.
RefusedFrom(w, v) ==
    /\ v \in PacingWorlds
    /\ v.ini = w.ini
    /\ SameFrames(w.pace, v.pace)
    /\ v.pace.output = w.pace.output
    /\ v.pace.submitted = w.pace.submitted
    /\ v.pace.cap = w.pace.cap
    /\ v.pace.limit = w.pace.limit
    /\ v.pace.owed

LEMMA RefusedLemma ==
  ASSUME NEW w \in PacingWorlds, NEW v \in Refused(w)
  PROVE  RefusedFrom(w, v)
<1> DEFINE p == [w.pace EXCEPT !.owed = TRUE]
           n == w.refusals - 1
           u == [w EXCEPT !.refusals = n, !.pace = p]
<1>1. w.refusals > 0 /\ v = [w EXCEPT !.refusals = @ - 1, !.pace.owed = TRUE]
  BY DEF Refused
<1>2. v = u
  BY <1>1 DEF PacingWorlds
<1>3. n \in Nat
  <2>1. PICK k : k = w.refusals
    OBVIOUS
  <2>2. k \in Nat /\ k > 0
    BY <1>1, <2>1, PacingParts
  <2> QED BY <2>1, <2>2
<1>4. p \in Paces
  BY PacingParts DEF Paces
<1>5. SameFrames(w.pace, p)
  BY PacingParts DEF SameFrames, Paces
<1>6. p.output = w.pace.output
  BY PacingParts DEF Paces
<1>7. p.submitted = w.pace.submitted
  BY PacingParts DEF Paces
<1>8. p.cap = w.pace.cap
  BY PacingParts DEF Paces
<1>9. p.limit = w.pace.limit
  BY PacingParts DEF Paces
<1>10. p.owed
  BY PacingParts DEF Paces
<1> HIDE DEF p, n
<1>11. u \in PacingWorlds
  BY <1>3, <1>4 DEF PacingWorlds
<1>12. u.pace = p
  BY DEF PacingWorlds
<1>13. u.ini = w.ini
  BY DEF PacingWorlds
<1> HIDE DEF u
<1> QED BY <1>2, <1>5, <1>6, <1>7, <1>8, <1>9, <1>10, <1>11, <1>12, <1>13
       DEF RefusedFrom

\* v is w after Streamline accepted options made of this cap.
AcceptedFrom(w, mode, cap, divisor, v) ==
    /\ v \in PacingWorlds
    /\ v.ini = w.ini
    /\ SameFrames(w.pace, v.pace)
    /\ v.pace.output = w.pace.output
    /\ v.pace.cap = w.pace.cap
    /\ v.pace.limit = LimitPreservingBase(cap, w.ini.base, divisor)
    /\ v.pace.submitted = SubmittedMode(w.pace, mode)
    /\ v.pace.owed = (w.pace.owed /\ CapMissing(w))

LEMMA AcceptLemma ==
  ASSUME NEW w \in PacingWorlds, NEW mode \in ReflexModes, NEW cap \in Nat,
         NEW divisor \in Nat
  PROVE  AcceptedFrom(w, mode, cap, divisor, AcceptOptions(w, mode, cap, divisor))
<1> DEFINE l == LimitPreservingBase(cap, w.ini.base, divisor)
           m == SubmittedMode(w.pace, mode)
           o == w.pace.owed /\ CapMissing(w)
           p == [w.pace EXCEPT !.limit = l, !.submitted = m, !.owed = o]
           v == AcceptOptions(w, mode, cap, divisor)
<1>1. v = [w EXCEPT !.pace = p]
  BY DEF AcceptOptions, PacingWorlds
<1>2. /\ l \in Nat /\ m \in ReflexModes /\ o \in BOOLEAN
  BY PacingParts, IniParts, SubmittedFacts, LimitFacts
<1> HIDE DEF l, m, o, v
<1>3. p \in Paces
  BY <1>2, PacingParts DEF Paces
<1>4. SameFrames(w.pace, p)
  BY PacingParts DEF SameFrames, Paces
<1>5. p.output = w.pace.output
  BY PacingParts DEF Paces
<1>6. p.cap = w.pace.cap
  BY PacingParts DEF Paces
<1>7. p.limit = l
  BY PacingParts DEF Paces
<1>8. p.submitted = m
  BY PacingParts DEF Paces
<1>9. p.owed = o
  BY PacingParts DEF Paces
<1> HIDE DEF p
<1>10. v \in PacingWorlds /\ v.pace = p /\ v.ini = w.ini
  BY <1>1, <1>3, WithPace
<1>11. AcceptedFrom(w, mode, cap, divisor, v)
  BY <1>4, <1>5, <1>6, <1>7, <1>8, <1>9, <1>10 DEF AcceptedFrom, l, m, o
<1> QED BY <1>11 DEF v

\* r is what set_reflex_mode returns.
ModeEffect(w, r) ==
    /\ r.ok \in BOOLEAN
    /\ r.w \in PacingWorlds
    /\ r.w.ini = w.ini
    /\ SameFrames(w.pace, r.w.pace)
    /\ r.w.pace.output = w.pace.output
    /\ Awake(w.pace) => Awake(r.w.pace)
    /\ ~r.ok => r.w.pace.owed

LEMMA SameFramesItself ==
  ASSUME NEW p
  PROVE  SameFrames(p, p)
BY DEF SameFrames

LEMMA SameFramesTwice ==
  ASSUME NEW p, NEW q, NEW r, SameFrames(p, q), SameFrames(q, r)
  PROVE  SameFrames(p, r)
BY DEF SameFrames

LEMMA ModeLemma ==
  ASSUME NEW w \in PacingWorlds, NEW mode \in ReflexModes,
         NEW r \in SetModeOutcomes(w, mode)
  PROVE  ModeEffect(w, r)
<1> DEFINE a == AcceptOptions(w, mode, w.pace.cap, Divisor(w.pace))
           p == [a.pace EXCEPT !.mode = mode]
           t == [a EXCEPT !.pace = p]
<1>1. CASE r = Yes(w)
  <2>1. r.w = w /\ r.ok = TRUE
    BY <1>1, YesFacts
  <2> QED BY <2>1, SameFramesItself DEF ModeEffect
<1>2. ASSUME NEW v \in Refused(w), r = No(v)
      PROVE  ModeEffect(w, r)
  <2>1. r.w = v /\ r.ok = FALSE
    BY <1>2, NoFacts
  <2>2. RefusedFrom(w, v)
    BY <1>2, RefusedLemma
  <2> QED BY <2>1, <2>2 DEF RefusedFrom, ModeEffect, SameFrames, Awake
<1>3. CASE r = Yes([a EXCEPT !.pace.mode = mode])
  <2>1. w.pace \in Paces /\ w.pace.cap \in Nat /\ Divisor(w.pace) \in Nat
    BY PacingParts, PaceParts, DivisorFacts
  <2>2. AcceptedFrom(w, mode, w.pace.cap, Divisor(w.pace), a)
    BY <2>1, AcceptLemma
  <2> HIDE DEF a
  <2>3. a \in PacingWorlds /\ a.ini = w.ini /\ a.pace \in Paces
    BY <2>2, PacingParts DEF AcceptedFrom
  <2>4. SameFrames(w.pace, a.pace) /\ a.pace.output = w.pace.output
        /\ a.pace.submitted = SubmittedMode(w.pace, mode)
    BY <2>2 DEF AcceptedFrom
  <2>5. r.w = t /\ r.ok = TRUE
    <3>1. [a EXCEPT !.pace.mode = mode] = t
      BY <2>3 DEF PacingWorlds
    <3> QED BY <1>3, <3>1, YesFacts
  <2>6. p \in Paces
    BY <2>3 DEF Paces
  <2>7. SameFrames(a.pace, p)
    BY <2>3 DEF SameFrames, Paces
  <2>8. p.output = a.pace.output
    BY <2>3 DEF Paces
  <2>9. p.submitted = a.pace.submitted
    BY <2>3 DEF Paces
  <2> HIDE DEF p
  <2>10. t \in PacingWorlds /\ t.pace = p /\ t.ini = a.ini
    BY <2>3, <2>6, WithPace
  <2> HIDE DEF t
  <2>11. SameFrames(w.pace, p)
    BY <2>4, <2>7, SameFramesTwice
  <2>12. Awake(p)
    BY <2>1, <2>4, <2>9, <2>11, SubmittedFacts DEF Awake, SameFrames
  <2> QED BY <2>3, <2>4, <2>5, <2>8, <2>10, <2>11, <2>12 DEF ModeEffect
<1>4. \/ r = Yes(w)
      \/ \E v \in Refused(w) : r = No(v)
      \/ r = Yes([a EXCEPT !.pace.mode = mode])
  BY DEF SetModeOutcomes
<1> QED BY <1>1, <1>2, <1>3, <1>4

\* o is what set_output_target_fps returns.
OutputEffect(w, fps, o) ==
    /\ o.ok \in BOOLEAN
    /\ o.w \in PacingWorlds
    /\ o.w.ini = w.ini
    /\ SameFrames(w.pace, o.w.pace)
    /\ Awake(w.pace) => Awake(o.w.pace)
    /\ ~o.ok => o.w.pace.owed
    /\ o.ok => /\ o.w.pace.output = fps
               /\ o.w.pace.cap = PacingCap(fps, refresh)
               /\ o.w.pace.limit =
                     LimitPreservingBase(o.w.pace.cap, w.ini.base, Divisor(w.pace))
               /\ w.pace.owed /\ fps # w.ini.limit => o.w.pace.owed

LEMMA OutputLemma ==
  ASSUME NEW w \in PacingWorlds, NEW fps \in Nat, refresh \in Nat,
         NEW o \in SetOutputOutcomes(w, fps)
  PROVE  OutputEffect(w, fps, o)
<1> DEFINE cap == PacingCap(fps, refresh)
           wanted == LimitPreservingBase(cap, w.ini.base, Divisor(w.pace))
<1>1. w.pace \in Paces /\ w.pace.mode \in ReflexModes /\ Divisor(w.pace) \in Nat
  BY PacingParts, PaceParts, DivisorFacts
<1>2. cap \in Nat
  BY PacingCapFacts
<1>3. CASE /\ w.pace.cap = cap /\ w.pace.limit = wanted
           /\ o = Yes([w EXCEPT !.pace.output = fps])
  <2> DEFINE p == [w.pace EXCEPT !.output = fps]
             t == [w EXCEPT !.pace = p]
  <2>1. o.w = t /\ o.ok = TRUE
    <3>1. [w EXCEPT !.pace.output = fps] = t
      BY DEF PacingWorlds
    <3> QED BY <1>3, <3>1, YesFacts
  <2>2. p \in Paces
    BY <1>1 DEF Paces
  <2>3. SameFrames(w.pace, p)
    BY <1>1 DEF SameFrames, Paces
  <2>4. p.output = fps
    BY <1>1 DEF Paces
  <2>5. p.cap = w.pace.cap
    BY <1>1 DEF Paces
  <2>6. p.limit = w.pace.limit
    BY <1>1 DEF Paces
  <2>7. p.submitted = w.pace.submitted
    BY <1>1 DEF Paces
  <2>8. p.owed = w.pace.owed
    BY <1>1 DEF Paces
  <2> HIDE DEF p
  <2>9. t \in PacingWorlds /\ t.pace = p /\ t.ini = w.ini
    BY <2>2, WithPace
  <2> HIDE DEF t
  <2>10. Awake(w.pace) => Awake(p)
    BY <2>3, <2>7 DEF Awake, SameFrames
  <2> QED BY <1>3, <2>1, <2>3, <2>4, <2>5, <2>6, <2>8, <2>9, <2>10
          DEF OutputEffect
<1>4. ASSUME NEW v \in Refused(w), o = No(v)
      PROVE  OutputEffect(w, fps, o)
  <2>1. o.w = v /\ o.ok = FALSE
    BY <1>4, NoFacts
  <2>2. RefusedFrom(w, v)
    BY <1>4, RefusedLemma
  <2> QED BY <2>1, <2>2 DEF RefusedFrom, OutputEffect, SameFrames, Awake
<1> DEFINE a == AcceptOptions(w, w.pace.mode, cap, Divisor(w.pace))
<1>5. CASE o = Yes([a EXCEPT !.pace.output = fps, !.pace.cap = cap,
                             !.pace.owed = w.pace.owed /\ fps # w.ini.limit])
  <2> DEFINE owed == w.pace.owed /\ fps # w.ini.limit
             p == [a.pace EXCEPT !.output = fps, !.cap = cap, !.owed = owed]
             t == [a EXCEPT !.pace = p]
  <2>1. AcceptedFrom(w, w.pace.mode, cap, Divisor(w.pace), a)
    BY <1>1, <1>2, AcceptLemma
  <2> HIDE DEF a
  <2>2. a \in PacingWorlds /\ a.ini = w.ini /\ a.pace \in Paces
    BY <2>1, PacingParts DEF AcceptedFrom
  <2>3. /\ SameFrames(w.pace, a.pace)
        /\ a.pace.limit = wanted
        /\ a.pace.submitted = SubmittedMode(w.pace, w.pace.mode)
    BY <2>1 DEF AcceptedFrom
  <2>4. o.w = t /\ o.ok = TRUE
    <3>1. [a EXCEPT !.pace.output = fps, !.pace.cap = cap,
                    !.pace.owed = owed] = t
      BY <2>2 DEF PacingWorlds
    <3> QED BY <1>5, <3>1, YesFacts
  <2>5. owed \in BOOLEAN
    BY <1>1, PaceParts
  <2> HIDE DEF owed, cap, wanted
  <2>6. p \in Paces
    BY <1>2, <2>2, <2>5 DEF Paces
  <2>7. SameFrames(a.pace, p)
    BY <2>2 DEF SameFrames, Paces
  <2>8. p.output = fps
    BY <2>2 DEF Paces
  <2>9. p.cap = cap
    BY <2>2 DEF Paces
  <2>10. p.limit = a.pace.limit
    BY <2>2 DEF Paces
  <2>11. p.submitted = a.pace.submitted
    BY <2>2 DEF Paces
  <2>12. p.owed = owed
    BY <2>2 DEF Paces
  <2> HIDE DEF p
  <2>13. t \in PacingWorlds /\ t.pace = p /\ t.ini = a.ini
    BY <2>2, <2>6, WithPace
  <2> HIDE DEF t
  <2>14. SameFrames(w.pace, p)
    BY <2>3, <2>7, SameFramesTwice
  <2>15. Awake(p)
    BY <1>1, <2>3, <2>11, <2>14, SubmittedFacts DEF Awake, SameFrames
  <2>16. o.w.pace = p /\ o.w \in PacingWorlds /\ o.w.ini = w.ini
    BY <2>2, <2>4, <2>13
  <2> QED BY <2>3, <2>4, <2>8, <2>9, <2>10, <2>12, <2>14, <2>15, <2>16
          DEF OutputEffect, cap, wanted, owed
<1>6. \/ /\ w.pace.cap = cap /\ w.pace.limit = wanted
         /\ o = Yes([w EXCEPT !.pace.output = fps])
      \/ \E v \in Refused(w) : o = No(v)
      \/ o = Yes([a EXCEPT !.pace.output = fps, !.pace.cap = cap,
                           !.pace.owed = w.pace.owed /\ fps # w.ini.limit])
  BY DEF SetOutputOutcomes
<1> QED BY <1>3, <1>4, <1>5, <1>6

LEMMA DivisorSame ==
  ASSUME NEW p, NEW q, SameFrames(p, q)
  PROVE  Divisor(q) = Divisor(p)
BY DEF SameFrames, Divisor

\* v is w after Reflex was asked for a mode and for this cap.
AskedFrom(w, fps, v) ==
    /\ v \in PacingWorlds
    /\ v.ini = w.ini
    /\ SameFrames(w.pace, v.pace)
    /\ Awake(w.pace) => Awake(v.pace)
    /\ ~v.pace.owed =>
           /\ v.pace.output = fps
           /\ v.pace.cap = PacingCap(fps, refresh)
           /\ v.pace.limit =
                 LimitPreservingBase(v.pace.cap, w.ini.base, Divisor(v.pace))

LEMMA ModeThenOutput ==
  ASSUME NEW w \in PacingWorlds, NEW mode \in ReflexModes, NEW fps \in Nat,
         refresh \in Nat, NEW r \in SetModeOutcomes(w, mode),
         NEW o \in SetOutputOutcomes(r.w, fps)
  PROVE  AskedFrom(w, fps, o.w)
<1>1. ModeEffect(w, r)
  BY ModeLemma
<1>2. /\ r.w \in PacingWorlds
      /\ r.w.ini = w.ini
      /\ SameFrames(w.pace, r.w.pace)
      /\ Awake(w.pace) => Awake(r.w.pace)
  BY <1>1 DEF ModeEffect
<1>3. OutputEffect(r.w, fps, o)
  BY <1>2, OutputLemma
<1>4. /\ o.ok \in BOOLEAN
      /\ o.w \in PacingWorlds
      /\ o.w.ini = r.w.ini
      /\ SameFrames(r.w.pace, o.w.pace)
      /\ Awake(r.w.pace) => Awake(o.w.pace)
      /\ ~o.ok => o.w.pace.owed
      /\ o.ok => /\ o.w.pace.output = fps
                 /\ o.w.pace.cap = PacingCap(fps, refresh)
                 /\ o.w.pace.limit =
                       LimitPreservingBase(o.w.pace.cap, r.w.ini.base, Divisor(r.w.pace))
  BY <1>3 DEF OutputEffect
<1>5. SameFrames(w.pace, o.w.pace) /\ Divisor(o.w.pace) = Divisor(r.w.pace)
  BY <1>2, <1>4, SameFramesTwice, DivisorSame
<1> QED BY <1>2, <1>4, <1>5 DEF AskedFrom

LEMMA ReapplyLemma ==
  ASSUME NEW w \in PacingWorlds, NEW mode \in ReflexModes, NEW fps \in Nat,
         refresh \in Nat, NEW v \in ReapplyOutcomes(w, mode, fps)
  PROVE  AskedFrom(w, fps, v)
<1>1. PICK r \in SetModeOutcomes(w, mode) :
        v \in {o.w : o \in SetOutputOutcomes(r.w, fps)}
  BY DEF ReapplyOutcomes
<1>2. PICK o \in SetOutputOutcomes(r.w, fps) : v = o.w
  BY <1>1
<1> QED BY <1>2, ModeThenOutput

LEMMA ApplyRuntimeLemma ==
  ASSUME NEW w \in PacingWorlds, NEW mode \in ReflexModes, NEW fps \in Nat,
         refresh \in Nat, NEW x \in ApplyRuntimeOutcomes(w, mode, fps)
  PROVE  AskedFrom(w, fps, x.w)
<1>1. PICK r \in SetModeOutcomes(w, mode) :
        x \in IF r.ok THEN SetOutputOutcomes(r.w, fps) ELSE {r}
  BY DEF ApplyRuntimeOutcomes
<1>2. ModeEffect(w, r)
  BY ModeLemma
<1>3. CASE r.ok
  <2>1. x \in SetOutputOutcomes(r.w, fps)
    BY <1>1, <1>3
  <2> QED BY <2>1, ModeThenOutput
<1>4. CASE ~r.ok
  <2>1. x = r
    BY <1>1, <1>4
  <2> QED BY <1>2, <1>4, <2>1 DEF ModeEffect, AskedFrom
<1> QED BY <1>3, <1>4

\* Asked for what is configured, Reflex paces frames by it or owes it.
LEMMA AskedGood ==
  ASSUME NEW w \in PacingWorlds, Awake(w.pace), NEW v,
         AskedFrom(w, w.ini.limit, v)
  PROVE  PacingGood(v)
BY DEF AskedFrom, PacingGood, Settled, Paced

-----------------------------------------------------------------------------
(***************************************************************************)
(* DLSS-G.                                                                 *)
(***************************************************************************)
\* v is w with other frames to come.
RememberedFrom(w, m, v) ==
    /\ v \in PacingWorlds
    /\ v.ini = w.ini
    /\ v.pace.multiplier = w.pace.multiplier
    /\ v.pace.cadence = w.pace.cadence
    /\ v.pace.dirty = w.pace.dirty
    /\ v.pace.output = w.pace.output
    /\ v.pace.cap = w.pace.cap
    /\ v.pace.limit = w.pace.limit
    /\ v.pace.submitted = w.pace.submitted
    /\ v.pace.owed = w.pace.owed
    /\ m >= 2 => v.pace.desired = m

LEMMA RememberedLemma ==
  ASSUME NEW w \in PacingWorlds, NEW m \in Nat
  PROVE  RememberedFrom(w, m, Remembered(w, m))
<1>1. CASE ~(m >= 2)
  <2>1. Remembered(w, m) = w
    BY <1>1 DEF Remembered
  <2> QED BY <1>1, <2>1 DEF RememberedFrom
<1>2. CASE m >= 2
  <2> DEFINE p == [w.pace EXCEPT !.desired = m]
             t == [w EXCEPT !.pace = p]
  <2>1. Remembered(w, m) = t
    BY <1>2 DEF Remembered, PacingWorlds
  <2>2. p \in Paces
    BY PacingParts DEF Paces
  <2>3. p.multiplier = w.pace.multiplier
    BY PacingParts DEF Paces
  <2>4. p.cadence = w.pace.cadence
    BY PacingParts DEF Paces
  <2>5. p.dirty = w.pace.dirty
    BY PacingParts DEF Paces
  <2>6. p.output = w.pace.output
    BY PacingParts DEF Paces
  <2>7. p.cap = w.pace.cap
    BY PacingParts DEF Paces
  <2>8. p.limit = w.pace.limit
    BY PacingParts DEF Paces
  <2>9. p.submitted = w.pace.submitted
    BY PacingParts DEF Paces
  <2>10. p.owed = w.pace.owed
    BY PacingParts DEF Paces
  <2>11. p.desired = m
    BY PacingParts DEF Paces
  <2> HIDE DEF p
  <2>12. t \in PacingWorlds /\ t.pace = p /\ t.ini = w.ini
    BY <2>2, WithPace
  <2> HIDE DEF t
  <2>13. RememberedFrom(w, m, t)
    BY <2>3, <2>4, <2>5, <2>6, <2>7, <2>8, <2>9, <2>10, <2>11, <2>12
       DEF RememberedFrom
  <2> QED BY <2>1, <2>13
<1> QED BY <1>1, <1>2

LEMMA RememberedGood ==
  ASSUME NEW w, PacingGood(w), NEW m \in Nat
  PROVE  /\ PacingGood(Remembered(w, m))
         /\ Remembered(w, m).ini = w.ini
<1> DEFINE v == Remembered(w, m)
<1>1. w \in PacingWorlds
  BY DEF PacingGood
<1>2. RememberedFrom(w, m, v)
  BY <1>1, RememberedLemma
<1> HIDE DEF v
<1>3. PacingGood(v) /\ v.ini = w.ini
  BY <1>2 DEF RememberedFrom, PacingGood, Awake, Settled, Paced, Divisor
<1> QED BY <1>3 DEF v

\* v is what enable goes on with.
PreparedFrom(w, v) ==
    /\ PacingGood(v)
    /\ v.ini = w.ini
    /\ ~v.pace.dirty
    /\ w.ini.multiplier >= 2 => v.pace.desired = w.ini.multiplier

LEMMA PrepareLemma ==
  ASSUME NEW w, PacingGood(w), refresh \in Nat, NEW v \in PrepareOutcomes(w)
  PROVE  PreparedFrom(w, v)
<1> DEFINE clean == [w EXCEPT !.pace.dirty = FALSE]
           m == w.ini.multiplier
<1>1. /\ w \in PacingWorlds /\ Awake(w.pace)
      /\ Settled(w.pace, w.ini, refresh)
  BY DEF PacingGood
<1>2. w.pace \in Paces /\ m \in Nat
  BY <1>1, PacingParts, IniParts
<1>3. PICK u : /\ v = Remembered(u, m)
               /\ u \in IF w.pace.dirty
                        THEN {r.w : r \in SetOutputOutcomes(clean, w.pace.output)}
                        ELSE {w}
  BY DEF PrepareOutcomes
<1>4. PacingGood(u) /\ u.ini = w.ini /\ ~u.pace.dirty
  <2>1. CASE ~w.pace.dirty
    <3>1. u = w
      BY <1>3, <2>1
    <3> QED BY <2>1, <3>1
  <2>2. CASE w.pace.dirty
    <3> DEFINE p == [w.pace EXCEPT !.dirty = FALSE]
               t == [w EXCEPT !.pace = p]
               fps == w.pace.output
    <3>1. clean = t
      BY <1>1 DEF PacingWorlds
    <3>2. PICK r \in SetOutputOutcomes(clean, fps) : u = r.w
      BY <1>3, <2>2
    <3> HIDE DEF clean
    <3>3. p \in Paces
      BY <1>2 DEF Paces
    <3>4. p.multiplier = w.pace.multiplier
      BY <1>2 DEF Paces
    <3>5. p.submitted = w.pace.submitted
      BY <1>2 DEF Paces
    <3>6. p.owed = w.pace.owed
      BY <1>2 DEF Paces
    <3>7. ~p.dirty
      BY <1>2 DEF Paces
    <3> HIDE DEF p
    <3>8. t \in PacingWorlds /\ t.pace = p /\ t.ini = w.ini
      BY <1>1, <3>3, WithPace
    <3> HIDE DEF t
    <3>9. fps \in Nat
      BY <1>2, PaceParts
    <3>10. OutputEffect(t, fps, r)
      BY <3>1, <3>2, <3>8, <3>9, OutputLemma
    <3>11. Awake(t.pace)
      BY <1>1, <3>4, <3>5, <3>8 DEF Awake
    <3>12. /\ u \in PacingWorlds
           /\ u.ini = w.ini
           /\ SameFrames(t.pace, u.pace)
           /\ Awake(u.pace)
           /\ ~u.pace.owed =>
                  /\ u.pace.output = fps
                  /\ u.pace.cap = PacingCap(fps, refresh)
                  /\ u.pace.limit =
                        LimitPreservingBase(u.pace.cap, t.ini.base, Divisor(t.pace))
                  /\ t.pace.owed => fps = t.ini.limit
      BY <3>2, <3>8, <3>10, <3>11 DEF OutputEffect
    <3>13. ~u.pace.owed => fps = w.ini.limit
      BY <1>1, <3>6, <3>8, <3>12 DEF Settled
    <3>14. Divisor(u.pace) = Divisor(t.pace) /\ u.pace.dirty = t.pace.dirty
      BY <3>12, DivisorSame DEF SameFrames
    <3>15. Settled(u.pace, u.ini, refresh)
      BY <3>8, <3>12, <3>13, <3>14 DEF Settled, Paced
    <3> QED BY <3>7, <3>8, <3>12, <3>14, <3>15 DEF PacingGood
  <2> QED BY <1>2, <2>1, <2>2, PaceParts
<1>5. u \in PacingWorlds
  BY <1>4 DEF PacingGood
<1>6. RememberedFrom(u, m, v)
  BY <1>2, <1>3, <1>5, RememberedLemma
<1>7. PacingGood(v)
  BY <1>2, <1>3, <1>4, RememberedGood
<1> QED BY <1>4, <1>6, <1>7 DEF RememberedFrom, PreparedFrom

\* v is w with this multiplier and cadence.
PacedAt(w, n, ca, v) ==
    /\ v \in PacingWorlds
    /\ v.ini = w.ini
    /\ v.pace.multiplier = n
    /\ v.pace.cadence = ca
    /\ v.pace.dirty = w.pace.dirty
    /\ v.pace.output = w.pace.output
    /\ v.pace.cap = w.pace.cap
    /\ v.pace.limit = w.pace.limit
    /\ v.pace.submitted = w.pace.submitted
    /\ v.pace.owed = w.pace.owed

LEMMA PacedAtLemma ==
  ASSUME NEW w \in PacingWorlds, NEW n \in Nat, NEW ca \in Cadences,
         NEW p, p \in Paces,
         p.multiplier = n, p.cadence = ca, p.dirty = w.pace.dirty,
         p.output = w.pace.output, p.cap = w.pace.cap, p.limit = w.pace.limit,
         p.submitted = w.pace.submitted, p.owed = w.pace.owed
  PROVE  PacedAt(w, n, ca, [w EXCEPT !.pace = p])
<1> DEFINE t == [w EXCEPT !.pace = p]
<1>1. t \in PacingWorlds /\ t.pace = p /\ t.ini = w.ini
  BY WithPace
<1> HIDE DEF t
<1>2. PacedAt(w, n, ca, t)
  BY <1>1 DEF PacedAt
<1> QED BY <1>2 DEF t

LEMMA WithMultiplier ==
  ASSUME NEW w \in PacingWorlds, NEW n \in Nat
  PROVE  PacedAt(w, n, w.pace.cadence, [w EXCEPT !.pace.multiplier = n])
<1> DEFINE p == [w.pace EXCEPT !.multiplier = n]
<1>1. [w EXCEPT !.pace.multiplier = n] = [w EXCEPT !.pace = p]
  BY DEF PacingWorlds
<1>2. w.pace \in Paces /\ w.pace.cadence \in Cadences
  BY PacingParts, PaceParts
<1>3. p \in Paces
  BY <1>2 DEF Paces
<1>4. p.multiplier = n
  BY <1>2 DEF Paces
<1>5. p.cadence = w.pace.cadence
  BY <1>2 DEF Paces
<1>6. p.dirty = w.pace.dirty
  BY <1>2 DEF Paces
<1>7. p.output = w.pace.output
  BY <1>2 DEF Paces
<1>8. p.cap = w.pace.cap
  BY <1>2 DEF Paces
<1>9. p.limit = w.pace.limit
  BY <1>2 DEF Paces
<1>10. p.submitted = w.pace.submitted
  BY <1>2 DEF Paces
<1>11. p.owed = w.pace.owed
  BY <1>2 DEF Paces
<1> HIDE DEF p
<1> QED BY <1>1, <1>2, <1>3, <1>4, <1>5, <1>6, <1>7, <1>8, <1>9, <1>10, <1>11,
           PacedAtLemma

LEMMA WithCadence ==
  ASSUME NEW w \in PacingWorlds, NEW n \in Nat, NEW ca \in Cadences
  PROVE  PacedAt(w, n, ca,
                 [w EXCEPT !.pace.multiplier = n, !.pace.cadence = ca])
<1> DEFINE p == [w.pace EXCEPT !.multiplier = n, !.cadence = ca]
<1>1. [w EXCEPT !.pace.multiplier = n, !.pace.cadence = ca] =
      [w EXCEPT !.pace = p]
  BY DEF PacingWorlds
<1>2. w.pace \in Paces
  BY PacingParts
<1>3. p \in Paces
  BY <1>2 DEF Paces
<1>4. p.multiplier = n
  BY <1>2 DEF Paces
<1>5. p.cadence = ca
  BY <1>2 DEF Paces
<1>6. p.dirty = w.pace.dirty
  BY <1>2 DEF Paces
<1>7. p.output = w.pace.output
  BY <1>2 DEF Paces
<1>8. p.cap = w.pace.cap
  BY <1>2 DEF Paces
<1>9. p.limit = w.pace.limit
  BY <1>2 DEF Paces
<1>10. p.submitted = w.pace.submitted
  BY <1>2 DEF Paces
<1>11. p.owed = w.pace.owed
  BY <1>2 DEF Paces
<1> HIDE DEF p
<1> QED BY <1>1, <1>3, <1>4, <1>5, <1>6, <1>7, <1>8, <1>9, <1>10, <1>11,
           PacedAtLemma

LEMMA WithMode ==
  ASSUME NEW w \in PacingWorlds, NEW r \in ReflexModes, NEW n \in Nat,
         NEW ca \in Cadences
  PROVE  PacedAt(w, n, ca,
                 [w EXCEPT !.pace.mode = r, !.pace.multiplier = n,
                           !.pace.cadence = ca])
<1> DEFINE p == [w.pace EXCEPT !.mode = r, !.multiplier = n, !.cadence = ca]
<1>1. [w EXCEPT !.pace.mode = r, !.pace.multiplier = n, !.pace.cadence = ca] =
      [w EXCEPT !.pace = p]
  BY DEF PacingWorlds
<1>2. w.pace \in Paces
  BY PacingParts
<1>3. p \in Paces
  BY <1>2 DEF Paces
<1>4. p.multiplier = n
  BY <1>2 DEF Paces
<1>5. p.cadence = ca
  BY <1>2 DEF Paces
<1>6. p.dirty = w.pace.dirty
  BY <1>2 DEF Paces
<1>7. p.output = w.pace.output
  BY <1>2 DEF Paces
<1>8. p.cap = w.pace.cap
  BY <1>2 DEF Paces
<1>9. p.limit = w.pace.limit
  BY <1>2 DEF Paces
<1>10. p.submitted = w.pace.submitted
  BY <1>2 DEF Paces
<1>11. p.owed = w.pace.owed
  BY <1>2 DEF Paces
<1> HIDE DEF p
<1> QED BY <1>1, <1>3, <1>4, <1>5, <1>6, <1>7, <1>8, <1>9, <1>10, <1>11,
           PacedAtLemma

LEMMA CadenceFacts ==
  ASSUME NEW d \in BOOLEAN, NEW s \in BOOLEAN, NEW m \in Nat, NEW cap \in Nat
  PROVE  Cadence(d, s, m, cap) \in Cadences /\ FixedCadence \in Cadences
BY DEF Cadence, FixedCadence, Cadences

\* Accepted options leave Reflex paced, when the cap they are made of is the
\* configured one.
LEMMA AcceptedSettled ==
  ASSUME NEW w, PacingGood(w), NEW mode, NEW divisor, NEW a,
         AcceptedFrom(w, mode, w.pace.cap, divisor, a), ~a.pace.owed
  PROVE  /\ w.pace.output = w.ini.limit
         /\ ~w.pace.dirty => w.pace.cap = PacingCap(w.ini.limit, refresh)
<1>1. CASE w.pace.owed
  <2>1. ~CapMissing(w)
    BY <1>1 DEF AcceptedFrom
  <2> QED BY <2>1 DEF CapMissing
<1>2. CASE ~w.pace.owed
  BY <1>2 DEF PacingGood, Settled, Paced
<1> QED BY <1>1, <1>2

LEMMA ConfigureLemma ==
  ASSUME NEW u, NEW w, PreparedFrom(u, w), NEW v \in ConfigureOutcomes(w)
  PROVE  PacingGood(v)
<1> DEFINE m == w.ini.multiplier
           cadence == Cadence(w.ini.dynamic, TRUE, m, w.pace.cap)
           divisor == IF cadence.kind = "fixed" THEN m ELSE 1
           a == AcceptOptions(w, w.ini.reflex, w.pace.cap, divisor)
           on == [a EXCEPT !.pace.mode = w.ini.reflex, !.pace.multiplier = m,
                           !.pace.cadence = cadence]
<1>1. /\ PacingGood(w) /\ ~w.pace.dirty
      /\ m >= 2 => w.pace.desired = m
  BY DEF PreparedFrom
<1>2. w \in PacingWorlds /\ Awake(w.pace)
  BY <1>1 DEF PacingGood
<1>3. /\ w.pace \in Paces /\ w.pace.cap \in Nat
      /\ m \in Nat /\ w.ini.dynamic \in BOOLEAN /\ w.ini.reflex \in ReflexModes
  BY <1>2, PacingParts, PaceParts, IniParts
<1>4. cadence \in Cadences /\ FixedCadence \in Cadences
  BY <1>3, CadenceFacts
<1>5. divisor \in Nat
  BY <1>3
<1>6. v = on \/ v = w \/ v \in Refused(w)
      \/ \E x \in Refused(w) :
            v = [x EXCEPT !.pace.multiplier = 1, !.pace.cadence = FixedCadence]
  BY DEF ConfigureOutcomes
<1>7. CASE v = on
  <2> HIDE DEF m, cadence, divisor
  <2>1. AcceptedFrom(w, w.ini.reflex, w.pace.cap, divisor, a)
    BY <1>2, <1>3, <1>5, AcceptLemma
  <2> HIDE DEF a
  <2>2. a \in PacingWorlds
    BY <2>1 DEF AcceptedFrom
  <2>3. PacedAt(a, m, cadence, on)
    BY <1>3, <1>4, <2>2, WithMode
  <2>4. Divisor(on.pace) = divisor
    BY <2>3 DEF PacedAt, Divisor, divisor
  <2> HIDE DEF on
  <2>5. Awake(on.pace)
    <3>1. m > 1 => w.pace.desired > 1
      BY <1>1, <1>3 DEF m
    <3>2. m > 1 => SubmittedMode(w.pace, w.ini.reflex) = "on"
      BY <1>3, <3>1, SubmittedFacts
    <3> QED BY <2>1, <2>3, <3>2 DEF AcceptedFrom, PacedAt, Awake
  <2>6. Settled(on.pace, on.ini, refresh)
    <3>1. ASSUME ~a.pace.owed
          PROVE  /\ w.pace.output = w.ini.limit
                 /\ w.pace.cap = PacingCap(w.ini.limit, refresh)
      BY <1>1, <2>1, <3>1, AcceptedSettled
    <3>2. /\ on.pace.owed = a.pace.owed /\ on.pace.output = w.pace.output
          /\ on.pace.cap = w.pace.cap /\ on.ini = w.ini
          /\ on.pace.limit = LimitPreservingBase(w.pace.cap, w.ini.base, divisor)
      BY <2>1, <2>3 DEF AcceptedFrom, PacedAt
    <3> QED BY <2>4, <3>1, <3>2 DEF Settled, Paced
  <2>7. on \in PacingWorlds
    BY <2>3 DEF PacedAt
  <2> QED BY <1>7, <2>5, <2>6, <2>7 DEF PacingGood
<1>8. CASE v \in Refused(w)
  <2>1. RefusedFrom(w, v)
    BY <1>2, <1>8, RefusedLemma
  <2> QED BY <1>2, <2>1 DEF RefusedFrom, PacingGood, Settled, SameFrames, Awake
<1>9. ASSUME NEW x \in Refused(w),
             v = [x EXCEPT !.pace.multiplier = 1, !.pace.cadence = FixedCadence]
      PROVE  PacingGood(v)
  <2>1. RefusedFrom(w, x)
    BY <1>2, <1>9, RefusedLemma
  <2>2. x \in PacingWorlds
    BY <2>1 DEF RefusedFrom
  <2>3. PacedAt(x, 1, FixedCadence, v)
    BY <1>4, <1>9, <2>2, WithCadence
  <2> QED BY <2>1, <2>3 DEF RefusedFrom, PacedAt, PacingGood, Settled, Awake
<1> QED BY <1>1, <1>6, <1>7, <1>8, <1>9

LEMMA SuspendLemma ==
  ASSUME NEW w, PacingGood(w), NEW v \in SuspendOutcomes(w)
  PROVE  PacingGood(v) /\ HaltedOrOwed(v.pace)
<1>1. w \in PacingWorlds /\ Awake(w.pace)
  BY DEF PacingGood
<1>2. w.pace \in Paces /\ w.pace.cap \in Nat /\ w.pace.mode \in ReflexModes
  BY <1>1, PacingParts, PaceParts
<1> DEFINE a == AcceptOptions(w, w.pace.mode, w.pace.cap, 1)
<1>3. CASE v = w /\ w.pace.multiplier < 2
  BY <1>3 DEF HaltedOrOwed
<1>4. CASE v \in Refused(w)
  <2>1. RefusedFrom(w, v)
    BY <1>1, <1>4, RefusedLemma
  <2> QED BY <1>1, <2>1
       DEF RefusedFrom, PacingGood, Settled, SameFrames, Awake, HaltedOrOwed
<1>5. ASSUME NEW x \in Refused(w), v = [x EXCEPT !.pace.multiplier = 1]
      PROVE  PacingGood(v) /\ HaltedOrOwed(v.pace)
  <2>1. RefusedFrom(w, x)
    BY <1>1, <1>5, RefusedLemma
  <2>2. x \in PacingWorlds
    BY <2>1 DEF RefusedFrom
  <2>3. PacedAt(x, 1, x.pace.cadence, v)
    BY <1>5, <2>2, WithMultiplier
  <2> QED BY <2>1, <2>3
       DEF RefusedFrom, PacedAt, PacingGood, Settled, Awake, HaltedOrOwed
<1>6. CASE v = [a EXCEPT !.pace.multiplier = 1]
  <2>1. AcceptedFrom(w, w.pace.mode, w.pace.cap, 1, a)
    BY <1>1, <1>2, AcceptLemma
  <2> HIDE DEF a
  <2>2. a \in PacingWorlds
    BY <2>1 DEF AcceptedFrom
  <2>3. PacedAt(a, 1, a.pace.cadence, v)
    BY <1>6, <2>2, WithMultiplier
  <2>4. Divisor(v.pace) = 1
    BY <2>3 DEF PacedAt, Divisor
  <2>5. ASSUME ~a.pace.owed
        PROVE  /\ w.pace.output = w.ini.limit
               /\ ~w.pace.dirty => w.pace.cap = PacingCap(w.ini.limit, refresh)
    BY <2>1, <2>5, AcceptedSettled
  <2>6. /\ v.pace.owed = a.pace.owed /\ v.pace.output = w.pace.output
        /\ v.pace.cap = w.pace.cap /\ v.ini = w.ini
        /\ v.pace.dirty = w.pace.dirty
        /\ v.pace.limit = LimitPreservingBase(w.pace.cap, w.ini.base, 1)
    BY <2>1, <2>3 DEF AcceptedFrom, PacedAt, SameFrames
  <2>7. Settled(v.pace, v.ini, refresh)
    BY <2>4, <2>5, <2>6 DEF Settled, Paced
  <2> QED BY <2>3, <2>7 DEF PacedAt, PacingGood, Awake, HaltedOrOwed
<1>7. \/ v = w /\ w.pace.multiplier < 2
      \/ v \in Refused(w)
      \/ \E x \in Refused(w) : v = [x EXCEPT !.pace.multiplier = 1]
      \/ v = [a EXCEPT !.pace.multiplier = 1]
  BY DEF SuspendOutcomes
<1> QED BY <1>3, <1>4, <1>5, <1>6, <1>7

-----------------------------------------------------------------------------
(***************************************************************************)
(* The menu applies.                                                       *)
(***************************************************************************)
\* v is w, but for what is owed.
OwedAs(w, b, v) ==
    /\ v \in PacingWorlds
    /\ v.ini = w.ini
    /\ SameFrames(w.pace, v.pace)
    /\ v.pace.output = w.pace.output
    /\ v.pace.cap = w.pace.cap
    /\ v.pace.limit = w.pace.limit
    /\ v.pace.submitted = w.pace.submitted
    /\ v.pace.owed = b

LEMMA WithOwed ==
  ASSUME NEW w \in PacingWorlds, NEW b \in BOOLEAN
  PROVE  OwedAs(w, b, [w EXCEPT !.pace.owed = b])
<1> DEFINE p == [w.pace EXCEPT !.owed = b]
           t == [w EXCEPT !.pace = p]
<1>1. [w EXCEPT !.pace.owed = b] = t
  BY DEF PacingWorlds
<1>2. w.pace \in Paces
  BY PacingParts
<1>3. p \in Paces
  BY <1>2 DEF Paces
<1>4. SameFrames(w.pace, p)
  BY <1>2 DEF SameFrames, Paces
<1>5. p.output = w.pace.output
  BY <1>2 DEF Paces
<1>6. p.cap = w.pace.cap
  BY <1>2 DEF Paces
<1>7. p.limit = w.pace.limit
  BY <1>2 DEF Paces
<1>8. p.submitted = w.pace.submitted
  BY <1>2 DEF Paces
<1>9. p.owed = b
  BY <1>2 DEF Paces
<1> HIDE DEF p
<1>10. t \in PacingWorlds /\ t.pace = p /\ t.ini = w.ini
  BY <1>3, WithPace
<1> HIDE DEF t
<1>11. OwedAs(w, b, t)
  BY <1>4, <1>5, <1>6, <1>7, <1>8, <1>9, <1>10 DEF OwedAs
<1> QED BY <1>1, <1>11

\* What is owed may always be said to be.
LEMMA OwedGood ==
  ASSUME NEW w, PacingGood(w), NEW b \in BOOLEAN, w.pace.owed => b
  PROVE  PacingGood([w EXCEPT !.pace.owed = b])
<1> DEFINE v == [w EXCEPT !.pace.owed = b]
<1>1. w \in PacingWorlds
  BY DEF PacingGood
<1>2. OwedAs(w, b, v)
  BY <1>1, WithOwed
<1> HIDE DEF v
<1>3. PacingGood(v)
  BY <1>2 DEF OwedAs, PacingGood, Awake, Settled, Paced, SameFrames, Divisor
<1> QED BY <1>3 DEF v

LEMMA WrittenFacts ==
  ASSUME NEW wanted \in Inis, ini \in Inis, NEW keys
  PROVE  Written(keys, wanted) \in Inis
BY DEF Written, Inis

\* y, with this key of the file still as the menu wanted it.
Undone(y, k, wanted) == [y EXCEPT !.ini = Written({k}, wanted)]

LEMMA RestoreLemma ==
  ASSUME NEW w \in PacingWorlds, w.ini = ini, Awake(w.pace), refresh \in Nat,
         NEW keys, NEW wanted \in Inis,
         NEW v \in RestoreOutcomes(w, keys, wanted)
  PROVE  PacingGood(v)
<1> DEFINE stuck == {Undone(y, k, wanted) : y \in Refused(w), k \in keys}
           undone == {w} \cup stuck
<1>1. PICK u \in undone :
        v \in {[x EXCEPT !.pace.owed = @ \/ u.pace.owed] :
                  x \in ReapplyOutcomes(u, ini.reflex, ini.limit)}
  <2>1. RestoreOutcomes(w, keys, wanted) =
           UNION {{[x EXCEPT !.pace.owed = @ \/ u.pace.owed] :
                     x \in ReapplyOutcomes(u, ini.reflex, ini.limit)}
                    : u \in undone}
    <3>1. stuck = {[y EXCEPT !.ini = Written({k}, wanted)] :
                      y \in Refused(w), k \in keys}
      BY DEF Undone
    <3> HIDE DEF stuck
    <3> QED BY <3>1 DEF RestoreOutcomes
  <2> HIDE DEF undone
  <2> QED BY <2>1
<1>2. PICK x \in ReapplyOutcomes(u, ini.reflex, ini.limit) :
        v = [x EXCEPT !.pace.owed = @ \/ u.pace.owed]
  BY <1>1
<1>3. ini \in Inis /\ ini.reflex \in ReflexModes /\ ini.limit \in Nat
  BY PacingParts, IniParts
<1>4. CASE u = w
  <2>1. AskedFrom(w, w.ini.limit, x)
    BY <1>2, <1>3, <1>4, ReapplyLemma
  <2>2. PacingGood(x)
    BY <2>1, AskedGood
  <2>3. x \in PacingWorlds
    BY <2>2 DEF PacingGood
  <2> DEFINE b == x.pace.owed \/ u.pace.owed
  <2>4. b \in BOOLEAN /\ (x.pace.owed => b)
    OBVIOUS
  <2>5. v = [x EXCEPT !.pace.owed = b]
    BY <1>2, <2>3 DEF PacingWorlds, Paces
  <2> HIDE DEF b
  <2> QED BY <2>2, <2>4, <2>5, OwedGood
<1>5. ASSUME NEW y \in Refused(w), NEW k \in keys,
             u = Undone(y, k, wanted)
      PROVE  PacingGood(v)
  <2> DEFINE i == Written({k}, wanted)
  <2>1. i \in Inis
    BY <1>3, WrittenFacts
  <2> HIDE DEF i
  <2>2. RefusedFrom(w, y)
    BY <1>5, RefusedLemma
  <2>3. y \in PacingWorlds /\ Awake(y.pace) /\ y.pace.owed
    BY <2>2 DEF RefusedFrom, Awake, SameFrames
  <2>4. u \in PacingWorlds /\ u.pace = y.pace
    BY <1>5, <2>1, <2>3, WithSettings DEF i, Undone
  <2>5. AskedFrom(u, ini.limit, x)
    BY <1>2, <1>3, <2>4, ReapplyLemma
  <2>6. x \in PacingWorlds /\ Awake(x.pace)
    BY <2>3, <2>4, <2>5 DEF AskedFrom
  <2> DEFINE b == x.pace.owed \/ u.pace.owed
  <2>7. v = [x EXCEPT !.pace.owed = b]
    BY <1>2, <2>6 DEF PacingWorlds, Paces
  <2>8. b \in BOOLEAN
    OBVIOUS
  <2>9. b
    BY <2>3, <2>4
  <2> HIDE DEF b
  <2>10. OwedAs(x, b, v)
    BY <2>6, <2>7, <2>8, WithOwed
  <2> QED BY <2>6, <2>9, <2>10 DEF OwedAs, PacingGood, Awake, Settled, SameFrames
<1>6. u = w \/ \E y \in Refused(w), k \in keys : u = Undone(y, k, wanted)
  BY <1>1
<1> QED BY <1>4, <1>5, <1>6

LEMMA WantedFacts ==
  ASSUME NEW m \in OpenMenus, ini \in Inis
  PROVE  Wanted(m) \in Inis
<1> DEFINE g == IF m.generated >= 2 THEN m.generated ELSE ini.multiplier
           d == IF m.generated >= 2 THEN m.dynamic ELSE ini.dynamic
           e == m.generated >= 2
           b == Selected(m.base)
           l == Selected(m.out)
<1>1. b \in Caps /\ l \in Caps
  BY OpenMenuParts, SelectedFacts
<1>2. g \in Nat /\ d \in BOOLEAN /\ e \in BOOLEAN /\ m.reflex \in ReflexModes
  BY OpenMenuParts, IniParts
<1>3. Wanted(m) = [ini EXCEPT !.base = b, !.limit = l, !.multiplier = g,
                              !.dynamic = d, !.enabled = e, !.reflex = m.reflex]
  BY DEF Wanted, Inis
<1> HIDE DEF g, d, e, b, l
<1> QED BY <1>1, <1>2, <1>3 DEF Inis

\* What the menu asked of Reflex is written to memory.  Where it was made of
\* the base cap before, it is owed still.
LEMMA WrittenGood ==
  ASSUME PacingGood(Here), HaltedOrOwed(pace), refresh \in Nat,
         NEW wanted \in Inis, NEW w, AskedFrom(Here, wanted.limit, w)
  PROVE  PacingGood(StillOwed([w EXCEPT !.ini = wanted]))
<1> DEFINE t == [w EXCEPT !.ini = wanted]
           b == w.pace.owed \/ (pace.owed /\ pace.multiplier > 1)
           v == [t EXCEPT !.pace.owed = b]
<1>1. Here.pace = pace /\ Here.ini = ini
  BY DEF Here
<1>2. Here \in PacingWorlds /\ Awake(pace)
  BY <1>1 DEF PacingGood
<1>3. pace \in Paces /\ pace.multiplier \in Nat /\ pace.owed \in BOOLEAN
  BY <1>1, <1>2, PacingParts, PaceParts
<1> HIDE DEF Here
<1>4. /\ w \in PacingWorlds
      /\ SameFrames(pace, w.pace)
      /\ Awake(w.pace)
      /\ ~w.pace.owed =>
             /\ w.pace.output = wanted.limit
             /\ w.pace.cap = PacingCap(wanted.limit, refresh)
             /\ w.pace.limit =
                   LimitPreservingBase(w.pace.cap, ini.base, Divisor(w.pace))
  BY <1>1, <1>2 DEF AskedFrom
<1>5. t \in PacingWorlds /\ t.pace = w.pace /\ t.ini = wanted
  BY <1>4, WithSettings
<1> HIDE DEF t
<1>6. b \in BOOLEAN
  OBVIOUS
<1>7. StillOwed(t) = v
  BY <1>5 DEF StillOwed, PacingWorlds, Paces
<1>8. ASSUME ~b
      PROVE  Divisor(w.pace) < 2
  <2>1. w.pace.multiplier < 2
    BY <1>3, <1>4, <1>8 DEF HaltedOrOwed, SameFrames
  <2> QED BY <1>4, <2>1, PacingParts, DivisorFacts
<1>9. ~b => ~w.pace.owed
  OBVIOUS
<1> HIDE DEF b
<1>10. OwedAs(t, b, v)
  BY <1>5, <1>6, WithOwed
<1> HIDE DEF v
<1>11. Awake(v.pace)
  BY <1>4, <1>5, <1>10 DEF OwedAs, Awake, SameFrames
<1>12. Settled(v.pace, v.ini, refresh)
  <2> SUFFICES ASSUME ~b
               PROVE  v.pace.output = v.ini.limit /\ Paced(v.pace, v.ini, refresh)
    BY <1>10 DEF OwedAs, Settled
  <2>1. /\ v.pace.output = wanted.limit
        /\ v.pace.cap = PacingCap(wanted.limit, refresh)
        /\ v.pace.limit = w.pace.limit /\ v.pace.cap = w.pace.cap
        /\ v.ini = wanted
        /\ SameFrames(w.pace, v.pace)
    BY <1>4, <1>5, <1>9, <1>10 DEF OwedAs
  <2>2. Divisor(v.pace) = Divisor(w.pace)
    BY <2>1, DivisorSame
  <2>3. w.pace.limit =
           LimitPreservingBase(w.pace.cap, wanted.base, Divisor(w.pace))
    BY <1>4, <1>8, <1>9, LimitWithoutBase
  <2> QED BY <2>1, <2>2, <2>3 DEF Paced
<1>13. PacingGood(v)
  BY <1>10, <1>11, <1>12 DEF OwedAs, PacingGood
<1> QED BY <1>7, <1>13 DEF t

LEMMA PersistLemma ==
  ASSUME NEW w \in PacingWorlds, w.ini = ini, Awake(w.pace), refresh \in Nat,
         NEW wanted \in Inis, NEW v \in PersistOutcomes(w, wanted)
  PROVE  v = [w EXCEPT !.ini = wanted] \/ PacingGood(v)
<1>1. ASSUME NEW keys \in PartialWrites, NEW x \in Refused(w),
             v \in RestoreOutcomes([x EXCEPT !.pace.owed = w.pace.owed],
                                   keys, wanted)
      PROVE  PacingGood(v)
  <2> DEFINE u == [x EXCEPT !.pace.owed = w.pace.owed]
  <2>1. RefusedFrom(w, x)
    BY <1>1, RefusedLemma
  <2>2. x \in PacingWorlds /\ w.pace.owed \in BOOLEAN
    BY <2>1, PacingParts, PaceParts DEF RefusedFrom
  <2>3. OwedAs(x, w.pace.owed, u)
    BY <2>2, WithOwed
  <2> HIDE DEF u
  <2>4. u \in PacingWorlds /\ u.ini = ini /\ Awake(u.pace)
    BY <2>1, <2>3 DEF RefusedFrom, OwedAs, Awake, SameFrames
  <2>5. v \in RestoreOutcomes(u, keys, wanted)
    BY <1>1 DEF u
  <2> QED BY <2>4, <2>5, RestoreLemma
<1>2. \/ v = [w EXCEPT !.ini = wanted]
      \/ \E keys \in PartialWrites : \E x \in Refused(w) :
            v \in RestoreOutcomes([x EXCEPT !.pace.owed = w.pace.owed],
                                  keys, wanted)
  BY DEF PersistOutcomes
<1> QED BY <1>1, <1>2

\* What Apply goes through: Reflex is asked, then everything is written or
\* put back.
LEMMA AppliedOutcomes ==
  ASSUME NEW m, NEW v \in ApplyOutcomes(m)
  PROVE  \E u, r : /\ r \in ApplyRuntimeOutcomes(Here, m.reflex, Wanted(m).limit)
                   /\ v = StillOwed(u)
                   /\ \/ u \in PersistOutcomes(r.w, Wanted(m))
                      \/ u \in RestoreOutcomes(r.w, NoWrite, Wanted(m))
<1> DEFINE wanted == Wanted(m)
           runtime == ApplyRuntimeOutcomes(Here, m.reflex, wanted.limit)
           ends == UNION {IF r.ok THEN PersistOutcomes(r.w, wanted)
                          ELSE RestoreOutcomes(r.w, NoWrite, wanted)
                            : r \in runtime}
<1>1. ApplyOutcomes(m) = {StillOwed(u) : u \in ends}
  BY DEF ApplyOutcomes
<1> HIDE DEF wanted, runtime
<1>2. ASSUME NEW u \in ends
      PROVE  \E r \in runtime : \/ u \in PersistOutcomes(r.w, wanted)
                                \/ u \in RestoreOutcomes(r.w, NoWrite, wanted)
  BY <1>2
<1> HIDE DEF ends
<1>3. PICK u \in ends : v = StillOwed(u)
  BY <1>1
<1> QED BY <1>2, <1>3 DEF wanted, runtime

LEMMA ApplyLemma ==
  ASSUME PacingGood(Here), HaltedOrOwed(pace), refresh \in Nat,
         NEW m \in OpenMenus, NEW v \in ApplyOutcomes(m)
  PROVE  PacingGood(v)
<1> DEFINE wanted == Wanted(m)
           runtime == ApplyRuntimeOutcomes(Here, m.reflex, wanted.limit)
<1>1. Here.pace = pace /\ Here.ini = ini
  BY DEF Here
<1>2. Here \in PacingWorlds /\ Awake(pace)
  BY <1>1 DEF PacingGood
<1>3. ini \in Inis /\ pace.owed \in BOOLEAN
  BY <1>1, <1>2, PacingParts, PaceParts
<1>4. wanted \in Inis /\ wanted.limit \in Nat /\ m.reflex \in ReflexModes
  BY <1>3, WantedFacts, IniParts, OpenMenuParts
<1>5. PICK u, r : /\ r \in runtime
                  /\ v = StillOwed(u)
                  /\ \/ u \in PersistOutcomes(r.w, wanted)
                     \/ u \in RestoreOutcomes(r.w, NoWrite, wanted)
  BY AppliedOutcomes
<1> HIDE DEF wanted, Here
<1>6. AskedFrom(Here, wanted.limit, r.w)
  BY <1>2, <1>4, <1>5, ApplyRuntimeLemma
<1>7. r.w \in PacingWorlds /\ r.w.ini = ini /\ Awake(r.w.pace)
  BY <1>1, <1>2, <1>6 DEF AskedFrom
<1>8. CASE u = [r.w EXCEPT !.ini = wanted]
  BY <1>4, <1>5, <1>6, <1>8, WrittenGood
<1>9. CASE PacingGood(u)
  <2> DEFINE b == u.pace.owed \/ (pace.owed /\ pace.multiplier > 1)
  <2>1. b \in BOOLEAN /\ (u.pace.owed => b)
    OBVIOUS
  <2>2. u \in PacingWorlds
    BY <1>9 DEF PacingGood
  <2>3. StillOwed(u) = [u EXCEPT !.pace.owed = b]
    BY <2>2 DEF StillOwed, PacingWorlds, Paces
  <2> HIDE DEF b
  <2> QED BY <1>5, <1>9, <2>1, <2>3, OwedGood
<1>10. ASSUME NEW keys, u \in RestoreOutcomes(r.w, keys, wanted)
       PROVE  PacingGood(u)
  BY <1>4, <1>7, <1>10, RestoreLemma
<1> QED BY <1>4, <1>5, <1>7, <1>8, <1>9, <1>10, PersistLemma

-----------------------------------------------------------------------------
(***************************************************************************)
(* The invariant.                                                          *)
(***************************************************************************)
Budgets == [inputs : Nat, refusals : Nat, changes : Nat]

\* Reflex has what is configured or owes it; caps stay valid on every row;
\* and the open menu is drawn on a frame that nothing was generated for.
MenuInv ==
    /\ ini \in Inis
    /\ pace \in Paces
    /\ Awake(pace)
    /\ Settled(pace, ini, refresh)
    /\ menu \in Menus
    /\ refresh \in Nat
    /\ phase \in {"end", "menu"}
    /\ left \in Budgets
    /\ phase = "menu" /\ menu.open => HaltedOrOwed(pace)

LEMMA HereGood ==
  ASSUME MenuInv
  PROVE  /\ Here.ini = ini /\ Here.pace = pace
         /\ Here \in PacingWorlds
         /\ PacingGood(Here)
<1>1. Here.ini = ini /\ Here.pace = pace
  BY DEF Here
<1>2. left.refusals \in Nat
  BY DEF MenuInv, Budgets
<1>3. Here \in PacingWorlds
  BY <1>2 DEF MenuInv, Here, PacingWorlds
<1> HIDE DEF Here
<1> QED BY <1>1, <1>3 DEF MenuInv, PacingGood

\* What a call leaves behind is a good state, wherever the frame is.
LEMMA BecomeGood ==
  ASSUME MenuInv, NEW w, PacingGood(w), ini' = w.ini, pace' = w.pace,
         UNCHANGED refresh
  PROVE  /\ ini' \in Inis /\ pace' \in Paces /\ w.refusals \in Nat
         /\ Awake(pace') /\ Settled(pace', ini', refresh') /\ refresh' \in Nat
<1>1. w \in PacingWorlds
  BY DEF PacingGood
<1>2. Awake(w.pace) /\ Settled(w.pace, w.ini, refresh)
  BY DEF PacingGood
<1>3. PICK i, p, hz : i = ini' /\ p = pace' /\ hz = refresh'
  OBVIOUS
<1>4. w.ini \in Inis /\ w.pace \in Paces /\ w.refusals \in Nat
  BY <1>1, PacingParts
<1>5. i = w.ini /\ p = w.pace /\ hz = refresh
  BY <1>3
<1>6. Awake(p) /\ Settled(p, i, hz)
  BY <1>2, <1>5
<1>7. refresh' \in Nat
  BY DEF MenuInv
<1> QED BY <1>3, <1>4, <1>6, <1>7

LEMMA BudgetFacts ==
  ASSUME left \in Budgets, NEW n \in Nat
  PROVE  /\ [left EXCEPT !.refusals = n] \in Budgets
         /\ left.inputs > 0 => [left EXCEPT !.inputs = @ - 1] \in Budgets
         /\ left.changes > 0 =>
               /\ [left EXCEPT !.changes = @ - 1] \in Budgets
               /\ [left EXCEPT !.refusals = n, !.changes = @ - 1] \in Budgets
<1>1. PICK a, ca : a = left.inputs - 1 /\ ca = left.changes - 1
  OBVIOUS
<1>2. left.inputs \in Nat /\ left.changes \in Nat
  BY DEF Budgets
<1>3. /\ left.inputs > 0 => a \in Nat
      /\ left.changes > 0 => ca \in Nat
  BY <1>1, <1>2
<1>4. [left EXCEPT !.refusals = n] \in Budgets
  BY DEF Budgets
<1>5. left.inputs > 0 => [left EXCEPT !.inputs = a] \in Budgets
  BY <1>3 DEF Budgets
<1>6. left.changes > 0 => [left EXCEPT !.changes = ca] \in Budgets
  BY <1>3 DEF Budgets
<1>7. left.changes > 0 => [left EXCEPT !.refusals = n, !.changes = ca] \in Budgets
  BY <1>3 DEF Budgets
<1> QED BY <1>1, <1>4, <1>5, <1>6, <1>7

-----------------------------------------------------------------------------
(***************************************************************************)
(* The end of a frame.                                                     *)
(***************************************************************************)
LEMMA EditFacts ==
  ASSUME NEW i \in Inis, NEW e \in Edits(i)
  PROVE  e \in Inis
<1>1. ASSUME NEW v \in FileCaps
      PROVE  LoadedCap(v) \in Caps
  BY MenuAssumption, CapFacts DEF LoadedCap
<1>2. ASSUME NEW m \in Range1(Generated)
      PROVE  m \in Nat
  BY MenuAssumption DEF Range1
<1>3. \/ \E v \in FileCaps : e = [i EXCEPT !.base = LoadedCap(v)]
      \/ \E v \in FileCaps : e = [i EXCEPT !.limit = LoadedCap(v)]
      \/ \E m \in Range1(Generated) : e = [i EXCEPT !.multiplier = m]
      \/ e = [i EXCEPT !.dynamic = ~@]
      \/ e = [i EXCEPT !.enabled = ~@]
      \/ \E m \in ReflexModes : e = [i EXCEPT !.reflex = m]
  BY DEF Edits
<1>4. ASSUME NEW v \in FileCaps, e = [i EXCEPT !.base = LoadedCap(v)]
      PROVE  e \in Inis
  BY <1>1, <1>4 DEF Inis
<1>5. ASSUME NEW v \in FileCaps, e = [i EXCEPT !.limit = LoadedCap(v)]
      PROVE  e \in Inis
  BY <1>1, <1>5 DEF Inis
<1>6. ASSUME NEW m \in Range1(Generated), e = [i EXCEPT !.multiplier = m]
      PROVE  e \in Inis
  BY <1>2, <1>6 DEF Inis
<1>7. CASE e = [i EXCEPT !.dynamic = ~@]
  BY <1>7 DEF Inis
<1>8. CASE e = [i EXCEPT !.enabled = ~@]
  BY <1>8 DEF Inis
<1>9. ASSUME NEW m \in ReflexModes, e = [i EXCEPT !.reflex = m]
      PROVE  e \in Inis
  BY <1>9 DEF Inis
<1> QED BY <1>3, <1>4, <1>5, <1>6, <1>7, <1>8, <1>9

LEMMA ReloadHolds ==
  ASSUME MenuInv, Reload
  PROVE  MenuInv'
<1>1. PICK i \in Edits(ini) :
        \E w \in ReapplyOutcomes([Here EXCEPT !.ini = i], i.reflex, i.limit) :
          /\ ini' = i
          /\ pace' = w.pace
          /\ left' = [left EXCEPT !.refusals = w.refusals, !.changes = @ - 1]
  BY DEF Reload
<1>2. PICK w \in ReapplyOutcomes([Here EXCEPT !.ini = i], i.reflex, i.limit) :
        /\ ini' = i
        /\ pace' = w.pace
        /\ left' = [left EXCEPT !.refusals = w.refusals, !.changes = @ - 1]
  BY <1>1
<1>3. /\ phase = "end" /\ left.changes > 0
      /\ UNCHANGED <<menu, refresh, phase>>
  BY DEF Reload
<1>4. i \in Inis /\ i.reflex \in ReflexModes /\ i.limit \in Nat
  BY EditFacts, IniParts DEF MenuInv
<1> DEFINE u == [Here EXCEPT !.ini = i]
<1>5. u \in PacingWorlds /\ u.pace = pace /\ u.ini = i
  BY <1>4, HereGood, WithSettings
<1>6. AskedFrom(u, i.limit, w)
  <2>1. w \in ReapplyOutcomes(u, i.reflex, i.limit)
    OBVIOUS
  <2> HIDE DEF u
  <2> QED BY <1>4, <1>5, <2>1, ReapplyLemma DEF MenuInv
<1> HIDE DEF u
<1>7. Awake(u.pace)
  BY <1>5 DEF MenuInv
<1>8. PacingGood(w)
  BY <1>5, <1>6, <1>7, AskedGood
<1>9. w.ini = i
  BY <1>5, <1>6 DEF AskedFrom
<1>10. /\ ini' \in Inis /\ pace' \in Paces /\ w.refusals \in Nat
      /\ Awake(pace') /\ Settled(pace', ini', refresh') /\ refresh' \in Nat
  BY <1>2, <1>3, <1>8, <1>9, BecomeGood
<1>11. left' \in Budgets
  BY <1>2, <1>3, <1>10, BudgetFacts DEF MenuInv
<1> QED BY <1>3, <1>10, <1>11 DEF MenuInv

LEMMA NoteRefreshHolds ==
  ASSUME MenuInv, NoteRefresh
  PROVE  MenuInv'
<1>1. PICK hz \in Refreshes : refresh' = hz /\ pace' = [pace EXCEPT !.dirty = TRUE]
  BY DEF NoteRefresh
<1>2. /\ phase = "end" /\ left.changes > 0
      /\ left' = [left EXCEPT !.changes = @ - 1]
      /\ UNCHANGED <<ini, menu, phase>>
  BY DEF NoteRefresh
<1>3. refresh' \in Nat
  BY <1>1, MenuAssumption
<1>4. left' \in Budgets
  BY <1>2, BudgetFacts DEF MenuInv
<1>5. pace \in Paces
  BY DEF MenuInv
<1>6. PICK p : p = pace'
  OBVIOUS
<1>7. p \in Paces
  BY <1>1, <1>5, <1>6 DEF Paces
<1>8. p.dirty /\ p.owed = pace.owed
  BY <1>1, <1>5, <1>6 DEF Paces
<1>9. p.output = pace.output
  BY <1>1, <1>5, <1>6 DEF Paces
<1>10. p.multiplier = pace.multiplier /\ p.submitted = pace.submitted
  BY <1>1, <1>5, <1>6 DEF Paces
<1>11. Awake(p)
  BY <1>10 DEF MenuInv, Awake
<1>12. ASSUME NEW hertz
       PROVE  Settled(p, ini, hertz)
  BY <1>8, <1>9 DEF MenuInv, Settled
<1>13. Settled(pace', ini', refresh')
  <2>1. PICK hertz : hertz = refresh'
    OBVIOUS
  <2> QED BY <1>2, <1>6, <1>12, <2>1
<1>14. Awake(pace') /\ pace' \in Paces
  BY <1>6, <1>7, <1>11
<1> QED BY <1>2, <1>3, <1>4, <1>13, <1>14 DEF MenuInv

\* A frame that ends with generation given up.
LEMMA GivenUpHolds ==
  ASSUME MenuInv, phase = "end", NEW u, PacingGood(u),
         NEW w \in SuspendOutcomes(u), Become(w), phase' = "menu",
         UNCHANGED <<menu, refresh>>
  PROVE  MenuInv'
<1>1. PacingGood(w) /\ HaltedOrOwed(w.pace)
  BY SuspendLemma
<1>2. ini' = w.ini /\ pace' = w.pace
      /\ left' = [left EXCEPT !.refusals = w.refusals]
  BY DEF Become
<1>3. /\ ini' \in Inis /\ pace' \in Paces /\ w.refusals \in Nat
      /\ Awake(pace') /\ Settled(pace', ini', refresh') /\ refresh' \in Nat
  BY <1>1, <1>2, BecomeGood
<1>4. left' \in Budgets
  BY <1>2, <1>3, BudgetFacts DEF MenuInv
<1>5. HaltedOrOwed(pace')
  BY <1>1, <1>2
<1> QED BY <1>3, <1>4, <1>5 DEF MenuInv

\* A frame that ends with the menu closed.
LEMMA ClosedHolds ==
  ASSUME MenuInv, phase = "end", ~menu.open, NEW w, PacingGood(w), Become(w),
         phase' = "menu", UNCHANGED <<menu, refresh>>
  PROVE  MenuInv'
<1>1. ini' = w.ini /\ pace' = w.pace
      /\ left' = [left EXCEPT !.refusals = w.refusals]
  BY DEF Become
<1>2. /\ ini' \in Inis /\ pace' \in Paces /\ w.refusals \in Nat
      /\ Awake(pace') /\ Settled(pace', ini', refresh') /\ refresh' \in Nat
  BY <1>1, BecomeGood
<1>3. left' \in Budgets
  BY <1>1, <1>2, BudgetFacts DEF MenuInv
<1> QED BY <1>2, <1>3 DEF MenuInv

LEMMA EndFrameHolds ==
  ASSUME MenuInv, EndFrame
  PROVE  MenuInv'
<1>1. ini.multiplier \in Nat
  BY IniParts DEF MenuInv
<1>2. CASE EndFrameOff
  <2>1. PICK w \in SuspendOutcomes(Here) : Become(w)
    BY <1>2 DEF EndFrameOff
  <2> QED BY <1>2, <2>1, HereGood, GivenUpHolds DEF EndFrameOff
<1>3. CASE EndFrameHalted
  <2>1. PICK w \in SuspendOutcomes(Remembered(Here, ini.multiplier)) : Become(w)
    BY <1>3 DEF EndFrameHalted
  <2>2. PacingGood(Remembered(Here, ini.multiplier))
    BY <1>1, HereGood, RememberedGood
  <2> QED BY <1>3, <2>1, <2>2, GivenUpHolds DEF EndFrameHalted
<1>4. CASE EndFrameIncomplete
  <2>1. PICK w \in SuspendOutcomes(Here) : Become(w)
    BY <1>4 DEF EndFrameIncomplete
  <2> QED BY <1>4, <2>1, HereGood, GivenUpHolds DEF EndFrameIncomplete
<1>5. refresh \in Nat
  BY DEF MenuInv
<1>6. CASE EndFrameGuarded
  <2>1. PICK w \in PrepareOutcomes(Here) : Become(w)
    BY <1>6 DEF EndFrameGuarded
  <2>2. PacingGood(w)
    BY <1>5, <2>1, HereGood, PrepareLemma DEF PreparedFrom
  <2> QED BY <1>6, <2>1, <2>2, ClosedHolds DEF EndFrameGuarded, MenuOpen
<1>7. CASE EndFrameComplete
  <2>1. PICK v \in PrepareOutcomes(Here) :
          \E w \in ConfigureOutcomes(v) : Become(w)
    BY <1>7 DEF EndFrameComplete
  <2>2. PICK w \in ConfigureOutcomes(v) : Become(w)
    BY <2>1
  <2>3. PreparedFrom(Here, v)
    BY <1>5, HereGood, PrepareLemma
  <2>4. PacingGood(w)
    BY <2>3, ConfigureLemma
  <2> QED BY <1>7, <2>2, <2>4, ClosedHolds DEF EndFrameComplete, MenuOpen
<1> QED BY <1>2, <1>3, <1>4, <1>6, <1>7 DEF EndFrame

-----------------------------------------------------------------------------
(***************************************************************************)
(* The menu, between a frame and its end.                                  *)
(***************************************************************************)
\* Inputs change the controls and nothing that Reflex or the file has.
LEMMA DrawnHolds ==
  ASSUME MenuInv, NEW m \in Menus, DrawnWith(m), left' \in Budgets
  PROVE  MenuInv'
<1>1. /\ menu' \in Menus /\ phase' = "end"
      /\ UNCHANGED <<ini, pace, refresh>>
  BY DEF DrawnWith
<1>2. Awake(pace') /\ Settled(pace', ini', refresh')
  BY <1>1 DEF MenuInv, Awake, Settled, Paced
<1> QED BY <1>1, <1>2 DEF MenuInv

LEMMA InputHolds ==
  ASSUME MenuInv, NEW m \in OpenMenus, Input(m)
  PROVE  MenuInv'
<1>1. left' \in Budgets
  BY BudgetFacts DEF MenuInv, Input
<1>2. m \in Menus /\ DrawnWith(m)
  BY DEF Menus, Input
<1> QED BY <1>1, <1>2, DrawnHolds

LEMMA OpenedFacts ==
  ASSUME ini \in Inis
  PROVE  Opened \in OpenMenus
<1> DEFINE b == CapRow(ini.base, CustomBase)
           o == CapRow(ini.limit, CustomOutput)
           g == IF ini.enabled THEN ini.multiplier ELSE 0
<1>1. CustomBase \in Caps /\ CustomOutput \in Caps
  BY MenuAssumption, CapsAssumption DEF Caps, ValidCap
<1>2. b \in Rows /\ o \in Rows
  BY <1>1, IniParts, CapRowFacts
<1>3. g \in Nat
  BY IniParts
<1>4. ini.dynamic \in BOOLEAN /\ ini.reflex \in ReflexModes
  BY IniParts
<1>5. Opened = [open |-> TRUE, base |-> b, out |-> o, generated |-> g,
                dynamic |-> ini.dynamic, reflex |-> ini.reflex,
                editing |-> "none", typed |-> Nothing]
  BY DEF Opened
<1> HIDE DEF b, o, g
<1> QED BY <1>2, <1>3, <1>4, <1>5 DEF OpenMenus

LEMMA AdjustBaseHolds ==
  ASSUME MenuInv, AdjustBase
  PROVE  MenuInv'
<1> DEFINE m == NotEditing(menu)
<1>1. PICK direction \in Directions, step \in Steps :
        Input([NotEditing(menu) EXCEPT !.base = AdjustedRow(@, direction, step)])
  BY DEF AdjustBase
<1>2. menu \in OpenMenus
  BY OpenIsOpen DEF MenuInv, AdjustBase
<1>3. m \in OpenMenus
  BY <1>2, NotEditingFacts
<1>4. m.base \in Rows /\ step \in Nat
  BY <1>3, OpenMenuParts, MenuAssumption
<1> DEFINE b == AdjustedRow(m.base, direction, step)
<1>5. b \in Rows
  BY <1>4, AdjustedRowFacts
<1>6. Input([m EXCEPT !.base = b])
  BY <1>1
<1> HIDE DEF b, m
<1>7. [m EXCEPT !.base = b] \in OpenMenus
  BY <1>3, <1>5, WithBase
<1> QED BY <1>6, <1>7, InputHolds

LEMMA AdjustOutputHolds ==
  ASSUME MenuInv, AdjustOutput
  PROVE  MenuInv'
<1> DEFINE m == NotEditing(menu)
<1>1. PICK direction \in Directions, step \in Steps :
        Input([NotEditing(menu) EXCEPT !.out = AdjustedRow(@, direction, step)])
  BY DEF AdjustOutput
<1>2. menu \in OpenMenus
  BY OpenIsOpen DEF MenuInv, AdjustOutput
<1>3. m \in OpenMenus
  BY <1>2, NotEditingFacts
<1>4. m.out \in Rows /\ step \in Nat
  BY <1>3, OpenMenuParts, MenuAssumption
<1> DEFINE o == AdjustedRow(m.out, direction, step)
<1>5. o \in Rows
  BY <1>4, AdjustedRowFacts
<1>6. Input([m EXCEPT !.out = o])
  BY <1>1
<1> HIDE DEF o, m
<1>7. [m EXCEPT !.out = o] \in OpenMenus
  BY <1>3, <1>5, WithOut
<1> QED BY <1>6, <1>7, InputHolds

LEMMA AdjustMultipliedHolds ==
  ASSUME MenuInv, AdjustMultipliedOutput
  PROVE  MenuInv'
<1>1. menu \in OpenMenus
  BY OpenIsOpen DEF MenuInv, AdjustMultipliedOutput
<1>2. menu.base \in Rows /\ menu.out \in Rows /\ menu.generated \in Nat
  BY <1>1, OpenMenuParts
<1>3. PICK direction \in Directions :
        /\ MultipliedBase(menu, direction) # Selected(menu.base)
        /\ Input([menu EXCEPT
                    !.base.preset = MultipliedBase(menu, direction),
                    !.base.isCustom = FALSE,
                    !.out.preset = MultipliedBase(menu, direction) * menu.generated,
                    !.out.isCustom = FALSE])
  BY DEF AdjustMultipliedOutput
<1>4. PICK base : base = MultipliedBase(menu, direction)
  OBVIOUS
<1> DEFINE output == base * menu.generated
<1>5. base \in Caps /\ output \in Caps
  <2>1. Selected(menu.base) \in Caps /\ direction \in Int
    BY <1>2, SelectedFacts DEF Directions
  <2> QED BY <1>2, <1>3, <1>4, <2>1, BaseByOutputFacts DEF MultipliedBase
<1>6. Input([menu EXCEPT !.base.preset = base, !.base.isCustom = FALSE,
                         !.out.preset = output, !.out.isCustom = FALSE])
  BY <1>3, <1>4
<1> HIDE DEF output
<1> DEFINE b == [menu.base EXCEPT !.preset = base, !.isCustom = FALSE]
           o == [menu.out EXCEPT !.preset = output, !.isCustom = FALSE]
<1>7. b \in Rows
  BY <1>2, <1>5 DEF Rows
<1>8. o \in Rows
  BY <1>2, <1>5 DEF Rows
<1>9. [menu EXCEPT !.base.preset = base, !.base.isCustom = FALSE,
                   !.out.preset = output, !.out.isCustom = FALSE] =
      [menu EXCEPT !.base = b, !.out = o]
  BY <1>1 DEF OpenMenus
<1>10. Input([menu EXCEPT !.base = b, !.out = o])
  BY <1>6, <1>9
<1> HIDE DEF b, o
<1>11. [menu EXCEPT !.base = b, !.out = o] \in OpenMenus
  BY <1>1, <1>7, <1>8, WithRows
<1> QED BY <1>10, <1>11, InputHolds

LEMMA CycleHolds ==
  ASSUME MenuInv, CycleGenerated \/ CycleDynamic \/ CycleReflex
  PROVE  MenuInv'
<1>1. menu \in OpenMenus
  BY OpenIsOpen DEF MenuInv, CycleGenerated, CycleDynamic, CycleReflex
<1>2. CASE CycleGenerated
  <2>1. PICK n \in ToSet(Generated) : Input([menu EXCEPT !.generated = n])
    BY <1>2 DEF CycleGenerated
  <2>2. n \in Nat
    BY MenuAssumption DEF ToSet
  <2>3. [menu EXCEPT !.generated = n] \in OpenMenus
    BY <1>1, <2>2 DEF OpenMenus
  <2> QED BY <2>1, <2>3, InputHolds
<1>3. CASE CycleDynamic
  <2>1. [menu EXCEPT !.dynamic = ~@] \in OpenMenus
    BY <1>1 DEF OpenMenus
  <2> QED BY <1>3, <2>1, InputHolds DEF CycleDynamic
<1>4. CASE CycleReflex
  <2>1. PICK mode \in ReflexModes : Input([menu EXCEPT !.reflex = mode])
    BY <1>4 DEF CycleReflex
  <2>2. [menu EXCEPT !.reflex = mode] \in OpenMenus
    BY <1>1 DEF OpenMenus
  <2> QED BY <2>1, <2>2, InputHolds
<1> QED BY <1>2, <1>3, <1>4

LEMMA TypingHolds ==
  ASSUME MenuInv, StartEdit \/ Type \/ CommitTyped \/ EscapeEdit
  PROVE  MenuInv'
<1>1. menu \in OpenMenus /\ left \in Budgets
  BY OpenIsOpen DEF MenuInv, StartEdit, Type, CommitTyped, EscapeEdit
<1>2. CASE StartEdit
  <2>1. PICK row \in {"base", "out"} :
          Input([menu EXCEPT !.editing = row, !.typed = Nothing])
    BY <1>2 DEF StartEdit
  <2>2. [menu EXCEPT !.editing = row, !.typed = Nothing] \in OpenMenus
    BY <1>1 DEF OpenMenus
  <2> QED BY <2>1, <2>2, InputHolds
<1>3. CASE Type
  <2>1. PICK v \in TypedCaps : Input([menu EXCEPT !.typed = v])
    BY <1>3 DEF Type
  <2>2. v \in Nat
    BY MenuAssumption
  <2>3. [menu EXCEPT !.typed = v] \in OpenMenus
    BY <1>1, <2>2 DEF OpenMenus
  <2> QED BY <2>1, <2>3, InputHolds
<1>4. CASE CommitTyped
  <2>1. TypedInto(menu) \in Menus
    BY <1>1, <1>4, TypedIntoFacts DEF CommitTyped, Menus
  <2> QED BY <1>1, <1>4, <2>1, DrawnHolds DEF CommitTyped
<1>5. CASE EscapeEdit
  <2>1. NotEditing(menu) \in Menus
    BY <1>1, NotEditingFacts DEF Menus
  <2> QED BY <1>1, <1>5, <2>1, DrawnHolds DEF EscapeEdit
<1> QED BY <1>2, <1>3, <1>4, <1>5

LEMMA OpenCloseHolds ==
  ASSUME MenuInv, NoInput \/ OpenMenu \/ CloseMenu
  PROVE  MenuInv'
<1>1. left \in Budgets /\ menu \in Menus /\ ini \in Inis
  BY DEF MenuInv
<1>2. CASE NoInput
  BY <1>1, <1>2, DrawnHolds DEF NoInput
<1>3. CASE OpenMenu
  <2>1. Opened \in Menus
    BY <1>1, OpenedFacts DEF Menus
  <2> QED BY <1>1, <1>3, <2>1, DrawnHolds DEF OpenMenu
<1>4. CASE CloseMenu
  <2>1. Closed \in Menus
    BY DEF Menus
  <2> QED BY <1>1, <1>4, <2>1, DrawnHolds DEF CloseMenu
<1> QED BY <1>2, <1>3, <1>4

LEMMA ApplyHolds ==
  ASSUME MenuInv, Apply
  PROVE  MenuInv'
<1> DEFINE m == IF menu.editing = "none" THEN menu ELSE TypedInto(menu)
<1>1. /\ phase = "menu" /\ menu.open
      /\ menu.editing = "none" \/ ~CommitRefused(menu)
      /\ menu' = m /\ phase' = "end" /\ UNCHANGED refresh
  BY DEF Apply
<1>2. PICK w \in ApplyOutcomes(m) : Become(w)
  BY DEF Apply
<1>3. menu \in OpenMenus
  BY <1>1, OpenIsOpen DEF MenuInv
<1>4. m \in OpenMenus
  BY <1>1, <1>3, TypedIntoFacts
<1> HIDE DEF m
<1>5. HaltedOrOwed(pace) /\ refresh \in Nat
  BY <1>1 DEF MenuInv
<1>6. PacingGood(w)
  BY <1>2, <1>4, <1>5, HereGood, ApplyLemma
<1>7. ini' = w.ini /\ pace' = w.pace
      /\ left' = [left EXCEPT !.refusals = w.refusals]
  BY <1>2 DEF Become
<1>8. /\ ini' \in Inis /\ pace' \in Paces /\ w.refusals \in Nat
      /\ Awake(pace') /\ Settled(pace', ini', refresh') /\ refresh' \in Nat
  BY <1>1, <1>6, <1>7, BecomeGood
<1>9. left' \in Budgets
  BY <1>7, <1>8, BudgetFacts DEF MenuInv
<1>10. menu' \in Menus
  BY <1>1, <1>4 DEF Menus
<1> QED BY <1>1, <1>8, <1>9, <1>10 DEF MenuInv

-----------------------------------------------------------------------------
LEMMA MenuStarts == MenuInit => MenuInv
<1> SUFFICES ASSUME MenuInit
             PROVE  MenuInv
  OBVIOUS
<1>1. PICK v \in FileCaps, e \in BOOLEAN :
        ini = [Defaults EXCEPT !.base = LoadedCap(v), !.enabled = e]
  BY DEF MenuInit
<1>2. LoadedCap(v) \in Caps
  BY MenuAssumption, CapFacts DEF LoadedCap
<1>3. Defaults \in Inis
  BY CapFacts DEF Defaults, Inis, ReflexModes
<1>4. ini \in Inis /\ ini.limit = 0
  BY <1>1, <1>2, <1>3 DEF Inis, Defaults
<1>5. pace = NewPace /\ refresh = 0 /\ menu = Closed /\ phase = "end"
  BY DEF MenuInit
<1>6. pace \in Paces /\ Awake(pace)
  BY <1>5 DEF NewPace, Paces, Awake, Cadences, FixedCadence, ReflexModes
<1>7. PacingCap(0, 0) = 0 /\ \A ca, d : LimitPreservingBase(0, ca, d) = 0
  BY DEF PacingCap, LimitPreservingBase
<1>8. pace.output = 0 /\ pace.cap = 0 /\ pace.limit = 0
  BY <1>5 DEF NewPace
<1>9. Settled(pace, ini, refresh)
  BY <1>4, <1>5, <1>7, <1>8 DEF Settled, Paced
<1>10. left \in Budgets
  BY MenuAssumption DEF MenuInit, Budgets
<1> QED BY <1>4, <1>5, <1>6, <1>9, <1>10 DEF MenuInv, Menus, Closed

LEMMA MenuStep == MenuInv /\ [MenuNext]_menuVars => MenuInv'
<1> SUFFICES ASSUME MenuInv, [MenuNext]_menuVars
             PROVE  MenuInv'
  OBVIOUS
<1>1. CASE Reload
  BY <1>1, ReloadHolds
<1>2. CASE NoteRefresh
  BY <1>2, NoteRefreshHolds
<1>3. CASE EndFrame
  BY <1>3, EndFrameHolds
<1>4. CASE NoInput \/ OpenMenu \/ CloseMenu
  BY <1>4, OpenCloseHolds
<1>5. CASE StartEdit \/ Type \/ CommitTyped \/ EscapeEdit
  BY <1>5, TypingHolds
<1>6. CASE CycleGenerated \/ CycleDynamic \/ CycleReflex
  BY <1>6, CycleHolds
<1>7. CASE AdjustBase
  BY <1>7, AdjustBaseHolds
<1>8. CASE AdjustOutput
  BY <1>8, AdjustOutputHolds
<1>9. CASE AdjustMultipliedOutput
  BY <1>9, AdjustMultipliedHolds
<1>10. CASE Apply
  BY <1>10, ApplyHolds
<1>11. CASE UNCHANGED menuVars
  BY <1>11 DEF menuVars, MenuInv, Awake, Settled, Paced, HaltedOrOwed, Divisor
<1> QED BY <1>1, <1>2, <1>3, <1>4, <1>5, <1>6, <1>7, <1>8, <1>9, <1>10, <1>11
       DEF MenuNext, Draw

\* Through every edit of the file, input, Apply, refusal and change of the
\* display, Reflex has what is configured or owes it, and while the menu is
\* open a limit of generated frames is owed (StatusOverlay.cpp and
\* FrameGeneration.cpp).
THEOREM MenuInvariant == MenuSpec => []MenuInv
BY MenuStarts, MenuStep, PTL DEF MenuSpec

\* Reflex paces frames by the caps that are configured, unless a refusal or a
\* new refresh rate is still to be dealt with (apply_reflex_options).
THEOREM PacedAsConfigured == MenuSpec => []ReflexAsConfigured
<1>1. MenuInv => ReflexAsConfigured
  BY DEF MenuInv, Settled, Paced, ReflexAsConfigured
<1> QED BY <1>1, MenuInvariant, PTL

\* DLSS-G never generates while Reflex is told to be off
\* (effective_reflex_mode).
THEOREM GeneratesWithReflex == MenuSpec => []ReflexOnWhileGenerating
<1>1. MenuInv => ReflexOnWhileGenerating
  BY DEF MenuInv, Awake, ReflexOnWhileGenerating
<1> QED BY <1>1, MenuInvariant, PTL

\* No sequence of inputs brings a row, or the settings, to a cap that a later
\* launch would not read back (OutputCapControls.hpp).
THEOREM EveryCapValid == MenuSpec => []CapsValid
<1>1. ASSUME MenuInv
      PROVE  CapsValid
  <2>1. ValidCap(ini.base) /\ ValidCap(ini.limit)
    BY <1>1, IniParts, CapFacts DEF MenuInv
  <2>2. ASSUME menu.open
        PROVE  ValidCap(Selected(menu.base)) /\ ValidCap(Selected(menu.out))
    <3>1. menu \in OpenMenus
      BY <1>1, <2>2, OpenIsOpen DEF MenuInv
    <3> QED BY <3>1, OpenMenuParts, SelectedFacts, CapFacts
  <2> QED BY <2>1, <2>2 DEF CapsValid
<1> QED BY <1>1, MenuInvariant, PTL
=============================================================================
