------------------------------ MODULE UiLayer ------------------------------
(***************************************************************************)
(* The UI layer of a frame: what Skyrim draws into it between the hooks of *)
(* DynamicResolution.cpp (RasterGuard), and what becomes of it in          *)
(* State::present of PresentationBridge.cpp (UiVerification).              *)
(*                                                                         *)
(* Skyrim binds targets and sets rectangles in any order, inside displays  *)
(* and between them.  The shared textures may be rebuilt at any time, a    *)
(* new one at any address nothing holds; creating a view and mapping a     *)
(* readback may fail; the GPU makes the copy of a validation when it likes.*)
(***************************************************************************)
EXTENDS RasterGuard, UiVerification, FiniteSets

CONSTANTS
    Surfaces,       \* "complete", "sub_rect", "native"
    Addresses,      \* where a texture can be
    MaxTextures,    \* bound: layers of a session
    MaxFaults,      \* bound: failed creations and readbacks of a session
    MaxAge          \* bound: frames presented since the layer was last read

ASSUME AddressAssumption == Addresses \subseteq Nat \ {0}
ASSUME BoundsAssumption == {MaxTextures, MaxFaults, MaxAge} \subseteq Nat

VARIABLES
    surface,    \* how the session renders
    c,          \* the D3D11 context, see RasterGuard
    content,    \* what the layer holds
    layer,      \* SharedResources' texture of the layer
    held,       \* LayerState of the composite pass
    report,     \* CaptureReportState
    extraction, \* ExtractionState
    faults,     \* how many operations have failed
    failed,     \* history: a composite could not make its state
    handed      \* history: what Present last handed over as safe

vars == <<surface, c, content, layer, held, report, extraction, faults, failed,
          handed>>

NothingHanded == [id |-> 0, read |-> 0, age |-> 0, misses |-> 0]

Init ==
    /\ surface \in Surfaces
    /\ c = NewContext
    /\ content = "none"
    /\ \E a \in Addresses : layer = [addr |-> a, id |-> 1]
    /\ held = None /\ report = NoReportState /\ extraction = NoExtraction
    /\ faults = 0 /\ failed = FALSE
    /\ handed = NothingHanded

-----------------------------------------------------------------------------
\* Skyrim's calls.
Binds == {b \in [first : Targets \ {"layer"}, second : {"none", "scene", "small"},
                 keep : BOOLEAN] :
            b.keep => b.first = "none" /\ b.second = "none"}

SceneViewports == IF surface = "native" THEN {"output", "other"}
                  ELSE {"render", "output", "other"}

UnchangedPasses == UNCHANGED <<surface, layer, held, report, extraction, faults,
                               failed, handed>>

\* bound: Skyrim's calls come in every order until the first Present has built
\* a pass; after that it only draws its UI.
FirstFrame == held = None /\ extraction.addr = 0 /\ layer.id = 1

UiBind == [first |-> "back", second |-> "none", keep |-> FALSE]

GameBind(b, views) ==
    /\ FirstFrame \/ (b = UiBind /\ ~views /\ c.inside)
    /\ c' = SetTargets(surface, c, b, views)
    /\ UnchangedPasses /\ UNCHANGED content

GameViewport(v) ==
    /\ FirstFrame
    /\ c' = SetViewport(surface, c, v)
    /\ UnchangedPasses /\ UNCHANGED content

GameScissor(v) ==
    /\ FirstFrame
    /\ c' = SetScissor(surface, c, v)
    /\ UnchangedPasses /\ UNCHANGED content

DrawLayer(what) ==
    /\ c.target = "layer"
    /\ content' = what
    /\ UNCHANGED c /\ UnchangedPasses

\* The displays: the first one opens the layer where it can be.
BeginDisplay(opens) ==
    /\ ~c.inside
    /\ c' = LET entered == [c EXCEPT !.inside = TRUE]
            IN  IF opens /\ ~c.ui THEN BeginUi(surface, entered)
                ELSE entered
    /\ content' = IF opens /\ ~c.ui THEN "none" ELSE content
    /\ UnchangedPasses

EndDisplay ==
    /\ c.inside
    /\ c' = [c EXCEPT !.inside = FALSE]
    /\ UnchangedPasses /\ UNCHANGED content

-----------------------------------------------------------------------------
\* Present.
Fault(happens) ==
    /\ faults + (IF happens THEN 1 ELSE 0) <= MaxFaults
    /\ faults' = faults + (IF happens THEN 1 ELSE 0)

\* The layer was drawn into: it is composited, then classified.
PresentDirect(created, mapped) ==
    /\ c.rendering /\ ~c.inside
    /\ report.age < MaxAge
    /\ Fault(~created \/ ~mapped)
    /\ LET composed == Composite(held, layer, created)
           closed == EndUi(surface, c)
           told == ReportLayer(report, layer, created, mapped, content)
       IN  /\ held' = composed.held
           /\ failed' = (failed \/ ~composed.ok)
           /\ c' = IF composed.ok THEN DrawPass(surface, closed, "back")
                   ELSE closed
           /\ report' = IF composed.ok THEN told.state ELSE report
           /\ handed' = IF composed.ok /\ told.safe
                        THEN [id |-> layer.id, read |-> told.state.read.id,
                              age |-> told.state.age,
                              misses |-> told.state.misses]
                        ELSE NothingHanded
    /\ content' = "none"
    /\ UNCHANGED <<surface, layer, extraction>>

\* It was not: one is read out of the finished frame.
PresentExtracted(created, copied, what) ==
    /\ ~c.rendering /\ ~c.inside
    /\ Fault(~created)
    /\ LET found == ExtractLayer(extraction, layer, created, copied, what)
           closed == EndUi(surface, c)
       IN  /\ extraction' = found.state
           /\ c' = IF found.state.addr # 0
                   THEN DrawPass(surface, closed, "layer") ELSE closed
           /\ handed' = IF found.safe
                        THEN [NothingHanded EXCEPT !.id = layer.id,
                                                   !.read = found.state.id]
                        ELSE NothingHanded
    /\ content' = "none"
    /\ UNCHANGED <<surface, layer, held, report, failed>>

-----------------------------------------------------------------------------
\* RendererRuntime::reset_all_history, when a save is loaded.
LoadSave ==
    /\ report' = ResetReports(report)
    /\ UNCHANGED <<surface, c, content, layer, held, extraction, faults, failed,
                   handed>>

\* SharedResources is shut down and made again: the old layer goes where
\* nothing holds it, and its address may be taken at once.
InUse == {t.addr : t \in {held, [addr |-> extraction.addr]}}

Rebuild ==
    /\ layer.id < MaxTextures
    /\ \E a \in Addresses \ InUse : layer' = [addr |-> a, id |-> layer.id + 1]
    /\ c' = [c EXCEPT !.rendering = FALSE,
                      !.target = IF @ = "layer" THEN "none" ELSE @]
    /\ content' = "none"
    /\ handed' = NothingHanded
    /\ UNCHANGED <<surface, held, report, extraction, faults, failed>>

\* UpscalingPass::shutdown, before a reset of the device.
ResetPasses ==
    /\ held' = None /\ report' = NoReportState /\ extraction' = NoExtraction
    /\ failed' = FALSE
    /\ handed' = NothingHanded
    /\ UNCHANGED <<surface, c, content, layer, faults>>

Next ==
    \/ \E b \in Binds, views \in BOOLEAN : GameBind(b, views)
    \/ \E v \in SceneViewports : GameViewport(v) \/ GameScissor(v)
    \/ \E w \in {"ui", "scene"} : DrawLayer(w)
    \/ \E o \in BOOLEAN : BeginDisplay(o)
    \/ EndDisplay
    \/ \E made, mapped \in BOOLEAN : PresentDirect(made, mapped)
    \/ \E made, copied \in BOOLEAN, w \in Contents :
         PresentExtracted(made, copied, w)
    \/ LoadSave \/ Rebuild \/ ResetPasses

Spec == Init /\ [][Next]_vars

-----------------------------------------------------------------------------
\* Whatever order Skyrim binds targets and sets rectangles in, nothing is drawn
\* past the reduced surface, and the UI fills the layer.
RasterFits ==
    /\ surface = "complete" /\ Extent(surface, c.target) = "render"
         => c.viewport # "output" /\ c.scissor # "output"
    /\ c.ui /\ c.target = "layer" => c.viewport # "render" /\ c.scissor # "render"

\* The passes compare addresses.  A layer is handed over as safe only where
\* this very texture was read, not one that lay at its address before; a
\* composite that could not make its state gives the address up.
ClassifiedTexture ==
    handed.id # 0 /\ ~failed => handed.read = handed.id

\* What is handed over was read at most one interval of frames ago, and one more
\* for every readback that failed.
ClassificationAge ==
    handed.age <= (handed.misses + 1) * (ReportInterval + 1) - 1

TypeOK ==
    /\ c.target \in Targets
    /\ {c.viewport, c.scissor} \subseteq {"render", "output", "other"}
    /\ content \in Contents
    /\ report.wait \in 0 .. ReportInterval
    /\ extraction.checks \in 0 .. MaxChecks
    /\ extraction.wait \in 0 .. CheckInterval
    /\ faults \in 0 .. MaxFaults
=============================================================================
