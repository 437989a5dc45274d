---------------------------- MODULE RasterGuard ----------------------------
(***************************************************************************)
(* What the hooks on the D3D11 context make of Skyrim's render targets,    *)
(* viewports and scissors, translated from src/render/DynamicResolution.cpp *)
(* and the two rebinds of SharedResources.cpp: operators over c, the part  *)
(* of the context and of DynamicResolution that the hooks read and write.  *)
(*                                                                         *)
(* A rectangle is "render", "output" or "other" (a shadow map's).  The     *)
(* scene's own targets have the render extent on a complete surface and    *)
(* the output's on a sub-rectangle; the back buffer is what Skyrim takes   *)
(* for one: the plugin's reduced one on a complete surface.                *)
(***************************************************************************)

Targets == {"none", "scene", "small", "back", "layer"}

Extent(surface, target) ==
    CASE target = "none" -> "none"
      [] target = "small" -> "other"
      [] target = "layer" -> "output"
      [] OTHER -> IF surface = "complete" THEN "render" ELSE "output"

NewContext == [target |-> "none", viewport |-> "output", scissor |-> "output",
               ui |-> FALSE, failed |-> FALSE, declined |-> FALSE,
               rendering |-> FALSE, inside |-> FALSE]

\* enforce_virtual_render_extent: nothing is drawn past the reduced surface.
Clamped(surface, c, v) ==
    IF surface = "complete" /\ Extent(surface, c.target) = "render"
       /\ v = "output"
    THEN "render" ELSE v

EnforceVirtual(surface, c) ==
    [c EXCEPT !.viewport = Clamped(surface, c, @),
              !.scissor = Clamped(surface, c, @)]

\* full_resolution_target_bound and enforce_full_resolution_extent: a
\* rectangle of the world's size on a target of the output's is the UI's.
Promoted(surface, c, v) ==
    IF c.ui /\ Extent(surface, c.target) = "output" /\ v = "render"
    THEN "output" ELSE v

EnforceFull(surface, c) ==
    [c EXCEPT !.viewport = Promoted(surface, c, @),
              !.scissor = Promoted(surface, c, @)]

\* rs_set_viewports_thunk and rs_set_scissor_rects_thunk.
SetViewport(surface, c, v) ==
    EnforceVirtual(surface, [c EXCEPT !.viewport = Promoted(surface, c, v)])

SetScissor(surface, c, v) ==
    EnforceVirtual(surface, [c EXCEPT !.scissor = Promoted(surface, c, v)])

-----------------------------------------------------------------------------
(***************************************************************************)
(* remap_full_resolution_ui_targets.  A bind b names its first target, a   *)
(* second one or "none", and keep, D3D11's request to leave them be.       *)
(***************************************************************************)
Requested(c, b) == IF b.keep THEN c.target ELSE b.first

\* A scene target beside the back buffer marks work that is not UI; so does
\* a back buffer bound between two displays.
SceneWork(c, b) == (~b.keep /\ b.second = "scene") \/ ~c.inside

Remaps(c, b) ==
    /\ c.ui /\ ~c.failed /\ c.rendering
    /\ Requested(c, b) = "back"
    /\ ~SceneWork(c, b)

Fits(b) == b.keep \/ b.second # "small"

\* om_set_render_targets_thunk, and its twin with unordered views, which does
\* not look behind a keep.  Its last refusal, a layer without a depth view, is
\* never met: while ui_rendering holds ui_recomposition_available did, which
\* asks for that view, and the two go away together with the state.
UnguardedBind(surface, c, b, views) ==          \* a slip: no check afterwards
    LET remaps == Remaps(c, b) /\ ~(views /\ b.keep)
    IN  [c EXCEPT !.declined = @ \/ (remaps /\ ~Fits(b)),
                  !.target = IF remaps /\ Fits(b) THEN "layer"
                             ELSE Requested(c, b)]

SetTargets(surface, c, b, views) ==
    LET remaps == Remaps(c, b) /\ ~(views /\ b.keep)
        bound == [c EXCEPT !.declined = @ \/ (remaps /\ ~Fits(b)),
                           !.target = IF remaps /\ Fits(b) THEN "layer"
                                      ELSE Requested(c, b)]
    IN  EnforceFull(surface, EnforceVirtual(surface, bound))

Bind(surface, c, target) ==
    SetTargets(surface, c, [first |-> target, second |-> "none", keep |-> FALSE],
               FALSE)

-----------------------------------------------------------------------------
\* rebind_ui_target and begin_ui_rendering.
RebindUi(surface, c) ==
    SetScissor(surface,
               SetViewport(surface, Bind(surface, c, "layer"), "output"),
               "output")

BeginUi(surface, c) ==
    RebindUi(surface, [c EXCEPT !.ui = TRUE, !.failed = FALSE,
                                !.declined = FALSE, !.rendering = TRUE])

\* end_ui_rendering, then end_full_resolution_ui.
EndUi(surface, c) ==
    LET unbound == IF c.rendering THEN Bind(surface, c, "none") ELSE c
    IN  [unbound EXCEPT !.rendering = FALSE, !.ui = FALSE]

\* A pass of the plugin: it draws with targets and rectangles of its own, and
\* ScopedD3D11State puts Skyrim's back through the same hooks.
DrawPass(surface, c, target) ==
    LET own == SetScissor(surface,
                   SetViewport(surface, Bind(surface, c, "none"), "output"),
                   "output")
        drawn == Bind(surface, Bind(surface, own, target), "none")
    IN  SetScissor(surface,
            SetViewport(surface, Bind(surface, drawn, c.target), c.viewport),
            c.scissor)
=============================================================================
