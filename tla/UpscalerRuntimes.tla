--------------------------- MODULE UpscalerRuntimes ---------------------------
(***************************************************************************)
(* The upscaling contract and the three runtimes it can name, translated   *)
(* from src/streamline/SuperResolution.cpp, src/providers/FsrUpscaler.cpp  *)
(* and src/providers/XessUpscaler.cpp.                                     *)
(*                                                                         *)
(* One record holds all of it:                                             *)
(*   provider, mode, extent   the contract, as committed last              *)
(*   feature                  the DLSS feature, its mode "off" for none    *)
(*   context                  the FSR and the XeSS context, mode "off" for *)
(*                            none; reset is reset_on_next_dispatch of FSR *)
(*   history                  what a runtime has accumulated: nothing, the *)
(*                            scene up to the frame resolved last, or one  *)
(*                            that others have drawn frames of since       *)
(*                                                                         *)
(* A member function is an operator to the set of its outcomes: every call *)
(* of a runtime may be refused, so availability_, which only makes FSR and *)
(* XeSS refuse, is left out.  Extents are abstract; two are equal or not.  *)
(* The output extent never changes, and the modes are those that render at *)
(* a reduced extent (not Off, not DLAA).                                   *)
(***************************************************************************)
EXTENDS Naturals

CONSTANTS
    Modes,      \* the modes that can be selected
    Optimal     \* the extent a runtime recommends for a mode

Providers == {"nvidia", "amd", "intel"}

Vendors == Providers \ {"nvidia"}

NoExtent == 0

Extents == {Optimal[p][m] : p \in Providers, m \in Modes}

ASSUME OptimalAssumption ==
    /\ "off" \notin Modes
    /\ Optimal \in [Providers -> [Modes -> Nat \ {NoExtent}]]

NoFeature == [mode |-> "off", extent |-> NoExtent]

NoContext ==
    [mode |-> "off", extent |-> NoExtent, reset |-> FALSE]

NewRuntimes(p, m) ==
    [provider |-> p, mode |-> m, extent |-> Optimal[p][m],
     feature |-> IF p = "nvidia"
                 THEN [mode |-> m, extent |-> Optimal[p][m]] ELSE NoFeature,
     context |-> [v \in Vendors |-> NoContext],
     history |-> [q \in Providers |-> "none"]]

Runtimes ==
    [provider : Providers, mode : Modes, extent : Extents,
     feature : [mode : Modes, extent : Extents] \cup {NoFeature},
     context : [Vendors -> [mode : Modes \cup {"off"},
                            extent : Extents \cup {NoExtent},
                            reset : BOOLEAN]],
     history : [Providers -> {"none", "kept", "stale"}]]

Ok(s) == [sr |-> s, ok |-> TRUE]

No(s) == [sr |-> s, ok |-> FALSE]

Sized(s, x) == [sr |-> s, extent |-> x]

Enabled(s) == s.provider # "nvidia" \/ s.feature # NoFeature

WithContext(s, v, c) ==
    [s EXCEPT !.context[v] = c, !.history[v] = "none"]

-----------------------------------------------------------------------------
\* What the contract is made of.

\* A runtime is asked through a context made for the question; there is no
\* answer when it is missing, not signed, or has no device.
AskedOutcomes(p, m) == {Optimal[p][m], NoExtent}

\* query_render_resolution: a context that has been configured for the mode
\* answers with the extent it was configured at.
VendorExtents(s, v, m) ==
    IF s.context[v].mode = m THEN {s.context[v].extent} ELSE AskedOutcomes(v, m)

\* supports_render_resolution: FSR takes any extent up to the output's, XeSS
\* asks its runtime for the range.
Supports(v) == IF v = "amd" THEN {TRUE} ELSE BOOLEAN

\* optimal_render_resolution_for.
QueryOutcomes(s, p, m) ==
    IF p \in Vendors THEN VendorExtents(s, p, m) ELSE {Optimal[p][m], NoExtent}

ReleaseFeature(s) ==
    [s EXCEPT !.feature = NoFeature, !.history["nvidia"] = "none"]

\* A slip the properties have to notice: the feature whose contract the
\* runtime did not confirm is not released.
EnsureFeatureKept(s, m, x) ==
    LET made == [ReleaseFeature(s) EXCEPT !.feature = [mode |-> m, extent |-> x]]
    IN  IF s.feature = made.feature THEN {Ok(s)} ELSE {Ok(made), No(made)}

\* The feature in use is released before a new one is attempted.
EnsureFeatureOutcomes(s, m, x) ==
    LET wanted == [mode |-> m, extent |-> x]
    IN  IF s.feature = wanted THEN {Ok(s)}
        ELSE {Ok([ReleaseFeature(s) EXCEPT !.feature = wanted]),
              No(ReleaseFeature(s))}

\* prepare_provider: at the extent the runtime recommends.
PrepareOutcomes(s, p, m) ==
    UNION {IF x = NoExtent \/ p # "nvidia" THEN {Sized(s, x)}
           ELSE {Sized(e.sr, IF e.ok THEN x ELSE NoExtent) :
                    e \in EnsureFeatureOutcomes(s, m, x)}
              : x \in QueryOutcomes(s, p, m)}

\* prepare_provider_at_extent: at the extent in use.
PrepareAtExtentOutcomes(s, p, m, x) ==
    IF p = "nvidia" THEN {No(s)} \cup EnsureFeatureOutcomes(s, m, x)
    ELSE {IF supported THEN Ok(s) ELSE No(s) : supported \in Supports(p)}

\* commit_prepared_provider.
CommitContract(s, p, m, x) ==
    IF p = "nvidia" /\ s.feature # [mode |-> m, extent |-> x] THEN No(s)
    ELSE Ok([s EXCEPT !.provider = p, !.mode = m, !.extent = x])

\* set_mode.
SetModeOutcomes(s, m) ==
    {IF q.extent = NoExtent THEN No(q.sr)
     ELSE CommitContract(q.sr, s.provider, m, q.extent)
       : q \in PrepareOutcomes(s, s.provider, m)}

-----------------------------------------------------------------------------
(***************************************************************************)
(* What a frame is made of.                                                *)
(***************************************************************************)
\* A context is built again when what it was created with no longer fits.
RebuildOutcomes(s, v, m, x) ==
    {Ok(WithContext(s, v, [mode |-> m, extent |-> x, reset |-> FALSE])),
     No(WithContext(s, v, NoContext))}

\* FSR keeps its context when only the input changes.
Resized(s, m, x) ==
    [s EXCEPT !.context["amd"].mode = m, !.context["amd"].extent = x,
              !.context["amd"].reset = TRUE,
              !.history["amd"] = IF @ = "none" THEN @ ELSE "stale"]

\* FsrUpscaler::configure and XessUpscaler::configure.  The depth convention
\* or the colour space may have changed, so any context may be built again.
ConfigureOutcomes(s, v, m, x) ==
    LET c == s.context[v]
    IN  RebuildOutcomes(s, v, m, x)
        \cup (IF c = NoContext THEN {}
              ELSE IF c.mode = m /\ c.extent = x THEN {Ok(s)}
              ELSE IF v = "amd" THEN {Ok(Resized(s, m, x))}
              ELSE {})

\* A frame resolved by p: nobody else has seen it.
Resolved(s, p) ==
    [s EXCEPT !.history =
        [q \in Providers |-> IF q = p THEN "kept"
                             ELSE IF @[q] = "none" THEN "none" ELSE "stale"]]

\* A frame resolved by the spatial fallback.
Stretched(s) ==
    [s EXCEPT !.history =
        [q \in Providers |-> IF @[q] = "none" THEN "none" ELSE "stale"]]

Taken(s, v) == [s EXCEPT !.context[v].reset = FALSE]

\* SuperResolution::evaluate, FsrUpscaler::evaluate, XessUpscaler::evaluate.
\* FSR takes its reset before the runtime has accepted the dispatch.
EvaluateOutcomes(s, p) ==
    IF p = "nvidia"
    THEN {No(s)}
         \cup (IF s.feature = NoFeature THEN {} ELSE {Ok(Resolved(s, p))})
    ELSE {No(s), No(Taken(s, p)), Ok(Resolved(Taken(s, p), p))}

\* FsrUpscaler::shutdown and XessUpscaler::shutdown.
ShutdownVendors(s) ==
    [s EXCEPT !.context = [v \in Vendors |-> NoContext],
              !.history = [q \in Providers |->
                              IF q \in Vendors THEN "none" ELSE @[q]]]
=============================================================================
