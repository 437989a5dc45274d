------------------------------ MODULE Upscaling ------------------------------
(***************************************************************************)
(* Who upscales the scene, translated from src/render/UpscalingPass.cpp    *)
(* and from those who change that: the graphics menu (apply_selection of   *)
(* StatusOverlay.cpp with ProfileChangeController.cpp and the preflight of *)
(* PresentationBridge.cpp), the reload of the settings (RendererRuntime    *)
(* end_frame), the device resets and ResizeBuffers.                        *)
(*                                                                         *)
(* The session renders to the reduced surface (every mode but Off does);   *)
(* the other route is never taken with an upscaler selected, because only  *)
(* the reduced surface selects one.  All of it runs on the render thread,  *)
(* one handler after the other; what varies is their order and what the    *)
(* runtimes and the settings file refuse.                                  *)
(*                                                                         *)
(* A ResizeBuffers that fails leaves the bridge without its resources; it  *)
(* is not followed.                                                        *)
(***************************************************************************)
EXTENDS UpscalerRuntimes

CONSTANT
    Budget      \* kSwitchRecoveryFrameBudget

Selections == [provider : Providers, mode : Modes]

ASSUME BudgetAssumption == Budget \in Nat

VARIABLES
    sr,         \* contract and runtimes
    upscaling,  \* UpscalingPass: who evaluates, whether its history is good
    recovery,   \* what an unconfirmed switch goes back to
    ini,        \* the selection in memory
    screen,     \* the extent the game renders at
    resolved,   \* scene_finalized_this_frame_: the frame's scene is done
    stage       \* where Skyrim and Present are

upscalingVars == <<sr, upscaling, recovery, ini, screen, resolved, stage>>

\* active_upscaling_provider_, reset_next_evaluation_, evaluation_verified_ and
\* the extent present_state_ was made for.
NewUpscalingPass == [active |-> "none", reset |-> TRUE, verified |-> FALSE,
            surfaces |-> NoExtent]

\* A slip the properties have to notice: half of a reset.
ResetHistoryUnmarked(p) == [p EXCEPT !.verified = FALSE]

ResetHistory(p) == [p EXCEPT !.reset = TRUE, !.verified = FALSE]

NoRecovery == [armed |-> FALSE, provider |-> "none", mode |-> "off",
               extent |-> NoExtent, left |-> 0]

Contract(s) == [provider |-> s.provider, mode |-> s.mode]

-----------------------------------------------------------------------------
(***************************************************************************)
(* The selection in memory.  fault is history: an undo has failed, or a    *)
(* pair was loaded that is not the one in memory.  The file itself is left *)
(* out: it may have been edited, torn by a failed write or staged for the  *)
(* next launch at any time, so a reload may find any pair.                 *)
(***************************************************************************)
Written(i, c) == [ini |-> [i EXCEPT !.saved = c], ok |-> TRUE]

NotWritten(i) == [ini |-> i, ok |-> FALSE]

Faulty(i) == [i EXCEPT !.fault = TRUE]

\* commit_upscaling_selection: both keys or none, memory last.
CommitSelectionOutcomes(i, c) == {Written(i, c), NotWritten(i)}

\* persist_everything of the menu: provider, mode, then all other settings.
PersistOutcomes(i, c) ==
    {Written(i, c), NotWritten(i), NotWritten([i EXCEPT !.saved = c]),
     NotWritten([i EXCEPT !.saved.provider = c.provider])}

\* restore_everything of the menu: c was in memory when it started, and
\* either key may not be written.
RestoreOutcomes(i, c) ==
    {IF j.saved = c THEN j ELSE Faulty(j) :
        j \in {[i EXCEPT !.saved = c], [i EXCEPT !.saved.provider = c.provider],
               [i EXCEPT !.saved.mode = c.mode], i}}

-----------------------------------------------------------------------------
(***************************************************************************)
(* A handler of the render thread takes the four together to others.       *)
(***************************************************************************)
Now == [sr |-> sr, pass |-> upscaling, recovery |-> recovery, ini |-> ini]

Become(w) ==
    /\ sr' = w.sr
    /\ upscaling' = w.pass
    /\ recovery' = w.recovery
    /\ ini' = w.ini

\* A slip the properties have to notice: the contract is left as it is.
NotRolledBack(w, c, i) == [w EXCEPT !.ini = i]

\* A rollback to the incumbent (the contract has been tried already).
RolledBack(w, c, i) ==
    LET back == CommitContract(w.sr, c.provider, c.mode, w.sr.extent)
    IN  [w EXCEPT !.sr = back.sr, !.ini = IF back.ok THEN i ELSE Faulty(i)]

Restored(w, c) == {[w EXCEPT !.ini = i] : i \in RestoreOutcomes(w.ini, c)}

\* stage_restart_selection writes the pair to the file only, and restores
\* what is in memory already when it cannot.
StagedSelection(w) == {w}

\* arm_switch_recovery: old is what an unconfirmed switch goes back to.
Armed(s, old) ==
    [armed |-> TRUE, provider |-> old.provider, mode |-> old.mode,
     extent |-> s.extent, left |-> Budget]

Switched(w, old, i) ==
    [w EXCEPT !.ini = i, !.recovery = Armed(w.sr, old),
              !.pass = [ResetHistory(@) EXCEPT !.active = w.sr.provider]]

\* request_same_extent_provider_switch, up to the first change.
SwitchOutcomes(w, new) ==
    LET old == Contract(w.sr)
        x == w.sr.extent
        Saved(v) ==
            {IF i.ok THEN Switched(v, old, i.ini) ELSE RolledBack(v, old, i.ini)
               : i \in CommitSelectionOutcomes(v.ini, new)}
    IN  IF x # screen THEN StagedSelection(w)
        ELSE UNION {IF ~q.ok THEN StagedSelection([w EXCEPT !.sr = q.sr])
                    ELSE LET c == CommitContract(q.sr, new.provider,
                                                 new.mode, x)
                             v == [w EXCEPT !.sr = c.sr]
                         IN  IF c.ok THEN Saved(v) ELSE {v}
                      : q \in PrepareAtExtentOutcomes(w.sr, new.provider,
                                                      new.mode, x)}

\* The menu with another provider: asked, then the independent settings,
\* then the switch.
ApplyProviderOutcomes(w, new) ==
    UNION {IF x = NoExtent THEN {w}
           ELSE Restored(w, w.ini.saved) \cup SwitchOutcomes(w, new)
             : x \in QueryOutcomes(w.sr, new.provider, new.mode)}

\* request_upscaling_reconfiguration: a mode that could not be taken over
\* goes back to the one before, at the extent its runtime recommends.
ReconfigureOutcomes(s, m) ==
    UNION {IF x # screen THEN {No(s)}
           ELSE UNION {IF r.ok THEN {r}
                       ELSE {No(b.sr) : b \in SetModeOutcomes(r.sr, s.mode)}
                         : r \in SetModeOutcomes(s, m)}
             : x \in QueryOutcomes(s, s.provider, m)}

\* run_profile_change with the callbacks of the menu.
ProfileChangeOutcomes(w, new) ==
    LET old == w.ini.saved
        Persisted == PersistOutcomes(w.ini, new)
        Kept(i) ==
            IF new.mode = w.sr.mode THEN {[w EXCEPT !.ini = i]}
            ELSE UNION {LET v == [w EXCEPT !.sr = r.sr, !.ini = i,
                                           !.pass = ResetHistory(@)]
                        IN  IF r.ok THEN {v} ELSE Restored(v, old)
                          : r \in ReconfigureOutcomes(w.sr, new.mode)}
    IN  Restored(w, old)
        \cup UNION {IF i.ok THEN Kept(i.ini)
                    ELSE Restored([w EXCEPT !.ini = i.ini], old)
                      : i \in Persisted}

\* evaluate_profile_preflight: the bridge and its proxy are published and the
\* route is the reduced surface's, before as after.
PreflightAccepts(requested, current) ==
    requested # NoExtent /\ requested = current

\* evaluate_profile_change_preflight: the mode in use is not asked about.
Preflight(w, new, x) == new.mode = w.sr.mode \/ PreflightAccepts(x, screen)

\* The menu with the provider in use: a mode of another extent is staged,
\* and so is one the preflight refuses.
ApplyModeOutcomes(w, new) ==
    LET answers == QueryOutcomes(w.sr, new.provider, new.mode)
    IN  UNION {IF x \notin {NoExtent, screen} THEN StagedSelection(w)
               ELSE UNION {IF Preflight(w, new, y) THEN ProfileChangeOutcomes(w, new)
                           ELSE StagedSelection(w) : y \in answers}
                 : x \in answers}

-----------------------------------------------------------------------------
\* note_switch_recovery, the incumbent could be prepared again.
IncumbentOutcomes(w, r) ==
    LET old == [provider |-> r.provider, mode |-> r.mode]
        Told(v) == [v EXCEPT !.pass.active = r.provider, !.pass.reset = TRUE]
    IN  {IF i.ok THEN Told([w EXCEPT !.ini = i.ini])
         ELSE [w EXCEPT !.ini = Faulty(i.ini)]
           : i \in CommitSelectionOutcomes(w.ini, old)}

RestoreIncumbentOutcomes(w, r) ==
    UNION {LET c == IF q.extent # r.extent THEN No(q.sr)
                    ELSE CommitContract(q.sr, r.provider, r.mode, r.extent)
               v == [w EXCEPT !.sr = c.sr, !.recovery = NoRecovery]
           IN  IF c.ok THEN IncumbentOutcomes(v, r) ELSE {v}
             : q \in PrepareOutcomes(w.sr, r.provider, r.mode)}

NoteRecoveryOutcomes(w) ==
    LET r == w.recovery
    IN  IF ~r.armed THEN {w}
        ELSE IF w.pass.verified THEN {[w EXCEPT !.recovery = NoRecovery]}
        ELSE IF r.left # 0 THEN {[w EXCEPT !.recovery.left = @ - 1]}
        ELSE RestoreIncumbentOutcomes(w, r)

\* State::matches.
Fits(s, p) == p.surfaces = s.extent

\* State::initialize_present: DLSS evaluates on surfaces of its own, kept as
\* long as they fit.  New ones have seen no frame.
SurfaceOutcomes(s, p) ==
    IF Fits(s, p) THEN {[pass |-> p, ok |-> TRUE]}
    ELSE {[pass |-> p, ok |-> FALSE],
          [pass |-> [p EXCEPT !.surfaces = s.extent, !.reset = TRUE],
           ok |-> TRUE]}

\* copy_plan_for: the game's depth is as large as its screen, and D3D11 copies
\* no part of a depth-stencil.
DepthCopies(x) == x = screen

\* State::copy_active_input, then the evaluation: a failed copy keeps what
\* evaluate_provider_surface has prepared.
DlssOutcomes(s, ready) ==
    {No(s)} \cup (IF ready.ok /\ DepthCopies(s.extent)
                 THEN EvaluateOutcomes(s, "nvidia") ELSE {})

VendorOutcomes(s, v) ==
    UNION {IF c.ok THEN EvaluateOutcomes(c.sr, v) ELSE {c} :
              c \in ConfigureOutcomes(s, v, s.mode, s.extent)}

\* evaluate_provider_surface.
Evaluated(e, p) ==
    [sr |-> e.sr, ok |-> e.ok,
     pass |-> IF e.ok THEN [p EXCEPT !.reset = FALSE, !.verified = TRUE] ELSE p]

EvaluateSurfaceOutcomes(s, p) ==
    {Evaluated(No(s), p)}
    \cup IF ~Enabled(s) THEN {}
         ELSE IF p.active \in Vendors
         THEN {Evaluated(e, p) : e \in VendorOutcomes(s, p.active)}
         ELSE UNION {{Evaluated(e, f.pass) : e \in DlssOutcomes(s, f)} :
                        f \in SurfaceOutcomes(s, p)}

-----------------------------------------------------------------------------
UpscalingInit ==
    /\ \E c \in Selections :
          /\ sr = NewRuntimes(c.provider, c.mode)
          /\ ini = [saved |-> c, fault |-> FALSE]
          /\ screen = Optimal[c.provider][c.mode]
    /\ upscaling = NewUpscalingPass
    /\ recovery = NoRecovery
    /\ resolved = FALSE
    /\ stage = "presented"

\* A session is followed to the end of the frame of its first fault.
Followed == ~ini.fault

\* UpscalingPass::begin_frame.
PassBeginFrame ==
    /\ stage = "presented"
    /\ Followed
    /\ \E w \in NoteRecoveryOutcomes(Now) : Become(w)
    /\ resolved' = FALSE
    /\ stage' = "drawing"
    /\ UNCHANGED <<screen>>

\* RendererRuntime::begin_frame, the Streamline frame could not be opened:
\* the pass does not hear of it.
SkipPassBeginFrame ==
    /\ stage = "presented"
    /\ Followed
    /\ stage' = "drawing"
    /\ UNCHANGED <<sr, upscaling, recovery, ini, screen, resolved>>

\* post_processing_thunk owes the first image-space pass of a frame a
\* resolve; commit_pending_scene_resolve does it at the first boundary after,
\* at the latest in Present.
ResolveScene ==
    /\ stage = "drawing"
    /\ ~resolved
    /\ resolved' = TRUE
    /\ LET by == [upscaling EXCEPT !.active = IF @ = "none" THEN sr.provider ELSE @]
       IN  \E e \in EvaluateSurfaceOutcomes(sr, by) :
              \/ /\ e.ok
                 /\ sr' = e.sr
                 /\ upscaling' = e.pass
              \/ /\ ~e.ok
                 /\ sr' = Stretched(e.sr)
                 /\ upscaling' = ResetHistory(e.pass)
              \/ /\ ~e.ok
                 /\ sr' = e.sr
                 /\ upscaling' = e.pass
    /\ UNCHANGED <<recovery, ini, screen, stage>>

\* RendererRuntime::end_frame inside Present: reload_if_changed, when some
\* setting differs, and what follows it.
EndFrame ==
    /\ stage = "drawing"
    /\ stage' = "presented"
    /\ \/ UNCHANGED <<sr, upscaling, ini>>
       \/ /\ \E c \in Selections :
                LET loaded == [ini EXCEPT !.saved = c]
                IN  ini' = IF loaded = ini THEN ini ELSE Faulty(loaded)
          /\ \/ /\ ini'.saved.mode = sr.mode
                /\ upscaling' = ResetHistory(upscaling)
                /\ \E r \in SetModeOutcomes(sr, sr.mode) : sr' = r.sr
             \/ /\ ini'.saved.mode # sr.mode
                /\ UNCHANGED <<sr, upscaling>>
    /\ UNCHANGED <<recovery, screen, resolved>>

\* StatusOverlay::draw: the user applies a selection (a click and Enter may
\* both do in one frame).
ApplySelection ==
    /\ stage = "presented"
    /\ Followed
    /\ \E new \in Selections :
          \E w \in IF new.provider = sr.provider
                   THEN ApplyModeOutcomes(Now, new)
                   ELSE ApplyProviderOutcomes(Now, new) : Become(w)
    /\ UNCHANGED <<screen, resolved, stage>>

\* reset_all_history: a save was loaded or a game started.
ResetAllHistory ==
    /\ stage = "drawing"
    /\ upscaling' = ResetHistory(upscaling)
    /\ UNCHANGED <<sr, recovery, ini, screen, resolved, stage>>

\* pre_reset: ENB resets its devices.
PreReset ==
    /\ stage = "drawing"
    /\ upscaling' = NewUpscalingPass
    /\ recovery' = NoRecovery
    /\ sr' = ShutdownVendors(sr)
    /\ UNCHANGED <<ini, screen, resolved, stage>>

\* resize_buffers; without ENB it opens the next frame.
ResizeBuffers ==
    /\ stage = "drawing"
    /\ \E r \in SetModeOutcomes(ShutdownVendors(sr), ini.saved.mode) :
          /\ r.ok
          /\ sr' = r.sr
          /\ screen' = r.sr.extent
    /\ upscaling' = NewUpscalingPass
    /\ recovery' = NoRecovery
    /\ resolved' \in {resolved, FALSE}
    /\ UNCHANGED <<ini, stage>>

UpscalingNext ==
    \/ PassBeginFrame
    \/ SkipPassBeginFrame
    \/ ResolveScene
    \/ EndFrame
    \/ ApplySelection
    \/ ResetAllHistory
    \/ PreReset
    \/ ResizeBuffers

UpscalingSpec == UpscalingInit /\ [][UpscalingNext]_upscalingVars
-----------------------------------------------------------------------------
UpscalingTypeOK ==
    /\ sr \in Runtimes
    /\ upscaling \in [active : Providers \cup {"none"},
                      reset : BOOLEAN, verified : BOOLEAN,
                      surfaces : Extents \cup {NoExtent}]
    /\ recovery \in [armed : {TRUE}, provider : Providers, mode : Modes,
                     extent : Extents, left : 0..Budget] \cup {NoRecovery}
    /\ ini \in [saved : Selections, fault : BOOLEAN]
    /\ screen \in Extents
    /\ resolved \in BOOLEAN
    /\ stage \in {"drawing", "presented"}

(***************************************************************************)
(* No frame is resolved from a history that has missed one: a runtime that *)
(* others have drawn frames past is told to drop what it has accumulated.  *)
(* The reset is asked for by the switch, the recovery, the fallback, the   *)
(* reload and the profile change, and taken frames later in                *)
(* evaluate_provider_surface; every order of those has to ask for it.      *)
(***************************************************************************)
NoStaleHistory ==
    [][\A p \in Providers :
          sr.history[p] = "stale" /\ sr'.history[p] = "kept" =>
             upscaling.reset \/ (p = "amd" /\ sr.context[p].reset)]_upscalingVars

(***************************************************************************)
(* What runs is what the contract says.  It never names a DLSS mode or     *)
(* extent the live feature was not created for: prepare, commit and every  *)
(* rollback (a failed mode change, an unconfirmed switch, a resize) leave  *)
(* the feature of the contract or none at all, in which case nothing is    *)
(* evaluated.  And the pass evaluates with the provider of the contract:   *)
(* what the menu says is rendering is what renders.                        *)
(***************************************************************************)
ContractIsRunning ==
    /\ sr.provider = "nvidia" =>
           sr.feature \in {NoFeature, [mode |-> sr.mode, extent |-> sr.extent]}
    /\ ~ini.fault => upscaling.active \in {"none", sr.provider}

(***************************************************************************)
(* The selection in memory is the one that runs, whichever steps of the    *)
(* menu, of a switch or of a recovery were refused, unless an undo has     *)
(* failed as well or another pair was found in the file.                   *)
(***************************************************************************)
SavedAsRunning ==
    ~ini.fault => ini.saved = Contract(sr)
=============================================================================
