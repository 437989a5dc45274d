---------------------------- MODULE OptionsMenu ----------------------------
(***************************************************************************)
(* The graphics menu and what it does to frame pacing: the controls of     *)
(* src/render/StatusOverlay.cpp (update_selector, apply_selector), the     *)
(* settings in memory, and the part of src/streamline/FrameGeneration.cpp  *)
(* that paces frames with NVIDIA Reflex.                                   *)
(*                                                                         *)
(* A frame is drawn with the menu on it and then ended; what the menu      *)
(* applies and what the end of the frame does with it meet in the options  *)
(* Reflex has.  The session presents through Streamline; an upscaler is    *)
(* not followed (module Upscaling), nor is the drawing of the menu.        *)
(***************************************************************************)
EXTENDS FramePacing

CONSTANTS
    Generated,      \* kFrameGenerationChoices the GPU can do, ascending
    Refreshes,      \* refresh rates a display reports
    FileCaps,       \* caps found in an edited settings file
    TypedCaps,      \* numbers typed into a row
    Steps,          \* custom steps: Control, and Shift; 0 walks the presets
    CustomBase,     \* the custom cap offered to a row that has none
    CustomOutput,
    MaxInputs,      \* inputs that change a control
    MaxRefusals,    \* calls that Reflex, DLSS-G or the file refuse
    MaxChanges      \* edits of the file and changes of the display

ASSUME MenuAssumption ==
    /\ Generated \in Seq(Nat)
    /\ Len(Generated) > 1
    /\ Generated[1] = 0
    /\ Refreshes \subseteq Nat
    /\ FileCaps \subseteq Nat
    /\ TypedCaps \subseteq Nat
    /\ Steps \subseteq Nat
    /\ {CustomBase, CustomOutput} \subseteq MinimumCap..MaximumCap
    /\ {MaxInputs, MaxRefusals, MaxChanges} \subseteq Nat

VARIABLES
    ini,        \* Settings: the values in memory
    menu,       \* StatusOverlay::State: the controls
    pace,       \* FrameGeneration: what Reflex and DLSS-G were given
    refresh,    \* display_refresh_hz_
    phase,      \* the frame: its end, then the menu is drawn on it
    left        \* bounds: inputs, refusals and changes still to come

menuVars == <<ini, menu, pace, refresh, phase, left>>

Directions == {1, -1}

ReflexModes == {"off", "on"}

Range1(s) == {s[i] : i \in 2..Len(s)}

\* The settings this module follows, as the file leaves them after launch.
Defaults == [base |-> 0, limit |-> 0, multiplier |-> 2, dynamic |-> FALSE,
             enabled |-> FALSE, reflex |-> "off"]

-----------------------------------------------------------------------------
(***************************************************************************)
(* Reflex.  w is what a call sees: the settings in memory, the pacing      *)
(* state and the refusals that are left.  owed is history: because         *)
(* somebody refused, Reflex has not been given what is configured, neither *)
(* the options nor the cap that later options are made of.                 *)
(***************************************************************************)
NewPace == [multiplier |-> 1, cadence |-> FixedCadence, desired |-> 1,
            output |-> 0, cap |-> 0, limit |-> 0, mode |-> "off",
            submitted |-> "off", dirty |-> FALSE, owed |-> FALSE]

Here == [ini |-> ini, pace |-> pace, refusals |-> left.refusals]

\* A slip the properties have to notice: the frames to come are not seen.
SubmittedModeNow(p, mode) == IF p.multiplier > 1 THEN "on" ELSE mode

\* effective_reflex_mode: DLSS-G does not generate without Reflex.
SubmittedMode(p, mode) ==
    IF p.multiplier > 1 \/ p.desired > 1 THEN "on" ELSE mode

\* reflex_limit_divisor.
Divisor(p) == IF p.cadence.kind = "fixed" THEN p.multiplier ELSE 1

\* A cap that was refused is still missing.
CapMissing(w) ==
    \/ w.pace.output # w.ini.limit
    \/ w.pace.cap # PacingCap(w.ini.limit, refresh)

\* apply_reflex_options, when Streamline accepts them.
AcceptOptions(w, mode, cap, divisor) ==
    [w EXCEPT !.pace.limit = LimitPreservingBase(cap, w.ini.base, divisor),
              !.pace.submitted = SubmittedMode(w.pace, mode),
              !.pace.owed = @ /\ CapMissing(w)]

Refused(w) ==
    IF w.refusals > 0
    THEN {[w EXCEPT !.refusals = @ - 1, !.pace.owed = TRUE]} ELSE {}

Yes(w) == [w |-> w, ok |-> TRUE]

No(w) == [w |-> w, ok |-> FALSE]

\* set_reflex_mode.
SetModeOutcomes(w, mode) ==
    IF w.pace.mode = mode /\ w.pace.submitted = SubmittedMode(w.pace, mode)
    THEN {Yes(w)}
    ELSE {No(v) : v \in Refused(w)} \cup
         {Yes([AcceptOptions(w, mode, w.pace.cap, Divisor(w.pace))
                 EXCEPT !.pace.mode = mode])}

\* set_output_target_fps.
SetOutputOutcomes(w, fps) ==
    LET cap == PacingCap(fps, refresh)
        wanted == LimitPreservingBase(cap, w.ini.base, Divisor(w.pace))
    IN  IF w.pace.cap = cap /\ w.pace.limit = wanted
        THEN {Yes([w EXCEPT !.pace.output = fps])}
        ELSE {No(v) : v \in Refused(w)} \cup
             {Yes([AcceptOptions(w, w.pace.mode, cap, Divisor(w.pace))
                     EXCEPT !.pace.output = fps, !.pace.cap = cap,
                            !.pace.owed = w.pace.owed /\ fps # w.ini.limit])}

\* The menu stops at the first that is refused, a reload goes on.
ApplyRuntimeOutcomes(w, mode, fps) ==
    UNION {IF r.ok THEN SetOutputOutcomes(r.w, fps) ELSE {r}
             : r \in SetModeOutcomes(w, mode)}

ReapplyOutcomes(w, mode, fps) ==
    UNION {{o.w : o \in SetOutputOutcomes(r.w, fps)}
             : r \in SetModeOutcomes(w, mode)}

-----------------------------------------------------------------------------
(***************************************************************************)
(* DLSS-G, as far as it decides what Reflex is given.                      *)
(***************************************************************************)
Remembered(w, m) == IF m >= 2 THEN [w EXCEPT !.pace.desired = m] ELSE w

\* enable, up to the suspension it returns for: a new refresh rate first.
PrepareOutcomes(w) ==
    LET clean == [w EXCEPT !.pace.dirty = FALSE]
    IN  {Remembered(v, w.ini.multiplier) :
            v \in IF w.pace.dirty
                  THEN {r.w : r \in SetOutputOutcomes(clean, w.pace.output)}
                  ELSE {w}}

\* enable, not suspended: DLSS-G first, then Reflex, which must not fail.
ConfigureOutcomes(w) ==
    LET m == w.ini.multiplier
        cadence == Cadence(w.ini.dynamic, TRUE, m, w.pace.cap)
        divisor == IF cadence.kind = "fixed" THEN m ELSE 1
        on == [AcceptOptions(w, w.ini.reflex, w.pace.cap, divisor)
                 EXCEPT !.pace.mode = w.ini.reflex, !.pace.multiplier = m,
                        !.pace.cadence = cadence]
    IN  IF w.pace.multiplier = m /\ w.pace.cadence = cadence THEN {w}
        ELSE {on} \cup Refused(w) \cup
             {[v EXCEPT !.pace.multiplier = 1, !.pace.cadence = FixedCadence]
                : v \in Refused(w)}

\* suspend_impl: Reflex gives up the limit of the generated frames.
SuspendOutcomes(w) ==
    IF w.pace.multiplier < 2 THEN {w}
    ELSE Refused(w) \cup
         {[v EXCEPT !.pace.multiplier = 1] :
            v \in Refused(w) \cup
                   {AcceptOptions(w, w.pace.mode, w.pace.cap, 1)}}

-----------------------------------------------------------------------------
(***************************************************************************)
(* The end of a frame: the file, the display, and generation on or off.    *)
(***************************************************************************)
Become(w) ==
    /\ ini' = w.ini
    /\ pace' = w.pace
    /\ left' = [left EXCEPT !.refusals = w.refusals]

\* load: a cap that is not valid counts as none.
LoadedCap(v) == IF ValidCap(v) THEN v ELSE 0

Edits(i) ==
    {[i EXCEPT !.base = LoadedCap(v)] : v \in FileCaps} \cup
    {[i EXCEPT !.limit = LoadedCap(v)] : v \in FileCaps} \cup
    {[i EXCEPT !.multiplier = m] : m \in Range1(Generated)} \cup
    {[i EXCEPT !.dynamic = ~@], [i EXCEPT !.enabled = ~@]} \cup
    {[i EXCEPT !.reflex = m] : m \in ReflexModes}

\* end_frame of the renderer, when reload_if_changed finds another file.
Reload ==
    /\ phase = "end"
    /\ left.changes > 0
    /\ \E i \in Edits(ini) \ {ini} :
         \E w \in ReapplyOutcomes([Here EXCEPT !.ini = i], i.reflex, i.limit) :
           /\ ini' = i
           /\ pace' = w.pace
           /\ left' = [left EXCEPT !.refusals = w.refusals, !.changes = @ - 1]
    /\ UNCHANGED <<menu, refresh, phase>>

\* note_display_refresh.
NoteRefresh ==
    /\ phase = "end"
    /\ left.changes > 0
    /\ \E hz \in Refreshes \ {refresh} :
         /\ refresh' = hz
         /\ pace' = [pace EXCEPT !.dirty = TRUE]
    /\ left' = [left EXCEPT !.changes = @ - 1]
    /\ UNCHANGED <<ini, menu, phase>>

EndFrameOff ==
    /\ phase = "end"
    /\ ~ini.enabled
    /\ \E w \in SuspendOutcomes(Here) : Become(w)
    /\ phase' = "menu"
    /\ UNCHANGED <<menu, refresh>>

\* A slip the properties have to notice: the menu does not halt generation.
NotHalted(m) == FALSE

\* menu_open: what halts generation while the menu is open.
MenuOpen(m) == m.open

EndFrameHalted ==
    /\ phase = "end"
    /\ ini.enabled
    /\ MenuOpen(menu)
    /\ \E w \in SuspendOutcomes(Remembered(Here, ini.multiplier)) : Become(w)
    /\ phase' = "menu"
    /\ UNCHANGED <<menu, refresh>>

\* A frame that could not be submitted.
EndFrameIncomplete ==
    /\ phase = "end"
    /\ ini.enabled /\ ~MenuOpen(menu)
    /\ \E w \in SuspendOutcomes(Here) : Become(w)
    /\ phase' = "menu"
    /\ UNCHANGED <<menu, refresh>>

\* A frame that was submitted while a guarded suspension is served.
EndFrameGuarded ==
    /\ phase = "end"
    /\ ini.enabled /\ ~MenuOpen(menu)
    /\ pace.multiplier = 1
    /\ \E w \in PrepareOutcomes(Here) : Become(w)
    /\ phase' = "menu"
    /\ UNCHANGED <<menu, refresh>>

EndFrameComplete ==
    /\ phase = "end"
    /\ ini.enabled /\ ~MenuOpen(menu)
    /\ \E v \in PrepareOutcomes(Here) :
         \E w \in ConfigureOutcomes(v) : Become(w)
    /\ phase' = "menu"
    /\ UNCHANGED <<menu, refresh>>

-----------------------------------------------------------------------------
(***************************************************************************)
(* The controls.  A row holds a preset and a custom cap, and which of them *)
(* is selected.  While a custom cap is edited the menu also holds the row  *)
(* and the digits typed so far.                                            *)
(***************************************************************************)
Nothing == -1

Closed == [open |-> FALSE]

CapRow(cap, offered) ==
    [preset |-> cap, isCustom |-> ~IsPreset(cap),
     custom |-> IF cap = 0 THEN offered ELSE cap]

Selected(row) == IF row.isCustom THEN row.custom ELSE row.preset

\* update_selector, when the menu key opens the menu.
Opened ==
    [open |-> TRUE, base |-> CapRow(ini.base, CustomBase),
     out |-> CapRow(ini.limit, CustomOutput),
     generated |-> IF ini.enabled THEN ini.multiplier ELSE 0,
     dynamic |-> ini.dynamic, reflex |-> ini.reflex,
     editing |-> "none", typed |-> Nothing]

\* adjust_frame_cap; past the presets lies the custom cap.
AdjustedRow(row, direction, step) ==
    LET from == Selected(row)
        past == row.preset = (IF direction > 0 THEN LastPreset ELSE 0)
    IN  IF step # 0
        THEN [row EXCEPT !.isCustom = TRUE,
                         !.custom = IF direction > 0 THEN StepUp(from, step)
                                    ELSE StepDown(from, step)]
        ELSE IF row.isCustom
        THEN [row EXCEPT !.isCustom = FALSE,
                         !.preset = IF direction > 0 THEN 0 ELSE LastPreset]
        ELSE IF past THEN [row EXCEPT !.isCustom = TRUE]
        ELSE [row EXCEPT !.preset = NeighbourPreset(@, direction)]

\* A multiplied output is the base cap times the multiplier.
MultipliedBase(m, direction) ==
    BaseByOutput(Selected(m.base), m.generated, direction)

NotEditing(m) == [m EXCEPT !.editing = "none", !.typed = Nothing]

\* commit_custom_frame_limit, for digits that are a cap.
TypedInto(m) ==
    LET derived == BaseForOutput(m.typed, m.generated)
    IN  IF m.editing = "base"
        THEN NotEditing([m EXCEPT !.base.custom = m.typed])
        ELSE IF m.generated < 2 \/ m.typed = 0
        THEN NotEditing([m EXCEPT !.out.custom = m.typed])
        ELSE NotEditing([m EXCEPT !.base = CapRow(derived, derived),
                                  !.out = CapRow(m.typed, m.typed)])

CommitRefused(m) ==
    \/ m.typed = Nothing
    \/ ~ValidCap(m.typed)
    \/ /\ m.editing = "out" /\ m.generated >= 2 /\ m.typed # 0
       /\ BaseForOutput(m.typed, m.generated) = 0

-----------------------------------------------------------------------------
(***************************************************************************)
(* update_selector: an input, between a frame and its end.                 *)
(***************************************************************************)
DrawnWith(m) ==
    /\ phase = "menu"
    /\ menu' = m
    /\ phase' = "end"
    /\ UNCHANGED <<ini, pace, refresh>>

\* An input that changes a control; they are counted.
Input(m) ==
    /\ left.inputs > 0
    /\ DrawnWith(m)
    /\ left' = [left EXCEPT !.inputs = @ - 1]

NoInput == DrawnWith(menu) /\ UNCHANGED left

OpenMenu == ~menu.open /\ DrawnWith(Opened) /\ UNCHANGED left

\* The menu key, Escape, or ten idle seconds with nothing changed.
CloseMenu == menu.open /\ DrawnWith(Closed) /\ UNCHANGED left

EscapeEdit ==
    /\ menu.open /\ menu.editing # "none"
    /\ DrawnWith(NotEditing(menu))
    /\ UNCHANGED left

AdjustBase ==
    /\ menu.open
    /\ \E direction \in Directions, step \in Steps :
         Input([NotEditing(menu) EXCEPT
                  !.base = AdjustedRow(@, direction, step)])

AdjustOutput ==
    /\ menu.open
    /\ menu.generated < 2
    /\ \E direction \in Directions, step \in Steps :
         Input([NotEditing(menu) EXCEPT
                  !.out = AdjustedRow(@, direction, step)])

\* With generated frames the row moves the base cap, and an edit stays open.
AdjustMultipliedOutput ==
    /\ menu.open
    /\ menu.generated >= 2
    /\ \E direction \in Directions :
         LET base == MultipliedBase(menu, direction)
         IN  /\ base # Selected(menu.base)
             /\ Input([menu EXCEPT
                         !.base.preset = base, !.base.isCustom = FALSE,
                         !.out.preset = base * menu.generated,
                         !.out.isCustom = FALSE])

CycleGenerated ==
    /\ menu.open
    /\ \E m \in ToSet(Generated) \ {menu.generated} :
         Input([menu EXCEPT !.generated = m])

CycleDynamic ==
    /\ menu.open
    /\ Input([menu EXCEPT !.dynamic = ~@])

CycleReflex ==
    /\ menu.open
    /\ \E mode \in ReflexModes \ {menu.reflex} :
         Input([menu EXCEPT !.reflex = mode])

\* A click on a custom cap.
StartEdit ==
    /\ menu.open
    /\ \E row \in {"base", "out"} :
         /\ menu[row].isCustom
         /\ Input([menu EXCEPT !.editing = row, !.typed = Nothing])

Type ==
    /\ menu.open
    /\ menu.editing # "none"
    /\ \E v \in TypedCaps \ {menu.typed} : Input([menu EXCEPT !.typed = v])

CommitTyped ==
    /\ menu.open
    /\ menu.editing # "none"
    /\ ~CommitRefused(menu)
    /\ DrawnWith(TypedInto(menu))
    /\ UNCHANGED left

-----------------------------------------------------------------------------
(***************************************************************************)
(* apply_selector: Reflex first, then the file key by key; whatever fails  *)
(* has everything put back.  The menu stays open.                          *)
(***************************************************************************)
\* What the controls ask for.  A multiplier that is off is not written.
Wanted(m) ==
    [ini EXCEPT !.base = Selected(m.base), !.limit = Selected(m.out),
                !.multiplier = IF m.generated >= 2 THEN m.generated ELSE @,
                !.dynamic = IF m.generated >= 2 THEN m.dynamic ELSE @,
                !.enabled = m.generated >= 2, !.reflex = m.reflex]

Written(keys, wanted) ==
    [k \in DOMAIN ini |-> IF k \in keys THEN wanted[k] ELSE ini[k]]

\* The keys that are in the file when a write is refused; a refused write of
\* the Reflex mode stops those that follow only after the base cap.
PartialWrites ==
    {{"base"}, {"reflex"}, {"reflex", "base"}, {"reflex", "base", "limit"},
     {"reflex", "base", "limit", "multiplier"},
     {"reflex", "base", "limit", "multiplier", "dynamic"}}

NoWrite == {}

\* restore_everything, after these keys were written: every key is put back
\* on its own, and one that cannot be stays.
RestoreOutcomes(w, keys, wanted) ==
    LET undone == {w} \cup
            {[v EXCEPT !.ini = Written({k}, wanted)] :
                v \in Refused(w), k \in keys}
    IN  UNION {{[v EXCEPT !.pace.owed = @ \/ u.pace.owed] :
                  v \in ReapplyOutcomes(u, ini.reflex, ini.limit)}
                 : u \in undone}

PersistOutcomes(w, wanted) ==
    {[w EXCEPT !.ini = wanted]} \cup
    UNION {UNION {RestoreOutcomes([v EXCEPT !.pace.owed = w.pace.owed],
                                  keys, wanted)
                    : v \in Refused(w)}
             : keys \in PartialWrites}

\* While DLSS-G has refused to be suspended Reflex is given a limit of the
\* base cap that is about to be replaced, and it stays owed.
StillOwed(w) ==
    [w EXCEPT !.pace.owed = @ \/ (pace.owed /\ pace.multiplier > 1)]

ApplyOutcomes(m) ==
    LET wanted == Wanted(m)
        runtime == ApplyRuntimeOutcomes(Here, m.reflex, wanted.limit)
    IN  {StillOwed(w) : w \in
            UNION {IF r.ok THEN PersistOutcomes(r.w, wanted)
                   ELSE RestoreOutcomes(r.w, NoWrite, wanted)
                     : r \in runtime}}

\* Enter, or a click on Apply, which takes the typed cap first.
Apply ==
    /\ phase = "menu"
    /\ menu.open
    /\ menu.editing = "none" \/ ~CommitRefused(menu)
    /\ LET m == IF menu.editing = "none" THEN menu ELSE TypedInto(menu)
       IN  /\ menu' = m
           /\ \E w \in ApplyOutcomes(m) : Become(w)
    /\ phase' = "end"
    /\ UNCHANGED refresh

-----------------------------------------------------------------------------
\* The file and Reflex agree when the first frame is drawn.
MenuInit ==
    /\ \E v \in FileCaps, e \in BOOLEAN :
         ini = [Defaults EXCEPT !.base = LoadedCap(v), !.enabled = e]
    /\ menu = Closed
    /\ pace = NewPace
    /\ refresh = 0
    /\ phase = "end"
    /\ left = [inputs |-> MaxInputs, refusals |-> MaxRefusals,
               changes |-> MaxChanges]

EndFrame ==
    \/ EndFrameOff
    \/ EndFrameHalted
    \/ EndFrameIncomplete
    \/ EndFrameGuarded
    \/ EndFrameComplete

Draw ==
    \/ NoInput
    \/ OpenMenu
    \/ CloseMenu
    \/ EscapeEdit
    \/ AdjustBase
    \/ AdjustOutput
    \/ AdjustMultipliedOutput
    \/ CycleGenerated
    \/ CycleDynamic
    \/ CycleReflex
    \/ StartEdit
    \/ Type
    \/ CommitTyped
    \/ Apply

MenuNext == Reload \/ NoteRefresh \/ EndFrame \/ Draw

MenuSpec == MenuInit /\ [][MenuNext]_menuVars

-----------------------------------------------------------------------------
(***************************************************************************)
(* Properties.                                                             *)
(***************************************************************************)
\* Reflex paces frames by the caps that are configured and by the frames
\* that are shown for one, whoever changed which of them last: an edit of
\* the file, the menu, another display, or DLSS-G.  A refusal is owed until
\* Reflex is next given options, and a new refresh rate waits for enable.
ReflexAsConfigured ==
    ~pace.owed /\ ~pace.dirty =>
        /\ pace.output = ini.limit
        /\ pace.limit = LimitPreservingBase(PacingCap(ini.limit, refresh),
                                            ini.base, Divisor(pace))

\* DLSS-G never generates while Reflex has been told to be off, whatever
\* mode the menu or the file asks for.
ReflexOnWhileGenerating == pace.multiplier > 1 => pace.submitted = "on"

\* Every cap that the settings hold, or that Apply would write, is one that
\* a later launch would read back, however the row came to it.
CapsValid ==
    /\ ValidCap(ini.base) /\ ValidCap(ini.limit)
    /\ menu.open => /\ ValidCap(Selected(menu.base))
                    /\ ValidCap(Selected(menu.out))
=============================================================================
