-------------------------- MODULE FrameSubmission --------------------------
(***************************************************************************)
(* The Streamline frame of the render thread, translated from              *)
(* src/streamline/FrameSubmission.cpp: the frame token, the camera         *)
(* constants and resource tags attached to it, the latency markers, and    *)
(* the request to reset the temporal history.  The component is a record   *)
(* sub, and a member function is an operator to the set of its outcomes    *)
(* [sub, ok].  RendererFrame calls them in the order of the frame loop.    *)
(*                                                                         *)
(* sub has the members ready (timing_ready_), open (frame_open_), prepared *)
(* (frame_prepared_, a token is held), simulation (simulation_open_),      *)
(* constants (constants_submitted_) and reset (reset_pending_).  tags is   *)
(* what Streamline last accepted for the open frame: "none", "inactive"    *)
(* (null inputs), "active" (this plugin's textures), or "stale" when it    *)
(* refused to replace active tags.  Three members are history:             *)
(*   marks    the latency markers of the frame, in order;                  *)
(*   owed     the generator's history was broken, and it has not yet been  *)
(*            shown a frame whose constants say so;                        *)
(*   carries  the constants of the open frame say so, and nothing has      *)
(*            broken the history since they were submitted.                *)
(***************************************************************************)
EXTENDS Naturals, Sequences

TagStates == {"none", "inactive", "active", "stale"}

\* sl::PCLMarker, in the order of the pipeline.
SimulationStart   == 1
SimulationEnd     == 2
RenderSubmitStart == 3
RenderSubmitEnd   == 4
PresentStart      == 5
PresentEnd        == 6

Markers == 1 .. 6

NewSubmission ==
    [ready |-> FALSE, open |-> FALSE, prepared |-> FALSE,
     simulation |-> FALSE, constants |-> FALSE, reset |-> TRUE,
     tags |-> "none", marks |-> <<>>, owed |-> TRUE, carries |-> FALSE]

Accept(s) == [sub |-> s, ok |-> TRUE]

Reject(s) == [sub |-> s, ok |-> FALSE]

\* The members whose call is accepted or rejected, with only one outcome.
RequestHistoryReset(s) ==
    [s EXCEPT !.reset = TRUE, !.owed = TRUE, !.carries = FALSE]

\* New extents reset the history; the first call only makes timing ready.
InitializeTiming(s, resized) ==
    IF ~s.ready THEN [s EXCEPT !.ready = TRUE]
    ELSE IF resized THEN RequestHistoryReset(s) ELSE s

AbandonFrame(s) ==
    [s EXCEPT !.open = FALSE, !.prepared = FALSE, !.simulation = FALSE,
              !.constants = FALSE, !.tags = "none", !.carries = FALSE]

ShutdownSubmission(s) == [NewSubmission EXCEPT !.marks = s.marks]

\* A marker is dropped silently when there is no token.
SetMarker(s, marker) ==
    IF s.ready /\ s.prepared THEN [s EXCEPT !.marks = Append(@, marker)] ELSE s

-----------------------------------------------------------------------------
AcquireToken(s) == [s EXCEPT !.prepared = TRUE, !.constants = FALSE]

\* A repeated call keeps the frame that is open, token and all.  Without a
\* token the frame is open all the same.
BeginSubmissionOutcomes(s) ==
    IF ~s.ready \/ s.open THEN {Reject(s)}
    ELSE LET opened == [s EXCEPT !.open = TRUE, !.prepared = FALSE,
                                 !.constants = FALSE, !.marks = <<>>]
             started == [AcquireToken(opened) EXCEPT !.simulation = TRUE]
         IN  {Accept(opened), Accept(SetMarker(started, SimulationStart))}

\* The token that was missing at the beginning is asked for again.
WithToken(s) == IF s.prepared THEN s ELSE AcquireToken(s)

(***************************************************************************)
(* Slips the properties have to notice: inactive inputs do not ask for the *)
(* history to be reset, or are only submitted for a frame that has no      *)
(* constants yet, and the simulation marker is not closed for good.        *)
(***************************************************************************)
InactiveKeepingReset(s) ==
    LET t == WithToken(s)
    IN  IF ~s.ready \/ ~s.open THEN {Reject(s)}
        ELSE {Reject(s), Reject(t), Accept([t EXCEPT !.tags = "inactive"])}

CloseSimulationAgain(s) ==
    IF s.simulation THEN SetMarker(s, SimulationEnd) ELSE s

InactiveOnlyOnce(s) ==
    LET r == RequestHistoryReset(s)
    IN  IF ~s.ready \/ ~s.open \/ s.constants THEN {Reject(r)}
        ELSE {Reject(r), Accept([WithToken(r) EXCEPT !.tags = "inactive"])}

EnsureConstantsOutcomes(s) ==
    IF ~s.open THEN {Reject(s)}
    ELSE IF s.constants THEN {Accept(s)}
    ELSE LET t == WithToken(s)
         IN  {Reject(s), Reject(t),
              Accept([t EXCEPT !.constants = TRUE, !.reset = FALSE,
                               !.carries = t.reset])}

CloseSimulationMarker(s) ==
    IF s.simulation
    THEN SetMarker([s EXCEPT !.simulation = FALSE], SimulationEnd) ELSE s

\* The inputs of a frame are tagged together: with one of them missing or
\* empty, or refused by slSetTagForFrame, none is.
TagOutcomes(s) == {Reject(s), Accept([s EXCEPT !.tags = "active"])}

\* Refused before the constants (resources, camera, extents, temporal
\* inputs), with them, or after them.
SubmitOutcomes(s) ==
    {Reject(s)}
    \cup UNION {IF c.ok THEN TagOutcomes(CloseSimulationMarker(c.sub)) ELSE {c}
                : c \in EnsureConstantsOutcomes(s)}

\* Whatever becomes of the tags, the history is to be reset.
SubmitInactiveOutcomes(s) ==
    LET r == RequestHistoryReset(s)
        t == WithToken(r)
        RefuseClear(u) ==
            [u EXCEPT !.tags = IF @ = "active" THEN "stale" ELSE @]
    IN  IF ~s.ready \/ ~s.open THEN {Reject(r)}
        ELSE {Reject(RefuseClear(r)), Reject(RefuseClear(t)),
              Accept([t EXCEPT !.tags = "inactive"])}

-----------------------------------------------------------------------------
SubmitRendering(s) ==
    SetMarker(SetMarker(CloseSimulationMarker(s), RenderSubmitStart),
              RenderSubmitEnd)

StartPresent(s) == SetMarker(CloseSimulationMarker(s), PresentStart)

\* present_end() also runs after a Present that failed.
EndPresent(s) ==
    AbandonFrame(
        [SetMarker(s, PresentEnd) EXCEPT
            !.owed = @ /\ ~(s.tags = "active" /\ s.carries)])
=============================================================================
