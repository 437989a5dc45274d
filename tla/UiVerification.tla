--------------------------- MODULE UiVerification ---------------------------
(***************************************************************************)
(* The three passes of src/render/UiCompositePass.cpp that put a frame's   *)
(* UI layer on the screen, read it out of the finished frame, and decide   *)
(* whether it may be handed to a generator.  Operators over the state each *)
(* pass keeps.                                                             *)
(*                                                                         *)
(* A texture is an address and a number that no other texture has; the     *)
(* code compares addresses only.  A pass whose state is absent holds None. *)
(* What is read back of a layer is "none" (nothing covered), "ui" or       *)
(* "scene" (more than a fifth of the screen).                              *)
(***************************************************************************)
EXTENDS Naturals

CONSTANTS
    ReportInterval,     \* kFramesBetweenReports
    CheckInterval,      \* validation_interval
    MaxChecks           \* maximum_validation_checks

ASSUME CadenceAssumption ==
    /\ ReportInterval \in Nat /\ CheckInterval \in Nat
    /\ MaxChecks \in Nat \ {0}

None == [addr |-> 0, id |-> 0]          \* no texture has address 0

Contents == {"none", "ui", "scene"}

\* LayerState: views of the layer keep it alive as long as the state.
Composite(held, layer, created) ==
    CASE held.addr = layer.addr -> [held |-> held, ok |-> TRUE]
      [] held.addr # layer.addr /\ created -> [held |-> layer, ok |-> TRUE]
      [] OTHER -> [held |-> None, ok |-> FALSE]

\* CaptureReportState: the address is remembered, the texture is not held.
NewReport(layer) == [addr |-> layer.addr, id |-> layer.id, wait |-> 0,
                     known |-> FALSE, safe |-> FALSE, reports |-> FALSE,
                     read |-> None, age |-> 0, misses |-> 0]

NoReportState == [NewReport(None) EXCEPT !.addr = 0]

\* A slip: the state of any layer will do.
SameLayerAny(r, layer) == r.addr # 0

SameLayer(r, layer) == r.addr = layer.addr

\* A slip: what is once known is not read again.
DueOnce(r) == r.wait = 0 /\ ~r.known

Due(r) == r.wait = 0

\* report_captured_ui_layer.  read, age and misses are history: the texture
\* last read, how many frames ago, and the readbacks that failed since.
ReportLayer(r, layer, created, mapped, content) ==
    LET current == IF SameLayer(r, layer) THEN r
                   ELSE IF created THEN NewReport(layer) ELSE NoReportState
        older == [current EXCEPT !.age = @ + 1]
    IN  CASE current.addr = 0 -> [state |-> current, safe |-> FALSE]
          [] current.addr # 0 /\ ~Due(current) ->
                [state |-> [older EXCEPT !.wait = IF @ > 0 THEN @ - 1 ELSE 0],
                 safe |-> current.known /\ current.safe]
          [] current.addr # 0 /\ Due(current) /\ ~mapped ->
                [state |-> [older EXCEPT !.wait = ReportInterval,
                                         !.misses = @ + 1],
                 safe |-> current.known /\ current.safe]
          [] OTHER ->
                [state |-> [current EXCEPT !.wait = ReportInterval,
                                !.known = TRUE, !.safe = content # "scene",
                                !.reports = TRUE, !.read = layer,
                                !.age = 0, !.misses = 0],
                 safe |-> content # "scene"]

\* reset_capture_reports, called when a save is loaded.
ResetReports(r) ==
    IF ~r.reports THEN r
    ELSE [r EXCEPT !.reports = FALSE, !.wait = 0, !.known = FALSE,
                   !.safe = FALSE]

\* ExtractionState: its views hold the layer too.
NewExtraction(layer) == [addr |-> layer.addr, id |-> layer.id, wait |-> 0,
                         checks |-> 0, pending |-> FALSE, copy |-> "none",
                         verified |-> FALSE]

NoExtraction == [NewExtraction(None) EXCEPT !.addr = 0]

\* The copy of an earlier frame is looked at when the GPU has made it, and the
\* next is asked for CheckInterval frames after the last, MaxChecks times.
PollCopy(x, copied) ==
    IF x.pending /\ copied
    THEN [x EXCEPT !.pending = FALSE, !.checks = @ + 1,
                   !.verified = x.copy = "ui", !.copy = "none"]
    ELSE x

RequestCopy(x, polled, content) ==
    IF x.verified \/ x.pending \/ polled \/ x.checks >= MaxChecks THEN x
    ELSE IF x.wait = 0
    THEN [x EXCEPT !.pending = TRUE, !.copy = content, !.wait = CheckInterval]
    ELSE [x EXCEPT !.wait = @ - 1]

\* extract_ui_layer.
ExtractLayer(x, layer, created, copied, content) ==
    LET current == IF x.addr = layer.addr THEN x
                   ELSE IF created THEN NewExtraction(layer) ELSE NoExtraction
        seen == IF current.verified THEN current
                ELSE PollCopy(current, copied)
    IN  IF current.addr = 0 THEN [state |-> current, safe |-> FALSE]
        ELSE LET asked == IF seen.verified THEN seen
                          ELSE RequestCopy(seen, current.pending, content)
             IN  [state |-> asked, safe |-> asked.verified]
=============================================================================
