------------------------ MODULE RendererFrame_proofs ------------------------
(***************************************************************************)
(* Proofs about the frame loop of RendererFrame, for any thresholds, any   *)
(* multiplier ceiling and any contracts: the swap chain is only mutated    *)
(* over a released runtime, no reset of the history is lost, the latency   *)
(* markers of a frame are in order, and a frame presented with inputs has  *)
(* them.                                                                   *)
(*                                                                         *)
(* The frame of FrameSubmission and the controller of FrameGeneration are  *)
(* records that a handler passes through several operators, so the lemmas  *)
(* are about the operators; those about the controller are in              *)
(* FrameGeneration_proofs, and reach this module by an instance.           *)
(***************************************************************************)
EXTENDS RendererFrame, TLAPS

-----------------------------------------------------------------------------
(***************************************************************************)
(* The frame of FrameSubmission.  Lawful is about its flags: what each     *)
(* stage of a frame presupposes, and where a reset of the history that is  *)
(* still owed is recorded.                                                 *)
(***************************************************************************)
Submissions ==
    [ready : BOOLEAN, open : BOOLEAN, prepared : BOOLEAN,
     simulation : BOOLEAN, constants : BOOLEAN, reset : BOOLEAN,
     tags : TagStates, marks : Seq(Markers), owed : BOOLEAN,
     carries : BOOLEAN]

Staged(s) ==
    /\ s.open => s.ready
    /\ s.prepared => s.open
    /\ s.constants => s.prepared
    /\ s.simulation => s.prepared
    /\ s.tags # "none" => s.open
    /\ s.tags = "active" => s.constants

\* Constants that were submitted without a reset belong to a frame that is
\* tagged: a frame whose tags fail is given a reset by its inactive tags.
Recorded(s) ==
    /\ s.owed => s.reset \/ (s.constants /\ s.carries)
    /\ s.constants /\ ~s.reset => s.tags = "active"

Lawful(s) == Staged(s) /\ Recorded(s)

Increasing(s) == \A i, j \in DOMAIN s.marks : i < j => s.marks[i] < s.marks[j]

Below(s, n) == \A i \in DOMAIN s.marks : s.marks[i] <= n

\* n is the last marker an open frame can have got to.
Marked(s, n) ==
    /\ Increasing(s)
    /\ s.simulation => Below(s, SimulationStart)
    /\ s.open => Below(s, n)

\* Two frames that differ in nothing but the markers.
SameFlags(s, t) ==
    /\ t.ready = s.ready
    /\ t.open = s.open
    /\ t.prepared = s.prepared
    /\ t.simulation = s.simulation
    /\ t.constants = s.constants
    /\ t.reset = s.reset
    /\ t.tags = s.tags
    /\ t.owed = s.owed
    /\ t.carries = s.carries

LEMMA SameFlagsLemma ==
    ASSUME NEW s, NEW t, SameFlags(s, t)
    PROVE  (Lawful(s) <=> Lawful(t))
BY DEF SameFlags, Lawful, Staged, Recorded

LEMMA AppendLemma ==
    ASSUME NEW q \in Seq(Markers), NEW m \in Markers
    PROVE  /\ Append(q, m) \in Seq(Markers)
           /\ DOMAIN Append(q, m) = DOMAIN q \cup {Len(q) + 1}
           /\ \A i \in DOMAIN q : Append(q, m)[i] = q[i] /\ i < Len(q) + 1
           /\ Append(q, m)[Len(q) + 1] = m
           /\ \A i \in DOMAIN q : q[i] \in Markers /\ i \in Nat
           /\ Len(q) \in Nat
<1>1. Len(q) \in Nat /\ DOMAIN q = 1 .. Len(q)
  OBVIOUS
<1>2. Append(q, m) \in Seq(Markers)
  OBVIOUS
<1>3. Len(Append(q, m)) = Len(q) + 1
  OBVIOUS
<1>4. DOMAIN Append(q, m) = 1 .. Len(q) + 1
  BY <1>1, <1>2, <1>3
<1>5. \A i \in 1 .. Len(q) : Append(q, m)[i] = q[i] /\ i < Len(q) + 1
  BY <1>1
<1>6. Append(q, m)[Len(q) + 1] = m
  BY <1>1
<1>7. \A i \in 1 .. Len(q) : q[i] \in Markers
  BY <1>1
<1>8. 1 .. Len(q) + 1 = (1 .. Len(q)) \cup {Len(q) + 1}
  BY <1>1
<1> QED
  BY <1>1, <1>2, <1>4, <1>5, <1>6, <1>7, <1>8

\* A marker later than all that are set keeps them in order.
LEMMA SetMarkerLemma ==
    ASSUME NEW s \in Submissions, NEW m \in Markers, NEW n \in Nat, n < m,
           Increasing(s), s.ready /\ s.prepared => Below(s, n)
    PROVE  LET t == SetMarker(s, m)
           IN  /\ t \in Submissions
               /\ SameFlags(s, t)
               /\ Increasing(t)
               /\ s.ready /\ s.prepared => Below(t, m)
               /\ ~(s.ready /\ s.prepared) => t = s
<1>1. CASE ~(s.ready /\ s.prepared)
  BY <1>1 DEF SetMarker, SameFlags
<1>2. CASE s.ready /\ s.prepared
  <2> DEFINE q == Append(s.marks, m)
             t == [s EXCEPT !.marks = q]
  <2>1. SetMarker(s, m) = t
    BY <1>2 DEF SetMarker
  <2>2. s.marks \in Seq(Markers)
    BY DEF Submissions
  <2>3. /\ q \in Seq(Markers)
        /\ DOMAIN q = DOMAIN s.marks \cup {Len(s.marks) + 1}
        /\ \A i \in DOMAIN s.marks : q[i] = s.marks[i] /\ i < Len(s.marks) + 1
        /\ q[Len(s.marks) + 1] = m
        /\ \A i \in DOMAIN s.marks : s.marks[i] \in Markers /\ i \in Nat
        /\ Len(s.marks) \in Nat
    BY <2>2, AppendLemma
  <2> HIDE DEF q
  <2>4. t \in Submissions /\ SameFlags(s, t) /\ t.marks = q
    BY <2>3 DEF Submissions, SameFlags
  <2>5. \A i \in DOMAIN s.marks : s.marks[i] <= n /\ s.marks[i] < m
    BY <1>2, <2>3 DEF Below, Markers
  <2>6. \A i, j \in DOMAIN q : i < j => q[i] < q[j]
    BY <2>3, <2>5 DEF Increasing
  <2>7. \A i \in DOMAIN q : q[i] <= m
    BY <2>3, <2>5 DEF Markers
  <2> HIDE DEF t
  <2>8. Increasing(t) /\ Below(t, m)
    BY <2>4, <2>6, <2>7 DEF Increasing, Below
  <2> QED
    BY <1>2, <2>1, <2>4, <2>8
<1> QED
  BY <1>1, <1>2
\* What the operators of a frame keep, between two handlers.
Carried(s, n) == s \in Submissions /\ Lawful(s) /\ Marked(s, n)

\* Two frames that have got equally far.
SameStage(s, t) ==
    /\ t.ready = s.ready
    /\ t.open = s.open
    /\ t.marks = s.marks
    /\ t.simulation = s.simulation

LEMMA SameStageLemma ==
    ASSUME NEW s, NEW t, SameStage(s, t), NEW n, Marked(s, n)
    PROVE  Marked(t, n)
BY DEF SameStage, Marked, Increasing, Below

LEMMA NewSubmissionLemma ==
    /\ NewSubmission \in Submissions
    /\ \A n : Carried(NewSubmission, n)
<1>1. NewSubmission \in Submissions
  BY DEF NewSubmission, Submissions, TagStates, Markers
<1>2. Lawful(NewSubmission)
  BY DEF NewSubmission, Lawful, Staged, Recorded
<1>3. ASSUME NEW n PROVE Marked(NewSubmission, n)
  BY DEF NewSubmission, Marked, Increasing, Below
<1> QED
  BY <1>1, <1>2, <1>3 DEF Carried

LEMMA ShutdownSubmissionLemma ==
    ASSUME NEW s \in Submissions, Increasing(s)
    PROVE  LET t == ShutdownSubmission(s)
           IN  /\ \A n : Carried(t, n)
               /\ t.tags = "none"
               /\ ~t.open
<1> DEFINE t == ShutdownSubmission(s)
<1>1. t \in Submissions /\ t.marks = s.marks /\ SameFlags(NewSubmission, t)
  BY NewSubmissionLemma DEF ShutdownSubmission, Submissions, SameFlags
<1>2. /\ t.tags = "none"
      /\ ~t.open
      /\ ~t.simulation
  BY <1>1 DEF NewSubmission, SameFlags
<1> HIDE DEF t
<1>3. Lawful(t)
  BY <1>1, NewSubmissionLemma, SameFlagsLemma DEF Carried
<1>4. ASSUME NEW n PROVE Marked(t, n)
  BY <1>1, <1>2 DEF Marked, Increasing
<1> QED
  BY <1>1, <1>2, <1>3, <1>4 DEF Carried, t

LEMMA RequestLemma ==
    ASSUME NEW s \in Submissions
    PROVE  LET t == RequestHistoryReset(s)
           IN  /\ t \in Submissions
               /\ SameStage(s, t)
               /\ t.prepared = s.prepared
               /\ t.constants = s.constants
               /\ t.tags = s.tags
               /\ t.reset /\ t.owed /\ ~t.carries
               /\ Staged(s) => Lawful(t)
<1> DEFINE t == RequestHistoryReset(s)
<1>1. /\ t \in Submissions
      /\ SameStage(s, t)
      /\ t.prepared = s.prepared
      /\ t.constants = s.constants
      /\ t.tags = s.tags
      /\ t.reset /\ t.owed /\ ~t.carries
  BY DEF RequestHistoryReset, Submissions, SameStage
<1> HIDE DEF t
<1>2. Staged(s) => Lawful(t)
  BY <1>1 DEF SameStage, Lawful, Staged, Recorded
<1> QED
  BY <1>1, <1>2 DEF t

LEMMA RequestKeeps ==
    ASSUME NEW n, NEW s, Carried(s, n)
    PROVE  LET t == RequestHistoryReset(s)
           IN  Carried(t, n) /\ t.tags = s.tags /\ t.open = s.open
BY RequestLemma, SameStageLemma DEF Carried, Lawful, SameStage

LEMMA InitializeTimingLemma ==
    ASSUME NEW n, NEW s, Carried(s, n), NEW resized \in BOOLEAN
    PROVE  LET t == InitializeTiming(s, resized)
           IN  Carried(t, n) /\ t.tags = s.tags /\ t.open = s.open
<1>1. CASE ~s.ready
  <2> DEFINE t == [s EXCEPT !.ready = TRUE]
  <2>1. InitializeTiming(s, resized) = t
    BY <1>1 DEF InitializeTiming
  <2>2. /\ t \in Submissions
        /\ t.ready
        /\ t.open = s.open
        /\ t.prepared = s.prepared
        /\ t.simulation = s.simulation
        /\ t.constants = s.constants
        /\ t.reset = s.reset
        /\ t.tags = s.tags
        /\ t.marks = s.marks
        /\ t.owed = s.owed
        /\ t.carries = s.carries
    BY DEF Carried, Submissions
  <2> HIDE DEF t
  <2>3. Lawful(t)
    BY <2>2 DEF Carried, Lawful, Staged, Recorded
  <2>4. Marked(t, n)
    BY <2>2 DEF Carried, Marked, Increasing, Below
  <2> QED
    BY <2>1, <2>2, <2>3, <2>4 DEF Carried
<1>2. CASE s.ready /\ resized
  BY <1>2, RequestKeeps DEF InitializeTiming
<1>3. CASE s.ready /\ ~resized
  BY <1>3 DEF InitializeTiming
<1> QED
  BY <1>1, <1>2, <1>3

\* An abandoned frame owes nothing but what it was asked for.
LEMMA AbandonLemma ==
    ASSUME NEW s \in Submissions, Increasing(s), s.owed => s.reset
    PROVE  LET t == AbandonFrame(s)
           IN  /\ \A n : Carried(t, n)
               /\ t.tags = "none"
               /\ ~t.open
<1> DEFINE t == AbandonFrame(s)
<1>1. /\ t \in Submissions
      /\ t.ready = s.ready
      /\ t.reset = s.reset
      /\ t.owed = s.owed
      /\ t.marks = s.marks
      /\ t.tags = "none"
      /\ ~t.open
      /\ ~t.prepared
      /\ ~t.simulation
      /\ ~t.constants
  BY DEF AbandonFrame, Submissions, TagStates
<1> HIDE DEF t
<1>2. Lawful(t)
  BY <1>1 DEF Lawful, Staged, Recorded
<1>3. ASSUME NEW n PROVE Marked(t, n)
  BY <1>1 DEF Marked, Increasing
<1> QED
  BY <1>1, <1>2, <1>3 DEF Carried, t

-----------------------------------------------------------------------------
(***************************************************************************)
(* Beginning a frame, and asking again for its token.                      *)
(***************************************************************************)
LEMMA BeginLemma ==
    ASSUME NEW s, NEW n, Carried(s, n), NEW o \in BeginSubmissionOutcomes(s)
    PROVE  /\ Carried(o.sub, SimulationEnd) \/ o.sub = s
           /\ o.sub.tags = s.tags
<1> DEFINE b == [s EXCEPT !.open = TRUE, !.prepared = FALSE,
                          !.constants = FALSE, !.marks = <<>>]
           a == AcquireToken(b)
           t == [a EXCEPT !.simulation = TRUE]
<1>1. s \in Submissions /\ Staged(s) /\ Recorded(s)
  BY DEF Carried, Lawful
<1>2. CASE ~s.ready \/ s.open
  BY <1>2 DEF BeginSubmissionOutcomes, Reject
<1>3. CASE s.ready /\ ~s.open
  <2>1. o.sub = b \/ o.sub = SetMarker(t, SimulationStart)
    BY <1>3 DEF BeginSubmissionOutcomes, Accept
  <2>2. /\ ~s.prepared
        /\ ~s.constants
        /\ ~s.simulation
        /\ s.tags = "none"
        /\ s.owed => s.reset
    BY <1>1, <1>3 DEF Staged, Recorded
  <2>3. <<>> \in Seq(Markers) /\ DOMAIN <<>> = {}
    OBVIOUS
  <2>4. /\ b \in Submissions
        /\ b.ready /\ b.open /\ ~b.prepared /\ ~b.simulation /\ ~b.constants
        /\ b.reset = s.reset /\ b.owed = s.owed
        /\ b.tags = "none"
        /\ b.marks = <<>>
    BY <1>1, <1>3, <2>2, <2>3 DEF Submissions
  <2> HIDE DEF b
  <2>5. /\ t \in Submissions
        /\ t.ready /\ t.open /\ t.prepared /\ t.simulation /\ ~t.constants
        /\ t.reset = s.reset /\ t.owed = s.owed
        /\ t.tags = "none"
        /\ t.marks = <<>>
    BY <2>4 DEF AcquireToken, Submissions
  <2> HIDE DEF t
  <2>6. CASE o.sub = b
    <3>1. Lawful(b)
      BY <2>2, <2>4 DEF Lawful, Staged, Recorded
    <3>2. Marked(b, SimulationEnd)
      BY <2>3, <2>4 DEF Marked, Increasing, Below
    <3> QED
      BY <2>2, <2>4, <2>6, <3>1, <3>2 DEF Carried
  <2>7. CASE o.sub = SetMarker(t, SimulationStart)
    <3> DEFINE u == SetMarker(t, SimulationStart)
    <3>1. Lawful(t)
      BY <2>2, <2>5 DEF Lawful, Staged, Recorded
    <3>2. Increasing(t) /\ Below(t, 0)
      BY <2>3, <2>5 DEF Increasing, Below
    <3>3. SimulationStart \in Markers /\ 0 < SimulationStart
      BY DEF SimulationStart, Markers
    <3>4. /\ u \in Submissions
          /\ SameFlags(t, u)
          /\ Increasing(u)
          /\ Below(u, SimulationStart)
      BY <2>5, <3>2, <3>3, SetMarkerLemma
    <3> HIDE DEF u
    <3>5. Lawful(u)
      BY <3>1, <3>4, SameFlagsLemma
    <3>6. Below(u, SimulationEnd)
      BY <3>4, AppendLemma
      DEF Below, Submissions, SimulationStart, SimulationEnd, Markers
    <3> QED
      BY <2>2, <2>5, <2>7, <3>4, <3>5, <3>6 DEF Carried, Marked, SameFlags, u
  <2> QED
    BY <2>1, <2>6, <2>7
<1> QED
  BY <1>2, <1>3

\* A token that comes late finds no constants to lose: they need one.
LEMMA WithTokenLemma ==
    ASSUME NEW s, s \in Submissions, Staged(s), s.open
    PROVE  LET t == WithToken(s)
           IN  /\ t \in Submissions
               /\ SameStage(s, t)
               /\ t.prepared
               /\ t.constants = s.constants
               /\ t.reset = s.reset
               /\ t.tags = s.tags
               /\ t.owed = s.owed
               /\ t.carries = s.carries
BY DEF WithToken, AcquireToken, Submissions, SameStage, Staged

LEMMA TokenKeeps ==
    ASSUME NEW n, NEW s, Carried(s, n), s.open
    PROVE  LET t == WithToken(s)
           IN  Carried(t, n) /\ t.tags = s.tags /\ t.open = s.open
<1> DEFINE t == WithToken(s)
<1>1. s \in Submissions /\ Staged(s) /\ Recorded(s) /\ Marked(s, n)
  BY DEF Carried, Lawful
<1>2. /\ t \in Submissions
      /\ SameStage(s, t)
      /\ t.prepared
      /\ t.constants = s.constants
      /\ t.reset = s.reset
      /\ t.tags = s.tags
      /\ t.owed = s.owed
      /\ t.carries = s.carries
  BY <1>1, WithTokenLemma
<1> HIDE DEF t
<1>3. Lawful(t)
  BY <1>1, <1>2 DEF Lawful, Staged, Recorded, SameStage
<1> QED
  BY <1>1, <1>2, <1>3, SameStageLemma DEF Carried, SameStage, t

-----------------------------------------------------------------------------
(***************************************************************************)
(* Submitting.  Between its constants and its tags a frame may not be      *)
(* Recorded; Signed is what it is then.                                    *)
(***************************************************************************)
Signed(s, n) ==
    /\ s \in Submissions
    /\ Staged(s)
    /\ s.owed => s.reset \/ (s.constants /\ s.carries)
    /\ Marked(s, n)

LEMMA CloseLemma ==
    ASSUME NEW s, NEW n \in Nat, Signed(s, n), n >= SimulationEnd
    PROVE  LET t == CloseSimulationMarker(s)
           IN  /\ Signed(t, n)
               /\ ~t.simulation
               /\ t.open = s.open
               /\ t.constants = s.constants
               /\ t.reset = s.reset
               /\ t.tags = s.tags
               /\ t.owed = s.owed
               /\ t.carries = s.carries
<1>1. CASE ~s.simulation
  BY <1>1 DEF CloseSimulationMarker
<1>2. CASE s.simulation
  <2> DEFINE b == [s EXCEPT !.simulation = FALSE]
             t == SetMarker(b, SimulationEnd)
  <2>1. CloseSimulationMarker(s) = t
    BY <1>2 DEF CloseSimulationMarker
  <2>2. /\ b \in Submissions
        /\ b.ready = s.ready
        /\ b.open = s.open
        /\ b.prepared = s.prepared
        /\ ~b.simulation
        /\ b.constants = s.constants
        /\ b.reset = s.reset
        /\ b.tags = s.tags
        /\ b.marks = s.marks
        /\ b.owed = s.owed
        /\ b.carries = s.carries
    BY DEF Signed, Submissions
  <2> HIDE DEF b
  <2>3. Staged(b) /\ b.ready /\ b.prepared
    BY <1>2, <2>2 DEF Signed, Staged
  <2>4. Increasing(b) /\ Below(b, SimulationStart)
    BY <1>2, <2>2 DEF Signed, Marked, Increasing, Below
  <2>5. /\ SimulationEnd \in Markers
        /\ SimulationStart \in Nat
        /\ SimulationStart < SimulationEnd
    BY DEF SimulationStart, SimulationEnd, Markers
  <2>6. /\ t \in Submissions
        /\ SameFlags(b, t)
        /\ Increasing(t)
        /\ Below(t, SimulationEnd)
    BY <2>2, <2>3, <2>4, <2>5, SetMarkerLemma
  <2> HIDE DEF t
  <2>7. Below(t, n)
    <3>1. \A i \in DOMAIN t.marks : t.marks[i] \in Nat
      BY <2>6, AppendLemma DEF Submissions, Markers
    <3> QED
      BY <2>6, <3>1 DEF Below, SimulationEnd
  <2>8. Staged(t) /\ ~t.simulation
    BY <2>2, <2>3, <2>6 DEF SameFlags, Staged
  <2> QED
    BY <2>1, <2>2, <2>6, <2>7, <2>8 DEF Signed, Marked, SameFlags
<1> QED
  BY <1>1, <1>2

LEMMA ConstantsLemma ==
    ASSUME NEW s, NEW n, Carried(s, n), NEW o \in EnsureConstantsOutcomes(s)
    PROVE  /\ o.sub.open = s.open
           /\ ~o.ok => Carried(o.sub, n) /\ o.sub.tags = s.tags
           /\ o.ok => Signed(o.sub, n) /\ o.sub.constants
<1>1. CASE ~s.open
  BY <1>1 DEF EnsureConstantsOutcomes, Reject
<1>2. CASE s.open /\ s.constants
  <2>1. o.sub = s /\ o.ok
    BY <1>2 DEF EnsureConstantsOutcomes, Accept
  <2> QED
    BY <1>2, <2>1 DEF Carried, Lawful, Recorded, Signed
<1>3. CASE s.open /\ ~s.constants
  <2> DEFINE t == WithToken(s)
             u == [t EXCEPT !.constants = TRUE, !.reset = FALSE,
                            !.carries = t.reset]
  <2>1. o = Reject(s) \/ o = Reject(t) \/ o = Accept(u)
    BY <1>3 DEF EnsureConstantsOutcomes
  <2>2. /\ Carried(t, n)
        /\ t.tags = s.tags
        /\ t.open = s.open
    BY <1>3, TokenKeeps
  <2>3. t.prepared /\ ~t.constants
    BY <1>3, WithTokenLemma DEF Carried, Lawful
  <2> HIDE DEF t
  <2>4. CASE o = Reject(s) \/ o = Reject(t)
    BY <2>2, <2>4 DEF Reject
  <2>5. CASE o = Accept(u)
    <3>1. /\ u \in Submissions
          /\ SameStage(t, u)
          /\ u.prepared = t.prepared
          /\ u.constants
          /\ u.tags = t.tags
          /\ u.owed = t.owed
          /\ u.carries = t.reset
      BY <2>2 DEF Carried, Submissions, SameStage
    <3>2. o.sub = u /\ o.ok
      BY <2>5 DEF Accept
    <3> HIDE DEF u
    <3>3. Staged(u) /\ (u.owed => u.carries)
      BY <2>2, <2>3, <3>1
      DEF Carried, Lawful, Staged, Recorded, SameStage
    <3>4. Marked(u, n)
      BY <2>2, <3>1, SameStageLemma DEF Carried
    <3> QED
      BY <2>2, <3>1, <3>2, <3>3, <3>4 DEF Signed, SameStage
  <2> QED
    BY <2>1, <2>4, <2>5
<1> QED
  BY <1>1, <1>2, <1>3

\* A frame that was refused is still Signed; one that was accepted has its
\* constants and its tags.
LEMMA SubmitLemma ==
    ASSUME NEW s, NEW n \in Nat, n >= SimulationEnd, Carried(s, n),
           NEW o \in SubmitOutcomes(s)
    PROVE  /\ Signed(o.sub, n)
           /\ o.ok => /\ Carried(o.sub, n)
                      /\ o.sub.tags = "active"
                      /\ o.sub.open
<1>1. \/ o = Reject(s)
      \/ \E c \in EnsureConstantsOutcomes(s) :
            \/ ~c.ok /\ o = c
            \/ c.ok /\ o \in TagOutcomes(CloseSimulationMarker(c.sub))
  <2> DEFINE answers(c) == IF c.ok THEN TagOutcomes(CloseSimulationMarker(c.sub))
                           ELSE {c}
  <2>1. o \in {Reject(s)} \cup UNION {answers(c) : c \in EnsureConstantsOutcomes(s)}
    BY DEF SubmitOutcomes
  <2> HIDE DEF answers
  <2>2. o = Reject(s) \/ \E c \in EnsureConstantsOutcomes(s) : o \in answers(c)
    BY <2>1
  <2> QED
    BY <2>2 DEF answers
<1>2. ASSUME NEW t, Carried(t, n) PROVE Signed(t, n)
  BY <1>2 DEF Carried, Lawful, Recorded, Signed
<1>3. CASE o = Reject(s)
  BY <1>2, <1>3 DEF Reject
<1>4. CASE \E c \in EnsureConstantsOutcomes(s) :
            \/ ~c.ok /\ o = c
            \/ c.ok /\ o \in TagOutcomes(CloseSimulationMarker(c.sub))
  <2>1. PICK c \in EnsureConstantsOutcomes(s) :
            \/ ~c.ok /\ o = c
            \/ c.ok /\ o \in TagOutcomes(CloseSimulationMarker(c.sub))
    BY <1>4
  <2>2. CASE ~c.ok /\ o = c
    BY <1>2, <2>2, ConstantsLemma
  <2>3. CASE c.ok /\ o \in TagOutcomes(CloseSimulationMarker(c.sub))
    <3> DEFINE d == CloseSimulationMarker(c.sub)
               t == [d EXCEPT !.tags = "active"]
    <3>1. Signed(c.sub, n) /\ c.sub.constants
      BY <2>3, ConstantsLemma
    <3>2. Signed(d, n) /\ d.constants
      BY <3>1, CloseLemma
    <3>3. o = Reject(d) \/ o = Accept(t)
      BY <2>3 DEF TagOutcomes
    <3> HIDE DEF d
    <3>4. /\ t \in Submissions
          /\ SameStage(d, t)
          /\ t.prepared = d.prepared
          /\ t.constants = d.constants
          /\ t.reset = d.reset
          /\ t.tags = "active"
          /\ t.owed = d.owed
          /\ t.carries = d.carries
      BY <3>2 DEF Signed, Submissions, TagStates, SameStage
    <3> HIDE DEF t
    <3>5. Lawful(t) /\ t.open
      BY <3>2, <3>4 DEF Signed, Lawful, Staged, Recorded, SameStage
    <3>6. Marked(t, n)
      BY <3>2, <3>4, SameStageLemma DEF Signed
    <3>7. Carried(t, n)
      BY <3>4, <3>5, <3>6 DEF Carried
    <3> QED
      BY <1>2, <3>2, <3>3, <3>4, <3>5, <3>7 DEF Reject, Accept
  <2> QED
    BY <2>1, <2>2, <2>3
<1> QED
  BY <1>1, <1>3, <1>4

\* Inactive tags ask for a reset, which is all that an accepted, a refused
\* and an impossible submission have in common; a frame that had active tags
\* keeps them stale.
LEMMA InactiveLemma ==
    ASSUME NEW s, NEW n, Signed(s, n), NEW o \in SubmitInactiveOutcomes(s)
    PROVE  /\ Carried(o.sub, n)
           /\ o.sub.tags # "active"
           /\ s.tags = "none" /\ ~s.open => o.sub.tags = "none"
<1> DEFINE r == RequestHistoryReset(s)
           t == WithToken(r)
           RefuseClear(u) ==
               [u EXCEPT !.tags = IF @ = "active" THEN "stale" ELSE @]
<1>1. /\ r \in Submissions
      /\ SameStage(s, r)
      /\ Lawful(r)
      /\ r.reset
      /\ r.tags = s.tags
  BY RequestLemma DEF Signed
<1>2. Carried(r, n)
  BY <1>1, SameStageLemma DEF Carried, Signed
<1> HIDE DEF r
<1>3. CASE ~s.ready \/ ~s.open
  <2>1. o = Reject(r)
    BY <1>3 DEF SubmitInactiveOutcomes, r
  <2>2. s.tags = "none"
    BY <1>3 DEF Signed, Staged
  <2> QED
    BY <1>1, <1>2, <2>1, <2>2 DEF Reject
<1>4. CASE s.ready /\ s.open
  <2>1. r.open
    BY <1>1, <1>4 DEF SameStage
  <2>2. Carried(t, n) /\ t.reset /\ t.open
    BY <1>1, <1>2, <2>1, WithTokenLemma, TokenKeeps DEF Lawful
  <2>3. \/ o.sub = RefuseClear(r)
        \/ o.sub = RefuseClear(t)
        \/ o.sub = [t EXCEPT !.tags = "inactive"]
    BY <1>4 DEF SubmitInactiveOutcomes, Reject, Accept, r
  <2>4. ASSUME NEW u, Carried(u, n), u.reset, u.open,
               NEW g \in TagStates \ {"active"}
        PROVE  Carried([u EXCEPT !.tags = g], n)
               /\ [u EXCEPT !.tags = g].tags # "active"
    <3> DEFINE v == [u EXCEPT !.tags = g]
    <3>1. /\ v \in Submissions
          /\ SameStage(u, v)
          /\ v.prepared = u.prepared
          /\ v.constants = u.constants
          /\ v.reset = u.reset
          /\ v.tags = g
          /\ v.owed = u.owed
          /\ v.carries = u.carries
      BY <2>4 DEF Carried, Submissions, SameStage
    <3> HIDE DEF v
    <3>2. Lawful(v)
      BY <2>4, <3>1 DEF Carried, Lawful, Staged, Recorded, SameStage
    <3> QED
      BY <2>4, <3>1, <3>2, SameStageLemma DEF Carried, v
  <2>5. ASSUME NEW u, Carried(u, n), u.reset, u.open
        PROVE  Carried(RefuseClear(u), n) /\ RefuseClear(u).tags # "active"
    <3> DEFINE g == IF u.tags = "active" THEN "stale" ELSE u.tags
    <3>1. g \in TagStates \ {"active"}
      BY <2>5 DEF Carried, Submissions, TagStates
    <3>2. RefuseClear(u) = [u EXCEPT !.tags = g]
      OBVIOUS
    <3> HIDE DEF g, RefuseClear
    <3> QED
      BY <2>4, <2>5, <3>1, <3>2
  <2>6. "inactive" \in TagStates \ {"active"}
    BY DEF TagStates
  <2> HIDE DEF RefuseClear, t
  <2> QED
    BY <1>1, <1>2, <1>4, <2>1, <2>2, <2>3, <2>4, <2>5, <2>6
<1> QED
  BY <1>3, <1>4

-----------------------------------------------------------------------------
(***************************************************************************)
(* From the execution of the command list to the end of Present.           *)
(***************************************************************************)
LEMMA CarriedIsSigned ==
    ASSUME NEW s, NEW n, Carried(s, n)
    PROVE  Signed(s, n)
BY DEF Carried, Lawful, Recorded, Signed

LEMMA CloseKeeps ==
    ASSUME NEW s, NEW n \in Nat, Carried(s, n), n >= SimulationEnd
    PROVE  LET t == CloseSimulationMarker(s)
           IN  /\ Carried(t, n)
               /\ ~t.simulation
               /\ t.tags = s.tags
               /\ t.constants = s.constants
<1> DEFINE t == CloseSimulationMarker(s)
<1>1. /\ Signed(t, n)
      /\ ~t.simulation
      /\ t.constants = s.constants
      /\ t.reset = s.reset
      /\ t.tags = s.tags
  BY CarriedIsSigned, CloseLemma
<1> HIDE DEF t
<1>2. Carried(t, n)
  BY <1>1 DEF Carried, Lawful, Recorded, Signed
<1> QED
  BY <1>1, <1>2 DEF t

LEMMA MarkKeeps ==
    ASSUME NEW s, NEW n \in Nat, NEW m \in Markers, n < m,
           Carried(s, n), ~s.simulation
    PROVE  LET t == SetMarker(s, m)
           IN  /\ Carried(t, m)
               /\ SameFlags(s, t)
<1> DEFINE t == SetMarker(s, m)
<1>1. s.prepared => s.open
  BY DEF Carried, Lawful, Staged
<1>2. /\ t \in Submissions
      /\ SameFlags(s, t)
      /\ Increasing(t)
      /\ s.ready /\ s.prepared => Below(t, m)
      /\ ~(s.ready /\ s.prepared) => t = s
  BY <1>1, SetMarkerLemma DEF Carried, Marked
<1> HIDE DEF t
<1>3. Lawful(t)
  BY <1>2, SameFlagsLemma DEF Carried
<1>4. s.open => Below(t, m)
  <2>1. CASE s.ready /\ s.prepared
    BY <1>2, <2>1
  <2>2. CASE ~(s.ready /\ s.prepared)
    <3>1. s.open => Below(s, n)
      BY DEF Carried, Marked
    <3>2. \A i \in DOMAIN s.marks : s.marks[i] \in Nat
      BY AppendLemma DEF Carried, Submissions, Markers
    <3> QED
      BY <1>2, <2>2, <3>1, <3>2 DEF Below, Markers
  <2> QED
    BY <2>1, <2>2
<1>5. Marked(t, m)
  BY <1>2, <1>4 DEF Marked, SameFlags
<1> QED
  BY <1>2, <1>3, <1>5 DEF Carried, t

LEMMA SubmitRenderingLemma ==
    ASSUME NEW s, Carried(s, SimulationEnd)
    PROVE  LET t == StartPresent(SubmitRendering(s))
           IN  /\ Carried(t, PresentStart)
               /\ t.tags = s.tags
               /\ t.constants = s.constants
<1> DEFINE a == CloseSimulationMarker(s)
           b == SetMarker(a, RenderSubmitStart)
           c == SetMarker(b, RenderSubmitEnd)
           d == SetMarker(c, PresentStart)
<1>1. /\ SimulationEnd = 2 /\ RenderSubmitStart = 3 /\ RenderSubmitEnd = 4
      /\ PresentStart = 5 /\ Markers = 1 .. 6
  BY DEF SimulationEnd, RenderSubmitStart, RenderSubmitEnd, PresentStart,
         Markers
<1>2. /\ Carried(a, SimulationEnd)
      /\ ~a.simulation
      /\ a.tags = s.tags
      /\ a.constants = s.constants
  BY <1>1, CloseKeeps
<1> HIDE DEF a
<1>3. Carried(b, RenderSubmitStart) /\ SameFlags(a, b)
  BY <1>1, <1>2, MarkKeeps
<1>4. ~b.simulation /\ b.tags = s.tags /\ b.constants = s.constants
  BY <1>2, <1>3 DEF SameFlags
<1> HIDE DEF b
<1>5. Carried(c, RenderSubmitEnd) /\ SameFlags(b, c)
  BY <1>1, <1>3, <1>4, MarkKeeps
<1>6. ~c.simulation /\ c.tags = s.tags /\ c.constants = s.constants
  BY <1>4, <1>5 DEF SameFlags
<1> HIDE DEF c
<1>7. Carried(d, PresentStart) /\ SameFlags(c, d)
  BY <1>1, <1>5, <1>6, MarkKeeps
<1>8. StartPresent(SubmitRendering(s)) = d
  <2>1. SubmitRendering(s) = c
    BY DEF SubmitRendering, a, b, c
  <2> QED
    BY <1>6, <2>1 DEF StartPresent, CloseSimulationMarker
<1> HIDE DEF d
<1> QED
  BY <1>6, <1>7, <1>8 DEF SameFlags

\* A frame that is presented untagged has asked for a reset.
LEMMA EndPresentLemma ==
    ASSUME NEW s, Carried(s, PresentStart)
    PROVE  LET t == EndPresent(s)
           IN  /\ \A n : Carried(t, n)
               /\ t.tags = "none"
               /\ ~t.open
<1> DEFINE a == SetMarker(s, PresentEnd)
           b == [a EXCEPT !.owed = @ /\ ~(s.tags = "active" /\ s.carries)]
<1>1. PresentEnd \in Markers /\ PresentStart \in Nat /\ PresentStart < PresentEnd
  BY DEF PresentStart, PresentEnd, Markers
<1>2. s.prepared => Below(s, PresentStart)
  BY DEF Carried, Lawful, Staged, Marked
<1>3. a \in Submissions /\ SameFlags(s, a) /\ Increasing(a)
  BY <1>1, <1>2, SetMarkerLemma DEF Carried, Marked
<1> HIDE DEF a
<1>4. /\ b \in Submissions
      /\ b.reset = s.reset
      /\ b.owed = (s.owed /\ ~(s.tags = "active" /\ s.carries))
      /\ b.marks = a.marks
  BY <1>3 DEF Submissions, SameFlags
<1>5. EndPresent(s) = AbandonFrame(b)
  BY DEF EndPresent, a
<1> HIDE DEF b
<1>6. Increasing(b) /\ (b.owed => b.reset)
  BY <1>3, <1>4 DEF Increasing, Carried, Lawful, Recorded
<1> QED
  BY <1>4, <1>5, <1>6, AbandonLemma

-----------------------------------------------------------------------------
(***************************************************************************)
(* The controller.  P brings the lemmas about it, and its own copy of the  *)
(* operators of FrameGeneration, which are those of FG; what P assumes of  *)
(* the constants, RendererFrame assumes too.                               *)
(***************************************************************************)
P == INSTANCE FrameGeneration_proofs

LEMMA InstanceAssumptions ==
    /\ GuardedFrames \in Nat \ {0}
    /\ ForcedFrames \in Nat \ {0}
    /\ MaxMultiplier \in Nat /\ MaxMultiplier >= 2
    /\ GraceFrames \in Nat
    /\ NoContract \notin Contracts
BY ThresholdsAssumption, MultipliersAssumption, ContractsAssumption

LEMMA SameController ==
    /\ P!NewController = FG!NewController
    /\ \A c : P!ShutdownOf(c) = FG!ShutdownOf(c)
    /\ \A c : P!InitializeOutcomes(c) = FG!InitializeOutcomes(c)
    /\ \A c : P!ReconfigureOutcomes(c) = FG!ReconfigureOutcomes(c)
    /\ \A c : P!NotePresentationHealthy(c) = FG!NotePresentationHealthy(c)
    /\ \A c : P!Refuse(c) = FG!Refuse(c)
<1>1. P!NewController = FG!NewController
  BY DEF P!NewController, FG!NewController, P!NewPolicy, FG!NewPolicy
<1>2. \A c : P!ShutdownOf(c) = FG!ShutdownOf(c)
  BY <1>1 DEF P!ShutdownOf, FG!ShutdownOf
<1>3. \A c : /\ P!Succeed(c) = FG!Succeed(c)
             /\ P!Refuse(c) = FG!Refuse(c)
  BY DEF P!Succeed, FG!Succeed, P!Refuse, FG!Refuse
<1>4. \A c : P!InitializeOutcomes(c) = FG!InitializeOutcomes(c)
  BY <1>2, <1>3 DEF P!InitializeOutcomes, FG!InitializeOutcomes
<1>5. \A c : P!ReconfigureOutcomes(c) = FG!ReconfigureOutcomes(c)
  BY <1>3 DEF P!ReconfigureOutcomes, FG!ReconfigureOutcomes
<1>6. \A c : P!NotePresentationHealthy(c) = FG!NotePresentationHealthy(c)
  BY DEF P!NotePresentationHealthy, FG!NotePresentationHealthy,
         P!NoteHealthyFrame, FG!NoteHealthyFrame, P!CountHealthy,
         FG!CountHealthy
<1> QED
  BY <1>1, <1>2, <1>3, <1>4, <1>5, <1>6

LEMMA SamePolicies ==
    /\ \A p : P!Suspended(p) = FG!Suspended(p)
    /\ \A p : P!GateActive(p) = FG!GateActive(p)
    /\ \A p : P!GuardedRecoveryEligible(p) = FG!GuardedRecoveryEligible(p)
    /\ \A p : P!MarkActive(p) = FG!MarkActive(p)
    /\ \A p : P!EnterDeterministicGate(p) = FG!EnterDeterministicGate(p)
    /\ \A p : P!EnterUnhealthyFrame(p) = FG!EnterUnhealthyFrame(p)
    /\ \A p, m : P!RememberMultiplier(p, m) = FG!RememberMultiplier(p, m)
    /\ \A c, m : P!RememberIfSupported(c, m) = FG!RememberIfSupported(c, m)
BY DEF P!Suspended, FG!Suspended, P!GateActive, FG!GateActive,
       P!GuardedRecoveryEligible, FG!GuardedRecoveryEligible,
       P!GuardedFailureActive, FG!GuardedFailureActive, P!MarkActive,
       FG!MarkActive, P!EnterDeterministicGate, FG!EnterDeterministicGate,
       P!EnterUnhealthyFrame, FG!EnterUnhealthyFrame, P!RememberMultiplier,
       FG!RememberMultiplier, P!RememberIfSupported, FG!RememberIfSupported

LEMMA SameSuspend ==
    /\ \A c, retain, cause : P!SuspendOutcomes(c, retain, cause)
                             = FG!SuspendOutcomes(c, retain, cause)
    /\ \A c : P!SuspendForResetOutcomes(c) = FG!SuspendForResetOutcomes(c)
    /\ \A c : P!SuspendForUnhealthyOutcomes(c)
              = FG!SuspendForUnhealthyOutcomes(c)
    /\ \A c, m : P!SuspendForGateOutcomes(c, m)
                 = FG!SuspendForGateOutcomes(c, m)
<1>1. \A c, retain, cause : P!SuspendOutcomes(c, retain, cause)
                            = FG!SuspendOutcomes(c, retain, cause)
  BY DEF P!SuspendOutcomes, FG!SuspendOutcomes, P!EnterSuspension,
         FG!EnterSuspension, P!HeldByGrace, FG!HeldByGrace,
         P!EnterDeterministicGate, FG!EnterDeterministicGate,
         P!EnterUnhealthyFrame, FG!EnterUnhealthyFrame, P!Suspended,
         FG!Suspended, P!SuspendAgain, FG!SuspendAgain, P!SuspendActive,
         FG!SuspendActive, P!MarkActive, FG!MarkActive, P!Succeed, FG!Succeed,
         P!Refuse, FG!Refuse
<1>2. \A c : P!SuspendForResetOutcomes(c) = FG!SuspendForResetOutcomes(c)
  BY <1>1 DEF P!SuspendForResetOutcomes, FG!SuspendForResetOutcomes
<1>3. \A c : P!SuspendForUnhealthyOutcomes(c) = FG!SuspendForUnhealthyOutcomes(c)
  BY <1>1 DEF P!SuspendForUnhealthyOutcomes, FG!SuspendForUnhealthyOutcomes
<1>4. \A c, m : P!SuspendForGateOutcomes(c, m) = FG!SuspendForGateOutcomes(c, m)
  BY <1>1, SamePolicies DEF P!SuspendForGateOutcomes, FG!SuspendForGateOutcomes
<1> QED
  BY <1>1, <1>2, <1>3, <1>4

LEMMA SameResume ==
    /\ \A c, m, k : P!EnableOutcomes(c, m, k) = FG!EnableOutcomes(c, m, k)
    /\ \A c, m, k : P!ResumeFromGateOutcomes(c, m, k)
                    = FG!ResumeFromGateOutcomes(c, m, k)
    /\ \A c, m, k : P!ResumeIfEligibleOutcomes(c, m, k)
                    = FG!ResumeIfEligibleOutcomes(c, m, k)
<1>1. \A c, m, k : P!EnableOutcomes(c, m, k) = FG!EnableOutcomes(c, m, k)
  BY DEF P!EnableOutcomes, FG!EnableOutcomes, P!RememberMultiplier,
         FG!RememberMultiplier, P!Suspended, FG!Suspended,
         P!ConfigureGeneration, FG!ConfigureGeneration, P!RollBackEnable,
         FG!RollBackEnable, P!Succeed, FG!Succeed, P!Refuse, FG!Refuse
<1>2. \A c : P!GuardAgain(c) = FG!GuardAgain(c) /\ P!Activate(c) = FG!Activate(c)
  BY SamePolicies DEF P!GuardAgain, FG!GuardAgain, P!Activate, FG!Activate
<1>3. \A c, m, k : P!EnableOrGuard(c, m, k) = FG!EnableOrGuard(c, m, k)
  BY <1>1, <1>2, SameController DEF P!EnableOrGuard, FG!EnableOrGuard
<1>4. \A c, m, k : P!ResumeFromGateOutcomes(c, m, k)
                   = FG!ResumeFromGateOutcomes(c, m, k)
  BY <1>2, <1>3, SameController, SamePolicies
  DEF P!ResumeFromGateOutcomes, FG!ResumeFromGateOutcomes
<1>5. \A c, m, k : P!ResumeIfEligibleOutcomes(c, m, k)
                   = FG!ResumeIfEligibleOutcomes(c, m, k)
  BY <1>2, <1>3, SameController, SamePolicies
  DEF P!ResumeIfEligibleOutcomes, FG!ResumeIfEligibleOutcomes,
      P!EffectiveDesiredMultiplier, FG!EffectiveDesiredMultiplier
<1> QED
  BY <1>1, <1>4, <1>5

\* What every handler leaves of the controller.
Kept(c) == P!Sound(c) /\ P!Settled(c)

LEMMA KeptReset ==
    ASSUME NEW c, Kept(c), NEW o \in FG!SuspendForResetOutcomes(c)
    PROVE  /\ Kept(o.fg)
           /\ o.fg.ready = c.ready
           /\ o.fg.on => c.on
           /\ o.fg.held => c.held
           /\ o.ok => ~o.fg.on /\ ~o.fg.held
<1>1. o \in P!SuspendForResetOutcomes(c)
  BY SameSuspend
<1>2. o \in P!SuspendOutcomes(c, FALSE, "unhealthy_frame")
  BY <1>1 DEF P!SuspendForResetOutcomes
<1> QED
  BY <1>1, <1>2, InstanceAssumptions, P!SuspendLemma, P!SuspendSettles,
     P!ResetReleases
  DEF Kept

\* Also after an enable() that failed.
LEMMA KeptUnhealthy ==
    ASSUME NEW c, P!Sound(c), Kept(c) \/ (c.ready /\ P!Fallen(c)),
           NEW o \in FG!SuspendForUnhealthyOutcomes(c)
    PROVE  Kept(o.fg) /\ o.fg.ready = c.ready
<1>1. o \in P!SuspendOutcomes(c, TRUE, "unhealthy_frame")
  BY SameSuspend DEF P!SuspendForUnhealthyOutcomes
<1> QED
  BY <1>1, InstanceAssumptions, P!SuspendLemma, P!SuspendSettles DEF Kept

LEMMA KeptGate ==
    ASSUME NEW c, Kept(c), NEW m \in Nat,
           NEW o \in FG!SuspendForGateOutcomes(c, m)
    PROVE  Kept(o.fg) /\ o.fg.ready = c.ready
<1> DEFINE r == P!RememberIfSupported(c, m)
<1>1. o \in P!SuspendOutcomes(r, TRUE, "deterministic_gate")
  BY SameSuspend DEF P!SuspendForGateOutcomes
<1>2. P!Sound(r) /\ P!Settled(r) /\ r.ready = c.ready
  BY InstanceAssumptions, P!RememberIfSupportedLemma, P!RememberSettles
  DEF Kept
<1> HIDE DEF r
<1> QED
  BY <1>1, <1>2, InstanceAssumptions, P!SuspendLemma, P!SuspendSettles DEF Kept

LEMMA KeptNew == Kept(FG!NewController)
BY InstanceAssumptions, SameController, P!NewControllerLemma, P!ShutdownSettles
DEF Kept

LEMMA KeptShutdown ==
    ASSUME NEW c, Kept(c)
    PROVE  Kept(FG!ShutdownOf(c)) /\ ~FG!ShutdownOf(c).ready
<1>1. c \in P!Controllers
  BY DEF Kept, P!Sound
<1>2. P!Sound(P!ShutdownOf(c)) /\ ~P!ShutdownOf(c).ready
  BY <1>1, InstanceAssumptions, P!ShutdownLemma
<1>3. P!ShutdownOf(c) = FG!ShutdownOf(c)
  BY SameController
<1>4. P!Settled(P!ShutdownOf(c))
  BY DEF P!Settled, P!ShutdownOf, P!NewController
<1> QED
  BY <1>2, <1>3, <1>4 DEF Kept

LEMMA KeptInitialize ==
    ASSUME NEW c, Kept(c), NEW o \in FG!InitializeOutcomes(c)
    PROVE  Kept(o.fg) /\ (o.ok => o.fg.ready)
<1>1. o \in P!InitializeOutcomes(c)
  BY SameController
<1> QED
  BY <1>1, InstanceAssumptions, P!InitializeLemma, P!InitializeSettles DEF Kept

LEMMA KeptReconfigure ==
    ASSUME NEW c, Kept(c), NEW o \in FG!ReconfigureOutcomes(c)
    PROVE  Kept(o.fg) /\ o.fg.ready = c.ready
<1>1. o \in P!ReconfigureOutcomes(c)
  BY SameController
<1> QED
  BY <1>1, InstanceAssumptions, P!ReconfigureLemma, P!ReconfigureSettles
  DEF Kept

LEMMA KeptHealthy ==
    ASSUME NEW c, Kept(c)
    PROVE  LET d == FG!NotePresentationHealthy(c)
           IN  Kept(d) /\ d.ready = c.ready
BY InstanceAssumptions, SameController, P!NoteHealthyLemma, P!NoteHealthySettles
DEF Kept

\* A complete frame leaves a controller that is kept, or, when enable()
\* fails, one that the suspension after it will keep.
LEMMA KeptConfigure ==
    ASSUME Kept(fg), NEW m \in Nat, m >= 2, NEW k \in Contracts,
           NEW o \in ConfigureOutcomes(m, k)
    PROVE  /\ P!Sound(o.fg)
           /\ o.fg.ready = fg.ready
           /\ P!Fallen(o.fg)
           /\ o.ok => Kept(o.fg)
<1>1. ASSUME NEW c, P!Settled(c) PROVE P!Fallen(c)
  BY <1>1 DEF P!Settled, P!Fallen
<1>2. CASE FG!GateActive(fg.policy)
  <2>1. o \in P!ResumeFromGateOutcomes(fg, m, k)
    BY <1>2, SameResume DEF ConfigureOutcomes
  <2> QED
    BY <1>1, <2>1, InstanceAssumptions, P!ResumeFromGateLemma,
       P!ResumeFromGateSettles
    DEF Kept
<1>3. CASE ~FG!GateActive(fg.policy)
  <2> DEFINE d == FG!NotePresentationHealthy(fg)
             enabled(r) == {[e EXCEPT !.reset = @ \/ r.reset]
                               : e \in FG!EnableOutcomes(r.fg, m, k)}
  <2>1. Kept(d) /\ d.ready = fg.ready
    BY KeptHealthy
  <2>2. o \in UNION {enabled(r) : r \in FG!ResumeIfEligibleOutcomes(d, m, k)}
    BY <1>3 DEF ConfigureOutcomes
  <2> HIDE DEF d, enabled
  <2>3. PICK r \in FG!ResumeIfEligibleOutcomes(d, m, k) : o \in enabled(r)
    BY <2>2
  <2>4. r \in P!ResumeIfEligibleOutcomes(d, m, k)
    BY SameResume
  <2>5. Kept(r.fg) /\ r.fg.ready = d.ready
    BY <2>1, <2>4, InstanceAssumptions, P!ResumeIfEligibleLemma,
       P!ResumeIfEligibleSettles
    DEF Kept
  <2>6. PICK e \in FG!EnableOutcomes(r.fg, m, k) :
            o = [e EXCEPT !.reset = @ \/ r.reset]
    BY <2>3 DEF enabled
  <2>7. e \in P!EnableOutcomes(r.fg, m, k)
    BY SameResume
  <2>8. e = [fg |-> e.fg, ok |-> e.ok, reset |-> e.reset]
    <3> DEFINE x == [r.fg EXCEPT !.policy = P!RememberMultiplier(@, m)]
    <3>1. \/ e = P!Refuse(r.fg) \/ e = P!Succeed(x) \/ e = P!Refuse(x)
          \/ e = P!ConfigureGeneration(x, m, k)
          \/ e \in P!RollBackEnable(x)
      BY <2>7 DEF P!EnableOutcomes
    <3> HIDE DEF x
    <3>2. CASE e = P!Refuse(r.fg) \/ e = P!Succeed(x) \/ e = P!Refuse(x)
      BY <3>2 DEF P!Refuse, P!Succeed
    <3>3. CASE e = P!ConfigureGeneration(x, m, k)
      BY <3>3 DEF P!ConfigureGeneration
    <3>4. CASE e \in P!RollBackEnable(x)
      <4>1. PICK y : e = P!Refuse(y)
        BY <3>4 DEF P!RollBackEnable
      <4> QED
        BY <4>1 DEF P!Refuse
    <3> QED
      BY <3>1, <3>2, <3>3, <3>4
  <2>9. o.fg = e.fg /\ o.ok = e.ok
    BY <2>6, <2>8
  <2>10. /\ P!Sound(e.fg)
         /\ e.fg.ready = r.fg.ready
         /\ P!Fallen(e.fg)
         /\ e.ok => P!Settled(e.fg)
    BY <1>1, <2>5, <2>7, InstanceAssumptions, P!EnableLemma, P!EnableSettles
    DEF Kept
  <2> QED
    BY <2>1, <2>5, <2>9, <2>10 DEF Kept
<1> QED
  BY <1>2, <1>3

-----------------------------------------------------------------------------
(***************************************************************************)
(* The inductive invariant.  Between handlers an open frame has got as far *)
(* as the end of its simulation, and only inside present(), once the       *)
(* command list is executed, to the start of Present.                      *)
(***************************************************************************)
Reach == IF phase = "submitted" THEN PresentStart ELSE SimulationEnd

Ranges ==
    /\ shared \in BOOLEAN
    /\ captured \in BOOLEAN
    /\ settings \in Settings
    /\ halted \in BOOLEAN
    /\ adapter \in Adapters
    /\ phase \in Phases
    /\ verdict \in Verdicts

\* What a frame with active tags relies on, from end_frame to Present.  A
\* runtime that was never initialized has tagged nothing.
Alive ==
    /\ captured => shared
    /\ ~fg.ready => sub.tags = "none"
    /\ phase \in {"ended", "submitted"} /\ sub.tags = "active" =>
           captured /\ ~halted /\ settings.generate

FrameInv ==
    /\ Kept(fg)
    /\ Carried(sub, Reach)
    /\ Ranges
    /\ SwapChainReleased
    /\ Alive

LEMMA FrameInit == Init => FrameInv
<1> SUFFICES ASSUME Init PROVE FrameInv
  OBVIOUS
<1>1. Kept(fg)
  BY KeptNew DEF Init
<1>2. Carried(sub, Reach)
  BY NewSubmissionLemma DEF Init
<1>3. Ranges
  BY DEF Init, Ranges, Phases, Verdicts
<1>4. SwapChainReleased
  BY DEF Init, SwapChainReleased
<1>5. Alive
  BY DEF Init, Alive, NewSubmission
<1> QED
  BY <1>1, <1>2, <1>3, <1>4, <1>5 DEF FrameInv

\* The steps that begin and end between handlers, outside the mutations.
LEMMA Between ==
    ASSUME Kept(fg'), Carried(sub', SimulationEnd), Ranges', Alive',
           phase' \notin {"submitted", "resizing", "switching"}
    PROVE  FrameInv'
<1>1. Reach' = SimulationEnd
  BY DEF Reach
<1>2. Carried(sub, Reach)'
  BY <1>1
<1>3. SwapChainReleased'
  BY DEF SwapChainReleased
<1> QED
  BY <1>2, <1>3 DEF FrameInv

LEMMA ReachLemma ==
    ASSUME FrameInv, phase # "submitted"
    PROVE  Carried(sub, SimulationEnd)
BY DEF FrameInv, Reach

LEMMA BeginRuntimeLemma ==
    ASSUME NEW s, Carried(s, SimulationEnd), captured \in BOOLEAN,
           BeginRuntimeFrame(s)
    PROVE  /\ Carried(sub', SimulationEnd)
           /\ sub'.tags = s.tags
           /\ captured' \in BOOLEAN
           /\ captured' => captured
<1>1. PICK o \in BeginSubmissionOutcomes(s) :
          /\ sub' = o.sub
          /\ IF fg.ready THEN captured' = (captured /\ ~o.ok)
             ELSE captured' \in {captured, FALSE}
  BY DEF BeginRuntimeFrame
<1>2. Carried(o.sub, SimulationEnd) /\ o.sub.tags = s.tags
  BY BeginLemma
<1>3. captured' \in BOOLEAN /\ (captured' => captured)
  <2>1. CASE fg.ready
    BY <1>1, <2>1
  <2>2. CASE ~fg.ready
    BY <1>1, <2>2
  <2> QED
    BY <2>1, <2>2
<1> QED
  BY <1>1, <1>2, <1>3

LEMMA ResetRuntimeLemma ==
    ASSUME NEW c, Kept(c), NEW n, Carried(sub, n), ResetRuntime(c)
    PROVE  /\ Kept(fg')
           /\ fg'.ready = c.ready
           /\ fg'.on => c.on
           /\ fg'.held => c.held
           /\ Carried(sub', SimulationEnd)
           /\ sub'.tags = "none"
           /\ shared' = FALSE /\ captured' = FALSE
<1>1. PICK o \in FG!SuspendForResetOutcomes(c) : fg' = o.fg
  BY DEF ResetRuntime
<1>2. /\ Kept(o.fg)
      /\ o.fg.ready = c.ready
      /\ o.fg.on => c.on
      /\ o.fg.held => c.held
  BY KeptReset
<1> DEFINE r == RequestHistoryReset(sub)
<1>3. r \in Submissions /\ Increasing(r) /\ r.reset
  <2>1. Carried(r, n)
    BY RequestKeeps
  <2>2. r.reset
    BY RequestLemma DEF Carried
  <2> HIDE DEF r
  <2> QED
    BY <2>1, <2>2 DEF Carried, Marked
<1> HIDE DEF r
<1>4. Carried(AbandonFrame(r), SimulationEnd) /\ AbandonFrame(r).tags = "none"
  BY <1>3, AbandonLemma
<1> QED
  BY <1>1, <1>2, <1>4 DEF ResetRuntime, r

-----------------------------------------------------------------------------
(***************************************************************************)
(* The handlers between two presents.                                      *)
(***************************************************************************)
LEMMA InitializeStep == FrameInv /\ Initialize => FrameInv'
<1> SUFFICES ASSUME FrameInv, Initialize PROVE FrameInv'
  OBVIOUS
<1>1. phase' = phase /\ phase \in {"game", "exited"} /\ ~fg.ready
  BY DEF Initialize, CallbackPossible
<1>2. Kept(fg) /\ Carried(sub, SimulationEnd) /\ sub.tags = "none"
  BY <1>1, ReachLemma DEF FrameInv, Alive
<1>3. PICK o \in FG!InitializeOutcomes(fg), timing \in BOOLEAN :
        /\ fg' = o.fg
        /\ sub' = IF o.ok THEN InitializeTiming(sub, FALSE)
                  ELSE IF timing
                       THEN InitializeTiming(ShutdownSubmission(sub), FALSE)
                       ELSE ShutdownSubmission(sub)
  BY DEF Initialize
<1>4. Kept(fg')
  BY <1>2, <1>3, KeptInitialize
<1> DEFINE d == ShutdownSubmission(sub)
<1>5. Carried(d, SimulationEnd) /\ d.tags = "none"
  BY <1>2, ShutdownSubmissionLemma DEF Carried, Marked
<1>6. /\ Carried(InitializeTiming(sub, FALSE), SimulationEnd)
      /\ InitializeTiming(sub, FALSE).tags = "none"
  BY <1>2, InitializeTimingLemma
<1> HIDE DEF d
<1>7. /\ Carried(InitializeTiming(d, FALSE), SimulationEnd)
      /\ InitializeTiming(d, FALSE).tags = "none"
  BY <1>5, InitializeTimingLemma
<1>8. Carried(sub', SimulationEnd) /\ sub'.tags = "none"
  BY <1>3, <1>5, <1>6, <1>7, Zenon DEF d
<1>9. Ranges'
  BY DEF FrameInv, Ranges, Initialize
<1>10. Alive'
  BY <1>1, <1>8 DEF FrameInv, Alive, Initialize
<1> QED
  BY <1>1, <1>4, <1>8, <1>9, <1>10, Between

LEMMA ExitStep == FrameInv /\ Exit => FrameInv'
<1> SUFFICES ASSUME FrameInv, Exit PROVE FrameInv'
  OBVIOUS
<1>1. phase \in {"game", "exited"} /\ phase' = "exited"
  BY DEF Exit, CallbackPossible
<1>2. Kept(fg) /\ Carried(sub, SimulationEnd)
  BY <1>1, ReachLemma DEF FrameInv
<1>3. Kept(fg')
  BY <1>2, KeptShutdown DEF Exit
<1>4. Carried(sub', SimulationEnd) /\ sub'.tags = "none"
  BY <1>2, ShutdownSubmissionLemma DEF Exit, Carried, Marked
<1>5. Ranges'
  BY <1>1 DEF FrameInv, Ranges, Exit, Phases
<1>6. Alive'
  BY <1>1, <1>4 DEF Alive, Exit
<1> QED
  BY <1>1, <1>3, <1>4, <1>5, <1>6, Between

LEMMA BeginFrameStep == FrameInv /\ BeginFrame => FrameInv'
<1> SUFFICES ASSUME FrameInv, BeginFrame PROVE FrameInv'
  OBVIOUS
<1>1. phase \in {"game", "exited"} /\ phase' = phase
  BY DEF BeginFrame, CallbackPossible
<1>2. Kept(fg) /\ fg' = fg /\ Carried(sub, SimulationEnd)
  BY <1>1, ReachLemma DEF FrameInv, BeginFrame
<1>3. /\ Carried(sub', SimulationEnd)
      /\ sub'.tags = sub.tags
      /\ captured' \in BOOLEAN
      /\ captured' => captured
  BY <1>2, BeginRuntimeLemma DEF BeginFrame, FrameInv, Ranges
<1>4. Ranges'
  BY <1>3 DEF FrameInv, Ranges, BeginFrame
<1>5. Alive'
  BY <1>1, <1>3 DEF FrameInv, Alive, BeginFrame
<1> QED
  BY <1>1, <1>2, <1>3, <1>4, <1>5, Between

\* The game's own steps: a capture, a change of the settings, a menu, a save.
GameStep == CaptureHudless \/ ChangeSettings \/ ToggleHalt \/ ResetAllHistory

LEMMA GameStepLemma == FrameInv /\ GameStep => FrameInv'
<1> SUFFICES ASSUME FrameInv, GameStep PROVE FrameInv'
  OBVIOUS
<1>1. phase = "game" /\ phase' = phase /\ fg' = fg
  BY DEF GameStep, CaptureHudless, ChangeSettings, ToggleHalt, ResetAllHistory
<1>2. Kept(fg) /\ Carried(sub, SimulationEnd)
  BY <1>1, ReachLemma DEF FrameInv
<1>3. /\ Carried(RequestHistoryReset(sub), SimulationEnd)
      /\ RequestHistoryReset(sub).tags = sub.tags
  BY <1>2, RequestKeeps
<1>4. Carried(sub', SimulationEnd) /\ sub'.tags = sub.tags
  BY <1>2, <1>3
  DEF GameStep, CaptureHudless, ChangeSettings, ToggleHalt, ResetAllHistory
<1>5. CaptureHudless => shared' \in BOOLEAN /\ captured' = shared'
  <2> SUFFICES ASSUME CaptureHudless
               PROVE  shared' \in BOOLEAN /\ captured' = shared'
    OBVIOUS
  <2>1. PICK o \in {<<TRUE, TRUE>>, <<FALSE, FALSE>>} :
          shared' = o[1] /\ captured' = o[2]
    BY DEF CaptureHudless
  <2>2. CASE o = <<TRUE, TRUE>>
    BY <2>1, <2>2
  <2>3. CASE o = <<FALSE, FALSE>>
    BY <2>1, <2>3
  <2> QED
    BY <2>2, <2>3
<1>6. Ranges'
  <2>1. CASE CaptureHudless
    BY <1>5, <2>1 DEF FrameInv, Ranges, CaptureHudless
  <2>2. CASE ChangeSettings
    BY <2>2 DEF FrameInv, Ranges, ChangeSettings
  <2>3. CASE ToggleHalt \/ ResetAllHistory
    BY <2>3 DEF FrameInv, Ranges, ToggleHalt, ResetAllHistory
  <2> QED
    BY <2>1, <2>2, <2>3 DEF GameStep
<1>7. captured' => shared'
  <2>1. CASE CaptureHudless
    BY <1>5, <2>1
  <2>2. CASE ChangeSettings \/ ToggleHalt \/ ResetAllHistory
    BY <2>2 DEF FrameInv, Alive, ChangeSettings, ToggleHalt, ResetAllHistory
  <2> QED
    BY <2>1, <2>2 DEF GameStep
<1>8. Alive'
  BY <1>1, <1>4, <1>7 DEF FrameInv, Alive
<1> QED
  BY <1>1, <1>2, <1>4, <1>6, <1>8, Between

LEMMA PreResetStep == FrameInv /\ PreReset => FrameInv'
<1> SUFFICES ASSUME FrameInv, PreReset PROVE FrameInv'
  OBVIOUS
<1>1. phase \in {"game", "exited"} /\ phase' = phase
  BY DEF PreReset, CallbackPossible
<1>2. /\ Kept(fg')
      /\ Carried(sub', SimulationEnd)
      /\ sub'.tags = "none"
      /\ shared' = FALSE /\ captured' = FALSE
  BY ResetRuntimeLemma DEF FrameInv, PreReset
<1>3. Ranges' /\ Alive'
  BY <1>1, <1>2 DEF FrameInv, Ranges, Alive, PreReset
<1> QED
  BY <1>1, <1>2, <1>3, Between

-----------------------------------------------------------------------------
(***************************************************************************)
(* The mutations of the swap chain.                                        *)
(***************************************************************************)
LEMMA ResizeBuffersStep == FrameInv /\ ResizeBuffers => FrameInv'
<1> SUFFICES ASSUME FrameInv, ResizeBuffers PROVE FrameInv'
  OBVIOUS
<1>1. phase = "game" /\ Kept(fg) /\ Carried(sub, SimulationEnd)
  BY ReachLemma DEF ResizeBuffers, FrameInv
<1>2. PICK o \in FG!SuspendForResetOutcomes(fg) :
        \/ /\ fg' = o.fg
           /\ UNCHANGED <<sub, shared, captured, phase>>
        \/ /\ o.ok
           /\ ResetRuntime(o.fg)
           /\ phase' = "resizing"
  BY DEF ResizeBuffers
<1>3. Kept(o.fg) /\ o.fg.ready = fg.ready /\ (o.ok => ~o.fg.on /\ ~o.fg.held)
  BY <1>1, KeptReset
<1>4. CASE fg' = o.fg /\ UNCHANGED <<sub, shared, captured, phase>>
  <2>1. Ranges'
    BY <1>4 DEF FrameInv, Ranges, ResizeBuffers
  <2>2. Alive'
    BY <1>3, <1>4 DEF FrameInv, Alive, ResizeBuffers
  <2> QED
    BY <1>1, <1>3, <1>4, <2>1, <2>2, Between
<1>5. CASE o.ok /\ ResetRuntime(o.fg) /\ phase' = "resizing"
  <2>1. /\ Kept(fg')
        /\ fg'.on => o.fg.on
        /\ fg'.held => o.fg.held
        /\ Carried(sub', SimulationEnd)
        /\ sub'.tags = "none"
        /\ shared' = FALSE /\ captured' = FALSE
    BY <1>1, <1>3, <1>5, ResetRuntimeLemma
  <2>2. Carried(sub, Reach)'
    BY <1>5, <2>1 DEF Reach
  <2>3. Ranges'
    BY <1>5, <2>1 DEF FrameInv, Ranges, ResizeBuffers, Phases
  <2>4. SwapChainReleased'
    BY <1>3, <1>5, <2>1 DEF SwapChainReleased
  <2>5. Alive'
    BY <1>5, <2>1 DEF Alive
  <2> QED
    BY <2>1, <2>2, <2>3, <2>4, <2>5 DEF FrameInv
<1> QED
  BY <1>2, <1>4, <1>5

LEMMA FinishResizeStep == FrameInv /\ FinishResize => FrameInv'
<1> SUFFICES ASSUME FrameInv, FinishResize PROVE FrameInv'
  OBVIOUS
<1>1. /\ phase = "resizing" /\ phase' = "game"
      /\ Kept(fg)
      /\ Carried(sub, SimulationEnd)
  BY ReachLemma DEF FinishResize, FrameInv
<1>2. PICK resized \in BOOLEAN, configured \in BOOLEAN :
        \E o \in {FG!Refuse(fg)} \cup FG!ReconfigureOutcomes(fg) :
            LET timed == IF o.ok THEN InitializeTiming(sub, resized) ELSE sub
            IN  /\ fg' = o.fg
                /\ IF adapter.vanilla /\ configured /\ (o.ok \/ ~fg.ready)
                   THEN BeginRuntimeFrame(timed)
                   ELSE sub' = timed /\ UNCHANGED captured
  BY DEF FinishResize
<1>3. PICK o \in {FG!Refuse(fg)} \cup FG!ReconfigureOutcomes(fg) :
            LET timed == IF o.ok THEN InitializeTiming(sub, resized) ELSE sub
            IN  /\ fg' = o.fg
                /\ IF adapter.vanilla /\ configured /\ (o.ok \/ ~fg.ready)
                   THEN BeginRuntimeFrame(timed)
                   ELSE sub' = timed /\ UNCHANGED captured
  BY <1>2
<1>4. Kept(o.fg) /\ o.fg.ready = fg.ready
  <2>1. CASE o = FG!Refuse(fg)
    BY <1>1, <2>1 DEF FG!Refuse
  <2>2. CASE o \in FG!ReconfigureOutcomes(fg)
    BY <1>1, <2>2, KeptReconfigure
  <2> QED
    BY <2>1, <2>2
<1> DEFINE timed == IF o.ok THEN InitializeTiming(sub, resized) ELSE sub
<1>5. Carried(timed, SimulationEnd) /\ timed.tags = sub.tags
  <2>1. /\ Carried(InitializeTiming(sub, resized), SimulationEnd)
        /\ InitializeTiming(sub, resized).tags = sub.tags
    BY <1>1, InitializeTimingLemma
  <2> QED
    BY <1>1, <2>1
<1>6. BeginRuntimeFrame(timed) \/ (sub' = timed /\ captured' = captured)
  BY <1>3
<1> HIDE DEF timed
<1>7. /\ Carried(sub', SimulationEnd)
      /\ sub'.tags = sub.tags
      /\ captured' \in BOOLEAN
      /\ captured' => captured
  <2>1. captured \in BOOLEAN
    BY DEF FrameInv, Ranges
  <2>2. CASE BeginRuntimeFrame(timed)
    BY <1>5, <2>1, <2>2, BeginRuntimeLemma
  <2>3. CASE sub' = timed /\ captured' = captured
    BY <1>5, <2>1, <2>3
  <2> QED
    BY <1>6, <2>2, <2>3
<1>8. Ranges'
  BY <1>1, <1>7 DEF FrameInv, Ranges, FinishResize, Phases
<1>9. Alive'
  BY <1>1, <1>3, <1>4, <1>7 DEF FrameInv, Alive, FinishResize
<1> QED
  BY <1>1, <1>3, <1>4, <1>7, <1>8, <1>9, Between

LEMMA SwitchTargetStep == FrameInv /\ SwitchTarget => FrameInv'
<1> SUFFICES ASSUME FrameInv, SwitchTarget PROVE FrameInv'
  OBVIOUS
<1>1. phase = "game" /\ Kept(fg) /\ Carried(sub, SimulationEnd)
  BY ReachLemma DEF SwitchTarget, FrameInv
<1>2. PICK o \in FG!SuspendForResetOutcomes(fg) :
        /\ fg' = o.fg
        /\ \/ UNCHANGED phase
           \/ o.ok /\ phase' = "switching"
  BY DEF SwitchTarget
<1>3. Kept(o.fg) /\ o.fg.ready = fg.ready /\ (o.ok => ~o.fg.on /\ ~o.fg.held)
  BY <1>1, KeptReset
<1>4. Carried(sub, Reach)'
  BY <1>1, <1>2 DEF SwitchTarget, Reach
<1>5. Ranges'
  BY <1>2 DEF FrameInv, Ranges, SwitchTarget, Phases
<1>6. SwapChainReleased'
  BY <1>1, <1>2, <1>3 DEF SwapChainReleased
<1>7. Alive'
  BY <1>1, <1>2, <1>3 DEF FrameInv, Alive, SwitchTarget
<1> QED
  BY <1>2, <1>3, <1>4, <1>5, <1>6, <1>7 DEF FrameInv

LEMMA FinishSwitchStep == FrameInv /\ FinishSwitch => FrameInv'
<1> SUFFICES ASSUME FrameInv, FinishSwitch PROVE FrameInv'
  OBVIOUS
<1>1. phase = "switching" /\ phase' = "game" /\ fg' = fg /\ sub' = sub
  BY DEF FinishSwitch
<1>2. Kept(fg) /\ Carried(sub, SimulationEnd)
  BY <1>1, ReachLemma DEF FrameInv
<1>3. Ranges' /\ Alive'
  BY <1>1 DEF FrameInv, Ranges, Alive, FinishSwitch, Phases
<1> QED
  BY <1>1, <1>2, <1>3, Between

-----------------------------------------------------------------------------
(***************************************************************************)
(* present(): the judgement, end_frame and Present.                        *)
(***************************************************************************)
LEMMA JudgeStep == FrameInv /\ (JudgeHealthy \/ JudgeUnhealthy) => FrameInv'
<1> SUFFICES ASSUME FrameInv, JudgeHealthy \/ JudgeUnhealthy PROVE FrameInv'
  OBVIOUS
<1>1. /\ phase = "game" /\ phase' = "judged"
      /\ Kept(fg)
      /\ Carried(sub', SimulationEnd)
      /\ UNCHANGED <<sub, shared, captured, settings, halted, adapter>>
  BY ReachLemma DEF FrameInv, JudgeHealthy, JudgeUnhealthy
<1>2. Kept(fg') /\ fg'.ready = fg.ready
  <2>1. CASE JudgeHealthy
    BY <1>1, <2>1, KeptHealthy DEF JudgeHealthy
  <2>2. CASE JudgeUnhealthy
    <3>1. PICK o \in FG!SuspendForUnhealthyOutcomes(fg) : fg' = o.fg
      BY <2>2 DEF JudgeUnhealthy
    <3> QED
      BY <1>1, <3>1, KeptUnhealthy DEF Kept
  <2> QED
    BY <2>1, <2>2
<1>3. verdict' \in Verdicts
  BY DEF JudgeHealthy, JudgeUnhealthy, Verdicts
<1>4. Ranges'
  BY <1>1, <1>3 DEF FrameInv, Ranges, Phases
<1>5. Alive'
  BY <1>1, <1>2 DEF FrameInv, Alive
<1> QED
  BY <1>1, <1>2, <1>4, <1>5, Between

LEMMA ReloadLemma ==
    ASSUME FrameInv, phase # "submitted", NEW r \in Reloads
    PROVE  /\ r.settings \in Settings
           /\ Carried(r.sub, SimulationEnd)
           /\ r.sub.tags = sub.tags
<1>1. Carried(sub, SimulationEnd) /\ settings \in Settings
  BY ReachLemma DEF FrameInv, Ranges
<1>2. r.settings \in Settings /\ r.sub \in {sub, RequestHistoryReset(sub)}
  <2>1. CASE r \in {[settings |-> settings, sub |-> sub]}
    BY <1>1, <2>1
  <2>2. CASE r \in [settings : Settings, sub : {RequestHistoryReset(sub)}]
    BY <2>2
  <2>3. CASE adapter.virtual /\ r \in [settings : Settings, sub : {sub}]
    BY <2>3
  <2> QED
    BY <2>1, <2>2, <2>3 DEF Reloads
<1>3. /\ Carried(RequestHistoryReset(sub), SimulationEnd)
      /\ RequestHistoryReset(sub).tags = sub.tags
  BY <1>1, RequestKeeps
<1> QED
  BY <1>1, <1>2, <1>3

LEMMA SettingsLemma ==
    ASSUME NEW v \in Settings
    PROVE  v.multiplier \in Nat /\ v.multiplier >= 2
BY MultipliersAssumption DEF Settings, FG!Selectable

\* A frame that ends without active tags needs nothing kept alive.
LEMMA Inactive ==
    ASSUME FrameInv, EndFrame, Kept(fg'), fg'.ready = fg.ready,
           Carried(sub', SimulationEnd), sub'.tags # "active",
           ~fg.ready => sub'.tags = "none",
           settings' \in Settings,
           shared' \in BOOLEAN, captured' \in BOOLEAN, captured' => shared',
           UNCHANGED <<halted, adapter, verdict>>
    PROVE  FrameInv'
<1>1. phase' = "ended"
  BY DEF EndFrame
<1>2. Ranges' /\ Alive'
  BY <1>1 DEF FrameInv, Ranges, Alive, Phases
<1> QED
  BY <1>1, <1>2, Between

LEMMA EndFrameWithoutFeaturesStep ==
    FrameInv /\ EndFrameWithoutFeatures => FrameInv'
<1> SUFFICES ASSUME FrameInv, EndFrameWithoutFeatures PROVE FrameInv'
  OBVIOUS
<1>1. PICK r \in Reloads : settings' = r.settings /\ sub' = r.sub
  BY DEF EndFrameWithoutFeatures
<1>2. EndFrame /\ ~fg.ready /\ fg' = fg /\ phase = "judged"
  BY DEF EndFrameWithoutFeatures, EndFrame
<1>3. /\ settings' \in Settings
      /\ Carried(sub', SimulationEnd)
      /\ sub'.tags = "none"
  BY <1>1, <1>2, ReloadLemma DEF FrameInv, Alive
<1> QED
  BY <1>2, <1>3, Inactive DEF FrameInv, Ranges, Alive, EndFrameWithoutFeatures

LEMMA EndFrameOffStep == FrameInv /\ EndFrameOff => FrameInv'
<1> SUFFICES ASSUME FrameInv, EndFrameOff PROVE FrameInv'
  OBVIOUS
<1>1. PICK r \in Reloads :
        /\ settings' = r.settings
        /\ \E i \in SubmitInactiveOutcomes(r.sub) : sub' = i.sub
  BY DEF EndFrameOff
<1>2. PICK i \in SubmitInactiveOutcomes(r.sub) : sub' = i.sub
  BY <1>1
<1>3. EndFrame /\ fg.ready /\ phase = "judged" /\ Kept(fg)
  BY DEF EndFrameOff, EndFrame, FrameInv
<1>4. PICK o \in FG!SuspendForResetOutcomes(fg) : fg' = o.fg
  BY DEF EndFrameOff
<1>5. Kept(fg') /\ fg'.ready = fg.ready
  BY <1>3, <1>4, KeptReset
<1>6. settings' \in Settings /\ Signed(r.sub, SimulationEnd)
  BY <1>1, <1>3, ReloadLemma, CarriedIsSigned
<1>7. Carried(sub', SimulationEnd) /\ sub'.tags # "active"
  BY <1>2, <1>6, InactiveLemma
<1> QED
  BY <1>3, <1>5, <1>6, <1>7, Inactive DEF FrameInv, Ranges, Alive, EndFrameOff

LEMMA EndFrameHaltedStep == FrameInv /\ EndFrameHalted => FrameInv'
<1> SUFFICES ASSUME FrameInv, EndFrameHalted PROVE FrameInv'
  OBVIOUS
<1>1. PICK r \in Reloads :
        /\ settings' = r.settings
        /\ \E i \in SubmitInactiveOutcomes(r.sub) : sub' = i.sub
        /\ \E o \in FG!SuspendForGateOutcomes(fg, r.settings.multiplier) :
            fg' = o.fg
  BY DEF EndFrameHalted
<1>2. PICK i \in SubmitInactiveOutcomes(r.sub) : sub' = i.sub
  BY <1>1
<1>3. PICK o \in FG!SuspendForGateOutcomes(fg, r.settings.multiplier) :
        fg' = o.fg
  BY <1>1
<1>4. EndFrame /\ fg.ready /\ phase = "judged" /\ Kept(fg)
  BY DEF EndFrameHalted, EndFrame, FrameInv
<1>5. settings' \in Settings /\ Signed(r.sub, SimulationEnd)
  BY <1>1, <1>4, ReloadLemma, CarriedIsSigned
<1>6. Kept(fg') /\ fg'.ready = fg.ready
  BY <1>1, <1>3, <1>4, <1>5, SettingsLemma, KeptGate
<1>7. Carried(sub', SimulationEnd) /\ sub'.tags # "active"
  BY <1>2, <1>5, InactiveLemma
<1> QED
  BY <1>4, <1>5, <1>6, <1>7, Inactive
  DEF FrameInv, Ranges, Alive, EndFrameHalted

LEMMA EndFrameIncompleteStep == FrameInv /\ EndFrameIncomplete => FrameInv'
<1> SUFFICES ASSUME FrameInv, EndFrameIncomplete PROVE FrameInv'
  OBVIOUS
<1>1. EndFrame /\ fg.ready /\ phase = "judged" /\ fg' = fg /\ Kept(fg)
  BY DEF EndFrameIncomplete, EndFrame, FrameInv
<1>2. PICK r \in Reloads :
        /\ settings' = r.settings
        /\ \/ /\ CopyFails
              /\ \E i \in SubmitInactiveOutcomes(r.sub) : sub' = i.sub
           \/ /\ captured
              /\ UNCHANGED <<shared, captured>>
              /\ \E s \in SubmitOutcomes(r.sub) :
                  /\ ~s.ok
                  /\ \E i \in SubmitInactiveOutcomes(s.sub) : sub' = i.sub
  BY DEF EndFrameIncomplete
<1>3. settings' \in Settings /\ Carried(r.sub, SimulationEnd)
  BY <1>1, <1>2, ReloadLemma
<1>4. Carried(sub', SimulationEnd) /\ sub'.tags # "active"
  <2>1. CASE \E i \in SubmitInactiveOutcomes(r.sub) : sub' = i.sub
    BY <1>3, <2>1, CarriedIsSigned, InactiveLemma
  <2>2. CASE \E s \in SubmitOutcomes(r.sub) :
                \E i \in SubmitInactiveOutcomes(s.sub) : sub' = i.sub
    <3>1. PICK s \in SubmitOutcomes(r.sub) :
            \E i \in SubmitInactiveOutcomes(s.sub) : sub' = i.sub
      BY <2>2
    <3>2. PICK i \in SubmitInactiveOutcomes(s.sub) : sub' = i.sub
      BY <3>1
    <3>3. Signed(s.sub, SimulationEnd)
      BY <1>3, SubmitLemma DEF SimulationEnd
    <3> QED
      BY <3>2, <3>3, InactiveLemma
  <2> QED
    BY <1>2, <2>1, <2>2
<1>5. /\ shared' \in BOOLEAN
      /\ captured' \in BOOLEAN
      /\ captured' => shared'
  <2>1. /\ shared \in BOOLEAN /\ captured \in BOOLEAN
        /\ captured => shared
    BY DEF FrameInv, Ranges, Alive
  <2>2. \/ UNCHANGED <<shared, captured>>
        \/ shared' = TRUE /\ UNCHANGED captured
        \/ shared' = FALSE /\ captured' = FALSE
    BY <1>2 DEF CopyFails
  <2>3. CASE UNCHANGED <<shared, captured>>
    BY <2>1, <2>3
  <2>4. CASE shared' = TRUE /\ UNCHANGED captured
    BY <2>1, <2>4
  <2>5. CASE shared' = FALSE /\ captured' = FALSE
    BY <2>5
  <2> QED
    BY <2>2, <2>3, <2>4, <2>5
<1> QED
  BY <1>1, <1>3, <1>4, <1>5, Inactive DEF EndFrameIncomplete

LEMMA EndFrameCompleteStep == FrameInv /\ EndFrameComplete => FrameInv'
<1> SUFFICES ASSUME FrameInv, EndFrameComplete PROVE FrameInv'
  OBVIOUS
<1>1. /\ EndFrame
      /\ fg.ready
      /\ ~halted
      /\ captured
      /\ phase = "judged" /\ phase' = "ended"
      /\ Kept(fg)
      /\ UNCHANGED <<shared, captured, halted, adapter, verdict>>
  BY DEF EndFrameComplete, EndFrame, FrameInv
<1>2. PICK r \in Reloads, k \in Contracts :
        /\ settings' = r.settings
        /\ r.settings.generate
        /\ \E s \in SubmitOutcomes(r.sub),
              o \in ConfigureOutcomes(r.settings.multiplier, k) :
            LET t == IF o.reset THEN RequestHistoryReset(s.sub) ELSE s.sub
            IN  /\ s.ok
                /\ IF o.ok THEN fg' = o.fg /\ sub' = t
                   ELSE /\ \E u \in FG!SuspendForUnhealthyOutcomes(o.fg) :
                            fg' = u.fg
                        /\ \E i \in SubmitInactiveOutcomes(t) : sub' = i.sub
  BY DEF EndFrameComplete
<1>3. PICK s \in SubmitOutcomes(r.sub),
           o \in ConfigureOutcomes(r.settings.multiplier, k) :
            LET t == IF o.reset THEN RequestHistoryReset(s.sub) ELSE s.sub
            IN  /\ s.ok
                /\ IF o.ok THEN fg' = o.fg /\ sub' = t
                   ELSE /\ \E u \in FG!SuspendForUnhealthyOutcomes(o.fg) :
                            fg' = u.fg
                        /\ \E i \in SubmitInactiveOutcomes(t) : sub' = i.sub
  BY <1>2
<1> DEFINE t == IF o.reset THEN RequestHistoryReset(s.sub) ELSE s.sub
<1>4. settings' \in Settings /\ Carried(r.sub, SimulationEnd)
  BY <1>1, <1>2, ReloadLemma
<1>5. r.settings.multiplier \in Nat /\ r.settings.multiplier >= 2
  BY <1>2, <1>4, SettingsLemma
<1>6. /\ P!Sound(o.fg)
      /\ o.fg.ready
      /\ P!Fallen(o.fg)
      /\ o.ok => Kept(o.fg)
  BY <1>1, <1>5, KeptConfigure
<1>7. Carried(t, SimulationEnd) /\ t.tags = "active"
  <2>1. Carried(s.sub, SimulationEnd) /\ s.sub.tags = "active"
    BY <1>3, <1>4, SubmitLemma DEF SimulationEnd
  <2>2. /\ Carried(RequestHistoryReset(s.sub), SimulationEnd)
        /\ RequestHistoryReset(s.sub).tags = "active"
    BY <2>1, RequestKeeps
  <2> QED
    BY <2>1, <2>2
<1>8. \/ o.ok /\ fg' = o.fg /\ sub' = t
      \/ /\ \E u \in FG!SuspendForUnhealthyOutcomes(o.fg) : fg' = u.fg
         /\ \E i \in SubmitInactiveOutcomes(t) : sub' = i.sub
  BY <1>3
<1> HIDE DEF t
<1>9. CASE o.ok /\ fg' = o.fg /\ sub' = t
  <2>1. Ranges'
    BY <1>1, <1>4 DEF FrameInv, Ranges, Phases
  <2>2. Alive'
    BY <1>1, <1>2, <1>6, <1>9 DEF FrameInv, Alive
  <2> QED
    BY <1>1, <1>6, <1>7, <1>9, <2>1, <2>2, Between
<1>10. CASE /\ \E u \in FG!SuspendForUnhealthyOutcomes(o.fg) : fg' = u.fg
            /\ \E i \in SubmitInactiveOutcomes(t) : sub' = i.sub
  <2>1. PICK u \in FG!SuspendForUnhealthyOutcomes(o.fg) : fg' = u.fg
    BY <1>10
  <2>2. PICK i \in SubmitInactiveOutcomes(t) : sub' = i.sub
    BY <1>10
  <2>3. Kept(fg') /\ fg'.ready = o.fg.ready
    BY <1>6, <2>1, KeptUnhealthy
  <2>4. Carried(sub', SimulationEnd) /\ sub'.tags # "active"
    BY <1>7, <2>2, CarriedIsSigned, InactiveLemma
  <2>5. fg'.ready = fg.ready
    BY <1>1, <1>6, <2>3
  <2> QED
    BY <1>1, <1>4, <2>3, <2>4, <2>5, Inactive DEF FrameInv, Ranges, Alive
<1> QED
  BY <1>8, <1>9, <1>10

LEMMA PresentStep ==
    FrameInv /\ (DropFrame \/ SubmitFrame \/ Present) => FrameInv'
<1> SUFFICES ASSUME FrameInv, DropFrame \/ SubmitFrame \/ Present
             PROVE  FrameInv'
  OBVIOUS
<1>1. Kept(fg) /\ fg' = fg
  BY DEF FrameInv, DropFrame, SubmitFrame, Present
<1>2. CASE DropFrame
  <2>1. phase = "ended" /\ phase' = "game" /\ sub' = sub
    BY <1>2 DEF DropFrame
  <2>2. Carried(sub', SimulationEnd)
    BY <2>1, ReachLemma
  <2>3. Ranges' /\ Alive'
    BY <1>2, <2>1 DEF FrameInv, Ranges, Alive, DropFrame, Phases, Verdicts
  <2> QED
    BY <1>1, <2>1, <2>2, <2>3, Between
<1>3. CASE SubmitFrame
  <2>1. /\ phase = "ended" /\ phase' = "submitted"
        /\ sub' = StartPresent(SubmitRendering(sub))
    BY <1>3 DEF SubmitFrame
  <2>2. Carried(sub', PresentStart) /\ sub'.tags = sub.tags
    BY <2>1, ReachLemma, SubmitRenderingLemma
  <2>3. Carried(sub, Reach)'
    BY <2>1, <2>2 DEF Reach
  <2>4. Ranges' /\ Alive'
    BY <1>3, <2>1, <2>2 DEF FrameInv, Ranges, Alive, SubmitFrame, Phases
  <2>5. SwapChainReleased'
    BY <2>1 DEF SwapChainReleased
  <2> QED
    BY <1>1, <2>3, <2>4, <2>5 DEF FrameInv
<1>4. CASE Present
  <2>1. phase = "submitted" /\ phase' = "game"
    BY <1>4 DEF Present
  <2> DEFINE e == EndPresent(sub)
  <2>2. Carried(e, SimulationEnd) /\ e.tags = "none"
    BY <2>1, EndPresentLemma DEF FrameInv, Reach
  <2>3. \/ sub' = e /\ captured' = captured
        \/ BeginRuntimeFrame(e)
    BY <1>4 DEF Present
  <2> HIDE DEF e
  <2>4. /\ Carried(sub', SimulationEnd)
        /\ sub'.tags = "none"
        /\ captured' \in BOOLEAN
        /\ captured' => captured
    <3>1. captured \in BOOLEAN
      BY DEF FrameInv, Ranges
    <3>2. CASE sub' = e /\ captured' = captured
      BY <2>2, <3>1, <3>2
    <3>3. CASE BeginRuntimeFrame(e)
      BY <2>2, <3>1, <3>3, BeginRuntimeLemma
    <3> QED
      BY <2>3, <3>2, <3>3
  <2>5. Ranges' /\ Alive'
    BY <1>4, <2>1, <2>4 DEF FrameInv, Ranges, Alive, Present, Phases, Verdicts
  <2> QED
    BY <1>1, <2>1, <2>4, <2>5, Between
<1> QED
  BY <1>2, <1>3, <1>4

LEMMA FrameStutter == FrameInv /\ UNCHANGED vars => FrameInv'
<1> SUFFICES ASSUME FrameInv, UNCHANGED vars PROVE FrameInv'
  OBVIOUS
<1> USE DEF vars
<1>1. Kept(fg)' /\ Carried(sub, Reach)' /\ Ranges'
  BY DEF FrameInv, Reach, Ranges
<1>2. SwapChainReleased' /\ Alive'
  BY DEF FrameInv, SwapChainReleased, Alive
<1> QED
  BY <1>1, <1>2 DEF FrameInv

-----------------------------------------------------------------------------
(***************************************************************************)
(* The theorems.                                                           *)
(***************************************************************************)

\* The inductive invariant of the frame loop: the controller is kept, the
\* open frame is as far as its handler, and active tags have their textures.
THEOREM FrameInvariant == Spec => []FrameInv
<1>1. FrameInv /\ [Next]_vars => FrameInv'
  <2> SUFFICES ASSUME FrameInv, [Next]_vars PROVE FrameInv'
    OBVIOUS
  <2>1. CASE Initialize \/ Exit \/ BeginFrame \/ PreReset
    BY <2>1, InitializeStep, ExitStep, BeginFrameStep, PreResetStep
  <2>2. CASE CaptureHudless \/ ChangeSettings \/ ToggleHalt \/ ResetAllHistory
    BY <2>2, GameStepLemma DEF GameStep
  <2>3. CASE ResizeBuffers \/ FinishResize \/ SwitchTarget \/ FinishSwitch
    BY <2>3, ResizeBuffersStep, FinishResizeStep, SwitchTargetStep,
       FinishSwitchStep
  <2>4. CASE JudgeHealthy \/ JudgeUnhealthy
    BY <2>4, JudgeStep
  <2>5. CASE EndFrameWithoutFeatures \/ EndFrameOff \/ EndFrameHalted
    BY <2>5, EndFrameWithoutFeaturesStep, EndFrameOffStep, EndFrameHaltedStep
  <2>6. CASE EndFrameIncomplete \/ EndFrameComplete
    BY <2>6, EndFrameIncompleteStep, EndFrameCompleteStep
  <2>7. CASE DropFrame \/ SubmitFrame \/ Present
    BY <2>7, PresentStep
  <2>8. CASE UNCHANGED vars
    BY <2>8, FrameStutter
  <2> QED
    BY <2>1, <2>2, <2>3, <2>4, <2>5, <2>6, <2>7, <2>8 DEF Next
<1> QED
  BY <1>1, FrameInit, PTL DEF Spec

\* A swap chain is mutated (ResizeBuffers, ResizeTarget, SetFullscreenState)
\* only while the runtime neither generates nor holds resources: the two
\* resets before it cannot both answer TRUE and leave something standing.
THEOREM SwapChainAlwaysReleased == Spec => []SwapChainReleased
<1>1. FrameInv => SwapChainReleased
  BY DEF FrameInv
<1> QED
  BY <1>1, FrameInvariant, PTL

\* A reset of the temporal history requested of FrameSubmission is pending,
\* or in the constants of the open frame, until a frame that was presented
\* with this plugin's inputs has carried it.
THEOREM ResetNeverLost == Spec => []ResetNotLost
<1>1. FrameInv => ResetNotLost
  BY DEF FrameInv, Carried, Lawful, Staged, Recorded, ResetNotLost
<1> QED
  BY <1>1, FrameInvariant, PTL

\* The latency markers of a frame come in pipeline order and none twice,
\* whichever of begin_frame, the late token, a dropped frame and a repeated
\* present came in between.
THEOREM MarkersAlwaysInOrder == Spec => []MarkersInOrder
<1>1. FrameInv => MarkersInOrder
  BY DEF FrameInv, Carried, Marked, Increasing, MarkersInOrder
<1> QED
  BY <1>1, FrameInvariant, PTL

\* A frame that reaches Present tagged with this plugin's textures has its
\* constants, and the textures hold a capture; and none is tagged while
\* generation is off or halted.
THEOREM PresentedInputsAlwaysAlive == Spec => []PresentedInputsAlive
<1>1. FrameInv => PresentedInputsAlive
  BY DEF FrameInv, Carried, Lawful, Staged, Alive, PresentedInputsAlive
<1> QED
  BY <1>1, FrameInvariant, PTL

=============================================================================
