--------------------------- MODULE Session_proofs ---------------------------
(***************************************************************************)
(* Proofs about the processes of a session, for any adapter and any number *)
(* of launches, edits, operations and refusals.                            *)
(*                                                                         *)
(* First the file: what its text, the memory and the writes still to be    *)
(* made have to do with each other.  Then the parts: they are brought up   *)
(* and taken down by operators from `up` to the set of what may come of a  *)
(* call, so the lemmas are about those.                                    *)
(***************************************************************************)
EXTENDS Session, SequenceTheorems, TLAPS

-----------------------------------------------------------------------------
(***************************************************************************)
(* Types.                                                                  *)
(***************************************************************************)
Words == {"nvidia", "amd", "off", "quality", "standard", "other",
          "standardfinite", "beyond", "junk"}

\* What the getters answer, and what the file says.
Answers == {f \in [Keys -> Words] : \A k \in Keys : f[k] \in Known[k]}
Readings == {f \in [Keys -> Words] : \A k \in Keys : f[k] \in Texts(k)}

Writes == [key : LiveKeys, value : Words, style : {"set", "raw"}]

Kinds == {"idle", "apply", "restore", "stage", "commit", "restage", "unstage",
          "unrestage", "rollback"}

Types ==
    /\ memory \in [loaded : BOOLEAN, value : Answers]
    /\ ini \in [present : BOOLEAN, text : Readings, unseen : BOOLEAN]
    /\ ghost \in [apart : SUBSET LiveKeys, unread : SUBSET LiveKeys]
    /\ io \in [kind : Kinds, queue : Seq(Writes), to : Answers, before : Answers,
               raw : Texts("provider") \X Texts("mode"), torn : BOOLEAN]

LEMMA KeysLemma ==
    /\ Keys = {"provider", "mode", "option", "vendor"}
    /\ LiveKeys = {"provider", "mode", "option"}
    /\ \A k \in Keys : Known[k] \subseteq Texts(k)
    /\ \A k \in Keys : Texts(k) \subseteq Words
<1>1. Keys = {"provider", "mode", "option", "vendor"}
  BY DEF Keys, Known
<1>2. \A k \in Keys : Known[k] \subseteq Texts(k)
  BY DEF Texts
<1>3. \A k \in Keys : Texts(k) \subseteq Words
  BY <1>1 DEF Texts, Known, Spelled, Alias, Clamped, Words
<1> QED
  BY <1>1, <1>2, <1>3 DEF LiveKeys

LEMMA DefaultLemma == Default \in Answers /\ Default \in Readings
<1>1. DOMAIN Default = Keys
  BY DEF Keys, Known, Default
<1>2. Default = [k \in Keys |-> Default[k]]
  BY <1>1 DEF Default
<1>3. \A k \in Keys : Default[k] \in Known[k]
  BY KeysLemma DEF Known, Default
<1>4. Default \in [Keys -> Words]
  BY <1>2, <1>3, KeysLemma
<1> QED
  BY <1>3, <1>4, KeysLemma DEF Answers, Readings

\* A text is read as one of the key's values, and a value as itself.
LEMMA ReadLemma ==
    ASSUME NEW k \in Keys
    PROVE  /\ \A t \in Words : ReadKey(k, t) \in Known[k]
           /\ \A v \in Known[k] : ReadKey(k, v) = v
<1>1. \A t \in Words : ReadKey(k, t) \in Known[k]
  BY KeysLemma DEF ReadKey, Known, Spelled, Alias, Clamped, Default
<1>2. \A v \in Known[k] : ReadKey(k, v) = v
  BY KeysLemma DEF ReadKey, Known, Spelled, Alias, Clamped
<1> QED
  BY <1>1, <1>2

LEMMA AnswersUpdate ==
    ASSUME NEW f \in Answers
    PROVE  /\ \A k \in Keys : f[k] \in Known[k]
           /\ f \in Readings
           /\ \A k \in Keys : \A v \in Known[k] : [f EXCEPT ![k] = v] \in Answers
           /\ \A p \in Known.provider, m \in Known.mode :
                  [f EXCEPT !.provider = p, !.mode = m] \in Answers
           /\ \A p \in Known.provider, m \in Known.mode, o \in Known.option :
                  [f EXCEPT !.provider = p, !.mode = m, !.option = o] \in Answers
<1>1. (\A k \in Keys : f[k] \in Known[k]) /\ f \in Readings
  BY KeysLemma DEF Answers, Readings
<1>2. \A k \in Keys : Known[k] \subseteq Words
  BY KeysLemma
<1>3. ASSUME NEW k \in Keys, NEW v \in Known[k]
      PROVE  [f EXCEPT ![k] = v] \in Answers
  BY <1>1, <1>2 DEF Answers
<1>4. /\ "provider" \in Keys /\ "mode" \in Keys /\ "option" \in Keys
      /\ Known.provider = Known["provider"] /\ Known.mode = Known["mode"]
      /\ Known.option = Known["option"]
  BY KeysLemma
<1>5. ASSUME NEW p \in Known.provider, NEW m \in Known.mode
      PROVE  [f EXCEPT !.provider = p, !.mode = m] \in Answers
  <2> DEFINE g == [f EXCEPT !.provider = p, !.mode = m]
  <2>1. g \in [Keys -> Words]
    BY <1>1, <1>2, <1>4 DEF Answers
  <2>2. \A k \in Keys : g[k] \in Known[k]
    BY <1>1, <1>4, KeysLemma DEF Answers
  <2> QED
    BY <2>1, <2>2 DEF Answers
<1>6. ASSUME NEW p \in Known.provider, NEW m \in Known.mode, NEW o \in Known.option
      PROVE  [f EXCEPT !.provider = p, !.mode = m, !.option = o] \in Answers
  <2> DEFINE g == [f EXCEPT !.provider = p, !.mode = m, !.option = o]
  <2>1. g \in [Keys -> Words]
    BY <1>1, <1>2, <1>4 DEF Answers
  <2>2. \A k \in Keys : g[k] \in Known[k]
    BY <1>1, <1>4, KeysLemma DEF Answers
  <2> QED
    BY <2>1, <2>2 DEF Answers
<1> QED
  BY <1>1, <1>3, <1>5, <1>6

LEMMA ReadingsUpdate ==
    ASSUME NEW f \in Readings
    PROVE  /\ \A k \in Keys : f[k] \in Texts(k)
           /\ \A k \in Keys : \A v \in Texts(k) : [f EXCEPT ![k] = v] \in Readings
BY KeysLemma DEF Readings

-----------------------------------------------------------------------------
(***************************************************************************)
(* The queues that an operation goes through, write by write.              *)
(***************************************************************************)
SetQueues(f) ==
    {<<Write("provider", f.provider, "set"), Write("mode", f.mode, "set"),
       OptionWrite(f.option)>>,
     <<Write("mode", f.mode, "set"), OptionWrite(f.option)>>,
     <<OptionWrite(f.option)>>, << >>}

RawQueues(p, m) ==
    {<<Write("provider", p, "raw"), Write("mode", m, "raw")>>,
     <<Write("mode", m, "raw")>>, << >>}

StageQueues(f) ==
    {<<OptionWrite(f.option), Write("provider", f.provider, "raw"),
       Write("mode", f.mode, "raw")>>} \cup RawQueues(f.provider, f.mode)

LEMMA WriteLemma ==
    ASSUME NEW k \in LiveKeys, NEW v \in Words, NEW s \in {"set", "raw"}
    PROVE  /\ Write(k, v, s) \in Writes
           /\ Write(k, v, s).key = k
           /\ Write(k, v, s).value = v
           /\ Write(k, v, s).style = s
BY DEF Write, Writes

LEMMA TripleLemma ==
    ASSUME NEW a, NEW b, NEW c
    PROVE  /\ Append(<<a, b>>, c) = <<a, b, c>>
           /\ <<a>> \o <<b, c>> = <<a, b, c>>
<1> DEFINE S == {a, b, c}
<1>1. /\ <<a>> \in Seq(S) /\ <<a, b>> \in Seq(S) /\ <<b, c>> \in Seq(S)
      /\ <<a, b, c>> \in Seq(S) /\ c \in S
  OBVIOUS
<1>2. Append(<<a, b>>, c) = <<a, b, c>>
  <2>1. /\ Append(<<a, b>>, c) \in Seq(S)
        /\ Len(Append(<<a, b>>, c)) = 3
        /\ \A i \in 1 .. 3 : Append(<<a, b>>, c)[i] = <<a, b, c>>[i]
    BY <1>1
  <2> QED
    BY <1>1, <2>1, SeqEqual
<1>3. <<a>> \o <<b, c>> = <<a, b, c>>
  <2>1. /\ <<a>> \o <<b, c>> \in Seq(S)
        /\ Len(<<a>> \o <<b, c>>) = 3
        /\ \A i \in 1 .. 3 : (<<a>> \o <<b, c>>)[i] = <<a, b, c>>[i]
    BY <1>1
  <2> QED
    BY <1>1, <2>1, SeqEqual
<1> QED
  BY <1>2, <1>3

LEMMA TupleLemma ==
    ASSUME NEW a, NEW b, NEW c
    PROVE  /\ Len(<<a, b, c>>) = 3 /\ Head(<<a, b, c>>) = a
           /\ Tail(<<a, b, c>>) = <<b, c>> /\ <<a, b, c>> # << >>
           /\ Len(<<a, b>>) = 2 /\ Head(<<a, b>>) = a
           /\ Tail(<<a, b>>) = <<b>> /\ <<a, b>> # << >>
           /\ Len(<<a>>) = 1 /\ Head(<<a>>) = a
           /\ Tail(<<a>>) = << >> /\ <<a>> # << >>
           /\ Len(<< >>) = 0
OBVIOUS

\* Where an operation stands, from the length of what is left of it.
LEMMA SetQueuesLemma ==
    ASSUME NEW f \in Answers, NEW q \in SetQueues(f)
    PROVE  /\ q \in Seq(Writes)
           /\ Len(q) \in 0 .. 3
           /\ q = << >> <=> Len(q) = 0
           /\ Len(q) # 0 => /\ Tail(q) \in SetQueues(f)
                            /\ Len(Tail(q)) = Len(q) - 1
                            /\ Head(q).style = "set"
                            /\ Head(q) \in Writes
                            /\ Head(q).value \in Known[Head(q).key]
           /\ Len(q) = 3 => Head(q).key = "provider" /\ Head(q).value = f.provider
           /\ Len(q) = 2 => Head(q).key = "mode" /\ Head(q).value = f.mode
           /\ Len(q) = 1 => Head(q).key = "option" /\ Head(q).value = f.option
<1> DEFINE p == Write("provider", f.provider, "set")
           m == Write("mode", f.mode, "set")
           o == Write("option", f.option, "set")
<1>1. /\ f.provider \in Known["provider"] /\ f.provider \in Words
      /\ f.mode \in Known["mode"] /\ f.mode \in Words
      /\ f.option \in Known["option"] /\ f.option \in Words
  BY KeysLemma, AnswersUpdate
<1>2. /\ p \in Writes /\ p.key = "provider" /\ p.value = f.provider /\ p.style = "set"
      /\ m \in Writes /\ m.key = "mode" /\ m.value = f.mode /\ m.style = "set"
      /\ o \in Writes /\ o.key = "option" /\ o.value = f.option /\ o.style = "set"
  BY <1>1, WriteLemma, KeysLemma
<1>3. SetQueues(f) = {<<p, m, o>>, <<m, o>>, <<o>>, << >>}
  BY DEF SetQueues, OptionWrite
<1> HIDE DEF p, m, o
<1>4. /\ <<p, m, o>> \in Seq(Writes) /\ <<m, o>> \in Seq(Writes)
      /\ <<o>> \in Seq(Writes)  /\ << >> \in Seq(Writes)
  BY <1>2
<1>5. CASE q = <<p, m, o>>
  BY <1>1, <1>2, <1>3, <1>4, <1>5, TupleLemma
<1>6. CASE q = <<m, o>>
  BY <1>1, <1>2, <1>3, <1>4, <1>6, TupleLemma
<1>7. CASE q = <<o>>
  BY <1>1, <1>2, <1>3, <1>4, <1>7, TupleLemma
<1>8. CASE q = << >>
  BY <1>4, <1>8, TupleLemma
<1> QED
  BY <1>3, <1>5, <1>6, <1>7, <1>8

LEMMA RawQueuesLemma ==
    ASSUME NEW x \in Texts("provider"), NEW y \in Texts("mode"),
           NEW q \in RawQueues(x, y)
    PROVE  /\ q \in Seq(Writes)
           /\ Len(q) \in 0 .. 2
           /\ q = << >> <=> Len(q) = 0
           /\ Len(q) # 0 => /\ Tail(q) \in RawQueues(x, y)
                            /\ Len(Tail(q)) = Len(q) - 1
                            /\ Head(q).style = "raw"
                            /\ Head(q) \in Writes
           /\ Len(q) = 2 => Head(q).key = "provider" /\ Head(q).value = x
           /\ Len(q) = 1 => Head(q).key = "mode" /\ Head(q).value = y
<1> DEFINE p == Write("provider", x, "raw")
           m == Write("mode", y, "raw")
<1>1. /\ p \in Writes /\ p.key = "provider" /\ p.value = x /\ p.style = "raw"
      /\ m \in Writes /\ m.key = "mode" /\ m.value = y /\ m.style = "raw"
  BY WriteLemma, KeysLemma
<1>2. RawQueues(x, y) = {<<p, m>>, <<m>>, << >>}
  BY DEF RawQueues
<1> HIDE DEF p, m
<1>3. <<p, m>> \in Seq(Writes) /\ <<m>> \in Seq(Writes) /\ << >> \in Seq(Writes)
  BY <1>1
<1>4. CASE q = <<p, m>>
  BY <1>1, <1>2, <1>3, <1>4, TupleLemma
<1>5. CASE q = <<m>>
  BY <1>1, <1>2, <1>3, <1>5, TupleLemma
<1>6. CASE q = << >>
  BY <1>3, <1>6, TupleLemma
<1> QED
  BY <1>2, <1>4, <1>5, <1>6

LEMMA StageQueuesLemma ==
    ASSUME NEW f \in Answers, NEW q \in StageQueues(f)
    PROVE  /\ q \in Seq(Writes)
           /\ Len(q) \in 0 .. 3
           /\ q = << >> <=> Len(q) = 0
           /\ Len(q) = 3 => /\ Tail(q) \in StageQueues(f)
                            /\ Len(Tail(q)) = 2
                            /\ Head(q) \in Writes
                            /\ Head(q).style = "set"
                            /\ Head(q).key = "option"
                            /\ Head(q).value = f.option
           /\ Len(q) # 3 => q \in RawQueues(f.provider, f.mode)
<1> DEFINE o == Write("option", f.option, "set")
           p == Write("provider", f.provider, "raw")
           m == Write("mode", f.mode, "raw")
<1>1. /\ f.provider \in Texts("provider") /\ f.provider \in Words
      /\ f.mode \in Texts("mode") /\ f.mode \in Words
      /\ f.option \in Words
  BY KeysLemma, AnswersUpdate
<1>2. /\ o \in Writes /\ o.key = "option" /\ o.value = f.option /\ o.style = "set"
      /\ p \in Writes /\ m \in Writes
  BY <1>1, WriteLemma, KeysLemma
<1>3. /\ StageQueues(f) = {<<o, p, m>>} \cup RawQueues(f.provider, f.mode)
      /\ <<p, m>> \in RawQueues(f.provider, f.mode)
  BY DEF StageQueues, OptionWrite, RawQueues
<1>4. \A r \in RawQueues(f.provider, f.mode) :
          r \in Seq(Writes) /\ Len(r) \in 0 .. 2 /\ (r = << >> <=> Len(r) = 0)
  BY <1>1, RawQueuesLemma
<1> HIDE DEF o, p, m
<1>5. <<o, p, m>> \in Seq(Writes)
  BY <1>2
<1>6. CASE q = <<o, p, m>>
  BY <1>2, <1>3, <1>5, <1>6, TupleLemma
<1>7. CASE q \in RawQueues(f.provider, f.mode)
  BY <1>4, <1>7
<1> QED
  BY <1>3, <1>6, <1>7

-----------------------------------------------------------------------------
(***************************************************************************)
(* The invariant of the file.  While nothing is being written, a key whose *)
(* text and value disagree is one the ghost knows of; while something is,  *)
(* it may also be a key that the operation has already touched in the file *)
(* and not yet in the memory, which is told from the kind and from how     *)
(* much of the queue is left.                                              *)
(***************************************************************************)
Queued ==
    /\ io.kind = "idle" => io.queue = << >>
    /\ io.kind = "apply" => io.queue \in SetQueues(io.to)
    /\ io.kind = "restore" => io.queue \in SetQueues(io.before)
    /\ io.kind = "stage" => io.queue \in StageQueues(io.to)
    /\ io.kind = "commit" => io.queue \in RawQueues(io.to.provider, io.to.mode)
    /\ io.kind = "restage" => io.queue \in RawQueues(io.before.provider, io.before.mode)
    /\ io.kind \in {"unstage", "unrestage"} =>
           io.queue \in RawQueues(memory.value.provider, memory.value.mode)
    /\ io.kind = "rollback" => io.queue \in RawQueues(io.raw[1], io.raw[2])

Advancing == io.kind \in {"stage", "restage", "commit"}
Reverting == io.kind \in {"unstage", "unrestage", "rollback"}

Touched ==
    {k \in {"provider", "mode"} :
        \/ Advancing /\ Len(io.queue) = 0
        \/ Advancing /\ Len(io.queue) = 1 /\ k = "provider"
        \/ Reverting /\ Len(io.queue) = 2
        \/ Reverting /\ Len(io.queue) = 1 /\ k = "mode"}

Agree(k) == memory.value[k] = ReadKey(k, ini.text[k])

Accounted ==
    memory.loaded =>
        \A k \in LiveKeys : Agree(k) \/ k \in ghost.apart \cup ghost.unread \cup Touched

\* What the plugin has not seen is what may differ beyond `apart`.
Seen == memory.loaded /\ ~ini.unseen => \A k \in LiveKeys : Agree(k) \/ k \in ghost.apart

\* What a commit would write back is what the memory was read from.
Remembered ==
    io.kind \in {"commit", "rollback"} =>
        /\ \/ "provider" \in ghost.apart \cup ghost.unread
           \/ memory.value["provider"] = ReadKey("provider", io.raw[1])
        /\ \/ "mode" \in ghost.apart \cup ghost.unread
           \/ memory.value["mode"] = ReadKey("mode", io.raw[2])

\* A half-written pair is never marked as read.
Pending ==
    (Advancing /\ Len(io.queue) \in {0, 1}) \/ Reverting => ini.unseen

Started == ~memory.loaded => io.kind = "idle"

FileInv == Types /\ Queued /\ Accounted /\ Seen /\ Remembered /\ Pending /\ Started

-----------------------------------------------------------------------------
(***************************************************************************)
(* What the invariant says of the queue.                                   *)
(***************************************************************************)
LEMMA TypesFacts ==
    ASSUME Types
    PROVE  /\ memory.value \in Answers /\ memory.loaded \in BOOLEAN
           /\ ini.text \in Readings /\ ini.unseen \in BOOLEAN /\ ini.present \in BOOLEAN
           /\ ghost.apart \subseteq LiveKeys /\ ghost.unread \subseteq LiveKeys
           /\ io.kind \in Kinds /\ io.torn \in BOOLEAN
           /\ io.to \in Answers /\ io.before \in Answers
           /\ io.raw[1] \in Texts("provider") /\ io.raw[2] \in Texts("mode")
           /\ io.raw = <<io.raw[1], io.raw[2]>>
BY DEF Types

LEMMA PairFacts ==
    ASSUME NEW f \in Answers
    PROVE  /\ f.provider \in Texts("provider") /\ f.mode \in Texts("mode")
           /\ f.provider \in Known["provider"] /\ f.mode \in Known["mode"]
           /\ f.option \in Known["option"]
           /\ Pair(f) \in Texts("provider") \X Texts("mode")
<1>1. \A k \in Keys : f[k] \in Known[k] /\ f[k] \in Texts(k)
  BY AnswersUpdate, KeysLemma
<1> QED
  BY <1>1, KeysLemma DEF Pair

SetKind == io.kind \in {"apply", "restore"} \/ (io.kind = "stage" /\ Len(io.queue) = 3)

\* While a queue is not empty: what its first write is, and that its rest is a queue too.
LEMMA QueueFacts ==
    ASSUME Types, Queued
    PROVE  /\ io.queue \in Seq(Writes)
           /\ Len(io.queue) \in 0 .. 3
           /\ io.queue = << >> <=> Len(io.queue) = 0
           /\ io.kind # "idle" /\ ~SetKind => Len(io.queue) \in 0 .. 2
           /\ io.kind = "idle" => Len(io.queue) = 0
<1> DEFINE q == io.queue
<1>0. /\ io.to \in Answers /\ io.before \in Answers /\ memory.value \in Answers
      /\ io.raw[1] \in Texts("provider") /\ io.raw[2] \in Texts("mode")
      /\ io.kind \in Kinds
  BY TypesFacts
<1>1. \A f \in Answers : f.provider \in Texts("provider") /\ f.mode \in Texts("mode")
  BY PairFacts
<1>2. CASE io.kind = "idle"
  <2>1. q = << >>
    BY <1>2 DEF Queued
  <2> QED
    BY <2>1, <1>2 DEF SetKind
<1>3. CASE io.kind = "apply"
  BY <1>0, <1>3, SetQueuesLemma DEF Queued, SetKind
<1>4. CASE io.kind = "restore"
  BY <1>0, <1>4, SetQueuesLemma DEF Queued, SetKind
<1>5. CASE io.kind = "stage"
  <2>1. q \in StageQueues(io.to)
    BY <1>5 DEF Queued
  <2>2. q \in Seq(Writes) /\ Len(q) \in 0 .. 3 /\ (q = << >> <=> Len(q) = 0)
    BY <1>0, <2>1, StageQueuesLemma
  <2> QED
    BY <2>2, <1>5 DEF SetKind
<1>6. ASSUME NEW x \in Texts("provider"), NEW y \in Texts("mode"), q \in RawQueues(x, y)
      PROVE  q \in Seq(Writes) /\ Len(q) \in 0 .. 2 /\ (q = << >> <=> Len(q) = 0)
  BY <1>6, RawQueuesLemma
<1>7. CASE io.kind \in {"commit", "restage", "unstage", "unrestage", "rollback"}
  <2>1. q \in Seq(Writes) /\ Len(q) \in 0 .. 2 /\ (q = << >> <=> Len(q) = 0)
    BY <1>0, <1>1, <1>6, <1>7 DEF Queued
  <2> QED
    BY <2>1, <1>7
<1> QED
  BY <1>0, <1>2, <1>3, <1>4, <1>5, <1>7 DEF Kinds

LEMMA HeadFacts ==
    ASSUME Types, Queued, io.queue # << >>
    PROVE  /\ io.kind # "idle"
           /\ Head(io.queue) \in Writes
           /\ Len(Tail(io.queue)) = Len(io.queue) - 1
           /\ Head(io.queue).style = IF SetKind THEN "set" ELSE "raw"
           /\ SetKind => Head(io.queue).value \in Known[Head(io.queue).key]
           /\ ~SetKind => /\ Len(io.queue) = 2 => Head(io.queue).key = "provider"
                          /\ Len(io.queue) = 1 => Head(io.queue).key = "mode"
<1> DEFINE q == io.queue
<1>0. /\ io.to \in Answers /\ io.before \in Answers /\ memory.value \in Answers
      /\ io.raw[1] \in Texts("provider") /\ io.raw[2] \in Texts("mode")
      /\ io.kind \in Kinds
  BY TypesFacts
<1>1. \A f \in Answers : /\ f.provider \in Texts("provider") /\ f.mode \in Texts("mode")
                         /\ f.option \in Known["option"]
  BY PairFacts
<1>2. Len(q) # 0 /\ io.kind # "idle"
  BY QueueFacts
<1>3. CASE io.kind \in {"apply", "restore"}
  BY <1>0, <1>2, <1>3, SetQueuesLemma DEF Queued, SetKind
<1>4. ASSUME NEW x \in Texts("provider"), NEW y \in Texts("mode"), q \in RawQueues(x, y)
      PROVE  /\ Head(q) \in Writes /\ Len(Tail(q)) = Len(q) - 1 /\ Head(q).style = "raw"
             /\ Len(q) = 2 => Head(q).key = "provider"
             /\ Len(q) = 1 => Head(q).key = "mode"
  BY <1>2, <1>4, RawQueuesLemma
<1>5. CASE io.kind = "stage" /\ Len(q) = 3
  <2>1. q \in StageQueues(io.to)
    BY <1>5 DEF Queued
  <2>2. /\ Len(Tail(q)) = 2 /\ Head(q) \in Writes /\ Head(q).style = "set"
        /\ Head(q).key = "option" /\ Head(q).value = io.to.option
    BY <1>0, <1>5, <2>1, StageQueuesLemma
  <2> QED
    BY <2>2, <1>0, <1>1, <1>2, <1>5 DEF SetKind
<1>6. CASE io.kind = "stage" /\ Len(q) # 3
  <2>1. q \in RawQueues(io.to.provider, io.to.mode)
    BY <1>0, <1>6, StageQueuesLemma DEF Queued
  <2>2. /\ Head(q) \in Writes /\ Len(Tail(q)) = Len(q) - 1 /\ Head(q).style = "raw"
        /\ Len(q) = 2 => Head(q).key = "provider"
        /\ Len(q) = 1 => Head(q).key = "mode"
    BY <1>0, <1>1, <1>4, <2>1
  <2> QED
    BY <2>2, <1>2, <1>6 DEF SetKind
<1>7. CASE io.kind \in {"commit", "restage", "unstage", "unrestage", "rollback"}
  <2>1. /\ Head(q) \in Writes /\ Len(Tail(q)) = Len(q) - 1 /\ Head(q).style = "raw"
        /\ Len(q) = 2 => Head(q).key = "provider"
        /\ Len(q) = 1 => Head(q).key = "mode"
    BY <1>0, <1>1, <1>4, <1>7 DEF Queued
  <2> QED
    BY <2>1, <1>2, <1>7 DEF SetKind
<1> QED
  BY <1>0, <1>2, <1>3, <1>5, <1>6, <1>7 DEF Kinds

\* The undo of a raw write puts the memory's value, or the text that was read, back.
LEMMA RevertFacts ==
    ASSUME Types, Queued, io.queue # << >>, Reverting
    PROVE  /\ Len(io.queue) = 2 =>
                  Head(io.queue).value = IF io.kind = "rollback" THEN io.raw[1]
                                         ELSE memory.value["provider"]
           /\ Len(io.queue) = 1 =>
                  Head(io.queue).value = IF io.kind = "rollback" THEN io.raw[2]
                                         ELSE memory.value["mode"]
<1>1. /\ memory.value \in Answers
      /\ io.raw[1] \in Texts("provider") /\ io.raw[2] \in Texts("mode")
  BY TypesFacts
<1>2. memory.value.provider \in Texts("provider") /\ memory.value.mode \in Texts("mode")
  BY <1>1, PairFacts
<1>3. CASE io.kind = "rollback"
  BY <1>1, <1>3, RawQueuesLemma DEF Queued
<1>4. CASE io.kind # "rollback"
  <2>1. io.queue \in RawQueues(memory.value.provider, memory.value.mode)
    BY <1>4 DEF Queued, Reverting
  <2>2. /\ Len(io.queue) = 2 => Head(io.queue).value = memory.value.provider
        /\ Len(io.queue) = 1 => Head(io.queue).value = memory.value.mode
    BY <1>2, <2>1, RawQueuesLemma
  <2> QED
    BY <1>4, <2>2
<1> QED
  BY <1>3, <1>4

-----------------------------------------------------------------------------
(***************************************************************************)
(* Reading and editing keep the invariant.                                 *)
(***************************************************************************)
Racings == {NoSave} \cup
    UNION {{[k \in {key} |-> saved] : saved \in Known[key]} : key \in LiveKeys}

\* With nothing being written, nothing but the three parts of the file matters.
LEMMA IdleStep ==
    ASSUME Types', (io.kind = "idle")', (io.queue = << >>)', Accounted', Seen'
    PROVE  FileInv'
BY DEF FileInv, Queued, Remembered, Pending, Started, Advancing, Reverting

LEMMA LoadStep ==
    ASSUME FileInv, io.kind = "idle", UNCHANGED io,
           NEW racing \in Racings, Load(racing)
    PROVE  FileInv'
<1>1. CASE ~ini.present
  BY <1>1 DEF Load, FileInv, Types, Queued, Accounted, Seen, Remembered, Pending, Started,
              Advancing, Reverting, Touched, Agree
<1>2. CASE ini.present
  <2> DEFINE text == [k \in Keys |-> IF k \in DOMAIN racing THEN racing[k]
                                     ELSE ini.text[k]]
  <2>1. /\ memory' = [loaded |-> TRUE, value |-> Values(ini.text)]
        /\ ini' = [ini EXCEPT !.unseen = FALSE, !.text = text]
        /\ ghost' = [apart |-> DOMAIN racing, unread |-> {}]
    BY <1>2 DEF Load
  <2>2. /\ DOMAIN racing \subseteq LiveKeys
        /\ \A k \in DOMAIN racing : racing[k] \in Known[k]
    <3>1. CASE racing = NoSave
      BY <3>1 DEF NoSave
    <3>2. CASE racing # NoSave
      <4>1. PICK key \in LiveKeys :
                racing \in {[k \in {key} |-> saved] : saved \in Known[key]}
        BY <3>2 DEF Racings
      <4>2. PICK saved \in Known[key] : racing = [k \in {key} |-> saved]
        BY <4>1
      <4> QED
        BY <4>2
    <3> QED
      BY <3>1, <3>2
  <2>3. memory.value \in Answers /\ ini.text \in Readings
    BY TypesFacts DEF FileInv
  <2>4. \A k \in Keys : memory.value[k] \in Known[k] /\ ini.text[k] \in Texts(k)
    BY <2>3, AnswersUpdate, ReadingsUpdate
  <2>5. \A k \in Keys : ReadKey(k, ini.text[k]) \in Known[k]
    BY <2>4, ReadLemma, KeysLemma
  <2>6. /\ Values(ini.text) \in Answers
        /\ \A k \in LiveKeys : Values(ini.text)[k] = ReadKey(k, ini.text[k])
    BY <2>4, <2>5, KeysLemma DEF Values, Answers
  <2>7. text \in Readings
    BY <2>2, <2>4, KeysLemma DEF Readings
  <2>8. Types'
    BY <2>1, <2>2, <2>6, <2>7 DEF FileInv, Types
  <2>9. \A k \in LiveKeys : Agree(k)' \/ k \in DOMAIN racing
    <3> TAKE k \in LiveKeys
    <3>1. k \in Keys
      BY KeysLemma
    <3>2. k \notin DOMAIN racing => text[k] = ini.text[k]
      BY <3>1
    <3>3. memory'.value[k] = ReadKey(k, ini.text[k]) /\ ini'.text[k] = text[k]
      BY <2>1, <2>6, <2>8 DEF FileInv, Types
    <3> QED
      BY <3>2, <3>3 DEF Agree
  <2>10. io.queue = << >>
    BY DEF FileInv, Queued
  <2> QED
    BY <2>1, <2>8, <2>9, <2>10, IdleStep DEF Accounted, Seen
<1>3. ini.present \in BOOLEAN
  BY TypesFacts DEF FileInv
<1> QED
  BY <1>1, <1>2, <1>3

LEMMA EditStep ==
    ASSUME FileInv, Edit
    PROVE  FileInv'
<1>0. PICK key \in Keys : \E text \in Texts(key) : Save(key, text) /\ UNCHANGED memory
  BY DEF Edit
<1>1. PICK text \in Texts(key) : Save(key, text) /\ UNCHANGED memory
  BY <1>0
<1>2. /\ ini' = [ini EXCEPT !.present = TRUE, !.text[key] = text, !.unseen = TRUE]
      /\ ghost' = [ghost EXCEPT !.unread = @ \cup ({key} \cap LiveKeys)]
      /\ io' = IF io.kind = "idle" THEN io ELSE [io EXCEPT !.torn = TRUE]
  BY <1>1 DEF Save
<1>3. Types'
  <2>1. [ini.text EXCEPT ![key] = text] \in Readings
    BY ReadingsUpdate, TypesFacts DEF FileInv
  <2> QED
    BY <1>1, <1>2, <2>1 DEF FileInv, Types
<1>4. /\ io'.kind = io.kind /\ io'.queue = io.queue /\ io'.to = io.to
      /\ io'.before = io.before /\ io'.raw = io.raw
  BY <1>2 DEF FileInv, Types
<1>5. /\ \A k \in Keys : k # key => ini'.text[k] = ini.text[k]
      /\ ini'.unseen
  BY <1>2 DEF FileInv, Types, Readings
<1>6. ghost'.apart = ghost.apart /\ ghost'.unread = ghost.unread \cup ({key} \cap LiveKeys)
  BY <1>2 DEF FileInv, Types
<1>7. Touched' = Touched
  BY <1>4 DEF Touched, Advancing, Reverting
<1>8. Accounted'
  BY <1>1, <1>5, <1>6, <1>7, KeysLemma DEF FileInv, Accounted, Agree
<1>9. Remembered'
  BY <1>1, <1>4, <1>6 DEF FileInv, Remembered
<1>10. Queued' /\ Pending' /\ Started' /\ Seen'
  BY <1>1, <1>4, <1>5 DEF FileInv, Queued, Pending, Started, Seen, Advancing, Reverting
<1> QED
  BY <1>3, <1>8, <1>9, <1>10 DEF FileInv

-----------------------------------------------------------------------------
(***************************************************************************)
(* Writing keeps the invariant.                                            *)
(***************************************************************************)
LEMMA ReadingPairs ==
    ASSUME Types
    PROVE  /\ \A f \in Answers : /\ f.provider \in Texts("provider")
                                 /\ f.mode \in Texts("mode")
           /\ io.to \in Answers /\ io.before \in Answers /\ memory.value \in Answers
           /\ io.raw[1] \in Texts("provider") /\ io.raw[2] \in Texts("mode")
           /\ io.kind \in Kinds
BY TypesFacts, PairFacts

\* A raw write leaves a text that the file may hold.
LEMMA HeadTexts ==
    ASSUME Types, Queued, io.queue # << >>, ~SetKind
    PROVE  Head(io.queue).value \in Texts(Head(io.queue).key)
<1> DEFINE q == io.queue
<1>1. Len(q) \in 1 .. 2 /\ io.kind # "idle"
  BY QueueFacts, HeadFacts
<1>2. ASSUME NEW x \in Texts("provider"), NEW y \in Texts("mode"), q \in RawQueues(x, y)
      PROVE  Head(q).value \in Texts(Head(q).key)
  BY <1>1, <1>2, RawQueuesLemma
<1>3. CASE io.kind = "stage"
  <2>1. q \in RawQueues(io.to.provider, io.to.mode)
    BY <1>1, <1>3, ReadingPairs, StageQueuesLemma DEF Queued
  <2> QED
    BY <1>2, <2>1, ReadingPairs
<1>4. CASE io.kind # "stage"
  BY <1>1, <1>2, <1>4, ReadingPairs DEF Queued, Kinds, SetKind
<1> QED
  BY <1>3, <1>4

LEMMA TailSeq ==
    ASSUME NEW q \in Seq(Writes), Len(q) # 0
    PROVE  Tail(q) \in Seq(Writes)
OBVIOUS

\* Whatever became of the first write, the rest of the queue is one of the same operation.
LEMMA PoppedQueued ==
    ASSUME Types, Queued, io.queue # << >>,
           io'.kind = io.kind, io'.queue = Tail(io.queue), io'.to = io.to,
           io'.before = io.before, io'.raw = io.raw,
           SetKind \/ memory' = memory
    PROVE  Queued'
<1> DEFINE q == io.queue
<1>0. /\ Len(q) # 0 /\ io.kind # "idle"
      /\ SetKind => io.kind \in {"apply", "restore", "stage"}
  BY QueueFacts, HeadFacts DEF SetKind
<1>1. CASE io.kind \in {"apply", "restore"}
  BY <1>0, <1>1, ReadingPairs, SetQueuesLemma DEF Queued
<1>2. CASE io.kind = "stage"
  <2>1. CASE Len(q) = 3
    BY <1>2, <2>1, ReadingPairs, StageQueuesLemma DEF Queued
  <2>2. CASE Len(q) # 3
    <3>1. q \in RawQueues(io.to.provider, io.to.mode)
      BY <1>2, <2>2, ReadingPairs, StageQueuesLemma DEF Queued
    <3>2. Tail(q) \in RawQueues(io.to.provider, io.to.mode)
      BY <1>0, <3>1, ReadingPairs, RawQueuesLemma
    <3> QED
      BY <1>2, <3>2 DEF Queued, StageQueues
  <2> QED
    BY <2>1, <2>2
<1>3. ASSUME NEW x \in Texts("provider"), NEW y \in Texts("mode"), q \in RawQueues(x, y)
      PROVE  Tail(q) \in RawQueues(x, y)
  BY <1>0, <1>3, RawQueuesLemma
<1>4. CASE io.kind \in {"commit", "restage", "unstage", "unrestage", "rollback"}
  <2>1. memory' = memory
    BY <1>4, <1>0
  <2> QED
    BY <1>3, <1>4, <2>1, ReadingPairs DEF Queued
<1> QED
  BY <1>0, <1>1, <1>2, <1>4, ReadingPairs DEF Kinds

LEMMA PassStep ==
    ASSUME FileInv, PassWrite
    PROVE  FileInv'
<1> DEFINE w == Head(io.queue)
           n == Len(io.queue)
<1> USE DEF FileInv
<1>1. /\ io.queue # << >> /\ io' = Popped
      /\ \/ Needless(w) /\ UNCHANGED <<ini, memory, ghost>>
         \/ ~Needless(w) /\ w.style = "set" /\ AfterSet(w)
         \/ ~Needless(w) /\ w.style # "set" /\ AfterRaw(w)
  BY DEF PassWrite
<1>2. /\ w \in Writes /\ Len(Tail(io.queue)) = n - 1
      /\ io.kind # "idle" /\ n \in 1 .. 3
      /\ w.style = IF SetKind THEN "set" ELSE "raw"
  BY <1>1, HeadFacts, QueueFacts
<1>3. /\ io'.kind = io.kind /\ io'.queue = Tail(io.queue) /\ io'.to = io.to
      /\ io'.before = io.before /\ io'.raw = io.raw /\ io'.torn = io.torn
      /\ io' \in [kind : Kinds, queue : Seq(Writes), to : Answers, before : Answers,
                  raw : Texts("provider") \X Texts("mode"), torn : BOOLEAN]
  <2>1. io.queue \in Seq(Writes) /\ Tail(io.queue) \in Seq(Writes)
    BY <1>1, <1>2, QueueFacts, TailSeq
  <2> QED
    BY <1>1, <2>1 DEF Popped, Types
<1>4. w.key \in LiveKeys /\ w.key \in Keys /\ w.value \in Words
  BY <1>2, KeysLemma DEF Writes
<1>5. SetKind => Touched = {} /\ Touched' = {}
  <2>1. CASE io.kind \in {"apply", "restore"}
    BY <1>3, <2>1 DEF Touched, Advancing, Reverting
  <2>2. CASE io.kind = "stage" /\ n = 3
    <3>1. Len(io'.queue) = 2 /\ io'.kind = "stage"
      BY <1>2, <1>3, <2>2
    <3>2. Touched = {}
      BY <2>2 DEF Touched, Advancing, Reverting
    <3>3. Touched' = {}
      BY <3>1 DEF Touched, Advancing, Reverting
    <3> QED
      BY <3>2, <3>3
  <2> QED
    BY <2>1, <2>2 DEF SetKind
<1>8. PICK key \in LiveKeys : w.key = key
  BY <1>4
<1>6. CASE SetKind
  <2>1. w.value \in Known[w.key] /\ w.style = "set"
    BY <1>1, <1>2, <1>6, HeadFacts
  <2>2. io'.kind \in {"apply", "restore", "stage"} /\ (io'.kind = "stage" => Len(io'.queue) = 2)
    BY <1>2, <1>3, <1>6 DEF SetKind
  <2>3. Remembered' /\ Pending'
    BY <2>2 DEF Remembered, Pending, Advancing, Reverting
  <2>4. Queued'
    BY <1>1, <1>3, <1>6, PoppedQueued
  <2>5. CASE UNCHANGED <<ini, memory, ghost>>
    <3>1. Accounted' /\ Seen' /\ Types' /\ Started'
      BY <1>3, <1>5, <1>6, <2>5 DEF Accounted, Seen, Types, Agree, Started
    <3> QED
      BY <3>1, <2>3, <2>4
  <2>6. CASE AfterSet(w)
    <3>1. /\ ini' = [ini EXCEPT !.present = TRUE, !.text[w.key] = w.value, !.unseen = FALSE]
          /\ memory' = [memory EXCEPT !.value[w.key] = w.value]
          /\ ghost' = [apart |-> (ghost.apart \cup ghost.unread) \ {w.key}, unread |-> {}]
      BY <2>6 DEF AfterSet
    <3>2. /\ [memory.value EXCEPT ![w.key] = w.value] \in Answers
          /\ [ini.text EXCEPT ![w.key] = w.value] \in Readings
      <4>1. w.value \in Texts(w.key)
        BY <1>4, <2>1, KeysLemma
      <4>2. memory.value \in Answers /\ ini.text \in Readings
        BY TypesFacts
      <4> QED
        BY <1>4, <2>1, <4>1, <4>2, AnswersUpdate, ReadingsUpdate
    <3>3. Types'
      BY <1>3, <3>1, <3>2 DEF Types
    <3>4. /\ memory'.value = [memory.value EXCEPT ![w.key] = w.value]
          /\ ini'.text = [ini.text EXCEPT ![w.key] = w.value]
          /\ memory'.loaded = memory.loaded
      BY <3>1 DEF Types
    <3>5. /\ \A k \in Keys : k # w.key => Agree(k)' = Agree(k)
          /\ Agree(key)'
      <4>1. memory.value \in [Keys -> Words] /\ ini.text \in [Keys -> Words]
        BY TypesFacts DEF Answers, Readings
      <4>2. \A k \in Keys : k # w.key =>
                memory'.value[k] = memory.value[k] /\ ini'.text[k] = ini.text[k]
        BY <3>4, <4>1
      <4>3. memory'.value[w.key] = w.value /\ ini'.text[w.key] = w.value
        BY <1>4, <3>4, <4>1
      <4>4. ReadKey(w.key, w.value) = w.value
        BY <1>4, <2>1, ReadLemma
      <4> QED
        BY <1>8, <4>2, <4>3, <4>4 DEF Agree
    <3>6. Accounted' /\ Seen'
      BY <1>5, <1>6, <1>8, <3>1, <3>4, <3>5, KeysLemma DEF Accounted, Seen
    <3>7. Started'
      BY <1>2, <1>3, <3>4 DEF Started
    <3> QED
      BY <2>3, <2>4, <3>3, <3>6, <3>7
  <2> QED
    BY <1>1, <2>1, <2>5, <2>6
<1>7. CASE ~SetKind
  <2>1. /\ ini' = [ini EXCEPT !.text[w.key] = w.value, !.unseen = TRUE]
        /\ UNCHANGED <<memory, ghost>>
    BY <1>1, <1>2, <1>7 DEF AfterRaw, Needless
  <2>2. /\ n \in 1 .. 2
        /\ n = 2 => w.key = "provider"
        /\ n = 1 => w.key = "mode"
        /\ Advancing \/ Reverting
    <3>1. n \in 0 .. 2
      BY <1>2, <1>7, QueueFacts
    <3> QED
      BY <1>1, <1>2, <1>7, <3>1, HeadFacts, ReadingPairs DEF Kinds, SetKind, Advancing, Reverting
  <2>3. Types'
    <3>1. w.value \in Texts(w.key)
      BY <1>1, <1>7, HeadTexts
    <3>2. [ini.text EXCEPT ![w.key] = w.value] \in Readings
      BY <1>4, <3>1, TypesFacts, ReadingsUpdate
    <3> QED
      BY <1>3, <2>1, <3>2 DEF Types
  <2>4. /\ ini'.text = [ini.text EXCEPT ![w.key] = w.value]
        /\ ini'.unseen = TRUE
    BY <2>1 DEF Types
  <2>5. \A k \in Keys : k # w.key => Agree(k)' = Agree(k)
    <3>1. ini.text \in [Keys -> Words]
      BY TypesFacts DEF Readings
    <3> QED
      BY <2>1, <2>4, <3>1 DEF Agree
  <2>6. Queued'
    BY <1>1, <1>3, <2>1, PoppedQueued
  <2>7. Seen' /\ Pending'
    BY <2>4 DEF Seen, Pending
  <2>8. Remembered' /\ Started'
    BY <1>3, <2>1 DEF Remembered, Started
  <2>9. Advancing' = Advancing /\ Reverting' = Reverting /\ ~(Advancing /\ Reverting)
    BY <1>3 DEF Advancing, Reverting
  <2>10. Len(io'.queue) = n - 1
    BY <1>2, <1>3
  <2>11. CASE Advancing
    <3>1. Touched = IF n = 2 THEN {} ELSE {"provider"}
      BY <2>2, <2>9, <2>11 DEF Touched
    <3>2. Touched' = IF n = 2 THEN {"provider"} ELSE {"provider", "mode"}
      BY <2>2, <2>9, <2>10, <2>11 DEF Touched
    <3>3. Accounted'
      BY <2>1, <2>2, <2>5, <3>1, <3>2, KeysLemma DEF Accounted
    <3> QED
      BY <2>3, <2>6, <2>7, <2>8, <3>3
  <2>12. CASE Reverting
    <3>1. Touched = IF n = 2 THEN {"provider", "mode"} ELSE {"mode"}
      BY <2>2, <2>9, <2>12 DEF Touched
    <3>2. Touched' = IF n = 2 THEN {"mode"} ELSE {}
      <4>1. CASE n = 2
        BY <2>2, <2>9, <2>10, <2>12, <4>1 DEF Touched
      <4>2. CASE n = 1
        BY <2>2, <2>9, <2>10, <2>12, <4>2 DEF Touched
      <4> QED
        BY <2>2, <4>1, <4>2
    <3>3. Agree(key)' \/ key \in ghost.apart \cup ghost.unread
      <4>1. /\ n = 2 => w.value = IF io.kind = "rollback" THEN io.raw[1]
                                  ELSE memory.value["provider"]
            /\ n = 1 => w.value = IF io.kind = "rollback" THEN io.raw[2]
                                  ELSE memory.value["mode"]
        BY <1>1, <2>12, RevertFacts
      <4>2. ini'.text[w.key] = w.value
        BY <1>4, <2>4, TypesFacts DEF Readings
      <4>3. memory.value[w.key] \in Known[w.key]
        BY <1>4, TypesFacts, AnswersUpdate
      <4>4. ReadKey(w.key, memory.value[w.key]) = memory.value[w.key]
        BY <1>4, <4>3, ReadLemma
      <4>5. CASE io.kind = "rollback"
        BY <1>8, <2>1, <2>2, <4>1, <4>2, <4>5 DEF Agree, Remembered
      <4>6. CASE io.kind # "rollback"
        BY <1>8, <2>1, <2>2, <4>1, <4>2, <4>4, <4>6 DEF Agree
      <4> QED
        BY <4>5, <4>6
    <3>4. Accounted'
      BY <1>8, <2>1, <2>2, <2>5, <3>1, <3>2, <3>3, KeysLemma DEF Accounted
    <3> QED
      BY <2>3, <2>6, <2>7, <2>8, <3>4
  <2> QED
    BY <2>2, <2>11, <2>12
<1> QED
  BY <1>6, <1>7

\* A save that the setter's own reading of the file's time hides is `apart`.
LEMMA RacedWriteStep ==
    ASSUME FileInv, NEW key \in LiveKeys, NEW text \in Known[key], RacedWrite(key, text)
    PROVE  /\ FileInv' /\ io'.torn = TRUE /\ io'.kind # "idle"
           /\ memory'.loaded = memory.loaded
           /\ memory'.value["vendor"] = memory.value["vendor"]
<1> DEFINE w == Head(io.queue)
           n == Len(io.queue)
<1> USE DEF FileInv
<1>1. /\ io.queue # << >> /\ w.key = key /\ w.style = "set"
      /\ ini' = [ini EXCEPT !.present = TRUE, !.text[key] = text, !.unseen = FALSE]
      /\ memory' = [memory EXCEPT !.value[key] = w.value]
      /\ ghost' = [apart |-> ghost.apart \cup ghost.unread \cup {key}, unread |-> {}]
      /\ io' = [Popped EXCEPT !.torn = TRUE]
  BY DEF RacedWrite
<1>2. /\ w \in Writes /\ Len(Tail(io.queue)) = n - 1
      /\ io.kind # "idle" /\ n \in 1 .. 3
      /\ w.style = IF SetKind THEN "set" ELSE "raw"
  BY <1>1, HeadFacts, QueueFacts
<1>3. SetKind /\ w.value \in Known[key]
  BY <1>1, <1>2, HeadFacts
<1>4. /\ io'.kind = io.kind /\ io'.queue = Tail(io.queue) /\ io'.to = io.to
      /\ io'.before = io.before /\ io'.raw = io.raw /\ io'.torn = TRUE
      /\ io' \in [kind : Kinds, queue : Seq(Writes), to : Answers, before : Answers,
                  raw : Texts("provider") \X Texts("mode"), torn : BOOLEAN]
  <2>1. io.queue \in Seq(Writes) /\ Tail(io.queue) \in Seq(Writes)
    BY <1>1, <1>2, QueueFacts, TailSeq
  <2> QED
    BY <1>1, <2>1 DEF Popped, Types
<1>5. Touched = {}
  <2>1. CASE io.kind \in {"apply", "restore"}
    BY <2>1 DEF Touched, Advancing, Reverting
  <2>2. CASE io.kind = "stage" /\ n = 3
    BY <2>2 DEF Touched, Advancing, Reverting
  <2> QED
    BY <1>3, <2>1, <2>2 DEF SetKind
<1>6. io'.kind \in {"apply", "restore", "stage"} /\ (io'.kind = "stage" => Len(io'.queue) = 2)
  BY <1>2, <1>3, <1>4 DEF SetKind
<1>7. Remembered' /\ Pending'
  BY <1>6 DEF Remembered, Pending, Advancing, Reverting
<1>8. Queued'
  BY <1>1, <1>3, <1>4, PoppedQueued
<1>9. /\ memory'.value = [memory.value EXCEPT ![key] = w.value]
      /\ ini'.text = [ini.text EXCEPT ![key] = text]
      /\ memory'.loaded = memory.loaded
  BY <1>1 DEF Types
<1>10. Types'
  <2>1. text \in Texts(key) /\ key \in Keys
    BY KeysLemma
  <2>2. /\ [memory.value EXCEPT ![key] = w.value] \in Answers
        /\ [ini.text EXCEPT ![key] = text] \in Readings
    BY <1>3, <2>1, TypesFacts, AnswersUpdate, ReadingsUpdate
  <2>3. ghost' \in [apart : SUBSET LiveKeys, unread : SUBSET LiveKeys]
    BY <1>1, TypesFacts
  <2> QED
    BY <1>1, <1>4, <2>2, <2>3 DEF Types
<1>11. /\ memory.value \in [Keys -> Words] /\ ini.text \in [Keys -> Words]
       /\ key # "vendor"
  BY TypesFacts, KeysLemma DEF Answers, Readings
<1>12. \A k \in Keys : k # key => Agree(k)' = Agree(k)
  BY <1>9, <1>11 DEF Agree
<1>13. Accounted' /\ Seen'
  BY <1>1, <1>5, <1>9, <1>12, KeysLemma DEF Accounted, Seen
<1>14. Started'
  BY <1>2, <1>4, <1>9 DEF Started
<1>15. memory'.value["vendor"] = memory.value["vendor"]
  BY <1>9, <1>11, KeysLemma
<1> QED
  BY <1>2, <1>4, <1>7, <1>8, <1>9, <1>10, <1>13, <1>14, <1>15

\* The queues that operations and their undoing start from.
LEMMA FreshQueues ==
    /\ \A f \in Answers :
         LET q == Append(PairWrites(f.provider, f.mode, "set"), OptionWrite(f.option))
         IN  q \in SetQueues(f) /\ Len(q) = 3 /\ q \in Seq(Writes)
    /\ \A f \in Answers :
         LET q == <<OptionWrite(f.option)>> \o PairWrites(f.provider, f.mode, "raw")
         IN  q \in StageQueues(f) /\ Len(q) = 3 /\ q \in Seq(Writes)
    /\ \A x \in Texts("provider"), y \in Texts("mode") :
         LET q == PairWrites(x, y, "raw")
         IN  q \in RawQueues(x, y) /\ Len(q) = 2 /\ q \in Seq(Writes)
<1>1. ASSUME NEW f \in Answers
      PROVE  LET q == Append(PairWrites(f.provider, f.mode, "set"), OptionWrite(f.option))
             IN  q \in SetQueues(f) /\ Len(q) = 3 /\ q \in Seq(Writes)
  <2> DEFINE q == <<Write("provider", f.provider, "set"), Write("mode", f.mode, "set"),
                    OptionWrite(f.option)>>
  <2>1. Append(PairWrites(f.provider, f.mode, "set"), OptionWrite(f.option)) = q
    BY TripleLemma DEF PairWrites
  <2>2. q \in SetQueues(f) /\ Len(q) = 3
    BY DEF SetQueues
  <2>3. q \in Seq(Writes)
    BY <2>2, SetQueuesLemma
  <2> QED
    BY <2>1, <2>2, <2>3
<1>2. ASSUME NEW f \in Answers
      PROVE  LET q == <<OptionWrite(f.option)>> \o PairWrites(f.provider, f.mode, "raw")
             IN  q \in StageQueues(f) /\ Len(q) = 3 /\ q \in Seq(Writes)
  <2> DEFINE q == <<OptionWrite(f.option), Write("provider", f.provider, "raw"),
                    Write("mode", f.mode, "raw")>>
  <2>1. <<OptionWrite(f.option)>> \o PairWrites(f.provider, f.mode, "raw") = q
    BY TripleLemma DEF PairWrites
  <2>2. q \in StageQueues(f) /\ Len(q) = 3
    BY DEF StageQueues
  <2>3. q \in Seq(Writes)
    BY <2>2, StageQueuesLemma
  <2> QED
    BY <2>1, <2>2, <2>3
<1>3. ASSUME NEW x \in Texts("provider"), NEW y \in Texts("mode")
      PROVE  LET q == PairWrites(x, y, "raw")
             IN  q \in RawQueues(x, y) /\ Len(q) = 2 /\ q \in Seq(Writes)
  <2> DEFINE q == PairWrites(x, y, "raw")
  <2>1. q \in RawQueues(x, y) /\ Len(q) = 2
    BY DEF RawQueues, PairWrites
  <2>2. q \in Seq(Writes)
    BY <2>1, RawQueuesLemma
  <2> QED
    BY <2>1, <2>2
<1> QED
  BY <1>1, <1>2, <1>3

IoType == [kind : Kinds, queue : Seq(Writes), to : Answers, before : Answers,
           raw : Texts("provider") \X Texts("mode"), torn : BOOLEAN]

\* What the next operation is, once the current one is through or refused.
LEMMA NextQueues ==
    ASSUME Types
    PROVE  /\ RestoreEverything(io.before) \in IoType
           /\ RestoreEverything(io.before).kind = "restore"
           /\ RestoreEverything(io.before).queue \in SetQueues(io.before)
           /\ Len(RestoreEverything(io.before).queue) = 3
           /\ RestoreEverything(io.before).before = io.before
           /\ StagePrevious(io.before) \in IoType
           /\ StagePrevious(io.before).kind = "restage"
           /\ StagePrevious(io.before).queue
                  \in RawQueues(io.before.provider, io.before.mode)
           /\ Len(StagePrevious(io.before).queue) = 2
           /\ StagePrevious(io.before).before = io.before
           /\ \A then \in {"unstage", "unrestage"} :
                /\ Unstage(then) \in IoType
                /\ Unstage(then).kind = then
                /\ Unstage(then).queue
                       \in RawQueues(memory.value.provider, memory.value.mode)
                /\ Len(Unstage(then).queue) = 2
           /\ RestorePhysical \in IoType
           /\ RestorePhysical.kind = "rollback"
           /\ RestorePhysical.queue \in RawQueues(io.raw[1], io.raw[2])
           /\ Len(RestorePhysical.queue) = 2
           /\ RestorePhysical.raw = io.raw
<1>1. /\ io \in IoType
      /\ io.before \in Answers /\ memory.value \in Answers
      /\ io.raw[1] \in Texts("provider") /\ io.raw[2] \in Texts("mode")
  BY ReadingPairs DEF Types, IoType
<1>2. /\ io.before.provider \in Texts("provider") /\ io.before.mode \in Texts("mode")
      /\ memory.value.provider \in Texts("provider") /\ memory.value.mode \in Texts("mode")
  BY <1>1, ReadingPairs
<1>3. /\ RestoreEverything(io.before) \in IoType
      /\ RestoreEverything(io.before).kind = "restore"
      /\ RestoreEverything(io.before).queue \in SetQueues(io.before)
      /\ Len(RestoreEverything(io.before).queue) = 3
      /\ RestoreEverything(io.before).before = io.before
  BY <1>1, FreshQueues DEF RestoreEverything, IoType, Kinds
<1>4. \A x \in Texts("provider"), y \in Texts("mode") :
          /\ PairWrites(x, y, "raw") \in RawQueues(x, y)
          /\ Len(PairWrites(x, y, "raw")) = 2
          /\ PairWrites(x, y, "raw") \in Seq(Writes)
  BY FreshQueues
<1>6. /\ StagePrevious(io.before) \in IoType
      /\ StagePrevious(io.before).kind = "restage"
      /\ StagePrevious(io.before).queue
             \in RawQueues(io.before.provider, io.before.mode)
      /\ Len(StagePrevious(io.before).queue) = 2
      /\ StagePrevious(io.before).before = io.before
  BY <1>1, <1>2, <1>4 DEF StagePrevious, IoType, Kinds
<1>7. ASSUME NEW then \in {"unstage", "unrestage"}
      PROVE  /\ Unstage(then) \in IoType
             /\ Unstage(then).kind = then
             /\ Unstage(then).queue
                    \in RawQueues(memory.value.provider, memory.value.mode)
             /\ Len(Unstage(then).queue) = 2
  BY <1>1, <1>2, <1>4 DEF Unstage, IoType, Kinds
<1>8. /\ RestorePhysical \in IoType
      /\ RestorePhysical.kind = "rollback"
      /\ RestorePhysical.queue \in RawQueues(io.raw[1], io.raw[2])
      /\ Len(RestorePhysical.queue) = 2
      /\ RestorePhysical.raw = io.raw
  BY <1>1, <1>4 DEF RestorePhysical, IoType, Kinds
<1> QED
  BY <1>3, <1>6, <1>7, <1>8

\* A step that writes nothing, once the operation that follows it is known.
LEMMA QuietStep ==
    ASSUME FileInv, ini' = ini, memory' = memory,
           ghost' \in [apart : SUBSET LiveKeys, unread : SUBSET LiveKeys],
           ghost.apart = ghost'.apart, ghost.unread \subseteq ghost'.unread,
           io' \in IoType, Queued', Remembered', Pending', Started',
           memory.loaded => Touched \subseteq Touched' \cup ghost'.unread
    PROVE  FileInv'
<1>1. Types'
  BY DEF FileInv, Types, IoType
<1>2. \A k : Agree(k)' = Agree(k)
  BY DEF Agree
<1>3. Accounted'
  BY <1>2 DEF FileInv, Accounted
<1>4. Seen'
  BY <1>2 DEF FileInv, Seen
<1> QED
  BY <1>1, <1>3, <1>4 DEF FileInv

LEMMA IdleLemma ==
    /\ Idle \in IoType /\ Idle.kind = "idle" /\ Idle.queue = << >> /\ Len(Idle.queue) = 0
<1>1. Pair(Default) \in Texts("provider") \X Texts("mode")
  BY DefaultLemma, PairFacts
<1>2. << >> \in Seq(Writes) /\ Len(<< >>) = 0
  OBVIOUS
<1> QED
  BY <1>1, <1>2, DefaultLemma DEF Idle, IoType, Kinds

LEMMA RefuseStep ==
    ASSUME FileInv, RefuseWrite
    PROVE  FileInv'
<1> USE DEF FileInv
<1> DEFINE n == Len(io.queue)
<1>1. io.queue # << >> /\ io.kind # "idle" /\ memory.loaded
  <2>1. io.queue # << >>
    BY DEF RefuseWrite
  <2> QED
    BY <2>1, HeadFacts, TypesFacts DEF Started
<1>2. n \in 1 .. 3 /\ Head(io.queue).key \in LiveKeys /\ io.kind \in Kinds
  BY <1>1, QueueFacts, HeadFacts, TypesFacts DEF Writes
<1>3. ghost \in [apart : SUBSET LiveKeys, unread : SUBSET LiveKeys]
  BY DEF Types
<1>4. CASE io.kind \in Undoing
  <2>1. /\ io' = [Popped EXCEPT !.torn = TRUE]
        /\ ghost' = [ghost EXCEPT !.unread = @ \cup {Head(io.queue).key}]
        /\ UNCHANGED <<ini, memory>>
    BY <1>4 DEF RefuseWrite, AfterRefusal, Undoing
  <2>2. /\ io'.kind = io.kind /\ io'.queue = Tail(io.queue) /\ io'.to = io.to
        /\ io'.before = io.before /\ io'.raw = io.raw
        /\ io' \in IoType
    <3>1. Tail(io.queue) \in Seq(Writes)
      BY <1>2, QueueFacts, TailSeq
    <3> QED
      BY <2>1, <3>1 DEF Popped, Types, IoType
  <2>3. Queued'
    BY <1>1, <2>1, <2>2, PoppedQueued
  <2>4. Len(io'.queue) = n - 1
    BY <1>1, <2>2, HeadFacts
  <2>5. /\ ghost' \in [apart : SUBSET LiveKeys, unread : SUBSET LiveKeys]
        /\ ghost.apart = ghost'.apart
        /\ ghost'.unread = ghost.unread \cup {Head(io.queue).key}
    BY <1>2, <1>3, <2>1
  <2>6. Remembered' /\ Pending' /\ Started'
    BY <1>4, <2>1, <2>2, <2>5 DEF Remembered, Pending, Started, Advancing, Reverting, Undoing
  <2>7. Touched \subseteq Touched' \cup ghost'.unread
    <3>1. CASE io.kind = "restore"
      BY <3>1 DEF Touched, Advancing, Reverting
    <3>2. CASE io.kind # "restore"
      <4>1. Reverting /\ ~Advancing /\ Reverting'
        BY <1>4, <2>2, <3>2 DEF Advancing, Reverting, Undoing
      <4>2. n \in 1 .. 2 /\ (n = 2 => Head(io.queue).key = "provider")
            /\ (n = 1 => Head(io.queue).key = "mode")
        BY <1>1, <1>2, <4>1, QueueFacts, HeadFacts DEF SetKind, Reverting
      <4>3. CASE n = 2
        BY <2>4, <2>5, <4>1, <4>2, <4>3 DEF Touched
      <4>4. CASE n = 1
        BY <2>5, <4>1, <4>2, <4>4 DEF Touched
      <4> QED
        BY <4>2, <4>3, <4>4
    <3> QED
      BY <3>1, <3>2
  <2> QED
    BY <2>1, <2>2, <2>3, <2>5, <2>6, <2>7, QuietStep
<1>5. CASE io.kind \notin Undoing
  <2>1. io' = AfterRefusal /\ ghost' = ghost /\ UNCHANGED <<ini, memory>>
    BY <1>5 DEF RefuseWrite
  <2>2. CASE io.kind = "apply" \/ (io.kind = "restage" /\ ~AtMode)
    <3>1. io' = RestoreEverything(io.before)
      BY <2>1, <2>2 DEF AfterRefusal
    <3>2. /\ io' \in IoType /\ io'.kind = "restore" /\ io'.before = io.before
          /\ io'.queue \in SetQueues(io'.before)
      BY <3>1, NextQueues
    <3>3. Touched = {}
      <4>1. io.kind = "restage" => n = 2
        BY <1>2, <2>2, QueueFacts DEF AtMode, SetKind
      <4> QED
        BY <2>2, <4>1 DEF Touched, Advancing, Reverting
    <3>4. Queued' /\ Remembered' /\ Pending' /\ Started'
      BY <1>1, <2>1, <3>2 DEF Queued, Remembered, Pending, Started, Advancing, Reverting
    <3> QED
      BY <1>3, <2>1, <3>2, <3>3, <3>4, QuietStep
  <2>3. CASE io.kind = "commit" /\ AtMode
    <3>1. io' = RestorePhysical
      BY <2>1, <2>3 DEF AfterRefusal
    <3>2. /\ io' \in IoType /\ io'.kind = "rollback" /\ io'.raw = io.raw
          /\ io'.queue \in RawQueues(io'.raw[1], io'.raw[2]) /\ Len(io'.queue) = 2
      BY <3>1, NextQueues
    <3>3. Touched \subseteq Touched'
      BY <3>2 DEF Touched, Reverting
    <3>4. Queued' /\ Remembered' /\ Started'
      BY <1>1, <2>1, <2>3, <3>2 DEF Queued, Remembered, Started
    <3>5. Pending'
      BY <2>1, <2>3, <3>2 DEF Pending, Advancing, Reverting, AtMode
    <3> QED
      BY <1>3, <2>1, <3>2, <3>3, <3>4, <3>5, QuietStep
  <2>4. CASE io.kind = "commit" /\ ~AtMode
    <3>1. io' = Idle
      BY <2>1, <2>4 DEF AfterRefusal
    <3>2. Touched = {}
      <4>1. n = 2
        BY <1>2, <2>4, QueueFacts DEF AtMode, SetKind
      <4> QED
        BY <2>4, <4>1 DEF Touched, Advancing, Reverting
    <3>3. Queued' /\ Remembered' /\ Pending' /\ Started'
      BY <2>1, <3>1, IdleLemma DEF Queued, Remembered, Pending, Started, Advancing, Reverting
    <3> QED
      BY <1>3, <2>1, <3>1, <3>2, <3>3, IdleLemma, QuietStep
  <2>5. CASE io.kind \in {"stage", "restage"} /\ AtMode
    <3> DEFINE then == IF io.kind = "stage" THEN "unstage" ELSE "unrestage"
    <3>1. io' = Unstage(then) /\ then \in {"unstage", "unrestage"}
      BY <2>1, <2>5 DEF AfterRefusal
    <3>2. /\ io' \in IoType /\ io'.kind \in {"unstage", "unrestage"}
          /\ io'.queue \in RawQueues(memory.value.provider, memory.value.mode)
          /\ Len(io'.queue) = 2
      BY <3>1, NextQueues
    <3>3. Touched \subseteq Touched'
      BY <3>2 DEF Touched, Reverting
    <3>4. Queued' /\ Remembered' /\ Started'
      BY <1>1, <2>1, <3>2 DEF Queued, Remembered, Started
    <3>5. Pending'
      BY <2>1, <2>5, <3>2 DEF Pending, Advancing, Reverting, AtMode
    <3> QED
      BY <1>3, <2>1, <3>2, <3>3, <3>4, <3>5, QuietStep
  <2>6. CASE io.kind = "stage" /\ ~AtMode
    <3>1. io' = StagePrevious(io.before)
      BY <2>1, <2>6 DEF AfterRefusal
    <3>2. /\ io' \in IoType /\ io'.kind = "restage" /\ io'.before = io.before
          /\ io'.queue \in RawQueues(io'.before.provider, io'.before.mode)
          /\ Len(io'.queue) = 2
      BY <3>1, NextQueues
    <3>3. Touched = {}
      BY <1>2, <2>6 DEF Touched, Advancing, Reverting, AtMode
    <3>4. Queued' /\ Remembered' /\ Pending' /\ Started'
      BY <1>1, <2>1, <3>2 DEF Queued, Remembered, Pending, Started, Advancing, Reverting
    <3> QED
      BY <1>3, <2>1, <3>2, <3>3, <3>4, QuietStep
  <2> QED
    BY <1>1, <1>2, <1>5, <2>2, <2>3, <2>4, <2>5, <2>6 DEF Kinds, Undoing
<1> QED
  BY <1>4, <1>5

LEMMA FinishStep ==
    ASSUME FileInv, FinishApply \/ FailApply \/ FinishUnstage
    PROVE  FileInv'
<1> USE DEF FileInv
<1>1. /\ UNCHANGED <<ini, memory, ghost>> /\ io.queue = << >> /\ Len(io.queue) = 0
      /\ io.kind \in {"apply", "restore", "rollback", "unstage", "unrestage"}
  BY QueueFacts DEF FinishApply, FailApply, FinishUnstage, Drained
<1>2. ghost \in [apart : SUBSET LiveKeys, unread : SUBSET LiveKeys]
  BY DEF Types
<1>3. Touched = {} /\ memory.loaded
  BY <1>1, TypesFacts DEF Touched, Advancing, Started
<1>4. CASE io' = Idle
  <2>1. Queued' /\ Remembered' /\ Pending' /\ Started'
    BY <1>4, IdleLemma DEF Queued, Remembered, Pending, Started, Advancing, Reverting
  <2> QED
    BY <1>1, <1>2, <1>3, <1>4, <2>1, IdleLemma, QuietStep
<1>5. CASE io' = StagePrevious(io.before)
  <2>1. /\ io' \in IoType /\ io'.kind = "restage" /\ io'.before = io.before
        /\ io'.queue \in RawQueues(io'.before.provider, io'.before.mode)
        /\ Len(io'.queue) = 2
    BY <1>5, NextQueues
  <2>2. Queued' /\ Remembered' /\ Pending' /\ Started'
    BY <1>1, <1>3, <2>1 DEF Queued, Remembered, Pending, Started, Advancing, Reverting
  <2> QED
    BY <1>1, <1>2, <1>3, <2>1, <2>2, QuietStep
<1>6. CASE io' = RestoreEverything(io.before)
  <2>1. /\ io' \in IoType /\ io'.kind = "restore" /\ io'.before = io.before
        /\ io'.queue \in SetQueues(io'.before)
    BY <1>6, NextQueues
  <2>2. Queued' /\ Remembered' /\ Pending' /\ Started'
    BY <1>1, <1>3, <2>1 DEF Queued, Remembered, Pending, Started, Advancing, Reverting
  <2> QED
    BY <1>1, <1>2, <1>3, <2>1, <2>2, QuietStep
<1> QED
  BY <1>4, <1>5, <1>6 DEF FinishApply, FailApply, FinishUnstage

LEMMA FinishStageStep ==
    ASSUME FileInv, FinishStage
    PROVE  FileInv'
<1> USE DEF FileInv
<1>1. /\ io.queue = << >> /\ io.kind \in {"stage", "restage"}
      /\ ini' = [ini EXCEPT !.unseen = FALSE]
      /\ ghost' = [apart |-> ghost.apart \cup ghost.unread \cup {"provider", "mode"},
                   unread |-> {}]
      /\ memory' = memory
      /\ io' = Idle \/ io' = RestoreEverything(io.before)
  BY DEF FinishStage, Drained, Absorb
<1>2. /\ io' \in IoType /\ io'.kind \in {"idle", "restore"} /\ Queued'
  <2>1. CASE io' = Idle
    BY <2>1, IdleLemma DEF Queued
  <2>2. CASE io' = RestoreEverything(io.before)
    <3>1. /\ io' \in IoType /\ io'.kind = "restore" /\ io'.before = io.before
          /\ io'.queue \in SetQueues(io'.before)
      BY <2>2, NextQueues
    <3> QED
      BY <3>1 DEF Queued
  <2> QED
    BY <1>1, <2>1, <2>2
<1>3. Types'
  <2>1. ghost' \in [apart : SUBSET LiveKeys, unread : SUBSET LiveKeys]
    BY <1>1, TypesFacts, KeysLemma
  <2> QED
    BY <1>1, <1>2, <2>1 DEF Types, IoType
<1>4. \A k : Agree(k)' = Agree(k)
  BY <1>1 DEF Agree, Types
<1>5. Touched \subseteq {"provider", "mode"}
  BY DEF Touched
<1>6. Accounted' /\ Seen'
  BY <1>1, <1>4, <1>5 DEF Accounted, Seen
<1>7. memory.loaded
  BY <1>1, TypesFacts DEF Started
<1>8. Remembered' /\ Pending' /\ Started'
  BY <1>1, <1>2, <1>7 DEF Remembered, Pending, Started, Advancing, Reverting
<1> QED
  BY <1>2, <1>3, <1>6, <1>8

LEMMA VerifyStep ==
    ASSUME FileInv, VerifyCommit
    PROVE  FileInv'
<1> USE DEF FileInv
<1>1. /\ io.kind = "commit" /\ io.queue = << >> /\ Len(io.queue) = 0
      /\ Pair(ini.text) = Pair(io.to)
      /\ memory' = [memory EXCEPT !.value.provider = io.to.provider,
                                  !.value.mode = io.to.mode]
      /\ ini' = [ini EXCEPT !.unseen = FALSE]
      /\ ghost' = [apart |-> (ghost.apart \cup ghost.unread) \ {"provider", "mode"},
                   unread |-> {}]
      /\ io' = Idle
  BY QueueFacts DEF VerifyCommit, Drained, Absorb
<1>2. /\ memory.value \in Answers /\ io.to \in Answers /\ ini.text \in Readings
      /\ io.to.provider \in Known["provider"] /\ io.to.mode \in Known["mode"]
  BY TypesFacts, PairFacts
<1>3. /\ memory'.value = [memory.value EXCEPT !.provider = io.to.provider,
                                              !.mode = io.to.mode]
      /\ memory'.loaded = memory.loaded
      /\ memory' = [loaded |-> memory.loaded, value |-> memory'.value]
  BY <1>1 DEF Types
<1>4. memory'.value \in Answers
  <2>1. io.to.provider \in Known.provider /\ io.to.mode \in Known.mode
    BY <1>2
  <2>2. \A p \in Known.provider, m \in Known.mode :
            [memory.value EXCEPT !.provider = p, !.mode = m] \in Answers
    BY <1>2, AnswersUpdate
  <2> QED
    BY <1>3, <2>1, <2>2
<1>5. Types'
  <2>1. ghost' \in [apart : SUBSET LiveKeys, unread : SUBSET LiveKeys]
    BY <1>1, TypesFacts
  <2>2. memory' \in [loaded : BOOLEAN, value : Answers]
    BY <1>3, <1>4, TypesFacts
  <2> QED
    BY <1>1, <2>1, <2>2, IdleLemma DEF Types, IoType
<1>6. /\ memory'.value["provider"] = io.to.provider /\ ini'.text["provider"] = io.to.provider
      /\ memory'.value["mode"] = io.to.mode /\ ini'.text["mode"] = io.to.mode
      /\ memory'.value["option"] = memory.value["option"]
      /\ ini'.text["option"] = ini.text["option"]
  <2>1. memory.value \in [Keys -> Words] /\ ini'.text = ini.text
    BY <1>1, <1>2 DEF Answers, Types
  <2>2. ini.text["provider"] = io.to.provider /\ ini.text["mode"] = io.to.mode
    BY <1>1 DEF Pair
  <2> QED
    BY <1>3, <2>1, <2>2, KeysLemma
<1>7. Agree("provider")' /\ Agree("mode")' /\ (Agree("option")' <=> Agree("option"))
  BY <1>2, <1>6, ReadLemma, KeysLemma DEF Agree
<1>8. "option" \notin Touched
  BY DEF Touched
<1>9. \A k \in LiveKeys : memory'.loaded => Agree(k)' \/ k \in ghost'.apart
  BY <1>1, <1>3, <1>7, <1>8, KeysLemma DEF Accounted
<1>10. Accounted' /\ Seen'
  BY <1>9 DEF Accounted, Seen
<1>11. Queued' /\ Remembered' /\ Pending' /\ Started'
  BY <1>1, IdleLemma DEF Queued, Remembered, Pending, Started, Advancing, Reverting
<1> QED
  BY <1>5, <1>10, <1>11

\* The same where the pair is saved behind the comparison's back.
LEMMA RacedCommitStep ==
    ASSUME FileInv, NEW key \in LiveKeys, NEW text \in Known[key], RacedCommit(key, text)
    PROVE  /\ FileInv' /\ io'.torn = TRUE
           /\ memory'.loaded = memory.loaded
           /\ memory'.value["vendor"] = memory.value["vendor"]
<1> USE DEF FileInv
<1>1. /\ io.kind = "commit" /\ io.queue = << >> /\ key \in {"provider", "mode"}
      /\ Pair(ini.text) = Pair(io.to)
      /\ memory' = [memory EXCEPT !.value.provider = io.to.provider,
                                  !.value.mode = io.to.mode]
      /\ ini' = [ini EXCEPT !.text[key] = text, !.unseen = FALSE]
      /\ ghost' = [apart |-> ((ghost.apart \cup ghost.unread) \ {"provider", "mode"})
                                \cup {key},
                   unread |-> {}]
      /\ io' = [Idle EXCEPT !.torn = TRUE]
  BY DEF RacedCommit, Drained
<1>2. /\ memory.value \in Answers /\ io.to \in Answers /\ ini.text \in Readings
      /\ io.to.provider \in Known["provider"] /\ io.to.mode \in Known["mode"]
  BY TypesFacts, PairFacts
<1>3. /\ memory'.value = [memory.value EXCEPT !.provider = io.to.provider,
                                              !.mode = io.to.mode]
      /\ memory'.loaded = memory.loaded
      /\ memory' = [loaded |-> memory.loaded, value |-> memory'.value]
  BY <1>1 DEF Types
<1>4. memory'.value \in Answers
  <2>1. io.to.provider \in Known.provider /\ io.to.mode \in Known.mode
    BY <1>2
  <2>2. \A p \in Known.provider, m \in Known.mode :
            [memory.value EXCEPT !.provider = p, !.mode = m] \in Answers
    BY <1>2, AnswersUpdate
  <2> QED
    BY <1>3, <2>1, <2>2
<1>5. /\ io' \in IoType /\ io'.kind = "idle" /\ io'.queue = << >>
      /\ Len(io'.queue) = 0 /\ io'.torn = TRUE
  BY <1>1, IdleLemma DEF IoType
<1>6. ini'.text = [ini.text EXCEPT ![key] = text]
  BY <1>1 DEF Types
<1>7. Types'
  <2>1. ghost' \in [apart : SUBSET LiveKeys, unread : SUBSET LiveKeys]
    BY <1>1, TypesFacts
  <2>2. memory' \in [loaded : BOOLEAN, value : Answers]
    BY <1>3, <1>4, TypesFacts
  <2>3. [ini.text EXCEPT ![key] = text] \in Readings
    <3>1. text \in Texts(key) /\ key \in Keys
      BY KeysLemma
    <3> QED
      BY <1>2, <3>1, ReadingsUpdate
  <2> QED
    BY <1>1, <1>5, <2>1, <2>2, <2>3 DEF Types, IoType
<1>8. memory.value \in [Keys -> Words] /\ ini.text \in [Keys -> Words]
  BY <1>2 DEF Answers, Readings
<1>9. /\ memory'.value["provider"] = io.to.provider /\ memory'.value["mode"] = io.to.mode
      /\ memory'.value["option"] = memory.value["option"]
      /\ memory'.value["vendor"] = memory.value["vendor"]
      /\ \A k \in Keys : k # key => ini'.text[k] = ini.text[k]
  BY <1>3, <1>6, <1>8, KeysLemma
<1>10. ini.text["provider"] = io.to.provider /\ ini.text["mode"] = io.to.mode
  BY <1>1 DEF Pair
<1>11. /\ key # "provider" => Agree("provider")'
       /\ key # "mode" => Agree("mode")'
       /\ Agree("option")' <=> Agree("option")
  BY <1>1, <1>2, <1>9, <1>10, ReadLemma, KeysLemma DEF Agree
<1>12. "option" \notin Touched
  BY DEF Touched
<1>13. \A k \in LiveKeys : memory'.loaded => Agree(k)' \/ k \in ghost'.apart
  BY <1>1, <1>3, <1>11, <1>12, KeysLemma DEF Accounted
<1>14. Accounted' /\ Seen'
  BY <1>13 DEF Accounted, Seen
<1>15. Queued' /\ Remembered' /\ Pending' /\ Started'
  BY <1>5 DEF Queued, Remembered, Pending, Started, Advancing, Reverting
<1> QED
  BY <1>3, <1>5, <1>7, <1>9, <1>14, <1>15

\* Every save that falls between a write and its reading of the time.
LEMMA RacingStep ==
    ASSUME FileInv, RacingSave
    PROVE  /\ FileInv' /\ io'.torn = TRUE
           /\ memory'.loaded = memory.loaded
           /\ memory'.value["vendor"] = memory.value["vendor"]
<1>1. PICK key \in LiveKeys :
          \E text \in Known[key] : RacedWrite(key, text) \/ RacedCommit(key, text)
  BY DEF RacingSave
<1>2. PICK text \in Known[key] : RacedWrite(key, text) \/ RacedCommit(key, text)
  BY <1>1
<1> QED
  BY <1>2, RacedWriteStep, RacedCommitStep

LEMMA FailStep ==
    ASSUME FileInv, FailCommit
    PROVE  FileInv'
<1> USE DEF FileInv
<1>1. /\ UNCHANGED <<ini, memory, ghost>> /\ io' = RestorePhysical
      /\ io.kind = "commit" /\ Len(io.queue) = 0
  BY QueueFacts DEF FailCommit, Drained
<1>2. /\ io' \in IoType /\ io'.kind = "rollback" /\ io'.raw = io.raw
      /\ io'.queue \in RawQueues(io'.raw[1], io'.raw[2]) /\ Len(io'.queue) = 2
  BY <1>1, NextQueues
<1>3. Touched \subseteq Touched'
  BY <1>2 DEF Touched, Reverting
<1>4. Queued' /\ Remembered' /\ Pending'
  BY <1>1, <1>2 DEF Queued, Remembered, Pending, Advancing, Reverting
<1>5. Started'
  BY <1>1, TypesFacts DEF Started
<1>6. ghost \in [apart : SUBSET LiveKeys, unread : SUBSET LiveKeys]
  BY DEF Types
<1> QED
  BY <1>1, <1>2, <1>3, <1>4, <1>5, <1>6, QuietStep

LEMMA BeginStep ==
    ASSUME FileInv, memory.loaded, MenuWrites
    PROVE  FileInv'
<1> USE DEF FileInv
<1>1. ASSUME NEW kind \in {"apply", "stage", "commit"}, NEW to \in Answers,
             NEW queue \in Seq(Writes), Len(queue) \notin {0, 1},
             kind = "apply" => queue \in SetQueues(to),
             kind = "stage" => queue \in StageQueues(to) /\ Len(queue) = 3,
             kind = "commit" => queue \in RawQueues(to.provider, to.mode) /\ Len(queue) = 2,
             Begin(kind, to, queue)
      PROVE  FileInv'
  <2>1. /\ io.kind = "idle" /\ UNCHANGED <<ini, memory, ghost>>
        /\ io' = [kind |-> kind, queue |-> queue, to |-> to, before |-> memory.value,
                  raw |-> Pair(ini.text), torn |-> FALSE]
    BY <1>1 DEF Begin
  <2>2. io' \in IoType
    <3>1. Pair(ini.text) \in Texts("provider") \X Texts("mode")
      BY TypesFacts, ReadingsUpdate, KeysLemma DEF Pair
    <3> QED
      BY <1>1, <2>1, <3>1, TypesFacts DEF IoType, Kinds
  <2>7. io'.kind = kind /\ io'.queue = queue /\ io'.to = to
    BY <2>1
  <2>8. Len(io'.queue) \notin {0, 1}
    BY <1>1, <2>7, Zenon
  <2>3. Touched = {} /\ Touched' = {}
    <3>1. Touched = {}
      BY <2>1 DEF Touched, Advancing, Reverting
    <3>2. ~Reverting'
      BY <2>7 DEF Reverting
    <3>3. Touched' = {}
      BY <2>8, <3>2 DEF Touched
    <3> QED
      BY <3>1, <3>3
  <2>4. Queued' /\ Pending' /\ Started'
    <3>1. Queued'
      BY <1>1, <2>7 DEF Queued
    <3>2. Pending'
      BY <2>7, <2>8 DEF Pending, Reverting
    <3> QED
      BY <2>1, <3>1, <3>2 DEF Started
  <2>5. Remembered'
    <3>1. io'.raw[1] = ini.text["provider"] /\ io'.raw[2] = ini.text["mode"]
      BY <2>1 DEF Pair
    <3> QED
      BY <2>1, <2>3, <3>1, KeysLemma DEF Remembered, Accounted, Agree
  <2>6. ghost \in [apart : SUBSET LiveKeys, unread : SUBSET LiveKeys]
    BY DEF Types
  <2> QED
    BY <2>1, <2>2, <2>3, <2>4, <2>5, <2>6, QuietStep
<1>2. ASSUME NEW to \in Requests
      PROVE  LET all == [Default EXCEPT !.provider = to.provider, !.mode = to.mode,
                                        !.option = to.option]
                 pair == [Default EXCEPT !.provider = to.provider, !.mode = to.mode]
             IN  /\ all \in Answers /\ pair \in Answers
                 /\ all.provider = to.provider /\ all.mode = to.mode
                 /\ all.option = to.option
                 /\ pair.provider = to.provider /\ pair.mode = to.mode
  <2>1. to.provider \in Known.provider /\ to.mode \in Known.mode /\ to.option \in Known.option
    BY DEF Requests
  <2>2. Default \in [Keys -> Words]
    BY DefaultLemma DEF Answers
  <2>3. /\ [Default EXCEPT !.provider = to.provider, !.mode = to.mode,
                           !.option = to.option] \in Answers
        /\ [Default EXCEPT !.provider = to.provider, !.mode = to.mode] \in Answers
    BY <2>1, DefaultLemma, AnswersUpdate
  <2>4. /\ [Default EXCEPT !.provider = to.provider, !.mode = to.mode,
                           !.option = to.option].provider = to.provider
        /\ [Default EXCEPT !.provider = to.provider, !.mode = to.mode,
                           !.option = to.option].mode = to.mode
        /\ [Default EXCEPT !.provider = to.provider, !.mode = to.mode,
                           !.option = to.option].option = to.option
        /\ [Default EXCEPT !.provider = to.provider, !.mode = to.mode].provider
               = to.provider
        /\ [Default EXCEPT !.provider = to.provider, !.mode = to.mode].mode = to.mode
    BY <2>2, KeysLemma
  <2> QED
    BY <2>3, <2>4
<1>3. CASE BeginApply
  <2>1. PICK to \in Requests :
            Begin("apply", [Default EXCEPT !.provider = to.provider, !.mode = to.mode,
                                           !.option = to.option],
                  Append(PairWrites(to.provider, to.mode, "set"), OptionWrite(to.option)))
    BY <1>3 DEF BeginApply
  <2> DEFINE f == [Default EXCEPT !.provider = to.provider, !.mode = to.mode,
                                  !.option = to.option]
             q == Append(PairWrites(to.provider, to.mode, "set"), OptionWrite(to.option))
  <2>2. f \in Answers /\ q \in SetQueues(f) /\ Len(q) = 3 /\ q \in Seq(Writes)
    BY <1>2, FreshQueues
  <2>3. Begin("apply", f, q)
    BY <2>1
  <2> HIDE DEF f, q
  <2>4. Len(q) \notin {0, 1}
    BY <2>2
  <2> QED
    BY <1>1, <2>2, <2>3, <2>4
<1>4. CASE BeginStage
  <2>1. PICK to \in Requests :
            Begin("stage", [Default EXCEPT !.provider = to.provider, !.mode = to.mode,
                                           !.option = to.option],
                  <<OptionWrite(to.option)>> \o PairWrites(to.provider, to.mode, "raw"))
    BY <1>4 DEF BeginStage
  <2> DEFINE f == [Default EXCEPT !.provider = to.provider, !.mode = to.mode,
                                  !.option = to.option]
             q == <<OptionWrite(to.option)>> \o PairWrites(to.provider, to.mode, "raw")
  <2>2. f \in Answers /\ q \in StageQueues(f) /\ Len(q) = 3 /\ q \in Seq(Writes)
    <3>1. /\ f \in Answers /\ f.provider = to.provider /\ f.mode = to.mode
          /\ f.option = to.option
      BY <1>2
    <3>2. q = <<OptionWrite(f.option)>> \o PairWrites(f.provider, f.mode, "raw")
      BY <3>1
    <3> HIDE DEF f, q
    <3> QED
      BY <3>1, <3>2, FreshQueues
  <2>3. Begin("stage", f, q)
    BY <2>1
  <2> HIDE DEF f, q
  <2>4. Len(q) \notin {0, 1}
    BY <2>2
  <2> QED
    BY <1>1, <2>2, <2>3, <2>4
<1>5. CASE BeginCommit
  <2>1. PICK to \in Requests :
            Begin("commit", [Default EXCEPT !.provider = to.provider, !.mode = to.mode],
                  PairWrites(to.provider, to.mode, "raw"))
    BY <1>5 DEF BeginCommit
  <2> DEFINE f == [Default EXCEPT !.provider = to.provider, !.mode = to.mode]
             q == PairWrites(to.provider, to.mode, "raw")
  <2>2. /\ f \in Answers /\ f.provider = to.provider /\ f.mode = to.mode
        /\ q \in RawQueues(to.provider, to.mode) /\ Len(q) = 2 /\ q \in Seq(Writes)
    <3>1. to.provider \in Texts("provider") /\ to.mode \in Texts("mode")
      BY <1>2, PairFacts
    <3> QED
      BY <1>2, <3>1, FreshQueues
  <2>3. Begin("commit", f, q)
    BY <2>1
  <2> HIDE DEF f, q
  <2>4. Len(q) \notin {0, 1}
    BY <2>2
  <2> QED
    BY <1>1, <2>2, <2>3, <2>4
<1> QED
  BY <1>3, <1>4, <1>5 DEF MenuWrites

-----------------------------------------------------------------------------
(***************************************************************************)
(* The parts.  `Sound` is what every set of parts satisfies that a call    *)
(* returns, whichever of them refused.                                     *)
(***************************************************************************)
Parts == [api : BOOLEAN, backend : {"none", "native", "proxy"}, bridge : BOOLEAN,
          sr : {"none", "nvidia", "amd"}, fsup : BOOLEAN, fg : BOOLEAN, timing : BOOLEAN,
          features : BOOLEAN, rr : {"none", "vanilla", "enb"},
          latency : {"none", "reflex", "antilag"}]

Held(u) ==
    /\ u.backend = "proxy" \/ u.fsup \/ u.fg \/ u.timing \/ u.latency = "reflex" => u.api
    /\ u.bridge => u.backend # "none"

Whole(u) ==
    IF u.features THEN u.rr # "none" /\ u.backend = "proxy" /\ u.fsup /\ u.fg /\ u.timing
    ELSE ~u.fsup /\ ~u.fg /\ (u.timing => u.rr # "none")

\* No backend paces the frames of a runtime that is not ready.
Resting(u) == u.rr = "none" => u.latency = "none"

Sound(u) == u \in Parts /\ Held(u) /\ Whole(u) /\ Resting(u)

Routed(u) == u.backend = "proxy" \/ u.latency = "reflex" => memory.value.vendor = "off"

\* What stays the same from u to v.
Keeps(u, v) == v.api = u.api /\ v.backend = u.backend /\ v.bridge = u.bridge

LEMMA ApiLemma ==
    ASSUME NEW u \in Parts, Sound(u), ~u.api, NEW v \in ApiOutcomes(u)
    PROVE  /\ Sound(v) /\ (Routed(u) => Routed(v)) /\ v.bridge = u.bridge
           /\ v.backend = u.backend /\ v.latency = u.latency
<1>1. PICK api \in BOOLEAN : v = [u EXCEPT !.api = api]
  BY DEF ApiOutcomes, RuntimeLoads
<1>2. /\ v \in Parts /\ v.backend = u.backend /\ v.bridge = u.bridge
      /\ v.fsup = u.fsup /\ v.fg = u.fg /\ v.timing = u.timing
      /\ v.features = u.features /\ v.rr = u.rr /\ v.latency = u.latency
  BY <1>1 DEF Parts
<1> QED
  BY <1>2 DEF Sound, Held, Whole, Resting, Routed

LEMMA BackendLemma ==
    ASSUME NEW u \in Parts, Sound(u), Routed(u), NEW v \in BackendOutcomes(u)
    PROVE  Sound(v) /\ Routed(v) /\ v.bridge = u.bridge /\ v.rr = u.rr
<1>1. CASE u.backend # "none"
  BY <1>1 DEF BackendOutcomes
<1>2. CASE u.backend = "none"
  <2>1. PICK b \in {"none", "native"} \cup (IF ProxyUsable(u) THEN {"proxy"} ELSE {}) :
            v = [u EXCEPT !.backend = b]
    BY <1>2 DEF BackendOutcomes
  <2>2. b \in {"none", "native", "proxy"} /\ (b = "proxy" => ProxyUsable(u))
    BY <2>1
  <2>3. /\ v \in Parts /\ v.backend = b /\ v.bridge = u.bridge /\ v.api = u.api
        /\ v.fsup = u.fsup /\ v.fg = u.fg /\ v.timing = u.timing
        /\ v.features = u.features /\ v.rr = u.rr /\ v.latency = u.latency
    BY <2>1, <2>2 DEF Parts
  <2> QED
    BY <1>2, <2>2, <2>3 DEF Sound, Held, Whole, Resting, Routed, ProxyUsable
<1> QED
  BY <1>1, <1>2

LEMMA SrLemma ==
    ASSUME memory.value.provider \in {"nvidia", "amd"},
           NEW u \in Parts, Sound(u), Routed(u), NEW v \in SrOutcomes(u)
    PROVE  Sound(v) /\ Routed(v) /\ Keeps(u, v) /\ v.rr = u.rr
<1>1. v = u \/ \E s \in {"none", memory.value.provider} : v = [u EXCEPT !.sr = s]
  BY DEF SrOutcomes
<1>2. CASE v = u
  BY <1>2 DEF Keeps
<1>3. ASSUME NEW s \in {"none", memory.value.provider}, v = [u EXCEPT !.sr = s]
      PROVE  Sound(v) /\ Routed(v) /\ Keeps(u, v) /\ v.rr = u.rr
  <2>1. /\ v \in Parts /\ v.backend = u.backend /\ v.bridge = u.bridge /\ v.api = u.api
        /\ v.fsup = u.fsup /\ v.fg = u.fg /\ v.timing = u.timing
        /\ v.features = u.features /\ v.rr = u.rr /\ v.latency = u.latency
    BY <1>3 DEF Parts
  <2> QED
    BY <2>1 DEF Sound, Held, Whole, Resting, Routed, Keeps
<1> QED
  BY <1>1, <1>2, <1>3

LEMMA DownLemma ==
    ASSUME NEW u \in Parts, u.bridge => u.backend # "none", u.backend = "proxy" => u.api,
           Routed(u)
    PROVE  Sound(RuntimeDown(u)) /\ Routed(RuntimeDown(u)) /\ Keeps(u, RuntimeDown(u))
<1> DEFINE v == RuntimeDown(u)
<1>1. /\ v \in Parts /\ v.backend = u.backend /\ v.bridge = u.bridge /\ v.api = u.api
      /\ ~v.fsup /\ ~v.fg /\ ~v.timing /\ ~v.features /\ v.rr = "none"
      /\ v.latency = "none"
  BY DEF RuntimeDown, FeaturesDown, Parts
<1> HIDE DEF v
<1>2. Sound(v) /\ Routed(v) /\ Keeps(u, v)
  BY <1>1 DEF Sound, Held, Whole, Resting, Routed, Keeps
<1> QED
  BY <1>2 DEF v

\* The features are up together or not at all, and need what they hold functions of.
Rising(u, v) ==
    /\ v \in Parts /\ Keeps(u, v) /\ v.rr = u.rr /\ v.latency = u.latency
    /\ v.timing => v.api
    /\ IF v.features THEN v.backend = "proxy" /\ v.fsup /\ v.fg /\ v.timing
       ELSE ~v.fsup /\ ~v.fg

\* A part that is being tried: the rest of what the loaded runtime gave may be up already.
Tried(u, v) ==
    /\ v \in Parts /\ Keeps(u, v) /\ v.rr = u.rr /\ v.latency = u.latency
    /\ ~v.features
    /\ v.timing => v.api

LEMMA TimingLemma ==
    ASSUME NEW u \in Parts, NEW w \in Parts, Tried(u, w), NEW v \in TimingOutcomes(w)
    PROVE  Tried(u, v) /\ v.fsup = w.fsup /\ v.fg = w.fg
<1>1. v = w \/ (w.api /\ v = [w EXCEPT !.timing = TRUE])
  <2>1. CASE w.timing
    BY <2>1 DEF TimingOutcomes
  <2>2. CASE ~w.timing
    <3>1. v \in {w} \cup (IF w.api THEN {[w EXCEPT !.timing = TRUE]} ELSE {})
      BY <2>2 DEF TimingOutcomes
    <3>2. CASE w.api
      BY <3>1, <3>2, Zenon
    <3>3. CASE ~w.api
      BY <3>1, <3>3, Zenon
    <3> QED
      BY <3>2, <3>3
  <2> QED
    BY <2>1, <2>2
<1>2. CASE v = w
  BY <1>2
<1>3. CASE w.api /\ v = [w EXCEPT !.timing = TRUE]
  <2>1. /\ v \in Parts /\ v.backend = w.backend /\ v.bridge = w.bridge /\ v.api = w.api
        /\ v.fsup = w.fsup /\ v.fg = w.fg /\ v.features = w.features /\ v.rr = w.rr
        /\ v.latency = w.latency
    BY <1>3 DEF Parts
  <2> QED
    BY <1>3, <2>1 DEF Tried, Keeps
<1> QED
  BY <1>1, <1>2, <1>3

LEMMA GenerationLemma ==
    ASSUME NEW u \in Parts, NEW w \in Parts, Tried(u, w), w.fsup,
           NEW v \in GenerationOutcomes(w)
    PROVE  Tried(u, v) /\ v.fsup /\ (v.fg => v.timing)
<1>1. PICK t \in TimingOutcomes(w), g \in BOOLEAN : v = [t EXCEPT !.fg = g]
  BY DEF GenerationOutcomes
<1>2. Tried(u, t) /\ t.fsup = w.fsup
  BY TimingLemma
<1>3. v.fg => v.timing
  BY DEF GenerationOutcomes
<1>4. /\ v \in Parts /\ v.backend = t.backend /\ v.bridge = t.bridge /\ v.api = t.api
      /\ v.fsup = t.fsup /\ v.timing = t.timing /\ v.features = t.features /\ v.rr = t.rr
      /\ v.latency = t.latency
  BY <1>1, <1>2 DEF Parts, Tried
<1> QED
  BY <1>2, <1>3, <1>4 DEF Tried, Keeps

LEMMA FeatureLemma ==
    ASSUME NEW u \in Parts, Sound(u), u.rr = "none", NEW f \in FeatureOutcomes(u)
    PROVE  Rising(u, f)
<1> DEFINE tried == IF u.backend = "proxy"
                    THEN UNION {IF v.fsup THEN GenerationOutcomes(v) ELSE {v} :
                                  v \in SupportOutcomes(u)}
                    ELSE {u}
<1>1. Tried(u, u) /\ ~u.fsup /\ ~u.fg /\ ~u.timing /\ ~u.features
  BY DEF Tried, Keeps, Sound, Held, Whole
<1>2. \A v \in SupportOutcomes(u) : Tried(u, v) /\ v.fg = u.fg
  <2> TAKE v \in SupportOutcomes(u)
  <2>1. v = u \/ v = [u EXCEPT !.fsup = TRUE]
    BY DEF SupportOutcomes
  <2>2. CASE v = [u EXCEPT !.fsup = TRUE]
    <3>1. /\ v \in Parts /\ v.backend = u.backend /\ v.bridge = u.bridge /\ v.api = u.api
          /\ v.timing = u.timing /\ v.features = u.features /\ v.rr = u.rr
          /\ v.latency = u.latency /\ v.fg = u.fg
      BY <2>2 DEF Parts
    <3> QED
      BY <1>1, <3>1 DEF Tried, Keeps
  <2> QED
    BY <1>1, <2>1, <2>2
<1>3. ASSUME NEW w \in tried
      PROVE  /\ Tried(u, w)
             /\ w.fg => u.backend = "proxy" /\ w.fsup /\ w.timing
  <2>1. CASE u.backend = "proxy"
    <3>1. PICK v \in SupportOutcomes(u) :
              w \in IF v.fsup THEN GenerationOutcomes(v) ELSE {v}
      BY <2>1, <1>3
    <3>2. Tried(u, v) /\ v \in Parts /\ ~v.fg
      BY <1>1, <1>2 DEF Tried
    <3>3. CASE v.fsup
      BY <2>1, <3>1, <3>2, <3>3, GenerationLemma
    <3>4. CASE ~v.fsup
      BY <3>1, <3>2, <3>4
    <3> QED
      BY <3>3, <3>4
  <2>2. CASE u.backend # "proxy"
    BY <1>1, <1>3, <2>2
  <2> QED
    BY <2>1, <2>2
<1>4. \/ \E w \in tried : w.fg /\ f = [w EXCEPT !.features = TRUE]
      \/ \E w \in tried : f \in IF u.backend = "proxy" THEN TimingOutcomes(FeaturesDown(w))
                                ELSE {FeaturesDown(w)}
  BY DEF FeatureOutcomes
<1> HIDE DEF tried
<1>5. ASSUME NEW w \in tried, w.fg, f = [w EXCEPT !.features = TRUE]
      PROVE  Rising(u, f)
  <2>1. Tried(u, w) /\ u.backend = "proxy" /\ w.fsup /\ w.timing /\ w \in Parts
    BY <1>3, <1>5 DEF Tried
  <2>2. /\ f \in Parts /\ f.backend = w.backend /\ f.bridge = w.bridge /\ f.api = w.api
        /\ f.fsup = w.fsup /\ f.fg = w.fg /\ f.timing = w.timing /\ f.features
        /\ f.rr = w.rr /\ f.latency = w.latency
    BY <1>5, <2>1 DEF Parts
  <2> QED
    BY <1>5, <2>1, <2>2 DEF Rising, Tried, Keeps
<1>6. ASSUME NEW w \in tried
      PROVE  /\ Tried(u, FeaturesDown(w)) /\ FeaturesDown(w) \in Parts
             /\ ~FeaturesDown(w).fsup /\ ~FeaturesDown(w).fg
  <2> DEFINE v == FeaturesDown(w)
  <2>1. Tried(u, w) /\ w \in Parts
    BY <1>3 DEF Tried
  <2>2. /\ v \in Parts /\ v.backend = w.backend /\ v.bridge = w.bridge /\ v.api = w.api
        /\ ~v.fsup /\ ~v.fg /\ ~v.timing /\ v.features = w.features
        /\ v.rr = w.rr /\ v.latency = w.latency
    BY <2>1 DEF FeaturesDown, Parts
  <2> HIDE DEF v
  <2>3. Tried(u, v) /\ v \in Parts /\ ~v.fsup /\ ~v.fg
    BY <2>1, <2>2 DEF Tried, Keeps
  <2> QED
    BY <2>3 DEF v
<1>7. ASSUME NEW w \in tried,
             f \in IF u.backend = "proxy" THEN TimingOutcomes(FeaturesDown(w))
                   ELSE {FeaturesDown(w)}
      PROVE  Rising(u, f)
  <2>1. Tried(u, f) /\ ~f.fsup /\ ~f.fg
    BY <1>6, <1>7, TimingLemma
  <2> QED
    BY <2>1 DEF Tried, Rising
<1> QED
  BY <1>4, <1>5, <1>7

LEMMA ReadyLemma ==
    ASSUME NEW u \in Parts, Sound(u), Routed(u), u.rr = "none",
           NEW f \in Parts, Rising(u, f),
           NEW adapter \in {"vanilla", "enb"}, NEW v \in ReadyOutcomes(f, adapter)
    PROVE  Sound(v) /\ Routed(v) /\ Keeps(u, v)
<1>1. /\ f.backend = u.backend /\ f.bridge = u.bridge /\ f.api = u.api
      /\ f.latency = u.latency /\ f.rr = "none"
  BY DEF Rising, Keeps
<1>2. CASE v = RuntimeDown(f)
  <2>1. Routed(f) /\ (f.bridge => f.backend # "none") /\ (f.backend = "proxy" => f.api)
    BY <1>1 DEF Sound, Held, Routed
  <2>2. Sound(v) /\ Routed(v) /\ Keeps(f, v)
    BY <1>2, <2>1, DownLemma
  <2> QED
    BY <1>1, <2>2 DEF Keeps
<1>3. CASE v # RuntimeDown(f)
  <2>1. PICK l \in LatencyOutcomes(f) : v = [f EXCEPT !.rr = adapter, !.latency = l]
    BY <1>3 DEF ReadyOutcomes
  <2>2. /\ l \in {"none", "reflex", "antilag"}
        /\ l = "reflex" => memory.value.vendor = "off" /\ f.api
    <3>1. l = "none" \/ l = LatencyBackend(f)
      <4>1. l \in {LatencyBackend(f)} \cup (IF Gpu = "amd" THEN {"none"} ELSE {})
        BY <2>1 DEF LatencyOutcomes
      <4> QED
        BY <4>1
    <3> QED
      BY <3>1 DEF LatencyBackend
  <2>3. /\ v \in Parts /\ v.backend = f.backend /\ v.bridge = f.bridge /\ v.api = f.api
        /\ v.fsup = f.fsup /\ v.fg = f.fg /\ v.timing = f.timing
        /\ v.features = f.features /\ v.rr = adapter /\ v.latency = l
    BY <2>1, <2>2 DEF Parts
  <2>4. v.rr # "none"
    BY <2>3
  <2>5. Held(v)
    BY <1>1, <2>2, <2>3 DEF Sound, Held, Rising
  <2>6. Whole(v)
    BY <2>3, <2>4 DEF Whole, Rising
  <2> QED
    BY <1>1, <2>2, <2>3, <2>4, <2>5, <2>6 DEF Sound, Resting, Routed, Keeps
<1> QED
  BY <1>2, <1>3

LEMMA RuntimeLemma ==
    ASSUME memory.value.provider \in {"nvidia", "amd"},
           NEW u \in Parts, Sound(u), Routed(u),
           NEW adapter \in {"vanilla", "enb"}, NEW v \in RuntimeOutcomes(u, adapter)
    PROVE  Sound(v) /\ Routed(v) /\ v.bridge = u.bridge
<1>1. CASE u.rr # "none"
  BY <1>1 DEF RuntimeOutcomes
<1>2. CASE u.rr = "none"
  <2>1. PICK b \in BackendOutcomes(u) :
            v \in IF b.backend = "none" THEN {b}
                  ELSE UNION {{RuntimeDown(s)}
                              \cup (IF s.sr = "none" THEN {}
                                    ELSE UNION {ReadyOutcomes(f, adapter) :
                                                  f \in FeatureOutcomes(s)}) :
                                s \in SrOutcomes(b)}
    BY <1>2 DEF RuntimeOutcomes
  <2>2. Sound(b) /\ Routed(b) /\ b.bridge = u.bridge /\ b.rr = "none" /\ b \in Parts
    BY <1>2, BackendLemma DEF Sound
  <2>3. CASE b.backend = "none"
    BY <2>1, <2>2, <2>3
  <2>4. CASE b.backend # "none"
    <3>1. PICK s \in SrOutcomes(b) :
              v \in {RuntimeDown(s)}
                    \cup (IF s.sr = "none" THEN {}
                          ELSE UNION {ReadyOutcomes(f, adapter) : f \in FeatureOutcomes(s)})
      BY <2>1, <2>4
    <3>2. Sound(s) /\ Routed(s) /\ Keeps(b, s) /\ s.rr = "none" /\ s \in Parts
      BY <2>2, SrLemma DEF Sound
    <3>3. CASE v = RuntimeDown(s)
      <4>1. (s.bridge => s.backend # "none") /\ (s.backend = "proxy" => s.api)
        BY <3>2 DEF Sound, Held
      <4>2. Sound(v) /\ Routed(v) /\ Keeps(s, v)
        BY <3>2, <3>3, <4>1, DownLemma
      <4> QED
        BY <2>2, <3>2, <4>2 DEF Keeps
    <3>4. CASE v # RuntimeDown(s)
      <4>1. v \in UNION {ReadyOutcomes(f, adapter) : f \in FeatureOutcomes(s)}
        BY <3>1, <3>4
      <4>2. PICK f \in FeatureOutcomes(s) : v \in ReadyOutcomes(f, adapter)
        BY <4>1
      <4>3. Rising(s, f) /\ f \in Parts
        BY <3>2, FeatureLemma DEF Rising
      <4>4. Sound(v) /\ Routed(v) /\ Keeps(s, v)
        BY <3>2, <4>2, <4>3, ReadyLemma
      <4> QED
        BY <2>2, <3>2, <4>4 DEF Keeps
    <3> QED
      BY <3>3, <3>4
  <2> QED
    BY <2>3, <2>4
<1> QED
  BY <1>1, <1>2

LEMMA CreateLemma ==
    ASSUME memory.value.provider \in {"nvidia", "amd"},
           NEW u \in Parts, Sound(u), Routed(u), NEW v \in CreateOutcomes(u)
    PROVE  Sound(v) /\ Routed(v) /\ (v.bridge => u.bridge \/ memory.loaded)
<1>1. CASE u.bridge
  BY <1>1 DEF CreateOutcomes
<1>2. CASE ~u.bridge
  <2>1. PICK b \in BackendOutcomes(u) :
            v \in IF b.backend = "none" \/ ~Configured THEN {b}
                  ELSE UNION {{s} \cup (IF UpscalerServes(s) THEN MadeOutcomes(s) ELSE {}) :
                                s \in UpscalerOutcomes(b)}
    BY <1>2 DEF CreateOutcomes
  <2>2. Sound(b) /\ Routed(b) /\ b.bridge = u.bridge /\ b \in Parts
    BY BackendLemma DEF Sound
  <2>3. CASE b.backend = "none" \/ ~Configured
    BY <2>1, <2>2, <2>3
  <2>4. CASE b.backend # "none" /\ Configured
    <3>1. PICK s \in UpscalerOutcomes(b) :
              v \in {s} \cup (IF UpscalerServes(s) THEN MadeOutcomes(s) ELSE {})
      BY <2>1, <2>4
    <3>2. /\ Sound(s) /\ Routed(s) /\ s \in Parts /\ s.backend # "none"
          /\ s.bridge = u.bridge
      <4>1. CASE memory.value.mode = "off"
        BY <2>2, <2>4, <4>1 DEF UpscalerOutcomes
      <4>2. CASE memory.value.mode # "off"
        <5>1. s \in SrOutcomes(b)
          BY <4>2 DEF UpscalerOutcomes
        <5> QED
          BY <2>2, <2>4, <5>1, SrLemma DEF Keeps, Sound
      <4> QED
        BY <4>1, <4>2
    <3>3. CASE v = s
      BY <3>2, <3>3
    <3>4. CASE v \in MadeOutcomes(s)
      <4> DEFINE t == [s EXCEPT !.bridge = TRUE]
      <4>1. Sound(t) /\ Routed(t) /\ t \in Parts
        <5>1. /\ t \in Parts /\ t.backend = s.backend /\ t.bridge /\ t.api = s.api
              /\ t.fsup = s.fsup /\ t.fg = s.fg /\ t.timing = s.timing
              /\ t.features = s.features /\ t.rr = s.rr /\ t.latency = s.latency
          BY <3>2 DEF Parts
        <5> HIDE DEF t
        <5> QED
          BY <3>2, <5>1 DEF Sound, Held, Whole, Resting, Routed
      <4>2. v = s \/ v = t \/ v \in RuntimeOutcomes(t, "vanilla")
        BY <3>4 DEF MadeOutcomes
      <4> HIDE DEF t
      <4>3. Sound(v) /\ Routed(v)
        BY <3>2, <4>1, <4>2, RuntimeLemma
      <4> QED
        BY <2>4, <4>3 DEF Configured
    <3> QED
      BY <3>1, <3>3, <3>4
  <2> QED
    BY <2>3, <2>4
<1> QED
  BY <1>1, <1>2

LEMMA TakenDownLemma ==
    ASSUME NEW u \in Parts
    PROVE  Sound(TakenDown(u)) /\ Routed(TakenDown(u)) /\ ~TakenDown(u).bridge
<1> DEFINE v == TakenDown(u)
<1>1. /\ v \in Parts /\ v.backend = "none" /\ ~v.bridge
      /\ ~v.fsup /\ ~v.fg /\ ~v.timing /\ ~v.features /\ v.rr = "none"
      /\ v.latency = "none"
  BY DEF TakenDown, ApiDown, RuntimeDown, FeaturesDown, Parts
<1> HIDE DEF v
<1>2. Sound(v) /\ Routed(v) /\ ~v.bridge
  BY <1>1 DEF Sound, Held, Whole, Resting, Routed
<1> QED
  BY <1>2 DEF v

LEMMA DownFacts ==
    /\ Down \in Parts /\ Sound(Down) /\ ~Down.api /\ ~Down.bridge
    /\ Down.backend = "none" /\ Down.latency = "none"
<1>1. /\ Down \in Parts /\ ~Down.api /\ ~Down.bridge /\ Down.backend = "none"
      /\ Down.latency = "none" /\ Down.rr = "none"
      /\ ~Down.fsup /\ ~Down.fg /\ ~Down.timing /\ ~Down.features
  BY DEF Down, Parts
<1> QED
  BY <1>1 DEF Sound, Held, Whole, Resting

-----------------------------------------------------------------------------
(***************************************************************************)
(* The launch-latched key.                                                 *)
(***************************************************************************)
LEMMA LoadKeeps ==
    ASSUME memory.loaded, NEW racing, Load(racing)
    PROVE  memory'.loaded /\ memory'.value["vendor"] = memory.value["vendor"]
<1>1. CASE ~ini.present
  BY <1>1 DEF Load
<1>2. CASE ini.present
  <2>1. memory'.loaded /\ memory'.value = Values(ini.text)
    BY <1>2 DEF Load
  <2>2. Values(ini.text)["vendor"] = memory.value["vendor"]
    BY KeysLemma DEF Values
  <2> QED
    BY <2>1, <2>2
<1> QED
  BY <1>1, <1>2

LEMMA WritesKeep ==
    ASSUME FileInv, WriteStep \/ MenuWrites \/ Edit
    PROVE  memory'.loaded = memory.loaded /\ memory'.value["vendor"] = memory.value["vendor"]
<1> USE DEF FileInv
<1>1. CASE memory' = memory
  BY <1>1
<1>2. CASE PassWrite
  <2>1. CASE AfterSet(Head(io.queue))
    <3>1. memory' = [memory EXCEPT !.value[Head(io.queue).key] = Head(io.queue).value]
      BY <2>1 DEF AfterSet
    <3>2. Head(io.queue).key \in LiveKeys
      BY <1>2, HeadFacts DEF PassWrite, Writes
    <3>3. memory.value \in [Keys -> Words] /\ Head(io.queue).key # "vendor"
      BY <3>2, TypesFacts, KeysLemma DEF Answers
    <3>4. /\ memory'.value = [memory.value EXCEPT ![Head(io.queue).key] = Head(io.queue).value]
          /\ memory'.loaded = memory.loaded
      BY <3>1 DEF Types
    <3> QED
      BY <3>3, <3>4, KeysLemma
  <2>2. CASE ~AfterSet(Head(io.queue))
    BY <1>1, <1>2, <2>2 DEF PassWrite, AfterRaw
  <2> QED
    BY <2>1, <2>2
<1>3. CASE VerifyCommit
  <2>1. memory' = [memory EXCEPT !.value.provider = io.to.provider,
                                 !.value.mode = io.to.mode]
    BY <1>3 DEF VerifyCommit
  <2>2. /\ memory'.value = [memory.value EXCEPT !.provider = io.to.provider,
                                                !.mode = io.to.mode]
        /\ memory'.loaded = memory.loaded
    BY <2>1 DEF Types
  <2>3. memory.value \in [Keys -> Words]
    BY TypesFacts DEF Answers
  <2> QED
    BY <2>2, <2>3, KeysLemma
<1> QED
  BY <1>1, <1>2, <1>3 DEF WriteStep, RefuseWrite, FinishApply, FailApply, FinishUnstage,
       FinishStage, FailCommit, MenuWrites, BeginApply, BeginStage, BeginCommit, Begin, Edit

-----------------------------------------------------------------------------
(***************************************************************************)
(* The pair.  An operation that neither an editor nor a second refusal has *)
(* broken into has, at each point of its queue, written what it is past.   *)
(***************************************************************************)
PastRaw(values) ==
    /\ Len(io.queue) \in {0, 1} => ini.text["provider"] = values[1]
    /\ Len(io.queue) = 0 => ini.text["mode"] = values[2]

PastSet(values) ==
    /\ Len(io.queue) \in {0, 1, 2} => ini.text["provider"] = values[1]
    /\ Len(io.queue) \in {0, 1} => ini.text["mode"] = values[2]

HalfWritten ==
    ~io.torn =>
        /\ io.kind = "apply" => PastSet(Pair(io.to))
        /\ io.kind = "restore" => PastSet(Pair(io.before))
        /\ io.kind = "stage" => PastRaw(Pair(io.to))
        /\ io.kind = "rollback" => PastRaw(io.raw)
        /\ io.kind = "commit" /\ Len(io.queue) = 2 => Pair(ini.text) = io.raw

LEMMA HalfPass ==
    ASSUME FileInv, HalfWritten, PassWrite
    PROVE  HalfWritten'
<1> USE DEF FileInv
<1> DEFINE w == Head(io.queue)
           n == Len(io.queue)
<1>1. /\ io.queue # << >> /\ io' = Popped
      /\ \/ Needless(w) /\ UNCHANGED <<ini, memory, ghost>>
         \/ ~Needless(w) /\ w.style = "set" /\ AfterSet(w)
         \/ ~Needless(w) /\ w.style # "set" /\ AfterRaw(w)
  BY DEF PassWrite
<1>2. /\ w \in Writes /\ Len(Tail(io.queue)) = n - 1 /\ n \in 1 .. 3 /\ io.kind # "idle"
  BY <1>1, HeadFacts, QueueFacts
<1>3. /\ io'.kind = io.kind /\ io'.queue = Tail(io.queue) /\ io'.to = io.to
      /\ io'.before = io.before /\ io'.raw = io.raw /\ io'.torn = io.torn
  BY <1>1 DEF Popped, Types
<1>4. Len(io'.queue) = n - 1
  BY <1>2, <1>3
<1>5. w.key \in LiveKeys /\ w.key \in Keys
  BY <1>2, KeysLemma DEF Writes
<1>6. ini.text \in [Keys -> Words] /\ ini \in [present : BOOLEAN, text : Readings,
                                               unseen : BOOLEAN]
  BY TypesFacts DEF Readings, Types
<1>7. \/ /\ ini'.text[w.key] = w.value
         /\ \A k \in Keys : k # w.key => ini'.text[k] = ini.text[k]
      \/ w.key = "option" /\ ini' = ini
  <2>1. CASE Needless(w)
    BY <1>1, <2>1 DEF Needless
  <2>2. CASE AfterSet(w) \/ AfterRaw(w)
    <3>1. ini'.text = [ini.text EXCEPT ![w.key] = w.value]
      BY <1>6, <2>2 DEF AfterSet, AfterRaw
    <3> QED
      BY <1>5, <1>6, <3>1
  <2> QED
    BY <1>1, <2>1, <2>2
<1>8. ASSUME NEW f \in Answers, io.queue \in SetQueues(f), PastSet(Pair(f))
      PROVE  /\ n - 1 \in {0, 1, 2} => ini'.text["provider"] = f.provider
             /\ n - 1 \in {0, 1} => ini'.text["mode"] = f.mode
  <2>1. /\ n = 3 => w.key = "provider" /\ w.value = f.provider
        /\ n = 2 => w.key = "mode" /\ w.value = f.mode
        /\ n = 1 => w.key = "option"
    BY <1>8, SetQueuesLemma
  <2>2. /\ n \in {0, 1, 2} => ini.text["provider"] = f.provider
        /\ n \in {0, 1} => ini.text["mode"] = f.mode
    BY <1>8 DEF PastSet, Pair
  <2>3. CASE n = 3
    BY <1>7, <2>1, <2>3
  <2>4. CASE n = 2
    BY <1>7, <2>1, <2>2, <2>4, KeysLemma
  <2>5. CASE n = 1
    BY <1>7, <2>1, <2>2, <2>5, KeysLemma
  <2> QED
    BY <1>2, <2>3, <2>4, <2>5
<1>9. ASSUME NEW x \in Texts("provider"), NEW y \in Texts("mode"),
             io.queue \in RawQueues(x, y), PastRaw(<<x, y>>)
      PROVE  /\ n - 1 \in {0, 1} => ini'.text["provider"] = x
             /\ n - 1 = 0 => ini'.text["mode"] = y
  <2>1. /\ n = 2 => w.key = "provider" /\ w.value = x
        /\ n = 1 => w.key = "mode" /\ w.value = y
        /\ n \in 1 .. 2
    BY <1>2, <1>9, RawQueuesLemma
  <2>2. n \in {0, 1} => ini.text["provider"] = x
    BY <1>9 DEF PastRaw
  <2>3. CASE n = 2
    BY <1>7, <2>1, <2>3
  <2>4. CASE n = 1
    BY <1>7, <2>1, <2>2, <2>4, KeysLemma
  <2> QED
    BY <2>1, <2>3, <2>4
<1>10. CASE ~io.torn /\ io.kind = "apply"
  <2>1. io.queue \in SetQueues(io.to) /\ io.to \in Answers /\ PastSet(Pair(io.to))
    BY <1>10, TypesFacts DEF Queued, HalfWritten
  <2>2. /\ n - 1 \in {0, 1, 2} => ini'.text["provider"] = io.to.provider
        /\ n - 1 \in {0, 1} => ini'.text["mode"] = io.to.mode
    BY <1>8, <2>1
  <2>3. PastSet(Pair(io.to))'
    BY <1>3, <1>4, <2>2 DEF PastSet, Pair
  <2> QED
    BY <1>3, <1>10, <2>3 DEF HalfWritten
<1>11. CASE ~io.torn /\ io.kind = "restore"
  <2>1. io.queue \in SetQueues(io.before) /\ io.before \in Answers /\ PastSet(Pair(io.before))
    BY <1>11, TypesFacts DEF Queued, HalfWritten
  <2>2. /\ n - 1 \in {0, 1, 2} => ini'.text["provider"] = io.before.provider
        /\ n - 1 \in {0, 1} => ini'.text["mode"] = io.before.mode
    BY <1>8, <2>1
  <2>3. PastSet(Pair(io.before))'
    BY <1>3, <1>4, <2>2 DEF PastSet, Pair
  <2> QED
    BY <1>3, <1>11, <2>3 DEF HalfWritten
<1>12. CASE ~io.torn /\ io.kind = "stage"
  <2>1. io.queue \in StageQueues(io.to) /\ io.to \in Answers /\ PastRaw(Pair(io.to))
    BY <1>12, TypesFacts DEF Queued, HalfWritten
  <2>2. CASE n = 3
    <3>1. PastRaw(Pair(io.to))'
      BY <1>4, <2>2 DEF PastRaw
    <3> QED
      BY <1>3, <1>12, <3>1 DEF HalfWritten
  <2>3. CASE n # 3
    <3>1. io.queue \in RawQueues(io.to.provider, io.to.mode)
      BY <2>1, <2>3, StageQueuesLemma
    <3>2. io.to.provider \in Texts("provider") /\ io.to.mode \in Texts("mode")
      BY <2>1, PairFacts
    <3>3. /\ n - 1 \in {0, 1} => ini'.text["provider"] = io.to.provider
          /\ n - 1 = 0 => ini'.text["mode"] = io.to.mode
      BY <1>9, <2>1, <3>1, <3>2 DEF Pair
    <3>4. PastRaw(Pair(io.to))'
      BY <1>3, <1>4, <3>3 DEF PastRaw, Pair
    <3> QED
      BY <1>3, <1>12, <3>4 DEF HalfWritten
  <2> QED
    BY <2>2, <2>3
<1>13. CASE ~io.torn /\ io.kind = "rollback"
  <2>1. /\ io.queue \in RawQueues(io.raw[1], io.raw[2])
        /\ io.raw = <<io.raw[1], io.raw[2]>> /\ PastRaw(io.raw)
        /\ io.raw[1] \in Texts("provider") /\ io.raw[2] \in Texts("mode")
    BY <1>13, TypesFacts DEF Queued, HalfWritten
  <2>2. /\ n - 1 \in {0, 1} => ini'.text["provider"] = io.raw[1]
        /\ n - 1 = 0 => ini'.text["mode"] = io.raw[2]
    BY <1>9, <2>1 DEF PastRaw
  <2>3. PastRaw(io.raw)'
    BY <1>3, <1>4, <2>2 DEF PastRaw
  <2> QED
    BY <1>3, <1>13, <2>3 DEF HalfWritten
<1>14. CASE io.kind = "commit"
  <2>1. n \in 1 .. 2
    BY <1>2, <1>14, QueueFacts DEF SetKind
  <2>2. Len(io'.queue) # 2
    BY <1>4, <2>1
  <2> QED
    BY <1>3, <1>14, <2>2 DEF HalfWritten
<1> QED
  BY <1>3, <1>10, <1>11, <1>12, <1>13, <1>14 DEF HalfWritten

LEMMA HalfOther ==
    ASSUME FileInv, RefuseWrite \/ FinishApply \/ FailApply \/ FinishUnstage
                    \/ FinishStage \/ VerifyCommit \/ FailCommit
    PROVE  HalfWritten'
<1> USE DEF FileInv
<1>1. \/ io'.torn = TRUE
      \/ io' = Idle
      \/ io' = RestoreEverything(io.before)
      \/ io' = StagePrevious(io.before)
      \/ \E then \in {"unstage", "unrestage"} : io' = Unstage(then)
      \/ io' = RestorePhysical
  <2>1. CASE RefuseWrite /\ io.kind \in Undoing
    <3>1. io' = [Popped EXCEPT !.torn = TRUE]
      BY <2>1 DEF RefuseWrite, AfterRefusal, Undoing
    <3> QED
      BY <3>1 DEF Popped, Types
  <2>2. CASE RefuseWrite /\ io.kind \notin Undoing
    <3>1. io' = AfterRefusal /\ io.kind \in Kinds /\ io.kind # "idle"
      BY <2>2, TypesFacts, HeadFacts DEF RefuseWrite
    <3> QED
      BY <2>2, <3>1 DEF AfterRefusal, Undoing, Kinds
  <2>3. CASE FinishApply \/ FailApply \/ FinishUnstage \/ FinishStage
             \/ VerifyCommit \/ FailCommit
    BY <2>3 DEF FinishApply, FailApply, FinishUnstage, FinishStage, VerifyCommit, FailCommit
  <2> QED
    BY <2>1, <2>2, <2>3
<1>2. CASE io'.torn = TRUE
  BY <1>2 DEF HalfWritten
<1>3. CASE io' = Idle
  BY <1>3, IdleLemma DEF HalfWritten
<1>4. CASE io' = RestoreEverything(io.before)
  <2>1. io'.kind = "restore" /\ Len(io'.queue) = 3
    BY <1>4, NextQueues
  <2> QED
    BY <2>1 DEF HalfWritten, PastSet
<1>5. CASE io' = StagePrevious(io.before)
  BY <1>5, NextQueues DEF HalfWritten
<1>6. CASE \E then \in {"unstage", "unrestage"} : io' = Unstage(then)
  BY <1>6, NextQueues DEF HalfWritten
<1>7. CASE io' = RestorePhysical
  <2>1. io'.kind = "rollback" /\ Len(io'.queue) = 2
    BY <1>7, NextQueues
  <2> QED
    BY <2>1 DEF HalfWritten, PastRaw
<1> QED
  BY <1>1, <1>2, <1>3, <1>4, <1>5, <1>6, <1>7

LEMMA HalfBegin ==
    ASSUME FileInv, MenuWrites
    PROVE  HalfWritten'
<1>1. CASE BeginApply
  <2>1. PICK to \in Requests :
            io'.kind = "apply" /\ io'.queue = Append(PairWrites(to.provider, to.mode, "set"),
                                                     OptionWrite(to.option))
    BY <1>1 DEF BeginApply, Begin
  <2>2. Len(io'.queue) = 3
    BY <2>1, TripleLemma DEF PairWrites
  <2> QED
    BY <2>1, <2>2 DEF HalfWritten, PastSet
<1>2. CASE BeginStage
  <2>0. PICK to \in Requests :
            Begin("stage", [Default EXCEPT !.provider = to.provider, !.mode = to.mode,
                                           !.option = to.option],
                  <<OptionWrite(to.option)>> \o PairWrites(to.provider, to.mode, "raw"))
    BY <1>2 DEF BeginStage
  <2>1. io'.kind = "stage" /\ io'.queue = <<OptionWrite(to.option)>>
                                          \o PairWrites(to.provider, to.mode, "raw")
    BY <2>0 DEF Begin
  <2>2. io'.queue = <<OptionWrite(to.option), Write("provider", to.provider, "raw"),
                      Write("mode", to.mode, "raw")>>
    BY <2>1, TripleLemma DEF PairWrites
  <2>3. Len(io'.queue) = 3
    BY <2>2
  <2> QED
    BY <2>1, <2>3 DEF HalfWritten, PastRaw
<1>3. CASE BeginCommit
  <2>1. io'.kind = "commit" /\ io'.raw = Pair(ini.text) /\ ini' = ini
    BY <1>3 DEF BeginCommit, Begin
  <2> QED
    BY <2>1 DEF HalfWritten, Pair
<1> QED
  BY <1>1, <1>2, <1>3 DEF MenuWrites

LEMMA HalfEdit ==
    ASSUME FileInv, Edit
    PROVE  HalfWritten'
<1>1. io' = IF io.kind = "idle" THEN io ELSE [io EXCEPT !.torn = TRUE]
  BY DEF Edit, Save
<1>2. io'.kind = "idle" \/ io'.torn = TRUE
  BY <1>1 DEF FileInv, Types
<1> QED
  BY <1>2 DEF HalfWritten

\* An operation ends with a pair that was chosen as a pair.
LEMMA PairStep ==
    ASSUME FileInv, HalfWritten, WriteStep,
           io.kind # "idle", (io.kind = "idle")', ~io.torn
    PROVE  Pair(ini'.text) \in {io.raw, Pair(io.before), Pair(io.to)}
<1> USE DEF FileInv
<1>1. CASE PassWrite
  BY <1>1 DEF PassWrite, Popped, Types
<1>2. CASE RefuseWrite
  <2>1. io.kind \notin Undoing
    <3>1. CASE io.kind \in Undoing
      <4>1. io' = [Popped EXCEPT !.torn = TRUE]
        BY <1>2, <3>1 DEF RefuseWrite, AfterRefusal, Undoing
      <4>2. io'.kind = io.kind
        BY <4>1 DEF Popped, Types
      <4> QED
        BY <4>2
    <3> QED
      BY <3>1
  <2>2. io' = AfterRefusal /\ ini' = ini /\ io.queue # << >>
    BY <1>2, <2>1 DEF RefuseWrite
  <2>3. io.kind = "commit" /\ ~AtMode
    <3>1. /\ io' # RestoreEverything(io.before) /\ io' # StagePrevious(io.before)
          /\ \A then \in {"unstage", "unrestage"} : io' # Unstage(then)
          /\ io' # RestorePhysical
      BY NextQueues
    <3>2. io.kind \in Kinds
      BY TypesFacts
    <3> QED
      BY <2>1, <2>2, <3>1, <3>2 DEF AfterRefusal, Undoing, Kinds
  <2>4. Len(io.queue) = 2
    <3>1. Len(io.queue) \in 0 .. 2 /\ Len(io.queue) # 0
      BY <2>2, <2>3, QueueFacts DEF SetKind
    <3> QED
      BY <2>3, <3>1 DEF AtMode
  <2>5. Pair(ini.text) = io.raw
    BY <2>3, <2>4 DEF HalfWritten
  <2> QED
    BY <2>2, <2>5
<1>3. CASE FinishApply
  <2>1. /\ io.kind \in {"apply", "restore", "rollback"} /\ Len(io.queue) = 0
        /\ ini' = ini
    BY <1>3, QueueFacts DEF FinishApply, Drained
  <2>2. CASE io.kind = "apply"
    <3>1. /\ ini.text["provider"] = Pair(io.to)[1] /\ ini.text["mode"] = Pair(io.to)[2]
      BY <2>1, <2>2 DEF HalfWritten, PastSet
    <3> QED
      BY <2>1, <3>1 DEF Pair
  <2>3. CASE io.kind = "restore"
    <3>1. /\ ini.text["provider"] = Pair(io.before)[1]
          /\ ini.text["mode"] = Pair(io.before)[2]
      BY <2>1, <2>3 DEF HalfWritten, PastSet
    <3> QED
      BY <2>1, <3>1 DEF Pair
  <2>4. CASE io.kind = "rollback"
    <3>1. ini.text["provider"] = io.raw[1] /\ ini.text["mode"] = io.raw[2]
      BY <2>1, <2>4 DEF HalfWritten, PastRaw
    <3>2. io.raw = <<io.raw[1], io.raw[2]>>
      BY TypesFacts
    <3> QED
      BY <2>1, <3>1, <3>2 DEF Pair
  <2> QED
    BY <2>1, <2>2, <2>3, <2>4
<1>4. CASE FinishUnstage
  BY <1>4, NextQueues DEF FinishUnstage
<1>5. CASE FinishStage
  <2>1. io.kind = "stage" /\ Len(io.queue) = 0 /\ ini'.text = ini.text
    BY <1>5, QueueFacts, NextQueues DEF FinishStage, Drained, Absorb, Types
  <2>2. ini.text["provider"] = Pair(io.to)[1] /\ ini.text["mode"] = Pair(io.to)[2]
    BY <2>1 DEF HalfWritten, PastRaw
  <2> QED
    BY <2>1, <2>2 DEF Pair
<1>6. CASE VerifyCommit
  BY <1>6 DEF VerifyCommit, Absorb, Types
<1>7. CASE FailCommit
  BY <1>7, NextQueues DEF FailCommit
<1>8. CASE FailApply
  BY <1>8, NextQueues DEF FailApply
<1> QED
  BY <1>1, <1>2, <1>3, <1>4, <1>5, <1>6, <1>7, <1>8 DEF WriteStep

-----------------------------------------------------------------------------
(***************************************************************************)
(* The session.                                                            *)
(***************************************************************************)
Booted ==
    /\ boot \in [posted : BOOLEAN, factory : {"none", "hooked", "missed"}, enb : BOOLEAN,
                teardown : BOOLEAN]
    /\ boot.factory # "none" => boot.posted
    /\ ~boot.posted => up = Down /\ ~memory.loaded
    /\ up.bridge => memory.loaded

SessionInv ==
    /\ launches \in Nat
    /\ FileInv
    /\ HalfWritten
    /\ Sound(up)
    /\ Routed(up)
    /\ Booted

LEMMA InitLemma == Init => SessionInv
<1> SUFFICES ASSUME Init
             PROVE  SessionInv
  OBVIOUS
<1> USE DEF Init, SettingsInit
<1>1. /\ memory = Unloaded /\ io = Idle /\ up = Down /\ boot = Unbooted /\ launches = 0
      /\ ghost = [apart |-> {}, unread |-> {}]
  OBVIOUS
<1>2. ini \in [present : BOOLEAN, text : Readings, unseen : BOOLEAN]
  <2>1. Default \in Readings
    BY DefaultLemma
  <2>2. [Default EXCEPT !.provider = "junk", !.vendor = "amd"] \in Readings
    <3>1. "junk" \in Texts("provider") /\ "amd" \in Texts("vendor")
      BY KeysLemma DEF Texts, Known
    <3>2. Default \in [Keys -> Words] /\ \A k \in Keys : Default[k] \in Texts(k)
      BY <2>1 DEF Readings
    <3> QED
      BY <3>1, <3>2, KeysLemma DEF Readings, Words
  <2> DEFINE Old == [Default EXCEPT !.provider = "junk", !.vendor = "amd"]
  <2>3. \/ ini = Absent
        \/ \E t \in {Default, Old} : ini = [present |-> TRUE, text |-> t, unseen |-> FALSE]
    OBVIOUS
  <2>4. Old \in Readings
    BY <2>2
  <2> HIDE DEF Old, Init, SettingsInit
  <2>5. CASE ini = Absent
    BY <2>1, <2>5 DEF Absent
  <2>6. CASE ini # Absent
    <3>1. PICK t \in {Default, Old} : ini = [present |-> TRUE, text |-> t, unseen |-> FALSE]
      BY <2>3, <2>6
    <3>2. t \in Readings
      BY <2>1, <2>4
    <3> QED
      BY <3>1, <3>2
  <2> QED
    BY <2>5, <2>6
<1>3. ~memory.loaded /\ memory \in [loaded : BOOLEAN, value : Answers]
  BY <1>1, DefaultLemma DEF Unloaded
<1>4. FileInv
  BY <1>1, <1>2, <1>3, IdleLemma DEF FileInv, Types, IoType, Queued, Accounted, Seen,
     Remembered, Pending, Started, Advancing, Reverting
<1>5. HalfWritten
  BY <1>1, IdleLemma DEF HalfWritten
<1>6. Sound(up) /\ Routed(up)
  BY <1>1, DownFacts DEF Routed
<1>7. Booted
  BY <1>1, <1>3, DownFacts DEF Booted, Unbooted
<1> QED
  BY <1>1, <1>4, <1>5, <1>6, <1>7 DEF SessionInv

\* A step that leaves the parts alone and the latched key as it was.
LEMMA SamePartsStep ==
    ASSUME SessionInv, FileInv', HalfWritten', UNCHANGED <<up, boot, launches>>,
           boot.posted \/ ~memory'.loaded, memory.loaded => memory'.loaded,
           memory'.value["vendor"] = memory.value["vendor"]
    PROVE  SessionInv'
<1>1. Sound(up)' /\ Routed(up)'
  BY DEF SessionInv, Sound, Held, Whole, Resting, Routed
<1>2. Booted'
  BY DEF SessionInv, Booted
<1> QED
  BY <1>1, <1>2 DEF SessionInv

\* A step that leaves the settings alone.
LEMMA SameSettingsStep ==
    ASSUME SessionInv, UNCHANGED settingsVars, launches' = launches,
           Sound(up'), Routed(up'), up'.bridge => memory.loaded, boot'.posted = TRUE,
           boot' \in [posted : BOOLEAN, factory : {"none", "hooked", "missed"},
                      enb : BOOLEAN, teardown : BOOLEAN]
    PROVE  SessionInv'
<1>1. FileInv'
  BY DEF SessionInv, settingsVars, FileInv, Types, Queued, Accounted, Seen, Remembered,
     Pending, Started, Advancing, Reverting, Touched, Agree
<1>2. HalfWritten'
  BY DEF SessionInv, settingsVars, HalfWritten, PastSet, PastRaw
<1>3. Sound(up)' /\ Routed(up)'
  BY DEF settingsVars, Sound, Held, Whole, Resting, Routed
<1> QED
  BY <1>1, <1>2, <1>3 DEF SessionInv, Booted, settingsVars

LEMMA NextLemma == SessionInv /\ [Next]_vars => SessionInv'
<1> SUFFICES ASSUME SessionInv, [Next]_vars
             PROVE  SessionInv'
  OBVIOUS
<1> USE DEF SessionInv
<1>1. /\ up \in Parts /\ memory.value.provider \in {"nvidia", "amd"}
      /\ memory.value.vendor = memory.value["vendor"]
  <2>1. memory.value.provider \in Known["provider"]
    BY TypesFacts, PairFacts DEF FileInv
  <2> QED
    BY <2>1 DEF Sound, Known
<1>2. CASE PostLoad
  <2>1. /\ Load(NoSave) /\ up' \in ApiOutcomes(up) /\ UNCHANGED <<io, launches>>
        /\ ~boot.posted /\ up = Down /\ ~memory.loaded
        /\ \E enb \in Connects : boot' = [boot EXCEPT !.posted = TRUE, !.enb = enb]
    BY <1>2 DEF PostLoad, Booted
  <2>2. FileInv'
    <3>1. NoSave \in Racings /\ io.kind = "idle"
      BY <2>1 DEF Racings, FileInv, Started
    <3> QED
      BY <2>1, <3>1, LoadStep
  <2>3. HalfWritten'
    BY <2>1 DEF HalfWritten, FileInv, Started
  <2>4. /\ Sound(up') /\ up'.backend = "none" /\ up'.latency = "none" /\ ~up'.bridge
    BY <2>1, DownFacts, ApiLemma
  <2>5. Sound(up)' /\ Routed(up)'
    BY <2>4 DEF Sound, Held, Whole, Resting, Routed
  <2>6. /\ boot'.posted = TRUE
        /\ boot' \in [posted : BOOLEAN, factory : {"none", "hooked", "missed"},
                      enb : BOOLEAN, teardown : BOOLEAN]
    BY <2>1 DEF Booted, Connects
  <2> QED
    BY <2>1, <2>2, <2>3, <2>4, <2>5, <2>6 DEF Booted
<1>3. CASE CreateDevice
  <2>1. /\ boot'.posted = TRUE /\ UNCHANGED <<settingsVars, up, launches>>
        /\ boot' \in [posted : BOOLEAN, factory : {"none", "hooked", "missed"},
                      enb : BOOLEAN, teardown : BOOLEAN]
    BY <1>3 DEF CreateDevice, Booted
  <2>2. Sound(up') /\ Routed(up')
    BY <2>1 DEF Sound, Held, Whole, Resting, Routed
  <2> QED
    BY <2>1, <2>2, SameSettingsStep DEF Booted
<1>4. CASE CreateSwapChain
  <2>1. up' \in CreateOutcomes(up) /\ UNCHANGED <<settingsVars, boot, launches>>
        /\ boot.factory = "hooked"
    BY <1>4 DEF CreateSwapChain
  <2>2. Sound(up') /\ Routed(up') /\ (up'.bridge => up.bridge \/ memory.loaded)
    BY <1>1, <2>1, CreateLemma
  <2>3. boot' = boot /\ boot.posted = TRUE
    BY <2>1 DEF Booted
  <2> QED
    BY <2>1, <2>2, <2>3, SameSettingsStep DEF Booted
<1>5. CASE EnbInitialize
  <2>1. /\ boot.posted /\ UNCHANGED <<settingsVars, boot, launches>>
        /\ \E u \in IF boot.teardown /\ ~up.api THEN ApiOutcomes(up) ELSE {up} :
               up' \in RuntimeOutcomes(u, "enb")
    BY <1>5 DEF EnbInitialize
  <2>2. PICK u \in IF boot.teardown /\ ~up.api THEN ApiOutcomes(up) ELSE {up} :
            up' \in RuntimeOutcomes(u, "enb")
    BY <2>1
  <2>3. Sound(u) /\ Routed(u) /\ u.bridge = up.bridge
    <3>1. CASE boot.teardown /\ ~up.api
      BY <1>1, <2>2, <3>1, ApiLemma
    <3>2. CASE ~(boot.teardown /\ ~up.api)
      BY <2>2, <3>2
    <3> QED
      BY <3>1, <3>2
  <2>4. Sound(up') /\ Routed(up') /\ up'.bridge = u.bridge
    <3>1. u \in Parts
      BY <2>3 DEF Sound
    <3> QED
      BY <1>1, <2>2, <2>3, <3>1, RuntimeLemma
  <2>5. boot' = boot /\ boot.posted = TRUE
    BY <2>1 DEF Booted
  <2> QED
    BY <2>1, <2>3, <2>4, <2>5, SameSettingsStep DEF Booted
<1>6. CASE EnbExit
  <2>1. /\ UNCHANGED <<settingsVars, launches>> /\ up' = TakenDown(up)
        /\ boot' = [boot EXCEPT !.teardown = TRUE] /\ boot.posted
    BY <1>6 DEF EnbExit
  <2>2. Sound(up') /\ Routed(up') /\ ~up'.bridge
    BY <1>1, <2>1, TakenDownLemma
  <2>3. /\ boot'.posted = TRUE
        /\ boot' \in [posted : BOOLEAN, factory : {"none", "hooked", "missed"},
                      enb : BOOLEAN, teardown : BOOLEAN]
    BY <2>1 DEF Booted
  <2> QED
    BY <2>1, <2>2, <2>3, SameSettingsStep
<1>7. CASE Frame
  <2>1. UNCHANGED <<up, boot, launches>> /\ memory.loaded /\ boot.posted
    <3>1. UNCHANGED <<up, boot, launches>> /\ up.bridge
      BY <1>7 DEF Frame, Serving
    <3> QED
      BY <3>1, DownFacts DEF Booted
  <2>2. PICK racing \in Racings : ReloadIfChanged(racing)
    <3>1. CASE ReloadIfChanged(NoSave)
      BY <3>1 DEF Racings
    <3>2. CASE \E key \in LiveKeys : \E text \in Known[key] :
                   ReloadIfChanged([k \in {key} |-> text])
      <4>1. PICK key \in LiveKeys : \E text \in Known[key] :
                   ReloadIfChanged([k \in {key} |-> text])
        BY <3>2
      <4>2. PICK text \in Known[key] : ReloadIfChanged([k \in {key} |-> text])
        BY <4>1
      <4>3. [k \in {key} |-> text] \in Racings
        BY DEF Racings
      <4> QED
        BY <4>2, <4>3
    <3> QED
      BY <1>7, <3>1, <3>2 DEF Frame
  <2>3. io.kind = "idle" /\ Load(racing) /\ UNCHANGED io
    BY <2>2 DEF ReloadIfChanged
  <2>4. FileInv'
    BY <2>3, LoadStep
  <2>5. memory'.loaded /\ memory'.value["vendor"] = memory.value["vendor"]
    BY <2>1, <2>3, LoadKeeps
  <2>6. HalfWritten'
    BY <2>3 DEF HalfWritten
  <2> QED
    BY <2>1, <2>4, <2>5, <2>6, SamePartsStep
<1>8. CASE Menu
  <2>1. UNCHANGED <<up, boot, launches>> /\ memory.loaded /\ boot.posted /\ MenuWrites
    <3>1. UNCHANGED <<up, boot, launches>> /\ up.bridge /\ MenuWrites
      BY <1>8 DEF Menu, Serving
    <3> QED
      BY <3>1, DownFacts DEF Booted
  <2> QED
    BY <2>1, BeginStep, HalfBegin, WritesKeep, SamePartsStep
<1>9. CASE Writing
  <2>1. WriteStep /\ UNCHANGED <<up, boot, launches>>
    BY <1>9 DEF Writing
  <2>2. FileInv'
    BY <2>1, PassStep, RefuseStep, FinishStep, FinishStageStep, VerifyStep, FailStep
       DEF WriteStep
  <2>3. HalfWritten'
    BY <2>1, HalfPass, HalfOther DEF WriteStep
  <2>4. memory'.loaded = memory.loaded /\ memory'.value["vendor"] = memory.value["vendor"]
    BY <2>1, WritesKeep
  <2>5. boot.posted \/ ~memory'.loaded
    BY <2>4 DEF Booted
  <2> QED
    BY <2>1, <2>2, <2>3, <2>4, <2>5, SamePartsStep
<1>10. CASE Editor
  <2>1. (Edit \/ RacingSave) /\ UNCHANGED <<up, boot, launches>>
    BY <1>10 DEF Editor
  <2>2. memory'.loaded = memory.loaded /\ memory'.value["vendor"] = memory.value["vendor"]
    BY <2>1, WritesKeep, RacingStep
  <2>3. boot.posted \/ ~memory'.loaded
    BY <2>2 DEF Booted
  <2>4. FileInv' /\ HalfWritten'
    <3>1. CASE Edit
      BY <3>1, EditStep, HalfEdit
    <3>2. CASE RacingSave
      BY <3>2, RacingStep DEF HalfWritten
    <3> QED
      BY <2>1, <3>1, <3>2
  <2> QED
    BY <2>1, <2>2, <2>3, <2>4, SamePartsStep
<1>11. CASE Relaunch
  <2>1. /\ launches' = launches + 1 /\ up' = Down /\ boot' = Unbooted /\ memory' = Unloaded
        /\ io' = Idle /\ ini' = [ini EXCEPT !.unseen = FALSE]
        /\ ghost' = [apart |-> {}, unread |-> {}]
    BY <1>11 DEF Relaunch
  <2>2. ~memory'.loaded /\ memory' \in [loaded : BOOLEAN, value : Answers]
    BY <2>1, DefaultLemma DEF Unloaded
  <2>3. FileInv'
    <3>1. Types'
      BY <2>1, <2>2, IdleLemma DEF FileInv, Types, IoType
    <3>2. Accounted' /\ Seen'
      BY <2>2 DEF Accounted, Seen
    <3> QED
      BY <2>1, <3>1, <3>2, IdleLemma, IdleStep
  <2>4. HalfWritten'
    BY <2>1, IdleLemma DEF HalfWritten
  <2>5. Sound(up)' /\ Routed(up)'
    <3>1. Sound(up') /\ Routed(up')
      BY <2>1, DownFacts DEF Routed
    <3>2. up'.backend = "none" /\ up'.latency = "none"
      BY <2>1, DownFacts
    <3> QED
      BY <3>1, <3>2 DEF Sound, Held, Whole, Resting, Routed
  <2>6. Booted'
    BY <2>1, <2>2, DownFacts DEF Booted, Unbooted
  <2> QED
    BY <2>1, <2>3, <2>4, <2>5, <2>6
<1>12. CASE UNCHANGED vars
  <2>1. FileInv'
    BY <1>12 DEF vars, settingsVars, FileInv, Types, Queued, Accounted, Seen, Remembered,
       Pending, Started, Advancing, Reverting, Touched, Agree
  <2>2. HalfWritten'
    BY <1>12 DEF vars, settingsVars, HalfWritten, PastSet, PastRaw
  <2>3. Sound(up)' /\ Routed(up)' /\ Booted'
    BY <1>12 DEF vars, settingsVars, Sound, Held, Whole, Resting, Routed, Booted
  <2> QED
    BY <1>12, <2>1, <2>2, <2>3 DEF vars
<1> QED
  BY <1>2, <1>3, <1>4, <1>5, <1>6, <1>7, <1>8, <1>9, <1>10, <1>11, <1>12 DEF Next

THEOREM SessionInvariant == Spec => []SessionInv
BY InitLemma, NextLemma, PTL DEF Spec

-----------------------------------------------------------------------------
(***************************************************************************)
(* The properties.                                                         *)
(***************************************************************************)

\* Once the plugin has seen the file's time, what it answers is what the file says, but for
\* the keys that were marked as read without being read or are staged for the next launch
\* (Settings.cpp: twelve setters, one commit, one staging and one load take that time).
THEOREM MemoryIsAlwaysFile == Spec => []MemoryIsFile
<1>1. SessionInv => MemoryIsFile
  BY DEF SessionInv, FileInv, Seen, Agree, MemoryIsFile
<1> QED
  BY <1>1, SessionInvariant, PTL

\* An operation that comes back to the menu leaves the file with a pair that was chosen as a
\* pair, wherever in its queue a write was refused, for any number of operations.
THEOREM PairAlwaysWhole == Spec => PairWhole
<1> DEFINE Ends == io.kind # "idle" /\ io'.kind = "idle" /\ launches' = launches
                       /\ ~io.torn /\ ~io'.torn
                       => Pair(ini'.text) \in {io.raw, Pair(io.before), Pair(io.to)}
<1>1. SessionInv /\ [Next]_vars => [Ends]_vars
  <2> SUFFICES ASSUME SessionInv, [Next]_vars,
                      io.kind # "idle", io'.kind = "idle", launches' = launches,
                      ~io.torn, ~io'.torn
               PROVE  Pair(ini'.text) \in {io.raw, Pair(io.before), Pair(io.to)}
    OBVIOUS
  <2>1. ~UNCHANGED vars
    BY DEF vars, settingsVars
  <2>2. ~Relaunch
    BY DEF Relaunch, SessionInv
  <2>3. io' # io
    OBVIOUS
  <2>4. ~Editor
    <3>1. ~Edit
      BY TypesFacts DEF Edit, Save, SessionInv, FileInv, Types
    <3>2. ~RacingSave
      BY RacingStep DEF SessionInv
    <3> QED
      BY <3>1, <3>2 DEF Editor
  <2>5. ~Menu
    BY DEF Menu, MenuWrites, BeginApply, BeginStage, BeginCommit, Begin
  <2>6. WriteStep
    BY <2>1, <2>2, <2>3, <2>4, <2>5
       DEF Next, PostLoad, CreateDevice, CreateSwapChain, EnbInitialize, EnbExit, Frame,
           ReloadIfChanged, Writing, settingsVars
  <2> QED
    BY <2>6, PairStep DEF SessionInv
<1>2. [][Ends]_vars => PairWhole
  BY DEF PairWhole
<1> QED
  BY <1>1, <1>2, SessionInvariant, PTL DEF Spec

\* Streamline's device, and Reflex, are used only while the latched setting names no other
\* vendor: the latch holds whatever the plugin, the menu or an editor writes, and the choice
\* is made only when the settings are loaded or no vendor can have been named.
THEOREM RouteAlwaysAgrees == Spec => []RouteAgrees
<1>1. SessionInv => RouteAgrees
  BY DEF SessionInv, Routed, RouteAgrees
<1> QED
  BY <1>1, SessionInvariant, PTL

\* Whichever part refused and however often ENB came and went, nothing outlives what it was
\* taken from, and DLSS-G is up whole or not at all.
THEOREM PartsAlwaysWhole == Spec => []PartsWhole
<1>1. SessionInv => PartsWhole
  BY DEF SessionInv, Sound, Held, Whole, PartsWhole, HeldFromLoaded, FeaturesWhole
<1> QED
  BY <1>1, SessionInvariant, PTL

\* Whatever an editor left in the file, the memory answers with values of its tables.
THEOREM TypesHold == Spec => []TypeOK
<1>1. SessionInv => TypeOK
  <2> SUFFICES ASSUME SessionInv
               PROVE  TypeOK
    OBVIOUS
  <2>1. Types /\ up \in Parts
    BY DEF SessionInv, FileInv, Sound
  <2>2. (\A k \in Keys : ini.text[k] \in Texts(k)) /\ (\A k \in Keys : memory.value[k] \in Known[k])
    BY <2>1, TypesFacts, AnswersUpdate, ReadingsUpdate
  <2>3. up.backend \in {"none", "native", "proxy"} /\ up.rr \in {"none", "vanilla", "enb"}
    BY <2>1 DEF Parts
  <2> QED
    BY <2>1, <2>2, <2>3, TypesFacts DEF TypeOK
<1> QED
  BY <1>1, SessionInvariant, PTL

=============================================================================
