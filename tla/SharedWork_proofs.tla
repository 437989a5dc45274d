-------------------------- MODULE SharedWork_proofs --------------------------
(***************************************************************************)
(* Proofs about the work that Direct3D 11 and Direct3D 12 share, for any   *)
(* number of slots, frames, upscalers, states of SharedResources and       *)
(* mishaps: what is in flight keeps what it uses, a dispatch and a         *)
(* generation read the textures of their own frame, and D3D11 takes out    *)
(* the image of its own.                                                   *)
(*                                                                         *)
(* The argument is about one relation of two queued commands: After, that  *)
(* the one cannot be executed before the other, because a wait in front of *)
(* it stays blocked until then.  It survives every step of either queue,   *)
(* and a new wait establishes it.  Whoever reads a texture is After the    *)
(* writes of its own frame, and the writes of later frames are After it.   *)
(***************************************************************************)
EXTENDS SharedWork, SequenceTheorems, TLAPS

-----------------------------------------------------------------------------
(***************************************************************************)
(* Commands and queues.                                                    *)
(***************************************************************************)
Marks == [op : {"signal", "wait"}, fence : Fences, value : Nat]

Writes == [op : {"write"}, to : {"inputs", "generator"}, frame : Nat,
           of : 1 .. MaxShared]

Takes == [op : {"take"}, frame : Nat, of : 1 .. MaxShared]

Dispatched == [op : {"dispatch"}, frame : Nat, of : 1 .. MaxShared,
               slot : (1 .. MaxContexts) \X Indices]

Generations == [op : {"generate"}, frame : Nat, of : 1 .. MaxShared,
                prepared : BOOLEAN]

Commands == Marks \cup Writes \cup Takes \cup Dispatched \cup Generations

IsMark(c) == c.op \in {"signal", "wait"}

IsWork(c) == c.op \in {"write", "take", "dispatch", "generate"}

LEMMA CommandKinds ==
    ASSUME NEW c \in Commands
    PROVE  /\ IsMark(c) \/ IsWork(c)
           /\ ~(IsMark(c) /\ IsWork(c))
           /\ IsMark(c) => c.fence \in Fences /\ c.value \in Nat
           /\ IsWork(c) => c.frame \in Nat /\ c.of \in 1 .. MaxShared
           /\ c.op = "write" => c.to \in {"inputs", "generator"}
           /\ c.op = "dispatch" => /\ c.slot[1] \in 1 .. MaxContexts
                                   /\ c.slot[2] \in Indices
           /\ c.op = "generate" => c.prepared \in BOOLEAN
<1>1. CASE c \in Marks
  BY <1>1 DEF Marks, IsMark, IsWork
<1>2. CASE c \in Writes
  BY <1>2 DEF Writes, IsMark, IsWork
<1>3. CASE c \in Takes
  BY <1>3 DEF Takes, IsMark, IsWork
<1>4. CASE c \in Dispatched
  BY <1>4 DEF Dispatched, IsMark, IsWork
<1>5. CASE c \in Generations
  BY <1>5 DEF Generations, IsMark, IsWork
<1> QED
  BY <1>1, <1>2, <1>3, <1>4, <1>5 DEF Commands

LEMMA FenceFacts ==
    /\ Bridge \in Fences
    /\ \A id \in 1 .. MaxShared : Ready(id) \in Fences /\ Ready(id) # Bridge
    /\ \A id \in 1 .. MaxContexts : OfContext(id) \in Fences
                                    /\ OfContext(id) # Bridge
    /\ \A i, j : Ready(i) # OfContext(j)
    /\ \A i, j : Ready(i) = Ready(j) => i = j
    /\ \A i, j : OfContext(i) = OfContext(j) => i = j
BY DEF Ready, Bridge, OfContext, Fences

Queues == Seq(Commands)

\* r is q with the command c behind it, which is at l.
Longer(q, r, c, l) ==
    /\ l \in Nat /\ l >= 1
    /\ DOMAIN r = DOMAIN q \cup {l}
    /\ r[l] = c
    /\ \A i \in DOMAIN q : i \in Nat /\ 1 <= i /\ i < l /\ r[i] = q[i]

LEMMA AppendLemma ==
    ASSUME NEW q \in Queues, NEW c \in Commands
    PROVE  /\ Append(q, c) \in Queues /\ Len(Append(q, c)) = Len(q) + 1
           /\ Longer(q, Append(q, c), c, Len(q) + 1)
<1>1. Len(q) \in Nat /\ DOMAIN q = 1 .. Len(q)
  BY DEF Queues
<1>2. Append(q, c) \in Queues /\ Len(Append(q, c)) = Len(q) + 1
  BY DEF Queues
<1>3. DOMAIN Append(q, c) = 1 .. Len(q) + 1
  BY <1>2 DEF Queues
<1>4. \A i \in 1 .. Len(q) : Append(q, c)[i] = q[i] /\ i < Len(q) + 1
  BY <1>1 DEF Queues
<1>5. Append(q, c)[Len(q) + 1] = c
  BY <1>1 DEF Queues
<1>6. 1 .. Len(q) + 1 = (1 .. Len(q)) \cup {Len(q) + 1}
  BY <1>1
<1> QED
  BY <1>1, <1>2, <1>3, <1>4, <1>5, <1>6 DEF Longer

\* r is q without its head.
Shorter(q, r) ==
    /\ 1 \in DOMAIN q
    /\ \A i \in DOMAIN r : /\ i \in Nat /\ i >= 1
                           /\ i + 1 \in DOMAIN q /\ r[i] = q[i + 1]
    /\ \A i \in DOMAIN q : /\ i \in Nat /\ i >= 1
                           /\ i > 1 => i - 1 \in DOMAIN r /\ r[i - 1] = q[i]

LEMMA TailLemma ==
    ASSUME NEW q \in Queues, q # <<>>
    PROVE  /\ Tail(q) \in Queues
           /\ Shorter(q, Tail(q)) /\ Len(Tail(q)) + 1 = Len(q)
           /\ Head(q) = q[1] /\ q[1] \in Commands
<1>1. Len(q) \in Nat /\ DOMAIN q = 1 .. Len(q) /\ Len(q) > 0
  BY DEF Queues
<1>2. /\ Tail(q) \in Queues /\ Len(Tail(q)) = Len(q) - 1
      /\ Head(q) = q[1]
      /\ \A i \in 1 .. Len(Tail(q)) : Tail(q)[i] = q[i + 1]
  BY HeadTailProperties DEF Queues
<1>3. DOMAIN Tail(q) = 1 .. Len(q) - 1
  BY <1>1, <1>2 DEF Queues
<1>4. 1 \in DOMAIN q /\ q[1] \in Commands
  BY <1>1 DEF Queues
<1>5. \A i \in DOMAIN Tail(q) : /\ i \in Nat /\ i >= 1
                                /\ i + 1 \in DOMAIN q /\ Tail(q)[i] = q[i + 1]
  BY <1>1, <1>2, <1>3
<1>6. \A i \in DOMAIN q : /\ i \in Nat /\ i >= 1
                          /\ i > 1 => /\ i - 1 \in DOMAIN Tail(q)
                                      /\ Tail(q)[i - 1] = q[i]
  <2> TAKE i \in DOMAIN q
  <2>1. i \in Nat /\ i >= 1 /\ i <= Len(q)
    BY <1>1
  <2>2. ASSUME i > 1
        PROVE  i - 1 \in DOMAIN Tail(q) /\ Tail(q)[i - 1] = q[i]
    <3>1. i - 1 \in 1 .. Len(q) - 1
      BY <1>1, <2>1, <2>2
    <3>2. Tail(q)[i - 1] = q[(i - 1) + 1]
      BY <1>2, <1>3, <3>1
    <3> QED
      BY <1>3, <2>1, <3>1, <3>2
  <2> QED
    BY <2>1, <2>2
<1> QED
  BY <1>1, <1>2, <1>4, <1>5, <1>6 DEF Shorter

LEMMA QueueLemma ==
    ASSUME NEW q \in Queues
    PROVE  /\ Len(q) \in Nat /\ DOMAIN q = 1 .. Len(q)
           /\ \A n \in DOMAIN q : n \in Nat /\ n >= 1 /\ n < Len(q) + 1
                                  /\ q[n] \in Commands
BY DEF Queues

\* Commands are appended one after the other.
LEMMA ConcatLemma ==
    ASSUME NEW q \in Queues, NEW a \in Commands
    PROVE  /\ q \o <<a>> = Append(q, a)
           /\ \A b \in Commands :
                 /\ q \o <<a, b>> = Append(Append(q, a), b)
                 /\ \A c \in Commands :
                       q \o <<a, b, c>> = Append(Append(Append(q, a), b), c)
<1>1. \A p \in Queues, x \in Commands : Append(p, x) = p \o <<x>>
                                        /\ p \o <<x>> \in Queues
  BY ConcatProperties, AppendIsConcat DEF Queues
<1>2. ASSUME NEW b \in Commands
      PROVE  q \o <<a, b>> = Append(Append(q, a), b)
  <2>1. <<a, b>> = <<a>> \o <<b>>
    OBVIOUS
  <2>2. (q \o <<a>>) \o <<b>> = q \o (<<a>> \o <<b>>)
    BY ConcatAssociative DEF Queues
  <2> QED
    BY <1>1, <2>1, <2>2
<1>3. ASSUME NEW b \in Commands, NEW c \in Commands
      PROVE  q \o <<a, b, c>> = Append(Append(Append(q, a), b), c)
  <2>1. <<a, b, c>> = <<a, b>> \o <<c>>
    OBVIOUS
  <2>2. (q \o <<a, b>>) \o <<c>> = q \o (<<a, b>> \o <<c>>)
    BY ConcatAssociative DEF Queues
  <2>3. q \o <<a, b>> \in Queues
    BY ConcatProperties DEF Queues
  <2> QED
    BY <1>1, <1>2, <2>1, <2>2, <2>3
<1> QED
  BY <1>1, <1>2, <1>3

-----------------------------------------------------------------------------
(***************************************************************************)
(* One command after another.  Items are given by queue and position; the  *)
(* position behind the last stands for what is appended next.              *)
(***************************************************************************)
Counters == [Fences -> Nat]

IsSignal(c, f) == c.op = "signal" /\ c.fence = f

\* The signals of f among the first k commands are under v.
Below(q, k, f, v) ==
    \A n \in DOMAIN q : n <= k /\ IsSignal(q[n], f) => q[n].value < v

\* The item i of a is not executed before the item j of b: a wait in front of i
\* is blocked, and nothing before j makes it pass.
After(a, i, b, j, fc) ==
    \E n \in DOMAIN a :
        /\ n < i /\ a[n].op = "wait"
        /\ fc[a[n].fence] < a[n].value
        /\ Below(a, n, a[n].fence, a[n].value)
        /\ Below(b, j, a[n].fence, a[n].value)

\* The command c was due and is executed.
Ran(c, fc, fd) ==
    /\ fc \in Counters /\ fd \in Counters
    /\ c.op = "wait" => fc[c.fence] >= c.value
    /\ \A f \in Fences : fd[f] = IF IsSignal(c, f) THEN c.value ELSE fc[f]

LEMMA BelowGrows ==
    ASSUME NEW q, NEW r, NEW c, NEW l, Longer(q, r, c, l),
           NEW k \in Nat, NEW f, NEW v
    PROVE  /\ k < l => (Below(q, k, f, v) <=> Below(r, k, f, v))
           /\ Below(q, k, f, v) /\ ~IsSignal(c, f) => Below(r, k, f, v)
BY DEF Longer, Below

LEMMA BelowRuns ==
    ASSUME NEW q, NEW r, Shorter(q, r), NEW k \in Nat, k >= 1, NEW f, NEW v,
           Below(q, k, f, v)
    PROVE  /\ Below(r, k - 1, f, v)
           /\ IsSignal(q[1], f) => q[1].value < v
<1>1. IsSignal(q[1], f) => q[1].value < v
  BY DEF Shorter, Below
<1>2. ASSUME NEW n \in DOMAIN r, n <= k - 1, IsSignal(r[n], f)
      PROVE  r[n].value < v
  <2>1. /\ n \in Nat /\ n + 1 \in DOMAIN q /\ r[n] = q[n + 1]
        /\ n + 1 <= k
    BY <1>2 DEF Shorter
  <2> QED
    BY <1>2, <2>1 DEF Below
<1> QED
  BY <1>1, <1>2 DEF Below

\* Appending to the one queue or the other changes nothing.
LEMMA AfterGrows ==
    ASSUME NEW a \in Queues, NEW i, NEW b \in Queues, NEW j \in Nat, NEW fc,
           After(a, i, b, j, fc)
    PROVE  /\ \A r, c, l : Longer(a, r, c, l) => After(r, i, b, j, fc)
           /\ \A r, c, l : Longer(b, r, c, l) /\ (j < l \/ ~IsMark(c)) =>
                  After(a, i, r, j, fc)
<1>1. PICK n \in DOMAIN a :
        /\ n < i /\ a[n].op = "wait"
        /\ fc[a[n].fence] < a[n].value
        /\ Below(a, n, a[n].fence, a[n].value)
        /\ Below(b, j, a[n].fence, a[n].value)
  BY DEF After
<1>2. n \in Nat
  BY QueueLemma
<1>3. ASSUME NEW r, NEW c, NEW l, Longer(a, r, c, l)
      PROVE  After(r, i, b, j, fc)
  <2>1. n \in DOMAIN r /\ r[n] = a[n] /\ n < l
    BY <1>3 DEF Longer
  <2>2. Below(r, n, a[n].fence, a[n].value)
    BY <1>1, <1>2, <1>3, <2>1, BelowGrows
  <2> QED
    BY <1>1, <2>1, <2>2 DEF After
<1>4. ASSUME NEW r, NEW c, NEW l, Longer(b, r, c, l), j < l \/ ~IsMark(c)
      PROVE  After(a, i, r, j, fc)
  <2>1. Below(r, j, a[n].fence, a[n].value)
    BY <1>1, <1>4, BelowGrows DEF IsSignal, IsMark
  <2> QED
    BY <1>1, <2>1 DEF After
<1> QED
  BY <1>3, <1>4

LEMMA AfterLater ==
    ASSUME NEW a \in Queues, NEW i \in Nat, NEW b, NEW j, NEW fc,
           After(a, i, b, j, fc), NEW k \in Nat, i <= k
    PROVE  After(a, k, b, j, fc)
BY QueueLemma DEF After

\* The first command is after nothing.
LEMMA AfterFirst ==
    ASSUME NEW a \in Queues, NEW b, NEW j, NEW fc
    PROVE  ~After(a, 1, b, j, fc)
BY QueueLemma DEF After

\* Neither does the execution of what is in front.
LEMMA AfterRunsOwn ==
    ASSUME NEW a \in Queues, NEW r, Shorter(a, r), NEW fc, NEW fd,
           Ran(a[1], fc, fd), NEW i \in Nat, NEW b, NEW j, After(a, i, b, j, fc)
    PROVE  After(r, i - 1, b, j, fd)
<1>1. PICK n \in DOMAIN a :
        /\ n < i /\ a[n].op = "wait"
        /\ fc[a[n].fence] < a[n].value
        /\ Below(a, n, a[n].fence, a[n].value)
        /\ Below(b, j, a[n].fence, a[n].value)
  BY DEF After
<1> DEFINE f == a[n].fence
           v == a[n].value
<1>2. n \in Nat /\ n >= 1 /\ f \in Fences /\ v \in Nat
  BY <1>1, QueueLemma, CommandKinds DEF IsMark
<1>3. fc[f] \in Nat
  BY <1>2 DEF Ran, Counters
<1>4. n # 1
  BY <1>1, <1>2, <1>3 DEF Ran
<1>5. n - 1 \in DOMAIN r /\ r[n - 1] = a[n] /\ n - 1 < i - 1
  BY <1>1, <1>2, <1>4 DEF Shorter
<1>6. Below(r, n - 1, f, v) /\ (IsSignal(a[1], f) => a[1].value < v)
  BY <1>1, <1>2, BelowRuns
<1>7. fd[f] < v
  BY <1>1, <1>2, <1>6 DEF Ran
<1> QED
  BY <1>1, <1>5, <1>6, <1>7 DEF After

LEMMA AfterRunsOther ==
    ASSUME NEW a \in Queues, NEW b \in Queues, NEW r, Shorter(b, r),
           NEW fc, NEW fd, Ran(b[1], fc, fd), NEW i, NEW j \in Nat, j >= 1,
           After(a, i, b, j, fc)
    PROVE  After(a, i, r, j - 1, fd)
<1>1. PICK n \in DOMAIN a :
        /\ n < i /\ a[n].op = "wait"
        /\ fc[a[n].fence] < a[n].value
        /\ Below(a, n, a[n].fence, a[n].value)
        /\ Below(b, j, a[n].fence, a[n].value)
  BY DEF After
<1> DEFINE f == a[n].fence
           v == a[n].value
<1>2. f \in Fences /\ v \in Nat
  BY <1>1, QueueLemma, CommandKinds DEF IsMark
<1>3. Below(r, j - 1, f, v) /\ (IsSignal(b[1], f) => b[1].value < v)
  BY <1>1, BelowRuns
<1>4. fd[f] < v
  BY <1>1, <1>2, <1>3 DEF Ran
<1> QED
  BY <1>1, <1>3, <1>4 DEF After

\* A wait for a value that is not signalled yet is a gate.
LEMMA GateLemma ==
    ASSUME NEW a \in Queues, NEW r, NEW f \in Fences, NEW v \in Nat, NEW l,
           Longer(a, r, Wait(f, v), l),
           NEW b, NEW j, NEW fc, fc[f] < v, NEW k \in Nat,
           Below(a, k, f, v), l <= k + 1, Below(b, j, f, v), NEW i, l < i
    PROVE  After(r, i, b, j, fc)
<1>1. l \in DOMAIN r /\ r[l] = Wait(f, v)
  BY DEF Longer
<1>2. r[l].op = "wait" /\ r[l].fence = f /\ r[l].value = v
  BY <1>1 DEF Wait
<1>3. Below(r, l, f, v)
  BY <1>2 DEF Longer, Below, IsSignal
<1> QED
  BY <1>1, <1>2, <1>3 DEF After

-----------------------------------------------------------------------------
(***************************************************************************)
(* Readers and writers of a texture, in two queues.                        *)
(***************************************************************************)
Textures == {"inputs", "output", "generator"}

Held == [1 .. MaxShared -> [inputs : Nat, output : Nat, generator : Nat]]

IsWrite(c, t, id) ==
    \/ c.op = "write" /\ c.to = t /\ c.of = id
    \/ c.op = "dispatch" /\ t = "output" /\ c.of = id

Reads(c, t) ==
    \/ c.op = "dispatch" /\ t = "inputs"
    \/ c.op = "generate" /\ (t = "generator" \/ (t = "inputs" /\ c.prepared))
    \/ c.op = "take" /\ t = "output"

\* The work of a queue is in the order of its frames.
Sorted(q) ==
    \A i, j \in DOMAIN q :
        i < j /\ IsWork(q[i]) /\ IsWork(q[j]) => q[i].frame <= q[j].frame

\* What the frame f is to read is written, or will be by w.
Fed(w, t, id, f, tx) ==
    \/ \E p \in DOMAIN w : IsWrite(w[p], t, id) /\ w[p].frame = f
    \/ /\ tx[id][t] = f
       /\ \A p \in DOMAIN w : IsWrite(w[p], t, id) => w[p].frame > f

\* A reader and a writer are executed in the order of their frames.
Apart(r, m, w, p, fc) ==
    /\ w[p].frame <= r[m].frame => After(r, m, w, p, fc)
    /\ w[p].frame > r[m].frame => After(w, p, r, m, fc)

\* Every reader in r, but those in x, reads what the writers in w wrote for its
\* frame.
Served(r, w, fc, tx, x) ==
    \A m \in DOMAIN r, t \in Textures :
        Reads(r[m], t) /\ <<r[m].op, r[m].frame>> \notin x =>
            /\ \A p \in DOMAIN w :
                 IsWrite(w[p], t, r[m].of) => Apart(r, m, w, p, fc)
            /\ Fed(w, t, r[m].of, r[m].frame, tx)

LEMMA WorkFacts ==
    ASSUME NEW c \in Commands
    PROVE  /\ \A t : Reads(c, t) => IsWork(c) /\ ~IsMark(c)
           /\ \A t, id : IsWrite(c, t, id) => IsWork(c) /\ ~IsMark(c) /\ c.of = id
           /\ IsWork(c) => c.frame \in Nat /\ c.of \in 1 .. MaxShared
BY CommandKinds DEF Reads, IsWrite, IsWork

LEMMA SortedGrows ==
    ASSUME NEW q \in Queues, NEW r, NEW c, NEW l, Longer(q, r, c, l), Sorted(q),
           IsWork(c) => \A n \in DOMAIN q : IsWork(q[n]) => q[n].frame <= c.frame
    PROVE  Sorted(r)
<1> SUFFICES ASSUME NEW i \in DOMAIN r, NEW j \in DOMAIN r, i < j,
                    IsWork(r[i]), IsWork(r[j])
             PROVE  r[i].frame <= r[j].frame
  BY DEF Sorted
<1>1. i \in DOMAIN q /\ r[i] = q[i]
  BY DEF Longer
<1>2. CASE j \in DOMAIN q
  BY <1>1, <1>2 DEF Longer, Sorted
<1>3. CASE j = l
  BY <1>1, <1>3 DEF Longer
<1> QED
  BY <1>2, <1>3 DEF Longer

LEMMA SortedRuns ==
    ASSUME NEW q, NEW r, Shorter(q, r), Sorted(q)
    PROVE  /\ Sorted(r)
           /\ \A n \in DOMAIN r : IsWork(q[1]) /\ IsWork(r[n]) =>
                 q[1].frame <= r[n].frame
<1>1. ASSUME NEW i \in DOMAIN r, NEW j \in DOMAIN r, i < j,
             IsWork(r[i]), IsWork(r[j])
      PROVE  r[i].frame <= r[j].frame
  <2>1. /\ i + 1 \in DOMAIN q /\ j + 1 \in DOMAIN q /\ i + 1 < j + 1
        /\ r[i] = q[i + 1] /\ r[j] = q[j + 1]
    BY <1>1 DEF Shorter
  <2> QED
    BY <1>1, <2>1 DEF Sorted
<1>2. ASSUME NEW n \in DOMAIN r, IsWork(q[1]), IsWork(r[n])
      PROVE  q[1].frame <= r[n].frame
  <2>1. 1 \in DOMAIN q /\ n + 1 \in DOMAIN q /\ 1 < n + 1 /\ r[n] = q[n + 1]
    BY <1>2 DEF Shorter
  <2> QED
    BY <1>2, <2>1 DEF Sorted
<1> QED
  BY <1>1, <1>2 DEF Sorted

LEMMA FedGrows ==
    ASSUME NEW w, NEW w2, NEW c \in Commands, NEW l, Longer(w, w2, c, l),
           NEW t, NEW id, NEW f \in Nat, NEW tx, Fed(w, t, id, f, tx),
           IsWrite(c, t, id) => c.frame >= f
    PROVE  Fed(w2, t, id, f, tx)
<1>1. IsWrite(c, t, id) => c.frame \in Nat
  BY WorkFacts
<1>2. CASE \E p \in DOMAIN w : IsWrite(w[p], t, id) /\ w[p].frame = f
  BY <1>2 DEF Fed, Longer
<1>3. CASE IsWrite(c, t, id) /\ c.frame = f
  BY <1>3 DEF Fed, Longer
<1>4. CASE /\ ~(IsWrite(c, t, id) /\ c.frame = f)
           /\ tx[id][t] = f
           /\ \A p \in DOMAIN w : IsWrite(w[p], t, id) => w[p].frame > f
  <2>1. \A p \in DOMAIN w2 : IsWrite(w2[p], t, id) => w2[p].frame > f
    BY <1>1, <1>4 DEF Longer
  <2> QED
    BY <1>4, <2>1 DEF Fed
<1> QED
  BY <1>2, <1>3, <1>4 DEF Fed

\* The writers move on.
LEMMA FedRuns ==
    ASSUME NEW w \in Queues, NEW w2 \in Queues, Shorter(w, w2), Sorted(w),
           NEW t, NEW id, NEW f \in Nat, NEW tx, NEW tx2, Fed(w, t, id, f, tx),
           IsWrite(w[1], t, id) => w[1].frame <= f /\ tx2[id][t] = w[1].frame,
           ~IsWrite(w[1], t, id) => tx2[id][t] = tx[id][t]
    PROVE  Fed(w2, t, id, f, tx2)
<1>1. \A p \in DOMAIN w2 : /\ w2[p] \in Commands /\ p + 1 \in DOMAIN w
                           /\ w2[p] = w[p + 1]
  BY QueueLemma DEF Shorter
<1>2. w[1] \in Commands /\ 1 \in DOMAIN w
  BY QueueLemma DEF Shorter
<1>3. CASE \E p \in DOMAIN w2 : IsWrite(w2[p], t, id) /\ w2[p].frame = f
  BY <1>3 DEF Fed
<1>4. CASE ~\E p \in DOMAIN w2 : IsWrite(w2[p], t, id) /\ w2[p].frame = f
  <2>1. CASE IsWrite(w[1], t, id) /\ w[1].frame = f
    <3>1. ASSUME NEW p \in DOMAIN w2, IsWrite(w2[p], t, id)
          PROVE  w2[p].frame > f
      <4>1. w[1].frame <= w2[p].frame
        BY <1>1, <1>2, <2>1, <3>1, SortedRuns, WorkFacts
      <4> QED
        BY <1>1, <1>4, <2>1, <3>1, <4>1, WorkFacts
    <3> QED
      BY <2>1, <3>1 DEF Fed
  <2>2. CASE ~(IsWrite(w[1], t, id) /\ w[1].frame = f)
    <3>1. ~\E p \in DOMAIN w : IsWrite(w[p], t, id) /\ w[p].frame = f
      BY <1>4, <2>2 DEF Shorter
    <3>2. /\ tx[id][t] = f
          /\ \A p \in DOMAIN w : IsWrite(w[p], t, id) => w[p].frame > f
      BY <3>1 DEF Fed
    <3>3. ~IsWrite(w[1], t, id)
      BY <1>2, <3>2, WorkFacts
    <3> QED
      BY <1>1, <3>2, <3>3 DEF Fed
  <2> QED
    BY <2>1, <2>2
<1> QED
  BY <1>3, <1>4

-----------------------------------------------------------------------------
(***************************************************************************)
(* Every reader is served: what appends and executions need for that.      *)
(***************************************************************************)
LEMMA ServedGrowsReaders ==
    ASSUME NEW r \in Queues, NEW r2, NEW c \in Commands, NEW l,
           Longer(r, r2, c, l), NEW w \in Queues, NEW fc, NEW tx, NEW x,
           Served(r, w, fc, tx, x),
           \A t \in Textures : Reads(c, t) /\ <<c.op, c.frame>> \notin x =>
               /\ \A p \in DOMAIN w : IsWrite(w[p], t, c.of) =>
                     w[p].frame <= c.frame /\ After(r2, l, w, p, fc)
               /\ Fed(w, t, c.of, c.frame, tx)
    PROVE  Served(r2, w, fc, tx, x)
<1> SUFFICES ASSUME NEW m \in DOMAIN r2, NEW t \in Textures,
                    Reads(r2[m], t), <<r2[m].op, r2[m].frame>> \notin x
             PROVE  /\ \A p \in DOMAIN w :
                         IsWrite(w[p], t, r2[m].of) => Apart(r2, m, w, p, fc)
                    /\ Fed(w, t, r2[m].of, r2[m].frame, tx)
  BY DEF Served
<1>1. CASE m \in DOMAIN r
  <2>1. r2[m] = r[m] /\ m < l
    BY <1>1 DEF Longer
  <2>2. /\ \A p \in DOMAIN w :
             IsWrite(w[p], t, r[m].of) => Apart(r, m, w, p, fc)
        /\ Fed(w, t, r[m].of, r[m].frame, tx)
    BY <1>1, <2>1 DEF Served
  <2>3. ASSUME NEW p \in DOMAIN w, Apart(r, m, w, p, fc)
        PROVE  Apart(r2, m, w, p, fc)
    <3>1. m \in Nat /\ p \in Nat
      BY <1>1, QueueLemma
    <3>2. After(r, m, w, p, fc) => After(r2, m, w, p, fc)
      BY <3>1, AfterGrows
    <3>3. After(w, p, r, m, fc) => After(w, p, r2, m, fc)
      BY <2>1, <3>1, AfterGrows
    <3> QED
      BY <2>1, <2>3, <3>2, <3>3 DEF Apart
  <2> QED
    BY <2>1, <2>2, <2>3
<1>2. CASE m = l
  <2>1. r2[m] = c
    BY <1>2 DEF Longer
  <2>2. /\ \A p \in DOMAIN w : IsWrite(w[p], t, c.of) =>
              w[p].frame <= c.frame /\ After(r2, l, w, p, fc)
        /\ Fed(w, t, c.of, c.frame, tx)
    BY <2>1
  <2>3. ASSUME NEW p \in DOMAIN w, IsWrite(w[p], t, c.of)
        PROVE  Apart(r2, m, w, p, fc)
    <3>1. w[p].frame \in Nat /\ c.frame \in Nat
      BY <2>1, <2>3, WorkFacts, QueueLemma
    <3> QED
      BY <1>2, <2>1, <2>2, <2>3, <3>1 DEF Apart
  <2> QED
    BY <2>1, <2>2, <2>3
<1> QED
  BY <1>1, <1>2 DEF Longer

LEMMA ServedGrowsWriters ==
    ASSUME NEW r \in Queues, NEW w \in Queues, NEW w2, NEW c \in Commands,
           NEW l, Longer(w, w2, c, l), NEW fc, NEW tx, NEW x,
           Served(r, w, fc, tx, x),
           \A m \in DOMAIN r, t \in Textures :
               /\ Reads(r[m], t) /\ <<r[m].op, r[m].frame>> \notin x
               /\ IsWrite(c, t, r[m].of)
               => c.frame > r[m].frame /\ After(w2, l, r, m, fc)
    PROVE  Served(r, w2, fc, tx, x)
<1> SUFFICES ASSUME NEW m \in DOMAIN r, NEW t \in Textures,
                    Reads(r[m], t), <<r[m].op, r[m].frame>> \notin x
             PROVE  /\ \A p \in DOMAIN w2 :
                         IsWrite(w2[p], t, r[m].of) => Apart(r, m, w2, p, fc)
                    /\ Fed(w2, t, r[m].of, r[m].frame, tx)
  BY DEF Served
<1>1. /\ \A p \in DOMAIN w :
           IsWrite(w[p], t, r[m].of) => Apart(r, m, w, p, fc)
      /\ Fed(w, t, r[m].of, r[m].frame, tx)
  BY DEF Served
<1>2. m \in Nat /\ r[m] \in Commands /\ r[m].frame \in Nat
  BY QueueLemma, WorkFacts
<1>3. IsWrite(c, t, r[m].of) =>
         /\ c.frame \in Nat /\ c.frame > r[m].frame
         /\ After(w2, l, r, m, fc)
  BY WorkFacts
<1>4. Fed(w2, t, r[m].of, r[m].frame, tx)
  BY <1>1, <1>2, <1>3, FedGrows
<1>5. ASSUME NEW p \in DOMAIN w2, IsWrite(w2[p], t, r[m].of)
      PROVE  Apart(r, m, w2, p, fc)
  <2>1. CASE p \in DOMAIN w
    <3>1. w2[p] = w[p] /\ p < l /\ p \in Nat
      BY <2>1 DEF Longer
    <3>2. Apart(r, m, w, p, fc)
      BY <1>1, <1>5, <2>1, <3>1
    <3>3. After(r, m, w, p, fc) => After(r, m, w2, p, fc)
      BY <3>1, AfterGrows
    <3>4. After(w, p, r, m, fc) => After(w2, p, r, m, fc)
      BY <1>2, <3>1, AfterGrows
    <3> QED
      BY <3>1, <3>2, <3>3, <3>4 DEF Apart
  <2>2. CASE p = l
    <3>1. w2[p] = c
      BY <2>2 DEF Longer
    <3> QED
      BY <1>2, <1>3, <1>5, <2>2, <3>1 DEF Apart
  <2> QED
    BY <2>1, <2>2 DEF Longer
<1> QED
  BY <1>4, <1>5

LEMMA ServedRunsReaders ==
    ASSUME NEW r \in Queues, NEW r2, Shorter(r, r2), NEW w \in Queues,
           NEW fc, NEW fd, Ran(r[1], fc, fd), NEW tx, NEW tx2, NEW x,
           Served(r, w, fc, tx, x),
           \A m \in DOMAIN r, t \in Textures :
               Reads(r[m], t) => tx2[r[m].of][t] = tx[r[m].of][t]
    PROVE  Served(r2, w, fd, tx2, x)
<1> SUFFICES ASSUME NEW m \in DOMAIN r2, NEW t \in Textures,
                    Reads(r2[m], t), <<r2[m].op, r2[m].frame>> \notin x
             PROVE  /\ \A p \in DOMAIN w :
                         IsWrite(w[p], t, r2[m].of) => Apart(r2, m, w, p, fd)
                    /\ Fed(w, t, r2[m].of, r2[m].frame, tx2)
  BY DEF Served
<1>1. /\ m \in Nat /\ m >= 1 /\ m + 1 \in DOMAIN r /\ r2[m] = r[m + 1]
      /\ m + 1 \in Nat /\ m + 1 >= 1 /\ (m + 1) - 1 = m
  BY DEF Shorter
<1>2. /\ \A p \in DOMAIN w :
           IsWrite(w[p], t, r2[m].of) => Apart(r, m + 1, w, p, fc)
      /\ Fed(w, t, r2[m].of, r2[m].frame, tx)
      /\ tx2[r2[m].of][t] = tx[r2[m].of][t]
  BY <1>1 DEF Served
<1>3. Fed(w, t, r2[m].of, r2[m].frame, tx2)
  BY <1>2 DEF Fed
<1>4. ASSUME NEW p \in DOMAIN w, Apart(r, m + 1, w, p, fc)
      PROVE  Apart(r2, m, w, p, fd)
  <2>1. p \in Nat
    BY QueueLemma
  <2>2. After(r, m + 1, w, p, fc) => After(r2, m, w, p, fd)
    BY <1>1, AfterRunsOwn
  <2>3. After(w, p, r, m + 1, fc) => After(w, p, r2, m, fd)
    BY <1>1, <2>1, AfterRunsOther
  <2> QED
    BY <1>1, <1>4, <2>2, <2>3 DEF Apart
<1> QED
  BY <1>2, <1>3, <1>4

LEMMA ServedRunsWriters ==
    ASSUME NEW r \in Queues, NEW w \in Queues, NEW w2 \in Queues,
           Shorter(w, w2), Sorted(w),
           NEW fc, NEW fd, Ran(w[1], fc, fd), NEW tx, NEW tx2, NEW x,
           Served(r, w, fc, tx, x),
           \A t \in Textures, id \in 1 .. MaxShared :
               /\ IsWrite(w[1], t, id) => tx2[id][t] = w[1].frame
               /\ ~IsWrite(w[1], t, id) => tx2[id][t] = tx[id][t]
    PROVE  Served(r, w2, fd, tx2, x)
<1> SUFFICES ASSUME NEW m \in DOMAIN r, NEW t \in Textures,
                    Reads(r[m], t), <<r[m].op, r[m].frame>> \notin x
             PROVE  /\ \A p \in DOMAIN w2 :
                         IsWrite(w2[p], t, r[m].of) => Apart(r, m, w2, p, fd)
                    /\ Fed(w2, t, r[m].of, r[m].frame, tx2)
  BY DEF Served
<1>1. /\ \A p \in DOMAIN w :
           IsWrite(w[p], t, r[m].of) => Apart(r, m, w, p, fc)
      /\ Fed(w, t, r[m].of, r[m].frame, tx)
  BY DEF Served
<1>2. /\ m \in Nat /\ r[m] \in Commands /\ r[m].frame \in Nat
      /\ r[m].of \in 1 .. MaxShared
  BY QueueLemma, WorkFacts
<1>3. w[1] \in Commands /\ 1 \in DOMAIN w
  BY QueueLemma DEF Shorter
<1>4. IsWrite(w[1], t, r[m].of) => w[1].frame <= r[m].frame
  <2>1. ASSUME IsWrite(w[1], t, r[m].of), w[1].frame > r[m].frame
        PROVE  FALSE
    <3>1. After(w, 1, r, m, fc)
      BY <1>1, <1>3, <2>1 DEF Apart
    <3> QED
      BY <3>1, AfterFirst
  <2> QED
    BY <1>2, <1>3, <2>1, WorkFacts
<1>5. Fed(w2, t, r[m].of, r[m].frame, tx2)
  BY <1>1, <1>2, <1>4, FedRuns
<1>6. ASSUME NEW p \in DOMAIN w2, IsWrite(w2[p], t, r[m].of)
      PROVE  Apart(r, m, w2, p, fd)
  <2>1. /\ p \in Nat /\ p + 1 \in DOMAIN w /\ w2[p] = w[p + 1]
        /\ p + 1 \in Nat /\ p + 1 >= 1 /\ (p + 1) - 1 = p
    BY DEF Shorter
  <2>2. Apart(r, m, w, p + 1, fc)
    BY <1>1, <1>6, <2>1
  <2>3. After(r, m, w, p + 1, fc) => After(r, m, w2, p, fd)
    BY <1>2, <2>1, AfterRunsOther
  <2>4. After(w, p + 1, r, m, fc) => After(w2, p, r, m, fd)
    BY <2>1, AfterRunsOwn
  <2> QED
    BY <2>1, <2>2, <2>3, <2>4 DEF Apart
<1> QED
  BY <1>5, <1>6

\* A reader whose turn has come finds its frame.
LEMMA ServedNow ==
    ASSUME NEW r \in Queues, NEW w \in Queues, NEW fc, NEW tx, NEW x,
           Served(r, w, fc, tx, x), r # <<>>, NEW t \in Textures,
           Reads(r[1], t), <<r[1].op, r[1].frame>> \notin x
    PROVE  tx[r[1].of][t] = r[1].frame
<1>1. 1 \in DOMAIN r
  BY TailLemma DEF Shorter
<1>2. /\ \A p \in DOMAIN w :
           IsWrite(w[p], t, r[1].of) => Apart(r, 1, w, p, fc)
      /\ Fed(w, t, r[1].of, r[1].frame, tx)
  BY <1>1 DEF Served
<1>3. ASSUME NEW p \in DOMAIN w, IsWrite(w[p], t, r[1].of),
             w[p].frame = r[1].frame
      PROVE  FALSE
  <2>1. r[1].frame \in Nat
    BY <1>1, QueueLemma, WorkFacts
  <2>2. After(r, 1, w, p, fc)
    BY <1>2, <1>3, <2>1 DEF Apart
  <2> QED
    BY <2>2, AfterFirst
<1> QED
  BY <1>2, <1>3 DEF Fed

LEMMA ServedPardons ==
    ASSUME NEW r, NEW w, NEW fc, NEW tx, NEW x, NEW y, x \subseteq y,
           Served(r, w, fc, tx, x)
    PROVE  Served(r, w, fc, tx, y)
BY DEF Served

-----------------------------------------------------------------------------
(***************************************************************************)
(* What one queue gets next, and everything the other still has to do.     *)
(***************************************************************************)
Gated(a, b, j, fc) == After(a, Len(a) + 1, b, j, fc)

\* Whatever a gets next is after the commands of b that are in s.
Gates(a, b, fc, s) == \A j \in DOMAIN b : b[j] \in s => Gated(a, b, j, fc)

LEMMA GatedGrows ==
    ASSUME NEW a \in Queues, NEW b \in Queues, NEW j \in DOMAIN b, NEW fc,
           Gated(a, b, j, fc), NEW c \in Commands
    PROVE  /\ Gated(Append(a, c), b, j, fc)
           /\ Gated(a, Append(b, c), j, fc)
           /\ After(Append(a, c), Len(a) + 1, b, j, fc)
<1>1. /\ j \in Nat /\ j < Len(b) + 1
      /\ Len(a) + 1 \in Nat /\ (Len(a) + 1) + 1 \in Nat
      /\ Len(a) + 1 <= (Len(a) + 1) + 1
  BY QueueLemma
<1>2. /\ Append(a, c) \in Queues /\ Len(Append(a, c)) = Len(a) + 1
      /\ Longer(a, Append(a, c), c, Len(a) + 1)
      /\ Longer(b, Append(b, c), c, Len(b) + 1)
  BY AppendLemma
<1>3. After(a, Len(a) + 1, b, j, fc)
  BY DEF Gated
<1>4. After(Append(a, c), Len(a) + 1, b, j, fc)
  BY <1>1, <1>2, <1>3, AfterGrows
<1>5. After(Append(a, c), (Len(a) + 1) + 1, b, j, fc)
  BY <1>1, <1>2, <1>4, AfterLater
<1>6. After(a, Len(a) + 1, Append(b, c), j, fc)
  BY <1>1, <1>2, <1>3, AfterGrows
<1> QED
  BY <1>2, <1>4, <1>5, <1>6 DEF Gated

LEMMA GatesGrow ==
    ASSUME NEW a \in Queues, NEW b \in Queues, NEW fc, NEW s,
           Gates(a, b, fc, s), NEW c \in Commands
    PROVE  /\ Gates(Append(a, c), b, fc, s)
           /\ c \notin s => Gates(a, Append(b, c), fc, s)
<1>1. Gates(Append(a, c), b, fc, s)
  BY GatedGrows DEF Gates
<1>2. ASSUME c \notin s, NEW j \in DOMAIN Append(b, c), Append(b, c)[j] \in s
      PROVE  Gated(a, Append(b, c), j, fc)
  <2>1. Longer(b, Append(b, c), c, Len(b) + 1)
    BY AppendLemma
  <2>2. j \in DOMAIN b /\ b[j] \in s
    BY <1>2, <2>1 DEF Longer
  <2> QED
    BY <2>2, GatedGrows DEF Gates
<1> QED
  BY <1>1, <1>2 DEF Gates

LEMMA GatesFewer ==
    ASSUME NEW a, NEW b, NEW fc, NEW s, NEW t, Gates(a, b, fc, s),
           \A j \in DOMAIN b : b[j] \in t => b[j] \in s
    PROVE  Gates(a, b, fc, t)
BY DEF Gates

LEMMA GatesRun ==
    ASSUME NEW a \in Queues, NEW b \in Queues, NEW fc, NEW fd, NEW s,
           Gates(a, b, fc, s)
    PROVE  /\ a # <<>> /\ Ran(a[1], fc, fd) => Gates(Tail(a), b, fd, s)
           /\ b # <<>> /\ Ran(b[1], fc, fd) => Gates(a, Tail(b), fd, s)
<1>1. ASSUME a # <<>>, Ran(a[1], fc, fd), NEW j \in DOMAIN b, b[j] \in s
      PROVE  Gated(Tail(a), b, j, fd)
  <2>1. /\ Shorter(a, Tail(a)) /\ Len(Tail(a)) + 1 = Len(a)
        /\ Len(a) + 1 \in Nat /\ (Len(a) + 1) - 1 = Len(a)
    BY <1>1, TailLemma, QueueLemma
  <2>2. After(a, Len(a) + 1, b, j, fc)
    BY <1>1 DEF Gates, Gated
  <2>3. After(Tail(a), (Len(a) + 1) - 1, b, j, fd)
    BY <1>1, <2>1, <2>2, AfterRunsOwn
  <2> QED
    BY <2>1, <2>3 DEF Gated
<1>2. ASSUME b # <<>>, Ran(b[1], fc, fd),
             NEW j \in DOMAIN Tail(b), Tail(b)[j] \in s
      PROVE  Gated(a, Tail(b), j, fd)
  <2>1. Shorter(b, Tail(b))
    BY <1>2, TailLemma
  <2>2. /\ j \in Nat /\ j + 1 \in DOMAIN b /\ b[j + 1] \in s
        /\ j + 1 \in Nat /\ j + 1 >= 1 /\ (j + 1) - 1 = j
    BY <1>2, <2>1 DEF Shorter
  <2>3. After(a, Len(a) + 1, b, j + 1, fc)
    BY <2>2 DEF Gates, Gated
  <2>4. After(a, Len(a) + 1, Tail(b), (j + 1) - 1, fd)
    BY <1>2, <2>1, <2>2, <2>3, AfterRunsOther
  <2> QED
    BY <2>2, <2>4 DEF Gated
<1> QED
  BY <1>1, <1>2 DEF Gates

\* All signals of f in the queue are under v.
Under(q, f, v) == \A n \in DOMAIN q : IsSignal(q[n], f) => q[n].value < v

LEMMA UnderGrows ==
    ASSUME NEW q \in Queues, NEW c \in Commands, NEW f, NEW v, Under(q, f, v),
           IsSignal(c, f) => c.value < v
    PROVE  Under(Append(q, c), f, v)
<1>1. Longer(q, Append(q, c), c, Len(q) + 1)
  BY AppendLemma
<1> QED
  BY <1>1 DEF Longer, Under

\* A wait for a value that nobody has signalled yet gates everything.
LEMMA GatesOpened ==
    ASSUME NEW a \in Queues, NEW b \in Queues, NEW f \in Fences, NEW v \in Nat,
           NEW fc, fc[f] < v, Under(a, f, v), Under(b, f, v), NEW s
    PROVE  Gates(Append(a, Wait(f, v)), b, fc, s)
<1>1. Wait(f, v) \in Commands
  BY DEF Wait, Commands, Marks
<1>2. /\ Len(Append(a, Wait(f, v))) = Len(a) + 1
      /\ Longer(a, Append(a, Wait(f, v)), Wait(f, v), Len(a) + 1)
  BY <1>1, AppendLemma
<1>3. Len(a) \in Nat /\ Len(a) + 1 <= Len(a) + 1 /\ Len(a) + 1 < (Len(a) + 1) + 1
  BY QueueLemma
<1>4. Below(a, Len(a), f, v)
  BY DEF Under, Below
<1>5. ASSUME NEW j \in DOMAIN b
      PROVE  Gated(Append(a, Wait(f, v)), b, j, fc)
  <2>1. Below(b, j, f, v)
    BY DEF Under, Below
  <2>2. After(Append(a, Wait(f, v)), (Len(a) + 1) + 1, b, j, fc)
    BY <1>2, <1>3, <1>4, <2>1, GateLemma
  <2> QED
    BY <1>2, <2>2 DEF Gated
<1> QED
  BY <1>5 DEF Gates

-----------------------------------------------------------------------------
(***************************************************************************)
(* Two queues whose readers, but those in x and y, are all served.         *)
(***************************************************************************)
Exchange(r, w, fc, tx, x, y) ==
    /\ r \in Queues /\ w \in Queues
    /\ Sorted(r) /\ Sorted(w)
    /\ Served(r, w, fc, tx, x)
    /\ Served(w, r, fc, tx, y)

\* r may be given c.
Fits(r, w, c, fc, tx, x, y) ==
    /\ IsWork(c) => \A n \in DOMAIN r : IsWork(r[n]) => r[n].frame <= c.frame
    /\ \A t \in Textures : Reads(c, t) /\ <<c.op, c.frame>> \notin x =>
        /\ \A p \in DOMAIN w : IsWrite(w[p], t, c.of) =>
              w[p].frame <= c.frame /\ Gated(r, w, p, fc)
        /\ Fed(w, t, c.of, c.frame, tx)
    /\ \A m \in DOMAIN w, t \in Textures :
        /\ Reads(w[m], t) /\ <<w[m].op, w[m].frame>> \notin y
        /\ IsWrite(c, t, w[m].of)
        => c.frame > w[m].frame /\ Gated(r, w, m, fc)

LEMMA ExchangeGrows ==
    ASSUME NEW r, NEW w, NEW fc, NEW tx, NEW x, NEW y,
           Exchange(r, w, fc, tx, x, y), NEW c \in Commands,
           Fits(r, w, c, fc, tx, x, y)
    PROVE  Exchange(Append(r, c), w, fc, tx, x, y)
<1> DEFINE r2 == Append(r, c)
           l == Len(r) + 1
<1>1. /\ r \in Queues /\ w \in Queues /\ Sorted(r) /\ Sorted(w)
      /\ Served(r, w, fc, tx, x) /\ Served(w, r, fc, tx, y)
  BY DEF Exchange
<1>2. r2 \in Queues /\ Longer(r, r2, c, l)
  BY <1>1, AppendLemma
<1>3. \A p \in DOMAIN w : Gated(r, w, p, fc) => After(r2, l, w, p, fc)
  BY <1>1, GatedGrows
<1>4. Sorted(r2)
  BY <1>1, <1>2, SortedGrows DEF Fits
<1>5. Served(r2, w, fc, tx, x)
  <2>1. \A t \in Textures : Reads(c, t) /\ <<c.op, c.frame>> \notin x =>
            /\ \A p \in DOMAIN w : IsWrite(w[p], t, c.of) =>
                  w[p].frame <= c.frame /\ After(r2, l, w, p, fc)
            /\ Fed(w, t, c.of, c.frame, tx)
    BY <1>3 DEF Fits
  <2> HIDE DEF r2, l
  <2> QED
    BY <1>1, <1>2, <2>1, ServedGrowsReaders
<1>6. Served(w, r2, fc, tx, y)
  <2>1. \A m \in DOMAIN w, t \in Textures :
            /\ Reads(w[m], t) /\ <<w[m].op, w[m].frame>> \notin y
            /\ IsWrite(c, t, w[m].of)
            => c.frame > w[m].frame /\ After(r2, l, w, m, fc)
    BY <1>3 DEF Fits
  <2> HIDE DEF r2, l
  <2> QED
    BY <1>1, <1>2, <2>1, ServedGrowsWriters
<1> QED
  BY <1>1, <1>2, <1>4, <1>5, <1>6 DEF Exchange

LEMMA MarksFit ==
    ASSUME NEW r, NEW w, NEW fc, NEW tx, NEW x, NEW y,
           Exchange(r, w, fc, tx, x, y), NEW c \in Marks
    PROVE  Exchange(Append(r, c), w, fc, tx, x, y)
<1>1. c \in Commands /\ IsMark(c)
  BY DEF Commands, Marks, IsMark
<1>2. /\ ~IsWork(c) /\ \A t : ~Reads(c, t)
      /\ \A t, id : ~IsWrite(c, t, id)
  BY <1>1, CommandKinds, WorkFacts
<1>3. Fits(r, w, c, fc, tx, x, y)
  BY <1>2 DEF Fits
<1> QED
  BY <1>1, <1>3, ExchangeGrows

LEMMA ExchangeTurned ==
    ASSUME NEW r, NEW w, NEW fc, NEW tx, NEW x, NEW y,
           Exchange(r, w, fc, tx, x, y)
    PROVE  Exchange(w, r, fc, tx, y, x)
BY DEF Exchange

LEMMA ExchangePardons ==
    ASSUME NEW r, NEW w, NEW fc, NEW tx, NEW x, NEW y,
           Exchange(r, w, fc, tx, x, y), NEW z, x \subseteq z
    PROVE  Exchange(r, w, fc, tx, z, y)
BY ServedPardons DEF Exchange

LEMMA ExchangeRuns ==
    ASSUME NEW r, NEW w, NEW fc, NEW tx, NEW x, NEW y,
           Exchange(r, w, fc, tx, x, y), r # <<>>,
           NEW fd, Ran(r[1], fc, fd), NEW tx2,
           \A t \in Textures, id \in 1 .. MaxShared :
               /\ IsWrite(r[1], t, id) => tx2[id][t] = r[1].frame
               /\ ~IsWrite(r[1], t, id) => tx2[id][t] = tx[id][t],
           \A m \in DOMAIN r, t \in Textures :
               Reads(r[m], t) => ~IsWrite(r[1], t, r[m].of)
    PROVE  Exchange(Tail(r), w, fd, tx2, x, y)
<1>1. /\ r \in Queues /\ w \in Queues /\ Sorted(r) /\ Sorted(w)
      /\ Served(r, w, fc, tx, x) /\ Served(w, r, fc, tx, y)
  BY DEF Exchange
<1>2. Tail(r) \in Queues /\ Shorter(r, Tail(r))
  BY <1>1, TailLemma
<1>3. \A m \in DOMAIN r, t \in Textures :
         Reads(r[m], t) => tx2[r[m].of][t] = tx[r[m].of][t]
  BY <1>1, QueueLemma, WorkFacts
<1>4. Served(Tail(r), w, fd, tx2, x)
  BY <1>1, <1>2, <1>3, ServedRunsReaders
<1>5. Served(w, Tail(r), fd, tx2, y)
  BY <1>1, <1>2, ServedRunsWriters
<1>6. Sorted(Tail(r))
  BY <1>1, <1>2, SortedRuns
<1> QED
  BY <1>1, <1>2, <1>4, <1>5, <1>6 DEF Exchange

-----------------------------------------------------------------------------
(***************************************************************************)
(* The invariant.                                                          *)
(***************************************************************************)
Only(q, s) == q \in Queues /\ \A n \in DOMAIN q : q[n] \in s

Contexts == [id : Nat, value : [Indices -> Nat], next_slot : Nat, next_value : Nat]

Phases == {"game", "begun", "prepared", "configured", "unpaired", "resolved",
           "copied", "shown"}

\* From begin_frame to the evaluation.
Scene == {"begun", "prepared", "configured"}

Lifecycle ==
    /\ made \in 0 .. MaxShared /\ shared \in {0, made} /\ ready_value \in Nat
    /\ released \in [1 .. MaxShared -> {"no", "mismatch", "resize", "reset"}]
    /\ \A id \in 1 .. MaxShared : id > made => released[id] = "no"
    /\ shared # 0 => released[shared] = "no"
    /\ prepared \in BOOLEAN /\ synchronized \in BOOLEAN
    /\ phase \in Phases /\ frame \in Nat
    /\ phase # "game" => frame >= 1
    /\ phase \in {"prepared", "configured", "resolved", "copied"} => shared # 0
    /\ phase \in {"prepared", "configured"} => synchronized
    /\ prepared => shared # 0
    /\ synchronized => prepared

Upscaler ==
    /\ state \in Contexts /\ created \in 0 .. MaxContexts
    /\ state.id \in 0 .. created /\ state.next_value >= 1
    /\ \A i \in Indices : state.value[i] < state.next_value
    /\ freed \subseteq 1 .. created /\ state.id \notin freed
    /\ phase = "configured" => state.id # 0

Top == IF phase = "game" THEN 2 * frame ELSE 2 * frame - 2

\* The value v of the fence f was handed out: the next one is above it.
Fine(f, v) ==
    /\ f = Bridge => v <= Top
    /\ shared # 0 /\ f = Ready(shared) => v <= ready_value
    /\ \A id \in 1 .. MaxShared : id > made /\ f = Ready(id) => v = 0
    /\ state.id # 0 /\ f = OfContext(state.id) => v < state.next_value
    /\ \A id \in 1 .. MaxContexts : id > created /\ f = OfContext(id) => v = 0

\* What D3D11 may have been given.
Drawing ==
    {c \in Marks \cup Writes \cup Takes :
        /\ IsWork(c) => c.frame \in 1 .. frame /\ c.of \in 1 .. made
        /\ phase \in Scene /\ c.op = "take" => c.frame < frame
        /\ c.op = "signal" => /\ Fine(c.fence, c.value)
                              /\ \A id \in 1 .. MaxContexts : c.fence # OfContext(id)}

\* What D3D12 may have been given.
Computing ==
    {c \in Marks \cup Dispatched \cup Generations :
        /\ IsWork(c) => /\ c.frame \in 1 .. frame /\ c.of \in 1 .. made
                        /\ released[c.of] # "resize"
        /\ phase # "game" /\ c.op = "generate" => c.frame < frame
        /\ c.op = "dispatch" =>
            /\ c.frame = frame /\ c.of = shared => prepared
            /\ c.slot[1] \in 1 .. created /\ c.slot[1] \notin freed
            /\ released[c.of] = "reset" => c.slot[1] # state.id
        /\ c.op = "signal" => Fine(c.fence, c.value)}

\* Neither half of the exchange of the frame f was completed.
Half(f) == {<<f, "signal12">>, <<f, "wait11">>} \cap refused # {}

\* The work that nobody waits for,
Excused ==
    {<<"dispatch", f>> : f \in {g \in Unawaited : Half(g)}}
    \cup {<<"generate", f>> : f \in Unawaited}

\* and that of this frame which the bridge will have to wait for.
Loose ==
    Excused
    \cup (IF phase # "game" /\ Half(frame) THEN {<<"dispatch", frame>>} ELSE {})

Guarded ==
    {c \in Commands : /\ c.op \in {"dispatch", "generate"}
                      /\ <<c.op, c.frame>> \notin Loose}

\* What a dispatch would have to be after.
Touching ==
    {c \in Commands : \/ IsWrite(c, "inputs", shared)
                      \/ c.op = "take" /\ c.of = shared}

\* The slots of the queued dispatches are not free, and of one dispatch each.
Slotted(q, fc, st) ==
    \A m \in DOMAIN q : q[m].op = "dispatch" =>
        /\ q[m].slot[1] = st.id =>
            /\ fc[OfContext(st.id)] < st.value[q[m].slot[2]]
            /\ Below(q, m, OfContext(st.id), st.value[q[m].slot[2]])
        /\ \A n \in DOMAIN q :
            q[n].op = "dispatch" /\ q[n].slot = q[m].slot => n = m

\* Everything that D3D11 does is waited for.
NoWork == {}

Inputs ==
    /\ prepared => Fed(q11, "inputs", shared, frame, textures)
    /\ phase = "copied" => Fed(q11, "generator", shared, frame, textures)

WorkInv ==
    /\ Lifecycle
    /\ Upscaler
    /\ fence \in Counters /\ textures \in Held
    /\ \A f \in Fences : Fine(f, fence[f])
    /\ Only(q11, Drawing)
    /\ Only(q12, Computing)
    /\ Slotted(q12, fence, state)
    /\ Gates(q11, q12, fence, Guarded)
    /\ synchronized /\ phase \in Scene => Gates(q12, q11, fence, Touching)
    /\ Inputs
    /\ Exchange(q12, q11, fence, textures, Excused, NoWork)

LEMMA OnlyGrows ==
    ASSUME NEW q, NEW s, Only(q, s), NEW c \in Commands, c \in s
    PROVE  Only(Append(q, c), s)
<1>1. Append(q, c) \in Queues /\ Longer(q, Append(q, c), c, Len(q) + 1)
  BY AppendLemma DEF Only
<1> QED
  BY <1>1 DEF Longer, Only

LEMMA OnlyRuns ==
    ASSUME NEW q, NEW s, Only(q, s), q # <<>>
    PROVE  Only(Tail(q), s) /\ Head(q) = q[1] /\ q[1] \in Commands /\ q[1] \in s
<1>1. Tail(q) \in Queues /\ Shorter(q, Tail(q)) /\ Head(q) = q[1] /\ q[1] \in Commands
  BY TailLemma DEF Only
<1> QED
  BY <1>1 DEF Shorter, Only

LEMMA SlotsRange == Indices \subseteq Nat /\ \A n \in Nat : n % Slots \in Indices
BY SlotsAssumption DEF Indices

LEMMA MadeOf == \A id \in 1 .. MaxShared : id \in Nat /\ id # 0
BY BoundsAssumption

LEMMA NewContextFacts ==
    ASSUME NEW id \in Nat
    PROVE  /\ NewContext(id) \in Contexts
           /\ NewContext(id).id = id /\ NewContext(id).next_value = 1
           /\ \A i \in Indices : NewContext(id).value[i] = 0
BY DEF NewContext, Contexts

LEMMA InitHolds == Init => WorkInv
<1> SUFFICES ASSUME Init PROVE WorkInv
  OBVIOUS
<1>1. q11 = <<>> /\ q12 = <<>>
  BY DEF Init
<1>2. <<>> \in Queues /\ DOMAIN <<>> = {}
  BY DEF Queues
<1>3. Lifecycle
  <2>1. MaxShared \in Nat /\ 0 \in 0 .. MaxShared
    BY BoundsAssumption
  <2>2. released \in [1 .. MaxShared -> {"no", "mismatch", "resize", "reset"}]
    BY DEF Init
  <2>3. \A id \in 1 .. MaxShared : released[id] = "no"
    BY DEF Init
  <2> QED
    BY <2>1, <2>2, <2>3 DEF Init, Lifecycle, Phases
<1>4. Upscaler
  BY NewContextFacts, BoundsAssumption DEF Init, Upscaler, NoContext
<1>5. fence \in Counters /\ \A f \in Fences : fence[f] = 0
  BY DEF Init, Counters
<1>6. textures \in Held
  BY DEF Init, Held, Unwritten
<1>7. \A f \in Fences : Fine(f, fence[f])
  BY <1>4, <1>5 DEF Init, Fine, Top, Upscaler, Contexts
<1>8. Only(q11, Drawing) /\ Only(q12, Computing)
  BY <1>1, <1>2 DEF Only
<1>9. Slotted(q12, fence, state) /\ Gates(q11, q12, fence, Guarded)
  BY <1>1, <1>2 DEF Slotted, Gates
<1>10. ~synchronized /\ Inputs
  BY DEF Init, Inputs
<1>11. Exchange(q12, q11, fence, textures, Excused, NoWork)
  BY <1>1, <1>2 DEF Exchange, Sorted, Served
<1> QED
  BY <1>3, <1>4, <1>5, <1>6, <1>7, <1>8, <1>9, <1>10, <1>11 DEF WorkInv

-----------------------------------------------------------------------------
(***************************************************************************)
(* What it is for.                                                         *)
(***************************************************************************)
LEMMA KeptLemma == WorkInv => InFlightKept
<1> SUFFICES ASSUME WorkInv PROVE InFlightKept
  OBVIOUS
<1>1. /\ \A n \in DOMAIN q12 : q12[n] \in Computing
      /\ Slotted(q12, fence, state)
  BY DEF WorkInv, Only
<1>2. ASSUME NEW m \in Dispatches
      PROVE  /\ q12[m].slot[1] \notin freed
             /\ \A n \in Dispatches : q12[m].slot = q12[n].slot => m = n
             /\ released[q12[m].of] = "reset" => q12[m].slot[1] # state.id
  <2>1. m \in DOMAIN q12 /\ q12[m].op = "dispatch" /\ q12[m] \in Computing
    BY <1>1, <1>2 DEF Dispatches
  <2>2. /\ q12[m].slot[1] \notin freed
        /\ released[q12[m].of] = "reset" => q12[m].slot[1] # state.id
    BY <2>1 DEF Computing
  <2>3. \A n \in Dispatches : q12[m].slot = q12[n].slot => m = n
    BY <1>1, <2>1 DEF Slotted, Dispatches
  <2> QED
    BY <2>2, <2>3
<1>3. ASSUME NEW c \in Queued, c.op \in {"dispatch", "generate"}
      PROVE  released[c.of] # "resize"
  <2>1. c \in Computing
    BY <1>1, <1>3 DEF Queued
  <2> QED
    BY <1>3, <2>1 DEF Computing, IsWork
<1> QED
  BY <1>2, <1>3 DEF InFlightKept

LEMMA InputsLemma == WorkInv => InputsNotTorn
<1> SUFFICES ASSUME WorkInv, q12 # <<>> PROVE InputsNotTorn
  BY DEF InputsNotTorn
<1> DEFINE c == Head(q12)
<1>1. Exchange(q12, q11, fence, textures, Excused, NoWork) /\ Only(q12, Computing)
  BY DEF WorkInv
<1>2. c = q12[1] /\ c \in Commands /\ c \in Computing
  BY <1>1, OnlyRuns
<1>3. \A t \in Textures : Reads(c, t) /\ <<c.op, c.frame>> \notin Excused =>
          textures[c.of][t] = c.frame
  BY <1>1, <1>2, ServedNow DEF Exchange
<1>4. textures \in Held
  BY DEF WorkInv
<1>5. IsWork(c) => /\ textures[c.of]["inputs"] = textures[c.of].inputs
                   /\ textures[c.of]["generator"] = textures[c.of].generator
  BY <1>2, <1>4, WorkFacts DEF Held
<1>6. ASSUME c.op = "dispatch"
      PROVE  \/ textures[c.of].inputs = c.frame
             \/ c.frame \in Unawaited /\ Half(c.frame)
  <2>1. Reads(c, "inputs") /\ IsWork(c) /\ "inputs" \in Textures
    BY <1>6 DEF Reads, IsWork, Textures
  <2>2. <<c.op, c.frame>> \in Excused => c.frame \in Unawaited /\ Half(c.frame)
    BY <1>6 DEF Excused
  <2> QED
    BY <1>3, <1>5, <2>1, <2>2
<1>7. ASSUME c.op = "generate", c.frame \notin Unawaited
      PROVE  /\ textures[c.of].generator = c.frame
             /\ c.prepared => textures[c.of].inputs = c.frame
  <2>1. /\ Reads(c, "generator") /\ c.prepared => Reads(c, "inputs")
        /\ IsWork(c) /\ "inputs" \in Textures /\ "generator" \in Textures
    BY <1>7 DEF Reads, IsWork, Textures
  <2>2. <<c.op, c.frame>> \notin Excused
    BY <1>7 DEF Excused
  <2>3. Reads(c, "generator")
    BY <1>7 DEF Reads
  <2>4. c.prepared => Reads(c, "inputs")
    BY <1>7 DEF Reads
  <2> QED
    BY <1>3, <1>5, <2>1, <2>2, <2>3, <2>4
<1> QED
  BY <1>6, <1>7 DEF InputsNotTorn, Half

LEMMA OutputLemma == WorkInv => OutputIsFrame
<1> SUFFICES ASSUME WorkInv, q11 # <<>>, Head(q11).op = "take"
             PROVE  textures[Head(q11).of].output = Head(q11).frame
  BY DEF OutputIsFrame
<1> DEFINE c == Head(q11)
<1>1. Exchange(q11, q12, fence, textures, NoWork, Excused) /\ Only(q11, Drawing)
  BY ExchangeTurned DEF WorkInv
<1>2. c = q11[1] /\ c \in Commands
  BY <1>1, OnlyRuns
<1>3. "output" \in Textures /\ Reads(c, "output") /\ IsWork(c)
  BY DEF Textures, Reads, IsWork
<1>4. textures[c.of]["output"] = c.frame
  <2>1. q11 \in Queues /\ q12 \in Queues /\ Served(q11, q12, fence, textures, NoWork)
    BY <1>1 DEF Exchange
  <2>2. \A t \in Textures : Reads(q11[1], t) /\ <<q11[1].op, q11[1].frame>> \notin NoWork =>
            textures[q11[1].of][t] = q11[1].frame
    BY <2>1, ServedNow
  <2>3. textures[q11[1].of]["output"] = q11[1].frame
    BY <1>2, <1>3, <2>2 DEF NoWork
  <2> QED
    BY <1>2, <2>3
<1>5. textures \in Held /\ c.of \in 1 .. MaxShared
  BY <1>2, <1>3, WorkFacts DEF WorkInv
<1> QED
  BY <1>4, <1>5 DEF Held

-----------------------------------------------------------------------------
(***************************************************************************)
(* The steps that give nobody any work.                                    *)
(***************************************************************************)
\* The render thread moves on within the frame, or from one to the next.
Onward ==
    /\ frame' \in Nat /\ frame <= frame' /\ made' \in Nat /\ made <= made'
    /\ \A f \in Fences, v \in Nat : Fine(f, v) => Fine(f, v)'
    /\ phase' \in Scene => phase \in Scene \/ frame < frame'
    /\ phase' # "game" => phase # "game" \/ frame < frame'
    /\ refused \subseteq refused'

LEMMA MarkFields ==
    /\ \A c \in Marks : /\ c.fence \in Fences /\ c.value \in Nat
                        /\ c.op \in {"signal", "wait"}
    /\ Marks \cup Writes \cup Takes \subseteq Commands
    /\ Marks \cup Dispatched \cup Generations \subseteq Commands
    /\ \A c \in Writes \cup Takes \cup Dispatched \cup Generations :
          c.op \in {"write", "take", "dispatch", "generate"}
BY DEF Marks, Writes, Takes, Dispatched, Generations, Commands

LEMMA DrawingStays ==
    ASSUME Lifecycle, Onward
    PROVE  Drawing \subseteq Drawing'
<1> SUFFICES ASSUME NEW c \in Drawing
             PROVE  c \in Drawing'
  OBVIOUS
<1>1. /\ c \in Marks \cup Writes \cup Takes
      /\ IsWork(c) => c.frame \in 1 .. frame /\ c.of \in 1 .. made
      /\ phase \in Scene /\ c.op = "take" => c.frame < frame
      /\ c.op = "signal" => /\ Fine(c.fence, c.value)
                            /\ \A id \in 1 .. MaxContexts : c.fence # OfContext(id)
  BY DEF Drawing
<1>2. /\ frame \in Nat /\ made \in Nat /\ frame' \in Nat /\ frame <= frame'
      /\ made' \in Nat /\ made <= made'
      /\ phase' \in Scene => phase \in Scene \/ frame < frame'
      /\ \A f \in Fences, v \in Nat : Fine(f, v) => Fine(f, v)'
  BY BoundsAssumption DEF Lifecycle, Onward
<1>3. IsWork(c) => c.frame \in 1 .. frame' /\ c.of \in 1 .. made'
  BY <1>1, <1>2
<1>4. phase' \in Scene /\ c.op = "take" => c.frame < frame'
  BY <1>1, <1>2 DEF IsWork
<1>5. c.op = "signal" => Fine(c.fence, c.value)'
  BY <1>1, <1>2, MarkFields
<1> QED
  BY <1>1, <1>3, <1>4, <1>5 DEF Drawing

\* What D3D12 was given has to stay what it is.
LEMMA ComputingStays ==
    ASSUME Lifecycle, Onward, Only(q12, Computing),
           \A n \in DOMAIN q12 : IsWork(q12[n]) =>
               /\ released'[q12[n].of] # "resize"
               /\ q12[n].op = "dispatch" =>
                    /\ q12[n].frame = frame' /\ q12[n].of = shared' => prepared'
                    /\ q12[n].slot[1] \in 1 .. created' /\ q12[n].slot[1] \notin freed'
                    /\ released'[q12[n].of] = "reset" => q12[n].slot[1] # state'.id
    PROVE  Only(q12, Computing')
<1> SUFFICES ASSUME NEW n \in DOMAIN q12
             PROVE  q12[n] \in Computing'
  BY DEF Only
<1>1. PICK c \in Computing : c = q12[n]
  BY DEF Only
<1>2. /\ c \in Marks \cup Dispatched \cup Generations
      /\ IsWork(c) => c.frame \in 1 .. frame /\ c.of \in 1 .. made
      /\ phase # "game" /\ c.op = "generate" => c.frame < frame
      /\ c.op = "signal" => Fine(c.fence, c.value)
  BY DEF Computing
<1>3. /\ frame \in Nat /\ made \in Nat /\ frame' \in Nat /\ frame <= frame'
      /\ made' \in Nat /\ made <= made'
      /\ phase' # "game" => phase # "game" \/ frame < frame'
      /\ \A f \in Fences, v \in Nat : Fine(f, v) => Fine(f, v)'
  BY BoundsAssumption DEF Lifecycle, Onward
<1>4. IsWork(c) => c.frame \in 1 .. frame' /\ c.of \in 1 .. made'
  BY <1>2, <1>3
<1>5. phase' # "game" /\ c.op = "generate" => c.frame < frame'
  BY <1>2, <1>3 DEF IsWork
<1>6. c.op = "signal" => Fine(c.fence, c.value)'
  BY <1>2, <1>3, MarkFields
<1>7. IsWork(c) => released'[c.of] # "resize"
  BY <1>1
<1>8. c.op = "dispatch" =>
          /\ c.frame = frame' /\ c.of = shared' => prepared'
          /\ c.slot[1] \in 1 .. created' /\ c.slot[1] \notin freed'
          /\ released'[c.of] = "reset" => c.slot[1] # state'.id
  BY <1>1 DEF IsWork
<1>9. c \in Computing'
  BY <1>2, <1>4, <1>5, <1>6, <1>7, <1>8 DEF Computing
<1> QED
  BY <1>1, <1>9

LEMMA OnlyMore ==
    ASSUME NEW q, NEW s, NEW t, Only(q, s), s \subseteq t
    PROVE  Only(q, t)
BY DEF Only

LEMMA ExcusedStays ==
    ASSUME Lifecycle, Onward
    PROVE  /\ Excused \subseteq Excused'
           /\ \A f : Half(f) => Half(f)'
<1>1. Unawaited \subseteq Unawaited'
  BY DEF Unawaited, Onward, Lifecycle
<1>2. \A f : Half(f) => Half(f)'
  BY DEF Half, Onward
<1>3. ASSUME NEW e \in Excused
      PROVE  e \in Excused'
  <2>1. CASE \E f \in Unawaited : Half(f) /\ e = <<"dispatch", f>>
    <3>1. PICK f \in Unawaited : Half(f) /\ e = <<"dispatch", f>>
      BY <2>1
    <3>2. f \in Unawaited' /\ Half(f)'
      BY <1>1, <1>2, <3>1
    <3> QED
      BY <3>1, <3>2 DEF Excused
  <2>2. CASE \E f \in Unawaited : e = <<"generate", f>>
    BY <1>1, <2>2 DEF Excused
  <2> QED
    BY <1>3, <2>1, <2>2 DEF Excused
<1> QED
  BY <1>2, <1>3

LEMMA QuietStep ==
    ASSUME WorkInv, UNCHANGED <<gpu, queues>>, Onward,
           phase # "game" => phase' # "game" /\ frame' = frame,
           Only(q12, Computing'), Lifecycle', Upscaler',
           Slotted(q12, fence, state'),
           synchronized' /\ phase' \in Scene =>
               synchronized /\ phase \in Scene /\ shared' = shared,
           prepared' => prepared /\ shared' = shared /\ frame' = frame,
           phase' = "copied" => phase = "copied" /\ shared' = shared /\ frame' = frame
    PROVE  WorkInv'
<1>1. /\ q11' = q11 /\ q12' = q12 /\ fence' = fence /\ textures' = textures
  BY DEF gpu, queues
<1>2. /\ Lifecycle /\ fence \in Counters /\ textures \in Held
      /\ \A f \in Fences : Fine(f, fence[f])
      /\ Only(q11, Drawing) /\ Only(q12, Computing)
      /\ Gates(q11, q12, fence, Guarded)
      /\ synchronized /\ phase \in Scene => Gates(q12, q11, fence, Touching)
      /\ Inputs /\ Exchange(q12, q11, fence, textures, Excused, NoWork)
  BY DEF WorkInv
<1>3. fence' \in Counters /\ textures' \in Held
  BY <1>1, <1>2
<1>4. \A f \in Fences : Fine(f, fence[f])'
  <2>1. \A f \in Fences : fence[f] \in Nat
    BY <1>2 DEF Counters
  <2>2. \A f \in Fences, v \in Nat : Fine(f, v) => Fine(f, v)'
    BY DEF Onward
  <2>3. ASSUME NEW f \in Fences
        PROVE  Fine(f, fence[f])'
    <3>1. PICK v \in Nat : v = fence[f]
      BY <2>1
    <3>2. Fine(f, v) /\ fence'[f] = v
      BY <1>1, <1>2, <3>1
    <3>3. Fine(f, v)'
      BY <2>2, <3>2
    <3> QED
      BY <3>2, <3>3 DEF Fine
  <2> QED
    BY <2>3
<1>5. Only(q11, Drawing)' /\ Only(q12, Computing)'
  <2>1. Only(q11, Drawing') /\ Only(q12, Computing')
    BY <1>2, OnlyMore, DrawingStays
  <2> QED
    BY <1>1, <2>1
<1>6. Slotted(q12, fence, state)'
  BY <1>1
<1>7. Excused \subseteq Excused' /\ \A f : Half(f) => Half(f)'
  BY <1>2, ExcusedStays
<1>8. Gates(q11, q12, fence, Guarded)'
  <2>1. Loose \subseteq Loose'
    BY <1>7 DEF Loose
  <2>2. Guarded' \subseteq Guarded
    BY <2>1 DEF Guarded
  <2>3. Gates(q11, q12, fence, Guarded')
    BY <1>2, <2>2, GatesFewer
  <2> QED
    BY <1>1, <2>3
<1>9. (synchronized /\ phase \in Scene => Gates(q12, q11, fence, Touching))'
  <2> SUFFICES ASSUME synchronized', (phase \in Scene)'
               PROVE  Gates(q12, q11, fence, Touching)'
    OBVIOUS
  <2>1. Gates(q12, q11, fence, Touching) /\ shared' = shared
    BY <1>2
  <2>2. Touching' = Touching
    BY <2>1 DEF Touching
  <2> QED
    BY <1>1, <2>1, <2>2
<1>10. Inputs'
  BY <1>1, <1>2 DEF Inputs
<1>11. Exchange(q12, q11, fence, textures, Excused, NoWork)'
  <2>1. Exchange(q12, q11, fence, textures, Excused', NoWork)
    BY <1>2, <1>7, ExchangePardons
  <2>2. NoWork' = NoWork
    BY DEF NoWork
  <2> QED
    BY <1>1, <2>1, <2>2
<1> QED
  BY <1>3, <1>4, <1>5, <1>6, <1>8, <1>9, <1>10, <1>11 DEF WorkInv

LEMMA DoubleLemma ==
    ASSUME NEW a \in Nat, NEW b \in Nat, a <= b
    PROVE  /\ 2 * a \in Int /\ 2 * b \in Int /\ 2 * a <= 2 * b
           /\ a < b => 2 * a <= 2 * b - 2
           /\ 2 * a - 2 <= 2 * b - 2 /\ 2 * a - 2 \in Int /\ 2 * b - 2 \in Int
           /\ 2 * a - 2 <= 2 * b
OBVIOUS

LEMMA TopGrows ==
    ASSUME Lifecycle, frame' \in Nat, frame <= frame',
           phase = "game" /\ phase' # "game" => frame < frame'
    PROVE  Top <= Top' /\ Top \in Int /\ Top' \in Int
<1>1. frame \in Nat
  BY DEF Lifecycle
<1>2. /\ 2 * frame \in Int /\ 2 * frame' \in Int /\ 2 * frame <= 2 * frame'
      /\ frame < frame' => 2 * frame <= 2 * frame' - 2
      /\ 2 * frame - 2 <= 2 * frame' - 2
      /\ 2 * frame - 2 \in Int /\ 2 * frame' - 2 \in Int
      /\ 2 * frame - 2 <= 2 * frame'
  BY <1>1, DoubleLemma
<1>3. CASE phase = "game"
  <2>1. Top = 2 * frame
    BY <1>3 DEF Top
  <2>2. Top' = 2 * frame' \/ (Top' = 2 * frame' - 2 /\ frame < frame')
    BY <1>3 DEF Top
  <2> QED
    BY <1>2, <2>1, <2>2
<1>4. CASE phase # "game"
  <2>1. Top = 2 * frame - 2
    BY <1>4 DEF Top
  <2>2. Top' = 2 * frame' \/ Top' = 2 * frame' - 2
    BY DEF Top
  <2> QED
    BY <1>2, <2>1, <2>2
<1> QED
  BY <1>3, <1>4

\* The counters go on, and what is new starts from zero.
LEMMA FineStays ==
    ASSUME Lifecycle, Top \in Int, Top' \in Int, Top <= Top',
           made' \in Nat, made <= made',
           created \in Nat, created' \in Nat, created <= created',
           ready_value' \in Nat,
           \/ shared' = shared /\ ready_value <= ready_value'
           \/ shared' = 0
           \/ shared' \in 1 .. MaxShared /\ shared' > made,
           \/ /\ state'.id = state.id /\ state.next_value \in Nat
              /\ state'.next_value \in Nat /\ state.next_value <= state'.next_value
           \/ state'.id = 0
           \/ /\ state'.id \in 1 .. MaxContexts /\ state'.id > created
              /\ state'.next_value \in Nat /\ state'.next_value >= 1
    PROVE  \A f \in Fences, v \in Nat : Fine(f, v) => Fine(f, v)'
<1> SUFFICES ASSUME NEW f \in Fences, NEW v \in Nat, Fine(f, v)
             PROVE  Fine(f, v)'
  OBVIOUS
<1>1. /\ f = Bridge => v <= Top
      /\ shared # 0 /\ f = Ready(shared) => v <= ready_value
      /\ \A id \in 1 .. MaxShared : id > made /\ f = Ready(id) => v = 0
      /\ state.id # 0 /\ f = OfContext(state.id) => v < state.next_value
      /\ \A id \in 1 .. MaxContexts : id > created /\ f = OfContext(id) => v = 0
  BY DEF Fine
<1>2. made \in Nat /\ ready_value \in Nat
  BY BoundsAssumption DEF Lifecycle
<1>3. f = Bridge => v <= Top'
  BY <1>1
<1>4. shared' # 0 /\ f = Ready(shared') => v <= ready_value'
  <2>1. CASE shared' = shared /\ ready_value <= ready_value'
    BY <1>1, <1>2, <2>1
  <2>2. CASE shared' \in 1 .. MaxShared /\ shared' > made
    <3>1. f = Ready(shared') => v = 0
      BY <1>1, <2>2
    <3> QED
      BY <3>1
  <2> QED
    BY <2>1, <2>2
<1>5. \A id \in 1 .. MaxShared : id > made' /\ f = Ready(id) => v = 0
  BY <1>1, <1>2, BoundsAssumption
<1>6. state'.id # 0 /\ f = OfContext(state'.id) => v < state'.next_value
  <2>1. CASE /\ state'.id = state.id /\ state.next_value \in Nat
             /\ state'.next_value \in Nat /\ state.next_value <= state'.next_value
    BY <1>1, <2>1
  <2>2. CASE /\ state'.id \in 1 .. MaxContexts /\ state'.id > created
             /\ state'.next_value \in Nat /\ state'.next_value >= 1
    <3>1. f = OfContext(state'.id) => v = 0
      BY <1>1, <2>2
    <3> QED
      BY <2>2, <3>1
  <2> QED
    BY <2>1, <2>2
<1>7. \A id \in 1 .. MaxContexts : id > created' /\ f = OfContext(id) => v = 0
  BY <1>1, BoundsAssumption
<1> QED
  BY <1>3, <1>4, <1>5, <1>6, <1>7 DEF Fine, Ready, OfContext

\* A context goes on from slot to slot.
LEMMA SlottedStays ==
    ASSUME NEW q, NEW fc, NEW st, NEW su, Slotted(q, fc, st),
           su.id = st.id /\ su.value = st.value
    PROVE  Slotted(q, fc, su)
BY DEF Slotted

LEMMA WalkStep ==
    ASSUME WorkInv,
           UNCHANGED <<gpu, queues, shared, made, released, ready_value, created,
                       freed, flags, frame>>,
           state' \in Contexts, state'.id = state.id, state'.value = state.value,
           state'.next_value = state.next_value,
           phase # "game",
           phase' \in {"begun", "prepared", "configured", "unpaired", "shown"},
           phase' \in Scene => phase \in Scene,
           phase' = "configured" => state.id # 0,
           phase' \in {"prepared", "configured"} => synchronized /\ shared # 0,
           refused \subseteq refused'
    PROVE  WorkInv'
<1>1. /\ Lifecycle /\ Upscaler /\ Slotted(q12, fence, state)
      /\ Only(q12, Computing)
  BY DEF WorkInv
<1>2. frame \in Nat /\ made \in Nat /\ created \in Nat /\ ready_value \in Nat
      /\ state.next_value \in Nat
  BY <1>1, BoundsAssumption DEF Lifecycle, Upscaler, Contexts
<1>3. phase' # "game" /\ prepared' = prepared /\ synchronized' = synchronized
  BY DEF flags
<1>4. Top' = Top /\ Top \in Int
  BY <1>2, <1>3 DEF Top
<1>5. \A f \in Fences, v \in Nat : Fine(f, v) => Fine(f, v)'
  BY <1>1, <1>2, <1>4, FineStays
<1>6. Onward
  BY <1>2, <1>3, <1>5 DEF Onward
<1>7. Only(q12, Computing')
  <2>1. ASSUME NEW n \in DOMAIN q12, IsWork(q12[n])
        PROVE  /\ released'[q12[n].of] # "resize"
               /\ q12[n].op = "dispatch" =>
                    /\ q12[n].frame = frame' /\ q12[n].of = shared' => prepared'
                    /\ q12[n].slot[1] \in 1 .. created' /\ q12[n].slot[1] \notin freed'
                    /\ released'[q12[n].of] = "reset" => q12[n].slot[1] # state'.id
    BY <1>1, <1>3, <2>1 DEF Computing, Only
  <2> QED
    BY <1>1, <1>6, <2>1, ComputingStays
<1>8. Lifecycle'
  BY <1>1, <1>3 DEF Lifecycle, Phases, Scene
<1>9. Upscaler'
  BY <1>1 DEF Upscaler
<1>10. Slotted(q12, fence, state')
  BY <1>1, SlottedStays
<1> QED
  BY <1>3, <1>6, <1>7, <1>8, <1>9, <1>10, QuietStep

LEMMA ContextTyped == WorkInv => state \in Contexts
BY DEF WorkInv, Upscaler

LEMMA WalksHold ==
    ASSUME WorkInv,
           \/ FailInitialize \/ FailPrepare \/ RefuseCamera \/ KeepContext
           \/ FailCreate \/ RejectDispatch
    PROVE  WorkInv'
<1>1. /\ UNCHANGED <<gpu, queues, shared, made, released, ready_value, created,
                     freed, flags, frame>>
      /\ state' = state /\ refused' = refused
  BY DEF FailInitialize, FailPrepare, RefuseCamera, KeepContext, FailCreate,
         RejectDispatch, resources, lifecycle, contexts
<1>2. /\ phase # "game"
      /\ phase' \in {"begun", "prepared", "configured", "unpaired", "shown"}
      /\ phase' \in Scene => phase \in Scene
      /\ phase' = "configured" => state.id # 0
      /\ phase' \in {"prepared", "configured"} => synchronized /\ shared # 0
  BY DEF FailInitialize, FailPrepare, RefuseCamera, KeepContext, FailCreate,
         RejectDispatch, Scene, WorkInv, Lifecycle
<1> QED
  BY <1>1, <1>2, ContextTyped, WalkStep

LEMMA FailRecordingHolds ==
    ASSUME WorkInv, FailRecording
    PROVE  WorkInv'
<1>1. /\ UNCHANGED <<gpu, queues, shared, made, released, ready_value, created,
                     freed, flags, frame>>
      /\ phase = "configured" /\ phase' \in {"begun", "unpaired"}
  BY DEF FailRecording, resources, lifecycle
<1>2. refused \subseteq refused'
  BY DEF FailRecording, Refused
<1>3. /\ state' \in Contexts /\ state'.id = state.id /\ state'.value = state.value
      /\ state'.next_value = state.next_value
  <2>1. CASE state' = state
    BY <2>1, ContextTyped
  <2>2. CASE \E i \in Acquirable : state' = [state EXCEPT !.next_slot = (i + 1) % Slots]
    <3>1. PICK i \in Acquirable : state' = [state EXCEPT !.next_slot = (i + 1) % Slots]
      BY <2>2
    <3>2. i \in Nat
      BY SlotsAssumption, <3>1, SlotsRange, ContextTyped DEF Acquirable, Nth, Contexts
    <3>3. (i + 1) % Slots \in Nat
      <4>1. i + 1 \in Nat
        BY <3>2
      <4> QED
        BY <4>1, SlotsRange
    <3> QED
      BY <3>1, <3>3, ContextTyped DEF Contexts
  <2> QED
    BY <2>1, <2>2 DEF FailRecording
<1> QED
  BY <1>1, <1>2, <1>3, WalkStep DEF Scene

\* A slot that is free is not that of a queued dispatch.
LEMMA FreeLemma ==
    ASSUME WorkInv, NEW i \in Indices, Free(i), NEW n \in DOMAIN q12,
           q12[n].op = "dispatch", q12[n].slot[1] = state.id
    PROVE  q12[n].slot[2] # i
<1>1. /\ state \in Contexts /\ state.id \in 0 .. created
      /\ created \in 0 .. MaxContexts
      /\ fence \in Counters /\ q12[n] \in Computing
      /\ Slotted(q12, fence, state)
  BY DEF WorkInv, Upscaler, Only
<1>2. q12[n].slot[1] \in 1 .. created
  BY <1>1 DEF Computing
<1>3. state.id \in 1 .. MaxContexts
  BY <1>1, <1>2, BoundsAssumption
<1>4. fence[OfContext(state.id)] \in Nat /\ state.value[i] \in Nat
  BY <1>1, <1>3, FenceFacts DEF Counters, Contexts
<1>5. fence[OfContext(state.id)] < state.value[q12[n].slot[2]]
  BY <1>1 DEF Slotted
<1> QED
  BY <1>4, <1>5 DEF Free

LEMMA IdleLemma ==
    ASSUME WorkInv, state.id = 0 \/ Idle, NEW n \in DOMAIN q12,
           q12[n].op = "dispatch"
    PROVE  q12[n].slot[1] # state.id
<1>1. q12[n] \in Computing
  BY DEF WorkInv, Only
<1>2. /\ q12[n].slot[1] \in 1 .. created /\ q12[n] \in Commands
      /\ created \in 0 .. MaxContexts
  BY <1>1, MarkFields DEF Computing, WorkInv, Upscaler
<1>3. q12[n].slot[2] \in Indices /\ q12[n].slot[1] # 0
  BY <1>2, CommandKinds
<1> QED
  BY <1>3, FreeLemma DEF Idle

\* Facts about what is queued that most steps need.
LEMMA QueuedDispatch ==
    ASSUME WorkInv, NEW n \in DOMAIN q12
    PROVE  /\ q12[n] \in Commands /\ q12[n] \in Computing
           /\ IsWork(q12[n]) => /\ q12[n].frame \in 1 .. frame
                                /\ q12[n].of \in 1 .. made
                                /\ q12[n].of \in 1 .. MaxShared
                                /\ q12[n].of # 0
                                /\ released[q12[n].of] # "resize"
           /\ q12[n].op = "dispatch" =>
                /\ q12[n].frame = frame /\ q12[n].of = shared => prepared
                /\ q12[n].slot[1] \in 1 .. created /\ q12[n].slot[1] # 0
                /\ q12[n].slot[1] \notin freed
                /\ released[q12[n].of] = "reset" => q12[n].slot[1] # state.id
<1>1. q12[n] \in Commands /\ q12[n] \in Computing
  BY MarkFields DEF WorkInv, Only, Computing
<1>2. MaxShared \in Nat /\ made \in Nat /\ made <= MaxShared /\ created \in Nat
  BY BoundsAssumption DEF WorkInv, Lifecycle, Upscaler
<1> QED
  BY <1>1, <1>2 DEF Computing

\* A context is replaced in a step that changes nothing else.
LEMMA ContextStep ==
    ASSUME WorkInv,
           UNCHANGED <<gpu, queues, shared, made, released, ready_value, flags,
                       frame, refused>>,
           phase = "prepared", phase' \in {"prepared", "configured"},
           \/ /\ state' = NoContext /\ created' = created /\ phase' = "prepared"
              /\ freed' = freed \/ (Idle /\ freed' = freed \cup {state.id} /\ state.id # 0)
           \/ /\ created' = created + 1 /\ created < MaxContexts
              /\ state' = NewContext(created + 1) /\ freed' = freed
    PROVE  WorkInv'
<1>1. /\ Lifecycle /\ Upscaler /\ Slotted(q12, fence, state)
      /\ Only(q12, Computing)
  BY DEF WorkInv
<1>2. frame \in Nat /\ made \in Nat /\ created \in Nat /\ ready_value \in Nat
      /\ MaxContexts \in Nat
  BY <1>1, BoundsAssumption DEF Lifecycle, Upscaler
<1>3. prepared' = prepared /\ synchronized' = synchronized
  BY DEF flags
<1>4. Top' = Top /\ Top \in Int
  BY <1>2 DEF Top
<1>5. /\ state' \in Contexts /\ state'.next_value = 1
      /\ \A i \in Indices : state'.value[i] = 0
      /\ \/ state'.id = 0 /\ created' = created
         \/ /\ state'.id = created + 1 /\ created' = created + 1
            /\ created < MaxContexts
  <2>1. CASE state' = NoContext /\ created' = created
    BY <2>1, NewContextFacts DEF NoContext
  <2>2. CASE /\ created' = created + 1 /\ created < MaxContexts
             /\ state' = NewContext(created + 1)
    <3>1. created + 1 \in Nat
      BY <1>2
    <3> QED
      BY <2>2, <3>1, NewContextFacts
  <2> QED
    BY <2>1, <2>2
<1>6. /\ created' \in Nat /\ created <= created'
      /\ created' \in 0 .. MaxContexts /\ state'.id \in 0 .. created'
      /\ state'.id # 0 => state'.id \in 1 .. MaxContexts /\ state'.id > created
      /\ \A n \in 1 .. created : n # state'.id
  BY <1>1, <1>2, <1>5 DEF Upscaler
<1>7. \A f \in Fences, v \in Nat : Fine(f, v) => Fine(f, v)'
  BY <1>1, <1>2, <1>4, <1>5, <1>6, FineStays
<1>8. Onward
  BY <1>2, <1>7 DEF Onward, Scene
<1>9. /\ freed' \subseteq 1 .. created' /\ state'.id \notin freed'
      /\ \A n \in DOMAIN q12 : q12[n].op = "dispatch" => q12[n].slot[1] \notin freed'
  <2>1. freed \subseteq 1 .. created /\ state.id \in 0 .. created
    BY <1>1 DEF Upscaler
  <2>2. CASE freed' = freed
    BY <1>2, <1>6, <2>1, <2>2, QueuedDispatch
  <2>3. CASE Idle /\ freed' = freed \cup {state.id} /\ state.id # 0
    <3>1. freed' \subseteq 1 .. created
      <4>1. state.id \in 1 .. created
        BY <1>2, <2>1, <2>3
      <4> QED
        BY <2>1, <2>3, <4>1
    <3>2. \A n \in DOMAIN q12 : q12[n].op = "dispatch" => q12[n].slot[1] \notin freed'
      BY <2>3, IdleLemma, QueuedDispatch
    <3> QED
      BY <1>2, <1>6, <3>1, <3>2
  <2> QED
    BY <2>2, <2>3
<1>10. Only(q12, Computing')
  <2>1. ASSUME NEW n \in DOMAIN q12, IsWork(q12[n])
        PROVE  /\ released'[q12[n].of] # "resize"
               /\ q12[n].op = "dispatch" =>
                    /\ q12[n].frame = frame' /\ q12[n].of = shared' => prepared'
                    /\ q12[n].slot[1] \in 1 .. created' /\ q12[n].slot[1] \notin freed'
                    /\ released'[q12[n].of] = "reset" => q12[n].slot[1] # state'.id
    <3>1. q12[n].op = "dispatch" =>
              q12[n].slot[1] \in 1 .. created' /\ q12[n].slot[1] # state'.id
      BY <1>2, <1>6, QueuedDispatch
    <3> QED
      BY <1>3, <1>9, <2>1, <3>1, QueuedDispatch
  <2> QED
    BY <1>1, <1>8, <2>1, ComputingStays
<1>11. Lifecycle'
  BY <1>1, <1>3 DEF Lifecycle, Phases
<1>12. Upscaler'
  <2>1. phase' = "configured" => state'.id # 0
    BY <1>2, <1>5
  <2> QED
    BY <1>5, <1>6, <1>9, <2>1 DEF Upscaler
<1>13. Slotted(q12, fence, state')
  <2>1. \A n \in DOMAIN q12 : q12[n].op = "dispatch" => q12[n].slot[1] # state'.id
    BY <1>6, QueuedDispatch
  <2> QED
    BY <1>1, <2>1 DEF Slotted
<1> QED
  BY <1>3, <1>8, <1>10, <1>11, <1>12, <1>13, QuietStep DEF Scene

LEMMA ContextsHold ==
    ASSUME WorkInv, DestroyContext \/ LeakContext \/ CreateContext
    PROVE  WorkInv'
<1>1. /\ UNCHANGED <<gpu, queues, shared, made, released, ready_value, flags,
                     frame, refused>>
      /\ phase = "prepared" /\ phase' \in {"prepared", "configured"}
  BY DEF DestroyContext, LeakContext, CreateContext, resources, lifecycle
<1>2. \/ /\ state' = NoContext /\ created' = created /\ phase' = "prepared"
         /\ freed' = freed \/ (Idle /\ freed' = freed \cup {state.id} /\ state.id # 0)
      \/ /\ created' = created + 1 /\ created < MaxContexts
         /\ state' = NewContext(created + 1) /\ freed' = freed
  BY DEF DestroyContext, LeakContext, CreateContext
<1> QED
  BY <1>1, <1>2, ContextStep

LEMMA MadeStep ==
    ASSUME WorkInv, Made, shared = 0,
           UNCHANGED <<gpu, queues, released, contexts, flags, frame, phase, refused>>,
           phase \in {"begun", "unpaired"}
    PROVE  WorkInv'
<1>1. /\ Lifecycle /\ Upscaler /\ Slotted(q12, fence, state)
      /\ Only(q12, Computing)
  BY DEF WorkInv
<1>2. /\ frame \in Nat /\ made \in Nat /\ created \in Nat /\ ready_value \in Nat
      /\ MaxShared \in Nat /\ state.next_value \in Nat
  BY <1>1, BoundsAssumption DEF Lifecycle, Upscaler, Contexts
<1>3. /\ state' = state /\ created' = created /\ freed' = freed
      /\ prepared' = prepared /\ synchronized' = synchronized
      /\ made' = made + 1 /\ shared' = made + 1 /\ ready_value' = 0
      /\ made < MaxShared
  BY DEF Made, contexts, flags
<1>4. ~prepared /\ ~synchronized
  BY <1>1 DEF Lifecycle
<1>5. /\ made' \in Nat /\ made <= made' /\ ready_value' \in Nat
      /\ shared' \in 1 .. MaxShared /\ shared' > made
      /\ made' \in 0 .. MaxShared
  BY <1>2, <1>3
<1>6. Top' = Top /\ Top \in Int
  BY <1>2 DEF Top
<1>7. \A f \in Fences, v \in Nat : Fine(f, v) => Fine(f, v)'
  BY <1>1, <1>2, <1>3, <1>5, <1>6, FineStays
<1>8. Onward
  BY <1>2, <1>5, <1>7 DEF Onward
<1>9. Only(q12, Computing')
  <2>1. ASSUME NEW n \in DOMAIN q12, IsWork(q12[n])
        PROVE  /\ released'[q12[n].of] # "resize"
               /\ q12[n].op = "dispatch" =>
                    /\ q12[n].frame = frame' /\ q12[n].of = shared' => prepared'
                    /\ q12[n].slot[1] \in 1 .. created' /\ q12[n].slot[1] \notin freed'
                    /\ released'[q12[n].of] = "reset" => q12[n].slot[1] # state'.id
    <3>1. q12[n].of # shared'
      BY <1>2, <1>3, <2>1, QueuedDispatch
    <3> QED
      BY <1>3, <2>1, <3>1, QueuedDispatch
  <2> QED
    BY <1>1, <1>8, <2>1, ComputingStays
<1>10. Lifecycle'
  BY <1>1, <1>2, <1>3, <1>4, <1>5 DEF Lifecycle
<1>11. Upscaler' /\ Slotted(q12, fence, state')
  BY <1>1, <1>3 DEF Upscaler
<1> QED
  BY <1>3, <1>4, <1>8, <1>9, <1>10, <1>11, QuietStep

LEMMA ReadyingsHold ==
    ASSUME WorkInv, Initialize \/ CopyUnready
    PROVE  WorkInv'
<1>1. CASE Initialize
  BY <1>1, MadeStep DEF Initialize
<1>2. CASE CopyUnready
  <2>1. CASE retry = 0 /\ Made /\ UNCHANGED <<retry, phase>>
    BY <1>2, <2>1, MadeStep DEF CopyUnready
  <2>2. CASE phase' = "shown" /\ UNCHANGED <<shared, made, ready_value>>
    <3>1. /\ UNCHANGED <<gpu, queues, shared, made, released, ready_value, created,
                         freed, flags, frame>>
          /\ state' = state /\ refused' = refused
          /\ phase = "unpaired"
      BY <1>2, <2>2 DEF CopyUnready, contexts
    <3> QED
      BY <2>2, <3>1, ContextTyped, WalkStep DEF Scene
  <2> QED
    BY <1>2, <2>1, <2>2 DEF CopyUnready
<1> QED
  BY <1>1, <1>2

\* The textures are let go: by a resize under no work, by a reset with the
\* upscaler, or because they no longer match.
LEMMA LetGoStep ==
    ASSUME WorkInv, NEW how \in {"mismatch", "resize", "reset"}, LetGo(how),
           shared # 0,
           UNCHANGED <<gpu, queues, created, frame, refused>>,
           \/ phase = "game" /\ phase' = "game"
           \/ phase \in {"resolved", "unpaired"} /\ phase' \in {"unpaired", "shown"},
           how = "resize" => q12 = <<>>,
           \/ how = "mismatch" /\ UNCHANGED <<state, freed>>
           \/ how # "mismatch" /\ UpscalerDown
    PROVE  WorkInv'
<1>1. /\ Lifecycle /\ Upscaler /\ Slotted(q12, fence, state)
      /\ Only(q12, Computing)
  BY DEF WorkInv
<1>2. /\ frame \in Nat /\ made \in Nat /\ created \in Nat /\ ready_value \in Nat
      /\ MaxShared \in Nat /\ state.next_value \in Nat /\ made \in 0 .. MaxShared
      /\ shared = made
  BY <1>1, BoundsAssumption DEF Lifecycle, Upscaler, Contexts
<1>3. /\ shared' = 0 /\ prepared' = FALSE /\ synchronized' = FALSE
      /\ made' = made /\ ready_value' = ready_value
      /\ released' = [released EXCEPT ![shared] = how]
  BY DEF LetGo
<1>4. /\ released' \in [1 .. MaxShared -> {"no", "mismatch", "resize", "reset"}]
      /\ \A id \in 1 .. MaxShared : id # shared => released'[id] = released[id]
      /\ released'[shared] = how
  <2>1. shared \in 1 .. MaxShared
    BY <1>2
  <2> QED
    BY <1>1, <1>3, <2>1 DEF Lifecycle
<1>5. /\ state' \in Contexts /\ state'.next_value >= 1 /\ state'.next_value \in Nat
      /\ \A i \in Indices : state'.value[i] < state'.next_value
      /\ state' = state \/ state'.id = 0
      /\ how = "reset" => state'.id = 0
  <2>1. CASE how = "mismatch" /\ UNCHANGED <<state, freed>>
    BY <1>1, <1>2, <2>1 DEF Upscaler
  <2>2. CASE state' = NoContext
    BY <2>2, NewContextFacts DEF NoContext
  <2> QED
    BY <2>1, <2>2 DEF UpscalerDown
<1>6. /\ freed' \subseteq 1 .. created /\ state'.id \in 0 .. created
      /\ state'.id \notin freed'
      /\ \A n \in DOMAIN q12 : q12[n].op = "dispatch" => q12[n].slot[1] \notin freed'
  <2>1. freed \subseteq 1 .. created /\ state.id \in 0 .. created /\ state.id \notin freed
    BY <1>1 DEF Upscaler
  <2>2. CASE freed' = freed
    BY <1>2, <1>5, <2>1, <2>2, QueuedDispatch
  <2>3. CASE Idle /\ freed' = freed \cup {state.id} /\ state.id # 0 /\ state'.id = 0
    <3>1. state.id \in 1 .. created
      BY <1>2, <2>1, <2>3
    <3>2. freed' \subseteq 1 .. created
      BY <2>1, <2>3, <3>1
    <3>3. \A n \in DOMAIN q12 : q12[n].op = "dispatch" => q12[n].slot[1] \notin freed'
      BY <2>3, IdleLemma, QueuedDispatch
    <3> QED
      BY <1>2, <2>3, <3>2, <3>3
  <2>4. freed' = freed
        \/ (Idle /\ freed' = freed \cup {state.id} /\ state.id # 0 /\ state'.id = 0)
    BY NewContextFacts DEF UpscalerDown, NoContext
  <2> QED
    BY <2>2, <2>3, <2>4
<1>7. phase' # "game" <=> phase # "game"
  OBVIOUS
<1>8. Top' = Top /\ Top \in Int
  BY <1>2, <1>7 DEF Top
<1>9. \A f \in Fences, v \in Nat : Fine(f, v) => Fine(f, v)'
  BY <1>1, <1>2, <1>3, <1>5, <1>8, FineStays
<1>10. Onward
  BY <1>2, <1>3, <1>7, <1>9 DEF Onward, Scene
<1>11. Only(q12, Computing')
  <2>1. ASSUME NEW n \in DOMAIN q12, IsWork(q12[n])
        PROVE  /\ released'[q12[n].of] # "resize"
               /\ q12[n].op = "dispatch" =>
                    /\ q12[n].frame = frame' /\ q12[n].of = shared' => prepared'
                    /\ q12[n].slot[1] \in 1 .. created' /\ q12[n].slot[1] \notin freed'
                    /\ released'[q12[n].of] = "reset" => q12[n].slot[1] # state'.id
    <3>1. how # "resize"
      BY <2>1
    <3>2. /\ q12[n].of \in 1 .. MaxShared /\ q12[n].of # 0
          /\ released[q12[n].of] # "resize"
          /\ q12[n].op = "dispatch" =>
                 /\ q12[n].slot[1] \in 1 .. created /\ q12[n].slot[1] # 0
                 /\ released[q12[n].of] = "reset" => q12[n].slot[1] # state.id
      BY <2>1, QueuedDispatch
    <3>3. released'[q12[n].of] \in {released[q12[n].of], how}
      BY <1>4, <3>2
    <3>4. ASSUME q12[n].op = "dispatch", released'[q12[n].of] = "reset"
          PROVE  q12[n].slot[1] # state'.id
      <4>1. CASE released[q12[n].of] = "reset"
        BY <1>5, <3>2, <3>4, <4>1
      <4>2. CASE how = "reset"
        BY <1>5, <3>2, <3>4, <4>2
      <4> QED
        BY <3>3, <3>4, <4>1, <4>2
    <3> QED
      BY <1>3, <1>6, <3>1, <3>2, <3>3, <3>4
  <2> QED
    BY <1>1, <1>10, <2>1, ComputingStays
<1>12. Lifecycle'
  <2>1. \A id \in 1 .. MaxShared : id > made => released'[id] = "no"
    <3>1. \A id \in 1 .. MaxShared : id > made => id # shared /\ released[id] = "no"
      BY <1>1, <1>2 DEF Lifecycle
    <3> QED
      BY <1>4, <3>1
  <2>2. phase' \in {"game", "unpaired", "shown"} /\ phase' \in Phases
    BY DEF Phases
  <2>3. phase' # "game" => frame' >= 1
    BY <1>1, <1>7 DEF Lifecycle
  <2> QED
    BY <1>2, <1>3, <1>4, <2>1, <2>2, <2>3 DEF Lifecycle
<1>13. Upscaler'
  BY <1>1, <1>5, <1>6 DEF Upscaler
<1>14. Slotted(q12, fence, state')
  <2>1. CASE state' = state
    BY <1>1, <2>1
  <2>2. CASE state'.id = 0
    <3>1. \A n \in DOMAIN q12 : q12[n].op = "dispatch" => q12[n].slot[1] # state'.id
      BY <2>2, QueuedDispatch
    <3> QED
      BY <1>1, <3>1 DEF Slotted
  <2> QED
    BY <1>5, <2>1, <2>2
<1> QED
  BY <1>3, <1>7, <1>10, <1>11, <1>12, <1>13, <1>14, QuietStep

LEMMA LettingsGoHold ==
    ASSUME WorkInv, Mismatch \/ ResizeBuffers \/ PreReset
    PROVE  WorkInv'
<1>1. CASE Mismatch
  <2>1. /\ shared # 0 /\ LetGo("mismatch")
        /\ UNCHANGED <<gpu, queues, created, frame, refused>>
        /\ UNCHANGED <<state, freed>>
        /\ phase \in {"resolved", "unpaired"} /\ phase' \in {"unpaired", "shown"}
    BY <1>1 DEF Mismatch, contexts
  <2> QED
    BY <2>1, LetGoStep
<1>2. ASSUME NEW how \in {"resize", "reset"}, Reset(how),
             how = "resize" => q12 = <<>>
      PROVE  WorkInv'
  <2>1. /\ shared # 0 /\ LetGo(how) /\ UpscalerDown
        /\ UNCHANGED <<gpu, queues, created, frame, refused>>
        /\ phase = "game" /\ phase' = "game"
    BY <1>2 DEF Reset, UpscalerDown
  <2> QED
    BY <1>2, <2>1, LetGoStep
<1> QED
  BY <1>1, <1>2 DEF ResizeBuffers, PreReset

LEMMA BeginFrameHolds ==
    ASSUME WorkInv, BeginFrame
    PROVE  WorkInv'
<1>1. /\ Lifecycle /\ Upscaler /\ Slotted(q12, fence, state)
      /\ Only(q12, Computing)
  BY DEF WorkInv
<1>2. /\ frame \in Nat /\ made \in Nat /\ created \in Nat /\ ready_value \in Nat
      /\ state.next_value \in Nat
  BY <1>1, BoundsAssumption DEF Lifecycle, Upscaler, Contexts
<1>3. /\ phase = "game" /\ phase' = "begun" /\ frame' = frame + 1
      /\ prepared' = FALSE /\ synchronized' = FALSE
      /\ UNCHANGED <<gpu, queues, shared, made, released, ready_value, state,
                     created, freed, refused>>
  BY DEF BeginFrame, resources, lifecycle, contexts
<1>4. frame' \in Nat /\ frame < frame' /\ frame' >= 1
  BY <1>2, <1>3
<1>5. Top <= Top' /\ Top \in Int /\ Top' \in Int
  BY <1>1, <1>2, <1>3, <1>4, TopGrows
<1>6. \A f \in Fences, v \in Nat : Fine(f, v) => Fine(f, v)'
  BY <1>1, <1>2, <1>3, <1>5, FineStays
<1>7. Onward
  BY <1>2, <1>3, <1>4, <1>6 DEF Onward
<1>8. Only(q12, Computing')
  <2>1. ASSUME NEW n \in DOMAIN q12, IsWork(q12[n])
        PROVE  /\ released'[q12[n].of] # "resize"
               /\ q12[n].op = "dispatch" =>
                    /\ q12[n].frame = frame' /\ q12[n].of = shared' => prepared'
                    /\ q12[n].slot[1] \in 1 .. created' /\ q12[n].slot[1] \notin freed'
                    /\ released'[q12[n].of] = "reset" => q12[n].slot[1] # state'.id
    <3>1. q12[n].frame # frame'
      BY <1>2, <1>3, <2>1, QueuedDispatch
    <3> QED
      BY <1>3, <2>1, <3>1, QueuedDispatch
  <2> QED
    BY <1>1, <1>7, <2>1, ComputingStays
<1>9. Lifecycle'
  BY <1>1, <1>3, <1>4 DEF Lifecycle, Phases
<1>10. Upscaler' /\ Slotted(q12, fence, state')
  BY <1>1, <1>3 DEF Upscaler
<1> QED
  BY <1>3, <1>4, <1>7, <1>8, <1>9, <1>10, QuietStep

-----------------------------------------------------------------------------
(***************************************************************************)
(* A queue goes on.                                                        *)
(***************************************************************************)
\* The texture t of the state o is v afterwards, and the others what they were.
Painted(tx, o, t, v, ty) ==
    \A u \in Textures, id \in 1 .. MaxShared :
        ty[id][u] = IF id = o /\ u = t THEN v ELSE tx[id][u]

LEMMA PaintLemma ==
    ASSUME NEW tx \in Held, NEW o \in 1 .. MaxShared, NEW t \in Textures,
           NEW v \in Nat
    PROVE  /\ [tx EXCEPT ![o][t] = v] \in Held
           /\ Painted(tx, o, t, v, [tx EXCEPT ![o][t] = v])
<1> DEFINE one == [inputs : Nat, output : Nat, generator : Nat]
           r == tx[o]
           s == [r EXCEPT ![t] = v]
           ty == [tx EXCEPT ![o][t] = v]
<1>1. r \in one
  BY DEF Held
<1>2. s \in one /\ \A u \in Textures : s[u] = IF u = t THEN v ELSE r[u]
  <2>1. CASE t = "inputs"
    BY <1>1, <2>1 DEF Textures
  <2>2. CASE t = "output"
    BY <1>1, <2>2 DEF Textures
  <2>3. CASE t = "generator"
    BY <1>1, <2>3 DEF Textures
  <2> QED
    BY <2>1, <2>2, <2>3 DEF Textures
<1>3. ty = [tx EXCEPT ![o] = s]
  BY DEF Held
<1> HIDE DEF ty, s
<1>4. ty \in Held
  BY <1>2, <1>3 DEF Held
<1>5. \A id \in 1 .. MaxShared : ty[id] = IF id = o THEN s ELSE tx[id]
  BY <1>3 DEF Held
<1>6. Painted(tx, o, t, v, ty)
  BY <1>2, <1>5 DEF Painted
<1> QED
  BY <1>4, <1>6 DEF ty

LEMMA ExecuteLemma ==
    ASSUME NEW c \in Commands, Execute(c), fence \in Counters, textures \in Held,
           c.op = "wait" => fence[c.fence] >= c.value
    PROVE  /\ Ran(c, fence, fence') /\ fence' \in Counters /\ textures' \in Held
           /\ \A t \in Textures, id \in 1 .. MaxShared :
                 /\ IsWrite(c, t, id) => textures'[id][t] = c.frame
                 /\ ~IsWrite(c, t, id) => textures'[id][t] = textures[id][t]
<1>1. /\ IsMark(c) => c.fence \in Fences /\ c.value \in Nat
      /\ IsWork(c) => c.frame \in Nat /\ c.of \in 1 .. MaxShared
      /\ c.op = "write" => c.to \in {"inputs", "generator"}
  BY CommandKinds
<1>2. fence' = IF c.op = "signal" THEN [fence EXCEPT ![c.fence] = c.value] ELSE fence
  BY DEF Execute
<1>3. fence' \in Counters
  BY <1>1, <1>2 DEF Counters, IsMark
<1>4. \A f \in Fences : fence'[f] = IF IsSignal(c, f) THEN c.value ELSE fence[f]
  BY <1>1, <1>2 DEF Counters, IsMark, IsSignal
<1>5. CASE c.op = "write"
  <2>1. textures' = [textures EXCEPT ![c.of][c.to] = c.frame]
    BY <1>5 DEF Execute
  <2>2. /\ c.of \in 1 .. MaxShared /\ c.to \in Textures /\ c.frame \in Nat
    BY <1>1, <1>5 DEF IsWork, Textures
  <2>3. textures' \in Held /\ Painted(textures, c.of, c.to, c.frame, textures')
    BY <2>1, <2>2, PaintLemma
  <2>4. \A t, id : IsWrite(c, t, id) <=> (id = c.of /\ t = c.to)
    BY <1>5 DEF IsWrite
  <2> QED
    BY <1>3, <1>4, <2>3, <2>4 DEF Ran, Painted
<1>6. CASE c.op = "dispatch"
  <2>1. textures' = [textures EXCEPT ![c.of].output = c.frame]
    BY <1>6 DEF Execute
  <2>2. /\ c.of \in 1 .. MaxShared /\ "output" \in Textures /\ c.frame \in Nat
    BY <1>1, <1>6 DEF IsWork, Textures
  <2>3. textures' \in Held /\ Painted(textures, c.of, "output", c.frame, textures')
    BY <2>1, <2>2, PaintLemma
  <2>4. \A t, id : IsWrite(c, t, id) <=> (id = c.of /\ t = "output")
    BY <1>6 DEF IsWrite
  <2> QED
    BY <1>3, <1>4, <2>3, <2>4 DEF Ran, Painted
<1>7. CASE c.op \notin {"write", "dispatch"}
  <2>1. textures' = textures
    BY <1>7 DEF Execute
  <2>2. \A t, id : ~IsWrite(c, t, id)
    BY <1>7 DEF IsWrite
  <2> QED
    BY <1>3, <1>4, <2>1, <2>2 DEF Ran
<1> QED
  BY <1>5, <1>6, <1>7

LEMMA SlottedGrows ==
    ASSUME NEW q \in Queues, NEW fc, NEW st, Slotted(q, fc, st),
           NEW c \in Commands, c.op # "dispatch"
    PROVE  Slotted(Append(q, c), fc, st)
<1> DEFINE r == Append(q, c)
<1>1. Longer(q, r, c, Len(q) + 1)
  BY AppendLemma
<1> HIDE DEF r
<1>2. \A m \in DOMAIN r : r[m].op = "dispatch" =>
          m \in DOMAIN q /\ r[m] = q[m] /\ m \in Nat /\ m < Len(q) + 1
  BY <1>1 DEF Longer
<1>3. \A m \in DOMAIN q : \A f, v : Below(q, m, f, v) => Below(r, m, f, v)
  BY <1>1, BelowGrows DEF Longer
<1>4. Slotted(r, fc, st)
  BY <1>2, <1>3 DEF Slotted
<1> QED
  BY <1>4 DEF r

LEMMA SlottedRuns ==
    ASSUME NEW q \in Queues, NEW fc, NEW fd, NEW st, Slotted(q, fc, st), q # <<>>,
           Ran(q[1], fc, fd),
           OfContext(st.id) \in Fences \/ \A n \in DOMAIN q :
               q[n].op = "dispatch" => q[n].slot[1] # st.id
    PROVE  Slotted(Tail(q), fd, st)
<1> DEFINE r == Tail(q)
<1>1. Shorter(q, r)
  BY TailLemma
<1> HIDE DEF r
<1> SUFFICES ASSUME NEW m \in DOMAIN r, r[m].op = "dispatch"
             PROVE  /\ r[m].slot[1] = st.id =>
                        /\ fd[OfContext(st.id)] < st.value[r[m].slot[2]]
                        /\ Below(r, m, OfContext(st.id), st.value[r[m].slot[2]])
                    /\ \A n \in DOMAIN r :
                        r[n].op = "dispatch" /\ r[n].slot = r[m].slot => n = m
  BY DEF Slotted, r
<1>2. /\ m \in Nat /\ m + 1 \in DOMAIN q /\ r[m] = q[m + 1]
      /\ m + 1 \in Nat /\ m + 1 >= 1 /\ (m + 1) - 1 = m
  BY <1>1 DEF Shorter
<1>3. ASSUME NEW n \in DOMAIN r, r[n].op = "dispatch", r[n].slot = r[m].slot
      PROVE  n = m
  <2>1. n \in Nat /\ n + 1 \in DOMAIN q /\ r[n] = q[n + 1]
    BY <1>1 DEF Shorter
  <2>2. n + 1 = m + 1
    BY <1>2, <1>3, <2>1 DEF Slotted
  <2> QED
    BY <1>2, <2>1, <2>2
<1>4. ASSUME r[m].slot[1] = st.id
      PROVE  /\ fd[OfContext(st.id)] < st.value[r[m].slot[2]]
             /\ Below(r, m, OfContext(st.id), st.value[r[m].slot[2]])
  <2> DEFINE f == OfContext(st.id)
             v == st.value[r[m].slot[2]]
  <2>1. fc[f] < v /\ Below(q, m + 1, f, v) /\ f \in Fences
    BY <1>2, <1>4 DEF Slotted
  <2> HIDE DEF f, v
  <2>2. Below(r, m, f, v) /\ (IsSignal(q[1], f) => q[1].value < v)
    BY <1>1, <1>2, <2>1, BelowRuns
  <2>3. fd[f] < v
    BY <2>1, <2>2 DEF Ran
  <2> QED
    BY <2>2, <2>3 DEF f, v
<1> QED
  BY <1>3, <1>4

LEMMA ContextFence ==
    ASSUME WorkInv
    PROVE  \/ state.id \in 1 .. MaxContexts /\ OfContext(state.id) \in Fences
           \/ \A n \in DOMAIN q12 : q12[n].op = "dispatch" => q12[n].slot[1] # state.id
<1>1. state.id \in 0 .. created /\ created \in 0 .. MaxContexts
  BY DEF WorkInv, Upscaler
<1>2. CASE state.id = 0
  BY <1>2, QueuedDispatch
<1>3. CASE state.id # 0
  <2>1. state.id \in 1 .. MaxContexts
    BY <1>1, <1>3, BoundsAssumption
  <2> QED
    BY <2>1, FenceFacts
<1> QED
  BY <1>2, <1>3

\* What an execution does not touch.
LEMMA RunFrame ==
    ASSUME WorkInv, NEW c, Execute(c), c \in Commands,
           c.op = "wait" => fence[c.fence] >= c.value,
           c.op = "signal" => Fine(c.fence, c.value)
    PROVE  /\ Ran(c, fence, fence') /\ fence' \in Counters /\ textures' \in Held
           /\ \A t \in Textures, id \in 1 .. MaxShared :
                 /\ IsWrite(c, t, id) => textures'[id][t] = c.frame
                 /\ ~IsWrite(c, t, id) => textures'[id][t] = textures[id][t]
           /\ Lifecycle' /\ Upscaler'
           /\ \A f \in Fences : Fine(f, fence[f])'
           /\ Drawing' = Drawing /\ Computing' = Computing /\ Guarded' = Guarded
           /\ Touching' = Touching /\ Excused' = Excused /\ NoWork' = NoWork
<1>1. UNCHANGED <<resources, contexts, flags, frame, phase, refused>>
  BY DEF Execute
<1>2. /\ shared' = shared /\ made' = made /\ released' = released
      /\ ready_value' = ready_value /\ state' = state /\ created' = created
      /\ freed' = freed /\ prepared' = prepared /\ synchronized' = synchronized
      /\ frame' = frame /\ phase' = phase /\ refused' = refused
  BY <1>1 DEF resources, lifecycle, contexts, flags
<1>3. Lifecycle /\ Upscaler /\ \A f \in Fences : Fine(f, fence[f])
  BY DEF WorkInv
<1>4. Lifecycle' /\ Upscaler'
  BY <1>2, <1>3 DEF Lifecycle, Upscaler
<1>5. Ran(c, fence, fence')
  BY ExecuteLemma DEF WorkInv
<1>6. \A f \in Fences : Fine(f, fence[f])'
  <2>1. ASSUME NEW f \in Fences
        PROVE  Fine(f, fence'[f])
    <3>1. CASE IsSignal(c, f)
      BY <1>5, <3>1 DEF Ran, IsSignal
    <3>2. CASE ~IsSignal(c, f)
      BY <1>3, <1>5, <3>2 DEF Ran
    <3> QED
      BY <3>1, <3>2
  <2> QED
    BY <1>2, <2>1 DEF Fine, Top
<1>7. Drawing' = Drawing /\ Computing' = Computing
  BY <1>2 DEF Drawing, Computing, Fine, Top
<1>8. /\ Guarded' = Guarded /\ Touching' = Touching /\ Excused' = Excused
      /\ NoWork' = NoWork
  BY <1>2 DEF Guarded, Touching, Excused, Loose, Half, Unawaited, NoWork
<1> QED
  BY <1>4, <1>5, <1>6, <1>7, <1>8, ExecuteLemma DEF WorkInv

LEMMA Run11Holds ==
    ASSUME WorkInv, Run11
    PROVE  WorkInv'
<1> DEFINE c == q11[1]
<1>1. /\ Only(q11, Drawing) /\ Only(q12, Computing) /\ Slotted(q12, fence, state)
      /\ Gates(q11, q12, fence, Guarded)
      /\ synchronized /\ phase \in Scene => Gates(q12, q11, fence, Touching)
      /\ Inputs /\ Exchange(q12, q11, fence, textures, Excused, NoWork)
      /\ Lifecycle
  BY DEF WorkInv
<1>2. /\ Only(Tail(q11), Drawing) /\ Head(q11) = c /\ c \in Commands
      /\ c \in Drawing /\ q11 # <<>> /\ q11 \in Queues /\ q12 \in Queues
  BY <1>1, OnlyRuns DEF Run11, Runnable, Only
<1>3. /\ Execute(c) /\ q11' = Tail(q11) /\ q12' = q12
      /\ c.op = "wait" => fence[c.fence] >= c.value
  BY <1>2 DEF Run11, Runnable
<1>4. /\ c.op = "signal" => /\ Fine(c.fence, c.value)
                            /\ \A id \in 1 .. MaxContexts : c.fence # OfContext(id)
      /\ IsWork(c) => c.frame \in 1 .. frame
      /\ c.op \notin {"dispatch", "generate"}
  BY <1>2, MarkFields DEF Drawing, Writes, Takes
<1>5. /\ Ran(c, fence, fence') /\ fence' \in Counters /\ textures' \in Held
      /\ \A t \in Textures, id \in 1 .. MaxShared :
            /\ IsWrite(c, t, id) => textures'[id][t] = c.frame
            /\ ~IsWrite(c, t, id) => textures'[id][t] = textures[id][t]
      /\ Lifecycle' /\ Upscaler'
      /\ \A f \in Fences : Fine(f, fence[f])'
      /\ Drawing' = Drawing /\ Computing' = Computing /\ Guarded' = Guarded
      /\ Touching' = Touching /\ Excused' = Excused /\ NoWork' = NoWork
  BY <1>2, <1>3, <1>4, RunFrame
<1>6. /\ UNCHANGED <<state, prepared, synchronized, phase, shared, frame>>
  BY <1>3 DEF Execute, resources, lifecycle, contexts, flags
<1> HIDE DEF c
<1>7. Only(q11, Drawing)' /\ Only(q12, Computing)'
  BY <1>1, <1>2, <1>3, <1>5
<1>8. Slotted(q12, fence, state)'
  <2>1. CASE state.id \in 1 .. MaxContexts /\ OfContext(state.id) \in Fences
    <3>1. fence'[OfContext(state.id)] = fence[OfContext(state.id)]
      BY <1>4, <1>5, <2>1 DEF Ran, IsSignal
    <3>2. Slotted(q12, fence', state)
      BY <1>1, <3>1 DEF Slotted
    <3> QED
      BY <1>3, <1>6, <3>2
  <2>2. CASE \A n \in DOMAIN q12 : q12[n].op = "dispatch" => q12[n].slot[1] # state.id
    <3>1. Slotted(q12, fence', state)
      BY <1>1, <2>2 DEF Slotted
    <3> QED
      BY <1>3, <1>6, <3>1
  <2> QED
    BY <2>1, <2>2, ContextFence
<1>9. Gates(q11, q12, fence, Guarded)'
  <2>1. Gates(Tail(q11), q12, fence', Guarded)
    BY <1>1, <1>2, <1>5, GatesRun DEF c
  <2> QED
    BY <1>3, <1>5, <2>1
<1>10. (synchronized /\ phase \in Scene => Gates(q12, q11, fence, Touching))'
  <2> SUFFICES ASSUME synchronized, phase \in Scene
               PROVE  Gates(q12, q11, fence, Touching)'
    BY <1>6
  <2>1. Gates(q12, Tail(q11), fence', Touching)
    BY <1>1, <1>2, <1>5, GatesRun DEF c
  <2> QED
    BY <1>3, <1>5, <2>1
<1>11. Inputs'
  <2>1. q11' \in Queues /\ Shorter(q11, q11') /\ Sorted(q11) /\ frame \in Nat
    BY <1>1, <1>2, <1>3, TailLemma DEF Exchange, Lifecycle
  <2>2. ASSUME NEW t \in Textures, shared \in 1 .. MaxShared,
               Fed(q11, t, shared, frame, textures)
        PROVE  Fed(q11', t, shared, frame, textures')
    <3>1. /\ IsWrite(c, t, shared) =>
               c.frame <= frame /\ textures'[shared][t] = c.frame
          /\ ~IsWrite(c, t, shared) => textures'[shared][t] = textures[shared][t]
      BY <1>2, <1>4, <1>5, <2>1, <2>2, WorkFacts
    <3> QED
      BY <1>2, <2>1, <2>2, <3>1, FedRuns DEF c
  <2>3. prepared \/ phase = "copied" => shared \in 1 .. MaxShared
    BY <1>1, BoundsAssumption DEF Lifecycle
  <2>4. "inputs" \in Textures /\ "generator" \in Textures
    BY DEF Textures
  <2> QED
    BY <1>1, <1>6, <2>2, <2>3, <2>4 DEF Inputs
<1>12. Exchange(q12, q11, fence, textures, Excused, NoWork)'
  <2>1. Exchange(q11, q12, fence, textures, NoWork, Excused)
    BY <1>1, ExchangeTurned
  <2>2. \A m \in DOMAIN q11, t \in Textures :
            Reads(q11[m], t) => ~IsWrite(c, t, q11[m].of)
    <3>1. ASSUME NEW m \in DOMAIN q11, NEW t \in Textures, Reads(q11[m], t)
          PROVE  t = "output"
      <4>1. q11[m].op \notin {"dispatch", "generate"}
        BY <1>1, MarkFields DEF Only, Drawing, Writes, Takes
      <4> QED
        BY <3>1, <4>1 DEF Reads
    <3>2. \A id : ~IsWrite(c, "output", id)
      <4>1. c.op = "write" => c.to # "output"
        BY <1>2, CommandKinds
      <4> QED
        BY <1>4, <4>1 DEF IsWrite
    <3> QED
      BY <3>1, <3>2
  <2>3. Exchange(Tail(q11), q12, fence', textures', NoWork, Excused)
    BY <1>2, <1>5, <2>1, <2>2, ExchangeRuns DEF c
  <2>4. Exchange(q12, Tail(q11), fence', textures', Excused, NoWork)
    BY <2>3, ExchangeTurned
  <2> QED
    BY <1>3, <1>5, <2>4
<1> QED
  BY <1>5, <1>7, <1>8, <1>9, <1>10, <1>11, <1>12 DEF WorkInv

LEMMA Run12Holds ==
    ASSUME WorkInv, Run12
    PROVE  WorkInv'
<1> DEFINE c == q12[1]
<1>1. /\ Only(q11, Drawing) /\ Only(q12, Computing) /\ Slotted(q12, fence, state)
      /\ Gates(q11, q12, fence, Guarded)
      /\ synchronized /\ phase \in Scene => Gates(q12, q11, fence, Touching)
      /\ Inputs /\ Exchange(q12, q11, fence, textures, Excused, NoWork)
      /\ Lifecycle
  BY DEF WorkInv
<1>2. /\ Only(Tail(q12), Computing) /\ Head(q12) = c /\ c \in Commands
      /\ c \in Computing /\ q12 # <<>> /\ q11 \in Queues /\ q12 \in Queues
  BY <1>1, OnlyRuns DEF Run12, Runnable, Only
<1>3. /\ Execute(c) /\ q12' = Tail(q12) /\ q11' = q11
      /\ c.op = "wait" => fence[c.fence] >= c.value
  BY <1>2 DEF Run12, Runnable
<1>4. /\ c.op = "signal" => Fine(c.fence, c.value)
      /\ c.op \notin {"write", "take"}
  BY <1>2, MarkFields DEF Computing, Dispatched, Generations
<1>5. /\ Ran(c, fence, fence') /\ fence' \in Counters /\ textures' \in Held
      /\ \A t \in Textures, id \in 1 .. MaxShared :
            /\ IsWrite(c, t, id) => textures'[id][t] = c.frame
            /\ ~IsWrite(c, t, id) => textures'[id][t] = textures[id][t]
      /\ Lifecycle' /\ Upscaler'
      /\ \A f \in Fences : Fine(f, fence[f])'
      /\ Drawing' = Drawing /\ Computing' = Computing /\ Guarded' = Guarded
      /\ Touching' = Touching /\ Excused' = Excused /\ NoWork' = NoWork
  BY <1>2, <1>3, <1>4, RunFrame
<1>6. /\ UNCHANGED <<state, prepared, synchronized, phase, shared, frame>>
  BY <1>3 DEF Execute, resources, lifecycle, contexts, flags
<1> HIDE DEF c
<1>7. Only(q11, Drawing)' /\ Only(q12, Computing)'
  BY <1>1, <1>2, <1>3, <1>5
<1>8. Slotted(q12, fence, state)'
  <2>1. \/ OfContext(state.id) \in Fences
        \/ \A n \in DOMAIN q12 : q12[n].op = "dispatch" => q12[n].slot[1] # state.id
    BY ContextFence
  <2>2. Slotted(Tail(q12), fence', state)
    BY <1>1, <1>2, <1>5, <2>1, SlottedRuns DEF c
  <2> QED
    BY <1>3, <1>6, <2>2
<1>9. Gates(q11, q12, fence, Guarded)'
  <2>1. Gates(q11, Tail(q12), fence', Guarded)
    BY <1>1, <1>2, <1>5, GatesRun DEF c
  <2> QED
    BY <1>3, <1>5, <2>1
<1>10. (synchronized /\ phase \in Scene => Gates(q12, q11, fence, Touching))'
  <2> SUFFICES ASSUME synchronized, phase \in Scene
               PROVE  Gates(q12, q11, fence, Touching)'
    BY <1>6
  <2>1. Gates(Tail(q12), q11, fence', Touching)
    BY <1>1, <1>2, <1>5, GatesRun DEF c
  <2> QED
    BY <1>3, <1>5, <2>1
<1>11. Inputs'
  <2>1. ASSUME NEW t \in Textures, t # "output", shared \in 1 .. MaxShared,
               Fed(q11, t, shared, frame, textures)
        PROVE  Fed(q11, t, shared, frame, textures')
    <3>1. ~IsWrite(c, t, shared)
      BY <1>4, <2>1 DEF IsWrite
    <3>2. textures'[shared][t] = textures[shared][t]
      BY <1>5, <2>1, <3>1
    <3> QED
      BY <2>1, <3>2 DEF Fed
  <2>2. prepared \/ phase = "copied" => shared \in 1 .. MaxShared
    BY <1>1, BoundsAssumption DEF Lifecycle
  <2>3. "inputs" \in Textures /\ "generator" \in Textures
    BY DEF Textures
  <2> QED
    BY <1>1, <1>3, <1>6, <2>1, <2>2, <2>3 DEF Inputs
<1>12. Exchange(q12, q11, fence, textures, Excused, NoWork)'
  <2>1. \A m \in DOMAIN q12, t \in Textures :
            Reads(q12[m], t) => ~IsWrite(c, t, q12[m].of)
    <3>1. ASSUME NEW m \in DOMAIN q12, NEW t \in Textures, Reads(q12[m], t)
          PROVE  t # "output"
      <4>1. q12[m].op # "take"
        BY <1>1, MarkFields DEF Only, Computing, Dispatched, Generations
      <4> QED
        BY <3>1, <4>1 DEF Reads
    <3>2. \A t, id : IsWrite(c, t, id) => t = "output"
      BY <1>4 DEF IsWrite
    <3> QED
      BY <3>1, <3>2
  <2>2. Exchange(Tail(q12), q11, fence', textures', Excused, NoWork)
    BY <1>1, <1>2, <1>5, <2>1, ExchangeRuns DEF c
  <2> QED
    BY <1>3, <1>5, <2>2
<1> QED
  BY <1>5, <1>7, <1>8, <1>9, <1>10, <1>11, <1>12 DEF WorkInv

-----------------------------------------------------------------------------
(***************************************************************************)
(* The steps that give the queues work, command by command.                *)
(***************************************************************************)
\* What is queued is in order, when it is a and b, and the upscaler at st.
Good(a, b, st) ==
    /\ a \in Queues /\ b \in Queues
    /\ \A n \in DOMAIN a : IsWork(a[n]) => a[n].frame <= frame
    /\ \A n \in DOMAIN b : IsWork(b[n]) => b[n].frame <= frame
    /\ Gates(a, b, fence, Guarded)
    /\ Exchange(b, a, fence, textures, Excused, NoWork)
    /\ Slotted(b, fence, st)

LEMMA GoodNow == WorkInv => Good(q11, q12, state)
<1> SUFFICES ASSUME WorkInv PROVE Good(q11, q12, state)
  OBVIOUS
<1>1. /\ Only(q11, Drawing) /\ Only(q12, Computing)
      /\ Slotted(q12, fence, state) /\ Gates(q11, q12, fence, Guarded)
      /\ Exchange(q12, q11, fence, textures, Excused, NoWork) /\ frame \in Nat
  BY DEF WorkInv, Lifecycle
<1>2. \A n \in DOMAIN q11 : IsWork(q11[n]) => q11[n].frame <= frame
  BY <1>1 DEF Only, Drawing
<1>3. \A n \in DOMAIN q12 : IsWork(q12[n]) => q12[n].frame <= frame
  BY <1>1 DEF Only, Computing
<1> QED
  BY <1>1, <1>2, <1>3 DEF Good, Only

LEMMA UptoGrows ==
    ASSUME NEW q \in Queues, NEW c \in Commands, NEW f,
           \A n \in DOMAIN q : IsWork(q[n]) => q[n].frame <= f,
           IsWork(c) => c.frame <= f
    PROVE  \A n \in DOMAIN Append(q, c) :
               IsWork(Append(q, c)[n]) => Append(q, c)[n].frame <= f
<1>1. Longer(q, Append(q, c), c, Len(q) + 1)
  BY AppendLemma
<1> QED
  BY <1>1 DEF Longer

LEMMA MarkKinds ==
    ASSUME NEW c \in Marks
    PROVE  /\ c \in Commands /\ IsMark(c) /\ ~IsWork(c)
           /\ c.op \notin {"dispatch", "generate", "write", "take"}
           /\ c \notin Guarded /\ c \notin Touching
           /\ \A t, id : ~IsWrite(c, t, id)
<1>1. c \in Commands /\ c.op \in {"signal", "wait"}
  BY MarkFields DEF Commands
<1> QED
  BY <1>1 DEF IsMark, IsWork, Guarded, Touching, IsWrite

LEMMA GoodMarks ==
    ASSUME NEW a, NEW b, NEW st, Good(a, b, st), NEW c \in Marks
    PROVE  Good(Append(a, c), b, st) /\ Good(a, Append(b, c), st)
<1>1. /\ a \in Queues /\ b \in Queues
      /\ \A n \in DOMAIN a : IsWork(a[n]) => a[n].frame <= frame
      /\ \A n \in DOMAIN b : IsWork(b[n]) => b[n].frame <= frame
      /\ Gates(a, b, fence, Guarded)
      /\ Exchange(b, a, fence, textures, Excused, NoWork)
      /\ Slotted(b, fence, st)
  BY DEF Good
<1>2. c \in Commands /\ ~IsWork(c) /\ c.op # "dispatch" /\ c \notin Guarded
  BY MarkKinds
<1>3. Append(a, c) \in Queues /\ Append(b, c) \in Queues
  BY <1>1, <1>2, AppendLemma
<1>4. /\ Gates(Append(a, c), b, fence, Guarded)
      /\ Gates(a, Append(b, c), fence, Guarded)
  BY <1>1, <1>2, GatesGrow
<1>5. Exchange(Append(b, c), a, fence, textures, Excused, NoWork)
  BY <1>1, MarksFit
<1>6. Exchange(b, Append(a, c), fence, textures, Excused, NoWork)
  BY <1>1, MarksFit, ExchangeTurned
<1>7. Slotted(Append(b, c), fence, st)
  BY <1>1, <1>2, SlottedGrows
<1>8. /\ \A n \in DOMAIN Append(a, c) :
             IsWork(Append(a, c)[n]) => Append(a, c)[n].frame <= frame
      /\ \A n \in DOMAIN Append(b, c) :
             IsWork(Append(b, c)[n]) => Append(b, c)[n].frame <= frame
  BY <1>1, <1>2, UptoGrows
<1> QED
  BY <1>1, <1>3, <1>4, <1>5, <1>6, <1>7, <1>8 DEF Good

\* The readers of t that are still queued are of former frames and waited for.
Behind(b, t) ==
    \A m \in DOMAIN b :
        /\ Reads(b[m], t) /\ b[m].of = shared
        /\ <<b[m].op, b[m].frame>> \notin Excused
        => b[m].frame < frame /\ b[m] \in Guarded

LEMMA BehindNow ==
    ASSUME WorkInv, phase # "game", NEW t \in {"inputs", "generator"},
           t = "inputs" => ~prepared
    PROVE  Behind(q12, t)
<1> SUFFICES ASSUME NEW m \in DOMAIN q12, Reads(q12[m], t), q12[m].of = shared,
                    <<q12[m].op, q12[m].frame>> \notin Excused
             PROVE  q12[m].frame < frame /\ q12[m] \in Guarded
  BY DEF Behind
<1>1. q12[m] \in Commands /\ IsWork(q12[m]) /\ q12[m] \in Computing
  BY QueuedDispatch, WorkFacts
<1>2. q12[m].frame \in 1 .. frame /\ frame \in Nat
  BY <1>1, QueuedDispatch DEF WorkInv, Lifecycle
<1>3. CASE q12[m].op = "generate"
  <2>1. q12[m].frame < frame
    BY <1>1, <1>3 DEF Computing
  <2>2. <<q12[m].op, q12[m].frame>> \notin Loose
    BY <1>3 DEF Loose
  <2> QED
    BY <1>1, <1>3, <2>1, <2>2 DEF Guarded
<1>4. CASE q12[m].op = "dispatch"
  <2>1. t = "inputs"
    BY <1>4 DEF Reads
  <2>2. q12[m].frame # frame
    BY <1>4, <2>1, QueuedDispatch
  <2>3. <<q12[m].op, q12[m].frame>> \notin Loose
    BY <2>2 DEF Loose
  <2> QED
    BY <1>1, <1>2, <1>4, <2>2, <2>3 DEF Guarded
<1> QED
  BY <1>3, <1>4 DEF Reads

LEMMA BehindGrows ==
    ASSUME NEW b \in Queues, NEW t, Behind(b, t), NEW c \in Commands, ~Reads(c, t)
    PROVE  Behind(Append(b, c), t)
<1>1. Longer(b, Append(b, c), c, Len(b) + 1)
  BY AppendLemma
<1> QED
  BY <1>1 DEF Longer, Behind

LEMMA WriteFields ==
    ASSUME frame \in Nat, shared \in 1 .. MaxShared,
           NEW t \in {"inputs", "generator"}
    PROVE  /\ Write(t) \in Writes /\ Write(t) \in Commands
           /\ IsWork(Write(t)) /\ Write(t).frame = frame /\ Write(t).of = shared
           /\ Write(t).op = "write" /\ \A u : ~Reads(Write(t), u)
           /\ \A u, id : IsWrite(Write(t), u, id) <=> (u = t /\ id = shared)
           /\ Write(t) \notin Guarded
<1>1. /\ Write(t) \in Writes /\ Write(t).op = "write" /\ Write(t).to = t
      /\ Write(t).frame = frame /\ Write(t).of = shared
  BY DEF Write, Writes
<1>2. Write(t) \in Commands
  BY <1>1 DEF Commands
<1> HIDE DEF Write
<1> QED
  BY <1>1, <1>2 DEF IsWork, Reads, IsWrite, Guarded

LEMMA GoodWrites ==
    ASSUME frame \in Nat, shared \in 1 .. MaxShared,
           NEW a, NEW b, NEW st, Good(a, b, st),
           NEW t \in {"inputs", "generator"}, Behind(b, t)
    PROVE  Good(Append(a, Write(t)), b, st)
<1>1. /\ a \in Queues /\ b \in Queues
      /\ \A n \in DOMAIN a : IsWork(a[n]) => a[n].frame <= frame
      /\ \A n \in DOMAIN b : IsWork(b[n]) => b[n].frame <= frame
      /\ Gates(a, b, fence, Guarded)
      /\ Exchange(b, a, fence, textures, Excused, NoWork)
      /\ Slotted(b, fence, st)
  BY DEF Good
<1>2. PICK c \in Commands :
         /\ c = Write(t)
         /\ IsWork(c) /\ c.frame = frame /\ \A u : ~Reads(c, u)
         /\ \A u, id : IsWrite(c, u, id) <=> (u = t /\ id = shared)
  BY WriteFields
<1>3. Append(a, c) \in Queues /\ Gates(Append(a, c), b, fence, Guarded)
  BY <1>1, AppendLemma, GatesGrow
<1>4. Fits(a, b, c, fence, textures, NoWork, Excused)
  <2>1. ASSUME NEW m \in DOMAIN b, NEW u \in Textures, Reads(b[m], u),
               <<b[m].op, b[m].frame>> \notin Excused, IsWrite(c, u, b[m].of)
        PROVE  c.frame > b[m].frame /\ Gated(a, b, m, fence)
    <3>1. b[m].frame < frame /\ b[m] \in Guarded
      BY <1>2, <2>1 DEF Behind
    <3>2. b[m].frame \in Nat
      BY <1>1, <2>1, QueueLemma, WorkFacts
    <3> QED
      BY <1>1, <1>2, <3>1, <3>2 DEF Gates
  <2> QED
    BY <1>1, <1>2, <2>1 DEF Fits
<1>5. Exchange(a, b, fence, textures, NoWork, Excused)
  BY <1>1, ExchangeTurned
<1>6. Exchange(Append(a, c), b, fence, textures, NoWork, Excused)
  BY <1>4, <1>5, ExchangeGrows
<1>7. Exchange(b, Append(a, c), fence, textures, Excused, NoWork)
  BY <1>6, ExchangeTurned
<1>8. \A n \in DOMAIN Append(a, c) :
         IsWork(Append(a, c)[n]) => Append(a, c)[n].frame <= frame
  BY <1>1, <1>2, UptoGrows
<1>9. Good(Append(a, c), b, st)
  BY <1>1, <1>3, <1>7, <1>8 DEF Good
<1> QED
  BY <1>2, <1>9

\* What the frame has written is there; the rest of it does not undo that.
LEMMA FedNow ==
    ASSUME frame \in Nat, shared \in 1 .. MaxShared, NEW a \in Queues,
           NEW t \in {"inputs", "generator"}
    PROVE  Fed(Append(a, Write(t)), t, shared, frame, textures)
<1>1. PICK c \in Commands :
         c = Write(t) /\ c.frame = frame /\ IsWrite(c, t, shared)
  BY WriteFields
<1>2. Longer(a, Append(a, c), c, Len(a) + 1)
  BY AppendLemma
<1>3. Fed(Append(a, c), t, shared, frame, textures)
  BY <1>1, <1>2 DEF Longer, Fed
<1> QED
  BY <1>1, <1>3

LEMMA FedStays ==
    ASSUME frame \in Nat, NEW a \in Queues, NEW t, NEW id, NEW tx,
           Fed(a, t, id, frame, tx), NEW c \in Commands,
           IsWork(c) => c.frame = frame
    PROVE  Fed(Append(a, c), t, id, frame, tx)
<1>1. Longer(a, Append(a, c), c, Len(a) + 1)
  BY AppendLemma
<1>2. IsWrite(c, t, id) => c.frame >= frame
  BY WorkFacts
<1> QED
  BY <1>1, <1>2, FedGrows

LEMMA SendStep ==
    ASSUME WorkInv, UNCHANGED gpu, Onward, Lifecycle', Upscaler',
           Only(q11', Drawing'), Only(q12', Computing'),
           NEW s, Gates(q11', q12', fence, s), Guarded' \subseteq s,
           Slotted(q12', fence, state'),
           Exchange(q12', q11', fence, textures, Excused, NoWork),
           synchronized' /\ phase' \in Scene => Gates(q12', q11', fence, Touching'),
           prepared' => Fed(q11', "inputs", shared', frame', textures),
           phase' = "copied" => Fed(q11', "generator", shared', frame', textures)
    PROVE  WorkInv'
<1>1. /\ fence' = fence /\ textures' = textures
  BY DEF gpu
<1>2. /\ Lifecycle /\ fence \in Counters /\ textures \in Held
      /\ \A f \in Fences : Fine(f, fence[f])
  BY DEF WorkInv
<1>3. fence' \in Counters /\ textures' \in Held
  BY <1>1, <1>2
<1>4. \A f \in Fences : Fine(f, fence[f])'
  <2>1. \A f \in Fences : fence[f] \in Nat
    BY <1>2 DEF Counters
  <2>2. \A f \in Fences, v \in Nat : Fine(f, v) => Fine(f, v)'
    BY DEF Onward
  <2>3. ASSUME NEW f \in Fences
        PROVE  Fine(f, fence[f])'
    <3>1. PICK v \in Nat : v = fence[f]
      BY <2>1
    <3>2. Fine(f, v) /\ fence'[f] = v
      BY <1>1, <1>2, <3>1
    <3>3. Fine(f, v)'
      BY <2>2, <3>2
    <3> QED
      BY <3>2, <3>3 DEF Fine
  <2> QED
    BY <2>3
<1>5. Only(q11, Drawing)' /\ Only(q12, Computing)'
  OBVIOUS
<1>6. Slotted(q12, fence, state)'
  BY <1>1
<1>7. Gates(q11, q12, fence, Guarded)'
  <2>1. Gates(q11', q12', fence, Guarded')
    BY GatesFewer
  <2> QED
    BY <1>1, <2>1
<1>8. (synchronized /\ phase \in Scene => Gates(q12, q11, fence, Touching))'
  BY <1>1
<1>9. Inputs'
  BY <1>1 DEF Inputs
<1>10. Exchange(q12, q11, fence, textures, Excused, NoWork)'
  <2>1. Excused \subseteq Excused'
    BY <1>2, ExcusedStays
  <2>2. Exchange(q12', q11', fence, textures, Excused', NoWork)
    BY <2>1, ExchangePardons
  <2>3. NoWork' = NoWork
    BY DEF NoWork
  <2> QED
    BY <1>1, <2>2, <2>3
<1> QED
  BY <1>3, <1>4, <1>5, <1>6, <1>7, <1>8, <1>9, <1>10 DEF WorkInv

LEMMA WaitsAllowed ==
    ASSUME NEW c \in Marks, c.op = "wait"
    PROVE  c \in Drawing /\ c \in Computing /\ c \in Drawing' /\ c \in Computing'
<1>1. ~IsWork(c) /\ c.op \notin {"dispatch", "generate", "take", "signal"}
  BY MarkKinds
<1> QED
  BY <1>1 DEF Drawing, Computing

LEMMA WritesAllowed ==
    ASSUME Lifecycle, phase # "game", shared # 0, NEW t \in {"inputs", "generator"}
    PROVE  /\ Write(t) \in Drawing
           /\ frame \in Nat /\ frame \in 1 .. frame
           /\ shared \in 1 .. made /\ shared \in 1 .. MaxShared
<1>1. /\ frame \in Nat /\ frame \in 1 .. frame
      /\ shared \in 1 .. made /\ shared \in 1 .. MaxShared
  BY BoundsAssumption DEF Lifecycle
<1>2. PICK c \in Writes : /\ c = Write(t) /\ c.frame = frame /\ c.of = shared
                          /\ c.op = "write"
  BY <1>1, WriteFields
<1>3. c \in Drawing
  BY <1>1, <1>2 DEF Drawing
<1> QED
  BY <1>1, <1>2, <1>3

LEMMA UnderLimit ==
    ASSUME NEW q, Only(q, Drawing) \/ Only(q, Computing), NEW f, NEW v,
           \A u \in Nat : Fine(f, u) => u < v
    PROVE  Under(q, f, v)
<1> SUFFICES ASSUME NEW n \in DOMAIN q, IsSignal(q[n], f)
             PROVE  q[n].value < v
  BY DEF Under
<1>1. q[n] \in Commands /\ Fine(f, q[n].value) /\ IsMark(q[n])
  BY MarkFields DEF Only, Drawing, Computing, IsSignal, IsMark
<1>2. q[n].value \in Nat
  BY <1>1, CommandKinds
<1> QED
  BY <1>1, <1>2

\* The next value of the ready fence.
LEMMA ReadyNext ==
    ASSUME WorkInv, shared # 0
    PROVE  /\ Ready(shared) \in Fences /\ ready_value + 1 \in Nat
           /\ Wait(Ready(shared), ready_value + 1) \in Marks
           /\ Wait(Ready(shared), ready_value + 1).op = "wait"
           /\ Signal(Ready(shared), ready_value + 1) \in Marks
           /\ Signal(Ready(shared), ready_value + 1).op = "signal"
           /\ Signal(Ready(shared), ready_value + 1).fence = Ready(shared)
           /\ Signal(Ready(shared), ready_value + 1).value = ready_value + 1
           /\ \A u \in Nat : Fine(Ready(shared), u) => u < ready_value + 1
           /\ fence[Ready(shared)] < ready_value + 1
           /\ Under(q11, Ready(shared), ready_value + 1)
           /\ Under(q12, Ready(shared), ready_value + 1)
<1>1. shared \in 1 .. MaxShared /\ ready_value \in Nat
  BY BoundsAssumption DEF WorkInv, Lifecycle
<1>2. Ready(shared) \in Fences /\ ready_value + 1 \in Nat
  BY <1>1, FenceFacts
<1>3. /\ Wait(Ready(shared), ready_value + 1) \in Marks
      /\ Wait(Ready(shared), ready_value + 1).op = "wait"
      /\ Signal(Ready(shared), ready_value + 1) \in Marks
      /\ Signal(Ready(shared), ready_value + 1).op = "signal"
      /\ Signal(Ready(shared), ready_value + 1).fence = Ready(shared)
      /\ Signal(Ready(shared), ready_value + 1).value = ready_value + 1
  BY <1>2 DEF Wait, Signal, Marks
<1>4. \A u \in Nat : Fine(Ready(shared), u) => u < ready_value + 1
  BY <1>1 DEF Fine
<1>5. fence[Ready(shared)] < ready_value + 1
  BY <1>2, <1>4 DEF WorkInv, Counters
<1>6. /\ Under(q11, Ready(shared), ready_value + 1)
      /\ Under(q12, Ready(shared), ready_value + 1)
  BY <1>4, UnderLimit DEF WorkInv
<1> QED
  BY <1>2, <1>3, <1>4, <1>5, <1>6

LEMMA ReadyAllowed ==
    ASSUME Lifecycle, shared # 0, shared' = shared, made' = made,
           ready_value' = ready_value + 1,
           NEW c \in Marks, c.op = "signal", c.fence = Ready(shared),
           c.value = ready_value + 1
    PROVE  c \in Drawing' /\ c \in Computing'
<1>1. /\ shared \in 1 .. MaxShared /\ shared <= made /\ made \in Nat
      /\ ready_value \in Nat
  BY BoundsAssumption DEF Lifecycle
<1>2. \A id \in 1 .. MaxShared : id > made => c.fence # Ready(id)
  BY <1>1, FenceFacts
<1>3. c.fence # Bridge /\ \A id : c.fence # OfContext(id)
  BY <1>1, FenceFacts
<1>4. Fine(c.fence, c.value)'
  BY <1>1, <1>2, <1>3 DEF Fine, Ready, OfContext, Bridge
<1>5. ~IsWork(c) /\ c.op \notin {"dispatch", "generate", "take"}
  BY MarkKinds
<1> QED
  BY <1>3, <1>4, <1>5 DEF Drawing, Computing

\* The render thread goes on within a frame, whatever it gives the queues.
LEMMA InFrame ==
    ASSUME WorkInv,
           UNCHANGED <<shared, made, released, created, freed, frame>>,
           state'.id = state.id, state'.next_value \in Nat,
           state.next_value <= state'.next_value,
           phase # "game", phase' \in Scene => phase \in Scene,
           refused \subseteq refused',
           ready_value' \in {ready_value, ready_value + 1},
           prepared => prepared'
    PROVE  /\ Onward /\ Drawing \subseteq Drawing' /\ Only(q12, Computing')
           /\ Only(q11, Drawing')
           /\ phase' # "game" => Guarded' \subseteq Guarded
<1>1. /\ Lifecycle /\ Upscaler /\ Only(q12, Computing) /\ Only(q11, Drawing)
  BY DEF WorkInv
<1>2. /\ frame \in Nat /\ made \in Nat /\ created \in Nat /\ ready_value \in Nat
      /\ state.next_value \in Nat
  BY <1>1, BoundsAssumption DEF Lifecycle, Upscaler, Contexts
<1>3. ready_value' \in Nat /\ ready_value <= ready_value'
  BY <1>2
<1>4. Top <= Top' /\ Top \in Int /\ Top' \in Int
  BY <1>1, <1>2, TopGrows
<1>5. \A f \in Fences, v \in Nat : Fine(f, v) => Fine(f, v)'
  BY <1>1, <1>2, <1>3, <1>4, FineStays
<1>6. Onward
  BY <1>2, <1>5 DEF Onward
<1>7. Only(q12, Computing')
  <2>1. ASSUME NEW n \in DOMAIN q12, IsWork(q12[n])
        PROVE  /\ released'[q12[n].of] # "resize"
               /\ q12[n].op = "dispatch" =>
                    /\ q12[n].frame = frame' /\ q12[n].of = shared' => prepared'
                    /\ q12[n].slot[1] \in 1 .. created' /\ q12[n].slot[1] \notin freed'
                    /\ released'[q12[n].of] = "reset" => q12[n].slot[1] # state'.id
    BY <2>1, QueuedDispatch
  <2> QED
    BY <1>1, <1>6, <2>1, ComputingStays
<1>8. Drawing \subseteq Drawing' /\ Only(q11, Drawing')
  BY <1>1, <1>6, DrawingStays, OnlyMore
<1>9. phase' # "game" => Guarded' \subseteq Guarded
  <2> SUFFICES ASSUME phase' # "game" PROVE Guarded' \subseteq Guarded
    OBVIOUS
  <2>1. Excused \subseteq Excused' /\ \A f : Half(f) => Half(f)'
    BY <1>1, <1>6, ExcusedStays
  <2>2. Loose \subseteq Loose'
    BY <2>1 DEF Loose
  <2> QED
    BY <2>2 DEF Guarded
<1> QED
  BY <1>6, <1>7, <1>8, <1>9

\* What is left to show of such a step that leaves the upscaler alone.
LEMMA GiveStep ==
    ASSUME WorkInv, UNCHANGED <<gpu, shared, made, released, contexts, frame>>,
           phase # "game", phase' # "game", phase' \in Scene => phase \in Scene,
           phase' \in Phases, phase' # "configured", refused \subseteq refused',
           ready_value' \in {ready_value, ready_value + 1},
           prepared => prepared', synchronized' => prepared',
           prepared' \in BOOLEAN, synchronized' \in BOOLEAN, shared # 0,
           phase' = "prepared" => synchronized',
           Only(q11', Drawing'), Only(q12', Computing'), Good(q11', q12', state),
           synchronized' /\ phase' \in Scene => Gates(q12', q11', fence, Touching),
           prepared' => Fed(q11', "inputs", shared, frame, textures),
           phase' = "copied" => Fed(q11', "generator", shared, frame, textures)
    PROVE  WorkInv'
<1>1. Lifecycle /\ Upscaler
  BY DEF WorkInv
<1>2. state' = state /\ created' = created /\ freed' = freed
  BY DEF contexts
<1>3. state.next_value \in Nat /\ ready_value \in Nat
  BY <1>1 DEF Lifecycle, Upscaler, Contexts
<1>4. Onward /\ Guarded' \subseteq Guarded
  BY <1>2, <1>3, InFrame
<1>5. Lifecycle'
  BY <1>1, <1>3 DEF Lifecycle
<1>6. Upscaler'
  BY <1>1, <1>2 DEF Upscaler
<1>7. /\ Gates(q11', q12', fence, Guarded) /\ Slotted(q12', fence, state')
      /\ Exchange(q12', q11', fence, textures, Excused, NoWork)
  BY <1>2 DEF Good
<1>8. Touching' = Touching
  BY DEF Touching
<1> QED
  BY <1>4, <1>5, <1>6, <1>7, <1>8, SendStep

\* The queue of D3D11 with what this frame wrote into it.
LEMMA WrittenLemma ==
    ASSUME WorkInv, phase # "game", shared # 0, NEW t \in {"inputs", "generator"},
           t = "inputs" => ~prepared,
           NEW a \in Queues, Good(a, q12, state), Only(a, Drawing)
    PROVE  /\ Append(a, Write(t)) \in Queues
           /\ Good(Append(a, Write(t)), q12, state)
           /\ Only(Append(a, Write(t)), Drawing)
           /\ Fed(Append(a, Write(t)), t, shared, frame, textures)
           /\ \A u : Fed(a, u, shared, frame, textures) =>
                 Fed(Append(a, Write(t)), u, shared, frame, textures)
<1>1. Lifecycle
  BY DEF WorkInv
<1>2. /\ Write(t) \in Drawing /\ frame \in Nat
      /\ shared \in 1 .. MaxShared
  BY <1>1, WritesAllowed
<1>3. Write(t) \in Commands /\ Write(t).frame = frame
  BY <1>2, WriteFields
<1>4. Behind(q12, t)
  BY BehindNow
<1>5. Good(Append(a, Write(t)), q12, state)
  BY <1>2, <1>4, GoodWrites
<1>6. Append(a, Write(t)) \in Queues /\ Only(Append(a, Write(t)), Drawing)
  BY <1>2, <1>3, AppendLemma, OnlyGrows
<1>7. Fed(Append(a, Write(t)), t, shared, frame, textures)
  BY <1>2, FedNow
<1>8. \A u : Fed(a, u, shared, frame, textures) =>
                 Fed(Append(a, Write(t)), u, shared, frame, textures)
  BY <1>2, <1>3, FedStays
<1> QED
  BY <1>5, <1>6, <1>7, <1>8

LEMMA QueuesNow ==
    ASSUME WorkInv
    PROVE  /\ q11 \in Queues /\ q12 \in Queues /\ Good(q11, q12, state)
           /\ Only(q11, Drawing) /\ Only(q12, Computing)
           /\ prepared => Fed(q11, "inputs", shared, frame, textures)
           /\ Lifecycle
BY GoodNow DEF WorkInv, Only, Inputs

LEMMA CopyUncapturedHolds ==
    ASSUME WorkInv, CopyUncaptured
    PROVE  WorkInv'
<1>1. /\ phase = "unpaired" /\ shared # 0 /\ phase' = "shown"
      /\ q11' = Append(q11, Write("generator"))
      /\ UNCHANGED <<gpu, q12, shared, made, released, contexts, frame>>
      /\ refused' = refused /\ ready_value' = ready_value
      /\ prepared' = prepared /\ synchronized' = synchronized
  BY DEF CopyUncaptured, resources, lifecycle, flags
<1>2. /\ Good(q11', q12, state) /\ Only(q11', Drawing)
      /\ prepared => Fed(q11', "inputs", shared, frame, textures)
  BY <1>1, QueuesNow, WrittenLemma
<1>3. Lifecycle /\ Upscaler
  BY DEF WorkInv
<1>4. /\ state'.id = state.id /\ state'.next_value \in Nat
      /\ state.next_value <= state'.next_value
  BY <1>1, <1>3 DEF contexts, Upscaler, Contexts
<1>5. /\ Drawing \subseteq Drawing' /\ Only(q12, Computing')
  BY <1>1, <1>4, InFrame DEF Scene, contexts
<1>6. Only(q11', Drawing') /\ Only(q12', Computing')
  BY <1>1, <1>2, <1>5, OnlyMore
<1>7. prepared \in BOOLEAN /\ synchronized \in BOOLEAN /\ (synchronized => prepared)
  BY <1>3 DEF Lifecycle
<1> QED
  BY <1>1, <1>2, <1>6, <1>7, GiveStep DEF Scene, Phases

LEMMA EvaluateNvidiaHolds ==
    ASSUME WorkInv, EvaluateNvidia
    PROVE  WorkInv'
<1>1. /\ phase = "begun" /\ shared # 0 /\ ~prepared /\ phase' = "resolved"
      /\ q11' = q11 \o <<Write("inputs"), Write("generator")>>
      /\ UNCHANGED <<gpu, q12, shared, made, released, contexts, frame>>
      /\ refused' = refused /\ ready_value' = ready_value
      /\ prepared' = TRUE /\ synchronized' = synchronized
  BY DEF EvaluateNvidia, resources, lifecycle
<1> DEFINE a == Append(q11, Write("inputs"))
<1>2. /\ a \in Queues /\ Good(a, q12, state) /\ Only(a, Drawing)
      /\ Fed(a, "inputs", shared, frame, textures)
  BY <1>1, QueuesNow, WrittenLemma
<1>3. Lifecycle /\ Upscaler
  BY DEF WorkInv
<1>4. q11' = Append(a, Write("generator"))
  <2>1. Write("inputs") \in Commands /\ Write("generator") \in Commands
    BY <1>1, <1>3, WritesAllowed, WriteFields
  <2> QED
    BY <1>1, <2>1, QueuesNow, ConcatLemma
<1> HIDE DEF a
<1>5. /\ Good(q11', q12, state) /\ Only(q11', Drawing)
      /\ Fed(q11', "inputs", shared, frame, textures)
  BY <1>1, <1>2, <1>4, WrittenLemma
<1>6. /\ state'.id = state.id /\ state'.next_value \in Nat
      /\ state.next_value <= state'.next_value
  BY <1>1, <1>3 DEF contexts, Upscaler, Contexts
<1>7. /\ Drawing \subseteq Drawing' /\ Only(q12, Computing')
  BY <1>1, <1>6, InFrame DEF Scene, contexts
<1>8. Only(q11', Drawing') /\ Only(q12', Computing')
  BY <1>1, <1>5, <1>7, OnlyMore
<1>9. synchronized \in BOOLEAN
  BY <1>3 DEF Lifecycle
<1> QED
  BY <1>1, <1>5, <1>8, <1>9, GiveStep DEF Scene, Phases

\* Synchronize, or what of it is done: w is queued with it, in front of it.
LEMMA SynchronizeLemma ==
    ASSUME WorkInv, phase # "game", shared # 0, NEW w, NEW t,
           NEW a \in Queues, Good(a, q12, state), Only(a, Drawing), a = q11 \o w,
           w = <<>> \/ (w = <<Write(t)>> /\ t \in {"inputs", "generator"}),
           UNCHANGED <<shared, made, released, state, created, freed, frame>>,
           phase' \in Scene => phase \in Scene, prepared => prepared',
           Synchronize(w) \/ FailSynchronize(w)
    PROVE  /\ ready_value' = ready_value + 1 /\ refused \subseteq refused'
           /\ Only(q11', Drawing') /\ Only(q12', Computing')
           /\ Good(q11', q12', state)
           /\ \A u : Fed(a, u, shared, frame, textures) =>
                 Fed(q11', u, shared, frame, textures)
           /\ Synchronize(w) => Gates(q12', q11', fence, Touching)
<1> DEFINE s == Signal(Ready(shared), ready_value + 1)
           g == Wait(Ready(shared), ready_value + 1)
<1>1. /\ s \in Marks /\ g \in Marks /\ g.op = "wait" /\ s.op = "signal"
      /\ s.fence = Ready(shared) /\ s.value = ready_value + 1
      /\ s \in Commands /\ g \in Commands
      /\ Ready(shared) \in Fences /\ ready_value + 1 \in Nat
      /\ fence[Ready(shared)] < ready_value + 1
      /\ Under(q12, Ready(shared), ready_value + 1)
      /\ \A u \in Nat : Fine(Ready(shared), u) => u < ready_value + 1
  BY ReadyNext, MarkKinds
<1>2. q12 \in Queues /\ Lifecycle /\ frame \in Nat
  BY QueuesNow DEF Lifecycle
<1>3. Append(a, s) \in Queues /\ Append(q12, g) \in Queues
  BY <1>1, <1>2, AppendLemma
<1>4. q11 \o w \o <<s>> = Append(a, s)
  BY <1>1, ConcatLemma
<1>5. /\ ready_value' = ready_value + 1 /\ refused \subseteq refused'
      /\ q11' \in {a, Append(a, s)} /\ q12' \in {q12, Append(q12, g)}
      /\ Synchronize(w) => q11' = Append(a, s) /\ q12' = Append(q12, g)
  BY <1>4 DEF Synchronize, FailSynchronize, Refused
<1>6. Upscaler
  BY DEF WorkInv
<1>7. /\ Drawing \subseteq Drawing' /\ Only(q12, Computing')
  <2>1. /\ state'.id = state.id /\ state'.next_value \in Nat
        /\ state.next_value <= state'.next_value
    BY <1>6 DEF Upscaler, Contexts
  <2> QED
    BY <1>5, <2>1, InFrame
<1>8. s \in Drawing' /\ g \in Computing'
  BY <1>1, <1>2, <1>5, ReadyAllowed, WaitsAllowed
<1>9. Under(a, Ready(shared), ready_value + 1)
  BY <1>1, UnderLimit
<1> HIDE DEF s
<1>10. Only(q11', Drawing')
  <2>1. Only(a, Drawing')
    BY <1>7, OnlyMore
  <2>2. Only(Append(a, s), Drawing')
    BY <1>1, <1>8, <2>1, OnlyGrows
  <2> QED
    BY <1>5, <2>1, <2>2
<1>11. Only(q12', Computing')
  <2>1. Only(Append(q12, g), Computing')
    BY <1>1, <1>7, <1>8, OnlyGrows
  <2> QED
    BY <1>5, <1>7, <2>1
<1>12. Good(q11', q12', state)
  <2>1. Good(Append(a, s), q12, state) /\ Good(a, Append(q12, g), state)
    BY <1>1, GoodMarks
  <2>2. Good(Append(a, s), Append(q12, g), state)
    BY <1>1, <2>1, GoodMarks
  <2> QED
    BY <1>5, <2>1, <2>2
<1>13. \A u : Fed(a, u, shared, frame, textures) =>
                 Fed(q11', u, shared, frame, textures)
  <2>1. ~IsWork(s)
    BY <1>1, MarkKinds
  <2>2. \A u : Fed(a, u, shared, frame, textures) =>
                 Fed(Append(a, s), u, shared, frame, textures)
    BY <1>1, <1>2, <2>1, FedStays
  <2> QED
    BY <1>5, <2>2
<1>14. Synchronize(w) => Gates(q12', q11', fence, Touching)
  <2>1. Gates(Append(q12, g), a, fence, Touching)
    BY <1>1, <1>2, <1>9, GatesOpened
  <2>2. s \notin Touching
    BY <1>1, MarkKinds
  <2>3. Gates(Append(q12, g), Append(a, s), fence, Touching)
    BY <1>1, <1>3, <2>1, <2>2, GatesGrow
  <2> QED
    BY <1>5, <2>3
<1> QED
  BY <1>5, <1>10, <1>11, <1>12, <1>13, <1>14

LEMMA EmptyConcat == \A q \in Queues : q \o <<>> = q
BY ConcatEmptySeq DEF Queues

LEMMA PrepareHolds ==
    ASSUME WorkInv, Prepare
    PROVE  WorkInv'
<1>1. /\ phase = "begun" /\ shared # 0 /\ prepared' = TRUE
      /\ UNCHANGED <<gpu, shared, made, released, contexts, frame>>
      /\ state' = state /\ created' = created /\ freed' = freed
  BY DEF Prepare, lifecycle, contexts
<1>2. /\ Lifecycle /\ q11 \in Queues /\ Good(q11, q12, state) /\ Only(q11, Drawing)
      /\ prepared => Fed(q11, "inputs", shared, frame, textures)
  BY QueuesNow
<1>3. PICK w : w = NewInputs
  OBVIOUS
<1>4. w = <<>> \/ (w = <<Write("inputs")>> /\ ~prepared)
  BY <1>3 DEF NewInputs, Encoded
<1>5. PICK a \in Queues :
        /\ a = q11 \o w /\ Good(a, q12, state) /\ Only(a, Drawing)
        /\ Fed(a, "inputs", shared, frame, textures)
  <2>1. CASE w = <<Write("inputs")>> /\ ~prepared
    <3>1. Write("inputs") \in Commands
      BY <1>1, <1>2, WritesAllowed, WriteFields
    <3>2. q11 \o w = Append(q11, Write("inputs"))
      BY <1>2, <2>1, <3>1, ConcatLemma
    <3> QED
      BY <1>1, <1>2, <2>1, <3>2, WrittenLemma
  <2>2. CASE prepared
    <3>1. q11 \o w = q11
      BY <1>2, <1>4, <2>2, EmptyConcat
    <3> QED
      BY <1>2, <2>2, <3>1
  <2> QED
    BY <1>3, <2>1, <2>2 DEF NewInputs, Encoded
<1>6. ASSUME Synchronize(w) \/ FailSynchronize(w),
             Synchronize(w) => synchronized' = TRUE /\ phase' = "prepared",
             Synchronize(w) \/ (synchronized' = FALSE /\ phase' = "unpaired")
      PROVE  WorkInv'
  <2>1. phase' \in {"prepared", "unpaired"} /\ synchronized' \in BOOLEAN
    BY <1>6
  <2>2. /\ ready_value' = ready_value + 1 /\ refused \subseteq refused'
        /\ Only(q11', Drawing') /\ Only(q12', Computing')
        /\ Good(q11', q12', state)
        /\ \A u : Fed(a, u, shared, frame, textures) =>
              Fed(q11', u, shared, frame, textures)
        /\ Synchronize(w) => Gates(q12', q11', fence, Touching)
    BY <1>1, <1>4, <1>5, <1>6, SynchronizeLemma DEF Scene
  <2>3. synchronized' /\ phase' \in Scene => Gates(q12', q11', fence, Touching)
    BY <1>6, <2>2
  <2>4. phase' \in {"prepared", "configured"} => synchronized'
    BY <1>6
  <2>5. Fed(q11', "inputs", shared, frame, textures)
    BY <1>5, <2>2
  <2> QED
    BY <1>1, <2>1, <2>2, <2>3, <2>4, <2>5, GiveStep DEF Scene, Phases
<1>7. CASE Synchronize(NewInputs) /\ synchronized' = TRUE /\ phase' = "prepared"
  <2>1. Synchronize(w)
    BY <1>3, <1>7
  <2> QED
    BY <1>6, <1>7, <2>1
<1>8. CASE FailSynchronize(NewInputs) /\ synchronized' = FALSE /\ phase' = "unpaired"
  <2>1. FailSynchronize(w)
    BY <1>3, <1>8
  <2>2. ~Synchronize(w)
    BY <1>2, <1>1, <2>1, QueuesNow, ReadyNext, MarkKinds, AppendLemma
       DEF Synchronize, FailSynchronize
  <2> QED
    BY <1>6, <1>8, <2>1, <2>2
<1>9. CASE /\ prepared /\ synchronized /\ phase' = "prepared"
           /\ UNCHANGED <<queues, ready_value, synchronized, refused>>
  <2>1. UNCHANGED <<gpu, queues, shared, made, released, ready_value, created,
                    freed, flags, frame>>
    BY <1>1, <1>2, <1>9 DEF flags, Lifecycle
  <2> QED
    BY <1>1, <1>9, <2>1, ContextTyped, WalkStep DEF Scene
<1> QED
  BY <1>7, <1>8, <1>9 DEF Prepare

LEMMA CopyFrameHolds ==
    ASSUME WorkInv, CopyFrame
    PROVE  WorkInv'
<1>1. /\ phase = "resolved" /\ prepared' = prepared
      /\ UNCHANGED <<gpu, shared, made, released, contexts, frame>>
      /\ state' = state /\ created' = created /\ freed' = freed
      /\ phase' \in {"copied", "shown"} /\ synchronized' \in {prepared, synchronized}
  BY DEF CopyFrame, lifecycle, contexts
<1>2. /\ Lifecycle /\ q11 \in Queues /\ Good(q11, q12, state) /\ Only(q11, Drawing)
      /\ prepared => Fed(q11, "inputs", shared, frame, textures)
  BY QueuesNow
<1>3. /\ shared # 0 /\ prepared \in BOOLEAN /\ synchronized \in BOOLEAN
      /\ synchronized => prepared
  BY <1>1, <1>2 DEF Lifecycle
<1>4. PICK w : w = <<Write("generator")>>
  OBVIOUS
<1>5. PICK a \in Queues :
        /\ a = q11 \o w /\ Good(a, q12, state) /\ Only(a, Drawing)
        /\ Fed(a, "generator", shared, frame, textures)
        /\ prepared => Fed(a, "inputs", shared, frame, textures)
  <2>1. Write("generator") \in Commands
    BY <1>1, <1>2, <1>3, WritesAllowed, WriteFields
  <2>2. q11 \o w = Append(q11, Write("generator"))
    BY <1>2, <1>4, <2>1, ConcatLemma
  <2> QED
    BY <1>1, <1>2, <1>3, <2>2, WrittenLemma
<1>6. Synchronize(w) \/ FailSynchronize(w)
  BY <1>4 DEF CopyFrame
<1>7. /\ ready_value' = ready_value + 1 /\ refused \subseteq refused'
      /\ Only(q11', Drawing') /\ Only(q12', Computing')
      /\ Good(q11', q12', state)
      /\ \A u : Fed(a, u, shared, frame, textures) =>
            Fed(q11', u, shared, frame, textures)
  BY <1>1, <1>3, <1>4, <1>5, <1>6, SynchronizeLemma DEF Scene
<1> QED
  BY <1>1, <1>3, <1>5, <1>7, GiveStep DEF Scene, Phases

-----------------------------------------------------------------------------
(***************************************************************************)
(* A dispatch.                                                             *)
(***************************************************************************)
LEMMA SubmitFacts ==
    ASSUME WorkInv, phase = "configured", NEW i \in Acquirable
    PROVE  /\ i \in Indices /\ Free(i)
           /\ state.id \in 1 .. created /\ state.id \in 1 .. MaxContexts
           /\ OfContext(state.id) \in Fences
           /\ state.next_value \in Nat /\ state.next_value >= 1
           /\ Submitted(i) \in Contexts /\ Submitted(i).id = state.id
           /\ Submitted(i).next_value = state.next_value + 1
           /\ Submitted(i).value[i] = state.next_value
           /\ \A j \in Indices : j # i => Submitted(i).value[j] = state.value[j]
<1>1. /\ state \in Contexts /\ created \in 0 .. MaxContexts
      /\ state.id \in 0 .. created /\ state.next_value >= 1 /\ state.id # 0
  BY DEF WorkInv, Upscaler
<1>2. PICK m \in Indices : i = Nth(m) /\ Free(Nth(m))
  BY DEF Acquirable
<1>3. state.next_slot \in Nat /\ state.next_value \in Nat /\ m \in Nat
  BY <1>1, SlotsRange DEF Contexts
<1>4. state.next_slot + m \in Nat
  BY <1>3
<1>5. i \in Indices /\ Free(i)
  BY <1>2, <1>4, SlotsRange DEF Nth
<1>6. state.id \in 1 .. created /\ state.id \in 1 .. MaxContexts
  BY <1>1, BoundsAssumption
<1> DEFINE n == (i + 1) % Slots
<1>7. n \in Nat
  <2>1. i + 1 \in Nat
    BY <1>5, SlotsRange
  <2> QED
    BY <2>1, SlotsRange
<1> HIDE DEF n
<1>8. Submitted(i) = [state EXCEPT !.value[i] = state.next_value, !.next_slot = n,
                                   !.next_value = state.next_value + 1]
  BY DEF Submitted, n
<1>9. /\ Submitted(i) \in Contexts /\ Submitted(i).id = state.id
      /\ Submitted(i).next_value = state.next_value + 1
      /\ Submitted(i).value = [state.value EXCEPT ![i] = state.next_value]
  <2> DEFINE vs == [state.value EXCEPT ![i] = state.next_value]
             su == [state EXCEPT !.value = vs, !.next_slot = n,
                                 !.next_value = state.next_value + 1]
  <2>1. vs \in [Indices -> Nat]
    BY <1>1, <1>3, <1>5 DEF Contexts
  <2>2. Submitted(i) = su
    BY <1>1, <1>8 DEF Contexts
  <2> HIDE DEF vs
  <2>3. /\ su \in Contexts /\ su.id = state.id /\ su.value = vs
        /\ su.next_value = state.next_value + 1
    <3>1. state.next_value + 1 \in Nat
      BY <1>3
    <3>2. PICK v \in Nat : v = state.next_value + 1
      BY <3>1
    <3>3. su = [state EXCEPT !.value = vs, !.next_slot = n, !.next_value = v]
      BY <3>2
    <3> HIDE DEF su
    <3>4. su \in Contexts
      BY <1>1, <1>7, <2>1, <3>3 DEF Contexts
    <3>5. su.id = state.id
      BY <1>1, <3>3 DEF Contexts
    <3>6. su.value = vs
      BY <1>1, <3>3 DEF Contexts
    <3>7. su.next_value = v
      BY <1>1, <3>3 DEF Contexts
    <3> QED
      BY <3>2, <3>4, <3>5, <3>6, <3>7
  <2> HIDE DEF su
  <2> QED
    BY <2>2, <2>3 DEF vs
<1>10. /\ Submitted(i).value[i] = state.next_value
       /\ \A j \in Indices : j # i => Submitted(i).value[j] = state.value[j]
  BY <1>1, <1>5, <1>9 DEF Contexts
<1> QED
  BY <1>1, <1>3, <1>5, <1>6, <1>9, <1>10, FenceFacts

LEMMA DispatchFields ==
    ASSUME WorkInv, phase = "configured", NEW i \in Acquirable
    PROVE  /\ Dispatch(i) \in Dispatched /\ Dispatch(i) \in Commands
           /\ IsWork(Dispatch(i)) /\ Dispatch(i).op = "dispatch"
           /\ Dispatch(i).frame = frame /\ Dispatch(i).of = shared
           /\ Dispatch(i).slot[1] = state.id /\ Dispatch(i).slot[2] = i
           /\ \A t : Reads(Dispatch(i), t) <=> t = "inputs"
           /\ \A t, id : IsWrite(Dispatch(i), t, id) <=> (t = "output" /\ id = shared)
           /\ \A f : ~IsSignal(Dispatch(i), f)
<1>1. frame \in Nat /\ shared \in 1 .. MaxShared
  BY BoundsAssumption DEF WorkInv, Lifecycle
<1>2. i \in Indices /\ state.id \in 1 .. MaxContexts
  BY SubmitFacts
<1>3. /\ Dispatch(i) \in Dispatched /\ Dispatch(i).op = "dispatch"
      /\ Dispatch(i).frame = frame /\ Dispatch(i).of = shared
      /\ Dispatch(i).slot = <<state.id, i>>
  BY <1>1, <1>2 DEF Dispatch, Dispatched
<1>4. Dispatch(i) \in Commands
  BY <1>3 DEF Commands
<1>5. Dispatch(i).slot[1] = state.id /\ Dispatch(i).slot[2] = i
  BY <1>3
<1> HIDE DEF Dispatch
<1> QED
  BY <1>3, <1>4, <1>5 DEF IsWork, Reads, IsWrite, IsSignal

\* The inputs are there, everything that touches them is in front, and the slot
\* is of no other dispatch.
LEMMA DispatchFits ==
    ASSUME WorkInv, phase = "configured", NEW i \in Acquirable
    PROVE  /\ Append(q12, Dispatch(i)) \in Queues
           /\ Exchange(Append(q12, Dispatch(i)), q11, fence, textures, Excused, NoWork)
           /\ Slotted(Append(q12, Dispatch(i)), fence, Submitted(i))
           /\ \A n \in DOMAIN Append(q12, Dispatch(i)) :
                 IsWork(Append(q12, Dispatch(i))[n]) =>
                     Append(q12, Dispatch(i))[n].frame <= frame
           /\ Behind(Append(q12, Dispatch(i)), "generator")
           /\ \A f, v : Under(q12, f, v) => Under(Append(q12, Dispatch(i)), f, v)
           /\ Gates(q11, Append(q12, Dispatch(i)), fence,
                    {c \in Guarded : c # Dispatch(i)})
<1>1. PICK c \in Commands :
        /\ c = Dispatch(i) /\ IsWork(c) /\ c.op = "dispatch"
        /\ c.frame = frame /\ c.of = shared
        /\ c.slot[1] = state.id /\ c.slot[2] = i
        /\ \A t : Reads(c, t) <=> t = "inputs"
        /\ \A t, id : IsWrite(c, t, id) <=> (t = "output" /\ id = shared)
        /\ \A f : ~IsSignal(c, f)
  BY DispatchFields
<1> DEFINE b == Append(q12, c)
           st == Submitted(i)
<1>2. /\ q11 \in Queues /\ q12 \in Queues /\ Good(q11, q12, state)
      /\ Only(q11, Drawing) /\ Only(q12, Computing)
      /\ prepared => Fed(q11, "inputs", shared, frame, textures)
      /\ Lifecycle
  BY QueuesNow
<1>3. frame \in Nat /\ synchronized /\ prepared /\ shared \in 1 .. MaxShared
  BY <1>2, BoundsAssumption DEF Lifecycle
<1>4. b \in Queues /\ Longer(q12, b, c, Len(q12) + 1)
  BY <1>2, AppendLemma
<1>5. Gates(q12, q11, fence, Touching)
  BY <1>3 DEF WorkInv, Scene
<1>6. Exchange(b, q11, fence, textures, Excused, NoWork)
  <2>1. ASSUME NEW p \in DOMAIN q11, IsWrite(q11[p], "inputs", shared)
        PROVE  q11[p].frame <= c.frame /\ Gated(q12, q11, p, fence)
    <3>1. q11[p] \in Commands /\ IsWork(q11[p])
      BY <1>2, <2>1, QueueLemma, WorkFacts
    <3>2. q11[p] \in Touching
      BY <2>1, <3>1 DEF Touching
    <3> QED
      BY <1>1, <1>2, <1>5, <3>1, <3>2 DEF Gates, Good
  <2>2. ASSUME NEW m \in DOMAIN q11, NEW t \in Textures, Reads(q11[m], t),
               IsWrite(c, t, q11[m].of)
        PROVE  c.frame > q11[m].frame /\ Gated(q12, q11, m, fence)
    <3>1. t = "output" /\ q11[m].of = shared
      BY <1>1, <2>2
    <3>2. q11[m].op = "take" /\ q11[m] \in Commands
      BY <1>2, <2>2, <3>1, QueueLemma DEF Reads
    <3>3. q11[m] \in Touching
      BY <3>1, <3>2 DEF Touching
    <3>4. q11[m].frame < frame /\ q11[m].frame \in Nat
      BY <1>2, <2>2, <3>2, WorkFacts DEF Only, Drawing, Scene
    <3> QED
      BY <1>1, <1>3, <1>5, <3>3, <3>4 DEF Gates
  <2>3. Fits(q12, q11, c, fence, textures, Excused, NoWork)
    BY <1>1, <1>2, <1>3, <2>1, <2>2 DEF Fits, Good
  <2>4. Exchange(q12, q11, fence, textures, Excused, NoWork)
    BY <1>2 DEF Good
  <2> QED
    BY <2>3, <2>4, ExchangeGrows
<1>7. /\ i \in Indices /\ Free(i) /\ st.id = state.id
      /\ OfContext(state.id) \in Fences /\ state.id \in 1 .. MaxContexts
      /\ state.next_value \in Nat
      /\ st.value[i] = state.next_value
      /\ \A j \in Indices : j # i => st.value[j] = state.value[j]
  BY SubmitFacts
<1> HIDE DEF b, st
<1>8. Slotted(b, fence, st)
  <2> DEFINE f == OfContext(state.id)
  <2>1. Slotted(q12, fence, state)
    BY DEF WorkInv
  <2>2. \A n \in DOMAIN q12 : q12[n].op = "dispatch" /\ q12[n].slot[1] = state.id =>
            q12[n].slot[2] # i /\ q12[n].slot[2] \in Indices
    BY <1>2, <1>7, FreeLemma, QueueLemma, CommandKinds
  <2>3. \A u \in Nat : Fine(f, u) => u < state.next_value
    BY <1>7 DEF Fine
  <2>4. fence[f] < state.next_value /\ Under(q12, f, state.next_value)
    BY <1>2, <1>7, <2>3, UnderLimit DEF WorkInv, Counters
  <2> HIDE DEF f
  <2>5. \A n \in DOMAIN q12 : b[n] = q12[n] /\ n \in Nat /\ n < Len(q12) + 1 /\ n # Len(q12) + 1
    BY <1>4 DEF Longer
  <2>6. \A n \in DOMAIN q12 : \A v : Below(q12, n, f, v) => Below(b, n, f, v)
    BY <1>4, <2>5, BelowGrows
  <2>7. b[Len(q12) + 1] = c /\ DOMAIN b = DOMAIN q12 \cup {Len(q12) + 1}
    BY <1>4 DEF Longer
  <2>8. Below(b, Len(q12) + 1, f, state.next_value)
    BY <1>1, <2>4, <2>5, <2>7 DEF Below, Under
  <2>9. ASSUME NEW m \in DOMAIN b, b[m].op = "dispatch", b[m].slot[1] = st.id
        PROVE  fence[f] < st.value[b[m].slot[2]] /\ Below(b, m, f, st.value[b[m].slot[2]])
    <3>1. CASE m = Len(q12) + 1
      BY <1>1, <1>7, <2>4, <2>7, <2>8, <3>1
    <3>2. CASE m \in DOMAIN q12
      <4>1. b[m] = q12[m] /\ q12[m].slot[2] # i /\ q12[m].slot[2] \in Indices
        BY <1>7, <2>2, <2>5, <2>9, <3>2
      <4>2. st.value[b[m].slot[2]] = state.value[q12[m].slot[2]]
        BY <1>7, <4>1
      <4>3. /\ fence[f] < state.value[q12[m].slot[2]]
            /\ Below(q12, m, f, state.value[q12[m].slot[2]])
        BY <1>7, <2>1, <2>9, <3>2, <4>1 DEF Slotted, f
      <4> QED
        BY <2>6, <3>2, <4>2, <4>3
    <3> QED
      BY <2>7, <3>1, <3>2
  <2>10. ASSUME NEW m \in DOMAIN b, b[m].op = "dispatch",
                NEW n \in DOMAIN b, b[n].op = "dispatch", b[n].slot = b[m].slot
         PROVE  n = m
    <3>1. CASE m \in DOMAIN q12 /\ n \in DOMAIN q12
      BY <2>1, <2>5, <2>10, <3>1 DEF Slotted
    <3>2. ASSUME NEW j \in DOMAIN q12, q12[j].op = "dispatch", q12[j].slot = c.slot
          PROVE  FALSE
      BY <1>1, <2>2, <3>2
    <3> QED
      BY <2>5, <2>7, <2>10, <3>1, <3>2
  <2> QED
    BY <1>7, <2>9, <2>10 DEF Slotted, f
<1>9. \A n \in DOMAIN b : IsWork(b[n]) => b[n].frame <= frame
  BY <1>1, <1>2, <1>3, UptoGrows DEF Good, b
<1>10. Behind(b, "generator")
  BY <1>1, <1>2, BehindNow, BehindGrows DEF b
<1>11. \A f, v : Under(q12, f, v) => Under(b, f, v)
  BY <1>1, <1>2, UnderGrows DEF b
<1>12. Gates(q11, b, fence, {e \in Guarded : e # c})
  <2>1. Gates(q11, q12, fence, {e \in Guarded : e # c})
    BY <1>2, GatesFewer DEF Good
  <2> QED
    BY <1>2, <2>1, GatesGrow DEF b
<1> QED
  BY <1>1, <1>4, <1>6, <1>8, <1>9, <1>10, <1>11, <1>12 DEF b, st

LEMMA TakeFields ==
    ASSUME frame \in Nat, shared \in 1 .. MaxShared
    PROVE  /\ Take \in Takes /\ Take \in Commands /\ IsWork(Take)
           /\ Take.op = "take" /\ Take.frame = frame /\ Take.of = shared
           /\ \A t : Reads(Take, t) <=> t = "output"
           /\ \A t, id : ~IsWrite(Take, t, id)
<1>1. /\ Take \in Takes /\ Take.op = "take" /\ Take.frame = frame
      /\ Take.of = shared
  BY DEF Take, Takes
<1>2. Take \in Commands
  BY <1>1 DEF Commands
<1> HIDE DEF Take
<1> QED
  BY <1>1, <1>2 DEF IsWork, Reads, IsWrite

\* The image that is taken is in front of the wait.
LEMMA TakeFits ==
    ASSUME frame \in Nat, shared \in 1 .. MaxShared, NEW a, NEW b, NEW st,
           Good(a, b, st), Gates(a, b, fence, Commands),
           Fed(b, "output", shared, frame, textures)
    PROVE  Good(Append(a, Take), b, st)
<1>1. /\ a \in Queues /\ b \in Queues
      /\ \A n \in DOMAIN a : IsWork(a[n]) => a[n].frame <= frame
      /\ \A n \in DOMAIN b : IsWork(b[n]) => b[n].frame <= frame
      /\ Gates(a, b, fence, Guarded)
      /\ Exchange(b, a, fence, textures, Excused, NoWork)
      /\ Slotted(b, fence, st)
  BY DEF Good
<1>2. PICK c \in Commands :
        /\ c = Take /\ IsWork(c) /\ c.frame = frame /\ c.of = shared
        /\ \A t : Reads(c, t) <=> t = "output"
        /\ \A t, id : ~IsWrite(c, t, id)
  BY TakeFields
<1>3. Append(a, c) \in Queues /\ Gates(Append(a, c), b, fence, Guarded)
  BY <1>1, AppendLemma, GatesGrow
<1>4. \A p \in DOMAIN b : b[p] \in Commands /\ Gated(a, b, p, fence)
  BY <1>1, QueueLemma DEF Gates
<1>5. Fits(a, b, c, fence, textures, NoWork, Excused)
  <2>1. \A p \in DOMAIN b : IsWrite(b[p], "output", shared) =>
            b[p].frame <= c.frame /\ Gated(a, b, p, fence)
    BY <1>1, <1>2, <1>4, WorkFacts
  <2> QED
    BY <1>1, <1>2, <2>1 DEF Fits
<1>6. Exchange(Append(a, c), b, fence, textures, NoWork, Excused)
  BY <1>1, <1>5, ExchangeTurned, ExchangeGrows
<1>7. Exchange(b, Append(a, c), fence, textures, Excused, NoWork)
  BY <1>6, ExchangeTurned
<1>8. \A n \in DOMAIN Append(a, c) :
         IsWork(Append(a, c)[n]) => Append(a, c)[n].frame <= frame
  BY <1>1, <1>2, UptoGrows
<1>9. Good(Append(a, c), b, st)
  BY <1>1, <1>3, <1>7, <1>8 DEF Good
<1> QED
  BY <1>2, <1>9

\* What every evaluation whose dispatch is executed has in common.
LEMMA SubmitStep ==
    ASSUME WorkInv, phase = "configured", NEW i \in Acquirable,
           state' = Submitted(i),
           UNCHANGED <<shared, made, released, created, freed, flags, frame>>,
           ready_value' = ready_value + 1,
           phase' \in {"resolved", "begun", "unpaired"}, refused \subseteq refused'
    PROVE  /\ Onward /\ Lifecycle' /\ Upscaler' /\ Drawing \subseteq Drawing'
           /\ Only(q11, Drawing') /\ Only(Append(q12, Dispatch(i)), Computing')
           /\ Guarded' \subseteq Guarded /\ Touching' = Touching
           /\ Retire \in Marks /\ Retire \in Computing'
           /\ \A f : f # OfContext(state.id) => ~IsSignal(Retire, f)
           /\ Wait(Ready(shared), ready_value + 1) \in Drawing'
           /\ Signal(Ready(shared), ready_value + 1) \in Computing'
<1>1. Lifecycle /\ Upscaler /\ frame \in Nat /\ shared # 0 /\ prepared
  BY DEF WorkInv, Lifecycle
<1>2. /\ i \in Indices /\ state.id \in 1 .. created /\ state.id \in 1 .. MaxContexts
      /\ OfContext(state.id) \in Fences
      /\ state.next_value \in Nat /\ state.next_value >= 1
      /\ state' \in Contexts /\ state'.id = state.id
      /\ state'.next_value = state.next_value + 1
      /\ state'.value[i] = state.next_value
      /\ \A j \in Indices : j # i => state'.value[j] = state.value[j]
  BY SubmitFacts
<1>3. prepared' = prepared /\ synchronized' = synchronized
  BY DEF flags
<1>4. /\ Onward /\ Drawing \subseteq Drawing' /\ Only(q12, Computing')
      /\ Only(q11, Drawing') /\ Guarded' \subseteq Guarded
  <2>1. state'.next_value \in Nat /\ state.next_value <= state'.next_value
    BY <1>2
  <2> QED
    BY <1>2, <1>3, <2>1, InFrame DEF Scene
<1>5. Lifecycle'
  <2>1. /\ ready_value' \in Nat /\ phase' \in Phases /\ phase' # "game"
        /\ phase' \notin {"prepared", "configured", "copied"}
    BY <1>1 DEF Lifecycle, Phases
  <2>2. phase # "game" /\ frame' >= 1
    BY <1>1 DEF Lifecycle
  <2> QED
    BY <1>1, <1>3, <2>1, <2>2 DEF Lifecycle
<1>6. Upscaler'
  <2>1. \A j \in Indices : state'.value[j] < state'.next_value
    <3> TAKE j \in Indices
    <3>1. state.value[j] \in Nat /\ state.value[j] < state.next_value
      BY <1>1 DEF Upscaler, Contexts
    <3> QED
      BY <1>2, <3>1
  <2>2. state'.next_value >= 1 /\ phase' # "configured"
    BY <1>2
  <2> QED
    BY <1>1, <1>2, <2>1, <2>2 DEF Upscaler
<1>7. Dispatch(i) \in Computing'
  <2>1. PICK d \in Dispatched :
          /\ d = Dispatch(i) /\ d.op = "dispatch" /\ IsWork(d) /\ d.frame = frame
          /\ d.of = shared /\ d.slot[1] = state.id
    BY DispatchFields
  <2>2. /\ frame \in 1 .. frame /\ shared \in 1 .. made /\ released[shared] = "no"
    BY <1>1, WritesAllowed DEF Lifecycle
  <2>3. state.id \notin freed
    BY <1>1 DEF Upscaler
  <2>4. d \in Computing'
    BY <1>1, <1>2, <1>3, <2>1, <2>2, <2>3 DEF Computing
  <2> QED
    BY <2>1, <2>4
<1>8. Only(Append(q12, Dispatch(i)), Computing')
  BY <1>4, <1>7, DispatchFields, OnlyGrows
<1>9. /\ Retire \in Marks /\ Retire.op = "signal"
      /\ Retire.fence = OfContext(state.id) /\ Retire.value = state.next_value
  BY <1>2 DEF Retire, Signal, Marks
<1>10. Retire \in Computing'
  <2>1. PICK r \in Marks : /\ r = Retire /\ r.op = "signal"
                           /\ r.fence = OfContext(state.id)
                           /\ r.value = state.next_value
    BY <1>9
  <2>2. Fine(r.fence, r.value)'
    <3>1. \A id : r.fence # Ready(id) /\ r.fence # Bridge
      BY <1>2, <2>1, FenceFacts
    <3>2. \A id \in 1 .. MaxContexts : id > created => r.fence # OfContext(id)
      <4>1. \A id : r.fence = OfContext(id) => id = state.id
        BY <2>1, FenceFacts
      <4>2. created \in Nat
        BY <1>1, BoundsAssumption DEF Upscaler
      <4> QED
        BY <1>2, <4>1, <4>2
    <3>3. r.value < state'.next_value
      BY <1>2, <2>1
    <3> QED
      BY <3>1, <3>2, <3>3 DEF Fine, Ready, OfContext, Bridge
  <2>3. ~IsWork(r) /\ r.op \notin {"dispatch", "generate"}
    BY MarkKinds
  <2>4. r \in Computing'
    BY <2>1, <2>2, <2>3 DEF Computing
  <2> QED
    BY <2>1, <2>4
<1>11. Touching' = Touching
  BY DEF Touching
<1>12. \A f : f # OfContext(state.id) => ~IsSignal(Retire, f)
  BY <1>9 DEF IsSignal
<1>13. Wait(Ready(shared), ready_value + 1) \in Drawing'
  BY <1>1, ReadyNext, WaitsAllowed
<1>14. Signal(Ready(shared), ready_value + 1) \in Computing'
  BY <1>1, ReadyNext, ReadyAllowed
<1> QED
  BY <1>4, <1>5, <1>6, <1>8, <1>9, <1>10, <1>11, <1>12, <1>13, <1>14

\* D3D11 waits for what D3D12 was given up to the signal.
LEMMA AwaitedLemma ==
    ASSUME WorkInv, phase = "configured", NEW st, NEW b \in Queues,
           Under(b, Ready(shared), ready_value + 1),
           \A n \in DOMAIN b : IsWork(b[n]) => b[n].frame <= frame,
           Exchange(b, q11, fence, textures, Excused, NoWork),
           Slotted(b, fence, st)
    PROVE  /\ Good(Append(q11, Wait(Ready(shared), ready_value + 1)), b, st)
           /\ Gates(Append(q11, Wait(Ready(shared), ready_value + 1)), b, fence, Commands)
<1> DEFINE g == Wait(Ready(shared), ready_value + 1)
           a == Append(q11, g)
<1>1. shared # 0 /\ q11 \in Queues /\ Good(q11, q12, state)
  BY QueuesNow DEF Lifecycle
<1>2. /\ g \in Marks /\ g \in Commands /\ ~IsWork(g)
      /\ Ready(shared) \in Fences /\ ready_value + 1 \in Nat
      /\ fence[Ready(shared)] < ready_value + 1
      /\ Under(q11, Ready(shared), ready_value + 1)
  BY <1>1, ReadyNext, MarkKinds
<1>3. \A s : Gates(a, b, fence, s)
  BY <1>1, <1>2, GatesOpened
<1> HIDE DEF g
<1>4. Exchange(b, a, fence, textures, Excused, NoWork)
  BY <1>2, ExchangeTurned, MarksFit
<1>5. a \in Queues /\ \A n \in DOMAIN a : IsWork(a[n]) => a[n].frame <= frame
  BY <1>1, <1>2, AppendLemma, UptoGrows DEF Good
<1> QED
  BY <1>3, <1>4, <1>5 DEF Good, g

LEMMA EvaluateHolds ==
    ASSUME WorkInv, Evaluate
    PROVE  WorkInv'
<1>1. PICK i \in Acquirable :
        /\ state' = Submitted(i)
        /\ q12' = q12 \o <<Dispatch(i), Retire, Signal(Ready(shared), ready_value + 1)>>
  BY DEF Evaluate
<1>2. /\ phase = "configured" /\ phase' = "resolved" /\ ready_value' = ready_value + 1
      /\ q11' = q11 \o <<Wait(Ready(shared), ready_value + 1)>> \o Output
      /\ UNCHANGED <<gpu, shared, made, released, created, freed, flags, frame, refused>>
      /\ prepared' = prepared
  BY DEF Evaluate, lifecycle, flags
<1>3. /\ Onward /\ Lifecycle' /\ Upscaler' /\ Drawing \subseteq Drawing'
      /\ Only(q11, Drawing') /\ Only(Append(q12, Dispatch(i)), Computing')
      /\ Guarded' \subseteq Guarded
      /\ Retire \in Marks /\ Retire \in Computing'
      /\ \A f : f # OfContext(state.id) => ~IsSignal(Retire, f)
      /\ Wait(Ready(shared), ready_value + 1) \in Drawing'
      /\ Signal(Ready(shared), ready_value + 1) \in Computing'
  BY <1>1, <1>2, SubmitStep
<1>4. /\ Lifecycle /\ q11 \in Queues /\ q12 \in Queues
      /\ prepared => Fed(q11, "inputs", shared, frame, textures)
  BY QueuesNow
<1>5. /\ frame \in Nat /\ frame \in 1 .. frame /\ shared # 0
      /\ shared \in 1 .. made /\ shared \in 1 .. MaxShared
      /\ Write("generator") \in Drawing
  BY <1>2, <1>4, WritesAllowed DEF Lifecycle
<1> DEFINE g == Wait(Ready(shared), ready_value + 1)
           s == Signal(Ready(shared), ready_value + 1)
           d == Dispatch(i)
           w == Write("generator")
           b1 == Append(q12, d)
           b2 == Append(b1, Retire)
           a1 == Append(q11, g)
           a2 == Append(a1, Take)
           a3 == Append(a2, w)
<1>6. /\ g \in Marks /\ s \in Marks
      /\ g \in Commands /\ s \in Commands /\ Retire \in Commands
      /\ ~IsWork(g)
      /\ Under(q12, Ready(shared), ready_value + 1)
  BY <1>3, <1>5, ReadyNext, MarkKinds
<1>7. /\ d \in Commands /\ d.frame = frame /\ IsWrite(d, "output", shared)
  BY <1>2, DispatchFields
<1>8. /\ w \in Commands /\ w.frame = frame
      /\ Take \in Commands /\ Take \in Takes /\ Take.op = "take"
      /\ Take.frame = frame /\ Take.of = shared
  BY <1>5, WriteFields, TakeFields
<1>9. /\ b1 \in Queues
      /\ Exchange(b1, q11, fence, textures, Excused, NoWork)
      /\ Slotted(b1, fence, Submitted(i))
      /\ \A n \in DOMAIN b1 : IsWork(b1[n]) => b1[n].frame <= frame
      /\ Behind(b1, "generator")
      /\ Under(b1, Ready(shared), ready_value + 1)
  BY <1>2, <1>6, DispatchFits
<1>10. q12' = Append(b2, s)
  BY <1>1, <1>4, <1>6, <1>7, ConcatLemma
<1>11. q11' = a3 /\ a1 \in Queues /\ a2 \in Queues /\ a3 \in Queues
  <2>1. q11 \o <<g>> = a1 /\ a1 \in Queues
    BY <1>4, <1>6, ConcatLemma, AppendLemma
  <2>2. a1 \o <<Take, w>> = a3
    BY <1>8, <2>1, ConcatLemma
  <2>3. a2 \in Queues /\ a3 \in Queues
    BY <1>8, <2>1, AppendLemma
  <2> QED
    BY <1>2, <2>1, <2>2, <2>3 DEF Output
<1> HIDE DEF g, s, d, w, b1
<1>12. /\ b2 \in Queues
       /\ Exchange(b2, q11, fence, textures, Excused, NoWork)
       /\ Slotted(b2, fence, Submitted(i))
       /\ \A n \in DOMAIN b2 : IsWork(b2[n]) => b2[n].frame <= frame
       /\ Behind(b2, "generator")
       /\ Under(b2, Ready(shared), ready_value + 1)
  <2>1. ~IsWork(Retire) /\ Retire.op # "dispatch" /\ ~Reads(Retire, "generator")
    BY <1>3, <1>6, MarkKinds, WorkFacts
  <2>2. ~IsSignal(Retire, Ready(shared))
    BY <1>3, FenceFacts
  <2>3. b2 \in Queues
    BY <1>6, <1>9, AppendLemma
  <2>4. Exchange(b2, q11, fence, textures, Excused, NoWork)
    BY <1>3, <1>9, MarksFit
  <2>5. Slotted(b2, fence, Submitted(i))
    BY <1>6, <1>9, <2>1, SlottedGrows
  <2>6. \A n \in DOMAIN b2 : IsWork(b2[n]) => b2[n].frame <= frame
    BY <1>6, <1>9, <2>1, UptoGrows
  <2>7. Behind(b2, "generator")
    BY <1>6, <1>9, <2>1, BehindGrows
  <2>8. Under(b2, Ready(shared), ready_value + 1)
    BY <1>6, <1>9, <2>2, UnderGrows
  <2> QED
    BY <2>3, <2>4, <2>5, <2>6, <2>7, <2>8
<1>13. Fed(b2, "output", shared, frame, textures)
  <2>1. Longer(q12, b1, d, Len(q12) + 1)
    BY <1>4, <1>7, AppendLemma DEF b1
  <2>2. Fed(b1, "output", shared, frame, textures)
    BY <1>7, <2>1 DEF Longer, Fed
  <2> QED
    BY <1>3, <1>5, <1>6, <1>9, <2>2, FedStays, MarkKinds
<1> HIDE DEF b2
<1>14. Good(a1, b2, Submitted(i)) /\ Gates(a1, b2, fence, Commands)
  BY <1>2, <1>12, AwaitedLemma DEF g
<1> HIDE DEF a1
<1>15. Good(a2, b2, Submitted(i))
  BY <1>5, <1>13, <1>14, TakeFits
<1> HIDE DEF a2
<1>16. Good(a3, b2, Submitted(i))
  BY <1>5, <1>12, <1>15, GoodWrites DEF w
<1>17. Good(a3, Append(b2, s), Submitted(i))
  BY <1>6, <1>16, GoodMarks
<1>18. Only(q12', Computing')
  <2>1. Only(b2, Computing')
    BY <1>3, <1>6, OnlyGrows DEF b2, b1, d
  <2> QED
    BY <1>3, <1>6, <1>10, <2>1, OnlyGrows DEF s
<1>19. Only(q11', Drawing')
  <2>1. Only(a1, Drawing')
    BY <1>3, <1>6, OnlyGrows DEF a1, g
  <2>2. Take \in Drawing'
    <3>1. PICK c \in Takes : c = Take /\ c.op = "take" /\ c.frame = frame /\ c.of = shared
      BY <1>8
    <3>2. c \in Drawing'
      BY <1>2, <1>5, <3>1 DEF Drawing, Scene
    <3> QED
      BY <3>1, <3>2
  <2>3. Only(a2, Drawing')
    BY <1>8, <2>1, <2>2, OnlyGrows DEF a2
  <2>4. Only(a3, Drawing')
    BY <1>3, <1>5, <1>8, <2>3, OnlyGrows DEF w
  <2> QED
    BY <1>11, <2>4
<1>20. prepared => Fed(q11', "inputs", shared, frame, textures)
  <2> SUFFICES ASSUME prepared PROVE Fed(a3, "inputs", shared, frame, textures)
    BY <1>11
  <2>1. Fed(a1, "inputs", shared, frame, textures)
    BY <1>4, <1>5, <1>6, FedStays DEF a1
  <2>2. Fed(a2, "inputs", shared, frame, textures)
    BY <1>5, <1>8, <1>11, <2>1, FedStays DEF a2
  <2> QED
    BY <1>5, <1>8, <1>11, <2>2, FedStays
<1>21. /\ Gates(q11', q12', fence, Guarded) /\ Slotted(q12', fence, state')
       /\ Exchange(q12', q11', fence, textures, Excused, NoWork)
  BY <1>1, <1>10, <1>11, <1>17 DEF Good
<1> QED
  BY <1>2, <1>3, <1>18, <1>19, <1>20, <1>21, SendStep DEF Scene


\* A dispatch that D3D11 cannot be made to wait for: the bridge will have to.
LEMMA LooseDispatch ==
    ASSUME WorkInv, phase = "configured", NEW i \in Acquirable, frame' = frame,
           phase' # "game", Half(frame)', Guarded' \subseteq Guarded
    PROVE  Guarded' \subseteq {c \in Guarded : c # Dispatch(i)}
<1>1. PICK d \in Commands : d = Dispatch(i) /\ d.op = "dispatch" /\ d.frame = frame
  BY DispatchFields
<1>2. <<"dispatch", frame>> \in Loose'
  BY DEF Loose
<1>3. d \notin Guarded'
  BY <1>1, <1>2 DEF Guarded
<1> QED
  BY <1>1, <1>3

LEMMA FailEvaluateHolds ==
    ASSUME WorkInv, FailEvaluate
    PROVE  WorkInv'
<1> DEFINE g == Wait(Ready(shared), ready_value + 1)
           s == Signal(Ready(shared), ready_value + 1)
<1>1. PICK i \in Acquirable :
        /\ state' = Submitted(i)
        /\ \/ /\ Refused("retire")
              /\ q12' = q12 \o <<Dispatch(i), s>>
              /\ q11' = Append(q11, g)
           \/ /\ Refused("signal12")
              /\ q12' = q12 \o <<Dispatch(i), Retire>>
              /\ UNCHANGED q11
           \/ /\ Refused("wait11")
              /\ q12' = q12 \o <<Dispatch(i), Retire, s>>
              /\ UNCHANGED q11
  BY DEF FailEvaluate
<1>2. /\ phase = "configured" /\ phase' \in {"begun", "unpaired"}
      /\ ready_value' = ready_value + 1
      /\ UNCHANGED <<gpu, shared, made, released, created, freed, flags, frame>>
      /\ prepared' = prepared /\ synchronized' = synchronized
  BY DEF FailEvaluate, lifecycle, flags
<1>3. refused \subseteq refused'
  BY <1>1 DEF Refused
<1>4. /\ Onward /\ Lifecycle' /\ Upscaler'
      /\ Only(q11, Drawing') /\ Only(Append(q12, Dispatch(i)), Computing')
      /\ Guarded' \subseteq Guarded /\ Touching' = Touching
      /\ Retire \in Marks /\ Retire \in Computing'
      /\ \A f : f # OfContext(state.id) => ~IsSignal(Retire, f)
      /\ g \in Drawing' /\ s \in Computing'
  BY <1>1, <1>2, <1>3, SubmitStep
<1>5. /\ Lifecycle /\ q11 \in Queues /\ q12 \in Queues
      /\ prepared => Fed(q11, "inputs", shared, frame, textures)
  BY QueuesNow
<1>6. frame \in Nat /\ shared # 0 /\ shared' = shared /\ synchronized
  BY <1>2, <1>5 DEF Lifecycle
<1>7. /\ g \in Marks /\ s \in Marks
      /\ g \in Commands /\ s \in Commands /\ Retire \in Commands
      /\ ~IsWork(g) /\ ~IsWork(s) /\ ~IsWork(Retire)
      /\ g \notin Touching /\ s \notin Guarded /\ Retire \notin Guarded
      /\ s.op # "dispatch" /\ Retire.op # "dispatch"
      /\ Under(q12, Ready(shared), ready_value + 1)
  BY <1>4, <1>6, ReadyNext, MarkKinds
<1> DEFINE d == Dispatch(i)
           b1 == Append(q12, d)
           b2 == Append(b1, Retire)
           v == {c \in Guarded : c # d}
<1>8. /\ d \in Commands /\ b1 \in Queues /\ b2 \in Queues
      /\ Exchange(b1, q11, fence, textures, Excused, NoWork)
      /\ Slotted(b1, fence, Submitted(i))
      /\ \A n \in DOMAIN b1 : IsWork(b1[n]) => b1[n].frame <= frame
      /\ Under(b1, Ready(shared), ready_value + 1)
      /\ Gates(q11, b1, fence, v)
  BY <1>2, <1>7, DispatchFields, DispatchFits, AppendLemma
<1>9. /\ q12 \o <<d, s>> = Append(b1, s) /\ q12 \o <<d, Retire>> = b2
      /\ q12 \o <<d, Retire, s>> = Append(b2, s)
  BY <1>5, <1>7, <1>8, ConcatLemma
<1>10. Gates(q12, q11, fence, Touching)
  BY <1>2, <1>6 DEF WorkInv, Scene
<1>11. Gates(b1, q11, fence, Touching)
  BY <1>5, <1>8, <1>10, GatesGrow
<1>12. Half(frame)' => Guarded' \subseteq v
  BY <1>2, <1>4, LooseDispatch
<1> HIDE DEF g, s, d, b1, v
<1>13. Only(b1, Computing')
  BY <1>4 DEF b1, d
<1>14. CASE /\ Refused("retire") /\ q12' = Append(b1, s) /\ q11' = Append(q11, g)
  <2>1. Good(q11', b1, Submitted(i))
    BY <1>2, <1>8, <1>14, AwaitedLemma DEF g
  <2>2. Good(q11', q12', state')
    BY <1>1, <1>7, <1>14, <2>1, GoodMarks
  <2>3. Only(q11', Drawing') /\ Only(q12', Computing')
    BY <1>4, <1>7, <1>13, <1>14, OnlyGrows
  <2>4. Gates(q12', q11', fence, Touching)
    <3>1. Gates(b1, Append(q11, g), fence, Touching) /\ Append(q11, g) \in Queues
      BY <1>5, <1>7, <1>8, <1>11, GatesGrow, AppendLemma
    <3> QED
      BY <1>7, <1>8, <1>14, <3>1, GatesGrow
  <2>5. prepared => Fed(q11', "inputs", shared, frame, textures)
    BY <1>5, <1>6, <1>7, <1>14, FedStays
  <2>6. /\ Gates(q11', q12', fence, Guarded) /\ Slotted(q12', fence, state')
        /\ Exchange(q12', q11', fence, textures, Excused, NoWork)
    BY <2>2 DEF Good
  <2> QED
    BY <1>2, <1>4, <1>6, <2>3, <2>4, <2>5, <2>6, SendStep
<1>15. /\ Exchange(b2, q11, fence, textures, Excused, NoWork)
       /\ Slotted(b2, fence, Submitted(i)) /\ Gates(q11, b2, fence, v)
       /\ Gates(b2, q11, fence, Touching) /\ Only(b2, Computing')
  <2>1. Retire \notin v
    BY <1>7 DEF v
  <2>2. Exchange(b2, q11, fence, textures, Excused, NoWork)
    BY <1>4, <1>8, MarksFit
  <2>3. Slotted(b2, fence, Submitted(i))
    BY <1>7, <1>8, SlottedGrows
  <2>4. Gates(q11, b2, fence, v) /\ Gates(b2, q11, fence, Touching)
    BY <1>5, <1>7, <1>8, <1>11, <2>1, GatesGrow
  <2>5. Only(b2, Computing')
    BY <1>4, <1>7, <1>13, OnlyGrows
  <2> QED
    BY <2>2, <2>3, <2>4, <2>5
<1> HIDE DEF b2
<1>16. CASE Refused("signal12") /\ q12' = b2 /\ q11' = q11
  <2>1. Half(frame)'
    BY <1>2, <1>16 DEF Half, Refused
  <2> QED
    BY <1>1, <1>2, <1>4, <1>5, <1>6, <1>12, <1>15, <1>16, <2>1, SendStep
<1>17. CASE Refused("wait11") /\ q12' = Append(b2, s) /\ q11' = q11
  <2>1. Half(frame)' /\ s \notin v
    BY <1>2, <1>7, <1>17 DEF Half, Refused, v
  <2>2. Exchange(q12', q11', fence, textures, Excused, NoWork)
    BY <1>7, <1>15, <1>17, MarksFit
  <2>3. Slotted(q12', fence, state')
    BY <1>1, <1>7, <1>8, <1>15, <1>17, SlottedGrows
  <2>4. Gates(q11', q12', fence, v) /\ Gates(q12', q11', fence, Touching)
    BY <1>5, <1>7, <1>8, <1>15, <1>17, <2>1, GatesGrow
  <2>5. Only(q12', Computing') /\ Only(q11', Drawing')
    BY <1>4, <1>7, <1>15, <1>17, OnlyGrows
  <2> QED
    BY <1>2, <1>4, <1>5, <1>6, <1>12, <1>17, <2>1, <2>2, <2>3, <2>4, <2>5,
       SendStep
<1> QED
  BY <1>1, <1>9, <1>14, <1>16, <1>17 DEF g, s, d

-----------------------------------------------------------------------------
(***************************************************************************)
(* The end of the frame.                                                   *)
(***************************************************************************)
LEMMA GenerateFields ==
    ASSUME frame \in Nat, shared \in 1 .. MaxShared, prepared \in BOOLEAN
    PROVE  /\ Generate \in Generations /\ Generate \in Commands /\ IsWork(Generate)
           /\ Generate.op = "generate" /\ Generate.frame = frame
           /\ Generate.of = shared
           /\ \A t : Reads(Generate, t) =>
                 t = "generator" \/ (t = "inputs" /\ prepared)
           /\ \A t, id : ~IsWrite(Generate, t, id)
           /\ \A f : ~IsSignal(Generate, f)
<1>1. /\ Generate \in Generations /\ Generate.op = "generate"
      /\ Generate.frame = frame /\ Generate.of = shared
      /\ Generate.prepared = prepared
  BY DEF Generate, Generations
<1>2. Generate \in Commands
  BY <1>1 DEF Commands
<1> HIDE DEF Generate
<1> QED
  BY <1>1, <1>2 DEF IsWork, Reads, IsWrite, IsSignal

\* The values of the bridge's fence that the frame hands out.
LEMMA BridgeNext ==
    ASSUME WorkInv, phase # "game"
    PROVE  /\ 2 * frame - 1 \in Nat /\ 2 * frame \in Nat
           /\ 2 * frame - 1 < 2 * frame
           /\ \A u \in Nat : Fine(Bridge, u) => u < 2 * frame - 1
           /\ fence[Bridge] < 2 * frame - 1
           /\ Under(q11, Bridge, 2 * frame - 1)
           /\ Under(q12, Bridge, 2 * frame - 1)
<1>1. frame \in Nat /\ frame >= 1
  BY DEF WorkInv, Lifecycle
<1>2. /\ 2 * frame - 1 \in Nat /\ 2 * frame \in Nat
      /\ 2 * frame - 1 < 2 * frame /\ 2 * frame - 2 < 2 * frame - 1
      /\ 2 * frame - 2 \in Nat
  BY <1>1
<1>3. \A u \in Nat : Fine(Bridge, u) => u <= 2 * frame - 2
  BY DEF Fine, Top
<1>4. \A u \in Nat : Fine(Bridge, u) => u < 2 * frame - 1
  BY <1>2, <1>3
<1>5. fence[Bridge] < 2 * frame - 1
  BY <1>4, FenceFacts DEF WorkInv, Counters
<1>6. Under(q11, Bridge, 2 * frame - 1) /\ Under(q12, Bridge, 2 * frame - 1)
  BY <1>4, UnderLimit DEF WorkInv
<1> QED
  BY <1>2, <1>4, <1>5, <1>6

\* A signal of the bridge's fence, when the frame is over.
LEMMA BridgeAllowed ==
    ASSUME NEW v \in Nat, v <= Top'
    PROVE  /\ Signal(Bridge, v) \in Marks
           /\ Signal(Bridge, v) \in Drawing' /\ Signal(Bridge, v) \in Computing'
           /\ IsSignal(Signal(Bridge, v), Bridge) /\ Signal(Bridge, v).value = v
<1>1. PICK c \in Marks : /\ c = Signal(Bridge, v) /\ c.op = "signal"
                         /\ c.fence = Bridge /\ c.value = v
  <2>1. /\ Signal(Bridge, v) \in Marks /\ Signal(Bridge, v).op = "signal"
        /\ Signal(Bridge, v).fence = Bridge /\ Signal(Bridge, v).value = v
    BY FenceFacts DEF Signal, Marks
  <2> QED
    BY <2>1
<1>2. \A id : Ready(id) # Bridge /\ OfContext(id) # Bridge
  BY DEF Ready, OfContext, Bridge
<1>3. Fine(c.fence, c.value)'
  BY <1>1, <1>2 DEF Fine, Ready, OfContext, Bridge
<1>4. ~IsWork(c) /\ c.op \notin {"dispatch", "generate", "take"}
  BY MarkKinds
<1>5. c \in Drawing' /\ c \in Computing'
  BY <1>1, <1>2, <1>3, <1>4 DEF Drawing, Computing
<1> QED
  BY <1>1, <1>5 DEF IsSignal

\* D3D12 waits for what was drawn, and generates from it.
LEMMA ShownLemma ==
    ASSUME WorkInv, phase \in {"copied", "shown"}
    PROVE  LET b == q12 \o Shown
           IN  /\ b \in Queues /\ Under(b, Bridge, 2 * frame - 1)
               /\ Exchange(b, q11, fence, textures, Excused, NoWork)
               /\ Slotted(b, fence, state)
               /\ \A s : Only(q12, s) /\ Wait(Bridge, 2 * frame - 1) \in s
                         /\ (phase = "copied" => Generate \in s) => Only(b, s)
               /\ Gates(q11, b, fence, {c \in Guarded : c # Generate})
<1> DEFINE g == Wait(Bridge, 2 * frame - 1)
           b1 == Append(q12, g)
           v == {c \in Guarded : c # Generate}
<1>1. /\ Lifecycle /\ q11 \in Queues /\ q12 \in Queues /\ Good(q11, q12, state)
      /\ prepared => Fed(q11, "inputs", shared, frame, textures)
  BY QueuesNow
<1>2. /\ Exchange(q12, q11, fence, textures, Excused, NoWork)
      /\ Slotted(q12, fence, state) /\ Gates(q11, q12, fence, v)
      /\ \A n \in DOMAIN q11 : IsWork(q11[n]) => q11[n].frame <= frame
      /\ \A n \in DOMAIN q12 : IsWork(q12[n]) => q12[n].frame <= frame
  <2>1. Gates(q11, q12, fence, Guarded)
    BY DEF WorkInv
  <2>2. Gates(q11, q12, fence, v)
    BY <2>1, GatesFewer
  <2> QED
    BY <1>1, <2>2 DEF Good
<1>3. /\ 2 * frame - 1 \in Nat /\ fence[Bridge] < 2 * frame - 1
      /\ Under(q11, Bridge, 2 * frame - 1) /\ Under(q12, Bridge, 2 * frame - 1)
  BY BridgeNext
<1>4. /\ g \in Marks /\ g.op = "wait"
  BY <1>3, FenceFacts DEF Wait, Marks
<1>5. \A s : Gates(b1, q11, fence, s)
  BY <1>1, <1>3, FenceFacts, GatesOpened
<1> HIDE DEF g
<1>6. g \in Commands /\ ~IsWork(g) /\ g \notin v /\ g.op # "dispatch"
      /\ ~IsSignal(g, Bridge)
  BY <1>4, MarkKinds DEF IsSignal
<1>7. /\ b1 \in Queues /\ Under(b1, Bridge, 2 * frame - 1)
      /\ Exchange(b1, q11, fence, textures, Excused, NoWork)
      /\ Slotted(b1, fence, state) /\ Gates(q11, b1, fence, v)
      /\ \A n \in DOMAIN b1 : IsWork(b1[n]) => b1[n].frame <= frame
  <2>1. b1 \in Queues /\ Under(b1, Bridge, 2 * frame - 1)
    BY <1>1, <1>3, <1>6, AppendLemma, UnderGrows
  <2>2. Exchange(b1, q11, fence, textures, Excused, NoWork)
    BY <1>2, <1>4, MarksFit
  <2>3. Slotted(b1, fence, state)
    BY <1>1, <1>2, <1>6, SlottedGrows
  <2>4. Gates(q11, b1, fence, v)
    BY <1>1, <1>2, <1>6, GatesGrow
  <2>5. \A n \in DOMAIN b1 : IsWork(b1[n]) => b1[n].frame <= frame
    BY <1>1, <1>2, <1>6, UptoGrows
  <2> QED
    BY <2>1, <2>2, <2>3, <2>4, <2>5
<1>8. \A s : Only(q12, s) /\ g \in s => Only(b1, s)
  BY <1>6, OnlyGrows
<1> HIDE DEF b1, v
<1>9. CASE phase = "shown"
  <2>1. q12 \o Shown = b1
    <3>1. Shown = <<g>>
      BY <1>9 DEF Shown, g
    <3> QED
      BY <1>1, <1>6, <3>1, ConcatLemma DEF b1
  <2> QED
    BY <1>7, <1>8, <2>1 DEF g, v
<1>10. CASE phase = "copied"
  <2>1. /\ frame \in Nat /\ shared \in 1 .. MaxShared /\ prepared \in BOOLEAN
        /\ Fed(q11, "generator", shared, frame, textures)
    BY <1>1, <1>10, BoundsAssumption DEF Lifecycle, WorkInv, Inputs
  <2>2. PICK c \in Commands :
          /\ c = Generate /\ IsWork(c) /\ c.op = "generate"
          /\ c.frame = frame /\ c.of = shared
          /\ \A t : Reads(c, t) => t = "generator" \/ (t = "inputs" /\ prepared)
          /\ \A t, id : ~IsWrite(c, t, id)
          /\ \A f : ~IsSignal(c, f)
    BY <2>1, GenerateFields
  <2> DEFINE b2 == Append(b1, c)
  <2>3. q12 \o Shown = b2
    <3>1. Shown = <<g>> \o <<c>>
      BY <1>10, <2>2 DEF Shown, g
    <3>2. q12 \o (<<g>> \o <<c>>) = (q12 \o <<g>>) \o <<c>>
      BY <1>1, <1>6, ConcatAssociative DEF Queues
    <3>3. q12 \o <<g>> = b1
      BY <1>1, <1>6, ConcatLemma DEF b1
    <3>4. b1 \o <<c>> = b2
      BY <1>7, ConcatLemma
    <3> QED
      BY <3>1, <3>2, <3>3, <3>4
  <2>4. Fits(b1, q11, c, fence, textures, Excused, NoWork)
    <3>1. \A p \in DOMAIN q11 : Gated(b1, q11, p, fence)
      <4>1. Gates(b1, q11, fence, Commands)
        BY <1>5
      <4> QED
        BY <1>1, <4>1, QueueLemma DEF Gates
    <3>2. \A p \in DOMAIN q11 : \A t :
              IsWrite(q11[p], t, shared) => q11[p].frame <= frame
      BY <1>1, <1>2, QueueLemma, WorkFacts
    <3>3. \A t : Reads(c, t) => Fed(q11, t, shared, frame, textures)
      BY <1>1, <2>1, <2>2
    <3> QED
      BY <1>7, <2>2, <3>1, <3>2, <3>3 DEF Fits
  <2>5. Exchange(b2, q11, fence, textures, Excused, NoWork)
    BY <1>7, <2>4, ExchangeGrows
  <2>6. b2 \in Queues /\ Under(b2, Bridge, 2 * frame - 1)
    BY <1>7, <2>2, AppendLemma, UnderGrows
  <2>7. Slotted(b2, fence, state)
    BY <1>7, <2>2, SlottedGrows
  <2>8. Gates(q11, b2, fence, v)
    <3>1. c \notin v
      BY <2>2 DEF v
    <3> QED
      BY <1>1, <1>7, <3>1, GatesGrow
  <2>9. ASSUME NEW s, Only(q12, s), g \in s, c \in s
        PROVE  Only(b2, s)
    BY <1>8, <2>9, OnlyGrows
  <2> HIDE DEF b2
  <2>10. \A s : Only(q12, s) /\ g \in s /\ (phase = "copied" => Generate \in s) =>
             Only(b2, s)
    BY <1>10, <2>2, <2>9
  <2> QED
    BY <2>3, <2>5, <2>6, <2>7, <2>8, <2>10 DEF g, v
<1> QED
  BY <1>9, <1>10

LEMMA PresentHolds ==
    ASSUME WorkInv, Present
    PROVE  WorkInv'
<1> DEFINE b == q12 \o Shown
           d == Drawn
           g == Wait(Bridge, 2 * frame)
           s == Signal(Bridge, 2 * frame)
           a == Append(q11, d)
<1>1. /\ phase \in {"copied", "shown"} /\ phase' = "game"
      /\ UNCHANGED <<gpu, shared, made, released, ready_value, contexts, frame>>
      /\ prepared' = prepared /\ synchronized' = synchronized
      /\ state' = state /\ created' = created /\ freed' = freed
      /\ ready_value' = ready_value
      /\ phase # "game" /\ shared' = shared
  BY DEF Present, resources, lifecycle, contexts, flags
<1>2. \/ /\ q11' = q11 \o <<d, g>> /\ q12' = b \o <<s>> /\ refused' = refused
      \/ Refused("frame") /\ q11' = a /\ q12' = q12
      \/ Refused("completion") /\ q11' = a /\ q12' = b
  BY DEF Present
<1>3. /\ Lifecycle /\ Upscaler /\ q11 \in Queues /\ q12 \in Queues
      /\ Only(q12, Computing) /\ Gates(q11, q12, fence, Guarded)
      /\ Slotted(q12, fence, state)
      /\ Exchange(q12, q11, fence, textures, Excused, NoWork)
      /\ prepared => Fed(q11, "inputs", shared, frame, textures)
      /\ frame \in Nat /\ frame >= 1
  BY <1>1, QueuesNow DEF WorkInv, Lifecycle
<1>4. refused \subseteq refused'
  BY <1>2 DEF Refused
<1>5. /\ Onward /\ Drawing \subseteq Drawing' /\ Only(q12, Computing')
      /\ Only(q11, Drawing')
  <2>1. /\ state'.id = state.id /\ state'.next_value \in Nat
        /\ state.next_value <= state'.next_value /\ phase' \notin Scene
    BY <1>1, <1>3 DEF Upscaler, Contexts, Scene
  <2> QED
    BY <1>1, <1>4, <2>1, InFrame
<1>6. Lifecycle'
  BY <1>1, <1>3 DEF Lifecycle, Phases
<1>7. Upscaler'
  BY <1>1, <1>3 DEF Upscaler
<1>8. /\ 2 * frame - 1 \in Nat /\ 2 * frame \in Nat /\ 2 * frame - 1 < 2 * frame
      /\ fence[Bridge] < 2 * frame - 1
      /\ Under(q11, Bridge, 2 * frame - 1)
  BY <1>1, BridgeNext
<1>9. /\ d \in Marks /\ d \in Drawing' /\ s \in Marks /\ s \in Computing'
      /\ d.value = 2 * frame - 1 /\ s.value = 2 * frame
  <2>1. Top' = 2 * frame
    BY <1>1 DEF Top
  <2>2. PICK v \in Nat : v = 2 * frame - 1 /\ v <= Top'
    BY <1>8, <2>1
  <2>3. PICK w \in Nat : w = 2 * frame /\ w <= Top'
    BY <1>8, <2>1
  <2>4. /\ Signal(Bridge, v) \in Marks /\ Signal(Bridge, v) \in Drawing'
        /\ Signal(Bridge, v).value = v
    BY <2>2, BridgeAllowed
  <2>5. /\ Signal(Bridge, w) \in Marks /\ Signal(Bridge, w) \in Computing'
        /\ Signal(Bridge, w).value = w
    BY <2>3, BridgeAllowed
  <2>6. d = Signal(Bridge, v) /\ s = Signal(Bridge, w)
    BY <2>2, <2>3 DEF Drawn
  <2> QED
    BY <2>2, <2>3, <2>4, <2>5, <2>6
<1>10. g \in Marks /\ g.op = "wait" /\ g \in Drawing'
  <2>1. g \in Marks /\ g.op = "wait"
    BY <1>8, FenceFacts DEF Wait, Marks
  <2> QED
    BY <2>1, WaitsAllowed
<1>11. Wait(Bridge, 2 * frame - 1) \in Computing'
  <2>1. /\ Wait(Bridge, 2 * frame - 1) \in Marks
        /\ Wait(Bridge, 2 * frame - 1).op = "wait"
    BY <1>8, FenceFacts DEF Wait, Marks
  <2> QED
    BY <2>1, WaitsAllowed
<1>12. phase = "copied" => Generate \in Computing'
  <2> SUFFICES ASSUME phase = "copied" PROVE Generate \in Computing'
    OBVIOUS
  <2>1. /\ shared # 0 /\ shared \in 1 .. made /\ shared \in 1 .. MaxShared
        /\ frame \in 1 .. frame /\ prepared \in BOOLEAN
        /\ released[shared] = "no"
    BY <1>3, BoundsAssumption DEF Lifecycle
  <2>2. PICK c \in Generations :
          /\ c = Generate /\ c.op = "generate" /\ c.frame = frame /\ c.of = shared
    BY <1>3, <2>1, GenerateFields
  <2>3. c \in Computing'
    BY <1>1, <2>1, <2>2 DEF Computing
  <2> QED
    BY <2>2, <2>3
<1> DEFINE v == {c \in Guarded : c # Generate}
<1>13. /\ b \in Queues /\ Under(b, Bridge, 2 * frame - 1)
       /\ Exchange(b, q11, fence, textures, Excused, NoWork)
       /\ Slotted(b, fence, state) /\ Only(b, Computing')
       /\ Gates(q11, b, fence, v)
  BY <1>1, <1>5, <1>11, <1>12, ShownLemma
<1> HIDE DEF b, d, g, s
<1>14. /\ d \in Commands /\ g \in Commands /\ s \in Commands
       /\ ~IsWork(d) /\ ~IsWork(g) /\ ~IsWork(s)
       /\ s.op # "dispatch" /\ s.op # "generate"
  BY <1>9, <1>10, MarkKinds
<1>15. a \in Queues /\ Append(a, g) \in Queues /\ q11 \o <<d, g>> = Append(a, g)
       /\ b \o <<s>> = Append(b, s)
  BY <1>3, <1>13, <1>14, AppendLemma, ConcatLemma
<1>16. Only(a, Drawing') /\ Only(Append(a, g), Drawing')
  BY <1>5, <1>9, <1>10, <1>14, OnlyGrows
<1>17. prepared => /\ Fed(a, "inputs", shared, frame, textures)
                   /\ Fed(Append(a, g), "inputs", shared, frame, textures)
  <2> SUFFICES ASSUME prepared
               PROVE  /\ Fed(a, "inputs", shared, frame, textures)
                      /\ Fed(Append(a, g), "inputs", shared, frame, textures)
    OBVIOUS
  <2>1. Fed(a, "inputs", shared, frame, textures)
    BY <1>3, <1>14, FedStays
  <2> QED
    BY <1>3, <1>14, <1>15, <2>1, FedStays
<1>18. phase' \notin Scene /\ phase' # "copied"
  BY <1>1 DEF Scene
<1> HIDE DEF v
<1>19. CASE q11' = Append(a, g) /\ q12' = Append(b, s)
  <2> DEFINE u == {c \in Commands : c.op \in {"dispatch", "generate"}}
  <2>1. Under(a, Bridge, 2 * frame) /\ Under(b, Bridge, 2 * frame)
    <3>1. \A q \in Queues : Under(q, Bridge, 2 * frame - 1) => Under(q, Bridge, 2 * frame)
      BY <1>8, QueueLemma, CommandKinds DEF Under, IsSignal, IsMark
    <3>2. Under(q11, Bridge, 2 * frame) /\ Under(b, Bridge, 2 * frame)
      BY <1>3, <1>8, <1>13, <3>1
    <3> QED
      BY <1>3, <1>8, <1>9, <1>14, <3>2, UnderGrows
  <2>2. fence[Bridge] < 2 * frame
    BY <1>8, FenceFacts DEF WorkInv, Counters
  <2>3. Gates(Append(a, g), b, fence, u)
    BY <1>8, <1>13, <1>15, <2>1, <2>2, FenceFacts, GatesOpened DEF g
  <2>4. Gates(Append(a, g), Append(b, s), fence, u)
    BY <1>13, <1>14, <1>15, <2>3, GatesGrow
  <2>5. Guarded' \subseteq u
    BY DEF Guarded
  <2>6. Exchange(q12', q11', fence, textures, Excused, NoWork)
    <3>1. Exchange(Append(b, s), q11, fence, textures, Excused, NoWork)
      BY <1>9, <1>13, MarksFit
    <3>2. Exchange(a, Append(b, s), fence, textures, NoWork, Excused)
      BY <1>9, <3>1, ExchangeTurned, MarksFit
    <3>3. Exchange(Append(a, g), Append(b, s), fence, textures, NoWork, Excused)
      BY <1>10, <3>2, MarksFit
    <3> QED
      BY <1>19, <3>3, ExchangeTurned
  <2>7. Slotted(q12', fence, state') /\ Only(q12', Computing')
    BY <1>1, <1>9, <1>13, <1>14, <1>19, SlottedGrows, OnlyGrows
  <2> HIDE DEF u
  <2> QED
    BY <1>1, <1>5, <1>6, <1>7, <1>16, <1>17, <1>18, <1>19,
       <2>4, <2>5, <2>6, <2>7, SendStep
<1>20. ASSUME Refused("frame") \/ Refused("completion")
       PROVE  Guarded' \subseteq v
  <2>1. frame \in Unawaited'
    BY <1>1, <1>3, <1>20 DEF Unawaited, Refused
  <2>2. Excused \subseteq Excused' /\ \A f : Half(f) => Half(f)'
    BY <1>3, <1>5, ExcusedStays
  <2>3. <<"generate", frame>> \in Excused'
    BY <2>1 DEF Excused
  <2>4. Half(frame) => <<"dispatch", frame>> \in Excused'
    BY <2>1, <2>2 DEF Excused
  <2>5. Loose \subseteq Excused' /\ Loose' = Excused'
    BY <1>1, <2>2, <2>4 DEF Loose
  <2>6. Guarded' \subseteq Guarded
    BY <2>5 DEF Guarded
  <2>7. \A c \in Guarded' : c # Generate
    <3>1. Generate.op = "generate" /\ Generate.frame = frame
      BY DEF Generate
    <3>2. \A c \in Guarded' : <<c.op, c.frame>> \notin Loose'
      BY DEF Guarded
    <3> QED
      BY <2>3, <2>5, <3>1, <3>2
  <2> QED
    BY <2>6, <2>7 DEF v
<1>21. ASSUME NEW q \in Queues, Gates(q11, q, fence, v), Slotted(q, fence, state),
              Exchange(q, q11, fence, textures, Excused, NoWork), Only(q, Computing'),
              Guarded' \subseteq v, q11' = a, q12' = q
       PROVE  WorkInv'
  <2>1. Gates(a, q, fence, v)
    BY <1>3, <1>14, <1>21, GatesGrow
  <2>2. Exchange(q, a, fence, textures, Excused, NoWork)
    BY <1>9, <1>21, ExchangeTurned, MarksFit
  <2> QED
    BY <1>1, <1>5, <1>6, <1>7, <1>16, <1>17, <1>18, <1>21, <2>1, <2>2, SendStep
<1>22. CASE Refused("frame") /\ q11' = a /\ q12' = q12
  <2>1. Gates(q11, q12, fence, v)
    BY <1>3, GatesFewer DEF v
  <2> QED
    BY <1>3, <1>5, <1>20, <1>21, <1>22, <2>1
<1>23. CASE Refused("completion") /\ q11' = a /\ q12' = b
  BY <1>13, <1>20, <1>21, <1>23
<1> QED
  BY <1>2, <1>15, <1>19, <1>22, <1>23

-----------------------------------------------------------------------------
(***************************************************************************)
(* All together.                                                           *)
(***************************************************************************)
\* Nothing happens.
LEMMA StutterHolds ==
    ASSUME WorkInv, UNCHANGED vars
    PROVE  WorkInv'
<1>1. /\ UNCHANGED <<q11, q12, fence, textures, shared, made, released, retry,
                     ready_value, state, created, freed, prepared, synchronized,
                     frame, phase, refused>>
  BY DEF vars, gpu, queues, resources, lifecycle, contexts, flags
<1>2. /\ Lifecycle /\ Upscaler /\ Only(q11, Drawing) /\ Only(q12, Computing)
      /\ Slotted(q12, fence, state) /\ Gates(q11, q12, fence, Guarded)
      /\ synchronized /\ phase \in Scene => Gates(q12, q11, fence, Touching)
      /\ Inputs /\ Exchange(q12, q11, fence, textures, Excused, NoWork)
  BY DEF WorkInv
<1>3. Lifecycle' /\ Upscaler' /\ Touching' = Touching
  BY <1>1, <1>2 DEF Lifecycle, Upscaler, Touching
<1>4. \A f, v : Fine(f, v)' <=> Fine(f, v)
  BY <1>1 DEF Fine, Top
<1>5. Onward
  BY <1>1, <1>2, <1>4, BoundsAssumption DEF Onward, Lifecycle
<1>6. Drawing' = Drawing /\ Computing' = Computing
  BY <1>1, <1>4 DEF Drawing, Computing
<1>7. Guarded' = Guarded
  BY <1>1 DEF Guarded, Loose, Excused, Half, Unawaited
<1>8. Only(q11', Drawing') /\ Only(q12', Computing')
  BY <1>1, <1>2, <1>6
<1>9. /\ Gates(q11', q12', fence, Guarded) /\ Slotted(q12', fence, state')
      /\ Exchange(q12', q11', fence, textures, Excused, NoWork)
      /\ synchronized' /\ phase' \in Scene => Gates(q12', q11', fence, Touching')
      /\ prepared' => Fed(q11', "inputs", shared', frame', textures)
      /\ phase' = "copied" => Fed(q11', "generator", shared', frame', textures)
  BY <1>1, <1>2, <1>3 DEF Inputs
<1> QED
  BY <1>1, <1>3, <1>5, <1>7, <1>8, <1>9, SendStep DEF gpu

LEMMA NextHolds == WorkInv /\ [Next]_vars => WorkInv'
<1> SUFFICES ASSUME WorkInv, [Next]_vars PROVE WorkInv'
  OBVIOUS
<1>1. CASE UNCHANGED vars
  BY <1>1, StutterHolds
<1>2. CASE Run11 \/ Run12
  BY <1>2, Run11Holds, Run12Holds
<1>3. CASE BeginFrame
  BY <1>3, BeginFrameHolds
<1>4. CASE \/ FailInitialize \/ FailPrepare \/ RefuseCamera \/ KeepContext
           \/ FailCreate \/ RejectDispatch
  BY <1>4, WalksHold
<1>5. CASE Initialize \/ CopyUnready
  BY <1>5, ReadyingsHold
<1>6. CASE Mismatch \/ ResizeBuffers \/ PreReset
  BY <1>6, LettingsGoHold
<1>7. CASE DestroyContext \/ LeakContext \/ CreateContext
  BY <1>7, ContextsHold
<1>8. CASE Prepare \/ EvaluateNvidia
  BY <1>8, PrepareHolds, EvaluateNvidiaHolds
<1>9. CASE Evaluate \/ FailRecording \/ FailEvaluate
  BY <1>9, EvaluateHolds, FailRecordingHolds, FailEvaluateHolds
<1>10. CASE CopyFrame \/ CopyUncaptured \/ Present
  BY <1>10, CopyFrameHolds, CopyUncapturedHolds, PresentHolds
<1> QED
  BY <1>1, <1>2, <1>3, <1>4, <1>5, <1>6, <1>7, <1>8, <1>9, <1>10 DEF Next

\* The invariant of the two queues, their fences and their textures: it holds
\* however far the queues lag behind the render thread, whichever calls
\* Direct3D refuses, and whenever the upscaler or SharedResources is replaced.
THEOREM WorkInvariant == Spec => []WorkInv
<1>1. Init => WorkInv
  BY InitHolds
<1>2. WorkInv /\ [Next]_vars => WorkInv'
  BY NextHolds
<1> QED
  BY <1>1, <1>2, PTL DEF Spec

\* A dispatch that D3D12 has not executed keeps its upscaler, its command slot
\* for itself, and the textures a resize or an ENB reset would let go
\* (acquire_slot, wait_for_idle, shutdown and pre_reset).
THEOREM InFlightAlwaysKept == Spec => []InFlightKept
<1>1. WorkInv => InFlightKept
  BY KeptLemma
<1> QED
  BY <1>1, WorkInvariant, PTL

\* A due dispatch reads the inputs of its own frame unless the exchange of the
\* upscaler and that of the bridge were both refused in it, and a generation
\* that is waited for reads what was copied for its own frame
\* (prepare_temporal_inputs, copy_frame and the bridge's Present).
THEOREM InputsNeverTorn == Spec => []InputsNotTorn
<1>1. WorkInv => InputsNotTorn
  BY InputsLemma
<1> QED
  BY <1>1, WorkInvariant, PTL

\* The upscaled image that D3D11 takes out of the shared output is the one that
\* was dispatched in the same frame (complete_upscaler_dispatch).
THEOREM OutputAlwaysFrame == Spec => []OutputIsFrame
<1>1. WorkInv => OutputIsFrame
  BY OutputLemma
<1> QED
  BY <1>1, WorkInvariant, PTL

=============================================================================
