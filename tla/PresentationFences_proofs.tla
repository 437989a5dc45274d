---------------------- MODULE PresentationFences_proofs ----------------------
(***************************************************************************)
(* Proofs about the exchange of frames between Direct3D 11 and Direct3D 12 *)
(* of PresentationFences, for any number of back buffers and any bound of  *)
(* the fence values: the game never draws into a frame that is being       *)
(* copied, no allocator is reset under the GPU, the frame resources are    *)
(* released only when both queues are done with them, and the queues never *)
(* wait for each other.                                                    *)
(*                                                                         *)
(* The argument is about the marks in the two queues, which are the        *)
(* signals and the waits: in each queue their values increase, every value *)
(* has one signaller, and a wait is never passed before its own signal,    *)
(* although a signal of the D3D12 queue may set the fence back.            *)
(***************************************************************************)
EXTENDS PresentationFences, SequenceTheorems, TLAPS

-----------------------------------------------------------------------------
(***************************************************************************)
(* Commands and queues.                                                    *)
(***************************************************************************)
LEMMA CommandFacts ==
    /\ Draw.op = "draw"
    /\ \A v : /\ Signal(v).op = "signal" /\ Signal(v).arg = v
              /\ Wait(v).op = "wait" /\ Wait(v).arg = v
              /\ Copy(v).op = "copy" /\ Copy(v).arg = v
              /\ LostCopy(v).op = "lost" /\ LostCopy(v).arg = v
BY DEF Draw, Signal, Wait, Copy, LostCopy

LEMMA CommandTypes ==
    /\ Draw \in Commands
    /\ \A v \in 1 .. MaxValue : Signal(v) \in Commands /\ Wait(v) \in Commands
    /\ \A i \in Indices : Copy(i) \in Commands /\ LostCopy(i) \in Commands
BY DEF Draw, Signal, Wait, Copy, LostCopy, Commands

LEMMA CommandKinds ==
    ASSUME NEW c \in Commands
    PROVE  /\ c.op \in {"draw", "signal", "wait", "copy", "lost"}
           /\ c.op = "draw" => c = Draw
           /\ c.op = "signal" => c = Signal(c.arg) /\ c.arg \in 1 .. MaxValue
           /\ c.op = "wait" => c = Wait(c.arg) /\ c.arg \in 1 .. MaxValue
           /\ c.op = "copy" => c = Copy(c.arg) /\ c.arg \in Indices
           /\ c.op = "lost" => c = LostCopy(c.arg) /\ c.arg \in Indices
<1>1. CASE c \in [op : {"draw"}, arg : {0}]
  BY <1>1 DEF Draw
<1>2. CASE c \in [op : {"signal", "wait"}, arg : 1 .. MaxValue]
  BY <1>2 DEF Signal, Wait
<1>3. CASE c \in [op : {"copy", "lost"}, arg : Indices]
  BY <1>3 DEF Copy, LostCopy
<1> QED
  BY <1>1, <1>2, <1>3 DEF Commands

Queues == Seq(Commands)

\* r is q with the command c behind it, which is at l.
Longer(q, r, c, l) ==
    /\ l \in Nat /\ l >= 1
    /\ DOMAIN r = DOMAIN q \cup {l}
    /\ r[l] = c
    /\ \A i \in DOMAIN q : i \in Nat /\ 1 <= i /\ i < l /\ r[i] = q[i]
    /\ l > 1 => l - 1 \in DOMAIN q

LEMMA AppendLemma ==
    ASSUME NEW q \in Queues, NEW c \in Commands
    PROVE  /\ Append(q, c) \in Queues
           /\ Longer(q, Append(q, c), c, Len(q) + 1)
<1>1. Len(q) \in Nat /\ DOMAIN q = 1 .. Len(q)
  BY DEF Queues
<1>2. Append(q, c) \in Queues /\ Len(Append(q, c)) = Len(q) + 1
  BY DEF Queues
<1>3. DOMAIN Append(q, c) = 1 .. Len(q) + 1
  BY <1>2 DEF Queues
<1>4. \A i \in 1 .. Len(q) : Append(q, c)[i] = q[i] /\ i < Len(q) + 1
  BY <1>1 DEF Queues
<1>5. Append(q, c)[Len(q) + 1] = c
  BY <1>1 DEF Queues
<1>6. 1 .. Len(q) + 1 = (1 .. Len(q)) \cup {Len(q) + 1}
  BY <1>1
<1>7. Len(q) + 1 > 1 => Len(q) + 1 - 1 \in DOMAIN q
  BY <1>1
<1> QED
  BY <1>1, <1>2, <1>3, <1>4, <1>5, <1>6, <1>7 DEF Longer

\* r is q without its head.
Shorter(q, r) ==
    /\ 1 \in DOMAIN q
    /\ \A i \in DOMAIN r : /\ i \in Nat /\ i >= 1
                           /\ i + 1 \in DOMAIN q /\ r[i] = q[i + 1]
    /\ \A i \in DOMAIN q : /\ i \in Nat /\ i >= 1
                           /\ i > 1 => i - 1 \in DOMAIN r /\ r[i - 1] = q[i]

LEMMA TailLemma ==
    ASSUME NEW q \in Queues, q # <<>>
    PROVE  /\ Tail(q) \in Queues
           /\ Shorter(q, Tail(q))
           /\ Head(q) = q[1] /\ q[1] \in Commands
<1>1. Len(q) \in Nat /\ DOMAIN q = 1 .. Len(q) /\ Len(q) > 0
  BY DEF Queues
<1>2. /\ Tail(q) \in Queues /\ Len(Tail(q)) = Len(q) - 1
      /\ Head(q) = q[1]
      /\ \A i \in 1 .. Len(Tail(q)) : Tail(q)[i] = q[i + 1]
  BY HeadTailProperties DEF Queues
<1>3. DOMAIN Tail(q) = 1 .. Len(q) - 1
  BY <1>1, <1>2 DEF Queues
<1>4. 1 \in DOMAIN q /\ q[1] \in Commands
  BY <1>1 DEF Queues
<1>5. \A i \in DOMAIN Tail(q) : /\ i \in Nat /\ i >= 1
                                /\ i + 1 \in DOMAIN q /\ Tail(q)[i] = q[i + 1]
  BY <1>1, <1>2, <1>3
<1>6. \A i \in DOMAIN q : /\ i \in Nat /\ i >= 1
                          /\ i > 1 => /\ i - 1 \in DOMAIN Tail(q)
                                      /\ Tail(q)[i - 1] = q[i]
  <2> TAKE i \in DOMAIN q
  <2>1. i \in Nat /\ i >= 1 /\ i <= Len(q)
    BY <1>1
  <2>2. ASSUME i > 1
        PROVE  i - 1 \in DOMAIN Tail(q) /\ Tail(q)[i - 1] = q[i]
    <3>1. i - 1 \in 1 .. Len(q) - 1
      BY <1>1, <2>1, <2>2
    <3>2. Tail(q)[i - 1] = q[(i - 1) + 1]
      BY <1>2, <1>3, <3>1
    <3> QED
      BY <1>3, <2>1, <3>1, <3>2
  <2> QED
    BY <2>1, <2>2
<1> QED
  BY <1>2, <1>4, <1>5, <1>6 DEF Shorter

\* Commands are appended one after the other.
LEMMA ConcatLemma ==
    ASSUME NEW q \in Queues, NEW a \in Commands
    PROVE  /\ q \o <<a>> = Append(q, a)
           /\ \A b \in Commands :
                 /\ q \o <<a, b>> = Append(Append(q, a), b)
                 /\ \A c \in Commands :
                       q \o <<a, b, c>> = Append(Append(Append(q, a), b), c)
<1>1. \A p \in Queues, x \in Commands : Append(p, x) = p \o <<x>>
                                        /\ p \o <<x>> \in Queues
  BY ConcatProperties, AppendIsConcat DEF Queues
<1>2. ASSUME NEW b \in Commands
      PROVE  q \o <<a, b>> = Append(Append(q, a), b)
  <2>1. <<a, b>> = <<a>> \o <<b>>
    OBVIOUS
  <2>2. (q \o <<a>>) \o <<b>> = q \o (<<a>> \o <<b>>)
    BY ConcatAssociative DEF Queues
  <2> QED
    BY <1>1, <2>1, <2>2
<1>3. ASSUME NEW b \in Commands, NEW c \in Commands
      PROVE  q \o <<a, b, c>> = Append(Append(Append(q, a), b), c)
  <2>1. <<a, b, c>> = <<a, b>> \o <<c>>
    OBVIOUS
  <2>2. (q \o <<a, b>>) \o <<c>> = q \o (<<a, b>> \o <<c>>)
    BY ConcatAssociative DEF Queues
  <2>3. q \o <<a, b>> \in Queues
    BY ConcatProperties DEF Queues
  <2> QED
    BY <1>1, <1>2, <2>1, <2>2, <2>3
<1> QED
  BY <1>1, <1>2, <1>3
-----------------------------------------------------------------------------
(***************************************************************************)
(* The exchange.  p is the D3D11 queue, q the D3D12 queue, f the value of  *)
(* the fence and n the next value to be handed out.                        *)
(***************************************************************************)
IsMark(c) == c.op \in {"signal", "wait"}

Sorted(q) ==
    \A i, j \in DOMAIN q :
        i < j /\ IsMark(q[i]) /\ IsMark(q[j]) => q[i].arg < q[j].arg

Within(q, n) == \A i \in DOMAIN q : IsMark(q[i]) => q[i].arg < n

Has(q, c) == \E i \in DOMAIN q : q[i] = c

\* The signals of a queue are still to come.
Ahead(q, f) == \A i \in DOMAIN q : q[i].op = "signal" => f < q[i].arg

\* What D3D11 waits for is not reached before D3D12 signals it.
Asked(p, q, f) ==
    \A v \in Nat : Has(p, Wait(v)) /\ Has(q, Signal(v)) => f < v

Apart(p, q) == \A v \in Nat : ~ (Has(p, Signal(v)) /\ Has(q, Signal(v)))

\* A value of D3D12 follows the wait for the value before it, directly as far
\* as marks go.
Paired(q, f) ==
    \A k \in DOMAIN q : q[k].op = "signal" =>
        \/ \E j \in DOMAIN q : j < k /\ q[j] = Wait(q[k].arg - 1)
        \/ /\ f >= q[k].arg - 1
           /\ \A j \in DOMAIN q : j < k => ~IsMark(q[j])

\* What D3D11 draws before the wait that ends a copy, it draws before the
\* signal that the copy still waits for.
DrawnBefore(p, m, v) ==
    \A d \in DOMAIN p : d < m /\ p[d] = Draw =>
        \E s \in DOMAIN p : d < s /\ p[s] = Signal(v)

NotDrawnBefore(p, m) == \A d \in DOMAIN p : d < m => p[d] # Draw

\* A copy lies between the wait for its drawing and its own signal, for which
\* D3D11 waits.
InTurns(p, q) ==
    \A k \in DOMAIN q : q[k].op = "copy" =>
        /\ k + 1 \in DOMAIN q
        /\ q[k + 1].op = "signal"
        /\ \E m \in DOMAIN p :
              /\ p[m] = Wait(q[k + 1].arg)
              /\ \/ NotDrawnBefore(p, m)
                 \/ /\ k - 1 \in DOMAIN q
                    /\ q[k - 1] = Wait(q[k + 1].arg - 1)
                    /\ DrawnBefore(p, m, q[k + 1].arg - 1)

Exchange(p, q, f, n) ==
    /\ Sorted(p) /\ Within(p, n)
    /\ Sorted(q) /\ Within(q, n)
    /\ f < n
    /\ Ahead(p, f)
    /\ Asked(p, q, f)
    /\ Apart(p, q)
    /\ Paired(q, f)
    /\ InTurns(p, q)

LEMMA Elements ==
    ASSUME NEW q \in Queues, NEW i \in DOMAIN q
    PROVE  /\ i \in Nat /\ i >= 1
           /\ q[i] \in Commands
           /\ IsMark(q[i]) => q[i].arg \in 1 .. MaxValue
           /\ q[i].op = "signal" => IsMark(q[i]) /\ q[i] = Signal(q[i].arg)
           /\ q[i].op = "wait" => IsMark(q[i]) /\ q[i] = Wait(q[i].arg)
           /\ IsMark(q[i]) => q[i].op # "draw"
           /\ Draw.op = "draw"
<1>1. i \in Nat /\ i >= 1 /\ q[i] \in Commands
  BY DEF Queues
<1> QED
  BY <1>1, CommandKinds, CommandFacts DEF IsMark

\* The mark at the head of a queue is less than every other.
LEMMA HeadIsLeast ==
    ASSUME NEW q \in Queues, Sorted(q), NEW r, Shorter(q, r), IsMark(q[1]),
           NEW i \in DOMAIN r, IsMark(r[i])
    PROVE  q[1].arg < r[i].arg
BY Elements DEF Sorted, Shorter

LEMMA ShorterKeeps ==
    ASSUME NEW q \in Queues, NEW r, Shorter(q, r), NEW n
    PROVE  /\ Sorted(q) => Sorted(r)
           /\ Within(q, n) => Within(r, n)
           /\ Ahead(q, n) => Ahead(r, n)
           /\ \A c : Has(r, c) => Has(q, c)
<1>1. ASSUME Sorted(q) PROVE Sorted(r)
  BY <1>1 DEF Sorted, Shorter
<1>2. ASSUME Within(q, n) PROVE Within(r, n)
  BY <1>2 DEF Within, Shorter
<1>3. ASSUME Ahead(q, n) PROVE Ahead(r, n)
  BY <1>3 DEF Ahead, Shorter
<1>4. \A c : Has(r, c) => Has(q, c)
  BY DEF Has, Shorter
<1> QED
  BY <1>1, <1>2, <1>3, <1>4

LEMMA Run11Exchange ==
    ASSUME NEW p \in Queues, NEW q \in Queues, NEW f \in Nat, NEW n \in Nat,
           Exchange(p, q, f, n),
           NEW r \in Queues, Shorter(p, r),
           p[1].op = "wait" => f >= p[1].arg,
           NEW g, g = IF p[1].op = "signal" THEN p[1].arg ELSE f
    PROVE  Exchange(r, q, g, n) /\ g \in Nat /\ f <= g
<1>1. /\ Sorted(p) /\ Within(p, n)
      /\ Sorted(q) /\ Within(q, n)
      /\ f < n /\ Ahead(p, f) /\ Asked(p, q, f) /\ Apart(p, q)
      /\ Paired(q, f) /\ InTurns(p, q)
  BY DEF Exchange
<1>2. 1 \in DOMAIN p
  BY DEF Shorter
<1>3. g \in Nat /\ f <= g /\ g < n
  <2>1. CASE p[1].op = "signal"
    BY <1>1, <1>2, <2>1, Elements DEF Ahead, Within
  <2>2. CASE p[1].op # "signal"
    BY <1>1, <2>2
  <2> QED
    BY <2>1, <2>2
<1>4. Sorted(r) /\ Within(r, n) /\ (\A c : Has(r, c) => Has(p, c))
  BY <1>1, ShorterKeeps
<1>5. Ahead(r, g)
  <2>1. CASE p[1].op = "signal"
    <3>1. \A i \in DOMAIN r : IsMark(r[i]) => p[1].arg < r[i].arg
      BY <1>1, <1>2, <2>1, Elements, HeadIsLeast
    <3> QED
      BY <2>1, <3>1, Elements DEF Ahead
  <2>2. CASE p[1].op # "signal"
    BY <1>1, <2>2, ShorterKeeps
  <2> QED
    BY <2>1, <2>2
<1>6. Asked(r, q, g)
  <2> SUFFICES ASSUME NEW v \in Nat, Has(r, Wait(v)), Has(q, Signal(v))
               PROVE  g < v
    BY DEF Asked
  <2>1. CASE p[1].op = "signal"
    <3>1. PICK i \in DOMAIN r : r[i] = Wait(v)
      BY DEF Has
    <3>2. IsMark(r[i]) /\ r[i].arg = v
      BY <3>1, CommandFacts DEF IsMark
    <3>3. IsMark(p[1])
      BY <2>1 DEF IsMark
    <3> QED
      BY <1>1, <2>1, <3>2, <3>3, HeadIsLeast
  <2>2. CASE p[1].op # "signal"
    BY <1>1, <1>4, <2>2 DEF Asked
  <2> QED
    BY <2>1, <2>2
<1>7. Apart(r, q)
  BY <1>1, <1>4 DEF Apart
<1>8. Paired(q, g)
  <2> SUFFICES ASSUME NEW k \in DOMAIN q, q[k].op = "signal",
                      f >= q[k].arg - 1
               PROVE  g >= q[k].arg - 1
    BY <1>1 DEF Paired
  <2> QED
    BY <1>3, Elements
<1>9. InTurns(r, q)
  <2> SUFFICES ASSUME NEW k \in DOMAIN q, q[k].op = "copy"
               PROVE  /\ k + 1 \in DOMAIN q
                      /\ q[k + 1].op = "signal"
                      /\ \E m \in DOMAIN r :
                            /\ r[m] = Wait(q[k + 1].arg)
                            /\ \/ NotDrawnBefore(r, m)
                               \/ /\ k - 1 \in DOMAIN q
                                  /\ q[k - 1] = Wait(q[k + 1].arg - 1)
                                  /\ DrawnBefore(r, m, q[k + 1].arg - 1)
    BY DEF InTurns
  <2>1. k + 1 \in DOMAIN q /\ q[k + 1].op = "signal"
    BY <1>1 DEF InTurns
  <2> DEFINE w == q[k + 1].arg
  <2>2. PICK m \in DOMAIN p :
            /\ p[m] = Wait(w)
            /\ \/ NotDrawnBefore(p, m)
               \/ /\ k - 1 \in DOMAIN q
                  /\ q[k - 1] = Wait(w - 1)
                  /\ DrawnBefore(p, m, w - 1)
    BY <1>1 DEF InTurns
  <2>3. w \in Nat /\ q[k + 1] = Signal(w)
    BY <2>1, Elements
  <2> HIDE DEF w
  <2>4. m # 1
    <3>1. f < w
      BY <1>1, <2>1, <2>2, <2>3 DEF Asked, Has
    <3>2. ASSUME m = 1 PROVE FALSE
      <4>1. p[1].op = "wait" /\ p[1].arg = w
        BY <2>2, <3>2, CommandFacts
      <4> QED
        BY <2>3, <3>1, <4>1
    <3> QED
      BY <3>2
  <2>5. m - 1 \in DOMAIN r /\ r[m - 1] = p[m] /\ m \in Nat
    BY <2>4 DEF Shorter
  <2>6. ASSUME NotDrawnBefore(p, m) PROVE NotDrawnBefore(r, m - 1)
    BY <2>5, <2>6 DEF NotDrawnBefore, Shorter
  <2>7. ASSUME DrawnBefore(p, m, w - 1) PROVE DrawnBefore(r, m - 1, w - 1)
    <3> SUFFICES ASSUME NEW d \in DOMAIN r, d < m - 1, r[d] = Draw
                 PROVE  \E s \in DOMAIN r : d < s /\ r[s] = Signal(w - 1)
      BY DEF DrawnBefore
    <3>1. d \in Nat /\ d + 1 \in DOMAIN p /\ d + 1 < m /\ p[d + 1] = Draw
      BY <2>5 DEF Shorter
    <3>2. PICK s \in DOMAIN p : d + 1 < s /\ p[s] = Signal(w - 1)
      BY <2>7, <3>1 DEF DrawnBefore
    <3>3. s - 1 \in DOMAIN r /\ r[s - 1] = p[s] /\ d < s - 1
      BY <3>1, <3>2 DEF Shorter
    <3> QED
      BY <3>2, <3>3
  <2> QED
    BY <2>1, <2>2, <2>5, <2>6, <2>7 DEF w
<1> QED
  BY <1>1, <1>3, <1>4, <1>5, <1>6, <1>7, <1>8, <1>9 DEF Exchange

LEMMA Run12Exchange ==
    ASSUME NEW p \in Queues, NEW q \in Queues, NEW f \in Nat, NEW n \in Nat,
           Exchange(p, q, f, n),
           NEW r \in Queues, Shorter(q, r),
           q[1].op = "wait" => f >= q[1].arg,
           NEW g, g = IF q[1].op = "signal" THEN q[1].arg ELSE f
    PROVE  Exchange(p, r, g, n) /\ g \in Nat
<1>1. /\ Sorted(p) /\ Within(p, n)
      /\ Sorted(q) /\ Within(q, n)
      /\ f < n /\ Ahead(p, f) /\ Asked(p, q, f) /\ Apart(p, q)
      /\ Paired(q, f) /\ InTurns(p, q)
  BY DEF Exchange
<1>2. 1 \in DOMAIN q
  BY DEF Shorter
<1>3. g \in Nat /\ g < n
  <2>1. CASE q[1].op = "signal"
    BY <1>1, <1>2, <2>1, Elements DEF Within
  <2>2. CASE q[1].op # "signal"
    BY <1>1, <2>2
  <2> QED
    BY <2>1, <2>2
<1>4. Sorted(r) /\ Within(r, n) /\ (\A c : Has(r, c) => Has(q, c))
  BY <1>1, ShorterKeeps
<1>5. Ahead(p, g)
  <2>1. CASE q[1].op = "signal"
    <3> DEFINE w == q[1].arg
    <3>1. w \in Nat /\ q[1] = Signal(w) /\ g = w
      BY <1>2, <2>1, Elements
    <3>2. \A j \in DOMAIN q : ~(j < 1)
      BY Elements
    <3>3. f >= w - 1
      BY <1>1, <1>2, <2>1, <3>2 DEF Paired
    <3> HIDE DEF w
    <3> SUFFICES ASSUME NEW i \in DOMAIN p, p[i].op = "signal"
                 PROVE  w < p[i].arg
      BY <3>1 DEF Ahead
    <3>4. p[i].arg \in Nat /\ p[i] = Signal(p[i].arg) /\ f < p[i].arg
      BY <1>1, Elements DEF Ahead
    <3>5. p[i].arg # w
      BY <1>1, <1>2, <3>1, <3>4 DEF Apart, Has
    <3> QED
      BY <3>1, <3>3, <3>4, <3>5
  <2>2. CASE q[1].op # "signal"
    BY <1>1, <2>2
  <2> QED
    BY <2>1, <2>2
<1>6. Asked(p, r, g)
  <2> SUFFICES ASSUME NEW v \in Nat, Has(p, Wait(v)), Has(r, Signal(v))
               PROVE  g < v
    BY DEF Asked
  <2>1. CASE q[1].op = "signal"
    <3>1. PICK i \in DOMAIN r : r[i] = Signal(v)
      BY DEF Has
    <3>2. IsMark(r[i]) /\ r[i].arg = v
      BY <3>1, CommandFacts DEF IsMark
    <3>3. IsMark(q[1])
      BY <2>1 DEF IsMark
    <3> QED
      BY <1>1, <2>1, <3>2, <3>3, HeadIsLeast
  <2>2. CASE q[1].op # "signal"
    BY <1>1, <1>4, <2>2 DEF Asked
  <2> QED
    BY <2>1, <2>2
<1>7. Apart(p, r)
  BY <1>1, <1>4 DEF Apart
<1>8. Paired(r, g)
  <2> SUFFICES ASSUME NEW k \in DOMAIN r, r[k].op = "signal"
               PROVE  \/ \E j \in DOMAIN r : j < k /\ r[j] = Wait(r[k].arg - 1)
                      \/ /\ g >= r[k].arg - 1
                         /\ \A j \in DOMAIN r : j < k => ~IsMark(r[j])
    BY DEF Paired
  <2> DEFINE w == r[k].arg
  <2>1. k \in Nat /\ k + 1 \in DOMAIN q /\ q[k + 1] = r[k] /\ k + 1 > 1
    BY DEF Shorter
  <2>2. w \in Nat /\ IsMark(r[k])
    BY Elements
  <2>3. \/ \E j \in DOMAIN q : j < k + 1 /\ q[j] = Wait(w - 1)
        \/ /\ f >= w - 1
           /\ \A j \in DOMAIN q : j < k + 1 => ~IsMark(q[j])
    BY <1>1, <2>1 DEF Paired
  <2> HIDE DEF w
  <2>4. CASE \E j \in DOMAIN q : j < k + 1 /\ q[j] = Wait(w - 1)
    <3>1. PICK j \in DOMAIN q : j < k + 1 /\ q[j] = Wait(w - 1)
      BY <2>4
    <3>2. j \in Nat /\ j >= 1
      BY Elements
    <3>3. CASE j > 1
      <4>1. j - 1 \in DOMAIN r /\ r[j - 1] = Wait(w - 1) /\ j - 1 < k
        BY <2>1, <3>1, <3>2, <3>3 DEF Shorter
      <4> QED
        BY <4>1 DEF w
    <3>4. CASE j = 1
      <4>1. q[1].op = "wait" /\ q[1].arg = w - 1 /\ IsMark(q[1])
        BY <3>1, <3>4, CommandFacts DEF IsMark
      <4>2. g >= w - 1
        BY <2>2, <4>1
      <4>3. ASSUME NEW i \in DOMAIN r, i < k, IsMark(r[i])
            PROVE  FALSE
        <5>1. w - 1 < r[i].arg
          BY <1>1, <4>1, <4>3, HeadIsLeast
        <5>2. r[i].arg < w
          BY <1>4, <2>2, <4>3 DEF Sorted, w
        <5>3. r[i].arg \in Nat
          BY <4>3, Elements
        <5> QED
          BY <2>2, <5>1, <5>2, <5>3
      <4> QED
        BY <4>2, <4>3 DEF w
    <3> QED
      BY <3>2, <3>3, <3>4
  <2>5. CASE /\ f >= w - 1
             /\ \A j \in DOMAIN q : j < k + 1 => ~IsMark(q[j])
    <3>1. ~IsMark(q[1])
      BY <1>2, <2>1, <2>5
    <3>2. g = f
      BY <3>1 DEF IsMark
    <3>3. \A j \in DOMAIN r : j < k => ~IsMark(r[j])
      BY <2>1, <2>5 DEF Shorter
    <3> QED
      BY <2>5, <3>2, <3>3 DEF w
  <2> QED
    BY <2>3, <2>4, <2>5
<1>9. InTurns(p, r)
  <2> SUFFICES ASSUME NEW k \in DOMAIN r, r[k].op = "copy"
               PROVE  /\ k + 1 \in DOMAIN r
                      /\ r[k + 1].op = "signal"
                      /\ \E m \in DOMAIN p :
                            /\ p[m] = Wait(r[k + 1].arg)
                            /\ \/ NotDrawnBefore(p, m)
                               \/ /\ k - 1 \in DOMAIN r
                                  /\ r[k - 1] = Wait(r[k + 1].arg - 1)
                                  /\ DrawnBefore(p, m, r[k + 1].arg - 1)
    BY DEF InTurns
  <2> DEFINE h == k + 1
             w == q[h + 1].arg
  <2>1. k \in Nat /\ k >= 1 /\ h \in DOMAIN q /\ q[h] = r[k]
        /\ q[h].op = "copy"
    BY DEF Shorter
  <2>2. /\ h + 1 \in DOMAIN q
        /\ q[h + 1].op = "signal"
        /\ \E m \in DOMAIN p :
              /\ p[m] = Wait(w)
              /\ \/ NotDrawnBefore(p, m)
                 \/ /\ h - 1 \in DOMAIN q
                    /\ q[h - 1] = Wait(w - 1)
                    /\ DrawnBefore(p, m, w - 1)
    BY <1>1, <2>1 DEF InTurns
  <2>3. k + 1 \in DOMAIN r /\ r[k + 1] = q[h + 1]
    <3>1. h + 1 > 1 /\ (h + 1) - 1 = k + 1
      BY <2>1
    <3> QED
      BY <2>2, <3>1 DEF Shorter
  <2>4. PICK m \in DOMAIN p :
            /\ p[m] = Wait(w)
            /\ \/ NotDrawnBefore(p, m)
               \/ /\ k \in DOMAIN q
                  /\ q[k] = Wait(w - 1)
                  /\ DrawnBefore(p, m, w - 1)
    <3>1. h - 1 = k
      BY <2>1
    <3> QED
      BY <2>2, <3>1
  <2>5. w \in Nat
    BY <2>2, Elements
  <2>6. ASSUME k = 1, q[k] = Wait(w - 1), DrawnBefore(p, m, w - 1)
        PROVE  NotDrawnBefore(p, m)
    <3>1. f >= w - 1
      BY <2>6, CommandFacts
    <3>2. \A s \in DOMAIN p : p[s] # Signal(w - 1)
      <4> SUFFICES ASSUME NEW s \in DOMAIN p, p[s] = Signal(w - 1)
                   PROVE  FALSE
        OBVIOUS
      <4>1. p[s].op = "signal" /\ p[s].arg = w - 1
        BY CommandFacts
      <4>2. f < w - 1
        BY <1>1, <4>1 DEF Ahead
      <4> QED
        BY <2>5, <3>1, <4>2
    <3> QED
      BY <2>6, <3>2 DEF DrawnBefore, NotDrawnBefore
  <2>7. k > 1 => (k \in DOMAIN q => k - 1 \in DOMAIN r /\ r[k - 1] = q[k])
    BY DEF Shorter
  <2>8. r[k + 1].arg = w /\ r[k + 1].op = "signal"
    BY <2>2, <2>3
  <2> HIDE DEF w, h
  <2> QED
    BY <2>1, <2>3, <2>4, <2>6, <2>7, <2>8
<1> QED
  BY <1>1, <1>3, <1>4, <1>5, <1>6, <1>7, <1>8, <1>9 DEF Exchange

-----------------------------------------------------------------------------
(***************************************************************************)
(* What the render thread appends, command by command.                     *)
(***************************************************************************)
LEMMA LongerKeeps ==
    ASSUME NEW q \in Queues, NEW c \in Commands, NEW r \in Queues, NEW l,
           Longer(q, r, c, l), NEW n \in Nat, NEW k \in Nat, n <= k,
           Sorted(q), Within(q, n),
           IsMark(c) => c.arg = n /\ n < k
    PROVE  /\ Sorted(r) /\ Within(r, k)
           /\ \A x : Has(r, x) <=> Has(q, x) \/ x = c
<1>1. \A i \in DOMAIN q : IsMark(q[i]) => q[i].arg \in Nat /\ q[i].arg < n
  BY Elements DEF Within
<1>2. Sorted(r)
  <2> SUFFICES ASSUME NEW i \in DOMAIN r, NEW j \in DOMAIN r,
                      i < j, IsMark(r[i]), IsMark(r[j])
               PROVE  r[i].arg < r[j].arg
    BY DEF Sorted
  <2>1. i \in DOMAIN q
    BY DEF Longer
  <2>2. CASE j \in DOMAIN q
    BY <2>1, <2>2 DEF Longer, Sorted
  <2>3. CASE j = l
    BY <1>1, <2>1, <2>3 DEF Longer
  <2> QED
    BY <2>2, <2>3 DEF Longer
<1>3. Within(r, k)
  BY <1>1 DEF Within, Longer
<1>4. \A x : Has(r, x) <=> Has(q, x) \/ x = c
  BY DEF Has, Longer
<1> QED
  BY <1>2, <1>3, <1>4

\* The values handed out may be skipped.
LEMMA ExchangeSkips ==
    ASSUME NEW p \in Queues, NEW q \in Queues, NEW f \in Nat, NEW n \in Nat,
           Exchange(p, q, f, n), NEW k \in Nat, n <= k
    PROVE  Exchange(p, q, f, k)
<1>1. Within(p, k) /\ Within(q, k) /\ f < k
  BY Elements DEF Exchange, Within
<1> QED
  BY <1>1 DEF Exchange

LEMMA Append11 ==
    ASSUME NEW p \in Queues, NEW q \in Queues, NEW f \in Nat, NEW n \in Nat,
           Exchange(p, q, f, n), NEW c \in Commands, NEW k \in Nat,
           \/ c = Draw /\ k = n
           \/ (c = Signal(n) \/ c = Wait(n)) /\ k = n + 1,
           NEW r \in Queues, NEW l, Longer(p, r, c, l)
    PROVE  Exchange(r, q, f, k)
<1>1. /\ Sorted(p) /\ Within(p, n)
      /\ Sorted(q) /\ Within(q, n)
      /\ f < n /\ Ahead(p, f) /\ Asked(p, q, f) /\ Apart(p, q)
      /\ Paired(q, f) /\ InTurns(p, q)
  BY DEF Exchange
<1>2. n <= k /\ f < k /\ (IsMark(c) => c.arg = n /\ n < k)
  BY <1>1, CommandFacts DEF IsMark
<1>3. /\ Sorted(r) /\ Within(r, k)
      /\ \A x : Has(r, x) <=> Has(p, x) \/ x = c
  BY <1>1, <1>2, LongerKeeps
<1>4. Within(q, k)
  BY <1>1, <1>2, Elements DEF Within
<1>5. ~Has(q, Signal(n))
  <2> SUFFICES ASSUME NEW i \in DOMAIN q, q[i] = Signal(n) PROVE FALSE
    BY DEF Has
  <2>1. IsMark(q[i]) /\ q[i].arg = n
    BY CommandFacts DEF IsMark
  <2> QED
    BY <1>1, <2>1 DEF Within
<1>6. \A v : /\ Signal(v) = c => v = n
             /\ Wait(v) = c => v = n
  BY CommandFacts
<1>7. Ahead(r, f)
  BY <1>1, CommandFacts DEF Ahead, Longer
<1>8. Asked(r, q, f) /\ Apart(r, q)
  BY <1>1, <1>3, <1>5, <1>6 DEF Asked, Apart
<1>9. InTurns(r, q)
  <2>1. ASSUME NEW m \in DOMAIN p
        PROVE  /\ m \in DOMAIN r /\ r[m] = p[m]
               /\ NotDrawnBefore(p, m) => NotDrawnBefore(r, m)
               /\ \A v : DrawnBefore(p, m, v) => DrawnBefore(r, m, v)
    <3>1. \A i \in DOMAIN p : i \in DOMAIN r /\ r[i] = p[i]
      BY DEF Longer
    <3>2. \A i \in DOMAIN r : i < m => i \in DOMAIN p
      BY <2>1 DEF Longer
    <3>3. NotDrawnBefore(p, m) => NotDrawnBefore(r, m)
      BY <3>1, <3>2 DEF NotDrawnBefore
    <3>4. \A v : DrawnBefore(p, m, v) => DrawnBefore(r, m, v)
      BY <3>1, <3>2 DEF DrawnBefore
    <3> QED
      BY <2>1, <3>1, <3>3, <3>4
  <2> QED
    BY <1>1, <2>1 DEF InTurns
<1> QED
  BY <1>1, <1>2, <1>3, <1>4, <1>7, <1>8, <1>9 DEF Exchange

\* A queue of D3D12 that is grown, for as long as the copy it may end with has
\* no signal yet.
Grows(p, q, f, n) ==
    /\ Sorted(p) /\ Within(p, n)
    /\ Sorted(q)
    /\ f < n
    /\ Ahead(p, f) /\ Asked(p, q, f) /\ Apart(p, q) /\ Paired(q, f)

LEMMA Append12 ==
    ASSUME NEW p \in Queues, NEW q \in Queues, NEW f \in Nat, NEW n \in Nat,
           Grows(p, q, f, n), NEW m \in Nat, Within(q, m),
           NEW c \in Commands, NEW k \in Nat, m <= k,
           IsMark(c) => c.arg = m /\ m < k,
           c.op = "signal" => /\ f < m
                              /\ Has(q, Wait(m - 1))
                              /\ ~Has(p, Signal(m)),
           NEW r \in Queues, NEW l, Longer(q, r, c, l)
    PROVE  Grows(p, r, f, n) /\ Within(r, k)
<1>1. /\ Sorted(p) /\ Within(p, n) /\ Sorted(q)
      /\ f < n /\ Ahead(p, f) /\ Asked(p, q, f) /\ Apart(p, q)
      /\ Paired(q, f)
  BY DEF Grows
<1>2. /\ Sorted(r) /\ Within(r, k)
      /\ \A x : Has(r, x) <=> Has(q, x) \/ x = c
  BY <1>1, LongerKeeps
<1>3. \A v : Signal(v) = c => c.op = "signal" /\ v = m
  BY CommandFacts DEF IsMark
<1>4. Asked(p, r, f) /\ Apart(p, r)
  BY <1>1, <1>2, <1>3 DEF Asked, Apart
<1>5. Paired(r, f)
  <2> SUFFICES ASSUME NEW i \in DOMAIN r, r[i].op = "signal"
               PROVE  \/ \E j \in DOMAIN r : j < i /\ r[j] = Wait(r[i].arg - 1)
                      \/ /\ f >= r[i].arg - 1
                         /\ \A j \in DOMAIN r : j < i => ~IsMark(r[j])
    BY DEF Paired
  <2>1. CASE i \in DOMAIN q
    <3>1. r[i] = q[i] /\ i < l
      BY <2>1 DEF Longer
    <3>2. \A j \in DOMAIN r : j < i => j \in DOMAIN q /\ r[j] = q[j]
      BY <2>1 DEF Longer
    <3>3. \A j \in DOMAIN q : j \in DOMAIN r /\ r[j] = q[j]
      BY DEF Longer
    <3> QED
      BY <1>1, <2>1, <3>1, <3>2, <3>3 DEF Paired
  <2>2. CASE i = l
    <3>1. r[i] = c /\ c.op = "signal" /\ c.arg = m
      BY <2>2 DEF Longer, IsMark
    <3>2. PICK j \in DOMAIN q : q[j] = Wait(m - 1)
      BY <3>1 DEF Has
    <3>3. j \in DOMAIN r /\ r[j] = Wait(m - 1) /\ j < i
      BY <2>2, <3>2 DEF Longer
    <3> QED
      BY <3>1, <3>3
  <2> QED
    BY <2>1, <2>2 DEF Longer
<1> QED
  BY <1>1, <1>2, <1>4, <1>5 DEF Grows

\* What is behind a copy and its signal does not matter to them.
LEMMA InTurnsBehind ==
    ASSUME NEW p, NEW q \in Queues, InTurns(p, q),
           NEW c, c.op # "copy", NEW r, NEW l, Longer(q, r, c, l)
    PROVE  InTurns(p, r)
<1> SUFFICES ASSUME NEW k \in DOMAIN r, r[k].op = "copy"
             PROVE  /\ k + 1 \in DOMAIN r
                    /\ r[k + 1].op = "signal"
                    /\ \E m \in DOMAIN p :
                          /\ p[m] = Wait(r[k + 1].arg)
                          /\ \/ NotDrawnBefore(p, m)
                             \/ /\ k - 1 \in DOMAIN r
                                /\ r[k - 1] = Wait(r[k + 1].arg - 1)
                                /\ DrawnBefore(p, m, r[k + 1].arg - 1)
  BY DEF InTurns
<1>1. k \in DOMAIN q /\ q[k].op = "copy"
  BY DEF Longer
<1>2. \A i \in DOMAIN q : i \in DOMAIN r /\ r[i] = q[i]
  BY DEF Longer
<1>3. /\ k + 1 \in DOMAIN q
      /\ q[k + 1].op = "signal"
      /\ \E m \in DOMAIN p :
            /\ p[m] = Wait(q[k + 1].arg)
            /\ \/ NotDrawnBefore(p, m)
               \/ /\ k - 1 \in DOMAIN q
                  /\ q[k - 1] = Wait(q[k + 1].arg - 1)
                  /\ DrawnBefore(p, m, q[k + 1].arg - 1)
  BY <1>1 DEF InTurns
<1> QED
  BY <1>2, <1>3

\* A copy comes with the wait for its drawing before it and its signal behind.
LEMMA InTurnsCopy ==
    ASSUME NEW p \in Queues, NEW q \in Queues, InTurns(p, q),
           NEW s \in Queues, NEW l, NEW i, Longer(q, s, Copy(i), l),
           NEW r \in Queues, NEW v \in Nat, Longer(s, r, Signal(v), l + 1),
           l - 1 \in DOMAIN q, q[l - 1] = Wait(v - 1),
           NEW m \in DOMAIN p, p[m] = Wait(v), DrawnBefore(p, m, v - 1)
    PROVE  InTurns(p, r)
<1> SUFFICES ASSUME NEW k \in DOMAIN r, r[k].op = "copy"
             PROVE  /\ k + 1 \in DOMAIN r
                    /\ r[k + 1].op = "signal"
                    /\ \E h \in DOMAIN p :
                          /\ p[h] = Wait(r[k + 1].arg)
                          /\ \/ NotDrawnBefore(p, h)
                             \/ /\ k - 1 \in DOMAIN r
                                /\ r[k - 1] = Wait(r[k + 1].arg - 1)
                                /\ DrawnBefore(p, h, r[k + 1].arg - 1)
  BY DEF InTurns
<1>1. \A j \in DOMAIN q : j \in DOMAIN r /\ r[j] = q[j]
  BY DEF Longer
<1>2. r[l + 1].op = "signal" /\ r[l + 1].arg = v /\ l + 1 \in DOMAIN r
  BY CommandFacts DEF Longer
<1>3. k \in DOMAIN q \/ k = l
  BY <1>2 DEF Longer
<1>4. CASE k \in DOMAIN q
  <2>1. q[k].op = "copy"
    BY <1>1, <1>4
  <2>2. /\ k + 1 \in DOMAIN q
        /\ q[k + 1].op = "signal"
        /\ \E h \in DOMAIN p :
              /\ p[h] = Wait(q[k + 1].arg)
              /\ \/ NotDrawnBefore(p, h)
                 \/ /\ k - 1 \in DOMAIN q
                    /\ q[k - 1] = Wait(q[k + 1].arg - 1)
                    /\ DrawnBefore(p, h, q[k + 1].arg - 1)
    BY <1>4, <2>1 DEF InTurns
  <2> QED
    BY <1>1, <2>2
<1>5. CASE k = l
  BY <1>1, <1>2, <1>5
<1> QED
  BY <1>3, <1>4, <1>5

-----------------------------------------------------------------------------
(***************************************************************************)
(* The rest of a frame, and of an idle wait.                               *)
(***************************************************************************)

\* The D3D11 queue gets a signal, or nothing; or is drawn into.
LEMMA DrawnExchange ==
    ASSUME NEW p \in Queues, NEW q \in Queues, NEW f \in Nat, NEW n \in Nat,
           Exchange(p, q, f, n)
    PROVE  Drawn(p) \in Queues /\ Exchange(Drawn(p), q, f, n)
<1>1. CASE Drawn(p) = p
  BY <1>1
<1>2. CASE Drawn(p) = Append(p, Draw)
  <2>1. Draw \in Commands
    BY CommandTypes
  <2>2. /\ Append(p, Draw) \in Queues
        /\ Longer(p, Append(p, Draw), Draw, Len(p) + 1)
    BY <2>1, AppendLemma
  <2> QED
    BY <1>2, <2>1, <2>2, Append11
<1> QED
  BY <1>1, <1>2 DEF Drawn

LEMMA Signal11Exchange ==
    ASSUME NEW p \in Queues, NEW q \in Queues, NEW f \in Nat,
           NEW n \in 1 .. MaxValue, Exchange(p, q, f, n)
    PROVE  LET a == Append(p, Signal(n))
           IN  /\ a \in Queues /\ Longer(p, a, Signal(n), Len(p) + 1)
               /\ Exchange(a, q, f, n + 1)
<1> DEFINE a == Append(p, Signal(n))
<1>1. Signal(n) \in Commands
  BY CommandTypes
<1>2. a \in Queues /\ Longer(p, a, Signal(n), Len(p) + 1)
  BY <1>1, AppendLemma
<1> HIDE DEF a
<1>3. Exchange(a, q, f, n + 1)
  BY <1>1, <1>2, Append11
<1> QED
  BY <1>2, <1>3 DEF a

\* It waits for the answer, too.
LEMMA Turn11Exchange ==
    ASSUME NEW p \in Queues, NEW q \in Queues, NEW f \in Nat,
           NEW n \in 1 .. MaxValue, n + 1 <= MaxValue, Exchange(p, q, f, n)
    PROVE  LET a == Append(p, Signal(n))
               b == Append(a, Wait(n + 1))
           IN  /\ p \o <<Signal(n), Wait(n + 1)>> = b
               /\ a \in Queues /\ Longer(p, a, Signal(n), Len(p) + 1)
               /\ b \in Queues /\ Longer(a, b, Wait(n + 1), Len(a) + 1)
               /\ Len(a) = Len(p) + 1
               /\ Exchange(b, q, f, n + 2)
<1> DEFINE a == Append(p, Signal(n))
           b == Append(a, Wait(n + 1))
<1>1. Signal(n) \in Commands /\ Wait(n + 1) \in Commands /\ n + 1 \in Nat
      /\ n \in Nat /\ n + 2 \in Nat /\ (n + 1) + 1 = n + 2
  BY CommandTypes
<1>2. p \o <<Signal(n), Wait(n + 1)>> = b
  BY <1>1, ConcatLemma
<1>3. Len(a) = Len(p) + 1
  BY <1>1 DEF Queues
<1>4. /\ a \in Queues /\ Longer(p, a, Signal(n), Len(p) + 1)
      /\ Exchange(a, q, f, n + 1)
  BY Signal11Exchange
<1> HIDE DEF a
<1>5. b \in Queues /\ Longer(a, b, Wait(n + 1), Len(a) + 1)
  BY <1>1, <1>4, AppendLemma
<1> HIDE DEF b
<1>6. Exchange(b, q, f, n + 2)
  BY <1>1, <1>4, <1>5, Append11
<1> QED
  BY <1>2, <1>3, <1>4, <1>5, <1>6 DEF a, b

LEMMA GrowsExchange ==
    ASSUME NEW p, NEW q, NEW f, NEW n
    PROVE  /\ Exchange(p, q, f, n) =>
                  Grows(p, q, f, n) /\ InTurns(p, q) /\ Within(q, n)
           /\ Grows(p, q, f, n) /\ InTurns(p, q) /\ Within(q, n) =>
                  Exchange(p, q, f, n)
BY DEF Grows, Exchange

\* D3D12 is made to wait for what was drawn.
LEMMA Wait12Exchange ==
    ASSUME NEW p \in Queues, NEW q \in Queues, NEW f \in Nat, NEW n \in Nat,
           Exchange(p, q, f, n), NEW m \in 1 .. MaxValue, m < n, Within(q, m)
    PROVE  LET a == Append(q, Wait(m))
           IN  /\ a \in Queues /\ Longer(q, a, Wait(m), Len(q) + 1)
               /\ Within(a, m + 1)
               /\ Exchange(p, a, f, n)
<1> DEFINE a == Append(q, Wait(m))
<1>1. /\ Wait(m) \in Commands /\ Wait(m).op = "wait" /\ Wait(m).arg = m
      /\ m \in Nat /\ m + 1 \in Nat
  BY CommandTypes, CommandFacts
<1>2. a \in Queues /\ Longer(q, a, Wait(m), Len(q) + 1)
  BY <1>1, AppendLemma
<1> HIDE DEF a
<1>3. Grows(p, a, f, n) /\ Within(a, m + 1)
  BY <1>1, <1>2, Append12, GrowsExchange
<1>4. InTurns(p, a)
  BY <1>1, <1>2, InTurnsBehind, GrowsExchange
<1>5. Within(a, n)
  BY <1>1, <1>2, <1>3, Elements DEF Within
<1> QED
  BY <1>2, <1>3, <1>4, <1>5, GrowsExchange DEF a

\* A copy that nobody will see is answered for by nobody.
LEMMA Lost12Exchange ==
    ASSUME NEW p \in Queues, NEW q \in Queues, NEW f \in Nat, NEW n \in Nat,
           Exchange(p, q, f, n), NEW m \in Nat, Within(q, m), NEW i \in Indices
    PROVE  LET a == Append(q, LostCopy(i))
           IN  /\ a \in Queues /\ Longer(q, a, LostCopy(i), Len(q) + 1)
               /\ Within(a, m)
               /\ Exchange(p, a, f, n)
<1> DEFINE a == Append(q, LostCopy(i))
<1>1. LostCopy(i) \in Commands /\ LostCopy(i).op = "lost"
  BY CommandTypes, CommandFacts
<1>2. a \in Queues /\ Longer(q, a, LostCopy(i), Len(q) + 1)
  BY <1>1, AppendLemma
<1> HIDE DEF a
<1>3. Grows(p, a, f, n) /\ Within(a, m)
  BY <1>1, <1>2, Append12, GrowsExchange DEF IsMark
<1>4. InTurns(p, a)
  BY <1>1, <1>2, InTurnsBehind, GrowsExchange
<1>5. Within(a, n)
  BY <1>1, <1>2, Append12, GrowsExchange DEF IsMark
<1> QED
  BY <1>2, <1>3, <1>4, <1>5, GrowsExchange DEF a

\* A copy is answered for by what follows it.
LEMMA Copy12Grows ==
    ASSUME NEW p \in Queues, NEW q \in Queues, NEW f \in Nat, NEW n \in Nat,
           Grows(p, q, f, n), NEW m \in Nat, Within(q, m), NEW i \in Indices,
           NEW r \in Queues, NEW l, Longer(q, r, Copy(i), l)
    PROVE  Grows(p, r, f, n) /\ Within(r, m)
<1>1. /\ Copy(i) \in Commands /\ ~IsMark(Copy(i))
      /\ Copy(i).op # "signal" /\ m <= m
  BY CommandTypes, CommandFacts DEF IsMark
<1> QED
  BY <1>1, Append12

\* D3D12 answers.
LEMMA Signal12Exchange ==
    ASSUME NEW p \in Queues, NEW q \in Queues, NEW f \in Nat, NEW n \in Nat,
           Exchange(p, q, f, n), NEW m \in 1 .. MaxValue, m < n, Within(q, m),
           f < m, Has(q, Wait(m - 1)), ~Has(p, Signal(m))
    PROVE  LET a == Append(q, Signal(m))
           IN  /\ a \in Queues /\ Longer(q, a, Signal(m), Len(q) + 1)
               /\ Exchange(p, a, f, n)
<1> DEFINE a == Append(q, Signal(m))
<1>1. /\ Signal(m) \in Commands /\ Signal(m).op = "signal"
      /\ Signal(m).arg = m /\ m \in Nat /\ m + 1 \in Nat
  BY CommandTypes, CommandFacts
<1>2. a \in Queues /\ Longer(q, a, Signal(m), Len(q) + 1)
  BY <1>1, AppendLemma
<1> HIDE DEF a
<1>3. Grows(p, a, f, n) /\ Within(a, n)
  BY <1>1, <1>2, Append12, GrowsExchange
<1>4. InTurns(p, a)
  BY <1>1, <1>2, InTurnsBehind, GrowsExchange
<1> QED
  BY <1>2, <1>3, <1>4, GrowsExchange DEF a

-----------------------------------------------------------------------------
(***************************************************************************)
(* Types.  A frame begins only with room for its values, and an allocator  *)
(* is marked with a value that was handed out.                             *)
(***************************************************************************)
Room ==
    /\ phase \in {"acquiring", "acquired"} => next + 2 <= MaxValue
    /\ phase \in {"queued", "idling"} => next > 2
    /\ \A i \in Indices : used[i] < next

Typed == TypeOK /\ Room

\* The steps that execute a command, and those that append some.
GPU == Run11 \/ Run12

LEMMA TypedFacts ==
    ASSUME TypeOK
    PROVE  /\ fence \in Nat /\ next \in Nat /\ next >= 1
           /\ q11 \in Queues /\ q12 \in Queues
           /\ index \in Indices /\ used[index] \in 0 .. MaxValue
           /\ MaxValue \in Nat /\ Buffers \in Nat /\ Buffers >= 2
BY MaxValueAssumption, BuffersAssumption DEF TypeOK, Queues

LEMMA InitTyped == Init => Typed
<1> SUFFICES ASSUME Init PROVE Typed
  OBVIOUS
<1>1. <<>> \in Seq(Commands)
  OBVIOUS
<1>2. 0 \in 0 .. MaxValue /\ 1 \in 1 .. MaxValue + 1 /\ 1 \in Indices
  BY MaxValueAssumption, BuffersAssumption DEF Indices
<1>3. used \in [Indices -> 0 .. MaxValue] /\ \A i \in Indices : used[i] < next
  BY <1>2 DEF Init
<1>4. TypeOK
  BY <1>1, <1>2, <1>3 DEF Init, TypeOK, Phases
<1> QED
  BY <1>3, <1>4 DEF Init, Typed, Room

LEMMA ExecuteTyped ==
    ASSUME TypeOK, NEW c \in Commands, Execute(c)
    PROVE  /\ fence' \in 0 .. MaxValue
           /\ event' \in BOOLEAN
           /\ armed' \subseteq 1 .. MaxValue
           /\ fence' = IF c.op = "signal" THEN c.arg ELSE fence
<1>1. CASE c.op = "signal"
  <2>1. c.arg \in 1 .. MaxValue
    BY <1>1, CommandKinds
  <2>2. (event \/ \E v \in armed : v <= c.arg) \in BOOLEAN
    OBVIOUS
  <2>3. fence' = c.arg /\ armed' = {v \in armed : v > c.arg}
        /\ event' = (event \/ \E v \in armed : v <= c.arg)
    BY <1>1 DEF Execute
  <2>4. armed' \subseteq 1 .. MaxValue
    BY <2>3 DEF TypeOK
  <2>5. c.arg \in 0 .. MaxValue
    BY <2>1
  <2>6. event' \in BOOLEAN
    BY <2>2, <2>3
  <2> QED
    BY <1>1, <2>3, <2>4, <2>5, <2>6
<1>2. CASE c.op # "signal"
  BY <1>2 DEF Execute, TypeOK
<1> QED
  BY <1>1, <1>2

LEMMA GPUTyped == Typed /\ GPU => Typed'
<1> SUFFICES ASSUME Typed, GPU PROVE Typed'
  OBVIOUS
<1>1. q11 \in Queues /\ q12 \in Queues
  BY TypedFacts DEF Typed
<1>2. CASE Run11
  <2>1. q11 # <<>> /\ Execute(Head(q11)) /\ q11' = Tail(q11)
        /\ UNCHANGED <<next, q12, used, index, phase, mishaps>>
    BY <1>2 DEF Run11, Runnable
  <2>2. Tail(q11) \in Queues /\ Head(q11) \in Commands
    BY <1>1, <2>1, TailLemma
  <2>3. /\ fence' \in 0 .. MaxValue /\ event' \in BOOLEAN
        /\ armed' \subseteq 1 .. MaxValue
    BY <2>1, <2>2, ExecuteTyped DEF Typed
  <2> QED
    BY <2>1, <2>2, <2>3 DEF Typed, TypeOK, Room, Queues
<1>3. CASE Run12
  <2>1. q12 # <<>> /\ Execute(Head(q12)) /\ q12' = Tail(q12)
        /\ UNCHANGED <<next, q11, used, index, phase, mishaps>>
    BY <1>3 DEF Run12, Runnable
  <2>2. Tail(q12) \in Queues /\ Head(q12) \in Commands
    BY <1>1, <2>1, TailLemma
  <2>3. /\ fence' \in 0 .. MaxValue /\ event' \in BOOLEAN
        /\ armed' \subseteq 1 .. MaxValue
    BY <2>1, <2>2, ExecuteTyped DEF Typed
  <2> QED
    BY <2>1, <2>2, <2>3 DEF Typed, TypeOK, Room, Queues
<1> QED
  BY <1>2, <1>3 DEF GPU

\* What a wait leaves.
LEMMA AwaitLemma ==
    ASSUME NEW v, NEW sleeping, NEW then, Await(v, sleeping, then)
    PROVE  /\ phase' \in {sleeping, then, "game"}
           /\ armed' \in {armed, armed \cup {v}}
BY DEF Await

\* The thread wakes, sleeps in vain, or goes on after a release.
Thread == Acquire \/ TimeOut \/ Release \/ Rebuild \/ SwitchTarget

LEMMA ThreadTyped == Typed /\ Thread => Typed'
<1> SUFFICES ASSUME Typed, Thread PROVE Typed'
  OBVIOUS
<1>1. CASE Acquire
  BY <1>1 DEF Acquire, Awake, Typed, TypeOK, Room, Phases
<1>2. CASE TimeOut
  BY <1>2 DEF TimeOut, Typed, TypeOK, Room, Phases, Mishaps
<1>3. CASE Release
  BY <1>3 DEF Release, Awake, Typed, TypeOK, Room, Phases
<1>4. CASE Rebuild
  <2>1. 1 \in Indices /\ 0 \in 0 .. MaxValue
    BY MaxValueAssumption, BuffersAssumption DEF Indices
  <2> QED
    BY <1>4, <2>1 DEF Rebuild, Typed, TypeOK, Room, Phases
<1>5. CASE SwitchTarget
  BY <1>5 DEF SwitchTarget, Typed, TypeOK, Room, Phases
<1> QED
  BY <1>1, <1>2, <1>3, <1>4, <1>5 DEF Thread

\* The appends, for queues of the right type.
LEMMA AppendTyped ==
    ASSUME NEW q \in Queues
    PROVE  /\ \A c \in Commands : Append(q, c) \in Queues
           /\ Drawn(q) \in Queues
           /\ \A a \in Commands : q \o <<a>> \in Queues
           /\ \A a, b \in Commands : q \o <<a, b>> \in Queues
           /\ \A a, b, c \in Commands : q \o <<a, b, c>> \in Queues
           /\ \A a, b, c, d \in Commands : q \o <<a, b, c, d>> \in Queues
<1>1. \A c \in Commands : Append(q, c) \in Queues
  BY AppendLemma
<1>2. Drawn(q) \in Queues
  BY <1>1, CommandTypes DEF Drawn
<1>3. \A s \in Queues : q \o s \in Queues
  BY ConcatProperties DEF Queues
<1>4. \A a, b, c, d \in Commands :
          /\ <<a>> \in Queues /\ <<a, b>> \in Queues /\ <<a, b, c>> \in Queues
          /\ <<a, b, c, d>> \in Queues
  BY DEF Queues
<1> QED
  BY <1>1, <1>2, <1>3, <1>4

LEMMA BeginPresentTyped == Typed /\ BeginPresent => Typed'
<1> SUFFICES ASSUME Typed, BeginPresent PROVE Typed'
  OBVIOUS
<1>1. /\ next + 2 <= MaxValue /\ q11' = Drawn(q11)
      /\ UNCHANGED <<fence, next, q12, used, index, event, mishaps>>
      /\ phase' \in {"acquiring", "acquired", "game"}
      /\ \/ armed' = armed
         \/ fence < used[index] /\ armed' = armed \cup {used[index]}
  BY DEF BeginPresent, Await
<1>2. Drawn(q11) \in Queues
  BY TypedFacts, AppendTyped DEF Typed
<1>3. fence < used[index] => used[index] \in 1 .. MaxValue
  BY TypedFacts DEF Typed
<1>4. armed' \subseteq 1 .. MaxValue
  <2>1. armed \subseteq 1 .. MaxValue
    BY DEF Typed, TypeOK
  <2>2. CASE armed' = armed
    BY <2>1, <2>2
  <2>3. CASE fence < used[index] /\ armed' = armed \cup {used[index]}
    BY <1>3, <2>1, <2>3
  <2> QED
    BY <1>1, <2>2, <2>3
<1> QED
  BY <1>1, <1>2, <1>4 DEF Typed, TypeOK, Room, Phases, Queues

LEMMA DropFrameTyped == Typed /\ DropFrame => Typed'
<1> SUFFICES ASSUME Typed, DropFrame PROVE Typed'
  OBVIOUS
<1>1. /\ next \in 1 .. MaxValue /\ next + 1 \in 1 .. MaxValue + 1
      /\ MaxValue \in Nat
  BY TypedFacts DEF Typed, Room, DropFrame
<1>2. Append(q11, Signal(next)) \in Queues /\ Append(q12, Wait(next)) \in Queues
  BY <1>1, TypedFacts, AppendTyped, CommandTypes DEF Typed
<1>3. q11' \in Queues /\ q12' \in Queues
  BY <1>2, TypedFacts DEF Typed, DropFrame
<1>4. /\ phase' = "game" /\ next' = next + 1
      /\ UNCHANGED <<fence, used, index, event, armed, mishaps>>
  BY DEF DropFrame
<1>5. \A i \in Indices : used[i] < next + 1
  BY <1>1 DEF Typed, TypeOK, Room
<1> QED
  BY <1>1, <1>3, <1>4, <1>5 DEF Typed, TypeOK, Room, Phases, Queues

LEMMA NextIndex ==
    ASSUME NEW i \in Indices
    PROVE  (i % Buffers) + 1 \in Indices
BY BuffersAssumption DEF Indices

LEMMA ShowFrameTyped == Typed /\ ShowFrame => Typed'
<1> SUFFICES ASSUME Typed, ShowFrame PROVE Typed'
  OBVIOUS
<1>1. /\ next \in 1 .. MaxValue /\ next + 1 \in 1 .. MaxValue
      /\ next + 2 \in 1 .. MaxValue + 1 /\ MaxValue \in Nat
      /\ index \in Indices
  BY TypedFacts DEF Typed, Room, ShowFrame
<1>2. /\ q11' \in Queues /\ q12' \in Queues
  BY <1>1, TypedFacts, AppendTyped, CommandTypes DEF Typed, ShowFrame
<1>3. /\ phase' = "game" /\ next' = next + 2
      /\ used' = [used EXCEPT ![index] = next + 1]
      /\ index' = (index % Buffers) + 1
      /\ UNCHANGED <<fence, event, armed, mishaps>>
  BY DEF ShowFrame
<1>4. \A i \in Indices : used'[i] < next + 2
  BY <1>1, <1>3 DEF Typed, TypeOK, Room
<1>5. used' \in [Indices -> 0 .. MaxValue]
  BY <1>1, <1>3 DEF Typed, TypeOK
<1>6. index' \in Indices
  BY <1>1, <1>3, NextIndex
<1> QED
  BY <1>1, <1>2, <1>3, <1>4, <1>5, <1>6 DEF Typed, TypeOK, Room, Phases, Queues

\* An allocator that is covered by a guard, or is not.
LEMMA OrphanTyped ==
    ASSUME Typed, NEW s, NEW v \in 1 .. MaxValue, NEW refused,
           q12 \o s \in Queues, q12 \o s \o <<Signal(v)>> \in Queues,
           next <= v, Orphan(s, v, refused)
    PROVE  /\ q12' \in Queues
           /\ used' \in [Indices -> 0 .. MaxValue]
           /\ \A i \in Indices : used'[i] < v + 1
<1>1. used \in [Indices -> 0 .. MaxValue] /\ index \in Indices
      /\ next \in Nat /\ \A i \in Indices : used[i] < next
  BY TypedFacts DEF Typed, TypeOK, Room
<1>2. \A i \in Indices : used[i] < v + 1
  BY <1>1, MaxValueAssumption
<1>3. used' = used \/ used' = [used EXCEPT ![index] = v]
  BY DEF Orphan
<1>4. q12' \in Queues
  BY DEF Orphan
<1>5. v \in 0 .. MaxValue /\ v < v + 1
  BY MaxValueAssumption
<1>6. CASE used' = used
  BY <1>1, <1>2, <1>4, <1>6
<1>7. CASE used' = [used EXCEPT ![index] = v]
  BY <1>1, <1>2, <1>4, <1>5, <1>7
<1> QED
  BY <1>3, <1>6, <1>7

\* A frame is lost in one of three ways, with its allocator guarded or not.
Lose(commands, v, more, refused) ==
    /\ Orphan(commands, v, refused)
    /\ next' = v + 1
    /\ mishaps' = mishaps \cup more \cup (IF refused THEN {"orphan"} ELSE {})

LEMMA LoseFrameCases ==
    ASSUME LoseFrame, Typed
    PROVE  /\ phase = "acquired" /\ phase' = "game"
           /\ q11' = Append(q11, Signal(next))
           /\ UNCHANGED <<fence, event, armed>>
           /\ \E refused \in BOOLEAN :
                 \/ /\ Lose(<<Wait(next), LostCopy(index)>>, next + 1,
                            {"present"}, refused)
                    /\ UNCHANGED index
                 \/ /\ next + 3 <= MaxValue
                    /\ index' = (index % Buffers) + 1
                    /\ \/ Lose(<<Wait(next), Copy(index)>>, next + 2,
                               {"complete"}, refused)
                       \/ Lose(<<Wait(next), Copy(index), Signal(next + 1)>>,
                               next + 2, {"resume"}, refused)
<1>1. /\ phase = "acquired" /\ phase' = "game"
      /\ q11' = Append(q11, Signal(next))
      /\ UNCHANGED <<fence, event, armed>>
  BY DEF LoseFrame
<1>2. PICK refused \in BOOLEAN :
        LET more == IF refused THEN {"orphan"} ELSE {}
        IN  \/ /\ Orphan(<<Wait(next), LostCopy(index)>>, next + 1, refused)
               /\ next' = next + 2
               /\ UNCHANGED index
               /\ mishaps' = mishaps \cup {"present"} \cup more
            \/ /\ next + 3 <= MaxValue
               /\ \/ /\ Orphan(<<Wait(next), Copy(index)>>, next + 2,
                               refused)
                     /\ mishaps' = mishaps \cup {"complete"} \cup more
                  \/ /\ Orphan(<<Wait(next), Copy(index), Signal(next + 1)>>,
                               next + 2, refused)
                     /\ mishaps' = mishaps \cup {"resume"} \cup more
               /\ next' = next + 3
               /\ index' = (index % Buffers) + 1
  BY DEF LoseFrame
<1> DEFINE O1 == Orphan(<<Wait(next), LostCopy(index)>>, next + 1, refused)
           O2 == Orphan(<<Wait(next), Copy(index)>>, next + 2, refused)
           O3 == Orphan(<<Wait(next), Copy(index), Signal(next + 1)>>,
                        next + 2, refused)
           more == IF refused THEN {"orphan"} ELSE {}
<1>3. \/ /\ O1
         /\ next' = next + 2
         /\ UNCHANGED index
         /\ mishaps' = mishaps \cup {"present"} \cup more
      \/ /\ next + 3 <= MaxValue
         /\ \/ O2 /\ mishaps' = mishaps \cup {"complete"} \cup more
            \/ O3 /\ mishaps' = mishaps \cup {"resume"} \cup more
         /\ next' = next + 3
         /\ index' = (index % Buffers) + 1
  BY <1>2
<1>4. /\ Lose(<<Wait(next), LostCopy(index)>>, next + 1, {"present"}, refused)
           <=> /\ O1 /\ next' = (next + 1) + 1
               /\ mishaps' = mishaps \cup {"present"} \cup more
      /\ Lose(<<Wait(next), Copy(index)>>, next + 2, {"complete"}, refused)
           <=> /\ O2 /\ next' = (next + 2) + 1
               /\ mishaps' = mishaps \cup {"complete"} \cup more
      /\ Lose(<<Wait(next), Copy(index), Signal(next + 1)>>, next + 2,
              {"resume"}, refused)
           <=> /\ O3 /\ next' = (next + 2) + 1
               /\ mishaps' = mishaps \cup {"resume"} \cup more
  BY DEF Lose
<1>5. (next + 1) + 1 = next + 2 /\ (next + 2) + 1 = next + 3
  BY TypedFacts DEF Typed
<1> HIDE DEF O1, O2, O3, more
<1>6. \/ /\ Lose(<<Wait(next), LostCopy(index)>>, next + 1, {"present"}, refused)
         /\ UNCHANGED index
      \/ /\ next + 3 <= MaxValue
         /\ index' = (index % Buffers) + 1
         /\ \/ Lose(<<Wait(next), Copy(index)>>, next + 2, {"complete"}, refused)
            \/ Lose(<<Wait(next), Copy(index), Signal(next + 1)>>, next + 2,
                    {"resume"}, refused)
  BY <1>3, <1>4, <1>5
<1> QED
  BY <1>1, <1>6

LEMMA LoseFrameTyped == Typed /\ LoseFrame => Typed'
<1> SUFFICES ASSUME Typed, LoseFrame PROVE Typed'
  OBVIOUS
<1>1. /\ next \in 1 .. MaxValue /\ next + 1 \in 1 .. MaxValue
      /\ next \in Nat /\ MaxValue \in Nat /\ index \in Indices
      /\ q11 \in Queues /\ q12 \in Queues
  BY TypedFacts DEF Typed, Room, LoseFrame
<1> DEFINE a == <<Wait(next), LostCopy(index)>>
           b == <<Wait(next), Copy(index)>>
           c == <<Wait(next), Copy(index), Signal(next + 1)>>
<1>2. /\ phase = "acquired" /\ phase' = "game"
      /\ q11' = Append(q11, Signal(next))
      /\ UNCHANGED <<fence, event, armed>>
  BY LoseFrameCases
<1>3. PICK refused \in BOOLEAN :
          \/ /\ Lose(a, next + 1, {"present"}, refused)
             /\ UNCHANGED index
          \/ /\ next + 3 <= MaxValue
             /\ index' = (index % Buffers) + 1
             /\ \/ Lose(b, next + 2, {"complete"}, refused)
                \/ Lose(c, next + 2, {"resume"}, refused)
  BY LoseFrameCases
<1>4. q11' \in Queues
  BY <1>1, <1>2, AppendTyped, CommandTypes
<1>5. /\ Wait(next) \in Commands /\ Signal(next + 1) \in Commands
      /\ LostCopy(index) \in Commands /\ Copy(index) \in Commands
  BY <1>1, CommandTypes
<1>6. /\ q12 \o a \in Queues /\ q12 \o b \in Queues /\ q12 \o c \in Queues
  BY <1>1, <1>5, AppendTyped
<1>7. \A v \in 1 .. MaxValue : /\ q12 \o a \o <<Signal(v)>> \in Queues
                               /\ q12 \o b \o <<Signal(v)>> \in Queues
                               /\ q12 \o c \o <<Signal(v)>> \in Queues
  BY <1>6, AppendTyped, CommandTypes
<1> HIDE DEF a, b, c
<1>8. ASSUME NEW s, s \in {a, b, c}, NEW v \in 1 .. MaxValue, next <= v,
             NEW more \in SUBSET Mishaps, Lose(s, v, more, refused),
             index' \in Indices
      PROVE  Typed'
  <2>1. /\ q12' \in Queues
        /\ used' \in [Indices -> 0 .. MaxValue]
        /\ \A i \in Indices : used'[i] < v + 1
    BY <1>6, <1>7, <1>8, OrphanTyped DEF Lose
  <2>2. next' = v + 1 /\ next' \in 1 .. MaxValue + 1
    BY <1>1, <1>8 DEF Lose
  <2>3. mishaps' \subseteq Mishaps
    BY <1>8 DEF Lose, Typed, TypeOK, Mishaps
  <2> QED
    BY <1>2, <1>4, <1>8, <2>1, <2>2, <2>3 DEF Typed, TypeOK, Room, Phases, Queues
<1>9. CASE Lose(a, next + 1, {"present"}, refused) /\ UNCHANGED index
  <2>1. {"present"} \in SUBSET Mishaps /\ next <= next + 1
    BY <1>1 DEF Mishaps
  <2> QED
    BY <1>1, <1>8, <1>9, <2>1
<1>10. CASE /\ next + 3 <= MaxValue
            /\ index' = (index % Buffers) + 1
            /\ \/ Lose(b, next + 2, {"complete"}, refused)
               \/ Lose(c, next + 2, {"resume"}, refused)
  <2>1. /\ {"complete"} \in SUBSET Mishaps /\ {"resume"} \in SUBSET Mishaps
        /\ next <= next + 2 /\ next + 2 \in 1 .. MaxValue
    BY <1>1, <1>10 DEF Mishaps
  <2>2. index' \in Indices
    BY <1>1, <1>10, NextIndex
  <2> QED
    BY <1>1, <1>8, <1>10, <2>1, <2>2
<1> QED
  BY <1>3, <1>9, <1>10

LEMMA BeginIdleTyped == Typed /\ BeginIdle => Typed'
<1> SUFFICES ASSUME Typed, BeginIdle PROVE Typed'
  OBVIOUS
<1>1. /\ next \in 1 .. MaxValue /\ next + 1 \in 1 .. MaxValue
      /\ next + 2 \in 1 .. MaxValue + 1 /\ MaxValue \in Nat
      /\ q11 \in Queues /\ q12 \in Queues
  BY TypedFacts DEF Typed, BeginIdle
<1>2. Drawn(q11) \in Queues
  BY <1>1, AppendTyped
<1>3. q11' \in Queues /\ q12' \in Queues
  BY <1>1, <1>2, AppendTyped, CommandTypes DEF BeginIdle
<1>4. /\ phase' = "queued" /\ next' = next + 2
      /\ UNCHANGED <<fence, used, index, event, armed, mishaps>>
  BY DEF BeginIdle
<1>5. \A i \in Indices : used[i] < next + 2
  BY <1>1 DEF Typed, TypeOK, Room
<1>6. next + 2 > 2
  BY <1>1
<1> QED
  BY <1>1, <1>3, <1>4, <1>5, <1>6 DEF Typed, TypeOK, Room, Phases, Queues

LEMMA SleepUntilIdleTyped == Typed /\ SleepUntilIdle => Typed'
<1> SUFFICES ASSUME Typed, SleepUntilIdle PROVE Typed'
  OBVIOUS
<1>1. /\ phase = "queued"
      /\ phase' \in {"idling", "released", "game"}
      /\ armed' \in {armed, armed \cup {next - 1}}
      /\ UNCHANGED <<fence, next, q11, q12, used, index, event>>
      /\ mishaps' = IF phase' = "game" THEN mishaps \cup {"idle"} ELSE mishaps
  BY DEF SleepUntilIdle, Await
<1>2. next - 1 \in 1 .. MaxValue /\ next > 2
  BY <1>1, TypedFacts DEF Typed, TypeOK, Room
<1>3. armed' \subseteq 1 .. MaxValue
  BY <1>1, <1>2 DEF Typed, TypeOK
<1>4. mishaps' \subseteq Mishaps
  BY <1>1 DEF Typed, TypeOK, Mishaps
<1> QED
  BY <1>1, <1>2, <1>3, <1>4 DEF Typed, TypeOK, Room, Phases

LEMMA RefuseIdleTyped == Typed /\ RefuseIdle => Typed'
<1> SUFFICES ASSUME Typed, RefuseIdle PROVE Typed'
  OBVIOUS
<1>1. /\ next \in 1 .. MaxValue /\ next + 1 \in 1 .. MaxValue
      /\ next + 2 \in 1 .. MaxValue + 1 /\ MaxValue \in Nat
      /\ q11 \in Queues /\ q12 \in Queues
  BY TypedFacts DEF Typed, RefuseIdle
<1>2. Drawn(q11) \in Queues
  BY <1>1, AppendTyped
<1>3. /\ Append(Drawn(q11), Signal(next)) \in Queues
      /\ Append(q12, Wait(next)) \in Queues
      /\ q12 \o <<Wait(next), Signal(next + 1)>> \in Queues
  BY <1>1, <1>2, AppendTyped, CommandTypes
<1>4. /\ q11' \in {Drawn(q11), Append(Drawn(q11), Signal(next))}
      /\ q12' \in {q12, Append(q12, Wait(next)),
                   q12 \o <<Wait(next), Signal(next + 1)>>}
      /\ next' \in {next + 1, next + 2}
      /\ mishaps' \in {mishaps, mishaps \cup {"idle"}, mishaps \cup {"resume"}}
      /\ phase = "game"
      /\ UNCHANGED <<fence, used, index, event, armed, phase>>
  BY DEF RefuseIdle
<1>5. q11' \in Queues /\ q12' \in Queues
  BY <1>1, <1>2, <1>3, <1>4
<1>6. next' \in 1 .. MaxValue + 1 /\ \A i \in Indices : used[i] < next'
  BY <1>1, <1>4 DEF Typed, TypeOK, Room
<1>7. mishaps' \subseteq Mishaps
  BY <1>4 DEF Typed, TypeOK, Mishaps
<1> QED
  BY <1>4, <1>5, <1>6, <1>7 DEF Typed, TypeOK, Room, Phases, Queues

LEMMA NextTyped == Typed /\ [Next]_vars => Typed'
<1>1. Typed /\ UNCHANGED vars => Typed'
  BY DEF vars, Typed, TypeOK, Room
<1> QED
  BY <1>1, GPUTyped, ThreadTyped, BeginPresentTyped, DropFrameTyped,
     ShowFrameTyped, LoseFrameTyped, BeginIdleTyped, SleepUntilIdleTyped,
     RefuseIdleTyped
  DEF Next, GPU, Thread

-----------------------------------------------------------------------------
(***************************************************************************)
(* A frame, an idle wait, and a lost frame, as a whole.                    *)
(***************************************************************************)
LEMMA NotYet ==
    ASSUME NEW q, NEW n \in Nat, Within(q, n), NEW v \in Nat, v >= n
    PROVE  ~Has(q, Signal(v)) /\ ~Has(q, Wait(v))
<1> SUFFICES ASSUME NEW i \in DOMAIN q, q[i] \in {Signal(v), Wait(v)}
             PROVE  FALSE
  BY DEF Has
<1>1. IsMark(q[i]) /\ q[i].arg = v
  BY CommandFacts DEF IsMark
<1>2. v < n
  BY <1>1 DEF Within
<1> QED
  BY <1>2

LEMMA LongerHas ==
    ASSUME NEW q, NEW r, NEW c, NEW l, Longer(q, r, c, l)
    PROVE  /\ \A x : Has(r, x) <=> Has(q, x) \/ x = c
           /\ \A k \in DOMAIN q : k \in DOMAIN r /\ r[k] = q[k]
           /\ \A k \in DOMAIN r : k \in DOMAIN q \/ (k = l /\ r[k] = c)
BY DEF Has, Longer

\* What D3D11 gets for a frame: its signal, and the wait for the answer.
LEMMA TurnHas ==
    ASSUME NEW p \in Queues, NEW n \in Nat,
           NEW a, Longer(p, a, Signal(n), Len(p) + 1),
           NEW b, Longer(a, b, Wait(n + 1), Len(p) + 2)
    PROVE  /\ \A x : Has(b, x) <=> \/ Has(p, x)
                                   \/ x \in {Signal(n), Wait(n + 1)}
           /\ Len(p) + 2 \in DOMAIN b /\ b[Len(p) + 2] = Wait(n + 1)
           /\ \A d \in DOMAIN b : b[d] = Draw =>
                 d < Len(p) + 1 /\ \E s \in DOMAIN b : d < s /\ b[s] = Signal(n)
<1>1. \A x : Has(b, x) <=> Has(p, x) \/ x \in {Signal(n), Wait(n + 1)}
  BY LongerHas
<1>2. Len(p) + 2 \in DOMAIN b /\ b[Len(p) + 2] = Wait(n + 1)
  BY DEF Longer
<1>3. Len(p) + 1 \in DOMAIN b /\ b[Len(p) + 1] = Signal(n)
  BY DEF Longer
<1>4. ASSUME NEW d \in DOMAIN b, b[d] = Draw
      PROVE  d < Len(p) + 1
  <2>1. d # Len(p) + 1 /\ d # Len(p) + 2
    BY <1>2, <1>3, <1>4, CommandFacts
  <2> QED
    BY <2>1 DEF Longer
<1> QED
  BY <1>1, <1>2, <1>3, <1>4

\* The copy of a back buffer is in d where it was in q, or is the new one.
CopiesOf(q, d, i, v) ==
    \A k \in DOMAIN d : d[k].op \in {"copy", "lost"} =>
        \/ k \in DOMAIN q /\ d[k] = q[k]
        \/ d[k] = i /\ k + 1 \in DOMAIN d /\ d[k + 1] = Signal(v)

\* The parts of a frame.
Frame11(p, a, b, n) ==
    /\ Longer(p, a, Signal(n), Len(p) + 1)
    /\ Longer(a, b, Wait(n + 1), Len(p) + 2)

Frame12(q, q1, q2, q3, i, n) ==
    /\ Longer(q, q1, Wait(n), Len(q) + 1)
    /\ Longer(q1, q2, Copy(i), Len(q) + 2)
    /\ Longer(q2, q3, Signal(n + 1), Len(q) + 3)

LEMMA FrameParts ==
    ASSUME NEW p \in Queues, NEW q \in Queues, NEW f \in Nat,
           NEW n \in 1 .. MaxValue, n + 1 <= MaxValue,
           Exchange(p, q, f, n), NEW i \in Indices,
           NEW a \in Queues, NEW b \in Queues, Frame11(p, a, b, n),
           NEW q1 \in Queues, NEW q2 \in Queues, NEW q3 \in Queues,
           Frame12(q, q1, q2, q3, i, n),
           Within(q1, n + 1), Exchange(b, q1, f, n + 2)
    PROVE  /\ Exchange(b, q3, f, n + 2)
           /\ \A x : Has(b, x) <=> Has(p, x) \/ x \in {Signal(n), Wait(n + 1)}
           /\ \A x : Has(q3, x) <=> \/ Has(q, x)
                                    \/ x \in {Wait(n), Copy(i), Signal(n + 1)}
           /\ \A k \in DOMAIN q : k \in DOMAIN q3 /\ q3[k] = q[k]
           /\ CopiesOf(q, q3, Copy(i), n + 1)
<1>0. /\ n \in Nat /\ n + 1 \in Nat /\ n + 2 \in Nat /\ n + 1 \in 1 .. MaxValue
      /\ (n + 1) - 1 = n /\ n < n + 2 /\ n + 1 < n + 2 /\ n <= n + 1
      /\ n + 1 >= n /\ n < n + 1
  OBVIOUS
<1>1. Within(p, n) /\ Within(q, n) /\ f < n /\ f < n + 1
  BY <1>0 DEF Exchange
<1>2. /\ Longer(p, a, Signal(n), Len(p) + 1)
      /\ Longer(a, b, Wait(n + 1), Len(p) + 2)
  BY DEF Frame11
<1>4. Wait(n) \in Commands /\ Copy(i) \in Commands /\ Signal(n + 1) \in Commands
  BY <1>0, CommandTypes
<1>6. Len(q) \in Nat
  BY DEF Queues
<1>7. Longer(q, q1, Wait(n), Len(q) + 1)
  BY DEF Frame12
<1>8. Longer(q1, q2, Copy(i), Len(q) + 2)
  BY DEF Frame12
<1>9. Longer(q2, q3, Signal(n + 1), Len(q) + 3)
  BY DEF Frame12
<1>10. /\ \A x : Has(b, x) <=> Has(p, x) \/ x \in {Signal(n), Wait(n + 1)}
       /\ Len(p) + 2 \in DOMAIN b /\ b[Len(p) + 2] = Wait(n + 1)
       /\ DrawnBefore(b, Len(p) + 2, n)
  <2>1. /\ \A x : Has(b, x) <=> Has(p, x) \/ x \in {Signal(n), Wait(n + 1)}
        /\ Len(p) + 2 \in DOMAIN b /\ b[Len(p) + 2] = Wait(n + 1)
        /\ \A k \in DOMAIN b : b[k] = Draw =>
              /\ k < Len(p) + 1
              /\ \E s \in DOMAIN b : k < s /\ b[s] = Signal(n)
    BY <1>0, <1>2, TurnHas
  <2> QED
    BY <2>1 DEF DrawnBefore
<1>11. /\ \A x : Has(q3, x) <=> \/ Has(q, x)
                                \/ x \in {Wait(n), Copy(i), Signal(n + 1)}
       /\ \A k \in DOMAIN q : k \in DOMAIN q3 /\ q3[k] = q[k]
       /\ Has(q2, Wait(n))
  BY <1>7, <1>8, <1>9, LongerHas
<1>12. Grows(b, q2, f, n + 2) /\ Within(q2, n + 1)
  <2>1. Grows(b, q1, f, n + 2)
    BY GrowsExchange
  <2> QED
    BY <1>0, <1>2, <1>7, <1>8, <2>1, Copy12Grows
<1>13. Grows(b, q3, f, n + 2) /\ Within(q3, n + 2)
  <2>1. ~Has(b, Signal(n + 1))
    <3>1. ~Has(p, Signal(n + 1))
      BY <1>0, <1>1, NotYet
    <3>2. Signal(n + 1) # Signal(n) /\ Signal(n + 1) # Wait(n + 1)
      <4>1. Signal(n + 1).arg = n + 1 /\ Signal(n).arg = n
            /\ Signal(n + 1).op = "signal" /\ Wait(n + 1).op = "wait"
        BY CommandFacts
      <4> QED
        BY <1>0, <4>1
    <3> QED
      BY <1>10, <3>1, <3>2
  <2>2. Signal(n + 1).arg = n + 1
    BY CommandFacts
  <2>3. n + 1 <= n + 2
    BY <1>0
  <2>4. Has(q2, Wait((n + 1) - 1))
    BY <1>0, <1>11
  <2> QED
    BY <1>0, <1>1, <1>2, <1>4, <1>8, <1>9, <1>12, <2>1, <2>2, <2>3, <2>4, Append12
<1>14. InTurns(b, q3)
  <2>1. (Len(q) + 2) - 1 \in DOMAIN q1 /\ q1[(Len(q) + 2) - 1] = Wait((n + 1) - 1)
    BY <1>0, <1>6, <1>7 DEF Longer
  <2>2. DrawnBefore(b, Len(p) + 2, (n + 1) - 1)
    BY <1>0, <1>10
  <2>3. Longer(q2, q3, Signal(n + 1), (Len(q) + 2) + 1)
    <3>1. (Len(q) + 2) + 1 = Len(q) + 3
      BY <1>6
    <3> QED
      BY <1>9, <3>1
  <2>4. InTurns(b, q1)
    BY GrowsExchange
  <2> QED
    BY <1>0, <1>2, <1>7, <1>8, <1>9, <1>10, <2>1, <2>2, <2>3, <2>4, InTurnsCopy
<1>15. Exchange(b, q3, f, n + 2)
  BY <1>13, <1>14, GrowsExchange
<1>16. CopiesOf(q, q3, Copy(i), n + 1)
  <2> SUFFICES ASSUME NEW k \in DOMAIN q3, q3[k].op \in {"copy", "lost"}
               PROVE  \/ k \in DOMAIN q /\ q3[k] = q[k]
                      \/ /\ q3[k] = Copy(i)
                         /\ k + 1 \in DOMAIN q3 /\ q3[k + 1] = Signal(n + 1)
    BY DEF CopiesOf
  <2>1. k # Len(q) + 3 /\ k # Len(q) + 1
    <3>1. q3[Len(q) + 3] = Signal(n + 1) /\ q3[Len(q) + 1] = Wait(n)
      BY <1>6, <1>7, <1>8, <1>9 DEF Longer
    <3> QED
      BY <3>1, CommandFacts
  <2>2. k \in DOMAIN q \/ k = Len(q) + 2
    BY <1>7, <1>8, <1>9, <2>1, LongerHas
  <2>3. /\ q3[Len(q) + 2] = Copy(i) /\ (Len(q) + 2) + 1 \in DOMAIN q3
        /\ q3[(Len(q) + 2) + 1] = Signal(n + 1)
    <3>1. (Len(q) + 2) + 1 = Len(q) + 3
      BY <1>6
    <3> QED
      BY <1>8, <1>9, <3>1 DEF Longer
  <2> QED
    BY <1>11, <2>2, <2>3
<1> QED
  BY <1>10, <1>11, <1>15, <1>16

\* The commands of a frame: D3D11 waits until its drawing was copied.
Turn11(p, b, n) == b = p \o <<Signal(n), Wait(n + 1)>>
Turn12(q, d, i, n) == d = q \o <<Wait(n), Copy(i), Signal(n + 1)>>

LEMMA FrameExchange ==
    ASSUME NEW p \in Queues, NEW q \in Queues, NEW f \in Nat,
           NEW n \in 1 .. MaxValue, n + 1 <= MaxValue,
           Exchange(p, q, f, n), NEW i \in Indices,
           NEW b, Turn11(p, b, n),
           NEW d, Turn12(q, d, i, n)
    PROVE  /\ b \in Queues /\ d \in Queues
           /\ Exchange(b, d, f, n + 2)
           /\ \A x : Has(b, x) <=> Has(p, x) \/ x \in {Signal(n), Wait(n + 1)}
           /\ \A x : Has(d, x) <=> \/ Has(q, x)
                                   \/ x \in {Wait(n), Copy(i), Signal(n + 1)}
           /\ \A k \in DOMAIN q : k \in DOMAIN d /\ d[k] = q[k]
           /\ CopiesOf(q, d, Copy(i), n + 1)
<1>0. /\ n \in Nat /\ n + 1 \in Nat /\ n + 2 \in Nat /\ n + 1 \in 1 .. MaxValue
      /\ (n + 1) - 1 = n /\ n < n + 2 /\ n + 1 < n + 2 /\ n <= n + 1
      /\ n + 1 >= n /\ n < n + 1
  OBVIOUS
<1>1. Within(p, n) /\ Within(q, n) /\ f < n /\ f < n + 1
  BY <1>0 DEF Exchange
<1> DEFINE a == Append(p, Signal(n))
<1>2. /\ b = Append(a, Wait(n + 1))
      /\ a \in Queues /\ Longer(p, a, Signal(n), Len(p) + 1)
      /\ b \in Queues /\ Longer(a, b, Wait(n + 1), Len(a) + 1)
      /\ Len(a) = Len(p) + 1
      /\ Exchange(b, q, f, n + 2)
  <2> DEFINE bb == Append(a, Wait(n + 1))
  <2>1. /\ p \o <<Signal(n), Wait(n + 1)>> = bb
        /\ a \in Queues /\ Longer(p, a, Signal(n), Len(p) + 1)
        /\ bb \in Queues /\ Longer(a, bb, Wait(n + 1), Len(a) + 1)
        /\ Len(a) = Len(p) + 1
        /\ Exchange(bb, q, f, n + 2)
    BY Turn11Exchange
  <2>2. b = bb
    BY <2>1 DEF Turn11
  <2> HIDE DEF bb, a
  <2>3. b = Append(a, Wait(n + 1))
    BY <2>2 DEF bb
  <2> QED
    BY <2>1, <2>2, <2>3
<1> HIDE DEF a
<1>3. Longer(a, b, Wait(n + 1), Len(p) + 2) /\ Len(p) \in Nat
  <2>1. Len(p) \in Nat
    BY DEF Queues
  <2>2. (Len(p) + 1) + 1 = Len(p) + 2
    BY <2>1
  <2> QED
    BY <1>2, <2>1, <2>2
<1> DEFINE q1 == Append(q, Wait(n))
           q2 == Append(q1, Copy(i))
           q3 == Append(q2, Signal(n + 1))
<1>4. Wait(n) \in Commands /\ Copy(i) \in Commands /\ Signal(n + 1) \in Commands
  BY <1>0, CommandTypes
<1>5. d = q3
  BY <1>4, ConcatLemma DEF Turn12
<1>6. Len(q) \in Nat /\ Len(q1) = Len(q) + 1 /\ Len(q2) = Len(q) + 2
  BY <1>4 DEF Queues
<1>7. /\ q1 \in Queues /\ Longer(q, q1, Wait(n), Len(q) + 1)
      /\ Within(q1, n + 1)
      /\ Exchange(b, q1, f, n + 2)
  BY <1>0, <1>1, <1>2, Wait12Exchange
<1> HIDE DEF q1
<1>8. q2 \in Queues /\ Longer(q1, q2, Copy(i), Len(q) + 2)
  <2>1. Len(q1) + 1 = Len(q) + 2
    BY <1>6
  <2> QED
    BY <1>4, <1>7, <2>1, AppendLemma
<1> HIDE DEF q2
<1>9. q3 \in Queues /\ Longer(q2, q3, Signal(n + 1), Len(q) + 3)
  <2>1. Len(q2) + 1 = Len(q) + 3
    BY <1>6
  <2> QED
    BY <1>4, <1>8, <2>1, AppendLemma
<1> HIDE DEF q3
<1>10. Frame11(p, a, b, n) /\ Frame12(q, q1, q2, q3, i, n)
  BY <1>2, <1>3, <1>7, <1>8, <1>9 DEF Frame11, Frame12
<1>11. /\ Exchange(b, q3, f, n + 2)
       /\ \A x : Has(b, x) <=> Has(p, x) \/ x \in {Signal(n), Wait(n + 1)}
       /\ \A x : Has(q3, x) <=> \/ Has(q, x)
                                \/ x \in {Wait(n), Copy(i), Signal(n + 1)}
       /\ \A k \in DOMAIN q : k \in DOMAIN q3 /\ q3[k] = q[k]
       /\ CopiesOf(q, q3, Copy(i), n + 1)
  <2>1. /\ a \in Queues /\ b \in Queues
        /\ q1 \in Queues /\ q2 \in Queues /\ q3 \in Queues
        /\ Within(q1, n + 1) /\ Exchange(b, q1, f, n + 2)
    BY <1>2, <1>7, <1>8, <1>9
  <2> QED
    BY <1>10, <2>1, FrameParts
<1> QED
  BY <1>2, <1>5, <1>9, <1>11

\* An idle wait: D3D12 answers at once.
Idle12(q, d, n) == d = q \o <<Wait(n), Signal(n + 1)>>

\* The copies of d are those of q.
SameCopies(q, d) ==
    /\ \A k \in DOMAIN q : k \in DOMAIN d /\ d[k] = q[k]
    /\ \A k \in DOMAIN d : d[k].op \in {"copy", "lost"} =>
          k \in DOMAIN q /\ d[k] = q[k]

LEMMA TurnParts ==
    ASSUME NEW p \in Queues, NEW q \in Queues, NEW f \in Nat,
           NEW n \in 1 .. MaxValue, n + 1 <= MaxValue,
           Exchange(p, q, f, n), NEW b, Turn11(p, b, n)
    PROVE  /\ b \in Queues
           /\ \E a \in Queues : Frame11(p, a, b, n)
           /\ Exchange(b, q, f, n + 2)
<1> DEFINE a == Append(p, Signal(n))
           bb == Append(a, Wait(n + 1))
<1>1. /\ p \o <<Signal(n), Wait(n + 1)>> = bb
      /\ a \in Queues /\ Longer(p, a, Signal(n), Len(p) + 1)
      /\ bb \in Queues /\ Longer(a, bb, Wait(n + 1), Len(a) + 1)
      /\ Len(a) = Len(p) + 1
      /\ Exchange(bb, q, f, n + 2)
  BY Turn11Exchange
<1>2. b = bb
  BY <1>1 DEF Turn11
<1> HIDE DEF a, bb
<1>3. Len(a) + 1 = Len(p) + 2
  <2>1. Len(p) \in Nat
    BY DEF Queues
  <2>2. (Len(p) + 1) + 1 = Len(p) + 2
    BY <2>1
  <2> QED
    BY <1>1, <2>2
<1>4. Frame11(p, a, b, n)
  BY <1>1, <1>2, <1>3 DEF Frame11
<1> QED
  BY <1>1, <1>2, <1>4

LEMMA SignalDiffers ==
    ASSUME NEW n \in Nat
    PROVE  /\ Signal(n + 1) # Signal(n) /\ Signal(n + 1) # Wait(n + 1)
           /\ Wait(n) # Wait(n + 1)
<1>1. /\ Signal(n + 1).arg = n + 1 /\ Signal(n).arg = n
      /\ Wait(n).arg = n /\ Wait(n + 1).arg = n + 1
      /\ Signal(n + 1).op = "signal" /\ Wait(n + 1).op = "wait"
  BY CommandFacts
<1> QED
  BY <1>1

LEMMA IdleExchange ==
    ASSUME NEW p \in Queues, NEW q \in Queues, NEW f \in Nat,
           NEW n \in 1 .. MaxValue, n + 1 <= MaxValue,
           Exchange(p, q, f, n),
           NEW b, Turn11(p, b, n), NEW d, Idle12(q, d, n)
    PROVE  /\ b \in Queues /\ d \in Queues
           /\ Exchange(b, d, f, n + 2)
           /\ \A x : Has(b, x) <=> Has(p, x) \/ x \in {Signal(n), Wait(n + 1)}
           /\ \A x : Has(d, x) <=> Has(q, x) \/ x \in {Wait(n), Signal(n + 1)}
           /\ SameCopies(q, d)
           /\ Len(d) \in DOMAIN d /\ d[Len(d)] = Signal(n + 1)
           /\ \A k \in DOMAIN b : b[k] = Draw =>
                 \E s \in DOMAIN b : k < s /\ b[s] = Signal(n)
<1>0. /\ n \in Nat /\ n + 1 \in Nat /\ n + 2 \in Nat /\ n + 1 \in 1 .. MaxValue
      /\ (n + 1) - 1 = n /\ n < n + 2 /\ n + 1 < n + 2
  OBVIOUS
<1>1. Within(p, n) /\ Within(q, n) /\ f < n /\ f < n + 1
  BY <1>0 DEF Exchange
<1>2. b \in Queues /\ Exchange(b, q, f, n + 2)
  BY TurnParts
<1>3. PICK a \in Queues : Frame11(p, a, b, n)
  BY TurnParts
<1>4. /\ Longer(p, a, Signal(n), Len(p) + 1)
      /\ Longer(a, b, Wait(n + 1), Len(p) + 2)
  BY <1>3 DEF Frame11
<1>5. /\ \A x : Has(b, x) <=> Has(p, x) \/ x \in {Signal(n), Wait(n + 1)}
      /\ \A k \in DOMAIN b : b[k] = Draw =>
            \E s \in DOMAIN b : k < s /\ b[s] = Signal(n)
  BY <1>0, <1>4, TurnHas
<1> DEFINE q1 == Append(q, Wait(n))
           q2 == Append(q1, Signal(n + 1))
<1>6. d = q2
  BY <1>0, CommandTypes, ConcatLemma DEF Idle12
<1>7. /\ q1 \in Queues /\ Longer(q, q1, Wait(n), Len(q) + 1)
      /\ Within(q1, n + 1)
      /\ Exchange(b, q1, f, n + 2)
  BY <1>0, <1>1, <1>2, Wait12Exchange
<1> HIDE DEF q1
<1>8. Has(q1, Wait((n + 1) - 1))
  BY <1>0, <1>7, LongerHas
<1>9. ~Has(b, Signal(n + 1))
  <2>1. ~Has(p, Signal(n + 1))
    BY <1>0, <1>1, NotYet
  <2> QED
    BY <1>0, <1>5, <2>1, SignalDiffers
<1>10. /\ q2 \in Queues /\ Longer(q1, q2, Signal(n + 1), Len(q1) + 1)
       /\ Exchange(b, q2, f, n + 2)
  BY <1>0, <1>1, <1>2, <1>7, <1>8, <1>9, Signal12Exchange
<1>11. Len(q2) = Len(q1) + 1
  BY <1>0, <1>7, CommandTypes DEF Queues
<1> HIDE DEF q2
<1>12. /\ \A x : Has(q2, x) <=> Has(q, x) \/ x \in {Wait(n), Signal(n + 1)}
  BY <1>7, <1>10, LongerHas
<1>13. SameCopies(q, q2)
  <2>1. Wait(n).op = "wait" /\ Signal(n + 1).op = "signal"
    BY CommandFacts
  <2> QED
    BY <1>7, <1>10, <2>1, LongerHas DEF SameCopies
<1>14. Len(q2) \in DOMAIN q2 /\ q2[Len(q2)] = Signal(n + 1)
  BY <1>10, <1>11 DEF Longer
<1> QED
  BY <1>2, <1>5, <1>6, <1>10, <1>12, <1>13, <1>14

\* A frame that Present refuses: the copy is executed, and its allocator is
\* covered by a signal that nobody waits for, or by none.
Lost12(q, d, i, n) == d = q \o <<Wait(n), LostCopy(i)>>
Guarded12(e, d, n) == e = d \o <<Signal(n + 1)>>

LEMMA LostExchange ==
    ASSUME NEW p \in Queues, NEW q \in Queues, NEW f \in Nat,
           NEW n \in 1 .. MaxValue, n + 1 <= MaxValue,
           Exchange(p, q, f, n), NEW i \in Indices,
           NEW d, Lost12(q, d, i, n), NEW e, Guarded12(e, d, n)
    PROVE  LET b == Append(p, Signal(n))
           IN  /\ b \in Queues /\ d \in Queues /\ e \in Queues
               /\ Longer(p, b, Signal(n), Len(p) + 1)
               /\ Exchange(b, d, f, n + 2)
               /\ Exchange(b, e, f, n + 2)
               /\ \A k \in DOMAIN q : k \in DOMAIN e /\ e[k] = q[k]
               /\ CopiesOf(q, e, LostCopy(i), n + 1)
<1>0. /\ n \in Nat /\ n + 1 \in Nat /\ n + 2 \in Nat /\ n + 1 \in 1 .. MaxValue
      /\ (n + 1) - 1 = n /\ n < n + 2 /\ n + 1 < n + 2 /\ n + 1 <= n + 2
      /\ n + 1 >= n
  OBVIOUS
<1>1. Within(p, n) /\ Within(q, n) /\ f < n /\ f < n + 1
  BY <1>0 DEF Exchange
<1> DEFINE b == Append(p, Signal(n))
<1>2. /\ b \in Queues /\ Longer(p, b, Signal(n), Len(p) + 1)
      /\ Exchange(b, q, f, n + 1)
  BY Signal11Exchange
<1> HIDE DEF b
<1>3. Exchange(b, q, f, n + 2)
  BY <1>0, <1>2, ExchangeSkips
<1> DEFINE q1 == Append(q, Wait(n))
           q2 == Append(q1, LostCopy(i))
           q3 == Append(q2, Signal(n + 1))
<1>4. Wait(n) \in Commands /\ LostCopy(i) \in Commands /\ Signal(n + 1) \in Commands
  BY <1>0, CommandTypes
<1>5. d = q2
  BY <1>4, ConcatLemma DEF Lost12
<1>6. /\ q1 \in Queues /\ Longer(q, q1, Wait(n), Len(q) + 1)
      /\ Within(q1, n + 1)
      /\ Exchange(b, q1, f, n + 2)
  BY <1>0, <1>1, <1>2, <1>3, Wait12Exchange
<1>7. Len(q) \in Nat /\ Len(q1) = Len(q) + 1
  BY <1>4 DEF Queues
<1> HIDE DEF q1
<1>8. /\ q2 \in Queues /\ Longer(q1, q2, LostCopy(i), Len(q1) + 1)
      /\ Within(q2, n + 1)
      /\ Exchange(b, q2, f, n + 2)
  BY <1>0, <1>2, <1>6, Lost12Exchange
<1>9. Len(q2) = Len(q1) + 1
  BY <1>4, <1>6 DEF Queues
<1>10. e = q3
  BY <1>4, <1>5, <1>8, ConcatLemma DEF Guarded12
<1> HIDE DEF q2
<1>11. Has(q2, Wait((n + 1) - 1))
  BY <1>0, <1>6, <1>8, LongerHas
<1>12. ~Has(b, Signal(n + 1))
  <2>1. ~Has(p, Signal(n + 1))
    BY <1>0, <1>1, NotYet
  <2> QED
    BY <1>0, <1>2, <2>1, LongerHas, SignalDiffers
<1>13. /\ q3 \in Queues /\ Longer(q2, q3, Signal(n + 1), Len(q2) + 1)
       /\ Exchange(b, q3, f, n + 2)
  BY <1>0, <1>1, <1>2, <1>8, <1>11, <1>12, Signal12Exchange
<1> HIDE DEF q3
<1>14. \A k \in DOMAIN q : k \in DOMAIN q3 /\ q3[k] = q[k]
  BY <1>6, <1>8, <1>13, LongerHas
<1>15. CopiesOf(q, q3, LostCopy(i), n + 1)
  <2> SUFFICES ASSUME NEW k \in DOMAIN q3, q3[k].op \in {"copy", "lost"}
               PROVE  \/ k \in DOMAIN q /\ q3[k] = q[k]
                      \/ /\ q3[k] = LostCopy(i)
                         /\ k + 1 \in DOMAIN q3 /\ q3[k + 1] = Signal(n + 1)
    BY DEF CopiesOf
  <2>1. Wait(n).op = "wait" /\ Signal(n + 1).op = "signal"
    BY CommandFacts
  <2>2. k \in DOMAIN q \/ (k = Len(q1) + 1 /\ q3[k] = LostCopy(i))
    BY <1>6, <1>8, <1>13, <2>1, LongerHas
  <2>3. (Len(q1) + 1) + 1 \in DOMAIN q3 /\ q3[(Len(q1) + 1) + 1] = Signal(n + 1)
    BY <1>9, <1>13 DEF Longer
  <2> QED
    BY <1>14, <2>2, <2>3
<1> QED
  BY <1>2, <1>5, <1>8, <1>10, <1>13, <1>14, <1>15 DEF b

-----------------------------------------------------------------------------
(***************************************************************************)
(* The exchange goes on as long as every frame that was executed is        *)
(* signalled and waited for as it should be; frames that are dropped       *)
(* before, waits that time out, and refused idle waits do not disturb it.  *)
(***************************************************************************)
Exchanged == Exchange(q11, q12, fence, next)

Traced == mishaps \subseteq {"timeout", "idle", "present"} => Exchanged

\* A mishap is never forgotten.
LEMMA MishapsStay == [Next]_vars => mishaps \subseteq mishaps'
<1>1. LoseFrame => mishaps \subseteq mishaps'
  BY DEF LoseFrame
<1>2. RefuseIdle => mishaps \subseteq mishaps'
  BY DEF RefuseIdle
<1>3. SleepUntilIdle => mishaps \subseteq mishaps'
  BY DEF SleepUntilIdle
<1> QED
  BY <1>1, <1>2, <1>3
  DEF Next, vars, Run11, Run12, BeginPresent, Acquire, Awake, TimeOut,
      DropFrame, ShowFrame, BeginIdle, Release, Rebuild, SwitchTarget

LEMMA InitTraced == Init => Traced
<1> SUFFICES ASSUME Init PROVE Exchange(<<>>, <<>>, 0, 1)
  BY DEF Init, Traced, Exchanged
<1>1. DOMAIN <<>> = {}
  OBVIOUS
<1>2. /\ Sorted(<<>>) /\ Within(<<>>, 1) /\ Ahead(<<>>, 0)
      /\ Paired(<<>>, 0) /\ InTurns(<<>>, <<>>)
  BY <1>1 DEF Sorted, Within, Ahead, Paired, InTurns
<1>3. \A x : ~Has(<<>>, x)
  BY <1>1 DEF Has
<1> QED
  BY <1>2, <1>3 DEF Exchange, Asked, Apart

\* What a queue that executes its head leaves.
Runs(q, r, f, g) ==
    /\ r \in Queues
    /\ Shorter(q, r)
    /\ q[1] \in Commands
    /\ q[1].op = "wait" => f >= q[1].arg
    /\ g = IF q[1].op = "signal" THEN q[1].arg ELSE f

LEMMA Run11Facts ==
    ASSUME Typed, Run11
    PROVE  /\ Runs(q11, q11', fence, fence')
           /\ Execute(q11[1])
           /\ UNCHANGED <<next, q12, used, index, phase, mishaps>>
<1>1. q11 # <<>> /\ Execute(Head(q11)) /\ q11' = Tail(q11)
      /\ (Head(q11).op = "wait" => fence >= Head(q11).arg)
      /\ UNCHANGED <<next, q12, used, index, phase, mishaps>>
  BY DEF Run11, Runnable
<1>2. q11 \in Queues
  BY TypedFacts DEF Typed
<1>3. /\ Tail(q11) \in Queues /\ Shorter(q11, Tail(q11))
      /\ Head(q11) = q11[1] /\ q11[1] \in Commands
  BY <1>1, <1>2, TailLemma
<1>4. fence' = IF q11[1].op = "signal" THEN q11[1].arg ELSE fence
  BY <1>1, <1>3, ExecuteTyped DEF Typed
<1> QED
  BY <1>1, <1>3, <1>4 DEF Runs

LEMMA Run12Facts ==
    ASSUME Typed, Run12
    PROVE  /\ Runs(q12, q12', fence, fence')
           /\ Execute(q12[1])
           /\ UNCHANGED <<next, q11, used, index, phase, mishaps>>
<1>1. q12 # <<>> /\ Execute(Head(q12)) /\ q12' = Tail(q12)
      /\ (Head(q12).op = "wait" => fence >= Head(q12).arg)
      /\ UNCHANGED <<next, q11, used, index, phase, mishaps>>
  BY DEF Run12, Runnable
<1>2. q12 \in Queues
  BY TypedFacts DEF Typed
<1>3. /\ Tail(q12) \in Queues /\ Shorter(q12, Tail(q12))
      /\ Head(q12) = q12[1] /\ q12[1] \in Commands
  BY <1>1, <1>2, TailLemma
<1>4. fence' = IF q12[1].op = "signal" THEN q12[1].arg ELSE fence
  BY <1>1, <1>3, ExecuteTyped DEF Typed
<1> QED
  BY <1>1, <1>3, <1>4 DEF Runs

LEMMA GPUExchanged == Typed /\ Exchanged /\ GPU => Exchanged'
<1> SUFFICES ASSUME Typed, Exchanged, GPU PROVE Exchanged'
  OBVIOUS
<1>1. /\ q11 \in Queues /\ q12 \in Queues /\ fence \in Nat /\ next \in Nat
      /\ Exchange(q11, q12, fence, next)
  BY TypedFacts DEF Typed, Exchanged
<1>2. CASE Run11
  <2>1. /\ q11' \in Queues /\ Shorter(q11, q11') /\ next' = next /\ q12' = q12
        /\ (q11[1].op = "wait" => fence >= q11[1].arg)
        /\ fence' = IF q11[1].op = "signal" THEN q11[1].arg ELSE fence
    BY <1>2, Run11Facts DEF Runs
  <2>2. Exchange(q11', q12, fence', next)
    BY <1>1, <2>1, Run11Exchange
  <2> QED
    BY <2>1, <2>2 DEF Exchanged
<1>3. CASE Run12
  <2>1. /\ q12' \in Queues /\ Shorter(q12, q12') /\ next' = next /\ q11' = q11
        /\ (q12[1].op = "wait" => fence >= q12[1].arg)
        /\ fence' = IF q12[1].op = "signal" THEN q12[1].arg ELSE fence
    BY <1>3, Run12Facts DEF Runs
  <2>2. Exchange(q11, q12', fence', next)
    BY <1>1, <2>1, Run12Exchange
  <2> QED
    BY <2>1, <2>2 DEF Exchanged
<1> QED
  BY <1>2, <1>3 DEF GPU

LEMMA BeginPresentExchanged ==
    Typed /\ Exchanged /\ BeginPresent => Exchanged'
<1> SUFFICES ASSUME Typed, Exchanged, BeginPresent PROVE Exchanged'
  OBVIOUS
<1>1. /\ q11 \in Queues /\ q12 \in Queues /\ fence \in Nat /\ next \in Nat
      /\ Exchange(q11, q12, fence, next)
  BY TypedFacts DEF Typed, Exchanged
<1>2. q11' = Drawn(q11) /\ UNCHANGED <<fence, next, q12>>
  BY DEF BeginPresent
<1>3. Exchange(Drawn(q11), q12, fence, next)
  BY <1>1, DrawnExchange
<1> QED
  BY <1>2, <1>3 DEF Exchanged

\* D3D12 is made to wait for a signal that was given.
LEMMA WaitExchange ==
    ASSUME NEW p \in Queues, NEW q \in Queues, NEW f \in Nat,
           NEW n \in 1 .. MaxValue, Exchange(p, q, f, n)
    PROVE  /\ Exchange(Append(p, Signal(n)), q, f, n + 1)
           /\ Exchange(Append(p, Signal(n)), Append(q, Wait(n)), f, n + 1)
<1> DEFINE a == Append(p, Signal(n))
           c == Append(q, Wait(n))
<1>1. a \in Queues /\ Exchange(a, q, f, n + 1)
  BY Signal11Exchange
<1>2. Within(q, n) /\ n + 1 \in Nat /\ n < n + 1
  BY DEF Exchange
<1> HIDE DEF a
<1>3. Exchange(a, c, f, n + 1)
  BY <1>1, <1>2, Wait12Exchange
<1> QED
  BY <1>1, <1>3 DEF a

LEMMA DropFrameExchanged == Typed /\ Exchanged /\ DropFrame => Exchanged'
<1> SUFFICES ASSUME Typed, Exchanged, DropFrame PROVE Exchanged'
  OBVIOUS
<1>1. /\ q11 \in Queues /\ q12 \in Queues /\ fence \in Nat /\ next \in Nat
      /\ next \in 1 .. MaxValue /\ next <= next + 1 /\ next + 1 \in Nat
      /\ Exchange(q11, q12, fence, next)
  BY TypedFacts DEF Typed, Exchanged, Room, DropFrame
<1>2. Exchange(q11, q12, fence, next + 1)
  BY <1>1, ExchangeSkips
<1>3. /\ Exchange(Append(q11, Signal(next)), q12, fence, next + 1)
      /\ Exchange(Append(q11, Signal(next)), Append(q12, Wait(next)), fence,
                  next + 1)
  BY <1>1, WaitExchange
<1>4. /\ next' = next + 1 /\ fence' = fence
      /\ \/ q11' = q11 /\ q12' = q12
         \/ q11' = Append(q11, Signal(next)) /\ q12' = q12
         \/ q11' = Append(q11, Signal(next)) /\ q12' = Append(q12, Wait(next))
  BY DEF DropFrame
<1> QED
  BY <1>2, <1>3, <1>4 DEF Exchanged

\* The queues after a frame, with what later proofs need to know of them.
LEMMA ShowFrameQueues ==
    ASSUME Typed, Exchanged, ShowFrame
    PROVE  /\ Exchanged'
           /\ \A x : Has(q11', x) <=> \/ Has(q11, x)
                                      \/ x \in {Signal(next), Wait(next + 1)}
           /\ \A x : Has(q12', x) <=>
                 \/ Has(q12, x)
                 \/ x \in {Wait(next), Copy(index), Signal(next + 1)}
           /\ \A k \in DOMAIN q12 : k \in DOMAIN q12' /\ q12'[k] = q12[k]
           /\ CopiesOf(q12, q12', Copy(index), next + 1)
           /\ q11' \in Queues /\ q12' \in Queues
<1>1. /\ q11 \in Queues /\ q12 \in Queues /\ fence \in Nat
      /\ next \in 1 .. MaxValue /\ next + 1 <= MaxValue /\ index \in Indices
      /\ Exchange(q11, q12, fence, next)
  BY TypedFacts DEF Typed, Exchanged, Room, ShowFrame
<1>2. Turn11(q11, q11', next) /\ Turn12(q12, q12', index, next)
      /\ next' = next + 2 /\ fence' = fence
  BY DEF ShowFrame, Turn11, Turn12
<1>3. /\ Exchange(q11', q12', fence, next + 2)
      /\ \A x : Has(q11', x) <=> \/ Has(q11, x)
                                 \/ x \in {Signal(next), Wait(next + 1)}
      /\ \A x : Has(q12', x) <=>
            \/ Has(q12, x)
            \/ x \in {Wait(next), Copy(index), Signal(next + 1)}
      /\ \A k \in DOMAIN q12 : k \in DOMAIN q12' /\ q12'[k] = q12[k]
      /\ CopiesOf(q12, q12', Copy(index), next + 1)
      /\ q11' \in Queues /\ q12' \in Queues
  BY <1>1, <1>2, FrameExchange
<1> QED
  BY <1>2, <1>3 DEF Exchanged

LEMMA BeginIdleQueues ==
    ASSUME Typed, Exchanged, BeginIdle
    PROVE  /\ Exchanged'
           /\ Drawn(q11) \in Queues
           /\ Exchange(Drawn(q11), q12, fence, next)
           /\ \A x : Has(q11', x) <=> \/ Has(Drawn(q11), x)
                                      \/ x \in {Signal(next), Wait(next + 1)}
           /\ \A x : Has(q12', x) <=> \/ Has(q12, x)
                                      \/ x \in {Wait(next), Signal(next + 1)}
           /\ SameCopies(q12, q12')
           /\ Len(q12') \in DOMAIN q12' /\ q12'[Len(q12')] = Signal(next + 1)
           /\ \A k \in DOMAIN q11' : q11'[k] = Draw =>
                 \E s \in DOMAIN q11' : k < s /\ q11'[s] = Signal(next)
           /\ q11' \in Queues /\ q12' \in Queues
<1>1. /\ q11 \in Queues /\ q12 \in Queues /\ fence \in Nat
      /\ next \in 1 .. MaxValue /\ next + 1 <= MaxValue /\ next \in Nat
      /\ Exchange(q11, q12, fence, next)
  BY TypedFacts DEF Typed, Exchanged, BeginIdle
<1>2. Turn11(Drawn(q11), q11', next) /\ Idle12(q12, q12', next)
      /\ next' = next + 2 /\ fence' = fence
  BY DEF BeginIdle, Turn11, Idle12
<1>3. Drawn(q11) \in Queues /\ Exchange(Drawn(q11), q12, fence, next)
  BY <1>1, DrawnExchange
<1>4. /\ q11' \in Queues /\ q12' \in Queues
      /\ Exchange(q11', q12', fence, next + 2)
      /\ \A x : Has(q11', x) <=> \/ Has(Drawn(q11), x)
                                 \/ x \in {Signal(next), Wait(next + 1)}
      /\ \A x : Has(q12', x) <=> \/ Has(q12, x)
                                 \/ x \in {Wait(next), Signal(next + 1)}
      /\ SameCopies(q12, q12')
      /\ Len(q12') \in DOMAIN q12' /\ q12'[Len(q12')] = Signal(next + 1)
      /\ \A k \in DOMAIN q11' : q11'[k] = Draw =>
            \E s \in DOMAIN q11' : k < s /\ q11'[s] = Signal(next)
  BY <1>1, <1>2, <1>3, IdleExchange
<1> QED
  BY <1>2, <1>3, <1>4 DEF Exchanged

\* A refused idle wait, up to its last call: D3D12 waits for a signal that was
\* given, and answers nothing.
LEMMA RefuseIdleQueues ==
    ASSUME Typed, Exchanged, RefuseIdle,
           mishaps' \subseteq {"timeout", "idle", "present"}
    PROVE  /\ Drawn(q11) \in Queues
           /\ Exchange(Drawn(q11), q12, fence, next)
           /\ \/ q11' = Drawn(q11) /\ q12' = q12
              \/ /\ q11' = Append(Drawn(q11), Signal(next))
                 /\ q12' = q12
                 /\ "idle" \in mishaps'
              \/ /\ q11' = Append(Drawn(q11), Signal(next))
                 /\ q12' = Append(q12, Wait(next))
                 /\ "idle" \in mishaps'
           /\ Exchanged'
<1>1. /\ q11 \in Queues /\ q12 \in Queues /\ fence \in Nat
      /\ next \in 1 .. MaxValue /\ next + 1 <= MaxValue
      /\ next + 1 \in Nat /\ next + 2 \in Nat /\ next \in Nat
      /\ next <= next + 1 /\ next + 1 <= next + 2
      /\ Exchange(q11, q12, fence, next)
  BY TypedFacts DEF Typed, Exchanged, RefuseIdle
<1> DEFINE b == Drawn(q11)
<1>2. b \in Queues /\ Exchange(b, q12, fence, next)
  BY <1>1, DrawnExchange
<1>3. /\ fence' = fence
      /\ \/ next' = next + 1 /\ q11' = b /\ q12' = q12
         \/ /\ next' = next + 1 /\ q11' = Append(b, Signal(next))
            /\ q12' = q12 /\ "idle" \in mishaps'
         \/ /\ next' = next + 2 /\ q11' = Append(b, Signal(next))
            /\ q12' = Append(q12, Wait(next)) /\ "idle" \in mishaps'
         \/ "resume" \in mishaps'
  BY DEF RefuseIdle
<1>4. "resume" \notin mishaps'
  OBVIOUS
<1> HIDE DEF b
<1>5. /\ Exchange(b, q12, fence, next + 1)
      /\ Exchange(Append(b, Signal(next)), q12, fence, next + 1)
      /\ Exchange(Append(b, Signal(next)), Append(q12, Wait(next)), fence,
                  next + 1)
  BY <1>1, <1>2, ExchangeSkips, WaitExchange
<1>6. /\ Append(b, Signal(next)) \in Queues /\ Append(q12, Wait(next)) \in Queues
  BY <1>1, <1>2, AppendTyped, CommandTypes
<1>7. Exchange(Append(b, Signal(next)), Append(q12, Wait(next)), fence, next + 2)
  BY <1>1, <1>5, <1>6, ExchangeSkips
<1>8. Exchanged'
  BY <1>3, <1>4, <1>5, <1>7 DEF Exchanged
<1> QED
  BY <1>2, <1>3, <1>4, <1>8 DEF b

\* A frame is lost, and nothing worse: Present refuses it.
LEMMA LoseFrameQueues ==
    ASSUME Typed, Exchanged, LoseFrame,
           mishaps' \subseteq {"timeout", "idle", "present"}
    PROVE  /\ Exchanged'
           /\ "present" \in mishaps'
           /\ UNCHANGED index
           /\ next' = next + 2
           /\ used' = [used EXCEPT ![index] = next + 1]
           /\ \A k \in DOMAIN q12 : k \in DOMAIN q12' /\ q12'[k] = q12[k]
           /\ CopiesOf(q12, q12', LostCopy(index), next + 1)
           /\ Longer(q11, q11', Signal(next), Len(q11) + 1)
           /\ q11' \in Queues /\ q12' \in Queues
<1>1. /\ q11 \in Queues /\ q12 \in Queues /\ fence \in Nat
      /\ next \in 1 .. MaxValue /\ next + 1 <= MaxValue
      /\ next \in Nat /\ (next + 1) + 1 = next + 2 /\ index \in Indices
      /\ Exchange(q11, q12, fence, next)
  BY TypedFacts DEF Typed, Exchanged, Room, LoseFrame
<1> DEFINE a == <<Wait(next), LostCopy(index)>>
<1>2. /\ q11' = Append(q11, Signal(next))
      /\ UNCHANGED <<fence, event, armed>>
      /\ \E refused \in BOOLEAN :
            \/ /\ Lose(a, next + 1, {"present"}, refused)
               /\ UNCHANGED index
            \/ \/ Lose(<<Wait(next), Copy(index)>>, next + 2, {"complete"},
                       refused)
               \/ Lose(<<Wait(next), Copy(index), Signal(next + 1)>>,
                       next + 2, {"resume"}, refused)
  BY LoseFrameCases
<1>3. PICK refused \in BOOLEAN :
            \/ /\ Lose(a, next + 1, {"present"}, refused)
               /\ UNCHANGED index
            \/ \/ Lose(<<Wait(next), Copy(index)>>, next + 2, {"complete"},
                       refused)
               \/ Lose(<<Wait(next), Copy(index), Signal(next + 1)>>,
                       next + 2, {"resume"}, refused)
  BY <1>2
<1>4. \A s, v : /\ ~Lose(s, v, {"complete"}, refused)
                /\ ~Lose(s, v, {"resume"}, refused)
  BY DEF Lose
<1>5. Lose(a, next + 1, {"present"}, refused) /\ UNCHANGED index
  BY <1>3, <1>4
<1>6. "orphan" \notin mishaps'
  OBVIOUS
<1>7. refused = FALSE
  BY <1>5, <1>6 DEF Lose
<1> DEFINE d == q12 \o a
<1>8. /\ q12' = d \o <<Signal(next + 1)>>
      /\ used' = [used EXCEPT ![index] = next + 1]
      /\ next' = next + 2
      /\ "present" \in mishaps'
  BY <1>1, <1>5, <1>7 DEF Lose, Orphan
<1>9. Lost12(q12, d, index, next) /\ Guarded12(q12', d, next)
  BY <1>8 DEF Lost12, Guarded12
<1> HIDE DEF d
<1> DEFINE b == Append(q11, Signal(next))
<1>10. /\ b \in Queues /\ q12' \in Queues
       /\ Longer(q11, b, Signal(next), Len(q11) + 1)
       /\ Exchange(b, q12', fence, next + 2)
       /\ \A k \in DOMAIN q12 : k \in DOMAIN q12' /\ q12'[k] = q12[k]
       /\ CopiesOf(q12, q12', LostCopy(index), next + 1)
  BY <1>1, <1>9, LostExchange
<1>11. q11' = b /\ fence' = fence
  BY <1>2
<1> HIDE DEF a, b
<1>12. Exchanged'
  BY <1>8, <1>10, <1>11 DEF Exchanged
<1> QED
  BY <1>5, <1>8, <1>10, <1>11, <1>12

LEMMA NextTraced == Typed /\ Traced /\ [Next]_vars => Traced'
<1> SUFFICES ASSUME Typed, Traced, [Next]_vars,
                    mishaps' \subseteq {"timeout", "idle", "present"}
             PROVE  Exchanged'
  BY DEF Traced
<1>1. Exchanged
  BY MishapsStay DEF Traced
<1>2. CASE UNCHANGED <<fence, next, q11, q12>>
  BY <1>1, <1>2 DEF Exchanged
<1>3. Acquire \/ TimeOut \/ SleepUntilIdle \/ Release \/ Rebuild
      \/ SwitchTarget \/ UNCHANGED vars => UNCHANGED <<fence, next, q11, q12>>
  BY DEF Acquire, Awake, TimeOut, SleepUntilIdle, Release, Rebuild,
         SwitchTarget, vars
<1>4. CASE GPU
  BY <1>1, <1>4, GPUExchanged
<1>5. CASE BeginPresent
  BY <1>1, <1>5, BeginPresentExchanged
<1>6. CASE DropFrame
  BY <1>1, <1>6, DropFrameExchanged
<1>7. CASE ShowFrame
  BY <1>1, <1>7, ShowFrameQueues
<1>8. CASE LoseFrame
  BY <1>1, <1>8, LoseFrameQueues
<1>9. CASE BeginIdle
  BY <1>1, <1>9, BeginIdleQueues
<1>10. CASE RefuseIdle
  BY <1>1, <1>10, RefuseIdleQueues
<1> QED
  BY <1>2, <1>3, <1>4, <1>5, <1>6, <1>7, <1>8, <1>9, <1>10 DEF Next, GPU

-----------------------------------------------------------------------------
(***************************************************************************)
(* As long as no executed frame is lost, whatever a queue waits for has    *)
(* been reached or is still to be signalled by the other one, and D3D11    *)
(* waits for every answer of D3D12.                                        *)
(***************************************************************************)
Answered(p, q, f) ==
    /\ \A v \in Nat : Has(q, Signal(v)) => f < v /\ Has(p, Wait(v))
    /\ \A v \in Nat : Has(p, Wait(v)) => f >= v \/ Has(q, Signal(v))
    /\ \A v \in Nat : Has(q, Wait(v)) => f >= v \/ Has(p, Signal(v))

Unlost ==
    mishaps \subseteq {"timeout", "idle"} => Answered(q11, q12, fence)

\* Where the commands of a queue go that executes its head.
LEMMA ShorterHas ==
    ASSUME NEW q \in Queues, Sorted(q), NEW r, Shorter(q, r)
    PROVE  /\ \A c : Has(q, c) <=> Has(r, c) \/ c = q[1]
           /\ \A v, w \in Nat : /\ q[1] \in {Signal(v), Wait(v)}
                                /\ Has(r, Signal(w)) \/ Has(r, Wait(w))
                                => v < w
<1>1. \A c : Has(q, c) <=> Has(r, c) \/ c = q[1]
  <2> TAKE c
  <2>1. Has(r, c) => Has(q, c)
    BY ShorterKeeps
  <2>2. c = q[1] => Has(q, c)
    BY DEF Has, Shorter
  <2>3. ASSUME NEW i \in DOMAIN q, q[i] = c PROVE Has(r, c) \/ c = q[1]
    <3>1. i = 1 \/ i > 1
      BY DEF Shorter
    <3> QED
      BY <2>3, <3>1 DEF Has, Shorter
  <2> QED
    BY <2>1, <2>2, <2>3 DEF Has
<1>2. ASSUME NEW v \in Nat, NEW w \in Nat, q[1] \in {Signal(v), Wait(v)},
             NEW i \in DOMAIN r, r[i] \in {Signal(w), Wait(w)}
      PROVE  v < w
  <2>1. /\ IsMark(q[1]) /\ q[1].arg = v
        /\ IsMark(r[i]) /\ r[i].arg = w
    BY <1>2, CommandFacts DEF IsMark
  <2> QED
    BY <2>1, HeadIsLeast
<1> QED
  BY <1>1, <1>2 DEF Has

\* The head of a queue, by its kind.
LEMMA HeadKinds ==
    ASSUME NEW c \in Commands, NEW f \in Nat, NEW g,
           c.op = "wait" => f >= c.arg,
           g = IF c.op = "signal" THEN c.arg ELSE f
    PROVE  \/ \E v \in Nat : c = Signal(v) /\ g = v
           \/ \E v \in Nat : c = Wait(v) /\ f >= v /\ g = f
           \/ /\ \A v : c # Signal(v) /\ c # Wait(v)
              /\ g = f
<1>1. CASE c.op = "signal"
  BY <1>1, CommandKinds
<1>2. CASE c.op = "wait"
  BY <1>2, CommandKinds
<1>3. CASE c.op \notin {"signal", "wait"}
  BY <1>3, CommandFacts
<1> QED
  BY <1>1, <1>2, <1>3

LEMMA SignalIsNotWait ==
    \A v, w : /\ Signal(v) # Wait(w)
              /\ Signal(v) = Signal(w) => v = w
              /\ Wait(v) = Wait(w) => v = w
              /\ Copy(v) # Signal(w) /\ Copy(v) # Wait(w)
              /\ Draw # Signal(v) /\ Draw # Wait(v)
BY CommandFacts

LEMMA Run11Answered ==
    ASSUME NEW p \in Queues, NEW q \in Queues, NEW f \in Nat, NEW n \in Nat,
           Exchange(p, q, f, n), Answered(p, q, f),
           NEW r, NEW g, Runs(p, r, f, g)
    PROVE  Answered(r, q, g)
<1>1. /\ Shorter(p, r) /\ Sorted(p) /\ Ahead(p, f)
      /\ p[1] \in Commands /\ 1 \in DOMAIN p
      /\ p[1].op = "wait" => f >= p[1].arg
      /\ g = IF p[1].op = "signal" THEN p[1].arg ELSE f
  BY DEF Runs, Exchange, Shorter
<1>2. /\ \A c : Has(p, c) <=> Has(r, c) \/ c = p[1]
      /\ \A v, w \in Nat : /\ p[1] \in {Signal(v), Wait(v)}
                           /\ Has(r, Signal(w)) \/ Has(r, Wait(w))
                           => v < w
  BY <1>1, ShorterHas
<1>3. ASSUME NEW v \in Nat, p[1] = Signal(v), g = v PROVE Answered(r, q, g)
  <2>1. f < v
    BY <1>1, <1>3, CommandFacts DEF Ahead
  <2>2. ASSUME NEW u \in Nat, Has(q, Signal(u)) PROVE g < u /\ Has(r, Wait(u))
    <3>1. Has(p, Wait(u))
      BY <2>2 DEF Answered
    <3>2. Has(r, Wait(u))
      BY <1>2, <1>3, <3>1, SignalIsNotWait
    <3> QED
      BY <1>2, <1>3, <3>2
  <2>3. ASSUME NEW u \in Nat, Has(r, Wait(u)) PROVE g >= u \/ Has(q, Signal(u))
    <3>1. f >= u \/ Has(q, Signal(u))
      BY <1>2, <2>3 DEF Answered
    <3> QED
      BY <1>3, <2>1, <3>1
  <2>4. ASSUME NEW u \in Nat, Has(q, Wait(u)) PROVE g >= u \/ Has(r, Signal(u))
    <3>1. f >= u \/ Has(p, Signal(u))
      BY <2>4 DEF Answered
    <3>2. Has(p, Signal(u)) => Has(r, Signal(u)) \/ u = v
      BY <1>2, <1>3, SignalIsNotWait
    <3> QED
      BY <1>3, <2>1, <3>1, <3>2
  <2> QED
    BY <2>2, <2>3, <2>4 DEF Answered
<1>4. ASSUME NEW v \in Nat, p[1] = Wait(v), f >= v, g = f
      PROVE  Answered(r, q, g)
  <2>1. \A u \in Nat : Has(q, Signal(u)) => u # v
    BY <1>4 DEF Answered
  <2>2. \A x : Has(p, x) <=> Has(r, x) \/ x = Wait(v)
    BY <1>2, <1>4
  <2> QED
    BY <1>4, <2>1, <2>2, SignalIsNotWait DEF Answered
<1>5. ASSUME \A v : p[1] # Signal(v) /\ p[1] # Wait(v), g = f
      PROVE  Answered(r, q, g)
  <2>1. \A v : /\ Has(p, Signal(v)) <=> Has(r, Signal(v))
               /\ Has(p, Wait(v)) <=> Has(r, Wait(v))
    BY <1>2, <1>5
  <2> QED
    BY <1>5, <2>1 DEF Answered
<1> QED
  BY <1>1, <1>3, <1>4, <1>5, HeadKinds

LEMMA Run12Answered ==
    ASSUME NEW p \in Queues, NEW q \in Queues, NEW f \in Nat, NEW n \in Nat,
           Exchange(p, q, f, n), Answered(p, q, f),
           NEW r, NEW g, Runs(q, r, f, g)
    PROVE  Answered(p, r, g)
<1>1. /\ Shorter(q, r) /\ Sorted(q)
      /\ q[1] \in Commands /\ 1 \in DOMAIN q
      /\ q[1].op = "wait" => f >= q[1].arg
      /\ g = IF q[1].op = "signal" THEN q[1].arg ELSE f
  BY DEF Runs, Exchange, Shorter
<1>2. /\ \A c : Has(q, c) <=> Has(r, c) \/ c = q[1]
      /\ \A v, w \in Nat : /\ q[1] \in {Signal(v), Wait(v)}
                           /\ Has(r, Signal(w)) \/ Has(r, Wait(w))
                           => v < w
  BY <1>1, ShorterHas
<1>3. ASSUME NEW v \in Nat, q[1] = Signal(v), g = v PROVE Answered(p, r, g)
  <2>1. f < v
    BY <1>2, <1>3 DEF Answered
  <2>2. ASSUME NEW u \in Nat, Has(r, Signal(u)) PROVE g < u /\ Has(p, Wait(u))
    <3>1. Has(p, Wait(u))
      BY <1>2, <2>2 DEF Answered
    <3> QED
      BY <1>2, <1>3, <2>2, <3>1
  <2>3. ASSUME NEW u \in Nat, Has(p, Wait(u)) PROVE g >= u \/ Has(r, Signal(u))
    <3>1. f >= u \/ Has(q, Signal(u))
      BY <2>3 DEF Answered
    <3>2. Has(q, Signal(u)) => Has(r, Signal(u)) \/ u = v
      BY <1>2, <1>3, SignalIsNotWait
    <3> QED
      BY <1>3, <2>1, <3>1, <3>2
  <2>4. ASSUME NEW u \in Nat, Has(r, Wait(u)) PROVE g >= u \/ Has(p, Signal(u))
    <3>1. f >= u \/ Has(p, Signal(u))
      BY <1>2, <2>4 DEF Answered
    <3> QED
      BY <1>3, <2>1, <3>1
  <2> QED
    BY <2>2, <2>3, <2>4 DEF Answered
<1>4. ASSUME NEW v \in Nat, q[1] = Wait(v), f >= v, g = f
      PROVE  Answered(p, r, g)
  <2>1. \A x : Has(q, x) <=> Has(r, x) \/ x = Wait(v)
    BY <1>2, <1>4
  <2> QED
    BY <1>4, <2>1, SignalIsNotWait DEF Answered
<1>5. ASSUME \A v : q[1] # Signal(v) /\ q[1] # Wait(v), g = f
      PROVE  Answered(p, r, g)
  <2>1. \A v : /\ Has(q, Signal(v)) <=> Has(r, Signal(v))
               /\ Has(q, Wait(v)) <=> Has(r, Wait(v))
    BY <1>2, <1>5
  <2> QED
    BY <1>5, <2>1 DEF Answered
<1> QED
  BY <1>1, <1>3, <1>4, <1>5, HeadKinds

\* A frame or an idle wait, whose marks are these.
LEMMA TurnAnswered ==
    ASSUME NEW p, NEW q, NEW f \in Nat, NEW n \in Nat, f < n,
           Answered(p, q, f), NEW b, NEW d,
           \A v : /\ Has(b, Signal(v)) <=> Has(p, Signal(v)) \/ v = n
                  /\ Has(b, Wait(v)) <=> Has(p, Wait(v)) \/ v = n + 1
                  /\ Has(d, Signal(v)) <=> Has(q, Signal(v)) \/ v = n + 1
                  /\ Has(d, Wait(v)) <=> Has(q, Wait(v)) \/ v = n
    PROVE  Answered(b, d, f)
<1>1. \A v \in Nat : Has(d, Signal(v)) => f < v /\ Has(b, Wait(v))
  BY DEF Answered
<1>2. \A v \in Nat : Has(b, Wait(v)) => f >= v \/ Has(d, Signal(v))
  BY DEF Answered
<1>3. \A v \in Nat : Has(d, Wait(v)) => f >= v \/ Has(b, Signal(v))
  BY DEF Answered
<1> QED
  BY <1>1, <1>2, <1>3 DEF Answered

LEMMA DrawnHas ==
    ASSUME NEW p \in Queues
    PROVE  \A v : /\ Has(Drawn(p), Signal(v)) <=> Has(p, Signal(v))
                  /\ Has(Drawn(p), Wait(v)) <=> Has(p, Wait(v))
<1>1. CASE Drawn(p) = p
  BY <1>1
<1>2. CASE Drawn(p) = Append(p, Draw)
  <2>1. Longer(p, Append(p, Draw), Draw, Len(p) + 1)
    BY CommandTypes, AppendLemma
  <2>2. \A x : Has(Append(p, Draw), x) <=> Has(p, x) \/ x = Draw
    BY <2>1, LongerHas
  <2> QED
    BY <1>2, <2>2, SignalIsNotWait
<1> QED
  BY <1>1, <1>2 DEF Drawn

\* A frame or an idle wait that is given up after its first signal.
LEMMA PartAnswered ==
    ASSUME NEW p \in Queues, NEW q \in Queues, NEW f \in Nat,
           NEW n \in 1 .. MaxValue, Answered(p, q, f)
    PROVE  /\ Answered(Append(p, Signal(n)), q, f)
           /\ Answered(Append(p, Signal(n)), Append(q, Wait(n)), f)
<1> DEFINE b == Append(p, Signal(n))
           d == Append(q, Wait(n))
<1>1. /\ Longer(p, b, Signal(n), Len(p) + 1)
      /\ Longer(q, d, Wait(n), Len(q) + 1)
  BY CommandTypes, AppendLemma
<1> HIDE DEF b, d
<1>2. \A x : /\ Has(b, x) <=> Has(p, x) \/ x = Signal(n)
             /\ Has(d, x) <=> Has(q, x) \/ x = Wait(n)
  BY <1>1, LongerHas
<1>3. \A v : /\ Has(b, Signal(v)) <=> Has(p, Signal(v)) \/ v = n
             /\ Has(b, Wait(v)) <=> Has(p, Wait(v))
             /\ Has(d, Signal(v)) <=> Has(q, Signal(v))
             /\ Has(d, Wait(v)) <=> Has(q, Wait(v)) \/ v = n
  BY <1>2, SignalIsNotWait
<1>4. Answered(b, q, f) /\ Answered(b, d, f)
  BY <1>3 DEF Answered
<1> QED
  BY <1>4 DEF b, d

LEMMA InitUnlost == Init => Unlost
<1>1. \A x : ~Has(<<>>, x)
  BY DEF Has
<1> QED
  BY <1>1 DEF Init, Unlost, Answered

LEMMA ShowFrameUnlost ==
    Typed /\ Exchanged /\ Answered(q11, q12, fence) /\ ShowFrame
        => Answered(q11, q12, fence)'
<1> SUFFICES ASSUME Typed, Exchanged, Answered(q11, q12, fence), ShowFrame
             PROVE  Answered(q11', q12', fence')
  OBVIOUS
<1>1. /\ \A x : Has(q11', x) <=> \/ Has(q11, x)
                                 \/ x \in {Signal(next), Wait(next + 1)}
      /\ \A x : Has(q12', x) <=>
            \/ Has(q12, x)
            \/ x \in {Wait(next), Copy(index), Signal(next + 1)}
  BY ShowFrameQueues
<1>2. fence \in Nat /\ next \in Nat /\ fence < next /\ fence' = fence
  BY TypedFacts DEF Typed, Exchanged, Exchange, ShowFrame
<1>3. \A v : /\ Has(q11', Signal(v)) <=> Has(q11, Signal(v)) \/ v = next
             /\ Has(q11', Wait(v)) <=> Has(q11, Wait(v)) \/ v = next + 1
             /\ Has(q12', Signal(v)) <=> Has(q12, Signal(v)) \/ v = next + 1
             /\ Has(q12', Wait(v)) <=> Has(q12, Wait(v)) \/ v = next
  BY <1>1, SignalIsNotWait
<1> QED
  BY <1>2, <1>3, TurnAnswered

LEMMA BeginIdleUnlost ==
    Typed /\ Exchanged /\ Answered(q11, q12, fence) /\ BeginIdle
        => Answered(q11, q12, fence)'
<1> SUFFICES ASSUME Typed, Exchanged, Answered(q11, q12, fence), BeginIdle
             PROVE  Answered(q11', q12', fence')
  OBVIOUS
<1>1. /\ \A x : Has(q11', x) <=> \/ Has(Drawn(q11), x)
                                 \/ x \in {Signal(next), Wait(next + 1)}
      /\ \A x : Has(q12', x) <=> \/ Has(q12, x)
                                 \/ x \in {Wait(next), Signal(next + 1)}
  BY BeginIdleQueues
<1>2. fence \in Nat /\ next \in Nat /\ fence < next /\ fence' = fence
      /\ q11 \in Queues
  BY TypedFacts DEF Typed, Exchanged, Exchange, BeginIdle
<1>3. \A v : /\ Has(q11', Signal(v)) <=> Has(q11, Signal(v)) \/ v = next
             /\ Has(q11', Wait(v)) <=> Has(q11, Wait(v)) \/ v = next + 1
             /\ Has(q12', Signal(v)) <=> Has(q12, Signal(v)) \/ v = next + 1
             /\ Has(q12', Wait(v)) <=> Has(q12, Wait(v)) \/ v = next
  BY <1>1, <1>2, SignalIsNotWait, DrawnHas
<1> QED
  BY <1>2, <1>3, TurnAnswered

LEMMA DrawnAnswered ==
    ASSUME Typed, Answered(q11, q12, fence)
    PROVE  Answered(Drawn(q11), q12, fence)
<1>1. q11 \in Queues
  BY TypedFacts DEF Typed
<1> QED
  BY <1>1, DrawnHas DEF Answered

LEMMA NextUnlost == Typed /\ Traced /\ Unlost /\ [Next]_vars => Unlost'
<1> SUFFICES ASSUME Typed, Traced, Unlost, [Next]_vars,
                    mishaps' \subseteq {"timeout", "idle"}
             PROVE  Answered(q11', q12', fence')
  BY DEF Unlost
<1>1. Exchanged /\ Answered(q11, q12, fence)
  BY MishapsStay DEF Traced, Unlost
<1>2. /\ q11 \in Queues /\ q12 \in Queues /\ fence \in Nat /\ next \in Nat
      /\ Exchange(q11, q12, fence, next)
  BY <1>1, TypedFacts DEF Typed, Exchanged
<1>3. CASE UNCHANGED <<fence, q11, q12>>
  BY <1>1, <1>3
<1>4. Acquire \/ TimeOut \/ SleepUntilIdle \/ Release \/ Rebuild
      \/ SwitchTarget \/ UNCHANGED vars => UNCHANGED <<fence, q11, q12>>
  BY DEF Acquire, Awake, TimeOut, SleepUntilIdle, Release, Rebuild,
         SwitchTarget, vars
<1>5. CASE Run11
  <2>1. Runs(q11, q11', fence, fence') /\ q12' = q12
    BY <1>5, Run11Facts
  <2>2. Answered(q11', q12, fence')
    BY <1>1, <1>2, <2>1, Run11Answered
  <2> QED
    BY <2>1, <2>2
<1>6. CASE Run12
  <2>1. Runs(q12, q12', fence, fence') /\ q11' = q11
    BY <1>6, Run12Facts
  <2>2. Answered(q11, q12', fence')
    BY <1>1, <1>2, <2>1, Run12Answered
  <2> QED
    BY <2>1, <2>2
<1>7. CASE BeginPresent
  <2>1. q11' = Drawn(q11) /\ UNCHANGED <<fence, q12>>
    BY <1>7 DEF BeginPresent
  <2> QED
    BY <1>1, <2>1, DrawnAnswered
<1>8. CASE DropFrame
  <2>1. next \in 1 .. MaxValue
    BY <1>8, TypedFacts DEF Typed, Room, DropFrame
  <2>2. /\ fence' = fence
        /\ \/ q11' = q11 /\ q12' = q12
           \/ q11' = Append(q11, Signal(next)) /\ q12' = q12
           \/ /\ q11' = Append(q11, Signal(next))
              /\ q12' = Append(q12, Wait(next))
    BY <1>8 DEF DropFrame
  <2> QED
    BY <1>1, <1>2, <2>1, <2>2, PartAnswered
<1>9. CASE ShowFrame
  BY <1>1, <1>9, ShowFrameUnlost
<1>10. CASE LoseFrame
  <2>1. "present" \in mishaps'
    BY <1>1, <1>10, LoseFrameQueues
  <2> QED
    BY <2>1
<1>11. CASE BeginIdle
  BY <1>1, <1>11, BeginIdleUnlost
<1>12. CASE RefuseIdle
  <2>1. /\ Drawn(q11) \in Queues
        /\ \/ q11' = Drawn(q11) /\ q12' = q12
           \/ q11' = Append(Drawn(q11), Signal(next)) /\ q12' = q12
           \/ /\ q11' = Append(Drawn(q11), Signal(next))
              /\ q12' = Append(q12, Wait(next))
    BY <1>1, <1>12, RefuseIdleQueues
  <2>2. next \in 1 .. MaxValue /\ fence' = fence
    BY <1>12, TypedFacts DEF Typed, RefuseIdle
  <2>3. Answered(Drawn(q11), q12, fence)
    BY <1>1, DrawnAnswered
  <2>4. /\ Answered(Append(Drawn(q11), Signal(next)), q12, fence)
        /\ Answered(Append(Drawn(q11), Signal(next)), Append(q12, Wait(next)),
                    fence)
    BY <1>2, <2>1, <2>2, <2>3, PartAnswered
  <2> QED
    BY <2>1, <2>2, <2>3, <2>4
<1> QED
  BY <1>3, <1>4, <1>5, <1>6, <1>7, <1>8, <1>9, <1>10, <1>11, <1>12 DEF Next

-----------------------------------------------------------------------------
(***************************************************************************)
(* What follows.                                                           *)
(***************************************************************************)

\* The head of a queue of commands.
LEMMA HeadOf ==
    ASSUME NEW q \in Queues, q # <<>>
    PROVE  1 \in DOMAIN q /\ Head(q) = q[1] /\ q[1] \in Commands
           /\ Has(q, q[1])
<1>1. Head(q) = q[1] /\ q[1] \in Commands /\ Shorter(q, Tail(q))
  BY TailLemma
<1> QED
  BY <1>1 DEF Shorter, Has

LEMMA ExchangeNotTorn ==
    ASSUME NEW p \in Queues, NEW q \in Queues, InTurns(p, q),
           1 \in DOMAIN p, p[1] = Draw, 1 \in DOMAIN q, q[1].op = "copy"
    PROVE  FALSE
<1>1. 1 - 1 \notin DOMAIN q
  <2>1. \A i \in DOMAIN q : i >= 1
    BY Elements
  <2> QED
    BY <2>1
<1>2. PICK m \in DOMAIN p : /\ p[m] = Wait(q[1 + 1].arg)
                            /\ NotDrawnBefore(p, m)
  BY <1>1 DEF InTurns
<1>3. m \in Nat /\ m >= 1
  BY Elements
<1>4. m # 1
  BY <1>2, CommandFacts
<1> QED
  BY <1>2, <1>3, <1>4 DEF NotDrawnBefore

LEMMA NotTorn == Typed /\ Traced => FrameNotTorn
<1> SUFFICES ASSUME Typed, Traced, ~FrameNotTorn PROVE FALSE
  OBVIOUS
<1>1. /\ mishaps \subseteq {"timeout", "idle", "present"}
      /\ q11 # <<>> /\ Head(q11) = Draw
      /\ q12 # <<>> /\ Head(q12).op = "copy"
  BY DEF FrameNotTorn
<1>2. q11 \in Queues /\ q12 \in Queues /\ InTurns(q11, q12)
  BY <1>1, TypedFacts DEF Typed, Traced, Exchanged, Exchange
<1> QED
  BY <1>1, <1>2, HeadOf, ExchangeNotTorn

\* A head that is blocked is a wait for a value that is ahead.
LEMMA Blocked ==
    ASSUME NEW q \in Queues, q # <<>>, ~Runnable(q), fence \in Nat
    PROVE  \E v \in Nat : /\ q[1] = Wait(v) /\ Has(q, Wait(v)) /\ fence < v
<1>1. /\ Head(q) = q[1] /\ q[1] \in Commands /\ Has(q, q[1])
  BY HeadOf
<1>2. q[1].op = "wait" /\ ~ (fence >= q[1].arg)
  BY <1>1 DEF Runnable
<1>3. q[1] = Wait(q[1].arg) /\ q[1].arg \in Nat
  BY <1>1, <1>2, CommandKinds
<1> QED
  BY <1>1, <1>2, <1>3

\* What is in a queue is its head or comes behind it.
LEMMA BehindHead ==
    ASSUME NEW q \in Queues, Sorted(q), q # <<>>, NEW v \in Nat, NEW w \in Nat,
           q[1] = Wait(v), Has(q, Signal(w))
    PROVE  v < w
<1>1. Shorter(q, Tail(q))
  BY TailLemma
<1>2. Has(Tail(q), Signal(w)) \/ Signal(w) = Wait(v)
  BY <1>1, ShorterHas
<1> QED
  BY <1>1, <1>2, ShorterHas, SignalIsNotWait

LEMMA Advance == Typed /\ Traced /\ Unlost => QueuesAdvance
<1> SUFFICES ASSUME Typed, Traced, Unlost,
                    mishaps \subseteq {"timeout", "idle"},
                    q11 # <<>> \/ q12 # <<>>,
                    ~Runnable(q11), ~Runnable(q12)
             PROVE  FALSE
  BY DEF QueuesAdvance
<1>1. /\ q11 \in Queues /\ q12 \in Queues /\ fence \in Nat
      /\ Sorted(q11) /\ Sorted(q12)
      /\ Answered(q11, q12, fence)
  BY TypedFacts DEF Typed, Traced, Unlost, Exchanged, Exchange
<1>2. \A x : ~Has(<<>>, x)
  BY DEF Has
<1>3. \A v \in Nat : Has(q11, Wait(v)) /\ fence < v => Has(q12, Signal(v))
  BY <1>1 DEF Answered
<1>4. \A v \in Nat : Has(q12, Wait(v)) /\ fence < v => Has(q11, Signal(v))
  BY <1>1 DEF Answered
<1>5. q11 # <<>> /\ q12 # <<>>
  BY <1>1, <1>2, <1>3, <1>4, Blocked
<1>6. PICK v \in Nat : q11[1] = Wait(v) /\ Has(q11, Wait(v)) /\ fence < v
  BY <1>1, <1>5, Blocked
<1>7. PICK w \in Nat : q12[1] = Wait(w) /\ Has(q12, Wait(w)) /\ fence < w
  BY <1>1, <1>5, Blocked
<1>8. Has(q12, Signal(v)) /\ Has(q11, Signal(w))
  BY <1>3, <1>4, <1>6, <1>7
<1>9. w < v /\ v < w
  BY <1>1, <1>5, <1>6, <1>7, <1>8, BehindHead
<1> QED
  BY <1>9

-----------------------------------------------------------------------------
(***************************************************************************)
(* An idle wait.  As long as no wait timed out, the event is set only for  *)
(* the one who sleeps on it, and until then the last command of D3D12 is   *)
(* the signal that it waits for, behind which nothing is drawn or copied.  *)
(***************************************************************************)
Quiet(p, q) == ~Pending(p, {"draw"}) /\ ~Pending(q, {"copy", "lost"})

Finish(p, q, f, n) ==
    /\ \E l \in DOMAIN q : q[l] = Signal(n - 1) /\ \A i \in DOMAIN q : i <= l
    /\ \A d \in DOMAIN p : p[d] = Draw =>
          \E s \in DOMAIN p : d < s /\ p[s] = Signal(n - 2)
    /\ f < n - 1

\* Who sleeps, and on which value.
Asleep == phase \in {"acquiring", "idling"} /\ ~event
Awaited == IF phase = "acquiring" THEN used[index] ELSE next - 1

Listening == armed = IF Asleep THEN {Awaited} ELSE {}

Attentive ==
    /\ Listening
    /\ event => phase \in {"acquiring", "idling"}

Idling ==
    /\ Attentive
    /\ phase \in {"queued", "idling"} =>
          \/ Quiet(q11, q12)
          \/ Finish(q11, q12, fence, next) /\ ~event
    /\ phase = "released" => Quiet(q11, q12)

Punctual == mishaps \subseteq {"idle", "present"} => Idling

LEMMA ShorterQuiet ==
    ASSUME NEW q, NEW r, Shorter(q, r), NEW ops, Pending(r, ops)
    PROVE  Pending(q, ops)
BY DEF Shorter, Pending

LEMMA Run11Finish ==
    ASSUME NEW p \in Queues, NEW q \in Queues, NEW f \in Nat,
           NEW n \in Nat, n > 2, Exchange(p, q, f, n), Finish(p, q, f, n),
           NEW r, NEW g, Runs(p, r, f, g)
    PROVE  Finish(r, q, g, n)
<1>1. /\ Shorter(p, r) /\ 1 \in DOMAIN p /\ p[1] \in Commands
      /\ g = IF p[1].op = "signal" THEN p[1].arg ELSE f
  BY DEF Runs, Shorter
<1>2. g < n - 1
  <2>1. CASE p[1].op = "signal"
    <3>1. p[1] = Signal(g) /\ g \in Nat /\ g = p[1].arg
      BY <1>1, <2>1, CommandKinds
    <3>2. g < n
      BY <1>1, <2>1, <3>1 DEF Exchange, Within, IsMark
    <3>3. Has(p, Signal(g)) /\ Has(q, Signal(n - 1))
      BY <1>1, <3>1 DEF Has, Finish
    <3>4. g # n - 1
      BY <3>1, <3>3 DEF Exchange, Apart
    <3> QED
      BY <3>1, <3>2, <3>4
  <2>2. CASE p[1].op # "signal"
    BY <1>1, <2>2 DEF Finish
  <2> QED
    BY <2>1, <2>2
<1>3. ASSUME NEW d \in DOMAIN r, r[d] = Draw
      PROVE  \E s \in DOMAIN r : d < s /\ r[s] = Signal(n - 2)
  <2>1. d + 1 \in DOMAIN p /\ p[d + 1] = Draw /\ d \in Nat
    BY <1>1, <1>3 DEF Shorter
  <2>2. PICK s \in DOMAIN p : d + 1 < s /\ p[s] = Signal(n - 2)
    BY <2>1 DEF Finish
  <2>3. s \in Nat /\ s > 1
    BY <2>1, <2>2, Elements
  <2>4. s - 1 \in DOMAIN r /\ r[s - 1] = p[s]
    BY <1>1, <2>3 DEF Shorter
  <2>5. d < s - 1
    BY <2>1, <2>2, <2>3
  <2> QED
    BY <2>2, <2>4, <2>5
<1> QED
  BY <1>2, <1>3 DEF Finish

LEMMA Run12Finish ==
    ASSUME NEW p \in Queues, NEW q \in Queues, NEW f \in Nat,
           NEW n \in Nat, n > 2, Exchange(p, q, f, n), Finish(p, q, f, n),
           NEW r, NEW g, Runs(q, r, f, g)
    PROVE  Finish(p, r, g, n) \/ Quiet(p, r)
<1>1. /\ Shorter(q, r) /\ 1 \in DOMAIN q /\ q[1] \in Commands
      /\ g = IF q[1].op = "signal" THEN q[1].arg ELSE f
  BY DEF Runs, Shorter
<1>2. n - 1 \in Nat /\ n - 2 \in Nat /\ (n - 1) - 1 = n - 2
  OBVIOUS
<1>3. PICK l \in DOMAIN q : q[l] = Signal(n - 1) /\ \A i \in DOMAIN q : i <= l
  BY DEF Finish
<1>4. l \in Nat /\ l >= 1
  BY Elements
<1>5. CASE l = 1
  <2>1. q[1].op = "signal" /\ q[1].arg = n - 1
    BY <1>3, <1>5, CommandFacts
  <2>2. \A i \in DOMAIN q : i = 1
    <3>1. \A i \in DOMAIN q : i \in Nat /\ i >= 1
      BY Elements
    <3> QED
      BY <1>3, <1>5, <3>1
  <2>3. ~Pending(r, {"copy", "lost"})
    BY <1>1, <2>2 DEF Shorter, Pending
  <2>4. f >= n - 2
    BY <1>1, <1>2, <2>1, <2>2 DEF Exchange, Paired
  <2>5. ASSUME NEW d \in DOMAIN p, p[d] = Draw PROVE FALSE
    <3>1. PICK s \in DOMAIN p : p[s] = Signal(n - 2)
      BY <2>5 DEF Finish
    <3>2. p[s].op = "signal" /\ p[s].arg = n - 2
      BY <3>1, CommandFacts
    <3>3. f < n - 2
      BY <3>2 DEF Exchange, Ahead
    <3> QED
      BY <1>2, <2>4, <3>3
  <2>6. ~Pending(p, {"draw"})
    <3> SUFFICES ASSUME NEW d \in DOMAIN p, p[d].op = "draw" PROVE FALSE
      BY DEF Pending
    <3>1. p[d] \in Commands
      BY Elements
    <3>2. p[d] = Draw
      BY <3>1, CommandKinds
    <3> QED
      BY <2>5, <3>2
  <2> QED
    BY <2>3, <2>6 DEF Quiet
<1>6. CASE l > 1
  <2>1. l - 1 \in DOMAIN r /\ r[l - 1] = Signal(n - 1)
    BY <1>1, <1>3, <1>6 DEF Shorter
  <2>2. \A i \in DOMAIN r : i <= l - 1
    <3> TAKE i \in DOMAIN r
    <3>1. i + 1 \in DOMAIN q /\ i \in Nat
      BY <1>1 DEF Shorter
    <3> QED
      BY <1>3, <1>4, <3>1
  <2>3. g < n - 1
    <3>1. CASE q[1].op = "signal"
      <4>1. IsMark(q[1]) /\ IsMark(q[l]) /\ q[l].arg = n - 1
        BY <1>3, <3>1, CommandFacts DEF IsMark
      <4> QED
        BY <1>1, <1>6, <3>1, <4>1 DEF Exchange, Sorted
    <3>2. CASE q[1].op # "signal"
      BY <1>1, <3>2 DEF Finish
    <3> QED
      BY <3>1, <3>2
  <2> QED
    BY <2>1, <2>2, <2>3 DEF Finish
<1> QED
  BY <1>4, <1>5, <1>6

\* Whatever the GPU executes, the event is set for the sleeper only.
LEMMA ExecuteAttentive ==
    ASSUME Typed, Attentive, NEW c \in Commands, Execute(c),
           UNCHANGED <<next, used, index, phase>>
    PROVE  /\ Attentive'
           /\ ~event /\ phase \in {"queued", "idling"}
              /\ (c.op = "signal" => c.arg < next - 1) => ~event'
<1>1. Awaited \in Nat
  <2>1. used[index] \in Nat /\ next - 1 \in Nat
    BY TypedFacts DEF Typed
  <2> QED
    BY <2>1 DEF Awaited
<1>2. Awaited' = Awaited
  BY DEF Awaited
<1>3. event \in BOOLEAN
  BY DEF Typed, TypeOK
<1>4. CASE c.op = "signal"
  <2>1. /\ event' = (event \/ \E v \in armed : v <= c.arg)
        /\ armed' = {v \in armed : v > c.arg}
    BY <1>4 DEF Execute
  <2>2. c.arg \in Nat
    BY <1>4, CommandKinds
  <2>3. CASE Asleep
    <3>1. armed = {Awaited} /\ event = FALSE /\ phase \in {"acquiring", "idling"}
      BY <1>3, <2>3 DEF Attentive, Listening, Asleep
    <3>2. CASE Awaited <= c.arg
      <4>1. event' /\ armed' = {}
        <5>1. \A v \in armed : v = Awaited
          BY <3>1
        <5>2. \E v \in armed : v <= c.arg
          BY <3>1, <3>2
        <5>3. \A v \in armed : ~ (v > c.arg)
          BY <1>1, <2>2, <3>2, <5>1
        <5>4. armed' = {}
          BY <2>1, <5>3
        <5> QED
          BY <2>1, <5>2, <5>4
      <4>2. ~Asleep'
        BY <4>1 DEF Asleep
      <4>3. phase = "idling" => Awaited = next - 1
        BY DEF Awaited
      <4>4. phase = "queued" => FALSE
        BY <3>1
      <4> QED
        BY <1>4, <2>2, <3>1, <3>2, <4>1, <4>2, <4>3, <4>4, TypedFacts
        DEF Attentive, Listening, Typed
    <3>3. CASE ~ (Awaited <= c.arg)
      <4>1. event' = FALSE /\ armed' = {Awaited}
        <5>1. \A v \in armed : v = Awaited
          BY <3>1
        <5>2. ~ \E v \in armed : v <= c.arg
          BY <3>3, <5>1
        <5>3. \A v \in armed : v > c.arg
          BY <1>1, <2>2, <3>3, <5>1
        <5>4. armed' = armed
          BY <2>1, <5>3
        <5>5. event' = FALSE
          BY <2>1, <3>1, <5>2
        <5> QED
          BY <3>1, <5>4, <5>5
      <4>2. Asleep'
        BY <3>1, <4>1 DEF Asleep
      <4> QED
        BY <1>2, <4>1, <4>2 DEF Attentive, Listening
    <3> QED
      BY <3>2, <3>3
  <2>4. CASE ~Asleep
    <3>1. armed = {}
      BY <2>4 DEF Attentive, Listening
    <3>2. event' = event /\ armed' = {}
      BY <1>3, <2>1, <3>1
    <3>3. ~Asleep'
      BY <2>4, <3>2 DEF Asleep
    <3> QED
      BY <3>2, <3>3 DEF Attentive, Listening
  <2> QED
    BY <2>3, <2>4
<1>5. CASE c.op # "signal"
  <2>1. UNCHANGED <<event, armed>>
    BY <1>5 DEF Execute
  <2>2. Asleep' = Asleep
    BY <2>1 DEF Asleep
  <2> QED
    BY <1>2, <2>1, <2>2 DEF Attentive, Listening
<1> QED
  BY <1>4, <1>5

LEMMA Run11Idling == Typed /\ Exchanged /\ Idling /\ Run11 => Idling'
<1> SUFFICES ASSUME Typed, Exchanged, Idling, Run11 PROVE Idling'
  OBVIOUS
<1>1. /\ Runs(q11, q11', fence, fence') /\ Execute(q11[1])
      /\ UNCHANGED <<next, q12, used, index, phase, mishaps>>
      /\ Shorter(q11, q11') /\ q11[1] \in Commands /\ 1 \in DOMAIN q11
  BY Run11Facts DEF Runs, Shorter
<1>2. /\ q11 \in Queues /\ q12 \in Queues /\ fence \in Nat /\ next \in Nat
      /\ Exchange(q11, q12, fence, next)
  BY TypedFacts DEF Typed, Exchanged
<1>3. /\ Attentive'
      /\ ~event /\ phase \in {"queued", "idling"}
         /\ (q11[1].op = "signal" => q11[1].arg < next - 1) => ~event'
  BY <1>1, ExecuteAttentive DEF Idling
<1>4. Quiet(q11, q12) => Quiet(q11', q12)
  BY <1>1, ShorterQuiet DEF Quiet
<1>5. ASSUME phase \in {"queued", "idling"}, ~event,
             Finish(q11, q12, fence, next)
      PROVE  Finish(q11', q12, fence', next) /\ ~event'
  <2>1. next > 2
    BY <1>5 DEF Typed, Room
  <2>2. Finish(q11', q12, fence', next)
    BY <1>1, <1>2, <1>5, <2>1, Run11Finish
  <2>3. q11[1].op = "signal" => q11[1].arg < next - 1
    BY <1>1, <2>2 DEF Runs, Finish
  <2> QED
    BY <1>3, <1>5, <2>2, <2>3
<1> QED
  BY <1>1, <1>3, <1>4, <1>5 DEF Idling

LEMMA Run12Idling == Typed /\ Exchanged /\ Idling /\ Run12 => Idling'
<1> SUFFICES ASSUME Typed, Exchanged, Idling, Run12 PROVE Idling'
  OBVIOUS
<1>1. /\ Runs(q12, q12', fence, fence') /\ Execute(q12[1])
      /\ UNCHANGED <<next, q11, used, index, phase, mishaps>>
      /\ Shorter(q12, q12') /\ q12[1] \in Commands /\ 1 \in DOMAIN q12
  BY Run12Facts DEF Runs, Shorter
<1>2. /\ q11 \in Queues /\ q12 \in Queues /\ fence \in Nat /\ next \in Nat
      /\ Exchange(q11, q12, fence, next)
  BY TypedFacts DEF Typed, Exchanged
<1>3. /\ Attentive'
      /\ ~event /\ phase \in {"queued", "idling"}
         /\ (q12[1].op = "signal" => q12[1].arg < next - 1) => ~event'
  BY <1>1, ExecuteAttentive DEF Idling
<1>4. Quiet(q11, q12) => Quiet(q11, q12')
  BY <1>1, ShorterQuiet DEF Quiet
<1>5. ASSUME phase \in {"queued", "idling"}, ~event,
             Finish(q11, q12, fence, next), ~Quiet(q11, q12')
      PROVE  Finish(q11, q12', fence', next) /\ ~event'
  <2>1. next > 2
    BY <1>5 DEF Typed, Room
  <2>2. Finish(q11, q12', fence', next)
    BY <1>1, <1>2, <1>5, <2>1, Run12Finish
  <2>3. q12[1].op = "signal" => q12[1].arg < next - 1
    BY <1>1, <2>2 DEF Runs, Finish
  <2> QED
    BY <1>3, <1>5, <2>2, <2>3
<1> QED
  BY <1>1, <1>3, <1>4, <1>5 DEF Idling

\* Nobody sleeps while the thread is in one of these places.
LEMMA NobodySleeps ==
    ASSUME Typed, Attentive,
           phase \in {"game", "acquired", "queued", "released"}
    PROVE  armed = {} /\ event = FALSE
BY DEF Typed, TypeOK, Attentive, Listening, Asleep

LEMMA AwakeIdling ==
    Idling /\ (Acquire \/ Release) => Idling'
<1> SUFFICES ASSUME Idling, Acquire \/ Release PROVE Idling'
  OBVIOUS
<1>1. /\ event /\ event' = FALSE /\ armed' = armed
      /\ UNCHANGED <<q11, q12>>
      /\ \/ phase = "acquiring" /\ phase' = "acquired"
         \/ phase = "idling" /\ phase' = "released"
  BY DEF Acquire, Release, Awake
<1>2. armed = {}
  BY <1>1 DEF Idling, Attentive, Listening, Asleep
<1>3. Attentive'
  BY <1>1, <1>2 DEF Attentive, Listening, Asleep
<1>4. phase' = "released" => Quiet(q11, q12)
  BY <1>1 DEF Idling
<1> QED
  BY <1>1, <1>3, <1>4 DEF Idling

\* Whatever returns to the game leaves nobody asleep.
LEMMA ReturnIdling ==
    ASSUME Typed, Idling, phase' = "game",
           phase \in {"game", "acquired", "queued", "released"},
           UNCHANGED <<event, armed>>
    PROVE  Idling'
BY NobodySleeps DEF Idling, Attentive, Listening, Asleep

LEMMA BeginPresentIdling == Typed /\ Idling /\ BeginPresent => Idling'
<1> SUFFICES ASSUME Typed, Idling, BeginPresent PROVE Idling'
  OBVIOUS
<1>1. /\ phase = "game" /\ UNCHANGED <<used, index, event>>
      /\ \/ phase' = "acquired" /\ armed' = armed
         \/ phase' = "acquiring" /\ armed' = armed \cup {used[index]}
         \/ phase' = "game" /\ armed' = armed
  BY DEF BeginPresent, Await
<1>2. armed = {} /\ event = FALSE
  BY <1>1, NobodySleeps DEF Idling
<1>3. Attentive'
  <2>1. CASE phase' = "acquiring" /\ armed' = armed \cup {used[index]}
    <3>1. Asleep' /\ Awaited' = used[index] /\ armed' = {used[index]}
      BY <1>1, <1>2, <2>1 DEF Asleep, Awaited
    <3> QED
      BY <1>1, <1>2, <2>1, <3>1 DEF Attentive, Listening
  <2>2. CASE phase' \in {"acquired", "game"} /\ armed' = armed
    BY <1>1, <1>2, <2>2 DEF Attentive, Listening, Asleep
  <2> QED
    BY <1>1, <2>1, <2>2
<1> QED
  BY <1>1, <1>3 DEF Idling

LEMMA BeginIdleIdling == Typed /\ Exchanged /\ Idling /\ BeginIdle => Idling'
<1> SUFFICES ASSUME Typed, Exchanged, Idling, BeginIdle PROVE Idling'
  OBVIOUS
<1>1. /\ phase = "game" /\ phase' = "queued" /\ next' = next + 2
      /\ UNCHANGED <<fence, event, armed>>
  BY DEF BeginIdle
<1>2. armed = {} /\ event = FALSE
  BY <1>1, NobodySleeps DEF Idling
<1>3. Attentive'
  BY <1>1, <1>2 DEF Attentive, Listening, Asleep
<1>4. /\ next \in Nat /\ fence \in Nat /\ fence < next
      /\ (next + 2) - 1 = next + 1 /\ (next + 2) - 2 = next
  BY TypedFacts DEF Typed, Exchanged, Exchange
<1>5. /\ Len(q12') \in DOMAIN q12' /\ q12'[Len(q12')] = Signal(next + 1)
      /\ \A k \in DOMAIN q11' : q11'[k] = Draw =>
            \E s \in DOMAIN q11' : k < s /\ q11'[s] = Signal(next)
      /\ q12' \in Queues
  BY BeginIdleQueues
<1>6. \A i \in DOMAIN q12' : i <= Len(q12')
  BY <1>5 DEF Queues
<1>7. Finish(q11', q12', fence', next')
  BY <1>1, <1>4, <1>5, <1>6 DEF Finish
<1> QED
  BY <1>1, <1>2, <1>3, <1>7 DEF Idling

LEMMA SleepUntilIdleIdling ==
    Typed /\ Idling /\ SleepUntilIdle => Idling'
<1> SUFFICES ASSUME Typed, Idling, SleepUntilIdle PROVE Idling'
  OBVIOUS
<1>1. /\ phase = "queued"
      /\ UNCHANGED <<fence, next, q11, q12, used, index, event>>
      /\ \/ fence >= next - 1 /\ phase' = "released" /\ armed' = armed
         \/ phase' = "idling" /\ armed' = armed \cup {next - 1}
         \/ phase' = "game" /\ armed' = armed
  BY DEF SleepUntilIdle, Await
<1>2. armed = {} /\ event = FALSE
  BY <1>1, NobodySleeps DEF Idling
<1>3. Quiet(q11, q12) \/ Finish(q11, q12, fence, next)
  BY <1>1 DEF Idling
<1>4. CASE fence >= next - 1 /\ phase' = "released" /\ armed' = armed
  <2>1. ~Finish(q11, q12, fence, next)
    BY <1>4, TypedFacts DEF Finish, Typed
  <2>2. Attentive'
    BY <1>1, <1>2, <1>4 DEF Attentive, Listening, Asleep
  <2> QED
    BY <1>1, <1>3, <1>4, <2>1, <2>2 DEF Idling
<1>5. CASE phase' = "idling" /\ armed' = armed \cup {next - 1}
  <2>1. Asleep' /\ Awaited' = next - 1 /\ armed' = {next - 1}
    BY <1>1, <1>2, <1>5 DEF Asleep, Awaited
  <2>2. Attentive'
    BY <1>1, <1>2, <1>5, <2>1 DEF Attentive, Listening
  <2> QED
    BY <1>1, <1>2, <1>3, <1>5, <2>2 DEF Idling
<1>6. CASE phase' = "game" /\ armed' = armed
  BY <1>1, <1>2, <1>6 DEF Idling, Attentive, Listening, Asleep
<1> QED
  BY <1>1, <1>4, <1>5, <1>6

LEMMA InitPunctual == Init => Punctual
BY DEF Init, Punctual, Idling, Attentive, Listening, Asleep

LEMMA NextPunctual == Typed /\ Traced /\ Punctual /\ [Next]_vars => Punctual'
<1> SUFFICES ASSUME Typed, Traced, Punctual, [Next]_vars,
                    mishaps' \subseteq {"idle", "present"}
             PROVE  Idling'
  BY DEF Punctual
<1>1. Exchanged /\ Idling
  BY MishapsStay DEF Traced, Punctual
<1>2. CASE UNCHANGED vars
  BY <1>1, <1>2
  DEF vars, Idling, Attentive, Listening, Asleep, Awaited
<1>3. CASE Run11
  BY <1>1, <1>3, Run11Idling
<1>4. CASE Run12
  BY <1>1, <1>4, Run12Idling
<1>5. CASE Acquire \/ Release
  BY <1>1, <1>5, AwakeIdling
<1>6. CASE TimeOut
  BY <1>6 DEF TimeOut
<1>7. CASE DropFrame
  BY <1>1, <1>7, ReturnIdling DEF DropFrame
<1>8. CASE ShowFrame
  BY <1>1, <1>8, ReturnIdling DEF ShowFrame
<1>9. CASE LoseFrame
  BY <1>1, <1>9, ReturnIdling, LoseFrameCases
<1>10. CASE RefuseIdle
  BY <1>1, <1>10, ReturnIdling DEF RefuseIdle
<1>11. CASE Rebuild \/ SwitchTarget
  BY <1>1, <1>11, ReturnIdling DEF Rebuild, SwitchTarget
<1>12. CASE BeginPresent
  BY <1>1, <1>12, BeginPresentIdling
<1>13. CASE BeginIdle
  BY <1>1, <1>13, BeginIdleIdling
<1>14. CASE SleepUntilIdle
  BY <1>1, <1>14, SleepUntilIdleIdling
<1> QED
  BY <1>2, <1>3, <1>4, <1>5, <1>6, <1>7, <1>8, <1>9, <1>10, <1>11, <1>12,
     <1>13, <1>14
  DEF Next

-----------------------------------------------------------------------------
(***************************************************************************)
(* The allocators.  As long as only Present refused frames, every copy     *)
(* that is pending is followed by the signal of the value that its         *)
(* allocator is marked with, and the fence is below that value.  Nothing   *)
(* but the mark keeps D3D11 from signalling past the guard of a lost copy, *)
(* so the index stays where it is until the guard was reached.             *)
(***************************************************************************)
Covers(p, q, f, marks, x) ==
    \A k \in DOMAIN q : q[k].op \in {"copy", "lost"} =>
        /\ f < marks[q[k].arg]
        /\ k + 1 \in DOMAIN q
        /\ q[k + 1] = Signal(marks[q[k].arg])
        /\ q[k].op = "lost" =>
              /\ q[k].arg = x
              /\ \A i \in DOMAIN p : p[i].op = "signal" => p[i].arg < marks[x]

Covered ==
    /\ phase \in {"game", "acquiring", "acquired"} =>
          Covers(q11, q12, fence, used, index)
    /\ phase = "acquired" \/ (phase = "acquiring" /\ event) =>
          ~CopyPending(index)

Reusable == mishaps \subseteq {"present"} => Covered

LEMMA PendingCopies ==
    ASSUME Typed
    PROVE  \A i : CopyPending(i) <=>
              \E n \in DOMAIN q12 :
                  q12[n].op \in {"copy", "lost"} /\ q12[n].arg = i
<1>1. q12 \in Queues
  BY TypedFacts DEF Typed
<1>2. \A n \in DOMAIN q12 : q12[n] \in Commands
  BY <1>1, Elements
<1>3. ASSUME NEW i, NEW n \in DOMAIN q12
      PROVE  q12[n] \in {Copy(i), LostCopy(i)} <=>
                 q12[n].op \in {"copy", "lost"} /\ q12[n].arg = i
  BY <1>2, CommandKinds, CommandFacts
<1> QED
  BY <1>3 DEF CopyPending

LEMMA Run11Covers ==
    ASSUME NEW p \in Queues, NEW q \in Queues, NEW f \in Nat, NEW n \in Nat,
           Exchange(p, q, f, n), NEW marks \in [Indices -> 0 .. MaxValue],
           NEW x \in Indices, Covers(p, q, f, marks, x),
           NEW r, NEW g, Runs(p, r, f, g)
    PROVE  Covers(r, q, g, marks, x)
<1>1. /\ Shorter(p, r) /\ 1 \in DOMAIN p /\ p[1] \in Commands
      /\ g = IF p[1].op = "signal" THEN p[1].arg ELSE f
  BY DEF Runs, Shorter
<1> SUFFICES ASSUME NEW k \in DOMAIN q, q[k].op \in {"copy", "lost"}
             PROVE  /\ g < marks[q[k].arg]
                    /\ k + 1 \in DOMAIN q
                    /\ q[k + 1] = Signal(marks[q[k].arg])
                    /\ q[k].op = "lost" =>
                          /\ q[k].arg = x
                          /\ \A i \in DOMAIN r :
                                r[i].op = "signal" => r[i].arg < marks[x]
  BY DEF Covers
<1>2. /\ f < marks[q[k].arg]
      /\ k + 1 \in DOMAIN q
      /\ q[k + 1] = Signal(marks[q[k].arg])
      /\ q[k].op = "lost" =>
            /\ q[k].arg = x
            /\ \A i \in DOMAIN p : p[i].op = "signal" => p[i].arg < marks[x]
  BY DEF Covers
<1>3. q[k].op = "lost" =>
          \A i \in DOMAIN r : r[i].op = "signal" => r[i].arg < marks[x]
  BY <1>1, <1>2 DEF Shorter
<1>4. g < marks[q[k].arg]
  <2>1. CASE p[1].op # "signal"
    BY <1>1, <1>2, <2>1
  <2>2. CASE p[1].op = "signal" /\ q[k].op = "lost"
    BY <1>1, <1>2, <2>2
  <2>3. CASE p[1].op = "signal" /\ q[k].op = "copy"
    <3>1. PICK m \in DOMAIN p : p[m] = Wait(q[k + 1].arg)
      BY <2>3 DEF Exchange, InTurns
    <3>2. q[k + 1].arg = marks[q[k].arg]
      BY <1>2, CommandFacts
    <3>3. /\ p[m].op = "wait" /\ p[m].arg = marks[q[k].arg]
          /\ IsMark(p[m]) /\ IsMark(p[1])
      BY <2>3, <3>1, <3>2, CommandFacts DEF IsMark
    <3>4. m \in Nat /\ m >= 1 /\ m # 1
      BY <2>3, <3>3, Elements
    <3>5. 1 < m
      BY <3>4
    <3>6. p[1].arg < p[m].arg
      BY <1>1, <3>3, <3>5 DEF Exchange, Sorted
    <3> QED
      BY <1>1, <2>3, <3>3, <3>6
  <2> QED
    BY <2>1, <2>2, <2>3
<1> QED
  BY <1>2, <1>3, <1>4

LEMMA Run12Covers ==
    ASSUME NEW p \in Queues, NEW q \in Queues, NEW f \in Nat, NEW n \in Nat,
           Exchange(p, q, f, n), NEW marks \in [Indices -> 0 .. MaxValue],
           NEW x \in Indices, Covers(p, q, f, marks, x),
           NEW r, NEW g, Runs(q, r, f, g)
    PROVE  Covers(p, r, g, marks, x)
<1>1. /\ Shorter(q, r) /\ 1 \in DOMAIN q /\ q[1] \in Commands
      /\ g = IF q[1].op = "signal" THEN q[1].arg ELSE f
  BY DEF Runs, Shorter
<1> SUFFICES ASSUME NEW k \in DOMAIN r, r[k].op \in {"copy", "lost"}
             PROVE  /\ g < marks[r[k].arg]
                    /\ k + 1 \in DOMAIN r
                    /\ r[k + 1] = Signal(marks[r[k].arg])
                    /\ r[k].op = "lost" =>
                          /\ r[k].arg = x
                          /\ \A i \in DOMAIN p :
                                p[i].op = "signal" => p[i].arg < marks[x]
  BY DEF Covers
<1>2. /\ k \in Nat /\ k >= 1 /\ k + 1 \in DOMAIN q /\ r[k] = q[k + 1]
      /\ k + 1 > 1 /\ (k + 1) + 1 > 1 /\ ((k + 1) + 1) - 1 = k + 1
  BY <1>1 DEF Shorter
<1>3. /\ f < marks[r[k].arg]
      /\ (k + 1) + 1 \in DOMAIN q
      /\ q[(k + 1) + 1] = Signal(marks[r[k].arg])
      /\ r[k].op = "lost" =>
            /\ r[k].arg = x
            /\ \A i \in DOMAIN p : p[i].op = "signal" => p[i].arg < marks[x]
  BY <1>2 DEF Covers
<1>4. k + 1 \in DOMAIN r /\ r[k + 1] = q[(k + 1) + 1]
  BY <1>1, <1>2, <1>3 DEF Shorter
<1>5. g < marks[r[k].arg]
  <2>1. CASE q[1].op # "signal"
    BY <1>1, <1>3, <2>1
  <2>2. CASE q[1].op = "signal"
    <3>1. /\ IsMark(q[1]) /\ IsMark(q[(k + 1) + 1])
          /\ q[(k + 1) + 1].arg = marks[r[k].arg]
      BY <1>3, <2>2, CommandFacts DEF IsMark
    <3>2. q[1].arg < q[(k + 1) + 1].arg
      BY <1>1, <1>2, <1>3, <3>1 DEF Exchange, Sorted
    <3> QED
      BY <1>1, <2>2, <3>1, <3>2
  <2> QED
    BY <2>1, <2>2
<1> QED
  BY <1>3, <1>4, <1>5

\* The sleeper on an allocator is woken at its mark.
LEMMA WokenAtMark ==
    ASSUME Typed, Attentive, phase = "acquiring", ~event,
           NEW c \in Commands, Execute(c), event'
    PROVE  used[index] <= fence'
<1>1. armed = {used[index]} /\ event = FALSE
  BY DEF Attentive, Listening, Asleep, Awaited, Typed, TypeOK
<1>2. c.op = "signal"
  BY <1>1 DEF Execute
<1>3. fence' = c.arg /\ (event' = (event \/ \E v \in armed : v <= c.arg))
  BY <1>2 DEF Execute
<1>4. \E v \in armed : v <= c.arg
  BY <1>1, <1>3
<1> QED
  BY <1>1, <1>3, <1>4

LEMMA GPUCovered ==
    Typed /\ Exchanged /\ Idling /\ Covered /\ GPU => Covered'
<1> SUFFICES ASSUME Typed, Exchanged, Idling, Covered, GPU PROVE Covered'
  OBVIOUS
<1>1. /\ q11 \in Queues /\ q12 \in Queues /\ fence \in Nat /\ next \in Nat
      /\ Exchange(q11, q12, fence, next)
      /\ used \in [Indices -> 0 .. MaxValue] /\ index \in Indices
      /\ used[index] \in Nat
  BY TypedFacts DEF Typed, TypeOK, Exchanged
<1>2. /\ UNCHANGED <<used, index, phase>>
      /\ \E c \in Commands : Execute(c)
      /\ phase \in {"game", "acquiring", "acquired"} =>
            Covers(q11', q12', fence', used, index)
      /\ \/ q12' = q12
         \/ Shorter(q12, q12')
  <2>1. CASE Run11
    <3>1. /\ Runs(q11, q11', fence, fence') /\ Execute(q11[1])
          /\ q11[1] \in Commands
          /\ UNCHANGED <<next, q12, used, index, phase, mishaps>>
      BY <2>1, Run11Facts DEF Runs
    <3>2. Covers(q11, q12, fence, used, index) =>
              Covers(q11', q12, fence', used, index)
      BY <1>1, <3>1, Run11Covers
    <3> QED
      BY <3>1, <3>2 DEF Covered
  <2>2. CASE Run12
    <3>1. /\ Runs(q12, q12', fence, fence') /\ Execute(q12[1])
          /\ q12[1] \in Commands /\ Shorter(q12, q12')
          /\ UNCHANGED <<next, q11, used, index, phase, mishaps>>
      BY <2>2, Run12Facts DEF Runs
    <3>2. Covers(q11, q12, fence, used, index) =>
              Covers(q11, q12', fence', used, index)
      BY <1>1, <3>1, Run12Covers
    <3> QED
      BY <3>1, <3>2 DEF Covered
  <2> QED
    BY <2>1, <2>2 DEF GPU
<1>3. Typed'
  BY GPUTyped
<1>4. ASSUME CopyPending(index)' PROVE CopyPending(index)
  <2>1. CASE q12' = q12
    BY <1>2, <1>4, <2>1 DEF CopyPending
  <2>2. CASE Shorter(q12, q12')
    BY <1>2, <1>4, <2>2 DEF CopyPending, Shorter
  <2> QED
    BY <1>2, <2>1, <2>2
<1>5. ASSUME phase = "acquiring", event', CopyPending(index)' PROVE event
  <2> SUFFICES ASSUME ~event PROVE FALSE
    OBVIOUS
  <2>1. used[index] <= fence'
    BY <1>2, <1>5, WokenAtMark DEF Idling
  <2>2. PICK k \in DOMAIN q12' :
            q12'[k].op \in {"copy", "lost"} /\ q12'[k].arg = index
    <3>1. PICK k \in DOMAIN q12' : q12'[k] \in {Copy(index'), LostCopy(index')}
      BY <1>5 DEF CopyPending
    <3>2. q12'[k].op \in {"copy", "lost"} /\ q12'[k].arg = index'
      BY <3>1, CommandFacts
    <3> QED
      BY <1>2, <3>2
  <2>3. fence' < used[index]
    BY <1>2, <1>5, <2>2 DEF Covers
  <2>4. fence' \in Nat
    BY <1>3 DEF Typed, TypeOK
  <2> QED
    BY <1>1, <2>1, <2>3, <2>4
<1> QED
  BY <1>2, <1>4, <1>5 DEF Covered

\* Drawing signals nothing.
LEMMA DrawnCovers ==
    ASSUME NEW p \in Queues, NEW q, NEW f, NEW marks, NEW x,
           Covers(p, q, f, marks, x)
    PROVE  Covers(Drawn(p), q, f, marks, x)
<1>1. \A i \in DOMAIN Drawn(p) : Drawn(p)[i].op = "signal" =>
          i \in DOMAIN p /\ Drawn(p)[i] = p[i]
  <2>1. CASE Drawn(p) = p
    BY <2>1
  <2>2. CASE Drawn(p) = Append(p, Draw)
    <3>1. Longer(p, Append(p, Draw), Draw, Len(p) + 1)
      BY CommandTypes, AppendLemma
    <3> QED
      BY <2>2, <3>1, LongerHas, CommandFacts
  <2> QED
    BY <2>1, <2>2 DEF Drawn
<1> QED
  BY <1>1 DEF Covers

LEMMA BeginPresentCovered ==
    Typed /\ Idling /\ Covered /\ BeginPresent => Covered'
<1> SUFFICES ASSUME Typed, Idling, Covered, BeginPresent PROVE Covered'
  OBVIOUS
<1>1. /\ phase = "game" /\ q11' = Drawn(q11)
      /\ UNCHANGED <<fence, q12, used, index, event>>
      /\ \/ fence >= used[index] /\ phase' = "acquired"
         \/ phase' \in {"acquiring", "game"}
  BY DEF BeginPresent, Await
<1>2. event = FALSE
  BY <1>1, NobodySleeps DEF Idling
<1>3. /\ q11 \in Queues /\ Covers(q11, q12, fence, used, index)
  BY <1>1, TypedFacts DEF Covered, Typed
<1>4. Covers(q11', q12', fence', used', index')
  BY <1>1, <1>3, DrawnCovers
<1>5. ASSUME fence >= used[index] PROVE ~CopyPending(index)
  <2> SUFFICES ASSUME NEW k \in DOMAIN q12,
                      q12[k].op \in {"copy", "lost"}, q12[k].arg = index
               PROVE  FALSE
    BY PendingCopies
  <2>1. fence < used[index]
    BY <1>3 DEF Covers
  <2> QED
    BY <1>5, <2>1, TypedFacts DEF Typed
<1>6. CopyPending(index)' <=> CopyPending(index)
  BY <1>1 DEF CopyPending
<1> QED
  BY <1>1, <1>2, <1>4, <1>5, <1>6 DEF Covered

LEMMA AcquireCovered == Covered /\ Acquire => Covered'
<1> SUFFICES ASSUME Covered, Acquire PROVE Covered'
  OBVIOUS
<1>1. /\ phase = "acquiring" /\ event /\ phase' = "acquired"
      /\ UNCHANGED <<fence, q11, q12, used, index>>
  BY DEF Acquire, Awake
<1>2. Covers(q11, q12, fence, used, index) /\ ~CopyPending(index)
  BY <1>1 DEF Covered
<1>3. CopyPending(index)' <=> CopyPending(index)
  BY <1>1 DEF CopyPending
<1> QED
  BY <1>1, <1>2, <1>3 DEF Covered

\* A thread that holds an allocator finds no lost copy.
LEMMA AcquiredCopies ==
    ASSUME Typed, Covered, phase = "acquired",
           NEW k \in DOMAIN q12, q12[k].op \in {"copy", "lost"}
    PROVE  /\ q12[k].op = "copy" /\ q12[k].arg # index
           /\ q12[k].arg \in Indices
           /\ fence < used[q12[k].arg]
           /\ k + 1 \in DOMAIN q12 /\ q12[k + 1] = Signal(used[q12[k].arg])
<1>1. q12[k].arg # index
  BY PendingCopies DEF Covered
<1>2. /\ q12[k].op = "lost" => q12[k].arg = index
      /\ fence < used[q12[k].arg]
      /\ k + 1 \in DOMAIN q12 /\ q12[k + 1] = Signal(used[q12[k].arg])
  BY DEF Covered, Covers
<1>3. q12[k] \in Commands
  <2>1. q12 \in Queues
    BY TypedFacts DEF Typed
  <2> QED
    BY <2>1, Elements
<1> QED
  BY <1>1, <1>2, <1>3, CommandKinds

LEMMA DropFrameCovered == Typed /\ Covered /\ DropFrame => Covered'
<1> SUFFICES ASSUME Typed, Covered, DropFrame PROVE Covered'
  OBVIOUS
<1>1. /\ phase = "acquired" /\ phase' = "game"
      /\ UNCHANGED <<fence, used, index>>
      /\ q12' = q12 \/ q12' = Append(q12, Wait(next))
  BY DEF DropFrame
<1>2. next \in 1 .. MaxValue /\ q12 \in Queues
  BY <1>1, TypedFacts DEF Typed, Room
<1>3. /\ \A k \in DOMAIN q12 : k \in DOMAIN q12' /\ q12'[k] = q12[k]
      /\ \A k \in DOMAIN q12' : q12'[k].op \in {"copy", "lost"} =>
            k \in DOMAIN q12
  <2>1. CASE q12' = q12
    BY <2>1
  <2>2. CASE q12' = Append(q12, Wait(next))
    <3>1. Longer(q12, Append(q12, Wait(next)), Wait(next), Len(q12) + 1)
      BY <1>2, CommandTypes, AppendLemma
    <3> QED
      BY <2>2, <3>1, LongerHas, CommandFacts
  <2> QED
    BY <1>1, <2>1, <2>2
<1>4. ASSUME NEW k \in DOMAIN q12', q12'[k].op \in {"copy", "lost"}
      PROVE  /\ q12'[k].op = "copy"
             /\ fence < used[q12'[k].arg]
             /\ k + 1 \in DOMAIN q12'
             /\ q12'[k + 1] = Signal(used[q12'[k].arg])
  <2>1. k \in DOMAIN q12 /\ q12'[k] = q12[k] /\ q12[k].op \in {"copy", "lost"}
    BY <1>3, <1>4
  <2>2. /\ q12[k].op = "copy"
        /\ fence < used[q12[k].arg]
        /\ k + 1 \in DOMAIN q12 /\ q12[k + 1] = Signal(used[q12[k].arg])
    BY <1>1, <2>1, AcquiredCopies
  <2> QED
    BY <1>3, <2>1, <2>2
<1>5. Covers(q11', q12', fence', used', index')
  BY <1>1, <1>4 DEF Covers
<1> QED
  BY <1>1, <1>5 DEF Covered

\* A frame marks its allocator; the copies that are pending have others.
LEMMA MarkedCopies ==
    ASSUME Typed, Covered, phase = "acquired", next + 1 <= MaxValue,
           fence < next, fence' = fence,
           used' = [used EXCEPT ![index] = next + 1],
           \A k \in DOMAIN q12 : k \in DOMAIN q12' /\ q12'[k] = q12[k],
           NEW c, c.op \in {"copy", "lost"}, c.arg = index,
           CopiesOf(q12, q12', c, next + 1),
           NEW k \in DOMAIN q12', q12'[k].op \in {"copy", "lost"}
    PROVE  /\ q12'[k].op = "copy" \/ q12'[k] = c
           /\ fence' < used'[q12'[k].arg]
           /\ k + 1 \in DOMAIN q12'
           /\ q12'[k + 1] = Signal(used'[q12'[k].arg])
<1>1. /\ used \in [Indices -> 0 .. MaxValue] /\ index \in Indices
      /\ fence \in Nat /\ next \in Nat
  BY TypedFacts DEF Typed, TypeOK
<1>2. used'[index] = next + 1 /\ \A i \in Indices : i # index => used'[i] = used[i]
  BY <1>1
<1>3. CASE k \in DOMAIN q12 /\ q12'[k] = q12[k]
  <2>1. /\ q12[k].op = "copy" /\ q12[k].arg # index
        /\ q12[k].arg \in Indices
        /\ fence < used[q12[k].arg]
        /\ k + 1 \in DOMAIN q12 /\ q12[k + 1] = Signal(used[q12[k].arg])
    BY <1>3, AcquiredCopies
  <2> QED
    BY <1>2, <1>3, <2>1
<1>4. CASE q12'[k] = c /\ k + 1 \in DOMAIN q12' /\ q12'[k + 1] = Signal(next + 1)
  <2>1. q12'[k].arg = index
    BY <1>4
  <2>2. fence < next + 1
    BY <1>1
  <2> QED
    BY <1>2, <1>4, <2>1, <2>2
<1> QED
  BY <1>3, <1>4 DEF CopiesOf

LEMMA ShowFrameCovered ==
    Typed /\ Exchanged /\ Covered /\ ShowFrame => Covered'
<1> SUFFICES ASSUME Typed, Exchanged, Covered, ShowFrame PROVE Covered'
  OBVIOUS
<1>1. /\ phase = "acquired" /\ phase' = "game" /\ fence' = fence
      /\ used' = [used EXCEPT ![index] = next + 1]
  BY DEF ShowFrame
<1>2. /\ next + 1 <= MaxValue /\ fence < next
  BY <1>1, TypedFacts DEF Typed, Room, Exchanged, Exchange
<1>3. /\ \A k \in DOMAIN q12 : k \in DOMAIN q12' /\ q12'[k] = q12[k]
      /\ CopiesOf(q12, q12', Copy(index), next + 1)
  BY ShowFrameQueues
<1>4. Copy(index).op = "copy" /\ Copy(index).arg = index
  BY CommandFacts
<1>5. \A k \in DOMAIN q12' : q12'[k].op \in {"copy", "lost"} =>
        /\ q12'[k].op = "copy"
        /\ fence' < used'[q12'[k].arg]
        /\ k + 1 \in DOMAIN q12'
        /\ q12'[k + 1] = Signal(used'[q12'[k].arg])
  <2> DEFINE c == Copy(index)
  <2>1. /\ c.op \in {"copy", "lost"} /\ c.arg = index /\ c.op = "copy"
        /\ CopiesOf(q12, q12', c, next + 1)
    BY <1>3, <1>4
  <2> HIDE DEF c
  <2> QED
    BY <1>1, <1>2, <1>3, <2>1, MarkedCopies
<1>6. Covers(q11', q12', fence', used', index')
  BY <1>5 DEF Covers
<1> QED
  BY <1>1, <1>6 DEF Covered

LEMMA LoseFrameCovered ==
    ASSUME Typed, Exchanged, Covered, LoseFrame,
           mishaps' \subseteq {"present"}
    PROVE  Covered'
<1>1. /\ phase = "acquired" /\ phase' = "game" /\ fence' = fence
  BY LoseFrameCases
<1>2. /\ index' = index /\ used' = [used EXCEPT ![index] = next + 1]
      /\ \A k \in DOMAIN q12 : k \in DOMAIN q12' /\ q12'[k] = q12[k]
      /\ CopiesOf(q12, q12', LostCopy(index), next + 1)
      /\ Longer(q11, q11', Signal(next), Len(q11) + 1)
  BY LoseFrameQueues
<1>3. /\ next + 1 <= MaxValue /\ fence < next /\ next \in Nat
      /\ Within(q11, next) /\ q11 \in Queues
      /\ index \in Indices /\ used \in [Indices -> 0 .. MaxValue]
  BY <1>1, TypedFacts DEF Typed, TypeOK, Room, Exchanged, Exchange
<1>4. \A i \in DOMAIN q11' : q11'[i].op = "signal" => q11'[i].arg < used'[index]
  <2>1. used'[index] = next + 1
    BY <1>2, <1>3
  <2>2. \A i \in DOMAIN q11 : q11[i].op = "signal" => q11[i].arg < next + 1
    BY <1>3, Elements DEF Within
  <2>3. Signal(next).arg < next + 1
    BY <1>3, CommandFacts
  <2> QED
    BY <1>2, <2>1, <2>2, <2>3 DEF Longer
<1>5. \A k \in DOMAIN q12' : q12'[k].op \in {"copy", "lost"} =>
        /\ q12'[k].op = "copy" \/ q12'[k].arg = index
        /\ fence' < used'[q12'[k].arg]
        /\ k + 1 \in DOMAIN q12'
        /\ q12'[k + 1] = Signal(used'[q12'[k].arg])
  <2> DEFINE c == LostCopy(index)
  <2>1. /\ c.op \in {"copy", "lost"} /\ c.arg = index
        /\ CopiesOf(q12, q12', c, next + 1)
    BY <1>2, CommandFacts
  <2> HIDE DEF c
  <2> QED
    BY <1>1, <1>2, <1>3, <2>1, MarkedCopies
<1>6. Covers(q11', q12', fence', used', index')
  BY <1>2, <1>4, <1>5 DEF Covers
<1> QED
  BY <1>1, <1>6 DEF Covered

\* With nothing pending there is nothing to cover.
LEMMA QuietCovered ==
    ASSUME Idling, phase = "released", phase' = "game", q12' = q12
    PROVE  Covered'
<1>1. Quiet(q11, q12)
  BY DEF Idling
<1> QED
  BY <1>1 DEF Quiet, Pending, Covered, Covers

LEMMA InitReusable == Init => Reusable
<1>1. DOMAIN <<>> = {}
  OBVIOUS
<1> QED
  BY <1>1 DEF Init, Reusable, Covered, Covers

LEMMA NextReusable ==
    Typed /\ Traced /\ Punctual /\ Reusable /\ [Next]_vars => Reusable'
<1> SUFFICES ASSUME Typed, Traced, Punctual, Reusable, [Next]_vars,
                    mishaps' \subseteq {"present"}
             PROVE  Covered'
  BY DEF Reusable
<1>1. Exchanged /\ Idling /\ Covered
  BY MishapsStay DEF Traced, Punctual, Reusable
<1>2. CASE UNCHANGED vars
  BY <1>1, <1>2 DEF vars, Covered, CopyPending
<1>3. CASE GPU
  BY <1>1, <1>3, GPUCovered
<1>4. CASE BeginPresent
  BY <1>1, <1>4, BeginPresentCovered
<1>5. CASE Acquire
  BY <1>1, <1>5, AcquireCovered
<1>6. CASE TimeOut
  BY <1>6 DEF TimeOut
<1>7. CASE DropFrame
  BY <1>1, <1>7, DropFrameCovered
<1>8. CASE ShowFrame
  BY <1>1, <1>8, ShowFrameCovered
<1>9. CASE LoseFrame
  BY <1>1, <1>9, LoseFrameCovered
<1>10. CASE BeginIdle
  BY <1>10 DEF BeginIdle, Covered
<1>11. CASE SleepUntilIdle
  BY <1>11 DEF SleepUntilIdle, Await, Covered
<1>12. CASE RefuseIdle
  <2>1. /\ phase = "game" /\ UNCHANGED <<fence, used, index, phase>>
        /\ q11' = Drawn(q11) /\ q12' = q12
    BY <1>12 DEF RefuseIdle
  <2>2. /\ q11 \in Queues /\ Covers(q11, q12, fence, used, index)
    BY <1>1, <2>1, TypedFacts DEF Covered, Typed
  <2>3. Covers(q11', q12', fence', used', index')
    BY <2>1, <2>2, DrawnCovers
  <2> QED
    BY <2>1, <2>3 DEF Covered
<1>13. CASE Release
  BY <1>13 DEF Release, Awake, Covered
<1>14. CASE Rebuild \/ SwitchTarget
  BY <1>1, <1>14, QuietCovered DEF Rebuild, SwitchTarget
<1> QED
  BY <1>2, <1>3, <1>4, <1>5, <1>6, <1>7, <1>8, <1>9, <1>10, <1>11, <1>12,
     <1>13, <1>14
  DEF Next, GPU

-----------------------------------------------------------------------------
(***************************************************************************)
(* The theorems.  Each part of the invariant holds for a family of mishaps *)
(* of its own and rests on the parts before it.                            *)
(***************************************************************************)
FenceInv == Typed /\ Traced /\ Unlost /\ Punctual /\ Reusable

\* Every reachable state of the three parties has its types, trades frames in
\* turns, answers every wait, wakes whom it should, and covers its allocators,
\* each for as long as the mishaps allow (present, wait_for_allocator and
\* wait_for_gpu_idle of PresentationBridge.cpp).
THEOREM FenceInvariant == Spec => []FenceInv
<1>1. Init => FenceInv
  BY InitTyped, InitTraced, InitUnlost, InitPunctual, InitReusable DEF FenceInv
<1>2. FenceInv /\ [Next]_vars => FenceInv'
  BY NextTyped, NextTraced, NextUnlost, NextPunctual, NextReusable DEF FenceInv
<1> QED
  BY <1>1, <1>2, PTL DEF Spec

\* Every part of the state keeps its type: no value beyond those handed out
\* ever reaches the fence, a queue or a mark.
THEOREM TypesHold == Spec => []TypeOK
<1>1. FenceInv => TypeOK
  BY DEF FenceInv, Typed
<1> QED
  BY <1>1, FenceInvariant, PTL

\* The game never draws into the shared back buffer while a frame that will be
\* seen is copied out of it, whatever frames were dropped or refused by
\* Present, waits timed out, or idle waits given up before.
THEOREM FramesNeverTorn == Spec => []FrameNotTorn
<1>1. FenceInv => FrameNotTorn
  BY NotTorn DEF FenceInv
<1> QED
  BY <1>1, FenceInvariant, PTL

\* The two queues never wait for each other for ever as long as no executed
\* frame is lost: one of them can always run.
THEOREM QueuesAlwaysAdvance == Spec => []QueuesAdvance
<1>1. FenceInv => QueuesAdvance
  BY Advance DEF FenceInv
<1> QED
  BY <1>1, FenceInvariant, PTL

\* wait_for_gpu_idle returns to the release of the frame resources only when
\* neither queue draws into or copies from them, although other waits arm the
\* event it sleeps on with values of their own.
THEOREM AlwaysReleasedIdle == Spec => []ReleasedIdle
<1>1. FenceInv => ReleasedIdle
  <2> SUFFICES ASSUME FenceInv, phase = "released",
                      mishaps \subseteq {"idle", "present"}
               PROVE  ~Pending(q11, {"draw"}) /\ ~Pending(q12, {"copy", "lost"})
    BY DEF ReleasedIdle
  <2> QED
    BY DEF FenceInv, Punctual, Idling, Quiet
<1> QED
  BY <1>1, FenceInvariant, PTL

\* wait_for_allocator returns to a reset of the allocator only when the copy
\* recorded into it was executed, also when Present refused that frame and
\* only the completion guard covers it.
THEOREM AllocatorsAlwaysReusable == Spec => []AllocatorReusable
<1>1. FenceInv => AllocatorReusable
  BY DEF FenceInv, Reusable, Covered, AllocatorReusable
<1> QED
  BY <1>1, FenceInvariant, PTL

=============================================================================
