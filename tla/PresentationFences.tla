------------------------- MODULE PresentationFences -------------------------
(***************************************************************************)
(* How a frame crosses from Direct3D 11 to Direct3D 12 and back, from      *)
(* State::present, wait_for_allocator and wait_for_gpu_idle of             *)
(* src/render/PresentationBridge.cpp.  Three parties run concurrently: the *)
(* render thread, and the two queues of commands it fills, which the GPU   *)
(* works off each in its own order.  All they share is one fence, whose    *)
(* values the render thread hands out (fence_value), and the event that    *)
(* the render thread sleeps on.                                            *)
(*                                                                         *)
(* The D3D11 queue draws into the shared back buffer, the D3D12 queue      *)
(* copies it into a back buffer of the swap chain, with a command list     *)
(* recorded into that buffer's allocator.  What the frames contain, the    *)
(* swap chain, and the closing of a command list that an abandoned frame   *)
(* left open are not modelled.  Direct3D is external: a signal writes its  *)
(* value to the fence, also when the fence is already past it, and any     *)
(* call may be refused.                                                    *)
(***************************************************************************)
EXTENDS Naturals, Sequences

CONSTANTS
    Buffers,     \* back buffers of the swap chain, and allocators
    MaxValue     \* bound of the fence values that are handed out

ASSUME BuffersAssumption == Buffers \in Nat /\ Buffers >= 2
ASSUME MaxValueAssumption == MaxValue \in Nat

VARIABLES
    fence,      \* completed value of the shared fence
    next,       \* fence_value
    q11,        \* commands the D3D11 context has not executed
    q12,        \* commands the D3D12 queue has not executed
    used,       \* allocator_fence_values
    index,      \* current back buffer of the swap chain
    event,      \* completion_event is set
    armed,      \* values that will set it (SetEventOnCompletion)
    phase,      \* where the render thread is
    mishaps     \* history: what went wrong so far after a frame was executed

vars == <<fence, next, q11, q12, used, index, event, armed, phase, mishaps>>

Indices == 1 .. Buffers

Phases == {"game", "acquiring", "acquired", "queued", "idling",
           "released"}

\* A wait for the event that times out; an idle wait that was given up after
\* its first signal; and the calls after ExecuteCommandLists that Direct3D
\* can refuse: Present, the completion signal, the D3D11 wait for it, and
\* the signal of the completion guard.
Mishaps == {"timeout", "idle", "present", "complete", "resume", "orphan"}

-----------------------------------------------------------------------------
(***************************************************************************)
(* Commands.  A copy names its allocator; one of a frame that Present did  *)
(* not take is "lost": nobody will see it.                                 *)
(***************************************************************************)
Draw == [op |-> "draw", arg |-> 0]
Signal(v) == [op |-> "signal", arg |-> v]
Wait(v) == [op |-> "wait", arg |-> v]
Copy(i) == [op |-> "copy", arg |-> i]
LostCopy(i) == [op |-> "lost", arg |-> i]

Commands ==
    [op : {"draw"}, arg : {0}]
    \cup [op : {"signal", "wait"}, arg : 1 .. MaxValue]
    \cup [op : {"copy", "lost"}, arg : Indices]

\* Drawing again into a frame that is not complete changes nothing here.
Drawn(q) ==
    IF q # <<>> /\ q[Len(q)] = Draw THEN q ELSE Append(q, Draw)

Runnable(q) ==
    q # <<>> /\ (Head(q).op = "wait" => fence >= Head(q).arg)

Init ==
    /\ fence = 0
    /\ next = 1
    /\ q11 = <<>>
    /\ q12 = <<>>
    /\ used = [i \in Indices |-> 0]
    /\ index = 1
    /\ event = FALSE
    /\ armed = {}
    /\ phase = "game"
    /\ mishaps = {}

-----------------------------------------------------------------------------
(***************************************************************************)
(* The GPU.                                                                *)
(***************************************************************************)
Execute(command) ==
    IF command.op = "signal"
    THEN /\ fence' = command.arg
         /\ event' = (event \/ \E v \in armed : v <= command.arg)
         /\ armed' = {v \in armed : v > command.arg}
    ELSE UNCHANGED <<fence, event, armed>>

Run11 ==
    /\ Runnable(q11)
    /\ Execute(Head(q11))
    /\ q11' = Tail(q11)
    /\ UNCHANGED <<next, q12, used, index, phase, mishaps>>

Run12 ==
    /\ Runnable(q12)
    /\ Execute(Head(q12))
    /\ q12' = Tail(q12)
    /\ UNCHANGED <<next, q11, used, index, phase, mishaps>>

-----------------------------------------------------------------------------
(***************************************************************************)
(* Waiting until the fence has reached v.  It is read first; if that is    *)
(* too early, the thread arms the event, which may be refused, and sleeps  *)
(* on it.  The event stays set until one sleep takes it, whoever armed it. *)
(***************************************************************************)
Await(v, sleeping, then) ==
    \/ fence >= v /\ phase' = then /\ UNCHANGED armed
    \/ fence < v /\ phase' = sleeping /\ armed' = armed \cup {v}
    \/ fence < v /\ phase' = "game" /\ UNCHANGED armed

Awake(then) ==
    /\ event
    /\ event' = FALSE
    /\ phase' = then
    /\ UNCHANGED <<fence, next, q11, q12, used, index, armed, mishaps>>

TimeOut ==
    /\ phase \in {"acquiring", "idling"}
    /\ ~event
    /\ phase' = "game"
    /\ mishaps' = mishaps \cup {"timeout"}
    /\ UNCHANGED <<fence, next, q11, q12, used, index, event, armed>>

(***************************************************************************)
(* present(): the game has drawn; wait_for_allocator.                      *)
(***************************************************************************)
BeginPresent ==
    /\ phase = "game"
    /\ next + 2 <= MaxValue
    /\ q11' = Drawn(q11)
    /\ Await(used[index], "acquiring", "acquired")
    /\ UNCHANGED <<fence, next, q12, used, index, event, mishaps>>

Acquire == phase = "acquiring" /\ Awake("acquired")

\* Refused before the copy is executed: the D3D11 signal, the D3D12 wait, or
\* the recording.
DropFrame ==
    /\ phase = "acquired"
    /\ phase' = "game"
    /\ next' = next + 1
    /\ \/ UNCHANGED <<q11, q12>>
       \/ q11' = Append(q11, Signal(next)) /\ UNCHANGED q12
       \/ /\ q11' = Append(q11, Signal(next))
          /\ q12' = Append(q12, Wait(next))
    /\ UNCHANGED <<fence, used, index, event, armed, mishaps>>

\* A slip the properties have to notice: the D3D11 queue is not made to
\* wait for the copy of a frame.
ShowFrameWithoutWaiting ==
    /\ phase = "acquired"
    /\ phase' = "game"
    /\ next' = next + 2
    /\ q11' = Append(q11, Signal(next))
    /\ q12' = q12 \o <<Wait(next), Copy(index), Signal(next + 1)>>
    /\ used' = [used EXCEPT ![index] = next + 1]
    /\ index' = (index % Buffers) + 1
    /\ UNCHANGED <<fence, event, armed, mishaps>>

ShowFrame ==
    /\ phase = "acquired"
    /\ phase' = "game"
    /\ next' = next + 2
    /\ q11' = q11 \o <<Signal(next), Wait(next + 1)>>
    /\ q12' = q12 \o <<Wait(next), Copy(index), Signal(next + 1)>>
    /\ used' = [used EXCEPT ![index] = next + 1]
    /\ index' = (index % Buffers) + 1
    /\ UNCHANGED <<fence, event, armed, mishaps>>

\* A slip the properties have to notice: the guard does not mark the
\* allocator.
OrphanUnmarked(commands, v, refused) ==
    /\ q12' = IF refused THEN q12 \o commands
              ELSE q12 \o commands \o <<Signal(v)>>
    /\ UNCHANGED used

\* completion_guard: the allocator is covered by a signal of its own.
Orphan(commands, v, refused) ==
    IF refused
    THEN q12' = q12 \o commands /\ UNCHANGED used
    ELSE /\ q12' = q12 \o commands \o <<Signal(v)>>
         /\ used' = [used EXCEPT ![index] = v]

\* Refused after it: the D3D11 queue is not made to wait for the copy.
LoseFrame ==
    /\ phase = "acquired"
    /\ phase' = "game"
    /\ q11' = Append(q11, Signal(next))
    /\ \E unguarded \in BOOLEAN :
        LET more == IF unguarded THEN {"orphan"} ELSE {}
        IN  \/ /\ Orphan(<<Wait(next), LostCopy(index)>>, next + 1, unguarded)
               /\ next' = next + 2
               /\ UNCHANGED index
               /\ mishaps' = mishaps \cup {"present"} \cup more
            \/ /\ next + 3 <= MaxValue
               /\ \/ /\ Orphan(<<Wait(next), Copy(index)>>, next + 2,
                               unguarded)
                     /\ mishaps' = mishaps \cup {"complete"} \cup more
                  \/ /\ Orphan(<<Wait(next), Copy(index), Signal(next + 1)>>,
                               next + 2, unguarded)
                     /\ mishaps' = mishaps \cup {"resume"} \cup more
               /\ next' = next + 3
               /\ index' = (index % Buffers) + 1
    /\ UNCHANGED <<fence, event, armed>>

-----------------------------------------------------------------------------
(***************************************************************************)
(* wait_for_gpu_idle, before the frame resources are released (a resize, a *)
(* handoff) or the display changes with them in place.  Each of its four   *)
(* calls can be refused, and the mutation is given up then.                *)
(***************************************************************************)
BeginIdle ==
    /\ phase = "game"
    /\ next + 2 <= MaxValue
    /\ next' = next + 2
    /\ q11' = Drawn(q11) \o <<Signal(next), Wait(next + 1)>>
    /\ q12' = q12 \o <<Wait(next), Signal(next + 1)>>
    /\ phase' = "queued"
    /\ UNCHANGED <<fence, used, index, event, armed, mishaps>>

\* A slip the properties have to notice: the fence is read for the first of
\* the two values.
SleepUntilDrawn ==
    /\ phase = "queued"
    /\ Await(next - 2, "idling", "released")
    /\ mishaps' = IF phase' = "game" THEN mishaps \cup {"idle"} ELSE mishaps
    /\ UNCHANGED <<fence, next, q11, q12, used, index, event>>

SleepUntilIdle ==
    /\ phase = "queued"
    /\ Await(next - 1, "idling", "released")
    /\ mishaps' = IF phase' = "game" THEN mishaps \cup {"idle"} ELSE mishaps
    /\ UNCHANGED <<fence, next, q11, q12, used, index, event>>

RefuseIdle ==
    /\ phase = "game"
    /\ next + 2 <= MaxValue
    /\ \/ /\ next' = next + 1
          /\ q11' = Drawn(q11)
          /\ UNCHANGED <<q12, mishaps>>
       \/ /\ next' = next + 1
          /\ q11' = Append(Drawn(q11), Signal(next))
          /\ mishaps' = mishaps \cup {"idle"}
          /\ UNCHANGED q12
       \/ /\ next' = next + 2
          /\ q11' = Append(Drawn(q11), Signal(next))
          /\ q12' = Append(q12, Wait(next))
          /\ mishaps' = mishaps \cup {"idle"}
       \/ /\ next' = next + 2
          /\ q11' = Append(Drawn(q11), Signal(next))
          /\ q12' = q12 \o <<Wait(next), Signal(next + 1)>>
          /\ mishaps' = mishaps \cup {"resume"}
    /\ UNCHANGED <<fence, used, index, event, armed, phase>>

Release == phase = "idling" /\ Awake("released")

\* create_frame_resources
Rebuild ==
    /\ phase = "released"
    /\ phase' = "game"
    /\ used' = [i \in Indices |-> 0]
    /\ index' = 1
    /\ UNCHANGED <<fence, next, q11, q12, event, armed, mishaps>>

\* SetFullscreenState and ResizeTarget
SwitchTarget ==
    /\ phase = "released"
    /\ phase' = "game"
    /\ UNCHANGED <<fence, next, q11, q12, used, index, event, armed, mishaps>>

-----------------------------------------------------------------------------
Next ==
    \/ Run11
    \/ Run12
    \/ BeginPresent
    \/ Acquire
    \/ TimeOut
    \/ DropFrame
    \/ ShowFrame
    \/ LoseFrame
    \/ BeginIdle
    \/ SleepUntilIdle
    \/ RefuseIdle
    \/ Release
    \/ Rebuild
    \/ SwitchTarget

Spec == Init /\ [][Next]_vars

-----------------------------------------------------------------------------
(***************************************************************************)
(* Properties.                                                             *)
(***************************************************************************)

\* Every part of the state ranges over its type: fence_value stays within
\* the bound, and there is one fence value per allocator.
TypeOK ==
    /\ fence \in 0 .. MaxValue
    /\ next \in 1 .. MaxValue + 1
    /\ q11 \in Seq(Commands)
    /\ q12 \in Seq(Commands)
    /\ used \in [Indices -> 0 .. MaxValue]
    /\ index \in Indices
    /\ event \in BOOLEAN
    /\ armed \subseteq 1 .. MaxValue
    /\ phase \in Phases
    /\ mishaps \subseteq Mishaps

Pending(q, ops) == \E i \in DOMAIN q : q[i].op \in ops

CopyPending(i) == \E n \in DOMAIN q12 : q12[n] \in {Copy(i), LostCopy(i)}

\* An allocator is reset only when the GPU has executed the commands that
\* were recorded into it, also when Present refused the frame before.
AllocatorReusable ==
    phase = "acquired" /\ mishaps \subseteq {"present"} => ~CopyPending(index)

\* The frame resources are released only when neither queue uses them, also
\* when Present refused frames before.
ReleasedIdle ==
    phase = "released" /\ mishaps \subseteq {"idle", "present"} =>
        ~Pending(q11, {"draw"}) /\ ~Pending(q12, {"copy", "lost"})

\* A frame is drawn and copied in turns: the game never draws into the
\* shared back buffer while a frame that will be seen is being copied.
FrameNotTorn ==
    ~ /\ mishaps \subseteq {"timeout", "idle", "present"}
      /\ q11 # <<>> /\ Head(q11) = Draw
      /\ q12 # <<>> /\ Head(q12).op = "copy"

\* The two queues never wait for each other for ever, whatever frames were
\* dropped, resizes given up or waits timed out before.
QueuesAdvance ==
    mishaps \subseteq {"timeout", "idle"} =>
        (q11 # <<>> \/ q12 # <<>> => Runnable(q11) \/ Runnable(q12))
=============================================================================
