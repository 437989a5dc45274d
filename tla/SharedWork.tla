----------------------------- MODULE SharedWork -----------------------------
(***************************************************************************)
(* One frame's work on the textures that Direct3D 11 and Direct3D 12       *)
(* share: UpscalingPass::evaluate_provider_surface, the vendor upscalers   *)
(* that record their dispatch into a ring of command slots (FsrUpscaler,   *)
(* XessUpscaler), and SharedResources::copy_frame for the frame generator. *)
(*                                                                         *)
(* The render thread issues every command; the D3D11 context and the       *)
(* D3D12 queue execute theirs later, each in its own order.  Both sides    *)
(* signal one ready fence; a dispatch also signals the fence its slots are *)
(* measured by, and a frame ends with the exchange of the bridge           *)
(* (PresentationFences has its detail).  A texture is the number of the    *)
(* frame whose contents it holds.  Direct3D is external: any call may be   *)
(* refused.  The threads that configure and evaluate are one here.         *)
(*                                                                         *)
(* SharedResources (its textures and its ready fence) is made when a frame *)
(* needs it and taken down by a resize, which waits for the GPU first, by  *)
(* ENB's reset, which does not, and when a texture of the game no longer   *)
(* has the shape of its copy.                                              *)
(***************************************************************************)
EXTENDS Naturals, Sequences, FiniteSets

CONSTANTS
    Slots,       \* kCommandSlotCount
    MaxFrames,   \* bound of the frames
    MaxContexts, \* bound of the upscaler states that are created
    MaxShared,   \* bound of the states of SharedResources
    RetryFrames, \* frames copy_frame lets pass after a failed initialize
    MaxMishaps   \* bound of the Direct3D calls that are refused and of the
                 \* times SharedResources is let go, together

ASSUME SlotsAssumption == Slots \in Nat \ {0}
ASSUME BoundsAssumption ==
    {MaxFrames, MaxContexts, MaxShared, RetryFrames, MaxMishaps} \subseteq Nat

VARIABLES
    q11, q12,     \* commands that are not executed yet
    fence,        \* completed value of each fence
    textures,     \* of each state of SharedResources: inputs (colour, motion,
                  \* depth and masks), output, and those of the generator
    shared,       \* the state of SharedResources, or 0
    made,         \* how many of them were made
    released,     \* how each was taken down
    retry,        \* retry_frames_remaining_
    ready_value,  \* the last value handed out for the ready fence
    state,        \* State of the vendor upscaler
    created,      \* how many of them were created
    freed,        \* those that were destroyed
    prepared,     \* temporal_inputs_prepared_
    synchronized, \* temporal_inputs_synchronized_
    frame, phase, \* where the render thread is
    refused       \* history: the calls that were refused, with their frame

gpu == <<fence, textures>>
lifecycle == <<shared, made, released, retry>>
resources == <<lifecycle, ready_value>>
queues == <<q11, q12>>
flags == <<prepared, synchronized>>
contexts == <<state, created, freed>>
vars == <<gpu, queues, resources, contexts, flags, frame, phase, refused>>

Ready(id) == <<"ready", id>>
Bridge == <<"bridge">>
OfContext(id) == <<"context", id>>
Fences ==
    {Ready(id) : id \in 1 .. MaxShared} \cup {Bridge}
    \cup {OfContext(id) : id \in 1 .. MaxContexts}

-----------------------------------------------------------------------------
(***************************************************************************)
(* Commands, and the two parties that execute them.                        *)
(***************************************************************************)
Write(texture) ==
    [op |-> "write", to |-> texture, frame |-> frame, of |-> shared]
Take == [op |-> "take", frame |-> frame, of |-> shared]
Dispatch(i) ==
    [op |-> "dispatch", frame |-> frame, of |-> shared, slot |-> <<state.id, i>>]
Generate ==
    [op |-> "generate", frame |-> frame, of |-> shared, prepared |-> prepared]
Signal(f, v) == [op |-> "signal", fence |-> f, value |-> v]
Wait(f, v) == [op |-> "wait", fence |-> f, value |-> v]

Runnable(q) ==
    /\ q # <<>>
    /\ Head(q).op = "wait" => fence[Head(q).fence] >= Head(q).value

Execute(c) ==
    /\ fence' = IF c.op = "signal" THEN [fence EXCEPT ![c.fence] = c.value]
                ELSE fence
    /\ textures' =
         CASE c.op = "write" -> [textures EXCEPT ![c.of][c.to] = c.frame]
           [] c.op = "dispatch" -> [textures EXCEPT ![c.of].output = c.frame]
           [] OTHER -> textures
    /\ UNCHANGED <<resources, contexts, flags, frame, phase, refused>>

Run11 == Runnable(q11) /\ Execute(Head(q11)) /\ q11' = Tail(q11) /\ UNCHANGED q12

Run12 == Runnable(q12) /\ Execute(Head(q12)) /\ q12' = Tail(q12) /\ UNCHANGED q11

LetGoOnes == {id \in 1 .. MaxShared : released[id] # "no"}

Mishap == Cardinality(refused) + Cardinality(LetGoOnes) < MaxMishaps

\* A call is refused in this step; the others in it are not.
Refused(call) ==
    /\ Mishap
    /\ <<frame, call>> \notin refused
    /\ refused' = refused \cup {<<frame, call>>}

-----------------------------------------------------------------------------
(***************************************************************************)
(* The command slots of the vendor upscaler.                               *)
(***************************************************************************)
Indices == 0 .. Slots - 1

NewContext(id) ==
    [id |-> id, value |-> [i \in Indices |-> 0], next_slot |-> 0, next_value |-> 1]

NoContext == NewContext(0)

\* A slip the properties have to notice: one value too early.
FreeTooEarly(i) ==
    state.value[i] = 0 \/ fence[OfContext(state.id)] + 1 >= state.value[i]

Free(i) == state.value[i] = 0 \/ fence[OfContext(state.id)] >= state.value[i]

Nth(n) == (state.next_slot + n) % Slots

\* acquire_slot: the first free one from next_slot on, if there is one.
Acquirable ==
    {Nth(n) : n \in {m \in Indices :
                 Free(Nth(m)) /\ \A k \in 0 .. m - 1 : ~Free(Nth(k))}}

\* What wait_for_idle waits for.
Idle == \A i \in Indices : Free(i)

-----------------------------------------------------------------------------
Unwritten == [inputs |-> 0, output |-> 0, generator |-> 0]

Init ==
    /\ q11 = <<>> /\ q12 = <<>>
    /\ fence = [f \in Fences |-> 0]
    /\ textures = [id \in 1 .. MaxShared |-> Unwritten]
    /\ shared = 0 /\ made = 0 /\ retry = 0
    /\ released = [id \in 1 .. MaxShared |-> "no"]
    /\ ready_value = 0
    /\ state = NoContext /\ created = 0 /\ freed = {}
    /\ prepared = FALSE /\ synchronized = FALSE
    /\ frame = 0 /\ phase = "game"
    /\ refused = {}

\* begin_frame
BeginFrame ==
    /\ phase = "game" /\ frame < MaxFrames
    /\ frame' = frame + 1
    /\ phase' = "begun"
    /\ prepared' = FALSE /\ synchronized' = FALSE
    /\ UNCHANGED <<gpu, queues, resources, contexts, refused>>

(***************************************************************************)
(* D3D12 is made to wait for what D3D11 was given so far, writes included. *)
(***************************************************************************)
\* (The first form is a slip the properties have to notice: D3D12 is not.)
SynchronizeOneSide(writes) ==
    /\ ready_value' = ready_value + 1
    /\ q11' = q11 \o writes \o <<Signal(Ready(shared), ready_value + 1)>>
    /\ UNCHANGED <<q12, refused>>

Synchronize(writes) ==
    /\ ready_value' = ready_value + 1
    /\ q11' = q11 \o writes \o <<Signal(Ready(shared), ready_value + 1)>>
    /\ q12' = Append(q12, Wait(Ready(shared), ready_value + 1))
    /\ UNCHANGED refused

FailSynchronize(writes) ==
    /\ ready_value' = ready_value + 1
    /\ \/ Refused("signal11") /\ q11' = q11 \o writes
       \/ /\ Refused("wait12")
          /\ q11' = q11 \o writes \o <<Signal(Ready(shared), ready_value + 1)>>
    /\ UNCHANGED q12

(***************************************************************************)
(* prepare_temporal_inputs.  A second evaluation of the frame, at the      *)
(* Present, finds the inputs written.  They may not be there at all.       *)
(***************************************************************************)
Encoded == <<Write("inputs")>>

NewInputs == IF prepared THEN <<>> ELSE Encoded

Prepare ==
    /\ phase = "begun" /\ shared # 0
    /\ \/ /\ ~(prepared /\ synchronized)
          /\ Synchronize(NewInputs)
          /\ synchronized' = TRUE
          /\ phase' = "prepared"
       \/ /\ prepared /\ synchronized
          /\ phase' = "prepared"
          /\ UNCHANGED <<queues, ready_value, synchronized, refused>>
       \/ /\ ~(prepared /\ synchronized)
          /\ FailSynchronize(NewInputs)
          /\ synchronized' = FALSE
          /\ phase' = "unpaired"
    /\ prepared' = TRUE
    /\ UNCHANGED <<gpu, lifecycle, contexts, frame>>

\* The game's views are missing, or the extent does not fit.
FailPrepare ==
    /\ phase = "begun" /\ shared # 0
    /\ phase' = "unpaired"
    /\ UNCHANGED <<gpu, queues, resources, contexts, flags, frame, refused>>

\* The inputs are there, but the camera or the orientation of the depth is not
\* known.
RefuseCamera ==
    /\ phase = "prepared"
    /\ phase' = "unpaired"
    /\ UNCHANGED <<gpu, queues, resources, contexts, flags, frame, refused>>

\* With NVIDIA the work stays on D3D11: the inputs are not synchronized.
EvaluateNvidia ==
    /\ phase = "begun" /\ shared # 0 /\ ~prepared
    /\ q11' = q11 \o <<Write("inputs"), Write("generator")>>
    /\ prepared' = TRUE
    /\ phase' = "resolved"
    /\ UNCHANGED <<gpu, q12, resources, contexts, synchronized, frame, refused>>

(***************************************************************************)
(* configure: the context stays as long as the output and the flags do;    *)
(* otherwise shutdown waits for its slots first, and gives the state up    *)
(* without destroying it when that takes too long.                         *)
(***************************************************************************)
KeepContext ==
    /\ phase = "prepared"
    /\ state.id # 0
    /\ phase' = "configured"
    /\ UNCHANGED <<gpu, queues, resources, contexts, flags, frame, refused>>

DestroyContext ==
    /\ phase = "prepared"
    /\ state.id # 0
    /\ Idle
    /\ freed' = freed \cup {state.id}
    /\ state' = NoContext
    /\ UNCHANGED <<gpu, queues, resources, created, flags, frame, phase, refused>>

LeakContext ==
    /\ phase = "prepared"
    /\ state.id # 0
    /\ ~Idle
    /\ state' = NoContext
    /\ UNCHANGED <<gpu, queues, resources, created, freed, flags, frame, phase,
                   refused>>

CreateContext ==
    /\ phase = "prepared"
    /\ state.id = 0 /\ created < MaxContexts
    /\ created' = created + 1
    /\ state' = NewContext(created + 1)
    /\ phase' = "configured"
    /\ UNCHANGED <<gpu, queues, resources, freed, flags, frame, refused>>

\* The runtime, the device, the context or its slots cannot be had.
FailCreate ==
    /\ phase = "prepared"
    /\ state.id = 0
    /\ phase' = "unpaired"
    /\ UNCHANGED <<gpu, queues, resources, contexts, flags, frame, refused>>

-----------------------------------------------------------------------------
(***************************************************************************)
(* SharedResources: initialize makes new textures and a new fence that     *)
(* counts from zero, all of them or none; shutdown lets them go.           *)
(***************************************************************************)
Made ==
    /\ made < MaxShared
    /\ made' = made + 1
    /\ shared' = made + 1
    /\ ready_value' = 0

\* The evaluation of every frame tries again.
Initialize ==
    /\ phase = "begun" /\ shared = 0
    /\ Made
    /\ UNCHANGED <<gpu, queues, released, retry, contexts, flags, frame, phase,
                   refused>>

\* Nothing of a set that is not complete is kept: a texture that cannot be
\* shared, or a shader that converts the depth or encodes motion and masks.
FailInitialize ==
    /\ phase = "begun" /\ shared = 0
    /\ phase' = "unpaired"
    /\ UNCHANGED <<gpu, queues, resources, contexts, flags, frame, refused>>

LetGo(how) ==
    /\ Mishap
    /\ released' = [released EXCEPT ![shared] = how]
    /\ shared' = 0 /\ retry' = 0
    /\ prepared' = FALSE /\ synchronized' = FALSE
    /\ UNCHANGED <<made, ready_value>>

\* capture_frame_generation_hudless or copy_frame finds a texture of the game
\* changed.
Mismatch ==
    /\ shared # 0
    /\ \/ phase = "resolved" /\ phase' = "unpaired"
       \/ phase = "unpaired" /\ phase' = "shown"
    /\ LetGo("mismatch")
    /\ UNCHANGED <<gpu, queues, contexts, frame, refused>>

\* UpscalingPass::shutdown: its upscaler waits, or is given up.
UpscalerDown ==
    /\ state' = NoContext
    /\ freed' = freed \cup (IF state.id # 0 /\ Idle THEN {state.id} ELSE {})
    /\ UNCHANGED created

(***************************************************************************)
(* pre_reset, from ENB between two frames, or from resize_buffers, which   *)
(* gives up before it when the GPU does not come to rest in time.          *)
(***************************************************************************)
Reset(how) ==
    /\ phase = "game" /\ shared # 0
    /\ UpscalerDown
    /\ LetGo(how)
    /\ UNCHANGED <<gpu, queues, frame, phase, refused>>

ResizeBuffers == q11 = <<>> /\ q12 = <<>> /\ Reset("resize")

PreReset == Reset("reset")

-----------------------------------------------------------------------------
(***************************************************************************)
(* evaluate and complete_upscaler_dispatch.  The slot is marked with its   *)
(* value even when the signal of it is refused.                            *)
(***************************************************************************)
Submitted(i) ==
    [state EXCEPT !.value[i] = state.next_value,
                  !.next_slot = (i + 1) % Slots,
                  !.next_value = state.next_value + 1]

Retire == Signal(OfContext(state.id), state.next_value)

\* The output is taken and captured for the frame generator.
Output == <<Take, Write("generator")>>

\* A slip the properties have to notice: D3D11 does not wait.
EvaluateUnawaited ==
    /\ phase = "configured"
    /\ \E i \in Acquirable :
        /\ state' = Submitted(i)
        /\ q12' = q12 \o <<Dispatch(i), Retire, Signal(Ready(shared), ready_value + 1)>>
    /\ q11' = q11 \o Output
    /\ ready_value' = ready_value + 1
    /\ phase' = "resolved"
    /\ UNCHANGED <<gpu, lifecycle, created, freed, flags, frame, refused>>

Evaluate ==
    /\ phase = "configured"
    /\ \E i \in Acquirable :
        /\ state' = Submitted(i)
        /\ q12' = q12 \o <<Dispatch(i), Retire, Signal(Ready(shared), ready_value + 1)>>
    /\ q11' = q11 \o <<Wait(Ready(shared), ready_value + 1)>> \o Output
    /\ ready_value' = ready_value + 1
    /\ phase' = "resolved"
    /\ UNCHANGED <<gpu, lifecycle, created, freed, flags, frame, refused>>

\* The textures or the contract are not the configured ones.
RejectDispatch ==
    /\ phase = "configured"
    /\ phase' \in {"begun", "unpaired"}
    /\ UNCHANGED <<gpu, queues, resources, contexts, flags, frame, refused>>

\* No slot is free, or the recording fails: nothing is executed.
FailRecording ==
    /\ phase = "configured"
    /\ \/ /\ Acquirable = {}
          /\ UNCHANGED <<state, refused>>
       \/ /\ \E i \in Acquirable : state' = [state EXCEPT !.next_slot = (i + 1) % Slots]
          /\ Refused("recording")
    /\ phase' \in {"begun", "unpaired"}
    /\ UNCHANGED <<gpu, queues, resources, created, freed, flags, frame>>

\* A slip the properties have to notice: D3D11 waits for a refused signal.
FailEvaluateWaiting ==
    /\ phase = "configured"
    /\ \E i \in Acquirable : state' = Submitted(i) /\ q12' = q12 \o <<Dispatch(i), Retire>>
    /\ Refused("signal12")
    /\ q11' = Append(q11, Wait(Ready(shared), ready_value + 1))
    /\ ready_value' = ready_value + 1
    /\ phase' \in {"begun", "unpaired"}
    /\ UNCHANGED <<gpu, lifecycle, created, freed, flags, frame>>

\* The dispatch is executed, but one of the calls after it is refused.
FailEvaluate ==
    /\ phase = "configured"
    /\ \E i \in Acquirable :
        /\ state' = Submitted(i)
        /\ \/ /\ Refused("retire")
              /\ q12' = q12 \o <<Dispatch(i), Signal(Ready(shared), ready_value + 1)>>
              /\ q11' = Append(q11, Wait(Ready(shared), ready_value + 1))
           \/ /\ Refused("signal12")
              /\ q12' = q12 \o <<Dispatch(i), Retire>>
              /\ UNCHANGED q11
           \/ /\ Refused("wait11")
              /\ q12' = q12 \o <<Dispatch(i), Retire,
                                 Signal(Ready(shared), ready_value + 1)>>
              /\ UNCHANGED q11
    /\ ready_value' = ready_value + 1
    /\ phase' \in {"begun", "unpaired"}
    /\ UNCHANGED <<gpu, lifecycle, created, freed, flags, frame>>

-----------------------------------------------------------------------------
(***************************************************************************)
(* copy_frame, for the frame generator; without a capture of this frame it *)
(* copies and gives up.  It makes SharedResources too, but after a failure *)
(* only when some frames have passed.                                      *)
(***************************************************************************)
CopyFrame ==
    /\ phase = "resolved"
    /\ \/ /\ Synchronize(<<Write("generator")>>)
          /\ synchronized' = prepared
          /\ phase' = "copied"
       \/ /\ FailSynchronize(<<Write("generator")>>)
          /\ phase' = "shown"
          /\ UNCHANGED synchronized
    /\ UNCHANGED <<gpu, lifecycle, contexts, prepared, frame>>

CopyUncaptured ==
    /\ phase = "unpaired" /\ shared # 0
    /\ q11' = Append(q11, Write("generator"))
    /\ phase' = "shown"
    /\ UNCHANGED <<gpu, q12, resources, contexts, flags, frame, refused>>

CopyUnready ==
    /\ phase = "unpaired" /\ shared = 0
    /\ \/ /\ retry > 0
          /\ retry' = retry - 1
          /\ phase' = "shown"
          /\ UNCHANGED <<shared, made, ready_value>>
       \/ /\ retry = 0
          /\ retry' = RetryFrames
          /\ phase' = "shown"
          /\ UNCHANGED <<shared, made, ready_value>>
       \/ /\ retry = 0
          /\ Made
          /\ UNCHANGED <<retry, phase>>
    /\ UNCHANGED <<gpu, queues, released, contexts, flags, frame, refused>>

(***************************************************************************)
(* Present: D3D12 waits for what was drawn, generates and shows, and D3D11 *)
(* waits for that; or the frame is dropped, or what it does is not waited  *)
(* for.                                                                    *)
(***************************************************************************)
Drawn == Signal(Bridge, 2 * frame - 1)
Shown ==
    <<Wait(Bridge, 2 * frame - 1)>>
    \o (IF phase = "copied" THEN <<Generate>> ELSE <<>>)

Present ==
    /\ phase \in {"copied", "shown"}
    /\ \/ /\ q11' = q11 \o <<Drawn, Wait(Bridge, 2 * frame)>>
          /\ q12' = q12 \o Shown \o <<Signal(Bridge, 2 * frame)>>
          /\ UNCHANGED refused
       \/ /\ Refused("frame")
          /\ q11' = Append(q11, Drawn)
          /\ UNCHANGED q12
       \/ /\ Refused("completion")
          /\ q11' = Append(q11, Drawn)
          /\ q12' = q12 \o Shown
    /\ phase' = "game"
    /\ UNCHANGED <<gpu, resources, contexts, flags, frame>>

-----------------------------------------------------------------------------
Next ==
    \/ Run11
    \/ Run12
    \/ BeginFrame
    \/ Initialize
    \/ FailInitialize
    \/ Mismatch
    \/ ResizeBuffers
    \/ PreReset
    \/ Prepare
    \/ FailPrepare
    \/ RefuseCamera
    \/ EvaluateNvidia
    \/ KeepContext
    \/ DestroyContext
    \/ LeakContext
    \/ CreateContext
    \/ FailCreate
    \/ Evaluate
    \/ RejectDispatch
    \/ FailRecording
    \/ FailEvaluate
    \/ CopyFrame
    \/ CopyUncaptured
    \/ CopyUnready
    \/ Present

\* The GPU works its queues off; the game promises nothing.
Spec == Init /\ [][Next]_vars /\ WF_vars(Run11) /\ WF_vars(Run12)

-----------------------------------------------------------------------------
(***************************************************************************)
(* Properties.                                                             *)
(***************************************************************************)
Queued == {q12[n] : n \in DOMAIN q12}

Dispatches == {n \in DOMAIN q12 : q12[n].op = "dispatch"}

\* What D3D12 still has to execute keeps what it uses.  The allocator of a
\* dispatch is not reset and not destroyed with its upscaler, through contexts
\* that are replaced or leaked, slots that ran out and signals that were
\* refused (acquire_slot, wait_for_idle).  And the textures it was recorded
\* with are not let go by a resize, nor by ENB's reset under a dispatch whose
\* upscaler was not leaked (pre_reset).  A generation under ENB's reset, and
\* both after a mismatch, are not covered: nothing in the code waits there.
InFlightKept ==
    /\ \A m \in Dispatches :
        /\ q12[m].slot[1] \notin freed
        /\ \A n \in Dispatches : q12[m].slot = q12[n].slot => m = n
        /\ released[q12[m].of] = "reset" => q12[m].slot[1] # state.id
    /\ \A c \in Queued : c.op \in {"dispatch", "generate"} => released[c.of] # "resize"

\* The frames that left D3D12 with work nobody waits for.
Unawaited == {f \in 1 .. frame : {<<f, "frame">>, <<f, "completion">>} \cap refused # {}}

\* When a dispatch is due, its inputs are those of its own frame, and when
\* the frame generator is, its colour and motion and the prepared inputs
\* are: D3D11 never writes the next frame over them.  A dispatch is safe
\* twice, by the upscaler's exchange and by the bridge's; only when both are
\* refused in one frame is it not.
InputsNotTorn ==
    LET due(op) == q12 # <<>> /\ Head(q12).op = op
        c == Head(q12)
    IN  /\ due("dispatch") =>
             \/ textures[c.of].inputs = c.frame
             \/ /\ c.frame \in Unawaited
                /\ {<<c.frame, "signal12">>, <<c.frame, "wait11">>} \cap refused # {}
        /\ (due("generate") /\ c.frame \notin Unawaited) =>
             /\ textures[c.of].generator = c.frame
             /\ c.prepared => textures[c.of].inputs = c.frame

\* The upscaled image D3D11 copies out is the one of its own frame
\* (complete_upscaler_dispatch).
OutputIsFrame ==
    q11 # <<>> /\ Head(q11).op = "take" =>
        textures[Head(q11).of].output = Head(q11).frame

\* Both queues are always worked off in the end, whoever waits for whom: one
\* fence that both sides signal does not lock them up.  It can only when a
\* D3D11 wait was refused after D3D12's signal was queued, since the fence
\* may then go back.
QueuesDrain ==
    []<>(\/ q11 = <<>> /\ q12 = <<>>
         \/ \E f \in 1 .. frame : <<f, "wait11">> \in refused)
=============================================================================
