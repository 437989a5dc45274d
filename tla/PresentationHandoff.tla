------------------------ MODULE PresentationHandoff ------------------------
(***************************************************************************)
(* Who owns the swap chain the game presents through, translated from the  *)
(* handoff functions of src/render/PresentationBridge.cpp.  A vendor frame *)
(* generator takes the bridge's own chain, makes one of its own on the     *)
(* same window and lends it back; when that fails, or the generator shuts  *)
(* down, the bridge has to make a new chain of its own.                    *)
(*                                                                         *)
(* The bridge is a record: chain is the swap_chain it presents through     *)
(* ("vendor" when it is also generated_swap_chain, the two are only ever   *)
(* set together), window tells that handoff_window is set, buffers is the  *)
(* number of back buffers it tracks (the length of swap_chain_buffers),    *)
(* described that of presented_description.  A function is an operator to  *)
(* the set of its outcomes [bridge, ok]; it has more than one where        *)
(* Direct3D may fail.                                                      *)
(***************************************************************************)
EXTENDS Naturals

CONSTANT BufferCounts    \* numbers of back buffers a swap chain can have

ASSUME BufferCountsAssumption ==
    BufferCounts \subseteq Nat \ {0, 1} /\ BufferCounts # {}

Chains == {"none", "own", "vendor"}

Bridges ==
    [chain : Chains, window : BOOLEAN, buffers : BufferCounts \cup {0},
     described : BufferCounts]

NewBridge(n) ==
    [chain |-> "own", window |-> FALSE, buffers |-> n, described |-> n]

Granted(b) == [bridge |-> b, ok |-> TRUE]

Denied(b) == [bridge |-> b, ok |-> FALSE]

WithoutChain(b) == [b EXCEPT !.chain = "none", !.buffers = 0]

\* Needs the window of the handoff, and keeps it until it succeeds.
RecreateOutcomes(b) ==
    {Denied(WithoutChain(b))}
    \cup (IF b.window
          THEN {Granted([b EXCEPT !.chain = "own", !.window = FALSE,
                                  !.buffers = b.described])}
          ELSE {})

\* Refused while a generator has the chain, when there is none, or when the
\* window or the idle GPU cannot be had.
BeginHandoffOutcomes(b) ==
    {Denied(b)}
    \cup (IF b.chain = "own"
          THEN {Granted([WithoutChain(b) EXCEPT !.window = TRUE])} ELSE {})

\* The generator gave its chain up: the bridge makes one of its own.
ReleaseOutcomes(b) ==
    IF b.chain # "vendor" THEN {Denied(b)} ELSE RecreateOutcomes(b)

\* A chain that was adopted but has no usable buffers is replaced at once.
AdoptOutcomes(b) ==
    IF b.chain = "vendor" THEN {Denied(b)}
    ELSE {Denied(b)}
         \cup {Granted([b EXCEPT !.chain = "vendor", !.buffers = n])
                  : n \in BufferCounts}
         \cup {Denied(r.bridge) : r \in RecreateOutcomes(b)}

\* TRUE when presentation was restored; without a window there is nothing
\* to restore.
AbortHandoffOutcomes(b) ==
    IF ~b.window THEN {Denied(b)}
    ELSE CASE b.chain = "vendor" -> ReleaseOutcomes(b)
           [] b.chain = "own"    -> {Granted([b EXCEPT !.window = FALSE])}
           [] OTHER              -> RecreateOutcomes(b)

\* ResizeBuffers, after release_frame_resources: the buffers are got again,
\* or are gone when a step before that fails.  The description only changes
\* when the resize itself succeeded.
ResizeOutcomes(b) ==
    {Denied([b EXCEPT !.buffers = n]) : n \in BufferCounts \cup {0}}
    \cup {Granted([b EXCEPT !.buffers = n, !.described = n])
             : n \in BufferCounts}
=============================================================================
