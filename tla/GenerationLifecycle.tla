------------------------ MODULE GenerationLifecycle ------------------------
(***************************************************************************)
(* What the DLSS-G controller promises to the rest of the plugin, without  *)
(* its mechanism.  Frame generation is off (no controller), idle, running, *)
(* gated or guarded.  A gate may be left at any time.  A guarded           *)
(* suspension is served: it ends, or is retried, only after enough healthy *)
(* reports, and nothing else (a menu opening and closing on top of it, a   *)
(* renderer reset, a refused call) shortens it.                            *)
(***************************************************************************)
EXTENDS Naturals

CONSTANTS
    GuardedFrames,    \* clean reports that serve a guarded suspension
    ForcedFrames      \* reports in all that serve it, clean or not

VARIABLES
    phase,    \* what the controller is doing
    clean,    \* healthy reports since the last failure, in this suspension
    served    \* healthy reports in this suspension, up to ForcedFrames

vars == <<phase, clean, served>>

Phases == {"off", "idle", "running", "gated", "guarded"}

Served == clean >= GuardedFrames \/ served >= ForcedFrames

Init == phase = "off" /\ clean = 0 /\ served = 0

Start == phase = "off" /\ phase' = "idle" /\ UNCHANGED <<clean, served>>

Stop == phase' = "off" /\ clean' = 0 /\ served' = 0

\* Outside a guarded suspension the controller moves freely between its
\* modes; a new guarded suspension starts with nothing served.
Switch ==
    /\ phase \in {"idle", "running", "gated"}
    /\ phase' \in Phases \ {"off"}
    /\ UNCHANGED <<clean, served>>

\* A healthy report; the first one after a failure does not count as clean.
Report ==
    /\ phase = "guarded"
    /\ clean < GuardedFrames
    /\ clean' \in {0, clean + 1}
    /\ served' = IF served < ForcedFrames THEN served + 1 ELSE served
    /\ UNCHANGED phase

\* A further failure, or a gate on top, restarts the clean run only.
Relapse ==
    /\ phase = "guarded"
    /\ clean' = 0
    /\ UNCHANGED <<phase, served>>

\* Recovery is attempted: it succeeds, or a new guarded suspension starts.
Recover ==
    /\ phase = "guarded"
    /\ Served
    /\ phase' \in {"idle", "running", "guarded"}
    /\ clean' = 0
    /\ served' = 0

Next ==
    \/ Start
    \/ Stop
    \/ Switch
    \/ Report
    \/ Relapse
    \/ Recover

Spec == Init /\ [][Next]_vars
=============================================================================
