-------------------------- MODULE MCRendererFrame --------------------------
(***************************************************************************)
(* The frame loop on a small instance.  The thresholds keep their order    *)
(* (the watchdog takes longer than the clean run) and each can be reached  *)
(* and missed by one.                                                      *)
(***************************************************************************)
EXTENDS RendererFrame

ASSUME WatchdogIsFallback == ForcedFrames > GuardedFrames
=============================================================================
