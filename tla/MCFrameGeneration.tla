------------------------- MODULE MCFrameGeneration -------------------------
(***************************************************************************)
(* The DLSS-G controller on a small instance.  Every counter has room for  *)
(* the cases that matter: a gate that is held twice before it escalates, a *)
(* clean run that is broken one report before its end, and a watchdog that *)
(* takes longer than the clean run.                                        *)
(***************************************************************************)
EXTENDS FrameGeneration

ASSUME WatchdogIsFallback == ForcedFrames > GuardedFrames
=============================================================================
