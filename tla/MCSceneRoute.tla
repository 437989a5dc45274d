---------------------------- MODULE MCSceneRoute ----------------------------
(***************************************************************************)
(* Frames of one session on a small instance: two jitter samples, so that  *)
(* two consecutive frames differ, and a probe of a single one.             *)
(***************************************************************************)
EXTENDS SceneRoute

ASSUME TwoFramesDiffer == Samples > 1
=============================================================================
