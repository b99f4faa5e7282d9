---------------------------- MODULE MCSoftTimers ----------------------------
(***************************************************************************)
(* Instances of SoftTimers for TLC; the constants are in the .cfg files.   *)
(***************************************************************************)
EXTENDS SoftTimers
=============================================================================
