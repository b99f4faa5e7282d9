------------------------------ MODULE MCPmIdle ------------------------------
(***************************************************************************)
(* Instances of PmIdle for TLC; the constants are in the .cfg files.       *)
(***************************************************************************)
EXTENDS PmIdle
=============================================================================
