---------------------------- MODULE MCIapService ----------------------------
(***************************************************************************)
(* Instances of IapService for TLC; the constants are in the .cfg files.   *)
(***************************************************************************)
EXTENDS IapService
=============================================================================
