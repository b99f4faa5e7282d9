------------------------------ MODULE MCUsbHid ------------------------------
(***************************************************************************)
(* Instances of UsbHid for TLC; the constants are in the .cfg files.       *)
(***************************************************************************)
EXTENDS UsbHid, TLC

\* Keys are interchangeable; used by the runs without liveness only.
KeySymmetry == Permutations(Keys)
=============================================================================
