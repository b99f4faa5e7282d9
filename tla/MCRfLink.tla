----------------------------- MODULE MCRfLink -----------------------------
(***************************************************************************)
(* Instances of RfLink for TLC.  The constants are given in the .cfg files *)
(* beside this module, one per question asked of the link task.            *)
(***************************************************************************)
EXTENDS RfLink, TLC

\* Keyboards are interchangeable; used by the runs without liveness only.
KeyboardSymmetry == Permutations(Keyboards)
===========================================================================
