-------------------------- MODULE MCFpgaLifecycle ---------------------------
(***************************************************************************)
(* Small instances of FpgaLifecycle for TLC.                               *)
(***************************************************************************)
EXTENDS FpgaLifecycle

CONSTANTS t1, t2, t3
=============================================================================
