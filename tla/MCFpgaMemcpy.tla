---------------------------- MODULE MCFpgaMemcpy ----------------------------
(***************************************************************************)
(* Small instances of FpgaMemcpy for TLC.                                  *)
(***************************************************************************)
EXTENDS FpgaMemcpy, TLC

CONSTANTS t1, t2

Symmetry == Permutations(Threads)
=============================================================================
