---------------------------- MODULE MCXdmaEngine ----------------------------
(***************************************************************************)
(* Small instances of XdmaEngine for TLC.                                  *)
(***************************************************************************)
EXTENDS XdmaEngine, TLC

CONSTANTS t1, t2, x1, x2, x3

\* Threads and memory slots are interchangeable.
Symmetry == Permutations(Threads) \cup Permutations(Transfers)
=============================================================================
