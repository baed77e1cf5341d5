----------------------------- MODULE MCXdmaPoll -----------------------------
(***************************************************************************)
(* Small instances of XdmaPoll for TLC.                                    *)
(***************************************************************************)
EXTENDS XdmaPoll, TLC

CONSTANTS t1, t2, t3, x1, x2, x3

\* Threads are interchangeable, and so are the slots of transfers.
Symmetric == Permutations(Threads) \cup Permutations(Transfers)
=============================================================================
