----------------------------- MODULE MCXdmaDesc -----------------------------
(***************************************************************************)
(* Small instances of XdmaDesc for TLC: pages of four units, transfers of  *)
(* three pages, descriptors of at most nine units, fetches of at most      *)
(* three descriptors and four descriptors in 4 KB.                         *)
(***************************************************************************)
EXTENDS XdmaDesc

\* Every way the six pages of a buffer or of the ring can be scattered.
MCPageTables == SUBSET (1 .. 5)

\* Unspecified, and every pair whose granularity divides its alignment.
MCAlignRegisters == {<<0, 0>>, <<2, 1>>, <<2, 2>>}

MCStarts == 0 .. 3
MCCounts == {0, 1, 2, 4, 6, 8, 9, 10, 12, 13, 14, 25}
MCPositions == {0, 1}
=============================================================================
