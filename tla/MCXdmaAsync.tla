---------------------------- MODULE MCXdmaAsync ----------------------------
(***************************************************************************)
(* A small instance of XdmaAsync for TLC.                                  *)
(***************************************************************************)
EXTENDS XdmaAsync

CONSTANTS i1, i2, r1, r2, a1, a2

\* One transfer, two transfers of one segment, two segments.
MCShapes == {<<1, 1>>, <<1, 2>>, <<2, 1>>}
=============================================================================
