---------------------------- MODULE MCXdmaCyclic ----------------------------
(***************************************************************************)
(* Small instances of XdmaCyclic for TLC.                                  *)
(***************************************************************************)
EXTENDS XdmaCyclic
=============================================================================
