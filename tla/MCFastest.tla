----------------------------- MODULE MCFastest -----------------------------
(***************************************************************************)
(* Fastest with three inputs.                                              *)
(***************************************************************************)
EXTENDS Fastest

CONSTANTS i1, i2, i3
=============================================================================
