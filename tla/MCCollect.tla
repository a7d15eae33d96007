----------------------------- MODULE MCCollect -----------------------------
(***************************************************************************)
(* Collect with three inputs and every n_expected from zero to three.      *)
(***************************************************************************)
EXTENDS Collect
=============================================================================
