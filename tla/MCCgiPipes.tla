----------------------------- MODULE MCCgiPipes -----------------------------
(***************************************************************************)
(* CgiPipes with two requests at a time, for any two scripts.              *)
(***************************************************************************)
EXTENDS CgiPipes

CONSTANTS p1, p2
=============================================================================
