---------------------------- MODULE MCCoroutine ----------------------------
(***************************************************************************)
(* Coroutine with three operations awaited by the innermost of three       *)
(* coroutines.                                                             *)
(***************************************************************************)
EXTENDS Coroutine
=============================================================================
