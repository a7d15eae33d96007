------------------------- MODULE MCExecutionContext -------------------------
(***************************************************************************)
(* ExecutionContext with three descriptors and a pool of two workers.      *)
(***************************************************************************)
EXTENDS ExecutionContext

CONSTANTS f1, f2, f3, w1, w2
=============================================================================
