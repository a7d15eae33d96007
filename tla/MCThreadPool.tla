---------------------------- MODULE MCThreadPool ----------------------------
(***************************************************************************)
(* ThreadPool with two workers and three tasks.                            *)
(***************************************************************************)
EXTENDS ThreadPool

CONSTANTS w1, w2, t1, t2, t3
=============================================================================
