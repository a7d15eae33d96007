--------------------------- MODULE MCQueueOnList ---------------------------
(***************************************************************************)
(* QueueOnList with two senders, three receivers, two values, three sends, *)
(* and a heap of four nodes.                                               *)
(***************************************************************************)
EXTENDS QueueOnList

CONSTANTS s1, s2, r1, r2, r3, v1, v2
=============================================================================
