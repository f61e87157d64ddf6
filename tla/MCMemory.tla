------------------------------- MODULE MCMemory -------------------------------
(* Instance of MemoryPipeline for TLC: one resolution, which may wait for its *)
(* refund, two memory workers and a query. A candidate and a skip are results *)
(* that differ.                                                               *)
EXTENDS MemoryPipeline, TLC

CONSTANTS r1, w1, w2, c1, q1
=============================================================================
