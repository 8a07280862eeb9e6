-------------------------- MODULE MCEmbeddingQueue --------------------------
(* Instances of EmbeddingQueue for TLC: two worker processes, one consumer *)
(* in each.                                                                *)
EXTENDS EmbeddingQueue

CONSTANTS c1, c2, p1, p2

TwoProcesses == [c \in {c1, c2} |-> IF c = c1 THEN p1 ELSE p2]
=============================================================================
