------------------------------ MODULE MCDequeue ------------------------------
(* Two producers and two consumers, more threads than any queue of the       *)
(* collector has, push three elements of two kinds between them.             *)
EXTENDS Dequeue

CONSTANTS p1, p2, c1, c2, d1, d2, none

MCProducers == {p1, p2}
MCConsumers == {c1, c2}
MCData == {d1, d2}
==============================================================================
