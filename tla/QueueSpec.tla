------------------------------ MODULE QueueSpec ------------------------------
(***************************************************************************)
(* The abstract queue of the collector as a specification: the operations  *)
(* of FifoQueue in any order, and what its users observe, the sequence of  *)
(* data handed to those who pop.  Data leave the queue only by being       *)
(* handed out, oldest first.                                               *)
(***************************************************************************)
EXTENDS FifoQueue

VARIABLE taken      \* the data handed out, in order

svars == <<queue, sem, taken>>

Start == Init /\ taken = <<>>

Serve == TakeOne /\ taken' = Append(taken, Head(queue))

Step == \/ Serve
        \/ /\ \/ \E d \in Data : Put(d)
              \/ Post
              \/ Wait
              \/ TakeNone
           /\ UNCHANGED taken

Spec == Start /\ [][Step]_svars
==============================================================================
