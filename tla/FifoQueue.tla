------------------------------ MODULE FifoQueue ------------------------------
(***************************************************************************)
(* What the linked-list queue of dequeue.c promises its users: a FIFO and  *)
(* a counting semaphore.  A push is Put (under the mutex) and then Post; a *)
(* pop is Wait and then Take (under the mutex).  The two halves of a call  *)
(* are separate steps because the mutex is released between them and other *)
(* threads run in the gap.  Post is also what main uses to wake a blocked  *)
(* consumer at shutdown.                                                   *)
(*                                                                         *)
(* Module QueueSpec makes them a specification, which module Dequeue       *)
(* implements; module Collector is built on two instances of this one.     *)
(***************************************************************************)
EXTENDS Naturals, Sequences

CONSTANT Data       \* what callers store: packets, or parsed reports

VARIABLES queue,    \* the stored data, oldest first
          sem       \* value of the semaphore

qvars == <<queue, sem>>

Init == queue = <<>> /\ sem = 0

Put(d) == queue' = Append(queue, d) /\ sem' = sem

Post == sem' = sem + 1 /\ queue' = queue

Wait == sem > 0 /\ sem' = sem - 1 /\ queue' = queue

TakeOne == queue # <<>> /\ queue' = Tail(queue) /\ sem' = sem

\* A token without data (a shutdown Post): dequeue_pop returns NULL.
TakeNone == queue = <<>> /\ UNCHANGED qvars
==============================================================================
