------------------------------- MODULE Dequeue -------------------------------
(***************************************************************************)
(* The queue between the collector's threads (report_collector_c/src/      *)
(* dequeue.c): a singly linked list under a mutex, and a semaphore that    *)
(* counts the elements.                                                    *)
(*                                                                         *)
(* A cell is addressed by the order of its allocation, 0 is NULL: the code *)
(* allocates a cell inside the critical section and never frees it (pop    *)
(* drops the element without free), so an address is never reused and      *)
(* `cells` is the whole heap of list elements.                             *)
(*                                                                         *)
(* pop does not reset `last` when it empties the list: the next push then  *)
(* writes `next` of a cell that was popped long ago.                       *)
(***************************************************************************)
EXTENDS Naturals, Sequences, FiniteSets

CONSTANTS
  Producers, Consumers,  \* threads that push, threads that pop in a loop
  Data, NoData,          \* what is stored; what a pop without data returns
  MaxPush,               \* bound: elements pushed in a behaviour
  MaxWakes               \* bound: shutdown sem_post calls (main.c 170-171)

Threads == Producers \cup Consumers

ASSUME ThreadsAssumption == /\ Producers \cap Consumers = {}
                            /\ IsFiniteSet(Threads)
                            /\ 0 \notin Threads
ASSUME DataAssumption == NoData \notin Data
ASSUME BoundsAssumption == MaxPush \in Nat /\ MaxWakes \in Nat

NULL == 0
Free == 0                \* the mutex has no owner

VARIABLES
  cells,   \* cells[a]: the list element at address a
  first, last,
  mutex,   \* owner of dq->mutex
  sem,     \* value of dq->sem
  pc,      \* where each thread is in push or pop
  el,      \* new_el of a producer
  ret,     \* what the last pop of a consumer returned
  taken,   \* history: the data popped, in order
  wakes,   \* shutdown posts done
  nulls    \* history: pops that found the list empty

vars == <<cells, first, last, mutex, sem, pc, el, ret, taken, wakes, nulls>>

Init ==
  /\ cells = <<>> /\ first = NULL /\ last = NULL
  /\ mutex = Free /\ sem = 0
  /\ pc = [t \in Threads |-> "idle"]
  /\ el = [p \in Producers |-> NULL]
  /\ ret = [c \in Consumers |-> NoData]
  /\ taken = <<>> /\ wakes = 0 /\ nulls = 0

------------------------------------------------------------------------------
(* dequeue_push *)

PushLock(p) ==
  /\ pc[p] = "idle" /\ mutex = Free /\ Len(cells) < MaxPush
  /\ mutex' = p
  /\ pc' = [pc EXCEPT ![p] = "link"]
  /\ UNCHANGED <<cells, first, last, sem, el, ret, taken, wakes, nulls>>

\* Fault: the element is not hung behind the last one.
Unlinked(d) == Append(cells, [next |-> NULL, data |-> d])

\* The heap after a new element is allocated and hung behind `last`.
Linked(d) ==
  LET new == Append(cells, [next |-> NULL, data |-> d])
  IN IF last # NULL THEN [new EXCEPT ![last].next = Len(new)] ELSE new

PushLink(p) ==
  /\ pc[p] = "link"
  /\ \E d \in Data : cells' = Linked(d)
  /\ el' = [el EXCEPT ![p] = Len(cells) + 1]
  /\ pc' = [pc EXCEPT ![p] = "head"]
  /\ UNCHANGED <<first, last, mutex, sem, ret, taken, wakes, nulls>>

\* Fault: the new element always becomes the head.
PushHeadAlways(p) ==
  /\ pc[p] = "head"
  /\ first' = el[p]
  /\ pc' = [pc EXCEPT ![p] = "tail"]
  /\ UNCHANGED <<cells, last, mutex, sem, el, ret, taken, wakes, nulls>>

PushHead(p) ==
  /\ pc[p] = "head"
  /\ first' = IF first = NULL THEN el[p] ELSE first
  /\ pc' = [pc EXCEPT ![p] = "tail"]
  /\ UNCHANGED <<cells, last, mutex, sem, el, ret, taken, wakes, nulls>>

PushTail(p) ==
  /\ pc[p] = "tail"
  /\ last' = el[p]
  /\ mutex' = Free
  /\ pc' = [pc EXCEPT ![p] = "post"]
  /\ UNCHANGED <<cells, first, sem, el, ret, taken, wakes, nulls>>

\* Fault: a push that does not post.
PushWithoutPost(p) ==
  /\ pc[p] = "post"
  /\ pc' = [pc EXCEPT ![p] = "idle"]
  /\ UNCHANGED <<cells, first, last, mutex, sem, el, ret, taken, wakes, nulls>>

\* After the unlock: a consumer may already have taken the element with the
\* token of another one.
PushPost(p) ==
  /\ pc[p] = "post"
  /\ sem' = sem + 1
  /\ pc' = [pc EXCEPT ![p] = "idle"]
  /\ UNCHANGED <<cells, first, last, mutex, el, ret, taken, wakes, nulls>>

Push(p) == PushLock(p) \/ PushLink(p) \/ PushHead(p) \/ PushTail(p) \/ PushPost(p)

------------------------------------------------------------------------------
(* dequeue_pop *)

\* Fault: a pop that does not wait for a token.
PopWithoutWait(c) ==
  /\ pc[c] = "idle"
  /\ sem' = sem - 1
  /\ pc' = [pc EXCEPT ![c] = "token"]
  /\ UNCHANGED <<cells, first, last, mutex, el, ret, taken, wakes, nulls>>

PopWait(c) ==
  /\ pc[c] = "idle" /\ sem > 0
  /\ sem' = sem - 1
  /\ pc' = [pc EXCEPT ![c] = "token"]
  /\ UNCHANGED <<cells, first, last, mutex, el, ret, taken, wakes, nulls>>

\* Fault: that sem_wait failed is not noticed.
PopRegardless(c) ==
  /\ pc[c] = "idle"
  /\ pc' = [pc EXCEPT ![c] = "token"]
  /\ UNCHANGED <<cells, first, last, mutex, sem, el, ret, taken, wakes, nulls>>

\* sem_wait failed (a signal handler ran in this thread): NULL, nothing else.
PopInterrupted(c) ==
  /\ pc[c] = "idle"
  /\ ret' = [ret EXCEPT ![c] = NoData]
  /\ UNCHANGED <<cells, first, last, mutex, sem, pc, el, taken, wakes, nulls>>

PopLock(c) ==
  /\ pc[c] = "token" /\ mutex = Free
  /\ mutex' = c
  /\ pc' = [pc EXCEPT ![c] = "take"]
  /\ UNCHANGED <<cells, first, last, sem, el, ret, taken, wakes, nulls>>

PopTake(c) ==
  /\ pc[c] = "take"
  /\ pc' = [pc EXCEPT ![c] = "unlock"]
  /\ \/ /\ first # NULL
        /\ ret' = [ret EXCEPT ![c] = cells[first].data]
        /\ taken' = Append(taken, cells[first].data)
        /\ first' = cells[first].next
        /\ nulls' = nulls
     \/ /\ first = NULL
        /\ ret' = [ret EXCEPT ![c] = NoData]
        /\ nulls' = nulls + 1
        /\ UNCHANGED <<taken, first>>
  /\ UNCHANGED <<cells, last, mutex, sem, el, wakes>>

PopUnlock(c) ==
  /\ pc[c] = "unlock"
  /\ mutex' = Free
  /\ pc' = [pc EXCEPT ![c] = "idle"]
  /\ UNCHANGED <<cells, first, last, sem, el, ret, taken, wakes, nulls>>

Pop(c) == PopWait(c) \/ PopLock(c) \/ PopTake(c) \/ PopUnlock(c)

------------------------------------------------------------------------------
\* main's sem_post(&queue.sem) at shutdown: a token that stands for no element.
Wake ==
  /\ wakes < MaxWakes
  /\ wakes' = wakes + 1
  /\ sem' = sem + 1
  /\ UNCHANGED <<cells, first, last, mutex, pc, el, ret, taken, nulls>>

Next == \/ \E p \in Producers : Push(p)
        \/ \E c \in Consumers : Pop(c) \/ PopInterrupted(c)
        \/ Wake

Spec == Init /\ [][Next]_vars

\* Threads inside a call are scheduled; consumers call pop in a loop.
\* A push may never be called, but one that began runs to its end.
Fairness ==
  /\ \A p \in Producers : WF_vars(PushLink(p) \/ PushHead(p) \/ PushTail(p) \/ PushPost(p))
  /\ \A c \in Consumers : WF_vars(Pop(c))

FairSpec == Spec /\ Fairness

------------------------------------------------------------------------------
(* Properties *)

Cell == [next : Nat, data : Data]

\* Every variable keeps its type.
TypeOK ==
  /\ cells \in Seq(Cell) /\ first \in Nat /\ last \in Nat
  /\ mutex \in Threads \cup {Free} /\ sem \in Nat
  /\ pc \in [Threads -> {"idle", "link", "head", "tail", "post", "token", "take", "unlock"}]
  /\ \A p \in Producers : pc[p] \in {"idle", "link", "head", "tail", "post"}
  /\ \A c \in Consumers : pc[c] \in {"idle", "token", "take", "unlock"}
  /\ el \in [Producers -> Nat]
  /\ ret \in [Consumers -> Data \cup {NoData}]
  /\ taken \in Seq(Data) /\ wakes \in Nat /\ nulls \in Nat

\* Exactly once and in order: the data popped so far are the data of the cells
\* linked first, each once, whatever the interleaving and although `last` is
\* left pointing at a popped cell (dequeue.c 41, 19-21).
Fifo == /\ Len(taken) <= Len(cells)
        /\ \A i \in 1..Len(taken) : taken[i] = cells[i].data

\* The list from `first` is exactly what was pushed and not popped: a cell
\* linked behind a stale `last` never joins a popped cell to the list again,
\* and a push half way through the list never hides an element.
ListIsUntaken ==
  /\ \A a \in DOMAIN cells : cells[a].next = IF a < Len(cells) THEN a + 1 ELSE NULL
  /\ first # NULL => first = Len(taken) + 1 /\ first <= Len(cells)
  /\ (first = NULL /\ \A p \in Producers : pc[p] # "head") => Len(taken) = Len(cells)

Entitled == {c \in Consumers : pc[c] \in {"token", "take"}}
Unposted == {p \in Producers : pc[p] \in {"head", "tail", "post"}}

\* Tokens and elements balance, with the pops and pushes that are half done.
TokenBalance ==
  sem + Cardinality(Entitled) + Len(taken) + nulls + Cardinality(Unposted)
    = Len(cells) + wakes

\* No element is stranded: with the list not empty there is a token, a consumer
\* that holds one, or a push about to post one (dequeue.c 27-28, the unlock
\* comes before the post).
NoLostWakeup ==
  Len(cells) > Len(taken) => \/ sem > 0
                             \/ Entitled # {}
                             \/ Unposted # {}

\* A pop finds the list empty only because main posted at shutdown, at most
\* once per post: while the collector runs, report_parser and report_exporter
\* never read the NULL of an empty list.
NullOnlyByWake == nulls <= wakes

\* Every element linked into the list is popped in the end.
EveryPushIsPopped ==
  \A n \in 1..MaxPush : Len(cells) >= n ~> Len(taken) >= n

\* The data reachable from `first`, by ListIsUntaken.
Contents == IF first = NULL THEN <<>>
            ELSE [i \in 1..(Len(cells) + 1 - first) |-> cells[first + i - 1].data]

Abstract == INSTANCE QueueSpec WITH queue <- Contents

\* The linked list implements the FIFO with a counting semaphore: between the
\* critical sections of other threads, every step of a push or a pop is one
\* step of the abstract queue or none, and a pop gets its oldest element.
ImplementsFifo == Abstract!Spec
==============================================================================
