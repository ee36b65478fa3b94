---------------------------- MODULE DequeueProofs ----------------------------
(***************************************************************************)
(* Theorems about module Dequeue, for any number of producers and          *)
(* consumers, any data and any bounds.                                     *)
(***************************************************************************)
EXTENDS Dequeue, FiniteSetTheorems, SequenceTheorems, TLAPS

InSection == {"link", "head", "tail", "take", "unlock"}

\* The mutex is held by the thread in a critical section, and by it alone.
MutexInv == \A t \in Threads : pc[t] \in InSection <=> mutex = t

\* `last` is the newest cell, except while its pusher has yet to write it.
\* An empty list whose newest cell is not yet at the head misses that cell only.
PushInv ==
  /\ \A p \in Producers : pc[p] \in {"head", "tail"} =>
        el[p] = Len(cells) /\ Len(cells) > 0 /\ last = Len(cells) - 1
  /\ (\A p \in Producers : pc[p] \notin {"head", "tail"}) => last = Len(cells)
  /\ \A p \in Producers : pc[p] = "head" /\ first = NULL => Len(taken) + 1 = Len(cells)

\* The inductive invariant of the list.
ListInv == TypeOK /\ MutexInv /\ PushInv /\ ListIsUntaken /\ Fifo

LEMMA ListInit == Init => ListInv
<1> SUFFICES ASSUME Init PROVE ListInv
  OBVIOUS
<1>1. TypeOK
  BY EmptySeq DEF Init, TypeOK, NULL, Free, Threads
<1>2. MutexInv
  BY ThreadsAssumption DEF Init, MutexInv, InSection, Free, Threads
<1>3. PushInv
  BY DEF Init, PushInv, NULL, Threads
<1>4. ListIsUntaken /\ Fifo
  BY DEF Init, ListIsUntaken, Fifo, NULL, Threads
<1> QED BY <1>1, <1>2, <1>3, <1>4 DEF ListInv

\* What the allocation and the write through `last` do to the heap, when `last`
\* is the newest cell.
LEMMA LinkedCells ==
  ASSUME TypeOK, last = Len(cells), NEW d \in Data,
         \A a \in DOMAIN cells : cells[a].next = IF a < Len(cells) THEN a + 1 ELSE NULL
  PROVE  /\ Linked(d) \in Seq(Cell)
         /\ Len(Linked(d)) = Len(cells) + 1
         /\ Linked(d)[Len(cells) + 1].data = d
         /\ \A a \in 1..Len(cells) : Linked(d)[a].data = cells[a].data
         /\ \A a \in 1..(Len(cells) + 1) :
               Linked(d)[a].next = IF a < Len(cells) + 1 THEN a + 1 ELSE NULL
<1> DEFINE c == [next |-> NULL, data |-> d]
           new == Append(cells, c)
<1>1. c \in Cell /\ cells \in Seq(Cell) /\ Len(cells) \in Nat /\ DOMAIN cells = 1..Len(cells)
  BY LenProperties DEF Cell, NULL, TypeOK
<1>2. /\ new \in Seq(Cell) /\ Len(new) = Len(cells) + 1
      /\ \A a \in 1..Len(cells) : new[a] = cells[a]
      /\ new[Len(cells) + 1] = c
  BY <1>1, AppendProperties
<1>3. CASE last = NULL
  <2>1. Linked(d) = new /\ Len(cells) = 0
    BY <1>3 DEF Linked, NULL
  <2> QED BY <2>1, <1>1, <1>2 DEF NULL
<1>4. CASE last # NULL
  <2>1. last \in 1..Len(new)
    BY <1>1, <1>2, <1>4 DEF NULL
  <2>2. new[last] \in Cell
    BY <1>2, <2>1, ElementOfSeq
  <2> DEFINE e == [new[last] EXCEPT !.next = Len(new)]
  <2>3. e \in Cell /\ e.data = new[last].data /\ e.next = Len(new)
    <3>1. Len(new) \in Nat
      BY <1>1, <1>2
    <3> HIDE DEF new
    <3> QED BY <2>2, <3>1 DEF Cell
  <2>4. Linked(d) = [new EXCEPT ![last] = e]
    BY <1>4 DEF Linked
  <2> HIDE DEF e, new
  <2>5. /\ Linked(d) \in Seq(Cell) /\ Len(Linked(d)) = Len(new)
        /\ \A a \in 1..Len(new) : Linked(d)[a] = IF a = last THEN e ELSE new[a]
    BY <1>2, <2>1, <2>3, <2>4, ExceptSeq
  <2> HIDE DEF c
  <2>6. \A a \in 1..Len(cells) : Linked(d)[a].data = cells[a].data
    BY <1>1, <1>2, <2>3, <2>5
  <2>7. Linked(d)[Len(cells) + 1].data = d
    BY <1>1, <1>2, <2>5 DEF c
  <2>8. \A a \in 1..(Len(cells) + 1) :
               Linked(d)[a].next = IF a < Len(cells) + 1 THEN a + 1 ELSE NULL
    <3>1. \A a \in 1..Len(cells) : Linked(d)[a].next = a + 1
      BY <1>1, <1>2, <2>3, <2>5
    <3>2. Linked(d)[Len(cells) + 1].next = NULL
      BY <1>1, <1>2, <2>5 DEF c
    <3> QED BY <1>1, <3>1, <3>2
  <2> QED BY <1>2, <2>5, <2>6, <2>7, <2>8
<1> QED BY <1>3, <1>4

LEMMA ListStep == ListInv /\ [Next]_vars => ListInv'
<1> SUFFICES ASSUME ListInv, [Next]_vars PROVE ListInv'
  OBVIOUS
<1> USE ThreadsAssumption DEF Threads, NULL, Free
<1>0. /\ TypeOK /\ MutexInv /\ PushInv /\ ListIsUntaken /\ Fifo
      /\ Len(cells) \in Nat /\ DOMAIN cells = 1..Len(cells) /\ Len(taken) \in Nat
  BY LenProperties DEF ListInv, TypeOK
<1>len. Len(cells) \in Nat /\ Len(taken) \in Nat
  BY <1>0
<1>1. ASSUME NEW p \in Producers, PushLock(p) PROVE ListInv'
  <2>1. TypeOK'
    BY <1>0, <1>1 DEF PushLock, TypeOK
  <2>2. MutexInv'
    BY <1>0, <1>1 DEF PushLock, TypeOK, MutexInv, InSection
  <2>3. PushInv' /\ ListIsUntaken' /\ Fifo'
    BY <1>0, <1>1, Zenon DEF PushLock, TypeOK, PushInv, ListIsUntaken, Fifo
  <2> QED BY <2>1, <2>2, <2>3 DEF ListInv
<1>2. ASSUME NEW p \in Producers, PushLink(p) PROVE ListInv'
  <2>0. PICK d \in Data : cells' = Linked(d)
    BY <1>2 DEF PushLink
  <2>1. mutex = p /\ \A q \in Producers : pc[q] \notin {"head", "tail"}
    BY <1>0, <1>2 DEF PushLink, TypeOK, MutexInv, InSection
  <2>2. last = Len(cells)
    BY <1>0, <2>1, Zenon DEF PushInv
  <2>3. /\ cells' \in Seq(Cell) /\ Len(cells') = Len(cells) + 1
        /\ \A a \in 1..Len(cells) : cells'[a].data = cells[a].data
        /\ \A a \in 1..(Len(cells) + 1) :
              cells'[a].next = IF a < Len(cells) + 1 THEN a + 1 ELSE NULL
    BY <1>0, <2>0, <2>2, LinkedCells DEF ListIsUntaken
  <2>4. DOMAIN cells' = 1..Len(cells')
    BY <2>3, LenProperties
  <2>5. TypeOK'
    BY <1>0, <1>2, <2>3 DEF PushLink, TypeOK
  <2>6. MutexInv'
    BY <1>0, <1>2 DEF PushLink, TypeOK, MutexInv, InSection
  <2>7. first = NULL => Len(taken) = Len(cells)
    BY <1>0, <2>1 DEF ListIsUntaken
  <2>8. PushInv'
    <3>1. /\ pc' = [pc EXCEPT ![p] = "head"] /\ el' = [el EXCEPT ![p] = Len(cells) + 1]
          /\ UNCHANGED <<first, last, taken>>
      BY <1>2 DEF PushLink
    <3>2. pc'[p] = "head" /\ \A q \in Producers \ {p} : pc'[q] \notin {"head", "tail"}
      BY <1>0, <2>1, <3>1 DEF TypeOK
    <3>3. el'[p] = Len(cells')
      BY <1>0, <2>3, <3>1 DEF TypeOK
    <3>4. Len(cells') > 0 /\ last' = Len(cells') - 1
      BY <1>0, <2>2, <2>3, <3>1
    <3>5. first' = NULL => Len(taken') + 1 = Len(cells')
      BY <1>0, <2>3, <2>7, <3>1
    <3> QED BY <3>2, <3>3, <3>4, <3>5 DEF PushInv
  <2>9. ListIsUntaken'
    BY <1>0, <1>2, <2>3, <2>4 DEF PushLink, TypeOK, ListIsUntaken
  <2>10. Fifo'
    BY <1>0, <1>2, <2>3 DEF PushLink, Fifo
  <2> QED BY <2>5, <2>6, <2>8, <2>9, <2>10 DEF ListInv
<1>3. ASSUME NEW p \in Producers, PushHead(p) PROVE ListInv'
  <2>1. mutex = p /\ \A q \in Producers \ {p} : pc[q] \notin {"head", "tail"}
    BY <1>0, <1>3 DEF PushHead, TypeOK, MutexInv, InSection
  <2>2. TypeOK'
    BY <1>0, <1>3 DEF PushHead, TypeOK
  <2>3. MutexInv'
    BY <1>0, <1>3 DEF PushHead, TypeOK, MutexInv, InSection
  <2>4. el[p] = Len(cells) /\ Len(cells) > 0
    BY <1>0, <1>3, Zenon DEF PushHead, PushInv
  <2>5. first' # NULL /\ first' = Len(taken) + 1 /\ first' <= Len(cells)
    <3>1. CASE first = NULL
      <4>1. first' = Len(cells) /\ Len(taken) + 1 = Len(cells)
        BY <1>0, <1>3, <2>4, <3>1, Zenon DEF PushHead, PushInv
      <4> QED BY <1>len, <4>1
    <3>2. CASE first # NULL
      <4>1. first' = first
        BY <1>3, <3>2 DEF PushHead
      <4>2. first = Len(taken) + 1 /\ first <= Len(cells)
        BY <1>0, <3>2 DEF ListIsUntaken
      <4> QED BY <1>len, <4>1, <4>2
    <3> QED BY <3>1, <3>2
  <2>6. PushInv'
    BY <1>0, <1>3, <2>1, <2>5, Zenon DEF PushHead, TypeOK, PushInv
  <2>7. ListIsUntaken'
    BY <1>0, <1>3, <2>5 DEF PushHead, ListIsUntaken
  <2>8. Fifo'
    BY <1>0, <1>3 DEF PushHead, Fifo
  <2> QED BY <2>2, <2>3, <2>6, <2>7, <2>8 DEF ListInv
<1>4. ASSUME NEW p \in Producers, PushTail(p) PROVE ListInv'
  <2>1. mutex = p /\ \A q \in Producers \ {p} : pc[q] \notin {"head", "tail"}
    BY <1>0, <1>4 DEF PushTail, TypeOK, MutexInv, InSection
  <2>2. TypeOK'
    BY <1>0, <1>4 DEF PushTail, TypeOK
  <2>3. MutexInv'
    BY <1>0, <1>4 DEF PushTail, TypeOK, MutexInv, InSection
  <2>4. PushInv'
    BY <1>0, <1>4, <2>1, Zenon DEF PushTail, TypeOK, PushInv
  <2>5. ListIsUntaken' /\ Fifo'
    BY <1>0, <1>4, <2>1 DEF PushTail, TypeOK, ListIsUntaken, Fifo
  <2> QED BY <2>2, <2>3, <2>4, <2>5 DEF ListInv
<1>5. ASSUME NEW p \in Producers, PushPost(p) PROVE ListInv'
  <2>1. TypeOK' /\ MutexInv'
    BY <1>0, <1>5 DEF PushPost, TypeOK, MutexInv, InSection
  <2>2. PushInv' /\ ListIsUntaken' /\ Fifo'
    BY <1>0, <1>5, Zenon DEF PushPost, TypeOK, PushInv, ListIsUntaken, Fifo
  <2> QED BY <2>1, <2>2 DEF ListInv
<1>6. ASSUME NEW c \in Consumers, PopWait(c) \/ PopInterrupted(c) PROVE ListInv'
  <2>1. CASE PopWait(c)
    <3>1. TypeOK'
      BY <1>0, <2>1 DEF PopWait, TypeOK
    <3>2. MutexInv'
      BY <1>0, <2>1 DEF PopWait, TypeOK, MutexInv, InSection
    <3>3. PushInv' /\ ListIsUntaken' /\ Fifo'
      BY <1>0, <2>1, Zenon DEF PopWait, TypeOK, PushInv, ListIsUntaken, Fifo
    <3> QED BY <3>1, <3>2, <3>3 DEF ListInv
  <2>2. CASE PopInterrupted(c)
    <3>1. TypeOK'
      BY <1>0, <2>2 DEF PopInterrupted, TypeOK
    <3>2. MutexInv' /\ PushInv' /\ ListIsUntaken' /\ Fifo'
      BY <1>0, <2>2, Zenon DEF PopInterrupted, MutexInv, PushInv, ListIsUntaken, Fifo
    <3> QED BY <3>1, <3>2 DEF ListInv
  <2> QED BY <1>6, <2>1, <2>2
<1>7. ASSUME NEW c \in Consumers, PopLock(c) \/ PopUnlock(c) PROVE ListInv'
  <2>1. TypeOK'
    BY <1>0, <1>7 DEF PopLock, PopUnlock, TypeOK
  <2>2. MutexInv'
    BY <1>0, <1>7 DEF PopLock, PopUnlock, TypeOK, MutexInv, InSection
  <2>3. PushInv' /\ ListIsUntaken' /\ Fifo'
    BY <1>0, <1>7, Zenon DEF PopLock, PopUnlock, TypeOK, PushInv, ListIsUntaken, Fifo
  <2> QED BY <2>1, <2>2, <2>3 DEF ListInv
<1>8. ASSUME NEW c \in Consumers, PopTake(c) PROVE ListInv'
  <2>1. mutex = c /\ \A p \in Producers : pc[p] \notin {"head", "tail"}
    BY <1>0, <1>8 DEF PopTake, TypeOK, MutexInv, InSection
  <2>2. MutexInv'
    BY <1>0, <1>8 DEF PopTake, TypeOK, MutexInv, InSection
  <2>3. CASE first = NULL
    <3>1. /\ UNCHANGED <<cells, first, last, mutex, sem, el, taken, wakes>>
          /\ ret' = [ret EXCEPT ![c] = NoData] /\ nulls' = nulls + 1
          /\ pc' = [pc EXCEPT ![c] = "unlock"]
      BY <1>8, <2>3 DEF PopTake
    <3>2. TypeOK'
      BY <1>0, <3>1 DEF TypeOK
    <3>3. PushInv' /\ ListIsUntaken' /\ Fifo'
      BY <1>0, <3>1, Zenon DEF TypeOK, PushInv, ListIsUntaken, Fifo
    <3> QED BY <2>2, <3>2, <3>3 DEF ListInv
  <2>4. CASE first # NULL
    <3>1. /\ UNCHANGED <<cells, last, mutex, sem, el, nulls, wakes>>
          /\ ret' = [ret EXCEPT ![c] = cells[first].data]
          /\ taken' = Append(taken, cells[first].data)
          /\ first' = cells[first].next
          /\ pc' = [pc EXCEPT ![c] = "unlock"]
      BY <1>8, <2>4 DEF PopTake
    <3>2. first = Len(taken) + 1 /\ first \in 1..Len(cells)
      BY <1>0, <2>4 DEF ListIsUntaken, TypeOK
    <3>3. cells[first].data \in Data
      <4>1. cells[first] \in Cell
        BY <1>0, <3>2, ElementOfSeq DEF TypeOK
      <4> QED BY <4>1 DEF Cell
    <3>4. /\ taken' \in Seq(Data) /\ Len(taken') = Len(taken) + 1
          /\ \A i \in 1..Len(taken) : taken'[i] = taken[i]
          /\ taken'[Len(taken) + 1] = cells[first].data
      BY <1>0, <3>1, <3>3, AppendProperties DEF TypeOK
    <3>5. first' = IF first < Len(cells) THEN first + 1 ELSE NULL
      BY <1>0, <3>1, <3>2 DEF ListIsUntaken
    <3>6. TypeOK'
      BY <1>0, <3>1, <3>2, <3>3, <3>4, <3>5 DEF TypeOK
    <3>7. PushInv'
      BY <1>0, <2>1, <3>1, Zenon DEF TypeOK, PushInv
    <3>8. ListIsUntaken'
      <4>1. \A a \in DOMAIN cells' : cells'[a].next = IF a < Len(cells') THEN a + 1 ELSE NULL
        BY <1>0, <3>1 DEF ListIsUntaken
      <4>2. first' # NULL => first' = Len(taken') + 1 /\ first' <= Len(cells')
        BY <1>0, <3>1, <3>2, <3>4, <3>5
      <4>3. first' = NULL => Len(taken') = Len(cells')
        <5>1. CASE first < Len(cells)
          BY <3>2, <3>5, <5>1
        <5>2. CASE ~(first < Len(cells))
          <6>1. Len(taken) + 1 = Len(cells)
            BY <1>len, <3>2, <5>2
          <6> QED BY <3>1, <3>4, <6>1
        <5> QED BY <5>1, <5>2
      <4> QED BY <4>1, <4>2, <4>3 DEF ListIsUntaken
    <3>9. Fifo'
      BY <1>0, <3>1, <3>2, <3>4 DEF Fifo
    <3> QED BY <2>2, <3>6, <3>7, <3>8, <3>9 DEF ListInv
  <2> QED BY <2>3, <2>4
<1>9. ASSUME Wake PROVE ListInv'
  <2>1. TypeOK'
    BY <1>0, <1>9 DEF Wake, TypeOK
  <2>2. MutexInv' /\ PushInv' /\ ListIsUntaken' /\ Fifo'
    BY <1>0, <1>9, Zenon DEF Wake, MutexInv, PushInv, ListIsUntaken, Fifo
  <2> QED BY <2>1, <2>2 DEF ListInv
<1>10. CASE UNCHANGED vars
  BY <1>0, <1>10 DEF vars, ListInv, TypeOK, MutexInv, InSection, PushInv, ListIsUntaken, Fifo
<1> QED BY <1>1, <1>2, <1>3, <1>4, <1>5, <1>6, <1>7, <1>8, <1>9, <1>10 DEF Next, Push, Pop

\* No behaviour of the queue, with any number of threads, leaves the types.
THEOREM TypeCorrect == Spec => []TypeOK
<1>1. Init => ListInv
  BY ListInit
<1>2. ListInv /\ [Next]_vars => ListInv'
  BY ListStep
<1>3. ListInv => TypeOK
  BY DEF ListInv
<1> QED BY <1>1, <1>2, <1>3, PTL DEF Spec

\* Elements leave the queue exactly once and in the order they were linked in
\* (dequeue_push, dequeue_pop).
THEOREM ExactlyOnceInOrder == Spec => []Fifo
<1>1. Init => ListInv
  BY ListInit
<1>2. ListInv /\ [Next]_vars => ListInv'
  BY ListStep
<1>3. ListInv => Fifo
  BY DEF ListInv
<1> QED BY <1>1, <1>2, <1>3, PTL DEF Spec

\* The stale `last` of an emptied list never makes a popped cell reachable and
\* never loses a new one.
THEOREM StaleLastIsHarmless == Spec => []ListIsUntaken
<1>1. Init => ListInv
  BY ListInit
<1>2. ListInv /\ [Next]_vars => ListInv'
  BY ListStep
<1>3. ListInv => ListIsUntaken
  BY DEF ListInv
<1> QED BY <1>1, <1>2, <1>3, PTL DEF Spec

------------------------------------------------------------------------------
(* The semaphore *)

\* The inductive invariant of the queue: the balance of tokens needs the list,
\* because a pop that finds it empty must be paid for by a shutdown post.
TokenInv == ListInv /\ TokenBalance /\ NullOnlyByWake

LEMMA FiniteHalves ==
  /\ IsFiniteSet(Entitled) /\ Cardinality(Entitled) \in Nat
  /\ IsFiniteSet(Unposted) /\ Cardinality(Unposted) \in Nat
<1>1. Entitled \in SUBSET Threads /\ Unposted \in SUBSET Threads
  BY DEF Entitled, Unposted, Threads
<1> QED BY <1>1, ThreadsAssumption, FS_Subset, FS_CardinalityType

LEMMA TokenInit == Init => TokenInv
<1> SUFFICES ASSUME Init PROVE TokenInv
  OBVIOUS
<1>1. Entitled = {} /\ Unposted = {}
  BY DEF Init, Entitled, Unposted, Threads
<1>2. TokenBalance /\ NullOnlyByWake
  BY <1>1, FS_EmptySet DEF Init, TokenBalance, NullOnlyByWake
<1> QED BY <1>2, ListInit DEF TokenInv

LEMMA TokenStep == TokenInv /\ [Next]_vars => TokenInv'
<1> SUFFICES ASSUME TokenInv, [Next]_vars PROVE TokenBalance' /\ NullOnlyByWake'
  BY ListStep DEF TokenInv
<1>0. ListInv /\ TypeOK /\ MutexInv /\ ListIsUntaken /\ TokenBalance /\ NullOnlyByWake
  BY DEF TokenInv, ListInv
<1>bal. TokenBalance /\ NullOnlyByWake
  BY <1>0
<1>nat. /\ Len(cells) \in Nat /\ Len(taken) \in Nat
        /\ sem \in Nat /\ nulls \in Nat /\ wakes \in Nat
        /\ Cardinality(Entitled) \in Nat /\ Cardinality(Unposted) \in Nat
  BY <1>0, LenProperties, FiniteHalves DEF TypeOK
<1> USE ThreadsAssumption DEF Threads
\* A step that changes no term of the balance.
<1>same. ASSUME UNCHANGED <<sem, nulls, wakes>>, Len(taken') = Len(taken),
                Len(cells') = Len(cells), Entitled' = Entitled, Unposted' = Unposted
         PROVE  TokenBalance' /\ NullOnlyByWake'
  BY <1>bal, <1>same DEF TokenBalance, NullOnlyByWake
<1>1. ASSUME NEW p \in Producers, PushLock(p) \/ PushHead(p) \/ PushTail(p)
      PROVE  TokenBalance' /\ NullOnlyByWake'
  <2>1. UNCHANGED <<cells, sem, taken, nulls, wakes>>
    BY <1>1 DEF PushLock, PushHead, PushTail
  <2>2. Entitled' = Entitled /\ Unposted' = Unposted
    BY <1>0, <1>1 DEF PushLock, PushHead, PushTail, TypeOK, Entitled, Unposted
  <2> QED BY <2>1, <2>2, <1>same
<1>2. ASSUME NEW p \in Producers, PushLink(p)
      PROVE  TokenBalance' /\ NullOnlyByWake'
  <2>1. UNCHANGED <<sem, taken, nulls, wakes>>
    BY <1>2 DEF PushLink
  <2>2. Len(cells') = Len(cells) + 1
    <3>1. PICK d \in Data : cells' = Linked(d)
      BY <1>2 DEF PushLink
    <3>2. last = Len(cells)
      BY <1>0, <1>2 DEF PushLink, ListInv, TypeOK, MutexInv, InSection, PushInv
    <3> QED BY <1>0, <3>1, <3>2, LinkedCells DEF ListIsUntaken
  <2>3. Entitled' = Entitled /\ Unposted' = Unposted \cup {p} /\ p \notin Unposted
    BY <1>0, <1>2 DEF PushLink, TypeOK, Entitled, Unposted
  <2>4. Cardinality(Unposted') = Cardinality(Unposted) + 1
    BY <2>3, FiniteHalves, FS_AddElement
  <2>5. Cardinality(Entitled') = Cardinality(Entitled)
    BY <2>3
  <2>6. NullOnlyByWake'
    BY <1>bal, <2>1 DEF NullOnlyByWake
  <2>7. TokenBalance'
    <3>1. Len(cells') + wakes' = (Len(cells) + wakes) + 1
      BY <1>nat, <2>1, <2>2
    <3>2. sem' + Cardinality(Entitled') + Len(taken') + nulls' + Cardinality(Unposted')
           = (sem + Cardinality(Entitled) + Len(taken) + nulls + Cardinality(Unposted)) + 1
      BY <1>nat, <2>1, <2>4, <2>5
    <3> QED BY <1>bal, <3>1, <3>2 DEF TokenBalance
  <2> QED BY <2>6, <2>7
<1>3. ASSUME NEW p \in Producers, PushPost(p)
      PROVE  TokenBalance' /\ NullOnlyByWake'
  <2>1. UNCHANGED <<cells, taken, nulls, wakes>> /\ sem' = sem + 1
    BY <1>3 DEF PushPost
  <2>2. Entitled' = Entitled /\ Unposted' = Unposted \ {p} /\ p \in Unposted
    BY <1>0, <1>3 DEF PushPost, TypeOK, Entitled, Unposted
  <2>3. Cardinality(Unposted') = Cardinality(Unposted) - 1
    BY <2>2, FiniteHalves, FS_RemoveElement
  <2>4. Cardinality(Entitled') = Cardinality(Entitled)
    BY <2>2
  <2> QED BY <1>bal, <1>nat, <2>1, <2>3, <2>4 DEF TokenBalance, NullOnlyByWake
<1>4. ASSUME NEW c \in Consumers, PopWait(c)
      PROVE  TokenBalance' /\ NullOnlyByWake'
  <2>1. UNCHANGED <<cells, taken, nulls, wakes>> /\ sem' = sem - 1
    BY <1>4 DEF PopWait
  <2>2. Unposted' = Unposted /\ Entitled' = Entitled \cup {c} /\ c \notin Entitled
    BY <1>0, <1>4 DEF PopWait, TypeOK, Entitled, Unposted
  <2>3. Cardinality(Entitled') = Cardinality(Entitled) + 1
    BY <2>2, FiniteHalves, FS_AddElement
  <2>4. Cardinality(Unposted') = Cardinality(Unposted)
    BY <2>2
  <2> QED BY <1>bal, <1>nat, <2>1, <2>3, <2>4 DEF TokenBalance, NullOnlyByWake
<1>5. ASSUME NEW c \in Consumers, PopInterrupted(c) \/ PopLock(c) \/ PopUnlock(c)
      PROVE  TokenBalance' /\ NullOnlyByWake'
  <2>1. UNCHANGED <<cells, sem, taken, nulls, wakes>>
    BY <1>5 DEF PopInterrupted, PopLock, PopUnlock
  <2>2. Entitled' = Entitled /\ Unposted' = Unposted
    BY <1>0, <1>5 DEF PopInterrupted, PopLock, PopUnlock, TypeOK, Entitled, Unposted
  <2> QED BY <2>1, <2>2, <1>same
<1>6. ASSUME NEW c \in Consumers, PopTake(c)
      PROVE  TokenBalance' /\ NullOnlyByWake'
  <2>1. UNCHANGED <<cells, sem, wakes>>
    BY <1>6 DEF PopTake
  <2>2. Unposted' = Unposted /\ Entitled' = Entitled \ {c} /\ c \in Entitled
    BY <1>0, <1>6 DEF PopTake, TypeOK, Entitled, Unposted
  <2>3. Cardinality(Entitled') = Cardinality(Entitled) - 1
    BY <2>2, FiniteHalves, FS_RemoveElement
  <2>4. Cardinality(Unposted') = Cardinality(Unposted)
    BY <2>2
  <2>5. CASE first # NULL
    <3>1. taken' = Append(taken, cells[first].data) /\ nulls' = nulls
      BY <1>6, <2>5 DEF PopTake
    <3>2. Len(taken') = Len(taken) + 1
      BY <1>0, <3>1 DEF TypeOK
    <3>3. NullOnlyByWake'
      BY <1>bal, <2>1, <3>1 DEF NullOnlyByWake
    <3>4. TokenBalance'
      <4>1. Len(cells') + wakes' = Len(cells) + wakes
        BY <2>1
      <4>2. sem' + Cardinality(Entitled') + Len(taken') + nulls' + Cardinality(Unposted')
             = sem + Cardinality(Entitled) + Len(taken) + nulls + Cardinality(Unposted)
        BY <1>nat, <2>1, <2>3, <2>4, <3>1, <3>2
      <4> QED BY <1>bal, <4>1, <4>2 DEF TokenBalance
    <3> QED BY <3>3, <3>4
  <2>6. CASE first = NULL
    <3>1. taken' = taken /\ nulls' = nulls + 1
      BY <1>6, <2>6 DEF PopTake
    \* No push is inside the critical section, so the list really is empty and
    \* the token this pop holds was posted by main.
    <3>2. \A p \in Producers : pc[p] # "head"
      BY <1>0, <1>6 DEF PopTake, TypeOK, MutexInv, InSection
    <3>3. Len(taken) = Len(cells)
      BY <1>0, <2>6, <3>2 DEF ListIsUntaken
    <3>4. Cardinality(Entitled) >= 1
      <4>1. Cardinality(Entitled') \in Nat
        BY <2>2, FiniteHalves, FS_RemoveElement, FS_CardinalityType
      <4> QED BY <1>nat, <2>3, <4>1
    <3> QED BY <1>bal, <1>nat, <2>1, <2>3, <2>4, <3>1, <3>3, <3>4
            DEF TokenBalance, NullOnlyByWake
  <2> QED BY <2>5, <2>6
<1>7. ASSUME Wake PROVE TokenBalance' /\ NullOnlyByWake'
  <2>1. UNCHANGED <<cells, taken, nulls>> /\ sem' = sem + 1 /\ wakes' = wakes + 1
    BY <1>7 DEF Wake
  <2>2. Entitled' = Entitled /\ Unposted' = Unposted
    BY <1>7 DEF Wake, Entitled, Unposted
  <2> QED BY <1>bal, <1>nat, <2>1, <2>2 DEF TokenBalance, NullOnlyByWake
<1>8. CASE UNCHANGED vars
  BY <1>8, <1>same DEF vars, Entitled, Unposted
<1> QED BY <1>1, <1>2, <1>3, <1>4, <1>5, <1>6, <1>7, <1>8 DEF Next, Push, Pop

\* Tokens and elements balance in every state (dequeue.c 27-28, 32-35).
THEOREM TokensBalance == Spec => []TokenBalance
<1>1. TokenInv => TokenBalance
  BY DEF TokenInv
<1> QED BY <1>1, TokenInit, TokenStep, PTL DEF Spec

\* A pop returns the NULL of an empty list at most once per shutdown post.
THEOREM NullMeansShutdown == Spec => []NullOnlyByWake
<1>1. TokenInv => NullOnlyByWake
  BY DEF TokenInv
<1> QED BY <1>1, TokenInit, TokenStep, PTL DEF Spec

\* No wake-up is lost: with an element in the list some thread has, or is
\* about to make, the token that gets it out.
THEOREM WakeupsAreNotLost == Spec => []NoLostWakeup
<1>1. TokenInv => NoLostWakeup
  <2> SUFFICES ASSUME TokenInv, Len(cells) > Len(taken), Entitled = {}, Unposted = {}
               PROVE  sem > 0
    BY DEF NoLostWakeup
  <2>1. Cardinality(Entitled) = 0 /\ Cardinality(Unposted) = 0
    BY FS_EmptySet
  <2>2. /\ Len(cells) \in Nat /\ Len(taken) \in Nat
        /\ sem \in Nat /\ nulls \in Nat /\ wakes \in Nat
    BY LenProperties DEF TokenInv, ListInv, TypeOK
  <2> QED BY <2>1, <2>2 DEF TokenInv, TokenBalance, NullOnlyByWake
<1> QED BY <1>1, TokenInit, TokenStep, PTL DEF Spec

------------------------------------------------------------------------------
(* The linked list implements the FIFO *)

\* What the sequence reachable from `first` is.
ContentsFacts ==
  first # NULL =>
    /\ first \in 1..Len(cells)
    /\ Contents \in Seq(Data)
    /\ Len(Contents) = Len(cells) + 1 - first
    /\ \A i \in 1..(Len(cells) + 1 - first) : Contents[i] = cells[first + i - 1].data

LEMMA ContentsOfList == ListInv => ContentsFacts
<1> SUFFICES ASSUME ListInv, first # NULL
             PROVE  /\ first \in 1..Len(cells)
                    /\ Contents \in Seq(Data)
                    /\ Len(Contents) = Len(cells) + 1 - first
                    /\ \A i \in 1..(Len(cells) + 1 - first) :
                          Contents[i] = cells[first + i - 1].data
  BY DEF ContentsFacts
<1> DEFINE n == Len(cells) + 1 - first
           f == [i \in 1..n |-> cells[first + i - 1].data]
<1>1. /\ cells \in Seq(Cell) /\ Len(cells) \in Nat /\ first \in 1..Len(cells)
  <2>1. cells \in Seq(Cell) /\ Len(cells) \in Nat /\ first \in Nat /\ ListIsUntaken
    BY LenProperties DEF ListInv, TypeOK
  <2> QED BY <2>1 DEF ListIsUntaken, NULL
<1>2. n \in Nat
  BY <1>1
<1>3. \A i \in 1..n : cells[first + i - 1].data \in Data
  <2> TAKE i \in 1..n
  <2>1. first + i - 1 \in 1..Len(cells)
    BY <1>1
  <2>2. cells[first + i - 1] \in Cell
    BY <1>1, <2>1, ElementOfSeq
  <2> QED BY <2>2 DEF Cell
<1>4. Contents = f
  BY DEF Contents
<1> HIDE DEF n
<1>5. f \in [1..n -> Data]
  BY <1>3
<1>6. f \in Seq(Data) /\ Len(f) = n
  BY <1>2, <1>5, SeqDef
<1> QED BY <1>1, <1>4, <1>6 DEF n

LEMMA ContentsOfNextList == ListInv' => ContentsFacts'
BY ContentsOfList, PTL

LEMMA EmptyContents == first = NULL => Contents = <<>>
BY DEF Contents

LEMMA ContentsSame ==
  ASSUME UNCHANGED <<cells, first>>
  PROVE  Contents' = Contents
BY DEF Contents

LEMMA LinkIsPut ==
  ASSUME ListInv, ListInv', NEW p \in Producers, PushLink(p)
  PROVE  \/ Contents' = Contents
         \/ \E d \in Data : Contents' = Append(Contents, d)
<1>1. PICK d \in Data : cells' = Linked(d)
  BY DEF PushLink
<1>2. first' = first
  BY DEF PushLink
<1>3. CASE first = NULL
  BY <1>2, <1>3, EmptyContents DEF Contents
<1>4. CASE first # NULL
  <2>1. last = Len(cells)
    BY ThreadsAssumption DEF PushLink, ListInv, TypeOK, MutexInv, InSection, PushInv, Threads
  <2>2. /\ Len(cells') = Len(cells) + 1 /\ Len(cells) \in Nat
        /\ cells'[Len(cells) + 1].data = d
        /\ \A a \in 1..Len(cells) : cells'[a].data = cells[a].data
    <3>1. TypeOK /\ cells \in Seq(Cell)
      BY DEF ListInv, TypeOK
    <3>2. \A a \in DOMAIN cells : cells[a].next = IF a < Len(cells) THEN a + 1 ELSE NULL
      BY DEF ListInv, ListIsUntaken
    <3>3. /\ Len(Linked(d)) = Len(cells) + 1
          /\ Linked(d)[Len(cells) + 1].data = d
          /\ \A a \in 1..Len(cells) : Linked(d)[a].data = cells[a].data
      BY <2>1, <3>1, <3>2, LinkedCells
    <3> QED BY <1>1, <3>1, <3>3, LenProperties
  <2>3. /\ first \in 1..Len(cells) /\ Contents \in Seq(Data)
        /\ Len(Contents) = Len(cells) + 1 - first
        /\ \A i \in 1..(Len(cells) + 1 - first) : Contents[i] = cells[first + i - 1].data
    BY <1>4, ContentsOfList DEF ContentsFacts
  <2>4. /\ Contents' \in Seq(Data)
        /\ Len(Contents') = Len(cells) + 2 - first
        /\ \A i \in 1..(Len(cells) + 2 - first) : Contents'[i] = cells'[first + i - 1].data
    <3>1. first' # NULL
      BY <1>2, <1>4 DEF NULL
    <3>2. /\ Contents' \in Seq(Data)
          /\ Len(Contents') = Len(cells') + 1 - first'
          /\ \A i \in 1..(Len(cells') + 1 - first') : Contents'[i] = cells'[first' + i - 1].data
      BY <3>1, ContentsOfNextList DEF ContentsFacts
    <3>3. Len(cells') + 1 - first' = Len(cells) + 2 - first
      BY <1>2, <2>2, <2>3
    <3> QED BY <1>2, <3>2, <3>3
  <2> DEFINE app == Append(Contents, d)
  <2>5. /\ app \in Seq(Data) /\ Len(app) = Len(Contents) + 1
        /\ \A i \in 1..Len(Contents) : app[i] = Contents[i]
        /\ app[Len(Contents) + 1] = d
    BY <1>1, <2>3, AppendProperties
  <2> HIDE DEF app
  <2>6. ASSUME NEW i \in 1..Len(app) PROVE Contents'[i] = app[i]
    <3>1. CASE i <= Len(cells) + 1 - first
      <4>1. first + i - 1 \in 1..Len(cells)
        BY <2>2, <2>3, <2>6, <3>1
      <4>2. i \in 1..(Len(cells) + 1 - first) /\ i \in 1..(Len(cells) + 2 - first)
        BY <2>2, <2>3, <2>6, <3>1
      <4> QED BY <2>2, <2>3, <2>4, <2>5, <4>1, <4>2
    <3>2. CASE i = Len(cells) + 2 - first
      <4>1. first + i - 1 = Len(cells) + 1 /\ i \in 1..(Len(cells) + 2 - first)
        BY <2>2, <2>3, <3>2
      <4>2. Contents'[i] = d
        BY <2>2, <2>4, <4>1
      <4>3. i = Len(Contents) + 1
        BY <2>2, <2>3, <3>2
      <4> QED BY <2>5, <4>2, <4>3
    <3>3. i <= Len(cells) + 1 - first \/ i = Len(cells) + 2 - first
      <4>1. Len(app) = Len(cells) + 2 - first
        BY <2>2, <2>3, <2>5
      <4>2. Len(cells) \in Nat /\ first \in Nat
        BY <2>2, <2>3
      <4> QED BY <4>1, <4>2
    <3> QED BY <3>1, <3>2, <3>3
  <2>7. Len(Contents') = Len(app)
    BY <2>2, <2>3, <2>4, <2>5
  <2>8. Contents' = app
    BY <2>4, <2>5, <2>6, <2>7, SeqEqual
  <2> QED BY <2>8 DEF app
<1> QED BY <1>3, <1>4

LEMMA HeadIsPut ==
  ASSUME ListInv, ListInv', NEW p \in Producers, PushHead(p)
  PROVE  \/ Contents' = Contents
         \/ \E d \in Data : Contents' = Append(Contents, d)
<1>1. cells' = cells
  BY DEF PushHead
<1>2. CASE first # NULL
  BY <1>1, <1>2, ContentsSame DEF PushHead
<1>3. CASE first = NULL
  <2>1. first' = Len(cells) /\ Len(cells) \in Nat /\ Len(cells) > 0
    BY <1>3, LenProperties DEF PushHead, ListInv, TypeOK, PushInv
  <2>2. first' # NULL /\ first' = Len(cells')
    BY <1>1, <2>1 DEF NULL
  <2>3. /\ Contents' \in Seq(Data) /\ Len(Contents') = 1
        /\ Contents'[1] = cells'[first'].data
    <3>1. Len(cells') + 1 - first' = 1 /\ first' + 1 - 1 = first'
      BY <1>1, <2>1, <2>2
    <3>2. /\ Contents' \in Seq(Data)
          /\ Len(Contents') = Len(cells') + 1 - first'
          /\ \A i \in 1..(Len(cells') + 1 - first') :
                Contents'[i] = cells'[first' + i - 1].data
      BY <2>2, ContentsOfNextList DEF ContentsFacts
    <3>3. 1 \in 1..(Len(cells') + 1 - first')
      BY <3>1
    <3> QED BY <3>1, <3>2, <3>3
  <2>4. Contents'[1] \in Data
    BY <2>3, ElementOfSeq
  <2>5. Contents' = <<Contents'[1]>>
    BY <2>3
  <2>6. Append(<<>>, Contents'[1]) = <<Contents'[1]>>
    OBVIOUS
  <2>7. Contents = <<>>
    BY <1>3, EmptyContents
  <2> QED BY <2>4, <2>5, <2>6, <2>7
<1> QED BY <1>2, <1>3

LEMMA TakeIsTake ==
  ASSUME ListInv, ListInv', NEW c \in Consumers, PopTake(c)
  PROVE  \/ Contents' = Contents /\ taken' = taken
         \/ /\ Contents # <<>> /\ Contents' = Tail(Contents)
            /\ taken' = Append(taken, Head(Contents))
<1>1. cells' = cells
  BY DEF PopTake
<1>2. CASE first = NULL
  BY <1>1, <1>2, ContentsSame DEF PopTake
<1>3. CASE first # NULL
  <2>1. /\ first \in 1..Len(cells) /\ Contents \in Seq(Data)
        /\ Len(Contents) = Len(cells) + 1 - first
        /\ \A i \in 1..(Len(cells) + 1 - first) : Contents[i] = cells[first + i - 1].data
    BY <1>3, ContentsOfList DEF ContentsFacts
  <2>2. Len(cells) \in Nat /\ DOMAIN cells = 1..Len(cells)
    BY LenProperties DEF ListInv, TypeOK
  <2>3. first' = IF first < Len(cells) THEN first + 1 ELSE NULL
    <3>1. first' = cells[first].next
      BY <1>3 DEF PopTake
    <3> QED BY <2>1, <2>2, <3>1 DEF ListInv, ListIsUntaken
  <2>4. Len(Contents) >= 1
    BY <2>1, <2>2
  <2>5. Contents # <<>>
    BY <2>4
  <2> DEFINE t == Tail(Contents)
  <2>6. /\ t \in Seq(Data) /\ Len(t) = Len(Contents) - 1
        /\ \A i \in 1..Len(t) : t[i] = Contents[i + 1]
    BY <2>1, <2>5, HeadTailProperties
  <2> HIDE DEF t
  <2>7. ASSUME first = Len(cells) PROVE Contents' = Tail(Contents)
    <3>1. Contents' = <<>>
      <4>1. first' = NULL
        BY <2>3, <2>2, <2>7
      <4> QED BY <4>1 DEF Contents
    <3>2. Len(t) = 0
      BY <2>1, <2>2, <2>6, <2>7
    <3>3. t = <<>>
      BY <2>6, <3>2, EmptySeq
    <3> QED BY <3>1, <3>3 DEF t
  <2>8. ASSUME first < Len(cells) PROVE Contents' = Tail(Contents)
    <3>1. first' = first + 1 /\ first' # NULL
      BY <2>1, <2>3, <2>8 DEF NULL
    <3>2. /\ Contents' \in Seq(Data)
          /\ Len(Contents') = Len(cells') + 1 - first'
          /\ \A i \in 1..(Len(cells') + 1 - first') :
                Contents'[i] = cells'[first' + i - 1].data
      BY <3>1, ContentsOfNextList DEF ContentsFacts
    <3>3. Len(Contents') = Len(t) /\ Len(t) = Len(cells) - first /\ Len(cells') + 1 - first' = Len(t)
      BY <1>1, <2>1, <2>2, <2>6, <3>1, <3>2
    <3>4. ASSUME NEW i \in 1..Len(t) PROVE Contents'[i] = t[i]
      <4>1. first' + i - 1 = first + (i + 1) - 1 /\ i + 1 \in 1..(Len(cells) + 1 - first)
        BY <2>1, <2>2, <3>1, <3>3
      <4>2. Contents'[i] = cells[first + (i + 1) - 1].data
        BY <1>1, <3>2, <3>3, <4>1
      <4>3. t[i] = cells[first + (i + 1) - 1].data
        BY <2>1, <2>6, <4>1
      <4> QED BY <4>2, <4>3
    <3>5. Contents' = t
      BY <2>6, <3>2, <3>3, <3>4, SeqEqual
    <3> QED BY <3>5 DEF t
  <2>9. first = Len(cells) \/ first < Len(cells)
    <3>1. first \in 1..Len(cells)
      BY <2>1
    <3>2. Len(cells) \in Nat
      BY <2>2
    <3> QED BY <3>1, <3>2
  <2>10. Contents' = Tail(Contents)
    BY <2>7, <2>8, <2>9
  <2>11. Head(Contents) = cells[first].data
    <3>1. Head(Contents) = Contents[1]
      BY <2>1, <2>5, HeadTailProperties
    <3>2. first + 1 - 1 = first /\ 1 \in 1..(Len(cells) + 1 - first)
      BY <2>1, <2>2
    <3> QED BY <2>1, <3>1, <3>2
  <2>12. taken' = Append(taken, cells[first].data)
    BY <1>3 DEF PopTake
  <2> QED BY <2>5, <2>10, <2>11, <2>12
<1> QED BY <1>2, <1>3

LEMMA StepSimulation ==
  ASSUME ListInv, ListInv', [Next]_vars
  PROVE  [Abstract!Step]_(Abstract!svars)
<1> USE DEF Abstract!svars
<1>1. ASSUME UNCHANGED <<cells, first, taken>>, sem' = sem PROVE UNCHANGED Abstract!svars
  BY <1>1, ContentsSame
<1>2. ASSUME NEW p \in Producers, PushLock(p) \/ PushTail(p) PROVE UNCHANGED Abstract!svars
  BY <1>1, <1>2 DEF PushLock, PushTail
<1>3. ASSUME NEW p \in Producers, PushLink(p) \/ PushHead(p)
      PROVE  \/ UNCHANGED Abstract!svars
             \/ (\E d \in Data : Abstract!Put(d)) /\ taken' = taken
  <2>1. sem' = sem /\ taken' = taken
    BY <1>3 DEF PushLink, PushHead
  <2> QED BY <1>3, <2>1, LinkIsPut, HeadIsPut DEF Abstract!Put
<1>4. ASSUME NEW p \in Producers, PushPost(p) PROVE Abstract!Post /\ taken' = taken
  <2>1. UNCHANGED <<cells, first, taken>> /\ sem' = sem + 1
    BY <1>4 DEF PushPost
  <2> QED BY <2>1, ContentsSame DEF Abstract!Post
<1>5. ASSUME Wake PROVE Abstract!Post /\ taken' = taken
  <2>1. UNCHANGED <<cells, first, taken>> /\ sem' = sem + 1
    BY <1>5 DEF Wake
  <2> QED BY <2>1, ContentsSame DEF Abstract!Post
<1>6. ASSUME NEW c \in Consumers, PopWait(c) PROVE Abstract!Wait /\ taken' = taken
  <2>1. UNCHANGED <<cells, first, taken>> /\ sem' = sem - 1 /\ sem > 0
    BY <1>6 DEF PopWait
  <2> QED BY <2>1, ContentsSame DEF Abstract!Wait
<1>7. ASSUME NEW c \in Consumers, PopInterrupted(c) \/ PopLock(c) \/ PopUnlock(c)
      PROVE  UNCHANGED Abstract!svars
  BY <1>1, <1>7 DEF PopInterrupted, PopLock, PopUnlock
<1>8. ASSUME NEW c \in Consumers, PopTake(c)
      PROVE  UNCHANGED Abstract!svars \/ Abstract!Serve
  <2>1. sem' = sem
    BY <1>8 DEF PopTake
  <2> QED BY <1>8, <2>1, TakeIsTake DEF Abstract!Serve, Abstract!TakeOne
<1>9. CASE UNCHANGED vars
  BY <1>1, <1>9 DEF vars
<1> QED BY <1>2, <1>3, <1>4, <1>5, <1>6, <1>7, <1>8, <1>9 DEF Next, Push, Pop, Abstract!Step

\* The linked list with its mutex and semaphore implements the FIFO that
\* report_parser and report_exporter rely on.
THEOREM DequeueImplementsFifo == Spec => ImplementsFifo
<1>1. Init => Abstract!Start
  <2> SUFFICES ASSUME Init PROVE Abstract!Start
    OBVIOUS
  <2> QED BY EmptyContents DEF Init, Abstract!Start, Abstract!Init
<1>2. ListInv /\ ListInv' /\ [Next]_vars => [Abstract!Step]_(Abstract!svars)
  BY StepSimulation
<1> QED BY <1>1, <1>2, ListInit, ListStep, PTL DEF Spec, ImplementsFifo, Abstract!Spec
==============================================================================
