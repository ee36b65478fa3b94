-------------------------------- MODULE IdList --------------------------------
(***************************************************************************)
(* The doubly linked list of known ids (report_collector_c/src/list.c), as *)
(* operators on the record of a list and its heap.  A node is addressed by *)
(* the order of its first allocation, 0 is NULL; `freed` is the set of     *)
(* nodes given back, which malloc may hand out again.                      *)
(***************************************************************************)
EXTENDS Naturals, Sequences

CONSTANT MaxLen        \* list_init's max_len

NoNode == 0

\* list_init
NewList == [first |-> NoNode, last |-> NoNode, len |-> 0, node |-> <<>>, freed |-> {}]

Full(ls) == ls.len > MaxLen

\* "remove last el" dereferences `last`: NULL after the first removal, because
\* no insertion ever sets `prev`.
InsertCrashes(ls) == Full(ls) /\ ls.last = NoNode

WithoutLast(ls) ==
  [ls EXCEPT !.last = ls.node[ls.last].prev, !.len = @ - 1, !.freed = @ \cup {ls.last}]

\* The list an insertion goes on with.
Evicted(ls) == IF Full(ls) THEN WithoutLast(ls) ELSE ls

\* Addresses malloc can return.
Addresses(ls) == ls.freed \cup {Len(ls.node) + 1}

WithNode(ls, a, new) ==
  [ls EXCEPT !.node = IF a \in DOMAIN @ THEN [@ EXCEPT ![a] = new] ELSE Append(@, new),
             !.freed = @ \ {a}]

\* Fault: next is not initialised, and points anywhere.
AllocatedUnset(ls, data, a) ==
  WithNode(ls, a, [data |-> data, prev |-> NoNode, next |-> a + 1])

\* The new node, which the list does not hold yet.
Allocated(ls, data, a) ==
  WithNode(ls, a, [data |-> data, prev |-> NoNode, next |-> NoNode])

\* The node points to the old head.
Linked(ls, a) == [ls EXCEPT !.node = [@ EXCEPT ![a].next = ls.first]]

\* The node is the new head.
Headed(ls, a) ==
  [ls EXCEPT !.first = a, !.last = IF ls.len = 0 THEN a ELSE @, !.len = @ + 1]

\* Fault: the head is moved before the node is linked.
HeadedThenLinked(step, ls, a) ==
  CASE step = "link" -> [ls EXCEPT !.first = a]
    [] step = "head" -> [Linked(ls, a) EXCEPT !.len = @ + 1]

\* The two stores of list_insert that a walk can come between.
InsertStep(step, ls, a) ==
  CASE step = "link" -> Linked(ls, a)
    [] step = "head" -> Headed(ls, a)

\* The n-th node from the head, NoNode past the end; a freed node ends the walk.
NodeAt(ls, n) ==
  LET at[k \in 1..n] ==
        IF k = 1 THEN ls.first
        ELSE IF at[k - 1] = NoNode \/ at[k - 1] \in ls.freed THEN NoNode
        ELSE ls.node[at[k - 1]].next
  IN at[n]

\* The nodes a walk from the head meets.
Reached(ls) == {NodeAt(ls, n) : n \in 1..(Len(ls.node) + 1)} \ {NoNode}
==============================================================================
