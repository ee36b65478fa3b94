-------------------------- MODULE MetricStoreProofs --------------------------
(***************************************************************************)
(* Theorems about module MetricStore, for any ids, hash slots, thresholds, *)
(* reports, list length and bounds.                                        *)
(***************************************************************************)
EXTENDS MetricStore, SharedLemmas, FiniteSetTheorems

------------------------------------------------------------------------------
(* Items, kinds and lists *)

LEMMA Bounds == MaxReports \in Nat /\ MaxFailures \in Nat /\ MaxLen \in Nat
BY StoreAssumption DEF StoreAssumption

LEMMA KindsAreKinds ==
  /\ Len(Kinds) = 4 /\ DOMAIN Kinds = 1..4
  /\ \A n \in 1..4 : Kinds[n] \in KindSet
BY DEF Kinds, KindSet

LEMMA ItemsOfKind ==
  ASSUME NEW k \in KindSet, NEW s \in Seq(Measured(k))
  PROVE  [i \in DOMAIN s |-> [kind |-> k, id |-> s[i].id, val |-> s[i].val]] \in Seq(Items)
<1> DEFINE m(i) == [kind |-> k, id |-> s[i].id, val |-> s[i].val]
<1>1. ASSUME NEW i \in DOMAIN s PROVE m(i) \in Items
  <2>1. s[i] \in Measured(k)
    BY ElementOfSeq
  <2> QED BY <2>1 DEF Items, Measured
<1>2. DOMAIN s = 1..Len(s) /\ Len(s) \in Nat
  BY LenProperties
<1> HIDE DEF m
<1>3. [i \in 1..Len(s) |-> m(i)] \in Seq(Items)
  BY <1>1, <1>2, IsASeq
<1> QED BY <1>2, <1>3 DEF m

LEMMA LongerConcat ==
  ASSUME NEW E, NEW s \in Seq(E), NEW t \in Seq(E), Len(s) >= 1
  PROVE  s \o t \in Seq(E) /\ Len(s \o t) >= 1
<1>1. s \o t \in Seq(E) /\ Len(s \o t) = Len(s) + Len(t)
  BY ConcatProperties
<1> QED BY <1>1, LenProperties

LEMMA MetricsType ==
  ASSUME NEW r \in Reports
  PROVE  Metrics(r) \in Seq(Items) /\ Metrics(r) # <<>>
<1> DEFINE of(k, s) == [i \in DOMAIN s |-> [kind |-> k, id |-> s[i].id, val |-> s[i].val]]
<1>1. /\ <<r.flow>> \in Seq(Measured("flow")) /\ r.switches \in Seq(Measured("switch"))
      /\ r.links \in Seq(Measured("link")) /\ r.queues \in Seq(Measured("queue"))
  BY StoreAssumption DEF StoreAssumption
<1>2. /\ of("flow", <<r.flow>>) \in Seq(Items) /\ of("switch", r.switches) \in Seq(Items)
      /\ of("link", r.links) \in Seq(Items) /\ of("queue", r.queues) \in Seq(Items)
  BY <1>1, ItemsOfKind DEF KindSet
<1>3. Len(of("flow", <<r.flow>>)) = 1
  OBVIOUS
<1>4. Metrics(r) = of("flow", <<r.flow>>) \o of("switch", r.switches) \o of("link", r.links)
                     \o of("queue", r.queues)
  BY DEF Metrics
<1> HIDE DEF of
<1>5. ASSUME NEW a \in Seq(Items), NEW b \in Seq(Items), NEW c \in Seq(Items), NEW d \in Seq(Items),
             Len(a) = 1
      PROVE  a \o b \o c \o d \in Seq(Items) /\ a \o b \o c \o d # <<>>
  <2>0. Len(a) >= 1
    BY <1>5
  <2>1. a \o b \in Seq(Items) /\ Len(a \o b) >= 1
    BY <2>0, LongerConcat
  <2>2. a \o b \o c \in Seq(Items) /\ Len(a \o b \o c) >= 1
    BY <2>1, LongerConcat
  <2>3. a \o b \o c \o d \in Seq(Items) /\ Len(a \o b \o c \o d) >= 1
    BY <2>2, LongerConcat
  <2> QED BY <2>3, EmptySeq
<1> QED BY <1>2, <1>3, <1>4, <1>5

NodesOf(k) == [data : [id : Ids[k], slot : Slots], prev : Nat, next : Nat]

\* The eviction of the last node keeps every pointer inside the heap.
LEMMA EvictedIsList ==
  ASSUME NEW k \in KindSet, NEW ls, IsList(k, ls), ~InsertCrashes(ls)
  PROVE  IsList(k, Evicted(ls)) /\ Evicted(ls).node = ls.node
<1> DEFINE l == Evicted(ls)
<1>0. MaxLen \in Nat
  BY Bounds
<1>1. CASE Full(ls)
  <2>1. ls.last \in DOMAIN ls.node
    BY <1>1 DEF InsertCrashes, IsList
  <2>2. ls.len - 1 \in Nat
    BY <1>0, <1>1 DEF Full, IsList
  <2>3. /\ l.first = ls.first /\ l.last = ls.node[ls.last].prev /\ l.len = ls.len - 1
        /\ l.freed = ls.freed \cup {ls.last} /\ l.node = ls.node
        /\ l = [first |-> l.first, last |-> l.last, len |-> l.len, freed |-> l.freed,
                node |-> l.node]
    BY <1>1 DEF Evicted, WithoutLast, IsList
  <2> HIDE DEF l
  <2>4. /\ ls.node[ls.last].prev \in Nat
        /\ ls.node[ls.last].prev \in DOMAIN ls.node \cup {NoNode}
    <3>1. ls.node \in Seq(NodesOf(k)) /\ ls.last \in 1..Len(ls.node)
      BY <2>1, LenProperties DEF IsList, NodesOf
    <3>2. ls.node[ls.last] \in NodesOf(k)
      BY <3>1, ElementOfSeq
    <3> QED BY <2>1, <3>2 DEF IsList, NodesOf
  <2>5. /\ l.first \in Nat /\ l.last \in Nat /\ l.len \in Nat /\ l.freed \subseteq Nat
        /\ l.node \in Seq(NodesOf(k))
    BY <2>1, <2>2, <2>3, <2>4 DEF IsList, NodesOf
  <2>6. l \in [first : Nat, last : Nat, len : Nat, freed : SUBSET Nat, node : Seq(NodesOf(k))]
    BY <2>3, <2>5, Zenon
  <2>7. IsList(k, l) /\ l.node = ls.node
    BY <2>1, <2>3, <2>4, <2>6 DEF IsList, NodesOf
  <2> QED BY <2>7 DEF l
<1>2. CASE ~Full(ls)
  BY <1>2 DEF Evicted
<1> QED BY <1>1, <1>2

\* A new node, at a new address or one given back.
NewNode(k, l, a, data, new) ==
  /\ IsList(k, new)
  /\ DOMAIN new.node = DOMAIN l.node \cup {a}
  /\ new.node[a] = [data |-> data, prev |-> NoNode, next |-> NoNode]
  /\ \A b \in DOMAIN l.node \ {a} : new.node[b] = l.node[b]
  /\ new.first = l.first /\ new.last = l.last /\ new.len = l.len
  /\ new.freed = l.freed \ {a}

LEMMA AllocatedIsList ==
  ASSUME NEW k \in KindSet, NEW l, IsList(k, l), NEW a \in Addresses(l),
         NEW data, data \in [id : Ids[k], slot : Slots], NEW new, new = Allocated(l, data, a)
  PROVE  NewNode(k, l, a, data, new)
<1> DEFINE n == [data |-> data, prev |-> NoNode, next |-> NoNode]
<1>1. l.node \in Seq(NodesOf(k)) /\ Len(l.node) \in Nat /\ DOMAIN l.node = 1..Len(l.node)
  BY LenProperties DEF IsList, NodesOf
<1>2. /\ a \in 1..Len(l.node) + 1 /\ l.first \in Nat /\ l.last \in Nat /\ l.len \in Nat
      /\ l.freed \subseteq DOMAIN l.node
  BY <1>1 DEF IsList, Addresses
<1>3. n \in NodesOf(k) /\ n.prev = NoNode /\ n.next = NoNode
  BY DEF NodesOf, NoNode
<1>4. /\ new.first = l.first /\ new.last = l.last /\ new.len = l.len
      /\ new.freed = l.freed \ {a}
      /\ new.node = IF a \in DOMAIN l.node THEN [l.node EXCEPT ![a] = n] ELSE Append(l.node, n)
      /\ new = [first |-> new.first, last |-> new.last, len |-> new.len, freed |-> new.freed,
                node |-> new.node]
  <2> DEFINE nodes == IF a \in DOMAIN l.node THEN [l.node EXCEPT ![a] = n] ELSE Append(l.node, n)
  <2>0. new = Allocated(l, data, a)
    OBVIOUS
  <2>1. new = [l EXCEPT !.node = nodes, !.freed = l.freed \ {a}]
    BY <2>0 DEF Allocated, WithNode
  <2> HIDE DEF n, nodes
  <2>2. /\ new.first = l.first /\ new.last = l.last /\ new.len = l.len
        /\ new.freed = l.freed \ {a} /\ new.node = nodes
        /\ new = [first |-> new.first, last |-> new.last, len |-> new.len, freed |-> new.freed,
                  node |-> new.node]
    BY <2>1 DEF IsList
  <2> QED BY <2>2 DEF nodes
<1> HIDE DEF n
<1>5. /\ new.node \in Seq(NodesOf(k)) /\ DOMAIN new.node = DOMAIN l.node \cup {a}
      /\ \A b \in DOMAIN new.node : new.node[b] = IF b = a THEN n ELSE l.node[b]
  <2>1. CASE a \in DOMAIN l.node
    <3>1. new.node = [l.node EXCEPT ![a] = n]
      BY <1>4, <2>1
    <3>2. new.node \in Seq(NodesOf(k))
      BY <1>1, <1>3, <2>1, <3>1, ExceptSeq
    <3> QED BY <2>1, <3>1, <3>2
  <2>2. CASE a \notin DOMAIN l.node
    <3>1. a = Len(l.node) + 1 /\ new.node = Append(l.node, n)
      BY <1>1, <1>2, <1>4, <2>2
    <3>2. /\ Append(l.node, n) \in Seq(NodesOf(k)) /\ Len(Append(l.node, n)) = Len(l.node) + 1
          /\ \A b \in 1..Len(l.node) : Append(l.node, n)[b] = l.node[b]
          /\ Append(l.node, n)[Len(l.node) + 1] = n
      BY <1>1, <1>3, AppendProperties
    <3> DEFINE nodes == Append(l.node, n)
    <3> HIDE DEF nodes
    <3>3. /\ nodes \in Seq(NodesOf(k)) /\ DOMAIN nodes = 1..(Len(l.node) + 1)
          /\ \A b \in 1..Len(l.node) : nodes[b] = l.node[b]
          /\ nodes[Len(l.node) + 1] = n
      BY <3>2, LenProperties DEF nodes
    <3>4. new.node = nodes
      BY <3>1 DEF nodes
    <3> QED BY <1>1, <3>1, <3>3, <3>4
  <2> QED BY <2>1, <2>2
<1>6. IsList(k, new)
  <2>1. new \in [first : Nat, last : Nat, len : Nat, freed : SUBSET Nat, node : Seq(NodesOf(k))]
    <3>1. /\ new.first \in Nat /\ new.last \in Nat /\ new.len \in Nat /\ new.freed \subseteq Nat
          /\ new.node \in Seq(NodesOf(k))
      BY <1>1, <1>2, <1>4, <1>5
    <3> QED BY <1>4, <3>1, Zenon
  <2>2. /\ new.freed \subseteq DOMAIN new.node
        /\ new.first \in DOMAIN new.node \cup {NoNode}
        /\ new.last \in DOMAIN new.node \cup {NoNode}
    BY <1>2, <1>4, <1>5 DEF IsList
  <2>3. ASSUME NEW b \in DOMAIN new.node
        PROVE  /\ new.node[b].prev \in DOMAIN new.node \cup {NoNode}
               /\ new.node[b].next \in DOMAIN new.node \cup {NoNode}
    BY <1>3, <1>5 DEF IsList
  <2> QED BY <2>1, <2>2, <2>3 DEF IsList, NodesOf
<1>7. /\ IsList(k, new) /\ DOMAIN new.node = DOMAIN l.node \cup {a}
      /\ new.node[a] = n /\ \A b \in DOMAIN l.node \ {a} : new.node[b] = l.node[b]
      /\ new.first = l.first /\ new.last = l.last /\ new.len = l.len
      /\ new.freed = l.freed \ {a}
  BY <1>4, <1>5, <1>6
<1> QED BY <1>7 DEF n, NewNode

\* The stores that put the node into the list change no data.
LEMMA InsertStepIsList ==
  ASSUME NEW k \in KindSet, NEW l, IsList(k, l), NEW a \in DOMAIN l.node,
         NEW step \in {"link", "head"}, NEW new \in {InsertStep(step, l, a)}
  PROVE  /\ IsList(k, new)
         /\ DOMAIN new.node = DOMAIN l.node /\ Len(new.node) = Len(l.node)
         /\ \A b \in DOMAIN l.node : new.node[b].data = l.node[b].data
         /\ new.freed = l.freed
         /\ step = "link" => /\ new.first = l.first /\ new.len = l.len
                             /\ new.node[a].next = l.first
                             /\ \A b \in DOMAIN l.node \ {a} : new.node[b] = l.node[b]
         /\ step = "head" => new.first = a /\ new.len = l.len + 1 /\ new.node = l.node
<1>1. l.node \in Seq(NodesOf(k)) /\ Len(l.node) \in Nat /\ DOMAIN l.node = 1..Len(l.node)
      /\ l.first \in Nat /\ l.last \in Nat /\ l.len \in Nat /\ l.freed \subseteq Nat /\ a \in Nat
  BY LenProperties DEF IsList, NodesOf
<1>2. CASE step = "link"
  <2> DEFINE n == [l.node[a] EXCEPT !.next = l.first]
  <2>1. /\ new.first = l.first /\ new.last = l.last /\ new.len = l.len /\ new.freed = l.freed
        /\ new.node = [l.node EXCEPT ![a] = n]
        /\ new = [first |-> new.first, last |-> new.last, len |-> new.len, freed |-> new.freed,
                  node |-> new.node]
    BY <1>2 DEF InsertStep, Linked, IsList
  <2>2. l.node[a] \in NodesOf(k)
    BY <1>1, ElementOfSeq
  <2>3. n \in NodesOf(k) /\ n.next = l.first /\ n.prev = l.node[a].prev /\ n.data = l.node[a].data
    BY <1>1, <2>2 DEF NodesOf
  <2> HIDE DEF n
  <2>4. new.node \in Seq(NodesOf(k))
    BY <1>1, <2>1, <2>3, ExceptSeq
  <2>5. DOMAIN new.node = DOMAIN l.node /\ Len(new.node) = Len(l.node)
    <3>1. DOMAIN new.node = DOMAIN l.node
      BY <2>1
    <3>2. DOMAIN new.node = 1..Len(new.node) /\ Len(new.node) \in Nat
      BY <2>4, LenProperties
    <3> QED BY <1>1, <3>1, <3>2
  <2>6. \A b \in DOMAIN l.node : new.node[b] = IF b = a THEN n ELSE l.node[b]
    BY <2>1
  <2>7. new \in [first : Nat, last : Nat, len : Nat, freed : SUBSET Nat, node : Seq(NodesOf(k))]
    <3>1. /\ new.first \in Nat /\ new.last \in Nat /\ new.len \in Nat /\ new.freed \in SUBSET Nat
      BY <1>1, <2>1
    <3> QED BY <2>1, <2>4, <3>1, Zenon
  <2>8. IsList(k, new)
    BY <2>1, <2>3, <2>5, <2>6, <2>7 DEF IsList, NodesOf
  <2>9. /\ IsList(k, new) /\ DOMAIN new.node = DOMAIN l.node /\ Len(new.node) = Len(l.node)
        /\ \A b \in DOMAIN l.node : new.node[b].data = l.node[b].data
        /\ new.freed = l.freed /\ new.first = l.first /\ new.len = l.len
        /\ new.node[a].next = l.first /\ \A b \in DOMAIN l.node \ {a} : new.node[b] = l.node[b]
    BY <2>1, <2>3, <2>5, <2>6, <2>8
  <2> QED BY <1>2, <2>9
<1>3. CASE step = "head"
  <2>1. /\ new.first = a /\ new.last = (IF l.len = 0 THEN a ELSE l.last) /\ new.len = l.len + 1
        /\ new.freed = l.freed /\ new.node = l.node
        /\ new = [first |-> new.first, last |-> new.last, len |-> new.len, freed |-> new.freed,
                  node |-> new.node]
    BY <1>3 DEF InsertStep, Headed, IsList
  <2>2. new \in [first : Nat, last : Nat, len : Nat, freed : SUBSET Nat, node : Seq(NodesOf(k))]
    <3>1. /\ new.first \in Nat /\ new.last \in Nat /\ new.len \in Nat /\ new.freed \in SUBSET Nat
          /\ new.node \in Seq(NodesOf(k))
      BY <1>1, <2>1
    <3> QED BY <2>1, <3>1, Zenon
  <2>3. IsList(k, new)
    BY <2>1, <2>2 DEF IsList, NodesOf
  <2> QED BY <1>3, <2>1, <2>3
<1> QED BY <1>2, <1>3
------------------------------------------------------------------------------
(* Types *)

LEMMA CurrentIsItem ==
  ASSUME TypeOK, xpc # "pop"
  PROVE  /\ Current \in Items /\ Current.kind \in KindSet /\ Current.id \in Ids[Current.kind]
         /\ Current.val \in Nat /\ Tail(items) \in Seq(Items)
<1>1. items \in Seq(Items) /\ items # <<>>
  BY DEF TypeOK
<1>2. Head(items) \in Items /\ Tail(items) \in Seq(Items)
  BY <1>1, HeadTailProperties
<1> QED BY <1>2 DEF Current, Items

LEMMA NodeIsNode ==
  ASSUME TypeOK, NEW k \in KindSet, NEW a \in DOMAIN list[k].node
  PROVE  /\ list[k].node[a] \in NodesOf(k)
         /\ list[k].node[a].next \in DOMAIN list[k].node \cup {NoNode}
         /\ list[k].node[a].data.slot \in Slots /\ list[k].node[a].data.id \in Ids[k]
<1>1. list[k].node \in Seq(NodesOf(k)) /\ IsList(k, list[k])
  BY DEF TypeOK, IsList, NodesOf
<1>2. list[k].node[a] \in NodesOf(k)
  BY <1>1, ElementOfSeq, LenProperties
<1> QED BY <1>1, <1>2 DEF IsList, NodesOf

LEMMA SendKeepsTypes ==
  ASSUME TypeOK, NEW k \in KindSet, NEW i \in Ids[k], NEW v \in Values, Send(k, i, v)
  PROVE  /\ DOMAIN db' = KindSet /\ \A n \in KindSet : db'[n] \in [Ids[n] -> Values]
         /\ failures' \in 0..MaxFailures
<1>1. failures' \in 0..MaxFailures
  BY Bounds DEF TypeOK, Send
<1>2. DOMAIN db' = KindSet /\ \A n \in KindSet : db'[n] \in [Ids[n] -> Values]
  <2>1. CASE db' = db
    BY <2>1 DEF TypeOK
  <2>2. CASE db' = [db EXCEPT ![k][i] = v]
    BY <2>2 DEF TypeOK
  <2> QED BY <2>1, <2>2 DEF Send
<1> QED BY <1>1, <1>2

LEMMA StoreKeepsTypes ==
  ASSUME TypeOK, xpc # "pop", Store
  PROVE  map' \in [KindSet -> [Slots -> Values]]
BY CurrentIsItem DEF TypeOK, Store, Values

LEMMA LatestKeepsTypes ==
  ASSUME TypeOK, xpc # "pop", latest' = [latest EXCEPT ![Current.kind][Current.id] = Current.val]
  PROVE  DOMAIN latest' = KindSet /\ \A n \in KindSet : latest'[n] \in [Ids[n] -> Values]
BY CurrentIsItem DEF TypeOK, Values

LEMMA NextItemKeepsTypes ==
  ASSUME TypeOK, xpc # "pop", NextItem
  PROVE  items' \in Seq(Items) /\ (xpc' # "pop" => items' # <<>>) /\ xpc' \in {"pop", "get"}
BY CurrentIsItem DEF TypeOK, NextItem

LEMMA TypeInit == Init => TypeOK
<1> SUFFICES ASSUME Init PROVE TypeOK
  OBVIOUS
<1>1. map \in [KindSet -> [Slots -> Values]]
  BY DEF Init, Values
<1>2. ASSUME NEW k \in KindSet PROVE IsList(k, list[k]) /\ cursor[k] \in DOMAIN list[k].node \cup {NoNode}
  <2> DEFINE e == <<>>
  <2>1. e \in Seq(NodesOf(k)) /\ DOMAIN e = {}
    BY EmptySeq
  <2> HIDE DEF e
  <2>2. list[k] = [first |-> NoNode, last |-> NoNode, len |-> 0, node |-> e, freed |-> {}]
    BY DEF Init, NewList, e
  <2>3. cursor[k] = NoNode
    BY DEF Init
  <2> QED BY <2>1, <2>2, <2>3 DEF IsList, NodesOf, NoNode
<1>3. items \in Seq(Items)
  <2>1. <<>> \in Seq(Items)
    BY EmptySeq
  <2> QED BY <2>1 DEF Init
<1>4. /\ xpc = "pop" /\ fresh \in Nat /\ xslot \in Slots /\ old \in Values /\ found \in Values /\ tpc = "sleep"
      /\ turn \in DOMAIN Kinds
  BY StoreAssumption, KindsAreKinds DEF StoreAssumption, Init, Values, NoNode
<1>5. /\ DOMAIN list = KindSet /\ DOMAIN cursor = KindSet /\ DOMAIN db = KindSet
      /\ DOMAIN latest = KindSet
      /\ \A k \in KindSet : db[k] \in [Ids[k] -> Values] /\ latest[k] \in [Ids[k] -> Values]
  BY DEF Init, Values
<1>6. broken \in BOOLEAN /\ reports \in 0..MaxReports /\ failures \in 0..MaxFailures
  <2>1. broken \in BOOLEAN
    BY Zenon DEF Init
  <2>2. reports = 0 /\ failures = 0
    BY DEF Init
  <2>3. reports \in 0..MaxReports /\ failures \in 0..MaxFailures
    BY <2>2, Bounds
  <2> QED BY <2>1, <2>3
<1> QED BY <1>1, <1>2, <1>3, <1>4, <1>5, <1>6 DEF TypeOK

LEMMA TypeStep == TypeOK /\ [Next]_vars => TypeOK'
<1>0. SUFFICES ASSUME TypeOK, [Next]_vars PROVE TypeOK'
  OBVIOUS
<1> TypeOK
  BY <1>0
<1> USE DEF xvars, tvars
<1>1. CASE ExporterPop
  <2>1. items' \in Seq(Items) /\ items' # <<>>
    BY <1>1, MetricsType DEF ExporterPop
  <2>2. reports' \in 0..MaxReports
    BY <1>1, Bounds DEF ExporterPop, TypeOK
  <2> QED BY <1>1, <2>1, <2>2 DEF ExporterPop, TypeOK, At
<1>2. CASE ExporterGet
  <2>1. Current.kind \in KindSet /\ Current.id \in Ids[Current.kind]
    BY <1>2, CurrentIsItem DEF ExporterGet
  <2>2. xslot' \in Slots
    BY <1>2, <2>1, StoreAssumption DEF ExporterGet, StoreAssumption
  <2>3. old' \in Values
    BY <1>2, <2>1, <2>2 DEF ExporterGet, TypeOK
  <2>4. xpc' \in {"add", "send_change", "replace"}
    BY <1>2 DEF ExporterGet
  <2> QED BY <1>2, <2>2, <2>3, <2>4 DEF ExporterGet, TypeOK, At
<1>3. CASE ExporterSendChange
  <2>1. /\ DOMAIN db' = KindSet /\ \A n \in KindSet : db'[n] \in [Ids[n] -> Values]
        /\ failures' \in 0..MaxFailures
    BY <1>3, SendKeepsTypes, CurrentIsItem DEF ExporterSendChange, TypeOK
  <2> QED BY <1>3, <2>1 DEF ExporterSendChange, TypeOK, At
<1>4. CASE ExporterReplace
  <2>1. /\ map' \in [KindSet -> [Slots -> Values]]
        /\ DOMAIN latest' = KindSet /\ \A n \in KindSet : latest'[n] \in [Ids[n] -> Values]
        /\ items' \in Seq(Items) /\ (xpc' # "pop" => items' # <<>>) /\ xpc' \in {"pop", "get"}
    BY <1>4, StoreKeepsTypes, LatestKeepsTypes, NextItemKeepsTypes DEF ExporterReplace
  <2> QED BY <1>4, <2>1 DEF ExporterReplace, TypeOK, At
<1>5. CASE ExporterAdd
  <2>1. /\ map' \in [KindSet -> [Slots -> Values]]
        /\ DOMAIN latest' = KindSet /\ \A n \in KindSet : latest'[n] \in [Ids[n] -> Values]
    BY <1>5, StoreKeepsTypes, LatestKeepsTypes DEF ExporterAdd
  <2> QED BY <1>5, <2>1 DEF ExporterAdd, TypeOK, At
<1>6. CASE ExporterSendNew
  <2>1. /\ DOMAIN db' = KindSet /\ \A n \in KindSet : db'[n] \in [Ids[n] -> Values]
        /\ failures' \in 0..MaxFailures
    BY <1>6, SendKeepsTypes, CurrentIsItem DEF ExporterSendNew, Values
  <2> QED BY <1>6, <2>1 DEF ExporterSendNew, TypeOK, At
<1>7. CASE ExporterAlloc
  <2> DEFINE k == Current.kind  data == [id |-> Current.id, slot |-> xslot]
  <2>1. k \in KindSet /\ data \in [id : Ids[k], slot : Slots]
    BY <1>7, CurrentIsItem DEF ExporterAlloc, TypeOK
  <2>2. CASE InsertCrashes(list[k])
    BY <1>7, <2>2 DEF ExporterAlloc, TypeOK, At, Current
  <2>3. CASE ~InsertCrashes(list[k])
    <3> DEFINE l == Evicted(list[k])
    <3>1. /\ fresh' \in Addresses(l) /\ list' = [list EXCEPT ![k] = Allocated(l, data, fresh')]
          /\ xpc' \in {"link", "head"}
      BY <1>7, <2>3 DEF ExporterAlloc
    <3>2. IsList(k, l) /\ l.node = list[k].node
      BY <2>1, <2>3, EvictedIsList DEF TypeOK
    <3>3. /\ IsList(k, list'[k]) /\ DOMAIN list'[k].node = DOMAIN list[k].node \cup {fresh'}
      <4> DEFINE a == fresh'  new == Allocated(l, data, a)
      <4>1. list'[k] = new /\ a \in Addresses(l)
        BY <2>1, <3>1 DEF TypeOK
      <4> HIDE DEF a, l
      <4>2. NewNode(k, l, a, data, new)
        <5>1. data \in [id : Ids[k], slot : Slots] /\ IsList(k, l) /\ k \in KindSet /\ a \in Addresses(l)
          BY <2>1, <3>2, <4>1
        <5> HIDE DEF data, k
        <5> QED BY <5>1, AllocatedIsList, Zenon
      <4> HIDE DEF new
      <4> QED BY <3>2, <4>1, <4>2 DEF a, NewNode
    <3>4. /\ DOMAIN list' = KindSet
          /\ \A n \in KindSet : IsList(n, list'[n]) /\ DOMAIN list[n].node \subseteq DOMAIN list'[n].node
      BY <2>1, <3>1, <3>3 DEF TypeOK
    <3>5. fresh' \in Nat
      <4>1. list'[k].node \in Seq(NodesOf(k))
        BY <3>3 DEF IsList, NodesOf
      <4>2. DOMAIN list'[k].node = 1..Len(list'[k].node) /\ Len(list'[k].node) \in Nat
        BY <4>1, LenProperties
      <4>3. fresh' \in DOMAIN list'[k].node
        BY <3>3, Zenon
      <4> QED BY <4>2, <4>3
    <3>6. cursor' = cursor /\ \A n \in KindSet : cursor'[n] \in DOMAIN list'[n].node \cup {NoNode}
      BY <1>7, <3>4 DEF ExporterAlloc, TypeOK
    <3>7. UNCHANGED <<map, items, xslot, old, tvars, db, reports, failures, latest, broken>>
          /\ xpc # "pop"
      BY <1>7, <2>3 DEF ExporterAlloc
    <3>8. Current'.kind = k
      BY <3>7 DEF Current
    <3> QED BY <3>1, <3>3, <3>4, <3>5, <3>6, <3>7, <3>8 DEF TypeOK, At
  <2> QED BY <2>2, <2>3
<1>14. CASE ExporterInsert
  <2> DEFINE k == Current.kind
  <2>1. k \in KindSet /\ fresh \in DOMAIN list[k].node /\ xpc \in {"link", "head"} /\ IsList(k, list[k])
    BY <1>14, CurrentIsItem DEF ExporterInsert, TypeOK
  <2>2. list' = [list EXCEPT ![k] = InsertStep(xpc, list[k], fresh)]
    BY <1>14 DEF ExporterInsert
  <2>3. list'[k] = InsertStep(xpc, list[k], fresh)
    BY <2>1, <2>2 DEF TypeOK
  <2>4. IsList(k, list'[k]) /\ DOMAIN list'[k].node = DOMAIN list[k].node
    BY <2>1, <2>3, InsertStepIsList
  <2>5. /\ DOMAIN list' = KindSet
        /\ \A n \in KindSet : IsList(n, list'[n]) /\ DOMAIN list[n].node = DOMAIN list'[n].node
    BY <2>1, <2>2, <2>4 DEF TypeOK
  <2>6. cursor' = cursor /\ \A n \in KindSet : cursor'[n] \in DOMAIN list'[n].node \cup {NoNode}
    BY <1>14, <2>5 DEF ExporterInsert, TypeOK
  <2>7. UNCHANGED <<map, xslot, old, tvars, db, reports, failures, latest, broken>> /\ xpc # "pop"
    BY <1>14 DEF ExporterInsert
  <2>8. CASE xpc = "link"
    <3>1. xpc' = "head" /\ items' = items /\ fresh' = fresh /\ Current'.kind = k
      BY <1>14, <2>8 DEF ExporterInsert, Current
    <3> QED BY <2>1, <2>5, <2>6, <2>7, <3>1 DEF TypeOK, At
  <2>9. CASE xpc # "link"
    <3>1. NextItem /\ fresh' = NoNode
      BY <1>14, <2>9 DEF ExporterInsert
    <3>2. items' \in Seq(Items) /\ (xpc' # "pop" => items' # <<>>) /\ xpc' \in {"pop", "get"}
      BY <2>7, <3>1, NextItemKeepsTypes
    <3>3. fresh' \in Nat
      BY <3>1 DEF NoNode
    <3> QED BY <2>5, <2>6, <2>7, <3>2, <3>3 DEF TypeOK, At
  <2> QED BY <2>8, <2>9
<1>8. CASE PeriodicStart
  <2>1. DOMAIN cursor' = KindSet /\ \A n \in KindSet : cursor'[n] \in DOMAIN list[n].node \cup {NoNode}
    BY <1>8 DEF PeriodicStart, TypeOK, IsList
  <2>2. turn' \in DOMAIN Kinds
    BY <1>8, KindsAreKinds DEF PeriodicStart
  <2> QED BY <1>8, <2>1, <2>2 DEF PeriodicStart, TypeOK, Current
<1>9. CASE PeriodicNextList
  <2>1. turn' \in DOMAIN Kinds /\ tpc' \in {"sleep", "walk"}
    BY <1>9, KindsAreKinds DEF PeriodicNextList, TypeOK
  <2> QED BY <1>9, <2>1 DEF PeriodicNextList, TypeOK, Current
<1>10. CASE PeriodicGet
  <2>1. Kinds[turn] \in KindSet
    BY KindsAreKinds DEF TypeOK
  <2>2. CASE Dangling
    BY <1>10, <2>2 DEF PeriodicGet, TypeOK, At, Current
  <2>3. CASE ~Dangling
    <3> DEFINE v == map[Kinds[turn]][Node.data.slot]
    <3>1. v \in Values
      <4>1. Node.data.slot \in Slots
        BY <1>10, <2>1, NodeIsNode DEF PeriodicGet, TypeOK, Node, At
      <4> QED BY <2>1, <4>1 DEF TypeOK
    <3>2. CASE v = NoVal
      <4>1. DOMAIN cursor' = KindSet /\ \A n \in KindSet : cursor'[n] \in DOMAIN list[n].node \cup {NoNode}
        BY <1>10, <2>1, <2>3, <3>2 DEF PeriodicGet, TypeOK
      <4> QED BY <1>10, <2>3, <3>2, <4>1 DEF PeriodicGet, TypeOK, Current
    <3>3. CASE v # NoVal
      <4>1. found' \in Values /\ tpc' = "send" /\ UNCHANGED <<cursor, broken>>
        BY <1>10, <2>3, <3>1, <3>3 DEF PeriodicGet
      <4> QED BY <1>10, <4>1 DEF PeriodicGet, TypeOK, At, Current
    <3> QED BY <3>2, <3>3
  <2> QED BY <2>2, <2>3
<1>11. CASE PeriodicSend
  <2>1. Kinds[turn] \in KindSet /\ At \in DOMAIN list[Kinds[turn]].node
    BY <1>11, KindsAreKinds DEF PeriodicSend, TypeOK, At
  <2>2. CASE Dangling
    BY <1>11, <2>2 DEF PeriodicSend, TypeOK, At, Current
  <2>3. CASE ~Dangling
    <3>1. Node.data.id \in Ids[Kinds[turn]] /\ Node.next \in DOMAIN list[Kinds[turn]].node \cup {NoNode}
      BY <2>1, NodeIsNode DEF Node
    <3>2. Send(Kinds[turn], Node.data.id, found) /\ found \in Values
      BY <1>11, <2>3 DEF PeriodicSend, TypeOK
    <3>3. /\ DOMAIN db' = KindSet /\ \A n \in KindSet : db'[n] \in [Ids[n] -> Values]
          /\ failures' \in 0..MaxFailures
      BY <2>1, <3>1, <3>2, SendKeepsTypes
    <3>4. DOMAIN cursor' = KindSet /\ \A n \in KindSet : cursor'[n] \in DOMAIN list[n].node \cup {NoNode}
      BY <1>11, <2>1, <2>3, <3>1 DEF PeriodicSend, TypeOK
    <3> QED BY <1>11, <2>3, <3>3, <3>4 DEF PeriodicSend, TypeOK, Current
  <2> QED BY <2>2, <2>3
<1>12. CASE UNCHANGED vars
  BY <1>12 DEF vars, TypeOK, At, Current
<1> QED BY <1>0, <1>1, <1>2, <1>3, <1>4, <1>5, <1>6, <1>7, <1>8, <1>9, <1>10, <1>11, <1>12, <1>14
        DEF Next, Exporter, Periodic
------------------------------------------------------------------------------
(* Values *)

\* The exporter stores a value before it lists the id.
ValueInv ==
  /\ ListedIdsHaveValues
  /\ xpc \in {"send_new", "list"} => map[Current.kind][xslot] # NoVal

LEMMA StoreFillsSlot ==
  ASSUME TypeOK, xpc # "pop", Store
  PROVE  /\ map'[Current.kind][xslot] # NoVal
         /\ \A k \in KindSet : \A s \in Slots : map[k][s] # NoVal => map'[k][s] # NoVal
BY CurrentIsItem DEF TypeOK, Store, NoVal

LEMMA ValueInit == Init => ValueInv
<1> SUFFICES ASSUME Init PROVE ValueInv
  OBVIOUS
<1>1. ASSUME NEW k \in KindSet PROVE DOMAIN list[k].node = {}
  BY EmptySeq DEF Init, NewList
<1> QED BY <1>1 DEF ValueInv, ListedIdsHaveValues, Init

LEMMA ValueStep == TypeOK /\ ValueInv /\ [Next]_vars => ValueInv'
<1>0. SUFFICES ASSUME TypeOK, ValueInv, [Next]_vars PROVE ValueInv'
  OBVIOUS
<1> TypeOK /\ ValueInv
  BY <1>0
<1> USE DEF xvars, tvars
<1>1. CASE UNCHANGED <<map, list>> /\ xpc' \notin {"send_new", "list"}
  BY <1>1 DEF ValueInv, ListedIdsHaveValues
<1>2. CASE UNCHANGED <<map, list, items, xslot>> /\ (xpc' = xpc \/ xpc = "send_new")
  BY <1>2 DEF ValueInv, ListedIdsHaveValues, Current
<1>3. CASE (ExporterReplace \/ ExporterAdd)
  <2>1. list' = list /\ xpc # "pop" /\ Store
    BY <1>3 DEF ExporterReplace, ExporterAdd
  <2>2. ListedIdsHaveValues'
    <3>1. ASSUME NEW k \in KindSet, NEW a \in DOMAIN list[k].node
          PROVE  map'[k][list[k].node[a].data.slot] # NoVal
      <4>1. list[k].node[a].data.slot \in Slots /\ map[k][list[k].node[a].data.slot] # NoVal
        BY NodeIsNode DEF ValueInv, ListedIdsHaveValues
      <4> QED BY <2>1, <4>1, StoreFillsSlot
    <3> QED BY <2>1, <3>1 DEF ListedIdsHaveValues
  <2>3. xpc' \in {"send_new", "list"} => Current' = Current /\ xslot' = xslot
    BY <1>3 DEF ExporterReplace, ExporterAdd, NextItem, Current
  <2> QED BY <2>1, <2>2, <2>3, StoreFillsSlot DEF ValueInv
<1>4. CASE ExporterAlloc /\ ~InsertCrashes(list[Current.kind])
  <2> DEFINE c == Current.kind  data == [id |-> Current.id, slot |-> xslot]  l == Evicted(list[c])
  <2>1. c \in KindSet /\ data \in [id : Ids[c], slot : Slots] /\ data.slot = xslot
    BY <1>4, CurrentIsItem DEF ExporterAlloc, TypeOK
  <2>2. fresh' \in Addresses(l) /\ list' = [list EXCEPT ![c] = Allocated(l, data, fresh')]
    BY <1>4 DEF ExporterAlloc
  <2>3. IsList(c, l) /\ l.node = list[c].node
    BY <1>4, <2>1, EvictedIsList DEF TypeOK
  <2>4. /\ map' = map /\ UNCHANGED <<items, xslot>> /\ xpc' \in {"link", "head"}
        /\ map[c][xslot] # NoVal
    BY <1>4 DEF ExporterAlloc, ValueInv
  <2>5. ASSUME NEW k \in KindSet, NEW a \in DOMAIN list'[k].node
        PROVE  map'[k][list'[k].node[a].data.slot] # NoVal
    <3>1. CASE k = c
      <4>1. list'[k] = Allocated(l, data, fresh')
        BY <2>1, <2>2, <3>1 DEF TypeOK
      <4>2. /\ DOMAIN list'[k].node = DOMAIN list[c].node \cup {fresh'}
            /\ list'[k].node[fresh'].data = data
            /\ \A b \in DOMAIN list[c].node \ {fresh'} : list'[k].node[b] = list[c].node[b]
        <5> DEFINE f == fresh'  new == Allocated(l, data, f)
        <5>1. list'[k] = new /\ f \in Addresses(l)
          BY <2>2, <4>1
        <5> HIDE DEF f, l
        <5>2. NewNode(c, l, f, data, new)
          <6>1. data \in [id : Ids[c], slot : Slots] /\ IsList(c, l) /\ c \in KindSet
                /\ f \in Addresses(l)
            BY <2>1, <2>3, <5>1
          <6> HIDE DEF data, c
          <6> QED BY <6>1, AllocatedIsList, Zenon
        <5> HIDE DEF new
        <5> QED BY <2>3, <5>1, <5>2 DEF f, NewNode
      <4> HIDE DEF data, l
      <4>3. CASE a = fresh'
        BY <2>1, <2>4, <3>1, <4>2, <4>3
      <4>4. CASE a # fresh'
        <5>1. a \in DOMAIN list[c].node /\ list'[k].node[a] = list[c].node[a]
          BY <2>5, <4>2, <4>4
        <5> QED BY <2>1, <2>4, <3>1, <5>1 DEF ValueInv, ListedIdsHaveValues
      <4> QED BY <4>3, <4>4
    <3>2. CASE k # c
      <4>1. list'[k] = list[k]
        BY <2>1, <2>2, <3>2 DEF TypeOK
      <4> QED BY <2>4, <2>5, <4>1 DEF ValueInv, ListedIdsHaveValues
    <3> QED BY <3>1, <3>2
  <2> QED BY <2>4, <2>5 DEF ValueInv, ListedIdsHaveValues
<1>7. CASE ExporterInsert
  <2> DEFINE c == Current.kind
  <2>1. c \in KindSet /\ fresh \in DOMAIN list[c].node /\ xpc \in {"link", "head"} /\ IsList(c, list[c])
    BY <1>7, CurrentIsItem DEF ExporterInsert, TypeOK
  <2>2. list' = [list EXCEPT ![c] = InsertStep(xpc, list[c], fresh)]
    BY <1>7 DEF ExporterInsert
  <2>3. map' = map /\ xpc' \in {"head", "pop", "get"}
    BY <1>7 DEF ExporterInsert, NextItem
  <2>4. ASSUME NEW k \in KindSet
        PROVE  /\ DOMAIN list'[k].node = DOMAIN list[k].node
               /\ \A a \in DOMAIN list[k].node : list'[k].node[a].data = list[k].node[a].data
    <3>1. CASE k = c
      <4>1. list'[k] = InsertStep(xpc, list[c], fresh)
        BY <2>1, <2>2, <3>1 DEF TypeOK
      <4> QED BY <2>1, <3>1, <4>1, InsertStepIsList
    <3>2. CASE k # c
      BY <2>1, <2>2, <3>2 DEF TypeOK
    <3> QED BY <3>1, <3>2
  <2> QED BY <2>3, <2>4 DEF ValueInv, ListedIdsHaveValues
<1>5. ExporterPop \/ ExporterGet \/ ExporterSendChange => UNCHANGED <<map, list>> /\ xpc' \notin {"send_new", "list"}
  BY DEF ExporterPop, ExporterGet, ExporterSendChange
<1>6. \/ ExporterSendNew \/ Periodic \/ UNCHANGED vars
      \/ ExporterAlloc /\ InsertCrashes(list[Current.kind])
      => UNCHANGED <<map, list, items, xslot>> /\ (xpc' = xpc \/ xpc = "send_new")
  BY DEF ExporterSendNew, Periodic, PeriodicStart, PeriodicNextList, PeriodicGet, PeriodicSend,
         ExporterAlloc, vars
<1> QED BY <1>0, <1>1, <1>2, <1>3, <1>4, <1>5, <1>6, <1>7 DEF Next, Exporter
------------------------------------------------------------------------------
(* Kinds whose slots fit the list: no insertion finds it full.  Ids may have    *)
(* several slots, and share them.                                               *)

UsedSlots(k) == UNION {SlotsOf(k, i) : i \in Ids[k]}
RoomForSlots(k) == IsFiniteSet(UsedSlots(k)) /\ Cardinality(UsedSlots(k)) <= MaxLen + 1

Inserting(k) == xpc \in {"link", "head"} /\ Current.kind = k
NoNodeHas(k, s) == \A a \in DOMAIN list[k].node : list[k].node[a].data.slot # s

\* The nodes are linked in the order they were allocated, each slot has one at
\* most; during an insertion there is one node more than the list has.
ListInv(k) ==
  /\ list[k].freed = {} /\ list[k].first = list[k].len
  /\ Len(list[k].node) = list[k].len + (IF Inserting(k) THEN 1 ELSE 0)
  /\ Inserting(k) => /\ fresh = Len(list[k].node) /\ list[k].node[fresh].data.slot = xslot
                     /\ xpc = "head" => list[k].node[fresh].next = list[k].len
  /\ \A a \in 1..list[k].len : list[k].node[a].next = a - 1
  /\ \A a \in DOMAIN list[k].node :
       list[k].node[a].data.slot \in SlotsOf(k, list[k].node[a].data.id)
  /\ \A a, b \in DOMAIN list[k].node :
       list[k].node[a].data.slot = list[k].node[b].data.slot => a = b

\* A slot that has a value is listed or about to be.
SlotListed(k, s) == \E a \in 1..list[k].len : list[k].node[a].data.slot = s
AddingSlot(k, s) ==
  xpc \in {"send_new", "list", "link", "head"} /\ Current.kind = k /\ xslot = s
FilledInv(k) == \A s \in Slots : map[k][s] # NoVal => SlotListed(k, s) \/ AddingSlot(k, s)

\* An id that was reported has filled a slot.
LatestInv(k) ==
  \A i \in Ids[k] : latest[k][i] # NoVal => \E s \in SlotsOf(k, i) : map[k][s] # NoVal

\* The branch report_exporter is in fits the slot of its current id.
BranchInv(k) ==
  xpc # "pop" /\ Current.kind = k =>
    /\ xpc # "get" => xslot \in SlotsOf(k, Current.id)
    /\ xpc = "add" => map[k][xslot] = NoVal
    /\ xpc \in {"send_change", "replace"} => map[k][xslot] # NoVal
    /\ xpc \in {"send_new", "list"} => NoNodeHas(k, xslot)

RoomInv(k) == ListInv(k) /\ FilledInv(k) /\ LatestInv(k) /\ BranchInv(k)
RoomSafe == \A k \in KindSet : RoomForSlots(k) => RoomInv(k)

LEMMA RoomInit == Init => RoomSafe
<1> SUFFICES ASSUME Init, NEW k \in KindSet PROVE RoomInv(k)
  BY DEF RoomSafe
<1>1. list[k] = NewList /\ xpc = "pop"
  BY DEF Init
<1>2. DOMAIN list[k].node = {} /\ Len(list[k].node) = 0
  BY <1>1, EmptySeq DEF NewList
<1>3. ListInv(k)
  BY <1>1, <1>2 DEF ListInv, NewList, NoNode, Inserting
<1>4. LatestInv(k) /\ FilledInv(k) /\ BranchInv(k)
  BY <1>1 DEF LatestInv, FilledInv, BranchInv, Init
<1> QED BY <1>3, <1>4 DEF RoomInv

\* The nodes of a list have distinct slots, so there are at most as many.
LEMMA NewSlotFits ==
  ASSUME TypeOK, NEW k \in KindSet, RoomForSlots(k), ListInv(k), ~Inserting(k),
         NEW s \in UsedSlots(k), NoNodeHas(k, s)
  PROVE  ~Full(list[k])
<1> DEFINE n == Len(list[k].node)
           f == [a \in 1..n + 1 |-> IF a \in 1..n THEN list[k].node[a].data.slot ELSE s]
<1>1. n \in Nat /\ DOMAIN list[k].node = 1..n /\ n = list[k].len
  <2>1. list[k].node \in Seq(NodesOf(k)) /\ list[k].len \in Nat
    BY DEF TypeOK, IsList, NodesOf
  <2>2. n \in Nat /\ DOMAIN list[k].node = 1..n
    BY <2>1, LenProperties
  <2> QED BY <2>1, <2>2 DEF ListInv
<1>2. f \in Injection(1..n + 1, UsedSlots(k))
  <2>1. ASSUME NEW a \in 1..n + 1 PROVE f[a] \in UsedSlots(k)
    <3>1. CASE a \in 1..n
      <4>1. list[k].node[a].data.id \in Ids[k]
        BY <1>1, <3>1, NodeIsNode
      <4>2. list[k].node[a].data.slot \in SlotsOf(k, list[k].node[a].data.id)
        BY <1>1, <3>1 DEF ListInv
      <4>3. f[a] = list[k].node[a].data.slot
        BY <3>1
      <4> QED BY <4>1, <4>2, <4>3 DEF UsedSlots
    <3>2. CASE a \notin 1..n
      BY <3>2
    <3> QED BY <3>1, <3>2
  <2>2. ASSUME NEW a \in 1..n + 1, NEW b \in 1..n + 1, f[a] = f[b] PROVE a = b
    <3>1. CASE a \in 1..n /\ b \in 1..n
      BY <1>1, <2>2, <3>1 DEF ListInv
    <3>2. CASE a \in 1..n /\ b = n + 1
      BY <1>1, <2>2, <3>2 DEF NoNodeHas
    <3>3. CASE b \in 1..n /\ a = n + 1
      BY <1>1, <2>2, <3>3 DEF NoNodeHas
    <3>4. CASE a = n + 1 /\ b = n + 1
      BY <3>4
    <3> QED BY <1>1, <3>1, <3>2, <3>3, <3>4
  <2> QED BY <2>1, <2>2 DEF Injection, IsInjective
<1>3. Cardinality(1..n + 1) = n + 1 /\ IsFiniteSet(1..n + 1)
  <2> HIDE DEF n, f
  <2>1. 1 \in Int /\ n + 1 \in Int /\ ~(1 > n + 1) /\ (n + 1) - 1 + 1 = n + 1
    BY <1>1
  <2>2. \A a, b \in Int : IsFiniteSet(a..b) /\ Cardinality(a..b) = IF a > b THEN 0 ELSE b - a + 1
    BY FS_Interval, Zenon
  <2> QED BY <2>1, <2>2
<1>4. n + 1 <= Cardinality(UsedSlots(k))
  BY <1>2, <1>3, FS_Injection DEF RoomForSlots
<1>5. Cardinality(UsedSlots(k)) \in Nat /\ MaxLen \in Nat
  BY FS_CardinalityType, Bounds DEF RoomForSlots
<1> QED BY <1>1, <1>4, <1>5 DEF Full, RoomForSlots

\* What storing a value does to the map and the latest values of a kind.
LEMMA StoreKeepsLatest ==
  ASSUME TypeOK, NEW k \in KindSet, RoomInv(k), xpc \in {"replace", "add"},
         Store, latest' = [latest EXCEPT ![Current.kind][Current.id] = Current.val]
  PROVE  /\ LatestInv(k)'
         /\ \A s \in Slots : map'[k][s] # NoVal =>
              map[k][s] # NoVal \/ (Current.kind = k /\ s = xslot)
<1>1. /\ Current.kind \in KindSet /\ Current.id \in Ids[Current.kind] /\ xslot \in Slots
      /\ map \in [KindSet -> [Slots -> Values]]
      /\ DOMAIN latest = KindSet /\ latest[k] \in [Ids[k] -> Values]
  BY CurrentIsItem DEF TypeOK
<1>2. \A s \in Slots : map'[k][s] # NoVal =>
        map[k][s] # NoVal \/ (Current.kind = k /\ s = xslot)
  BY <1>1 DEF Store
<1>3. /\ map'[Current.kind][xslot] # NoVal
      /\ \A s \in Slots : map[k][s] # NoVal => map'[k][s] # NoVal
  BY StoreFillsSlot
<1>4. ASSUME NEW i \in Ids[k], latest'[k][i] # NoVal
      PROVE  \E s \in SlotsOf(k, i) : map'[k][s] # NoVal
  <2>1. CASE Current.kind = k /\ Current.id = i
    <3>1. xslot \in SlotsOf(k, i)
      BY <2>1 DEF RoomInv, BranchInv
    <3> QED BY <1>3, <2>1, <3>1
  <2>2. CASE ~(Current.kind = k /\ Current.id = i)
    <3>1. latest'[k][i] = latest[k][i]
      BY <1>1, <2>2
    <3>2. PICK s \in SlotsOf(k, i) : map[k][s] # NoVal
      BY <1>4, <3>1 DEF RoomInv, LatestInv
    <3>3. s \in Slots
      BY StoreAssumption DEF StoreAssumption
    <3> QED BY <1>3, <3>2, <3>3
  <2> QED BY <2>1, <2>2
<1> QED BY <1>2, <1>4 DEF LatestInv

LEMMA RoomStep ==
  ASSUME NEW k \in KindSet, RoomForSlots(k)
  PROVE  TypeOK /\ ValueInv /\ RoomInv(k) /\ [Next]_vars => RoomInv(k)'
<1>0. SUFFICES ASSUME TypeOK, ValueInv, RoomInv(k), [Next]_vars PROVE RoomInv(k)'
  OBVIOUS
<1> TypeOK /\ ValueInv /\ RoomInv(k)
  BY <1>0
<1> USE DEF xvars, tvars
<1>1. CASE UNCHANGED <<map, list, xvars, latest>>
  BY <1>1 DEF RoomInv, ListInv, FilledInv, LatestInv, BranchInv, Inserting, NoNodeHas, SlotListed,
              AddingSlot, Current
<1>2. CASE ExporterPop
  BY <1>2 DEF ExporterPop, RoomInv, ListInv, FilledInv, LatestInv, BranchInv, Inserting, NoNodeHas,
              SlotListed, AddingSlot
<1>3. CASE ExporterGet
  <2>1. /\ UNCHANGED <<map, list, items, latest, fresh>> /\ Current' = Current /\ xpc = "get"
        /\ xpc' \in {"add", "send_change", "replace"}
        /\ xslot' \in SlotsOf(Current.kind, Current.id)
        /\ (xpc' = "add" <=> map[Current.kind][xslot'] = NoVal)
    BY <1>3 DEF ExporterGet, Current
  <2>2. BranchInv(k)'
    BY <2>1 DEF BranchInv
  <2>3. ListInv(k)' /\ FilledInv(k)' /\ LatestInv(k)'
    BY <2>1 DEF RoomInv, ListInv, FilledInv, LatestInv, Inserting, SlotListed, AddingSlot
  <2> QED BY <2>2, <2>3 DEF RoomInv
<1>4. CASE ExporterSendChange
  BY <1>4 DEF ExporterSendChange, RoomInv, ListInv, FilledInv, LatestInv, BranchInv, Inserting,
              NoNodeHas, SlotListed, AddingSlot, Current
<1>5. CASE ExporterReplace
  <2>1. list' = list /\ xpc' \in {"pop", "get"} /\ xpc = "replace" /\ fresh' = fresh /\ Store
    BY <1>5 DEF ExporterReplace, NextItem
  <2>2. LatestInv(k)' /\ \A s \in Slots : map'[k][s] # NoVal =>
                            map[k][s] # NoVal \/ (Current.kind = k /\ s = xslot)
    BY <1>5, StoreKeepsLatest DEF ExporterReplace
  <2>3. Current.kind = k => map[k][xslot] # NoVal
    BY <2>1 DEF RoomInv, BranchInv
  <2>4. FilledInv(k)'
    BY <2>1, <2>2, <2>3 DEF RoomInv, FilledInv, SlotListed, AddingSlot
  <2>5. ListInv(k)' /\ BranchInv(k)'
    BY <2>1 DEF RoomInv, ListInv, BranchInv, Inserting
  <2> QED BY <2>2, <2>4, <2>5 DEF RoomInv
<1>6. CASE ExporterAdd
  <2>1. list' = list /\ xslot' = xslot /\ Current' = Current /\ xpc' = "send_new" /\ xpc = "add"
        /\ fresh' = fresh
    BY <1>6 DEF ExporterAdd, Current
  <2>2. LatestInv(k)' /\ \A s \in Slots : map'[k][s] # NoVal =>
                            map[k][s] # NoVal \/ (Current.kind = k /\ s = xslot)
    BY <1>6, StoreKeepsLatest DEF ExporterAdd
  <2>3. FilledInv(k)'
    BY <2>1, <2>2 DEF RoomInv, FilledInv, SlotListed, AddingSlot
  <2>4. Current.kind = k => NoNodeHas(k, xslot) /\ xslot \in SlotsOf(k, Current.id)
    BY <2>1 DEF RoomInv, BranchInv, NoNodeHas, ValueInv, ListedIdsHaveValues
  <2>5. ListInv(k)' /\ BranchInv(k)'
    BY <2>1, <2>4 DEF RoomInv, ListInv, BranchInv, Inserting, NoNodeHas
  <2> QED BY <2>2, <2>3, <2>5 DEF RoomInv
<1>7. CASE ExporterSendNew
  BY <1>7 DEF ExporterSendNew, RoomInv, ListInv, FilledInv, LatestInv, BranchInv, Inserting,
              NoNodeHas, SlotListed, AddingSlot, Current
<1>8. CASE ExporterAlloc /\ InsertCrashes(list[Current.kind])
  BY <1>1, <1>8 DEF ExporterAlloc
<1>9. CASE ExporterAlloc /\ ~InsertCrashes(list[Current.kind])
  <2> DEFINE c == Current.kind  data == [id |-> Current.id, slot |-> xslot]  l == Evicted(list[c])
  <2>1. /\ c \in KindSet /\ Current.id \in Ids[c] /\ data \in [id : Ids[c], slot : Slots]
        /\ data.id = Current.id /\ data.slot = xslot
    BY <1>9, CurrentIsItem DEF ExporterAlloc, TypeOK
  <2>2. /\ UNCHANGED <<map, items, xslot, latest>> /\ Current' = Current /\ xpc = "list"
        /\ fresh' \in Addresses(l) /\ list' = [list EXCEPT ![c] = Allocated(l, data, fresh')]
        /\ xpc' = IF l.len = 0 THEN "head" ELSE "link"
    BY <1>9 DEF ExporterAlloc, Current
  <2>3. LatestInv(k)'
    BY <2>2 DEF RoomInv, LatestInv
  <2>4. BranchInv(k)'
    BY <2>2 DEF RoomInv, BranchInv
  <2>5. CASE c # k
    <3>1. list'[k] = list[k]
      BY <2>1, <2>2, <2>5 DEF TypeOK
    <3>2. ~Inserting(k) /\ ~Inserting(k)'
      BY <2>2, <2>5 DEF Inserting
    <3>3. ListInv(k)'
      BY <3>1, <3>2 DEF RoomInv, ListInv
    <3>4. FilledInv(k)'
      BY <2>2, <2>5, <3>1 DEF RoomInv, FilledInv, SlotListed, AddingSlot
    <3> QED BY <2>3, <2>4, <3>3, <3>4 DEF RoomInv
  <2>6. CASE c = k
    <3>1. /\ ListInv(k) /\ ~Inserting(k) /\ xslot \in SlotsOf(k, Current.id) /\ NoNodeHas(k, xslot)
      BY <2>2, <2>6 DEF RoomInv, BranchInv, Inserting
    <3>2. xslot \in UsedSlots(k)
      BY <2>1, <2>6, <3>1 DEF UsedSlots
    <3>3. l = list[k] /\ IsList(k, l)
      BY <2>6, <3>1, <3>2, NewSlotFits DEF Evicted, TypeOK
    <3> DEFINE n == Len(list[k].node)
    <3>4. n \in Nat /\ DOMAIN list[k].node = 1..n /\ list[k].len = n /\ list[k].first = n
          /\ list[k].freed = {}
      <4>1. list[k].node \in Seq(NodesOf(k)) /\ list[k].len \in Nat
        BY DEF TypeOK, IsList, NodesOf
      <4>2. n \in Nat /\ DOMAIN list[k].node = 1..n
        BY <4>1, LenProperties
      <4> QED BY <3>1, <4>1, <4>2 DEF ListInv
    <3>5. fresh' = n + 1
      BY <2>2, <3>3, <3>4 DEF Addresses
    <3>6. /\ IsList(k, list'[k]) /\ DOMAIN list'[k].node = 1..n + 1
          /\ list'[k].node[n + 1].data = data /\ list'[k].node[n + 1].next = NoNode
          /\ \A b \in 1..n : list'[k].node[b] = list[k].node[b]
          /\ list'[k].first = n /\ list'[k].len = n /\ list'[k].freed = {}
      <4> DEFINE new == Allocated(l, data, n + 1)
      <4>1. list'[k] = new
        BY <2>1, <2>2, <2>6, <3>5 DEF TypeOK
      <4>2. NewNode(k, l, n + 1, data, new)
        <5>1. /\ data \in [id : Ids[k], slot : Slots] /\ IsList(k, l) /\ k \in KindSet
              /\ n + 1 \in Addresses(l)
          BY <2>1, <2>2, <2>6, <3>3, <3>5
        <5> HIDE DEF data, l, n
        <5> QED BY <5>1, AllocatedIsList, Zenon
      <4> HIDE DEF new, l, data
      <4>3. /\ IsList(k, new) /\ DOMAIN new.node = 1..n \cup {n + 1}
            /\ new.node[n + 1].data = data /\ new.node[n + 1].next = NoNode
            /\ \A b \in 1..n \ {n + 1} : new.node[b] = list[k].node[b]
            /\ new.first = n /\ new.len = n /\ new.freed = {}
        BY <3>3, <3>4, <4>2 DEF NewNode
      <4> HIDE DEF n
      <4>4. 1..n \cup {n + 1} = 1..n + 1 /\ 1..n \ {n + 1} = 1..n
        BY <3>4
      <4> QED BY <4>1, <4>3, <4>4
    <3>7. Len(list'[k].node) = n + 1
      <4>1. list'[k].node \in Seq(NodesOf(k))
        BY <3>6 DEF IsList, NodesOf
      <4>2. DOMAIN list'[k].node = 1..Len(list'[k].node) /\ Len(list'[k].node) \in Nat
        BY <4>1, LenProperties
      <4> QED BY <3>4, <3>6, <4>2
    <3>8. Inserting(k)' /\ (xpc' = "head" => n = 0)
      BY <2>2, <2>6, <3>3, <3>4 DEF Inserting
    <3>9. /\ \A a \in 1..n : list[k].node[a].next = a - 1
          /\ \A a \in 1..n : list[k].node[a].data.slot \in SlotsOf(k, list[k].node[a].data.id)
          /\ \A a, b \in 1..n : list[k].node[a].data.slot = list[k].node[b].data.slot => a = b
          /\ \A a \in 1..n : list[k].node[a].data.slot # xslot
      BY <3>1, <3>4 DEF ListInv, NoNodeHas
    <3> HIDE DEF n, l, data
    <3>10. ASSUME NEW a \in 1..n + 1
           PROVE  list'[k].node[a].data.slot \in SlotsOf(k, list'[k].node[a].data.id)
      <4>1. CASE a = n + 1
        BY <2>1, <3>1, <3>6, <4>1
      <4>2. CASE a \in 1..n
        BY <3>6, <3>9, <4>2
      <4> QED BY <3>4, <4>1, <4>2
    <3>11. ASSUME NEW a \in 1..n + 1, NEW b \in 1..n + 1,
                  list'[k].node[a].data.slot = list'[k].node[b].data.slot
           PROVE  a = b
      <4>1. CASE a = n + 1 /\ b \in 1..n
        BY <2>1, <3>6, <3>9, <3>11, <4>1
      <4>2. CASE b = n + 1 /\ a \in 1..n
        BY <2>1, <3>6, <3>9, <3>11, <4>2
      <4>3. CASE a \in 1..n /\ b \in 1..n
        BY <3>6, <3>9, <3>11, <4>3
      <4> QED BY <3>4, <4>1, <4>2, <4>3
    <3>12. /\ fresh' = Len(list'[k].node) /\ list'[k].node[fresh'].data.slot = xslot'
           /\ xpc' = "head" => list'[k].node[fresh'].next = list'[k].len
      BY <2>1, <2>2, <3>5, <3>6, <3>7, <3>8 DEF NoNode
    <3>13. \A a \in 1..list'[k].len : list'[k].node[a].next = a - 1
      BY <3>6, <3>9
    <3>14. ListInv(k)'
      BY <3>6, <3>7, <3>8, <3>10, <3>11, <3>12, <3>13 DEF ListInv
    <3>15. FilledInv(k)'
      <4>1. ASSUME NEW s \in Slots, map[k][s] # NoVal
            PROVE  SlotListed(k, s)' \/ AddingSlot(k, s)'
        <5>1. CASE SlotListed(k, s)
          BY <3>4, <3>6, <5>1 DEF SlotListed
        <5>2. CASE AddingSlot(k, s)
          BY <2>2, <5>2 DEF AddingSlot
        <5> QED BY <4>1, <5>1, <5>2 DEF RoomInv, FilledInv
      <4> QED BY <2>2, <4>1 DEF FilledInv
    <3> QED BY <2>3, <2>4, <3>14, <3>15 DEF RoomInv
  <2> QED BY <2>5, <2>6
<1>10. CASE ExporterInsert
  <2> DEFINE c == Current.kind
  <2>1. c \in KindSet /\ fresh \in DOMAIN list[c].node /\ xpc \in {"link", "head"} /\ IsList(c, list[c])
    BY <1>10, CurrentIsItem DEF ExporterInsert, TypeOK
  <2>2. /\ UNCHANGED <<map, xslot, latest>>
        /\ list' = [list EXCEPT ![c] = InsertStep(xpc, list[c], fresh)]
    BY <1>10 DEF ExporterInsert
  <2>3. xpc = "link" => xpc' = "head" /\ fresh' = fresh /\ Current' = Current
    BY <1>10 DEF ExporterInsert, Current
  <2>4. xpc = "head" => xpc' \in {"pop", "get"}
    BY <1>10 DEF ExporterInsert, NextItem
  <2>5. LatestInv(k)'
    BY <2>2 DEF RoomInv, LatestInv
  <2>6. BranchInv(k)'
    BY <2>1, <2>2, <2>3, <2>4 DEF RoomInv, BranchInv
  <2>7. CASE c # k
    <3>1. list'[k] = list[k]
      BY <2>1, <2>2, <2>7 DEF TypeOK
    <3>2. ~Inserting(k) /\ ~Inserting(k)'
      BY <2>1, <2>3, <2>4, <2>7 DEF Inserting
    <3>3. ListInv(k)'
      BY <3>1, <3>2 DEF RoomInv, ListInv
    <3>4. FilledInv(k)'
      BY <2>2, <2>7, <3>1 DEF RoomInv, FilledInv, SlotListed, AddingSlot
    <3> QED BY <2>5, <2>6, <3>3, <3>4 DEF RoomInv
  <2>8. CASE c = k
    <3> DEFINE len == list[k].len  new == InsertStep(xpc, list[k], fresh)
    <3>1. list'[k] = new
      BY <2>1, <2>2, <2>8 DEF TypeOK
    <3>2. /\ DOMAIN new.node = DOMAIN list[k].node /\ Len(new.node) = Len(list[k].node)
          /\ \A b \in DOMAIN list[k].node : new.node[b].data = list[k].node[b].data
          /\ new.freed = list[k].freed
          /\ xpc = "link" => /\ new.first = list[k].first /\ new.len = list[k].len
                             /\ new.node[fresh].next = list[k].first
                             /\ \A b \in DOMAIN list[k].node \ {fresh} : new.node[b] = list[k].node[b]
          /\ xpc = "head" => /\ new.first = fresh /\ new.len = list[k].len + 1
                             /\ new.node = list[k].node
      BY <2>1, <2>8, InsertStepIsList
    <3>3. Inserting(k) /\ fresh = len + 1 /\ len \in Nat /\ DOMAIN list[k].node = 1..len + 1
          /\ Len(list[k].node) = len + 1 /\ list[k].first = len /\ list[k].freed = {}
      <4>1. list[k].node \in Seq(NodesOf(k)) /\ len \in Nat
        BY DEF TypeOK, IsList, NodesOf
      <4>2. Inserting(k)
        BY <2>1, <2>8 DEF Inserting
      <4>3. Len(list[k].node) = len + 1 /\ fresh = Len(list[k].node) /\ list[k].first = len
            /\ list[k].freed = {}
        BY <4>2 DEF RoomInv, ListInv
      <4>4. DOMAIN list[k].node = 1..Len(list[k].node)
        BY <4>1, LenProperties
      <4> QED BY <4>1, <4>2, <4>3, <4>4
    <3>4. /\ list[k].node[fresh].data.slot = xslot
          /\ xpc = "head" => list[k].node[fresh].next = len
          /\ \A a \in 1..len : list[k].node[a].next = a - 1
          /\ \A a \in 1..len + 1 : list[k].node[a].data.slot \in SlotsOf(k, list[k].node[a].data.id)
          /\ \A a, b \in 1..len + 1 : list[k].node[a].data.slot = list[k].node[b].data.slot => a = b
      BY <3>3 DEF RoomInv, ListInv
    <3> HIDE DEF new, len
    <3>5. /\ \A a \in 1..len + 1 : new.node[a].data = list[k].node[a].data
          /\ \A a \in DOMAIN new.node : new.node[a].data.slot \in SlotsOf(k, new.node[a].data.id)
          /\ \A a, b \in DOMAIN new.node : new.node[a].data.slot = new.node[b].data.slot => a = b
      BY <3>2, <3>3, <3>4
    <3>6. CASE xpc = "link"
      <4>1. Inserting(k)' /\ xpc' = "head" /\ fresh' = fresh
        BY <2>3, <2>8, <3>6 DEF Inserting
      <4>2. /\ new.first = len /\ new.len = len /\ Len(new.node) = len + 1 /\ new.freed = {}
            /\ new.node[fresh].next = len
            /\ \A a \in 1..len : new.node[a].next = a - 1
        <5>1. /\ new.first = len /\ new.len = len /\ Len(new.node) = len + 1 /\ new.freed = {}
              /\ new.node[fresh].next = len
          BY <3>2, <3>3, <3>6 DEF len
        <5>2. ASSUME NEW a \in 1..len PROVE new.node[a].next = a - 1
          <6>1. a \in DOMAIN list[k].node \ {fresh}
            BY <3>3
          <6>2. new.node[a] = list[k].node[a]
            BY <3>2, <3>6, <6>1
          <6> QED BY <3>4, <6>2
        <5> QED BY <5>1, <5>2
      <4>3. new.node[fresh].data.slot = xslot
        BY <3>3, <3>4, <3>5
      <4>4. ListInv(k)'
        <5>1. /\ list'[k].freed = {} /\ list'[k].first = list'[k].len
              /\ Len(list'[k].node) = list'[k].len + 1
          BY <3>1, <4>2
        <5>2. /\ fresh' = Len(list'[k].node) /\ list'[k].node[fresh'].data.slot = xslot'
              /\ list'[k].node[fresh'].next = list'[k].len
          BY <2>2, <3>1, <3>3, <4>1, <4>2, <4>3
        <5>3. \A a \in 1..list'[k].len : list'[k].node[a].next = a - 1
          BY <3>1, <4>2
        <5> QED BY <3>1, <3>5, <4>1, <5>1, <5>2, <5>3 DEF ListInv
      <4>5. FilledInv(k)'
        <5>1. ASSUME NEW s \in Slots, map[k][s] # NoVal
              PROVE  SlotListed(k, s)' \/ AddingSlot(k, s)'
          <6>1. CASE SlotListed(k, s)
            <7>1. PICK a \in 1..len : list[k].node[a].data.slot = s
              BY <6>1 DEF SlotListed, len
            <7>2. a \in 1..len + 1
              BY <3>3, <7>1
            <7> QED BY <3>1, <3>5, <4>2, <7>1, <7>2 DEF SlotListed
          <6>2. CASE AddingSlot(k, s)
            BY <2>2, <2>3, <3>6, <6>2 DEF AddingSlot
          <6> QED BY <5>1, <6>1, <6>2 DEF RoomInv, FilledInv
        <5> QED BY <2>2, <5>1 DEF FilledInv
      <4> QED BY <2>5, <2>6, <4>4, <4>5 DEF RoomInv
    <3>7. CASE xpc = "head"
      <4>1. ~Inserting(k)'
        BY <2>4, <3>7 DEF Inserting
      <4>2. /\ new.first = len + 1 /\ new.len = len + 1 /\ Len(new.node) = len + 1 /\ new.freed = {}
            /\ new.node = list[k].node
        BY <3>2, <3>3, <3>7 DEF len
      <4>3. \A a \in 1..len + 1 : new.node[a].next = a - 1
        BY <3>3, <3>4, <3>7, <4>2
      <4>4. ListInv(k)'
        <5>1. /\ list'[k].freed = {} /\ list'[k].first = list'[k].len
              /\ Len(list'[k].node) = list'[k].len
          BY <3>1, <4>2
        <5>2. \A a \in 1..list'[k].len : list'[k].node[a].next = a - 1
          BY <3>1, <4>2, <4>3
        <5> QED BY <3>1, <3>3, <3>5, <4>1, <5>1, <5>2 DEF ListInv
      <4>5. FilledInv(k)'
        <5>1. ASSUME NEW s \in Slots, map[k][s] # NoVal PROVE SlotListed(k, s)'
          <6>1. CASE SlotListed(k, s)
            <7>1. PICK a \in 1..len : list[k].node[a].data.slot = s
              BY <6>1 DEF SlotListed, len
            <7>2. a \in 1..len + 1
              BY <3>3, <7>1
            <7> QED BY <3>1, <4>2, <7>1, <7>2 DEF SlotListed
          <6>2. CASE AddingSlot(k, s)
            <7>1. fresh \in 1..len + 1 /\ list[k].node[fresh].data.slot = s
              BY <3>3, <3>4, <6>2 DEF AddingSlot
            <7> QED BY <3>1, <4>2, <7>1 DEF SlotListed
          <6> QED BY <5>1, <6>1, <6>2 DEF RoomInv, FilledInv
        <5> QED BY <2>2, <5>1 DEF FilledInv
      <4> QED BY <2>5, <2>6, <4>4, <4>5 DEF RoomInv
    <3> QED BY <2>1, <3>6, <3>7
  <2> QED BY <2>7, <2>8
<1>11. Periodic \/ UNCHANGED vars => UNCHANGED <<map, list, xvars, latest>>
  BY DEF Periodic, PeriodicStart, PeriodicNextList, PeriodicGet, PeriodicSend, vars
<1> QED BY <1>0, <1>1, <1>2, <1>3, <1>4, <1>5, <1>6, <1>7, <1>8, <1>9, <1>10, <1>11 DEF Next, Exporter

------------------------------------------------------------------------------
(* The walk of such a list *)

IsWalk(ls, n, f) ==
  f = [k \in 1..n |-> IF k = 1 THEN ls.first
                      ELSE IF f[k - 1] = NoNode \/ f[k - 1] \in ls.freed THEN NoNode
                      ELSE ls.node[f[k - 1]].next]

\* From the newest node to the first, and then NULL.
LEMMA WalkOfWhole ==
  ASSUME TypeOK, NEW k \in KindSet, ListInv(k), NEW n \in Nat \ {0}
  PROVE  NodeAt(list[k], n) = IF n <= list[k].len THEN list[k].len + 1 - n ELSE NoNode
<1>0. list[k].len \in Nat
  BY DEF TypeOK, IsList
<1> DEFINE ls == list[k]  len == list[k].len
           at(m) == IF m <= len THEN len + 1 - m ELSE NoNode
           g == [m \in 1..n |-> at(m)]
           w == CHOOSE f : IsWalk(ls, n, f)
<1>1. len \in Nat /\ n \in Nat /\ n >= 1
  <2> HIDE DEF w, g, at
  <2> QED BY <1>0
<1>2. ls.first = len /\ ls.freed = {} /\ \A a \in 1..len : ls.node[a].next = a - 1
  BY <1>1 DEF ListInv
<1>3. NodeAt(ls, n) = w[n]
  BY DEF NodeAt, IsWalk
<1> HIDE DEF ls, len
<1>4. IsWalk(ls, n, g)
  <2>1. ASSUME NEW m \in 1..n
        PROVE  g[m] = IF m = 1 THEN ls.first
                      ELSE IF g[m - 1] = NoNode \/ g[m - 1] \in ls.freed THEN NoNode
                      ELSE ls.node[g[m - 1]].next
    <3>1. CASE m = 1
      BY <1>1, <1>2, <3>1 DEF NoNode
    <3>2. CASE m # 1 /\ m - 1 <= len
      <4>1. g[m - 1] = len + 2 - m /\ len + 2 - m \in 1..len /\ g[m] = len + 1 - m
        BY <1>1, <3>2 DEF NoNode
      <4> HIDE DEF g
      <4>2. ls.node[g[m - 1]].next = len + 1 - m
        BY <1>1, <1>2, <4>1
      <4> QED BY <1>2, <3>2, <4>1, <4>2 DEF NoNode
    <3>3. CASE m # 1 /\ ~(m - 1 <= len)
      BY <1>1, <3>3
    <3> QED BY <3>1, <3>2, <3>3
  <2>2. g = [m \in 1..n |-> g[m]]
    OBVIOUS
  <2> HIDE DEF g
  <2> QED BY <2>1, <2>2, Zenon DEF IsWalk
<1>5. IsWalk(ls, n, w)
  <2> HIDE DEF g
  <2> QED BY <1>4
<1> HIDE DEF w
<1>6. \A m \in 1..n : w[m] = IF m = 1 THEN ls.first
                             ELSE IF w[m - 1] = NoNode \/ w[m - 1] \in ls.freed THEN NoNode
                             ELSE ls.node[w[m - 1]].next
  BY <1>5 DEF IsWalk
<1> DEFINE S == {m \in Nat : m + 1 <= n => w[m + 1] = at(m + 1)}
<1>7. 0 \in S
  BY <1>1, <1>2, <1>6 DEF NoNode
<1>8. ASSUME NEW m \in Nat, m \in S PROVE m + 1 \in S
  <2> SUFFICES ASSUME m + 2 <= n PROVE w[m + 2] = at(m + 2)
    OBVIOUS
  <2>1. w[m + 1] = at(m + 1) /\ m + 2 \in 1..n /\ (m + 2) - 1 = m + 1 /\ m + 2 # 1
    BY <1>1, <1>8
  <2>2. w[m + 2] = IF w[m + 1] = NoNode \/ w[m + 1] \in ls.freed THEN NoNode
                   ELSE ls.node[w[m + 1]].next
    BY <1>6, <2>1
  <2>3. CASE m + 1 <= len
    <3>1. w[m + 1] = len - m /\ len - m \in 1..len
      BY <1>1, <2>1, <2>3
    <3>2. ls.node[w[m + 1]].next = len - m - 1 /\ w[m + 1] # NoNode /\ w[m + 1] \notin ls.freed
      BY <1>1, <1>2, <3>1 DEF NoNode
    <3> QED BY <1>1, <2>2, <2>3, <3>2 DEF NoNode
  <2>4. CASE ~(m + 1 <= len)
    BY <1>1, <2>1, <2>2, <2>4
  <2> QED BY <2>3, <2>4
<1>9. \A m \in Nat : m \in S
  <2> HIDE DEF S
  <2> QED BY <1>7, <1>8, NaturalsBySteps
<1>10. w[n] = at(n)
  <2>1. n - 1 \in Nat /\ (n - 1) + 1 = n
    BY <1>1
  <2>2. n - 1 \in S
    BY <1>9, <2>1
  <2> QED BY <1>1, <2>1, <2>2
<1> QED BY <1>3, <1>10 DEF ls, len

LEMMA ReachedOfWhole ==
  ASSUME TypeOK, NEW k \in KindSet, ListInv(k)
  PROVE  Reached(list[k]) = 1..list[k].len
<1> DEFINE len == list[k].len  all == Len(list[k].node)
<1>1. len \in Nat /\ all \in Nat /\ all >= len
  <2>1. list[k].node \in Seq(NodesOf(k)) /\ len \in Nat
    BY DEF TypeOK, IsList, NodesOf
  <2>2. all \in Nat
    BY <2>1, LenProperties
  <2> QED BY <2>1, <2>2 DEF ListInv
<1>2. \A n \in Nat \ {0} : NodeAt(list[k], n) = IF n <= len THEN len + 1 - n ELSE NoNode
  BY WalkOfWhole
<1>3. Reached(list[k]) = {NodeAt(list[k], n) : n \in 1..(all + 1)} \ {NoNode}
  BY DEF Reached
<1> HIDE DEF len, all
<1>4. ASSUME NEW a \in 1..len PROVE a \in Reached(list[k])
  <2>1. /\ len + 1 - a \in 1..(all + 1) /\ len + 1 - a \in Nat \ {0} /\ len + 1 - a <= len
        /\ len + 1 - (len + 1 - a) = a /\ a # NoNode
    BY <1>1 DEF NoNode
  <2> QED BY <1>2, <1>3, <2>1
<1>5. ASSUME NEW a \in Reached(list[k]) PROVE a \in 1..len
  <2>1. PICK n \in 1..(all + 1) : a = NodeAt(list[k], n) /\ a # NoNode
    BY <1>3
  <2>2. n \in Nat \ {0}
    BY <1>1, <2>1
  <2> QED BY <1>1, <1>2, <2>1, <2>2 DEF NoNode
<1> QED BY <1>4, <1>5 DEF len

LEMMA RoomyListsAreWhole ==
  ASSUME TypeOK, NEW k \in KindSet, RoomInv(k)
  PROVE  ListIsWhole(k) /\ ReportedIsListed(k)
<1> DEFINE len == list[k].len
<1>1. len \in Nat /\ ListInv(k)
  BY DEF TypeOK, IsList, RoomInv
<1>2. Walk(k) = [n \in 1..len + 1 |-> len + 1 - n]
  <2>1. ASSUME NEW n \in 1..len + 1 PROVE NodeAt(list[k], n) = len + 1 - n
    BY <1>1, WalkOfWhole DEF NoNode
  <2> QED BY <2>1 DEF Walk
<1>3. ListIsWhole(k)
  BY <1>1, <1>2 DEF ListIsWhole, ListInv
<1>4. Reached(list[k]) = 1..len
  BY <1>1, ReachedOfWhole
<1>5. ASSUME NEW i \in Ids[k], Alone(k, i), latest[k][i] # NoVal
      PROVE  Adding(k, i) \/ NodesWith(k, i) # {}
  <2>1. PICK s \in SlotsOf(k, i) : map[k][s] # NoVal
    BY <1>5 DEF RoomInv, LatestInv
  <2>2. s \in Slots
    BY StoreAssumption DEF StoreAssumption
  <2>3. CASE SlotListed(k, s)
    <3>1. PICK a \in 1..len : list[k].node[a].data.slot = s
      BY <2>3 DEF SlotListed
    <3>2. a \in DOMAIN list[k].node
      <4>1. list[k].node \in Seq(NodesOf(k))
        BY DEF TypeOK, IsList, NodesOf
      <4>2. DOMAIN list[k].node = 1..Len(list[k].node) /\ Len(list[k].node) \in Nat
        BY <4>1, LenProperties
      <4>3. Len(list[k].node) >= len
        BY <1>1 DEF ListInv
      <4> QED BY <1>1, <4>2, <4>3
    <3>3. list[k].node[a].data.id \in Ids[k] /\ s \in SlotsOf(k, list[k].node[a].data.id)
      BY <1>1, <3>1, <3>2, NodeIsNode DEF ListInv
    <3>4. list[k].node[a].data.id = i
      BY <1>5, <2>1, <3>3 DEF Alone
    <3> QED BY <1>4, <3>1, <3>4 DEF NodesWith
  <2>4. CASE AddingSlot(k, s)
    <3>1. xpc # "pop" /\ xpc # "get" /\ Current.kind = k /\ xslot = s
      BY <2>4 DEF AddingSlot
    <3>2. Current.id \in Ids[k] /\ s \in SlotsOf(k, Current.id)
      BY <3>1, CurrentIsItem DEF RoomInv, BranchInv
    <3>3. Current.id = i
      BY <1>5, <2>1, <3>2 DEF Alone
    <3> QED BY <2>4, <3>3 DEF AddingSlot, Adding
  <2> QED BY <2>1, <2>2, <2>3, <2>4 DEF RoomInv, FilledInv
<1> QED BY <1>3, <1>5 DEF ReportedIsListed

------------------------------------------------------------------------------
(* Theorems *)

\* Every variable of the two exporters keeps its type: in particular no pointer
\* of a list leaves its heap, and the walk of periodic_exporter no list.
THEOREM StoreTypes == Spec => []TypeOK
<1> QED BY TypeInit, TypeStep, PTL DEF Spec

THEOREM StoreValues == Spec => []ValueInv
<1> QED BY ValueInit, ValueStep, StoreTypes, PTL DEF Spec

\* Every id of a list has a value in its slot, whatever ids collide and whatever
\* nodes are removed: periodic_exporter never finds a "wrong key".
THEOREM NoWrongKey == Spec => []ListedIdsHaveValues
<1>1. ValueInv => ListedIdsHaveValues
  BY DEF ValueInv
<1> QED BY <1>1, StoreValues, PTL

\* Take a kind whose ids, with all the paddings their structs can have, hash to no
\* more slots than its list holds.  Whatever slots they have and share, the list is
\* a walk from the newest node to the first at every moment, with each slot once,
\* and has every id that was reported and shares no slot; whatever happens to the
\* other kinds.
THEOREM KnownIdsAreKept ==
  ASSUME NEW k \in KindSet, RoomForSlots(k)
  PROVE  Spec => [](ListIsWhole(k) /\ ReportedIsListed(k))
<1>1. Init => RoomInv(k)
  BY RoomInit DEF RoomSafe
<1>2. TypeOK /\ ValueInv /\ RoomInv(k) /\ [Next]_vars => RoomInv(k)'
  BY RoomStep
<1>3. TypeOK /\ RoomInv(k) => ListIsWhole(k) /\ ReportedIsListed(k)
  BY RoomyListsAreWhole
<1> QED BY <1>1, <1>2, <1>3, StoreTypes, StoreValues, PTL DEF Spec

THEOREM RoomyStore == Spec => []RoomSafe
<1>1. TypeOK /\ ValueInv /\ RoomSafe /\ [Next]_vars => RoomSafe'
  BY RoomStep DEF RoomSafe
<1> QED BY <1>1, RoomInit, StoreTypes, StoreValues, PTL DEF Spec

\* If that is so for every kind, all the lists are whole ...
THEOREM WholeLists ==
  ASSUME \A k \in KindSet : RoomForSlots(k)
  PROVE  Spec => []ListsAreWhole
<1>1. TypeOK /\ RoomSafe => ListsAreWhole
  BY RoomyListsAreWhole DEF RoomSafe, ListsAreWhole
<1> QED BY <1>1, StoreTypes, RoomyStore, PTL

\* ... and no id that was reported and shares no slot is ever forgotten.
THEOREM NothingForgotten ==
  ASSUME \A k \in KindSet : RoomForSlots(k)
  PROVE  Spec => []ReportedIdsAreListed
<1>1. TypeOK /\ RoomSafe => ReportedIdsAreListed
  BY RoomyListsAreWhole DEF RoomSafe, ReportedIdsAreListed
<1> QED BY <1>1, StoreTypes, RoomyStore, PTL
==============================================================================
