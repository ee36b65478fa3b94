----------------------------- MODULE MetricStore -----------------------------
(***************************************************************************)
(* What the C collector knows and exports (report_collector_c/src/         *)
(* exporter.c, hash_map.c, list.c, main.c 90-123): for each kind of metric *)
(* a hash map from ids to the latest value and a list of the known ids,    *)
(* shared by report_exporter, which updates them report by report, and     *)
(* periodic_exporter, which sends every known value to the database.       *)
(*                                                                         *)
(* The maps are locked call by call; the lists and the values are read by  *)
(* periodic_exporter without a lock.  A map entry points to a value cell   *)
(* that is never freed nor written again, so holding the pointer is        *)
(* holding the value.  The build has no -O flag (Makefile): list_insert's  *)
(* stores reach the other thread in program order, and the walk may come   *)
(* between them.  The maps start empty: hash_map_init does not clear them, *)
(* but tables of their sizes are pages fresh from the kernel, all zero.    *)
(***************************************************************************)
EXTENDS Integers, Sequences, FiniteSets, IdList

CONSTANTS
  Ids,             \* ids[k]: the ids of kind k
  Slots,           \* indexes of a hash map
  SlotsOf(_, _),   \* the slots an id of a kind can hash to: more than one when
                   \* its struct has padding bytes, which malloc leaves unset
  Threshold,       \* Threshold[k]: exporter.h 4-6
  Reports,         \* the reports the parser can hand over
  MaxReports,      \* bound: reports handed over
  MaxFailures      \* bound: sends that fail (graphite.c 24-39, influxdb.c 17)

\* The order in which both exporters go through the kinds.
Kinds == <<"flow", "switch", "link", "queue">>
KindSet == {"flow", "switch", "link", "queue"}

NoVal == -1

Measured(k) == [id : Ids[k], val : Nat]

ASSUME StoreAssumption ==
  /\ MaxReports \in Nat /\ MaxFailures \in Nat /\ MaxLen \in Nat
  /\ \A k \in KindSet : Threshold[k] \in Nat
  /\ Slots # {}
  /\ \A r \in Reports :
       /\ r.flow \in Measured("flow") /\ r.switches \in Seq(Measured("switch"))
       /\ r.links \in Seq(Measured("link")) /\ r.queues \in Seq(Measured("queue"))
  /\ \A k \in KindSet : \A i \in Ids[k] : SlotsOf(k, i) \subseteq Slots /\ SlotsOf(k, i) # {}

VARIABLES
  map,       \* map[k][s]: value in slot s of the map of kind k, NoVal if empty
  list,      \* list[k]: the list of known ids of kind k
  xpc,       \* report_exporter: control point
  items,     \* the metrics of the report it has yet to handle, the first is current
  xslot,     \* the slot the current id hashes to
  old,       \* the value hash_map_get returned
  fresh,     \* list_insert's new node, NoNode outside of it
  tpc,       \* periodic_exporter: control point
  cursor,    \* cursor[k]: fid, sid, lid, qid
  turn,      \* index in Kinds of the list being walked
  found,     \* the value hash_map_get returned
  db,        \* db[k][i]: the last value of the metric written to the database
  broken,    \* a NULL or freed node was dereferenced
  reports, failures,
  latest     \* history: latest[k][i]: the last value reported for the id

xvars == <<xpc, items, xslot, old, fresh>>
tvars == <<tpc, cursor, turn, found>>
vars == <<map, list, xvars, tvars, db, broken, reports, failures, latest>>

(* The metrics of a report in the order report_exporter handles them: the    *)
(* flow, each hop's switch, each pair of neighbours, each hop's queue.       *)
Metrics(r) ==
  LET of(k, s) == [i \in DOMAIN s |-> [kind |-> k, id |-> s[i].id, val |-> s[i].val]]
  IN of("flow", <<r.flow>>) \o of("switch", r.switches) \o of("link", r.links)
       \o of("queue", r.queues)

Init ==
  /\ map = [k \in KindSet |-> [s \in Slots |-> NoVal]]
  /\ list = [k \in KindSet |-> NewList]
  /\ xpc = "pop" /\ items = <<>> /\ xslot = (CHOOSE s \in Slots : TRUE) /\ old = NoVal
  /\ fresh = NoNode
  /\ tpc = "sleep" /\ cursor = [k \in KindSet |-> NoNode] /\ turn = 1 /\ found = NoVal
  /\ db = [k \in KindSet |-> [i \in Ids[k] |-> NoVal]]
  /\ broken = FALSE /\ reports = 0 /\ failures = 0
  /\ latest = [k \in KindSet |-> [i \in Ids[k] |-> NoVal]]

Distance(a, b) == IF a > b THEN a - b ELSE b - a       \* util.h ABS

\* graphite_send_* and influxdb_send_*: a point for the id, or a lost one.
Send(k, i, v) ==
  \/ db' = [db EXCEPT ![k][i] = v] /\ failures' = failures
  \/ failures < MaxFailures /\ failures' = failures + 1 /\ db' = db

------------------------------------------------------------------------------
(* report_exporter: each metric of a report *)

Current == Head(items)

NextItem == /\ items' = Tail(items)
            /\ xpc' = IF Tail(items) = <<>> THEN "pop" ELSE "get"

ExporterPop ==
  /\ ~broken /\ xpc = "pop" /\ reports < MaxReports
  /\ reports' = reports + 1
  /\ \E r \in Reports : items' = Metrics(r)
  /\ xpc' = "get"
  /\ UNCHANGED <<map, list, xslot, old, fresh, tvars, db, broken, failures, latest>>

\* malloc of the id, hash_map_get, and the choice of the branch.
ExporterGet ==
  /\ ~broken /\ xpc = "get"
  /\ xslot' \in SlotsOf(Current.kind, Current.id)
  /\ old' = map[Current.kind][xslot']
  /\ xpc' = IF old' = NoVal THEN "add"
            ELSE IF Distance(old', Current.val) > Threshold[Current.kind] THEN "send_change"
            ELSE "replace"
  /\ UNCHANGED <<map, list, items, fresh, tvars, db, broken, reports, failures, latest>>

\* The value sent is the one the map still holds, not the new one.
ExporterSendChange ==
  /\ ~broken /\ xpc = "send_change"
  /\ Send(Current.kind, Current.id, old)
  /\ xpc' = "replace"
  /\ UNCHANGED <<map, list, items, xslot, old, fresh, tvars, broken, reports, latest>>

\* Fault: a value is stored only when it is sent.
StoreIfSent ==
  map' = IF old # NoVal /\ Distance(old, Current.val) <= Threshold[Current.kind]
         THEN map ELSE [map EXCEPT ![Current.kind][xslot] = Current.val]

\* hash_map_insert_or_replace
Store == map' = [map EXCEPT ![Current.kind][xslot] = Current.val]

ExporterReplace ==
  /\ ~broken /\ xpc = "replace"
  /\ Store
  /\ latest' = [latest EXCEPT ![Current.kind][Current.id] = Current.val]
  /\ NextItem
  /\ UNCHANGED <<list, xslot, old, fresh, tvars, db, broken, reports, failures>>

\* Fault: a new id is listed before its value is stored.
ExporterAddsNoValue ==
  /\ ~broken /\ xpc = "add"
  /\ latest' = [latest EXCEPT ![Current.kind][Current.id] = Current.val]
  /\ xpc' = "send_new"
  /\ UNCHANGED <<map, list, items, xslot, old, fresh, tvars, db, broken, reports, failures>>

ExporterAdd ==
  /\ ~broken /\ xpc = "add"
  /\ Store
  /\ latest' = [latest EXCEPT ![Current.kind][Current.id] = Current.val]
  /\ xpc' = "send_new"
  /\ UNCHANGED <<list, items, xslot, old, fresh, tvars, db, broken, reports, failures>>

\* Fault: an id whose first value cannot be sent is not listed.
ExporterGivesUp ==
  /\ ~broken /\ xpc = "send_new"
  /\ Send(Current.kind, Current.id, Current.val)
  /\ IF failures' = failures THEN xpc' = "list" /\ items' = items ELSE NextItem
  /\ UNCHANGED <<map, list, xslot, old, fresh, tvars, broken, reports, latest>>

ExporterSendNew ==
  /\ ~broken /\ xpc = "send_new"
  /\ Send(Current.kind, Current.id, Current.val)
  /\ xpc' = "list"
  /\ UNCHANGED <<map, list, items, xslot, old, fresh, tvars, broken, reports, latest>>

\* list_insert: the full list loses its last node, and malloc gives a new one.
ExporterAlloc ==
  /\ ~broken /\ xpc = "list"
  /\ LET k == Current.kind  ls == Evicted(list[k])
     IN IF InsertCrashes(list[k])
        THEN broken' = TRUE /\ UNCHANGED <<list, fresh, xpc>>
        ELSE /\ fresh' \in Addresses(ls)
             /\ list' = [list EXCEPT ![k] =
                            Allocated(ls, [id |-> Current.id, slot |-> xslot], fresh')]
             /\ xpc' = IF ls.len = 0 THEN "head" ELSE "link"
             /\ broken' = broken
  /\ UNCHANGED <<map, items, xslot, old, tvars, db, reports, failures, latest>>

\* list_insert: the new node is linked, then it becomes the head.
ExporterInsert ==
  /\ ~broken /\ xpc \in {"link", "head"}
  /\ list' = [list EXCEPT ![Current.kind] = InsertStep(xpc, @, fresh)]
  /\ IF xpc = "link" THEN xpc' = "head" /\ UNCHANGED <<items, fresh>>
                     ELSE NextItem /\ fresh' = NoNode
  /\ UNCHANGED <<map, xslot, old, tvars, db, broken, reports, failures, latest>>

Exporter == \/ ExporterGet \/ ExporterSendChange \/ ExporterReplace \/ ExporterAdd
            \/ ExporterSendNew \/ ExporterAlloc \/ ExporterInsert

------------------------------------------------------------------------------
(* periodic_exporter *)

\* After the sleep: the heads of the four lists, read without a lock.  They are
\* read one after the other, here at once: each list is walked by itself.
PeriodicStart ==
  /\ ~broken /\ tpc = "sleep"
  /\ cursor' = [k \in KindSet |-> list[k].first]
  /\ turn' = 1
  /\ tpc' = "walk"
  /\ UNCHANGED <<map, list, xvars, found, db, broken, reports, failures, latest>>

At == cursor[Kinds[turn]]
Node == list[Kinds[turn]].node[At]
Dangling == At \in list[Kinds[turn]].freed

\* The end of a list: the next one, or back to sleep.
PeriodicNextList ==
  /\ ~broken /\ tpc = "walk" /\ At = NoNode
  /\ IF turn = Len(Kinds) THEN tpc' = "sleep" /\ turn' = 1
                          ELSE tpc' = "walk" /\ turn' = turn + 1
  /\ UNCHANGED <<map, list, xvars, cursor, found, db, broken, reports, failures, latest>>

\* hash_map_get of the node's id; "error wrong key" breaks off this list.
PeriodicGet ==
  /\ ~broken /\ tpc = "walk" /\ At # NoNode
  /\ IF Dangling
     THEN broken' = TRUE /\ UNCHANGED <<tpc, cursor, found>>
     ELSE LET v == map[Kinds[turn]][Node.data.slot]
          IN IF v = NoVal
             THEN cursor' = [cursor EXCEPT ![Kinds[turn]] = NoNode] /\ UNCHANGED <<tpc, found, broken>>
             ELSE tpc' = "send" /\ found' = v /\ UNCHANGED <<cursor, broken>>
  /\ UNCHANGED <<map, list, xvars, turn, db, reports, failures, latest>>

\* The send, then `next`.
PeriodicSend ==
  /\ ~broken /\ tpc = "send"
  /\ IF Dangling
     THEN broken' = TRUE /\ UNCHANGED <<tpc, cursor, db, failures>>
     ELSE /\ Send(Kinds[turn], Node.data.id, found)
          /\ cursor' = [cursor EXCEPT ![Kinds[turn]] = Node.next]
          /\ tpc' = "walk" /\ broken' = broken
  /\ UNCHANGED <<map, list, xvars, turn, found, reports, latest>>

Periodic == PeriodicStart \/ PeriodicNextList \/ PeriodicGet \/ PeriodicSend

------------------------------------------------------------------------------
Next == ExporterPop \/ Exporter \/ Periodic

Spec == Init /\ [][Next]_vars

\* Both threads are scheduled; a report need not come.
FairSpec == Spec /\ WF_vars(Exporter) /\ WF_vars(Periodic)

------------------------------------------------------------------------------
(* Properties *)

Values == Nat \cup {NoVal}

Items ==
  {m \in [kind : KindSet, id : UNION {Ids[k] : k \in KindSet}, val : Nat] : m.id \in Ids[m.kind]}

\* A list whose pointers point to its nodes or are NULL.
IsList(k, ls) ==
  /\ ls \in [first : Nat, last : Nat, len : Nat, freed : SUBSET Nat,
             node : Seq([data : [id : Ids[k], slot : Slots], prev : Nat, next : Nat])]
  /\ ls.freed \subseteq DOMAIN ls.node
  /\ ls.first \in DOMAIN ls.node \cup {NoNode} /\ ls.last \in DOMAIN ls.node \cup {NoNode}
  /\ \A a \in DOMAIN ls.node : /\ ls.node[a].prev \in DOMAIN ls.node \cup {NoNode}
                               /\ ls.node[a].next \in DOMAIN ls.node \cup {NoNode}

\* Every variable keeps its type.
TypeOK ==
  /\ map \in [KindSet -> [Slots -> Values]]
  /\ DOMAIN list = KindSet /\ \A k \in KindSet : IsList(k, list[k])
  /\ xpc \in {"pop", "get", "send_change", "replace", "add", "send_new", "list", "link", "head"}
  /\ items \in Seq(Items) /\ (xpc # "pop" => items # <<>>)
  /\ xslot \in Slots /\ old \in Values /\ found \in Values /\ fresh \in Nat
  /\ xpc \in {"link", "head"} => fresh \in DOMAIN list[Current.kind].node
  /\ tpc \in {"sleep", "walk", "send"} /\ turn \in DOMAIN Kinds
  /\ DOMAIN cursor = KindSet
  /\ \A k \in KindSet : cursor[k] \in DOMAIN list[k].node \cup {NoNode}
  /\ tpc = "send" => At # NoNode
  /\ DOMAIN db = KindSet /\ DOMAIN latest = KindSet
  /\ \A k \in KindSet : db[k] \in [Ids[k] -> Values] /\ latest[k] \in [Ids[k] -> Values]
  /\ broken \in BOOLEAN /\ reports \in 0..MaxReports /\ failures \in 0..MaxFailures

\* periodic_exporter never reads an id that has no value ("error wrong key in
\* ... list", exporter.c 262): the exporter stores before it lists, and nothing
\* empties a slot.
ListedIdsHaveValues ==
  \A k \in KindSet : \A a \in DOMAIN list[k].node :
    map[k][list[k].node[a].data.slot] # NoVal

\* At any moment, a walk from the head of a list meets its nodes from the newest
\* to the oldest and then ends (test_list.c), also while list_insert is between
\* two stores; and no slot is listed twice.  The second half bounds the list by the
\* slots of its ids: an id with padding may be listed once for each slot it hashes
\* to.  Holds as long as no insertion finds the list full.
Walk(k) == [n \in 1..list[k].len + 1 |-> NodeAt(list[k], n)]
ListIsWhole(k) ==
  /\ Walk(k) = [n \in 1..list[k].len + 1 |-> list[k].len + 1 - n]
  /\ \A a, b \in DOMAIN list[k].node :
        list[k].node[a].data.slot = list[k].node[b].data.slot => a = b
ListsAreWhole == \A k \in KindSet : ListIsWhole(k)

\* No slot of the id is one of another id.
Alone(k, i) == \A j \in Ids[k] \ {i} : SlotsOf(k, i) \cap SlotsOf(k, j) = {}

\* The nodes a walk can meet that carry the id.
NodesWith(k, i) == {a \in Reached(list[k]) : list[k].node[a].data.id = i}

\* Every id that has been reported and shares no slot is listed, or is the current
\* one: what was reported once is exported periodically for ever.  An id whose slot
\* another one filled first is taken for a known one and never listed.  Holds as
\* long as no insertion finds the list full.
Adding(k, i) ==
  xpc \in {"send_new", "list", "link", "head"} /\ Current.kind = k /\ Current.id = i
ReportedIsListed(k) ==
  \A i \in Ids[k] :
    Alone(k, i) /\ latest[k][i] # NoVal => Adding(k, i) \/ NodesWith(k, i) # {}
ReportedIdsAreListed == \A k \in KindSet : ReportedIsListed(k)

Idle == xpc = "pop" /\ reports = MaxReports

\* When reports stop coming, what the database has of an id is in the end a value
\* of a slot the id is listed with, and the latest value if the id has one slot
\* only, although report_exporter sends old values, both threads send without
\* agreeing on an order, and sends fail.  A flow or a queue with several slots (its
\* struct has padding that is hashed, exporter.c 50 and 184) may end with an older
\* value, which periodic_exporter repeats; of ids that share a slot nothing is said.
DatabaseCatchesUp ==
  Idle ~> [](\A k \in KindSet : \A i \in Ids[k] :
               Alone(k, i) /\ latest[k][i] # NoVal =>
                 /\ db[k][i] \in {map[k][list[k].node[a].data.slot] : a \in NodesWith(k, i)}
                 /\ Cardinality(SlotsOf(k, i)) = 1 => db[k][i] = latest[k][i])

\* list.c 14 "remove last el": a removed node is not in the list any more.
RemovedNodesAreUnlinked ==
  \A k \in KindSet : list[k].freed \cap Reached(list[k]) = {}
==============================================================================
