---------------------------- MODULE XdpCollector ----------------------------
(***************************************************************************)
(* The XDP collector: the program in the kernel that reads every report    *)
(* (report_collector_xdp/xdp_report_collector.c) and one of the three user *)
(* programs it sends events to (xdp_collector_exporter.py for Prometheus,  *)
(* xdp_collector_influxdb.py, xdp_collector_graphite.py).                  *)
(*                                                                         *)
(* The kernel program keeps the last value it signalled of every flow,     *)
(* switch, link and queue in four tables, and submits an event when a      *)
(* value differs from the table's by more than a threshold.  Reports are   *)
(* handled one after the other, on whatever CPU the sender runs on; each   *)
(* CPU has a ring of its own, which the user program empties.              *)
(*                                                                         *)
(* The shipped instruction mask 0xFC is assumed: a hop is six words.       *)
(* A kernel pass is one action although the user program may read a table  *)
(* in the middle of it: no property relates two reads of one event.        *)
(* Addresses, labels and the time of a point are left out.                 *)
(***************************************************************************)
EXTENDS Integers, SequencesExt

CONSTANTS
  Exporters,       \* the user programs topo.py may start
  Cpus,            \* CPUs the kernel program may run on
  RingSize,        \* events a ring holds
  MaxIntHop,       \* MAX_INT_HOP
  Threshold,       \* Threshold[k]: exporter.py 10-13
  Reports,         \* the reports that may arrive
  MaxReports,      \* bound: reports that arrive
  MaxFaults        \* bound: evictions, failed writes and interrupts

Programs == {"prometheus", "influxdb", "graphite"}
Kinds == {"flow", "switch", "link", "queue"}
HopSize == 6

\* v1model has no queue ids, and 19 bits of queue length.
QueueLengths == 524288

ASSUME XdpAssumption ==
  /\ Exporters \subseteq Programs
  /\ RingSize \in Nat \ {0} /\ MaxIntHop \in Nat \ {0}
  /\ MaxReports \in Nat /\ MaxFaults \in Nat
  /\ \A k \in Kinds : Threshold[k] \in Nat
  /\ Threshold["queue"] > 0
  \* The words after the INT header, read as hops: the last one may be cut.
  \* No route visits a switch twice: every metric of a report has one value.
  /\ \A r \in Reports :
       /\ r.hops \in Seq(ToSet(r.hops)) \ {<<>>} /\ r.last \in 1..HopSize
       /\ \A i, j \in DOMAIN r.hops : r.hops[i].switch = r.hops[j].switch => i = j
       /\ \A h \in ToSet(r.hops) :
            /\ h.latency \in Nat /\ h.ingress \in Nat /\ h.egress \in Nat
            /\ h.qid = 0 /\ h.occupancy \in Nat /\ h.occupancy < QueueLengths

VARIABLES
  exporter,   \* the user program that was started
  pc,         \* its control point
  table,      \* table[k][i]: [val, pass] of the ids in the table of kind k;
              \*   `pass`, the report that put it there, is history
  ring,       \* ring[c]: events of CPU c the user program has not yet read
  todo,       \* metrics of the current event that are not yet exported
  event,      \* the event being handled
  shown,      \* shown[k][i]: [val, pass] last written to the database or gauge
  faults,
  last,       \* history: last[k][i]: the last value reported
  changed,    \* history: changed[k][i]: the last report that changed the table
  passes,     \* history: reports received so far
  spoilt,     \* history: reports whose event was lost, cut short or not made
  order       \* history: the events in the order they were handled in

kernelvars == <<table, last, changed, passes>>
uservars == <<pc, todo, event, shown, order>>
vars == <<exporter, kernelvars, ring, uservars, faults, spoilt>>

------------------------------------------------------------------------------
(* What the kernel program reads *)

Distance(a, b) == IF a > b THEN a - b ELSE b - a

(* The word with both ports and the word with queue id and occupancy are      *)
(* loaded by a little-endian machine and taken apart before their bytes are   *)
(* swapped: the ports change places, and the id is the occupancy's low byte.  *)
IngressPortId(h) == h.out
EgressPortId(h) == h.in

QueueId(h) == h.occupancy % 256
QueueOccupancy(h) ==
  h.qid * 16777216 + ((h.occupancy \div 65536) + ((h.occupancy \div 256) % 256)) * 65536

LinkId(newer, older) ==
  [egress_switch |-> older.switch, egress_port |-> EgressPortId(older),
   ingress_switch |-> newer.switch, ingress_port |-> IngressPortId(newer)]

Metric(k, i, v) == [kind |-> k, id |-> i, val |-> v]

SwitchOf(h) == Metric("switch", h.switch, h.latency)
QueueOf(h) == Metric("queue", [switch_id |-> h.switch, q_id |-> QueueId(h)], QueueOccupancy(h))
LinkOf(newer, older) ==
  Metric("link", LinkId(newer, older), Distance(newer.ingress, older.egress))

(* The hops the loop gets to; the words of the last one may end early. *)
HopsRead(r) == SubSeq(r.hops, 1, IF Len(r.hops) < MaxIntHop THEN Len(r.hops) ELSE MaxIntHop)

WordsOf(r, i) == IF i = Len(r.hops) THEN r.last ELSE HopSize

ReadToTheEnd(r) == Len(r.hops) > MaxIntHop \/ r.last = HopSize

FlowLatency(r) ==
  LET sum[i \in 0..Len(HopsRead(r))] == IF i = 0 THEN 0 ELSE sum[i - 1] + r.hops[i].latency
  IN sum[Len(HopsRead(r))]

FlowOf(r) == Metric("flow", r.flow, FlowLatency(r))

Reaches(r, word) == {i \in DOMAIN HopsRead(r) : WordsOf(r, i) >= word}

(* What is compared with the tables.  The order is of no account: all metrics *)
(* of a report are different entries.                                         *)
Measured ==
  [r \in Reports |->
     {SwitchOf(r.hops[i]) : i \in Reaches(r, 3)}
       \cup {QueueOf(r.hops[i]) : i \in Reaches(r, 4)}
       \cup {LinkOf(r.hops[i - 1], r.hops[i]) : i \in Reaches(r, HopSize) \ {1}}
       \cup (IF ReadToTheEnd(r) THEN {FlowOf(r)} ELSE {})]

\* Fault: a value that fell is not compared.
ExceedsUpwards(k, a, b) ==
  IF k = "queue" THEN a - b >= Threshold[k] ELSE a - b > Threshold[k]

Exceeds(k, a, b) ==
  IF k = "queue" THEN Distance(a, b) >= Threshold[k] ELSE Distance(a, b) > Threshold[k]

Differs(t, m) == m.id \in DOMAIN t[m.kind] => Exceeds(m.kind, m.val, t[m.kind][m.id].val)

(* The entries of ms, each under its kind and id. *)
Put(t, ms) ==
  [k \in Kinds |->
     LET of(i) == {m \in ms : m.kind = k /\ m.id = i} IN
     [i \in DOMAIN t[k] \cup {m.id : m \in {x \in ms : x.kind = k}} |->
        IF of(i) = {} THEN t[k][i] ELSE (CHOOSE m \in of(i) : TRUE).val]]

Stamped(ms, n) == {Metric(m.kind, m.id, [val |-> m.val, pass |-> n]) : m \in ms}

------------------------------------------------------------------------------
(* The metrics a handler makes of an event, in its order. *)

Events == [pass : Nat, flags : SUBSET Kinds, report : Reports]

Event(n, flags, r) == [pass |-> n, flags |-> flags, report |-> r]

NoEvent == [pass |-> 0]

EachSwitch(r) == [i \in DOMAIN HopsRead(r) |-> SwitchOf(r.hops[i])]

EachQueue(r) == [i \in DOMAIN HopsRead(r) |-> QueueOf(r.hops[i])]

EachLink(r) ==
  [i \in 1..(Len(HopsRead(r)) - 1) |-> LinkOf(r.hops[i], r.hops[i + 1])]

Metrics(e) ==
  (IF "flow" \in e.flags THEN <<FlowOf(e.report)>> ELSE <<>>)
    \o (IF "switch" \in e.flags THEN EachSwitch(e.report) ELSE <<>>)
    \o (IF "queue" \in e.flags THEN EachQueue(e.report) ELSE <<>>)
    \o (IF "link" \in e.flags THEN EachLink(e.report) ELSE <<>>)

(* The Prometheus program reads flows and links from the tables. *)
FromTable(k) == exporter = "prometheus" /\ k \in {"flow", "link"}

------------------------------------------------------------------------------
None == [i \in {} |-> 0]

Init ==
  /\ exporter \in Exporters
  /\ pc = "loaded"
  /\ table = [k \in Kinds |-> None] /\ shown = table /\ last = table /\ changed = table
  /\ ring = [c \in Cpus |-> <<>>]
  /\ todo = <<>> /\ event = NoEvent /\ order = <<>>
  /\ faults = 0 /\ passes = 0 /\ spoilt = {}

Attached == pc \in {"attached", "polling", "handling"}
Opened == pc \in {"polling", "handling"}

\* Fault: links are left out of the condition.
SignalsNoLinks(flags) == flags \ {"link"} # {}

Signals(flags) == flags # {}

\* Fault: the ring takes one event more than it holds.
HasRoomForOneMore(c) == Opened /\ Len(ring[c]) <= RingSize

HasRoom(c) == Opened /\ Len(ring[c]) < RingSize

(* A report reaches the interface and the kernel program runs on CPU c.       *)
(* `return XDP_DROP` in the middle of a hop leaves the updates made so far    *)
(* and makes no event; perf_submit fails when the ring is full or not open.   *)
Receive(c) ==
  /\ Attached /\ passes < MaxReports
  /\ passes' = passes + 1
  /\ \E r \in Reports :
       LET changes == {m \in Measured[r] : Differs(table, m)}
           flags == {m.kind : m \in changes}
           sent == ReadToTheEnd(r) /\ Signals(flags) /\ HasRoom(c)
           lost == flags # {} /\ (~ReadToTheEnd(r) \/ (Signals(flags) /\ ~HasRoom(c)))
       IN /\ table' = Put(table, Stamped(changes, passes'))
          /\ changed' = Put(changed, {Metric(m.kind, m.id, passes') : m \in changes})
          /\ last' = Put(last, Measured[r])
          /\ ring' = IF sent THEN [ring EXCEPT ![c] = Append(@, Event(passes', flags, r))]
                             ELSE ring
          /\ spoilt' = IF lost THEN spoilt \cup {passes'} ELSE spoilt
  /\ UNCHANGED <<exporter, uservars, faults>>

Fault == faults < MaxFaults /\ faults' = faults + 1

(* The tables are LRU tables: an entry may go to make room for another one. *)
Evict ==
  /\ Fault
  /\ \E k \in Kinds : \E i \in DOMAIN table[k] :
       table' = [table EXCEPT ![k] = [j \in DOMAIN @ \ {i} |-> @[j]]]
  /\ UNCHANGED <<exporter, ring, uservars, last, changed, passes, spoilt>>

------------------------------------------------------------------------------
(* The user program *)

Goto(from, to) ==
  /\ pc = from /\ pc' = to
  /\ UNCHANGED <<exporter, kernelvars, ring, todo, event, shown, order, faults, spoilt>>

Attach == Goto("loaded", "attached")

OpenEvents == Goto("attached", "polling")

\* Fault: an event is read only when another one follows it.
ReadableWithTwo(c) == Len(ring[c]) > 1

Readable(c) == ring[c] # <<>>

(* perf_buffer_poll calls the handler for the next event of a CPU's ring. *)
Poll(c) ==
  /\ pc = "polling" /\ Readable(c)
  /\ pc' = "handling"
  /\ event' = Head(ring[c])
  /\ ring' = [ring EXCEPT ![c] = Tail(@)]
  /\ todo' = Metrics(event')
  /\ order' = Append(order, event'.pass)
  /\ UNCHANGED <<exporter, kernelvars, shown, faults, spoilt>>

Return == pc' = "polling" /\ todo' = <<>> /\ event' = NoEvent

(* Whatever ends the handler early is swallowed by ctypes, which called it:   *)
(* the rest of the event is lost and polling goes on.                         *)
Abort == Return /\ spoilt' = spoilt \cup {event.pass} /\ UNCHANGED shown

(* set_flow_latency, set_switch_latency, set_queue_occupancy, set_link_latency *)
SetGauge ==
  /\ pc = "handling" /\ exporter = "prometheus" /\ todo # <<>>
  /\ LET m == Head(todo)
         v == IF FromTable(m.kind) THEN table[m.kind][m.id] ELSE [val |-> m.val, pass |-> event.pass]
     IN IF FromTable(m.kind) /\ m.id \notin DOMAIN table[m.kind]
          THEN Abort
          ELSE /\ shown' = Put(shown, {Metric(m.kind, m.id, v)})
               /\ todo' = Tail(todo)
               /\ UNCHANGED <<pc, event, spoilt>>
  /\ UNCHANGED <<exporter, kernelvars, ring, order, faults>>

GaugesSet ==
  /\ pc = "handling" /\ exporter = "prometheus" /\ todo = <<>>
  /\ Return
  /\ UNCHANGED <<exporter, kernelvars, ring, shown, order, faults, spoilt>>

WriteAll ==
  /\ Return
  /\ shown' = Put(shown, Stamped(ToSet(todo), event.pass))
  /\ UNCHANGED spoilt

(* One write_points with all points of the event; its exception is not caught. *)
InfluxWrite ==
  /\ pc = "handling" /\ exporter = "influxdb"
  /\ \/ WriteAll /\ UNCHANGED faults
     \/ Fault /\ Abort
  /\ UNCHANGED <<exporter, kernelvars, ring, order>>

(* One message on a connection of its own; graphite_send prints exceptions. *)
GraphiteSend ==
  /\ pc = "handling" /\ exporter = "graphite"
  /\ \/ WriteAll /\ UNCHANGED faults
     \/ Fault /\ Abort
  /\ UNCHANGED <<exporter, kernelvars, ring, order>>

(* Ctrl-C while polling leaves the loop, inside the handler it is swallowed. *)
Interrupt ==
  /\ Fault
  /\ \/ pc = "polling" /\ pc' = "detaching" /\ UNCHANGED <<todo, event, shown, spoilt>>
     \/ pc = "handling" /\ Abort
  /\ UNCHANGED <<exporter, kernelvars, ring, order>>

DetachAll == Goto("detaching", "stopped")

User ==
  \/ Attach \/ OpenEvents \/ DetachAll
  \/ \E c \in Cpus : Poll(c)
  \/ SetGauge \/ GaugesSet \/ InfluxWrite \/ GraphiteSend

Next ==
  \/ \E c \in Cpus : Receive(c)
  \/ Evict
  \/ User
  \/ Interrupt

Spec == Init /\ [][Next]_vars /\ WF_vars(User)

------------------------------------------------------------------------------
(* Properties *)

(* Type invariant; in particular no ring holds more events than fit. *)
TypeOK ==
  /\ exporter \in Exporters
  /\ pc \in {"loaded", "attached", "polling", "handling", "detaching", "stopped"}
  /\ \A c \in Cpus : ring[c] \in Seq(Events) /\ Len(ring[c]) <= RingSize
  /\ event \in Events \cup {NoEvent}
  /\ spoilt \subseteq 1..passes
  /\ faults \in 0..MaxFaults
  /\ \A k \in Kinds :
       /\ DOMAIN table[k] \subseteq DOMAIN changed[k]
       /\ DOMAIN shown[k] \subseteq DOMAIN last[k]
       /\ DOMAIN changed[k] = DOMAIN last[k]

ChangedIds == UNION {{<<k, i>> : i \in DOMAIN changed[k]} : k \in Kinds}

UpToDate(k, i) == i \in DOMAIN shown[k] /\ shown[k][i].pass >= changed[k][i]

Slack(k) == IF k = "queue" THEN Threshold[k] - 1 ELSE Threshold[k]

(* The two thresholds do not add up without limit (xdp_report_collector.c:    *)
(* 272, 300, 337, 379; exporter.py:84, 96): once the event of the last change *)
(* of a metric, or of a later report, was handled, what is shown differs from *)
(* the last value reported by at most the threshold if it was read from the   *)
(* table, and by at most twice the threshold if it came with the event, which *)
(* brings the values of hops that did not change, too.                        *)
ShownIsClose ==
  \A x \in ChangedIds :
    LET k == x[1]  i == x[2] IN
    UpToDate(k, i) =>
      Distance(shown[k][i].val, last[k][i]) <= (IF FromTable(k) THEN Slack(k) ELSE 2 * Slack(k))

AtRest == pc = "polling" /\ \A c \in Cpus : ring[c] = <<>>

(* Events handled after the event of a later report. *)
Overtaken == {order[i] : i \in {j \in DOMAIN order : \E m \in j + 1..Len(order) : order[m] < order[j]}}

(* No change is forgotten (xdp_report_collector.c:390-395): when every event  *)
(* was handled, a metric is out of date only if something happened to the     *)
(* event of its last change: the report ended inside a hop, the ring was full *)
(* or not yet open, the handler was cut short, or, unless the handler reads   *)
(* the table, an event of another CPU's ring overtook it.                     *)
StaleOnlyWithCause ==
  AtRest =>
    \A x \in ChangedIds :
      UpToDate(x[1], x[2]) \/ changed[x[1]][x[2]] \in
                                 spoilt \cup (IF FromTable(x[1]) THEN {} ELSE Overtaken)

(* Every event in a ring is handled, or the program was stopped: a handler    *)
(* cut short does not end the polling.                                        *)
EventsAreHandled == \A c \in Cpus : ring[c] # <<>> ~> (ring[c] = <<>> \/ pc = "stopped")

(* A hop is read as xdp_report_collector.c:228-238 lays it out: 16 bits of    *)
(* ingress port before 16 bits of egress port, 8 bits of queue id before 24   *)
(* bits of occupancy.                                                         *)
HopsAreReadAsLaidOut ==
  \A c \in Cpus : \A e \in {ring[c][j] : j \in DOMAIN ring[c]} :
    \A h \in {e.report.hops[j] : j \in DOMAIN HopsRead(e.report)} :
      /\ IngressPortId(h) = h.in /\ EgressPortId(h) = h.out
      /\ QueueId(h) = h.qid /\ QueueOccupancy(h) = h.occupancy
==============================================================================
