# Verification of int-p4

In-band Network Telemetry (INT) in a network of P4 software switches, and
collectors that turn telemetry reports into time series.  This directory holds
TLA+ modules translated from the code, TLC configurations that check them on
small instances, and theorems proved with TLAPS.

Paths are relative to the repository; `C/` stands for
`int.p4app/report_collector_c/src/`, `P4/` for `int.p4app/p4src/` and `X/` for
`int.p4app/report_collector_xdp/`.

## The system

| part | state | operations | what is hard |
|---|---|---|---|
| P4 data plane (`P4/*.p4`, `commands1..4.txt`, `topo.txt`) | headers of each packet, per-packet metadata, one report counter per switch, port queues | ingress (forward, insert INT, mark sink, clone), egress (push hop metadata, make report, strip INT) | three length fields changed in several switches, hop and MTU limits, the clone that takes its own way, reports lost in queues |
| C collector: queues (`C/dequeue.c`) | linked list, mutex, semaphore | init, push, pop, free | post after unlock, stale `last`, interrupted waits |
| C collector: threads (`C/main.c`) | `terminate`, two queues, four threads | receive loop, signal handler, shutdown | signals in any thread, joins against blocked threads, frees |
| C collector: parser (`C/parser.c`) | none of its own | pop, validate, decode, push | rejects in the middle, byte layout |
| C collector: exporters (`C/exporter.c`, `hash_map.c`, `list.c`) | four maps, four lists of ids | update per report, periodic walk over the lists | lists and values shared without locks, colliding and padded keys, evictions, failed sends |
| senders (`C/graphite.c`, `influxdb.c`) | none | send one value | may fail, no retry |
| XDP collector, kernel (`X/xdp_report_collector.c`) | four LRU tables, one event ring per CPU | one pass per packet | return in the middle after tables were changed, lost events, words taken apart before their bytes are swapped |
| XDP collector, user (`X/xdp_collector_*.py`) | gauges or a client | attach, open the rings, poll, one handler per event, detach | tables read after the event, evicted keys, rings read out of order, handlers cut short |
| Python collector (`report_rx.py`) | flow table, gauges, a flag | receive loop, signal handler, HTTP threads that read gauges | the flag is seen only after the next report, scrapes in the middle of a report, changed routes, masks |
| circular buffer (`C/circ_buffer.c`) | ring, mutex | write, read | dead code, included nowhere |
| deployment and tools (`topo.py`, `start.sh`, `p4app`, `docker-compose.yml`, dashboards, `send*.py`, ...) | none | start processes, send packets | - |

A host's packet of a tracked flow gets INT headers at the first switch, hop
metadata at every switch, and is cloned at the last one.  The clone, wrapped in
a report, travels through the network to h3, where one of the collectors
receives it.  In the C collector `main` pushes it to the parser's queue, the
parser pushes a `flow_info` to the exporter's queue, the exporter updates the
maps and sends changes, and the periodic exporter sends all known values every
20 seconds (one second with InfluxDB).

What makes each part correct: the data plane is invisible to hosts, and its
headers tell the truth about the packet and its route; a queue delivers each
element once, in order, and wakes someone for it; the collector loses no report
and always shuts down; the maps, lists and the database agree on every known id;
what the XDP collector shows stays close to what was reported, or the event that
would have said so is known to be lost; the gauges of the Python collector are
those of the newest report.

## Modules

| module | models | checked by | proved in |
|---|---|---|---|
| `FifoQueue` | operations of an abstract FIFO with a counting semaphore: what a `dequeue` promises | (in `collector`, `queue`) | |
| `QueueSpec` | those operations as a specification, with the data handed out in order | (as property of `queue`) | |
| `Dequeue` | `C/dequeue.c`, one action per access to shared memory | `queue` | `DequeueProofs` |
| `Collector` | the four threads of the C collector, composed of two `FifoQueue`s | `collector` | `CollectorProofs` |
| `IdList` | `C/list.c` as operators on a list and its heap | through `MetricStore` | |
| `MetricStore` | both exporters over maps and lists | `store`, `store_shared`, one violation run | `MetricStoreProofs` |
| `DataPlane` | the P4 program in a network of switches | `dataplane`, `dataplane_line`, one violation run | `DataPlaneProofs` |
| `XdpCollector` | the XDP program in the kernel, its tables and rings, and the three user programs | `xdp`, one violation run | `XdpCollectorProofs` |
| `ReportWire` | a report on the wire, which the parsers take apart | (in `report_parser`, `report_rx`) | |
| `ReportParser` | `C/parser.c`: a datagram into a `flow_info` hop by hop, and the metrics `C/exporter.c` makes of it | `report_parser` | `ReportParserProofs` |
| `ReportRx` | `report_rx.py`: decoding, flow table, gauges one by one, the signal flag | `report_rx` | `ReportRxProofs` |

`SharedLemmas` holds what the proofs share: induction over numbers and
sequences, what the library's folds compute, and where `ReportWire` puts each
word of a report.  `MC*` modules define the constants of the runs.  Definitions whose comment
starts with "Fault" are not part of the models: each is a plausible mistake in
the code that one of the properties rules out.

### How they correspond to the code

*Dequeue.*  `cells` are the malloc'ed `dequeue_el`s by order of linking,
`first`, `last`, `mutex` and `sem` the fields of `dequeue`, `pc` the statement a
thread is at.  A push is lock, link (`last->next` or nothing), head (only if the
list was empty), tail with unlock, post; a pop is wait, lock, take, unlock, or
an interrupted wait.  `Wake` is the post of `main` at shutdown.  `Contents` is
the refinement mapping: the data reachable from `first`.  Popped cells are never
freed by the code, so a stale `last` points at valid memory.

*Collector.*  `mpc`, `ppc`, `xpc`, `tpc` are the control points of the threads,
`pq`/`psem` and `eq`/`esem` the queues.  A signal sets `terminate` and runs in
any thread that is alive; if that thread is in a blocking call the call returns
early, but the handler may also run in the gap before the call, which then
blocks.  Both are in `Interrupt`.  `dequeue_free` with a backlog reads an
uninitialised pointer: its outcome is the state "undefined".  An empty datagram is
received and goes no further (`MainRecvNothing`).

*MetricStore.*  The exporter goes through the metrics of a report one by one;
get, send and store are separate actions because the periodic exporter runs
between them.  So are the stores of `list_insert`, which takes no lock: room is
made and a node allocated (`ExporterAlloc`), the node is linked to the old head,
and the head is set (`ExporterInsert`), so that a walk can be anywhere in between.
A map is an array of slots without keys, as in the code (`hash_map_get` compares
none).  `SlotsOf` gives the slots an id may hash to: several where the key has
uninitialised padding, which `malloc` leaves to chance for `flow_id` and `queue_id`
(`C/exporter.c:50, 184`).  Slots start empty, although `C/hash_map.c:21` does not
zero the table: tables of these sizes come from fresh pages.  The periodic exporter
reads the four heads in one step.

*DataPlane.*  `Ingress(s)` and `Egress(s, p)` are one pass of one packet through
the program; between them are the port queues of the software switch, after them
the cables.  A frame is a record of the headers the properties tell apart.  A
stack of hops is newest first, as the deparser writes it.  The clone of a sink
carries the frame as received, with cleared metadata but its ingress port, and
its last hop names the mirror port as egress port, since the clone really
leaves there.  `path` is the route walked, kept as history.  `Cabling` turns a
list of links into the ports of the switches as `topo.py` and Mininet do, and
the networks of both runs are given as such lists.

*XdpCollector.*  `Receive(c)` is one run of the kernel program for one report on
CPU `c`: `Measured` is the set of table updates of a report up to the word where
the report ends, and `Put` applies them with their thresholds.  A set is enough:
no route visits a switch twice, so a report updates each entry at most once.
A report is given as the words after the INT header read as hops, of which the
last may be cut; that is what TCP options look like to the program.  The ports
and the queue of a hop are decoded as the shifts and swaps do on a little-endian
machine.  `exporter` is the program `topo.py` started.  `SetGauge` is one
`set_...` of the Prometheus program, which reads flows and links from the
tables; `InfluxWrite` and `GraphiteSend` write all metrics of an event at once
or fail.  `Abort` is what ctypes does with an exception in a callback.  History:
`last` (reported values), `changed` (the report that last changed an entry), the
report a shown value comes from, `spoilt` and `order`.

*ReportWire.*  `Wire` builds the words of a report, pairs of 16 bits, from what the
switches wrote (`HopData` lays out one hop), for any instruction mask, transport
protocol and TCP options.  The length of a hop (`hop_ml`) is a field of its own,
since a receiver believes it whatever the mask says.

*ReportParser.*  `packet`, `info`, `hop` and `cursor` are the locals of
`report_parser`; `Drop` stands for its four early `continue`s, one `ReadHop` is
one turn of the loop.  Fields `malloc` leaves unset are `Unset`.  `Metrics` are
the ids and values `report_exporter` looks up, kind by kind, which `MetricStore`
takes as given.

*ReportRx.*  `accepted[taken + 1 ..]` is the content of the socket's buffer.
`Parsed` and `FromReport` take a report apart as `Report`, `HopMetadata` and `FlowInfo` do; one
`SetGauge` is one turn of the export loop, so that every state in between is one
a scrape of the HTTP server can see.

## Runs

`tlc -config <cfg> <module>`.  Deadlock checking is off everywhere: the inputs
are bounded and every system may stop when they are used up.

| run | what it shows |
|---|---|
| `queue` | two producers, two consumers, three pushes and a shutdown post: order, exactly once, no lost wake-up, token balance, refinement of `QueueSpec`; every element pushed is popped |
| `collector` | two packets of any class, the empty datagram included, two signals to any thread: reports keep their order and are in one place, no pop of an empty queue before shutdown, joins and frees never block; shutdown ends, a signal takes effect with the next packet at the latest, reports are exported |
| `store` | two reports of one and two hops, one failing send, a flow and a queue with two hash slots each: lists are whole at every statement of an insertion and under concurrent walks, every reported id stays listed; when reports stop the database ends with the latest value of each id that has one slot |
| `store_shared` | colliding and padded keys, lists filled to the limit: a listed id always has a value |
| `dataplane` | shipped topology and tables, three packets of five kinds, queues of one packet: transparency, one report per tracked packet, sequence numbers find losses |
| `dataplane_line` | chain of four switches, two hops allowed, one smaller MTU: lengths, stack, flags and route agree; every packet and report leaves the network |
| `list_eviction` (violation) | the node removed from a full list stays linked |
| `report_layout` (violation) | a report of a TCP packet with options goes on after the INT data |
| `xdp` | two CPUs, rings of one event, three reports, each of the three programs, one eviction, failed write or interrupt: what is shown is within one or two thresholds of what was reported once the event of the last change was handled, and is out of date only if that very event was spoilt or overtaken; events are handled |
| `hop_layout` (violation) | the kernel program exchanges the ports of a hop and takes its queue occupancy for the queue id |
| `report_parser` | UDP and TCP reports of no, one and two hops, three masks, options shorter and longer than a hop, cut and foreign datagrams, hops said to be longer than their words: the parser stays inside its arrays and the datagram; the metrics exported are those the switches wrote, whatever else is in the report |
| `report_rx` | three reports of two flows with a route change, UDP and TCP with options, three masks, signals: every gauge is of the newest report of its flow that names its switch, in every state; a signal ends the collector with the next report; reports are exported unless a signal, or a report that names no switches, ended the collector first |

### Bounds

* Queue: the code's branches depend on an empty list, a list of one and a longer
  one; three elements give all of them, with two threads on each side so that
  each token can be taken by the wrong thread.  The proofs lift the bound.
* Collector: two packets can be reordered, be left in a queue at shutdown and be
  held by two threads; two signals give one that is handled in time and one
  during the shutdown.  (Three packets were checked for the invariants alone.)
* Store: two reports make an id known and then change or keep its value, three
  over colliding keys fill a list to its limit; values lie on both sides of
  each threshold.  In run `store` the flow of both reports and one queue have two
  slots, so that the second report may find its key new; in `store_shared` padding
  also makes two flows share a slot.
* Data plane: three packets meet in a queue of one with a clone between them.
  On the line packets do not share state, so two are enough, and the line is two
  switches longer than its hop limit.  Sizes are chosen around the 1400 byte MTU
  of hosts (`topo.py:170`) and the 1500 and 1430 of switches.
* XDP: three reports let a value drift by two steps below the threshold and
  change; two CPUs let one event overtake another, a ring of one makes
  perf_submit fail; one fault (`MaxFaults`) at any moment.  `MAX_INT_HOP` is 2,
  so that options after the last hop are both read (one hop) and ignored (two).
* C parser: `MAX_INT_HOP` is 2, so that options make a hop that fits (one hop) and
  one too many (two); reports of no hops, and one of thirteen that is cut to the
  buffer; three datagrams, though none depends on the one before.
* Python collector: three reports of two flows, so that a flow changes its route
  with another flow in between; a buffer of two.

### Fairness

Threads are scheduled by the kernel and switch pipelines by bmv2, so each has
weak fairness.  Nothing is assumed of the network, of hosts, of signals or of
callers of push.  The user programs of the XDP collector and the receiver of the
Python collector are one thread each, which is assumed to run; a write to a
database is assumed to return, if with an error.  Consumers of a queue are assumed to call pop again, as
the parser's and the exporter's loops do.

## Proofs

`DequeueProofs` holds, for every set of threads, data and bound:

* `TypeCorrect`, `ExactlyOnceInOrder`, `StaleLastIsHarmless`, `TokensBalance`,
  `NullMeansShutdown`, `WakeupsAreNotLost`: the invariants of run `queue`;
* `DequeueImplementsFifo`: `Spec => Abstract!Spec`.

The argument: the invariants of the list alone are not inductive, because
between linking a cell and setting `first` the list looks empty.  The inductive
invariant `ListInv` says who holds the mutex at which statement, which cell a
producer is about to publish, and that `first` is 0 or the cell after the last
one taken.  `TokenBalance` is inductive with the types: each action moves a
token from one summand to another; its steps need the cardinality lemmas for a
thread entering or leaving `Entitled` and `Unposted`.  The refinement follows
action by action: linking into a non-empty list and publishing `first` are
`Put`, the post is `Post`, the wait is `Wait`, taking a cell is `Serve`, the
rest stutters.

The assumptions are those on the constants in `Dequeue`: producers and consumers
are disjoint, finite sets, `NoData` is not an element.

`CollectorProofs`, for any number of packets and signals and any choice of the
threads a signal runs in: `CollectorTypes`, `ReportsAreKeptInOrder`,
`NullEndsTheCollector`, `JoinsEnd`, `FreeEnds`, the invariants of run
`collector`.  The semaphores alone say nothing, since a consumer holds a token
between `sem_wait` and the read, and a producer owes one between the push and the
post.  `TokenInv` counts those in (`ParserTokens`, `ExporterTokens`): equal to the
length of the queue before a signal, at least that later, and more than that from
the shutdown's post until the consumer has left its loop.  That difference is why
a join cannot block.  The order of reports is one equation, exported \o in hand \o
queued \o ... = received, of which every step moves one element across one
boundary.

`MetricStoreProofs`, for any ids, hash slots, thresholds, reports and list length:
`StoreTypes` (no pointer of a list leaves its heap, with evictions) and
`NoWrongKey`.  What eviction and colliding slots destroy cannot be proved in
general, as runs `list_eviction` and `store_shared` show, so `KnownIdsAreKept`,
`WholeLists` and `NothingForgotten` have one hypothesis, `RoomForSlots`, kind by
kind: the slots that the ids in use may hash to, with every padding and whether
shared or not, are at most `MaxLen + 1`.  (The lists hold 10000, 100, 100 and 1000
ids and the maps have 1000000, 10000, 10000 and 100000 slots, so this speaks of the
ids that occur.)  An id is listed when its slot is found empty, and a slot is
filled before its id is listed, so the nodes of a list belong to different slots
(`WholeLists`: one node per slot, not per id): an injection from nodes to slots
bounds the list, and nothing is evicted.  `NothingForgotten` says nothing of an id
that shares a slot with another one: the first of the two is listed, and its value
hides that the other is not.  A kind that meets the hypothesis is safe whatever the
others do.  Run `store` meets it with padded flows and queues.

`DataPlaneProofs`, for any network, tables, instructions and hop limit that
`DataPlane` assumes: `FramesAreGoodAlways` and from it `HeaderTypes`,
`HostsSeeNoInt`, `LengthsAgree`, `ShimCountsStack`, `StacksTellRoutes`,
`HopsFitMtu`.  The properties speak of frames somewhere in the network, and none
is inductive, because a frame's next shape depends on where it is.  `FrameInv`
gives each place (before ingress, between the pipelines, at a host) the set of
frames that may be there; the lemmas take int_source, a hop, a flag, int_sink and
make_report one at a time from one set to another.  Assumed is what
`commands*.txt` and `topo.txt` provide: a host's port leads to that host, mirror
ports lead to the collector, sources are ports of hosts, a tracked flow ends at a
sink; further that packets leave room for the headers in 16-bit lengths, are not
marked with the INT DSCP, and that the hops fit the 64 words of `int_data`.
`MCDataPlane` meets all of them, which TLC evaluates in both runs.

The second part of the module, from `FrameInv` and the same assumptions: `CopiesAlways`,
`ReportsAreOnePerPacket`, `OrderAlways`, `SequenceNumbersFindLosses`, the two
invariants of run `dataplane` that count frames instead of describing one.  All
queues are put into one function (`Queues`), so that every action is the same two
moves: the head of one queue is taken and a packet is passed to another, or
dropped.  `CopyInv` says that packets and copies are nowhere twice (`Distinct`,
after which the cardinality in `OneReportEach` is a matter of keys) and that a copy
exists exactly if the packet is tracked and past its sink (`LifeOK`).
`OrderInv` says that the reports of a switch are on one route (`RouteOK`; the route
may visit a switch again, so a report's place is told by the switches it passed,
`Stage`, and not by the switch it is at) and that of two of them the lower number is
further on or ahead in the same queue (`InOrder`).  A report leaves its place
only from the head of its queue and enters the next at the end, which keeps that;
from a host there is no further step (`HostIsLast`), so that the queue of the
collector itself is in order.

`ReportParserProofs`, for any datagrams and numbers of hops: `ParserTypes` and
`MetricsTellReports`.  The parser finds a word by adding up the words before it,
with no look at the shim; `WordIs` says that this is where the deparser put it, for
any mask (`SharedLemmas` has the layout).  The count of hops is a division by the
size of a hop.  `HopsAreThere` says that a datagram that is not dropped has all the
words of that many hops.  `ParserTypes` needs for this that a datagram that is not
dropped has hops at least as long as the words its mask asks for
(`HopsHoldTheirWords`); otherwise it may be foreign, cut or malformed.  The code
checks neither: `C/parser.c:64` divides by `hop_ml`, and lines 80-117 read by the
mask.  Of hops that are too short nothing is said: the parser then reads past the
end of the datagram.
`MetricsTellReports` assumes more (`OnlyReports`): what is not dropped is a report as a
sink sends it, with the `hop_ml` of its mask, whole or its first `BUFFER_SIZE` = 512 bytes (`C/main.c:163-164`),
and `MAX_INT_HOP` is at most 6 (`C/parser.h:57`).  Then a cut report is always
dropped, since 430 bytes of INT data are at least 11 hops, and the 8-bit counter
does not wrap (`HopsAreCounted`).  The invariant of the loop, `InfoTells`, says
that the hops up to the cursor are in the `flow_info`, with the links between them
and the sum of their latencies; `DataInv` carries it through the queue to what is
exported.  Run `report_parser` meets `OnlyReports`, with cut reports.

`ReportRxProofs`, for all reports, routes, the 255 masks of instructions, both
protocols and any TCP options: `CollectorTypes`, `SignalEndsIt`,
`GaugesTellReports`.  The first half is the decoding: `FlowInfoIs` says that taking
the words of `Wire` apart gives back what the switches wrote, by induction over
the instructions of a hop and over the hops of a report.  The second half is the
loop: each report has written all its gauges when the next one is taken, and in
between a gauge is of the current report exactly if the export has passed it.
Assumed are a queue occupancy of 24 bits, as the switch has it, that switch
ids are known when the mask asks for them, and that `hop_ml` counts the words of
the mask.

`XdpCollectorProofs`, for any thresholds, reports, CPUs and ring size, each of the
programs and any faults: `XdpCollectorTypes`, `ShownStaysClose`,
`NoChangeIsForgotten`.  A value below the threshold changes no table, so small
steps might add up; `TrackInv` says they do not: for each metric there is a value
`t`, the one the table took last (even if the entry was evicted since), and all
that was reported or made an event after it is within the threshold of `t`.
`FateInv` follows the report that last changed an entry: it is shown, or its event
is in a ring, in hand, lost, or overtaken by an older event of another ring.
Assumed are a queue occupancy of at most 19 bits, the width v1model gives it, and
that no route visits a switch twice.

The inductive invariants of `Collector`, `MetricStore`, `DataPlane`, `ReportRx` and
`XdpCollector` were checked by TLC on the runs' instances before they were proved.
Inductions are made over sets of numbers or of sequences instead of predicates, in
`SharedLemmas`, so that functions defined by recursion over numbers and the
library's folds are within reach.

What TLC checks only: liveness, which needs fairness and is out of the prover's
reach (`EveryPushIsPopped`, `ShutdownEnds`, `SignalEndsWithNextPacket`,
`ReportsAreExported`, `DatabaseCatchesUp`, `EventsAreHandled`, `PacketsLeave`).  Every safety property of a passing run is a
theorem; `ListsAreWhole` and `ReportedIdsAreListed` under `RoomForSlots`, the types of
the parser under `HopsHoldTheirWords`, `MetricsAreTrue` under `OnlyReports`.

## Disagreements found

Three have a run that shows a violation.

1. `C/list.c:15`, run `list_eviction`: "remove last el" frees a node that stays
   linked.
2. `P4/int_report.p4:33`, run `report_layout`: TCP options end up behind the INT
   data in a report.  The XDP program reads them as another hop: with fewer than
   `MAX_INT_HOP` hops such a report usually ends inside it, is dropped, and the
   tables keep values nobody was told of (in run `xdp`, `WithOptions`).  The
   Python collector goes by the shim and is not affected.
3. `X/xdp_report_collector.c:249, 285`, run `hop_layout`: shifts before byte swaps
   exchange the ports of a hop and turn the queue occupancy into the queue id.

The passing runs contain three more, as the code has them.

4. `C/exporter.c:58`: the code announces the new value and sends the old one.
   The periodic exporter repairs the database later (`DatabaseCatchesUp`), but only
   for ids with one hash slot.  Without that condition TLC refutes the property in
   run `store`: a flow or queue whose padding changed has two slots and two nodes,
   and the value in the slot that is no longer used is sent again for ever.
5. `C/exporter.c:135-138`: hops are newest first, so the ingress port of hop i + 1
   and the egress port of hop i face away from the link between them, whose
   latency the parser measures at the other two ports (`parser.c:120-121`).
   `MetricsAreTrue` states the outer ports.  The XDP program names the right ends
   (`xdp_report_collector.c:325-328`), but has exchanged the ports of each hop
   before.
6. `C/parser.c:99-100`: the queue's id is the low byte of its occupancy
   (`QueueId`, `QueueOccup` in `ReportParser`).

Also seen while modelling, without a run: `C/exporter.c:50` hashes the
uninitialised padding of a `flow_id` and line 184 that of a `queue_id`, so a known
flow or queue may be announced and listed as new (`OwnSlots` in run `store`,
`PaddedSlots` in `store_shared`); `parser.c:65-69` leaks a `flow_info`
(the model records it in `leaked`); instruction bits 6 and 7 would count words
that are never added (`P4/int_transit.p4:64-72`; the shipped mask does not use
them); `C/exporter.c:140` hashes `sizeof` of a pointer, which is the ingress half
of a link's id and enough while each port has one cable;
`X/xdp_collector_influxdb.py:126` and `xdp_collector_graphite.py:116` tag a
changed flow with integer addresses and a new one with dotted ones, so that a
flow has two series; `xdp_collector_influxdb.py:145, 159` gives points the 32-bit
clock of the switch as time, a date in 1970; `xdp_collector_exporter.py:79`
passes its labels in another order than line 66 declares them; `report_rx.py`
never forgets a gauge, a flow or a switch off the route.

## Not modelled

The exporter's use of a report whose mask lacks an instruction (it exports memory
nobody wrote, `Unset`; the shipped mask has all it uses), checksums, labels, tags and
times of points, the text of messages to the databases, libcurl, bcc and
prometheus_client beyond what is said above, the software switch beyond its
queues, dashboards and debugging tools (`send*.py`, `receive.py`, `nc.py`,
`int_sniffer.py`).  Of `topo.py`, only the cabling and the choice of the
exporter: the rest runs commands once and keeps no state.  A host packet with
DSCP 0x17 would be parsed as INT; the model assumes there is none.  Datagrams with a
hop length of 0, or of less than the words of the mask, are not among the inputs:
the C parser divides by zero or reads what is not there.  Nor are reports too
short for their headers among those of the Python collector, which they end with an
exception, as a report without switch ids does (that one is modelled).  The 32-bit
clocks and the 32-bit sequence numbers of reports do not wrap.
Ctrl-C between attaching the XDP program and the polling loop is not modelled.

## Plan

1. Composition of `DataPlane` with the collectors: gaps in sequence numbers and
   what the collectors make of them (none reads them today).
