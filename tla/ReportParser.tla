---------------------------- MODULE ReportParser ----------------------------
(***************************************************************************)
(* How the C collector reads a report: report_parser takes a datagram from *)
(* its queue apart hop by hop into a flow_info (report_collector_c/src/    *)
(* parser.c), and report_exporter names the flow, switches, links and      *)
(* queues of a flow_info and their values (exporter.c 41-220).  What it    *)
(* then does with a metric is MetricStore's, the threads are Collector's.  *)
(*                                                                         *)
(* A datagram is the first `size` bytes of a report, all of it unless it   *)
(* is longer than the buffer main gives recvfrom (main.c 163-164) or some  *)
(* other program sent it; ReportWire lays the report out.                  *)
(* `malloc` leaves a flow_info unset; reading such a field is reading      *)
(* Unset.  The counter hop_cnt has 8 bits.  Addresses, ports of the flow   *)
(* and the report's time stamp, which stand at fixed places, are left out. *)
(* The parser believes a datagram's hop_ml and its instructions, each by   *)
(* itself (parser.c 64, 80-117).  hop_ml has 5 bits; 0, by which the       *)
(* parser would divide, is left out.                                       *)
(***************************************************************************)
EXTENDS ReportWire

CONSTANTS
  Datagrams,      \* the datagrams that may be received
  BufferSize,     \* BUFFER_SIZE of main.c
  MaxIntHop,      \* MAX_INT_HOP
  MaxDatagrams    \* bound: datagrams received

Unset == -1

(* Bytes in front of the inner transport header: report, Ethernet, IP.        *)
OuterSize == 16 + 14 + 20

MinimalReportSize == 70

FullSize(r) == OuterSize + 4 * Len(Wire(r))

ASSUME ParserAssumption ==
  /\ MaxIntHop \in Nat \ {0} /\ MaxDatagrams \in Nat /\ BufferSize \in Nat
  /\ \A d \in Datagrams :
       /\ d.size \in 1..FullSize(d.report) /\ d.size <= BufferSize
       /\ d.report.mask \in (SUBSET Bits) \ {{}} /\ d.report.hop_ml \in 1..31
       /\ d.report.hops \in Seq([Fields -> Nat]) /\ d.report.options \in Seq(Nat \X Nat)

VARIABLES
  pc,         \* report_parser's control point
  packet,     \* the datagram it holds
  info,       \* the flow_info it fills
  hop,        \* the hop to be read
  cursor,     \* words of the datagram that are read
  queue,      \* exporter_dq: the flow_infos pushed, each with its report
  received,   \* datagrams received
  exported    \* history: the metrics of flow_infos exported, each with its report

vars == <<pc, packet, info, hop, cursor, queue, received, exported>>

------------------------------------------------------------------------------
(* The arrays of a flow_info. *)
ArrayOf ==
  [switch_id |-> "switch_ids", l1_ingress_port_id |-> "ingress_ports",
   l1_egress_port_id |-> "egress_ports", hop_latency |-> "hop_latencies", q_id |-> "queue_ids",
   q_occupancy |-> "queue_occups", ingress_tstamp |-> "ingress_tstamps",
   egress_tstamp |-> "egress_tstamps", egress_port_tx_util |-> "egress_tx_utils"]

Arrays == {ArrayOf[f] : f \in DOMAIN ArrayOf}

NewFlowInfo(hop_cnt) ==
  [hop_cnt |-> hop_cnt, flow_latency |-> 0, link_latencies |-> [i \in 1..MaxIntHop - 1 |-> Unset],
   array |-> [a \in Arrays |-> [i \in 1..MaxIntHop |-> Unset]]]

NoPacket == [size |-> 0]

Words(d) == SubSeq(Wire(d.report), 1, (d.size - OuterSize) \div 4)
NoInfo == NewFlowInfo(0)

Init ==
  /\ pc = "pop" /\ packet = NoPacket /\ info = NoInfo /\ hop = 1 /\ cursor = 0
  /\ queue = <<>> /\ received = 0 /\ exported = {}

Pop ==
  /\ pc = "pop" /\ received < MaxDatagrams
  /\ \E d \in Datagrams : packet' = d
  /\ received' = received + 1
  /\ pc' = "headers"
  /\ UNCHANGED <<info, hop, cursor, queue, exported>>

(* Sizes of the transport headers the parser skips, and the INT headers.      *)
Known(protocol) == protocol \in {"udp", "tcp"}
RemainingSize(d) == d.size - OuterSize - 4 * TransportWords(d.report.protocol)
IntSize == 12

TooSmall(d) == d.size < MinimalReportSize

Header(d, n) == Words(d)[TransportWords(d.report.protocol) + n]
HopMl(d) == Header(d, 2).hop_ml
InsMap(d) == Header(d, 3).ins_map

HopCnt(d) == ((RemainingSize(d) - IntSize) \div (4 * HopMl(d))) % 256

\* Fault: the arrays are taken for one longer.
TooManyHopsByOne(d) == HopCnt(d) > MaxIntHop + 1

TooManyHops(d) == HopCnt(d) > MaxIntHop

(* A datagram that is no report, or has too many hops, is freed; that the     *)
(* latter leaks its flow_info is in Collector.                                *)
Dropped(d) ==
  \/ TooSmall(d) \/ ~Known(d.report.protocol)
  \/ RemainingSize(d) < IntSize \/ TooManyHops(d)

(* Nothing in the parser compares hop_ml with the instructions: of a datagram *)
(* whose hop_ml is too small it would read more than there is.                *)
HopsHoldTheirWords == \A d \in Datagrams : d.report.hop_ml >= WordsPerHop(d.report.mask)

(* What INT sinks send arrives as a whole report, or as its first 512 bytes;  *)
(* whatever else arrives is taken for no report.                              *)
OnlyReports ==
  /\ BufferSize = 512 /\ MaxIntHop <= 6
  /\ \A d \in Datagrams : Dropped(d) \/ d.size \in {FullSize(d.report), BufferSize}

Drop ==
  /\ pc = "headers" /\ Dropped(packet)
  /\ packet' = NoPacket /\ pc' = "pop"
  /\ UNCHANGED <<info, hop, cursor, queue, received, exported>>

ReadHeaders ==
  /\ pc = "headers" /\ ~Dropped(packet)
  /\ cursor' = TransportWords(packet.report.protocol) + 3
  /\ info' = NewFlowInfo(HopCnt(packet))
  /\ hop' = 1 /\ pc' = "hops"
  /\ UNCHANGED <<packet, queue, received, exported>>

------------------------------------------------------------------------------
(* One turn of the loop over the hops. *)

(* How far instructions move the cursor: each by a word, l2_port_ids by two.  *)
Moves(bits) == Cardinality(bits) + (IF L2PortIdsBit \in bits THEN 1 ELSE 0)

Mask == InsMap(packet)

WordFor(b) == Words(packet)[cursor + 1 + Moves({c \in Mask : c < b})]

(* A word as a little-endian machine loads it, lowest byte first; the queue   *)
(* word is taken apart before its bytes are swapped.                          *)
Bytes(w) == <<w[1] \div 256, w[1] % 256, w[2] \div 256, w[2] % 256>>

QueueId(w) == Bytes(w)[4]
QueueOccup(w) == (Bytes(w)[1] * 65536 + Bytes(w)[2] * 256 + Bytes(w)[3]) * 256

Read(f) ==
  LET w == WordFor(BitOf[f]) IN
  CASE f = "l1_ingress_port_id" -> w[1]
    [] f = "l1_egress_port_id"  -> w[2]
    [] f = "q_id"               -> QueueId(w)
    [] f = "q_occupancy"        -> QueueOccup(w)
    [] OTHER                    -> Whole(w)

Distance(a, b) == IF a > b THEN a - b ELSE b - a       \* util.h ABS

(* The link from this hop's switch to the one of the hop before, which is     *)
(* the next on the way: any of 0xCC00 will do, whether or not the time stamps *)
(* were read.                                                                 *)
LinkBits == {SwitchIdBit, L1PortIdsBit, IngressTstampBit, EgressTstampBit}

LinkLatency(in, out) == IF Unset \in {in, out} THEN Unset ELSE Distance(in, out)

\* Fault: the time stamps of the two ends are exchanged.
LinkEndsExchanged(array) ==
  LinkLatency(array["ingress_tstamps"][hop], array["egress_tstamps"][hop - 1])

LinkEnds(array) ==
  LinkLatency(array["ingress_tstamps"][hop - 1], array["egress_tstamps"][hop])

WithHop ==
  LET read == FieldsOf(Mask) \cap DOMAIN ArrayOf
      array == [a \in Arrays |->
                  IF \E f \in read : ArrayOf[f] = a
                    THEN [info.array[a] EXCEPT ![hop] = Read(CHOOSE f \in read : ArrayOf[f] = a)]
                    ELSE info.array[a]]
  IN [info EXCEPT
        !.array = array,
        !.flow_latency = @ + (IF HopLatencyBit \in Mask THEN array["hop_latencies"][hop] ELSE 0),
        !.link_latencies =
           IF hop > 1 /\ Mask \cap LinkBits # {} THEN [@ EXCEPT ![hop - 1] = LinkEnds(array)] ELSE @]

ReadHop ==
  /\ pc = "hops" /\ hop <= info.hop_cnt
  /\ info' = WithHop
  /\ hop' = hop + 1
  /\ cursor' = cursor + Moves(Mask)
  /\ UNCHANGED <<pc, packet, queue, received, exported>>

Push ==
  /\ pc = "hops" /\ hop > info.hop_cnt
  /\ queue' = Append(queue, [info |-> info, report |-> packet.report])
  /\ packet' = NoPacket /\ info' = NoInfo /\ hop' = 1 /\ cursor' = 0
  /\ pc' = "pop"
  /\ UNCHANGED <<received, exported>>

------------------------------------------------------------------------------
(* report_exporter: the metrics of a flow_info, those of each kind in the     *)
(* order it goes through them.  A link gets the ingress port of its far       *)
(* switch and the egress port of its near one.                                *)
Metric(i, v) == [id |-> i, val |-> v]

LinkId(x, i) ==
  [ingress_port_id |-> x.array["ingress_ports"][i + 1],
   ingress_switch_id |-> x.array["switch_ids"][i + 1],
   egress_port_id |-> x.array["egress_ports"][i],
   egress_switch_id |-> x.array["switch_ids"][i]]

QueueIdOf(x, i) == <<x.array["switch_ids"][i], x.array["queue_ids"][i]>>

Metrics(x) ==
  [flow   |-> <<Metric("flow", x.flow_latency)>>,
   switch |-> [i \in 1..x.hop_cnt |-> Metric(x.array["switch_ids"][i], x.array["hop_latencies"][i])],
   link   |-> [i \in 1..x.hop_cnt - 1 |-> Metric(LinkId(x, i), x.link_latencies[i])],
   queue  |-> [i \in 1..x.hop_cnt |-> Metric(QueueIdOf(x, i), x.array["queue_occups"][i])]]

Export ==
  /\ queue # <<>>
  /\ exported' = exported \cup
       {[metrics |-> Metrics(Head(queue).info), report |-> Head(queue).report]}
  /\ queue' = Tail(queue)
  /\ UNCHANGED <<pc, packet, info, hop, cursor, received>>

------------------------------------------------------------------------------
Next == Pop \/ Drop \/ ReadHeaders \/ ReadHop \/ Push \/ Export

Spec == Init /\ [][Next]_vars

------------------------------------------------------------------------------
(* Properties *)

(* Types; above all no array of a flow_info is written past its end and, for  *)
(* HopsHoldTheirWords, no word read past the end of the datagram, at whatever *)
(* size it was cut (parser.c:64-69, 79-122).                                  *)
TypeOK ==
  /\ pc \in {"pop", "headers", "hops"} /\ packet \in Datagrams \cup {NoPacket}
  /\ received \in 0..MaxDatagrams /\ Len(queue) <= received
  /\ hop \in 1..MaxIntHop + 1 /\ info.hop_cnt \in 0..MaxIntHop
  /\ pc # "pop" => cursor <= Len(Words(packet))
  /\ \A a \in Arrays : DOMAIN info.array[a] = 1..MaxIntHop

ExporterBits ==
  {SwitchIdBit, L1PortIdsBit, HopLatencyBit, QueueBit, IngressTstampBit, EgressTstampBit}

(* The metrics of the reports that have all the metadata the exporter uses,   *)
(* and the hop_ml of their instructions.                                      *)
Told ==
  {e \in exported : /\ ExporterBits \subseteq e.report.mask
                    /\ e.report.hop_ml = WordsPerHop(e.report.mask)}

(* What a flow has waited in the switches of the hops. *)
Latency(hops) ==
  LET sum[i \in 0..Len(hops)] == IF i = 0 THEN 0 ELSE sum[i - 1] + hops[i]["hop_latency"]
  IN sum[Len(hops)]

(* What metrics m are to say of report r. *)
AreTrueOf(m, r) ==
  LET h == r.hops
      n == Len(h)
  IN /\ Len(m.switch) - n \in 0..Len(r.options) \div WordsPerHop(r.mask)
     /\ DOMAIN m.link = 1..Len(m.switch) - 1
     /\ \A i \in 1..n : m.switch[i] = Metric(h[i]["switch_id"], h[i]["hop_latency"])
     /\ \A i \in 1..n - 1 :
          /\ m.link[i].val = Distance(h[i]["ingress_tstamp"], h[i + 1]["egress_tstamp"])
          /\ m.link[i].id =
               [egress_switch_id |-> h[i]["switch_id"],
                egress_port_id |-> h[i]["l1_egress_port_id"],
                ingress_switch_id |-> h[i + 1]["switch_id"],
                ingress_port_id |-> h[i + 1]["l1_ingress_port_id"]]
     /\ Len(m.switch) = n => m.flow[1].val = Latency(h)
     /\ \A k \in DOMAIN m : \A i \in DOMAIN m[k] : m[k][i].val # Unset

(* The exporter is told what the switches wrote (parser.c:71-126,             *)
(* exporter.c:41-220): whatever the protocol, the other instructions and the  *)
(* options behind the INT data, every hop gives its switch's latency, and     *)
(* every two neighbours the distance between the clock at which a packet left *)
(* the one and that at which it entered the other, in the order of the hops,  *)
(* under the names of both and a port of each (the outer ones, see README);   *)
(* the flow's latency is the sum over the hops.  There is a hop too many only *)
(* if TCP options are as long as one; the metrics of the others are true even *)
(* so.  Nothing exported is read from memory that was never written.          *)
MetricsAreTrue == \A e \in Told : AreTrueOf(e.metrics, e.report)
=============================================================================
