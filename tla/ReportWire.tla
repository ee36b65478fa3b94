----------------------------- MODULE ReportWire -----------------------------
(***************************************************************************)
(* A telemetry report on the wire, from the inner UDP or TCP header on:    *)
(* what the deparser of the last switch emits (p4src/parser.p4 61-90) with *)
(* the INT data of the hops, newest first, and what every collector has to *)
(* take apart.  A report is a record of what the switches wrote:           *)
(*   protocol   "udp" or "tcp"                                             *)
(*   mask       the instructions, a set of bits, 0 the first               *)
(*   hop_ml     the words of a hop's metadata, as the INT header says      *)
(*   hops       one function from fields to numbers per hop                *)
(*   options    words of TCP options, which follow the INT data            *)
(* A word of 32 bits is the pair of its halves; the three words of the     *)
(* INT headers are given by the field a collector reads in them.           *)
(***************************************************************************)
EXTENDS Integers, SequencesExt

\* The instructions of the INT header, bit 0 the first.
SwitchIdBit == 0
L1PortIdsBit == 1
HopLatencyBit == 2
QueueBit == 3
IngressTstampBit == 4
EgressTstampBit == 5
L2PortIdsBit == 6
EgressPortTxUtilBit == 7
Bits == 0..7

(* The metadata of a hop in the order of the wire. *)
HopFields ==
  <<"switch_id", "l1_ingress_port_id", "l1_egress_port_id", "hop_latency", "q_id", "q_occupancy",
    "ingress_tstamp", "egress_tstamp", "l2_ingress_port_id", "l2_egress_port_id",
    "egress_port_tx_util">>

BitOf ==
  [switch_id |-> SwitchIdBit, l1_ingress_port_id |-> L1PortIdsBit,
   l1_egress_port_id |-> L1PortIdsBit, hop_latency |-> HopLatencyBit, q_id |-> QueueBit,
   q_occupancy |-> QueueBit, ingress_tstamp |-> IngressTstampBit,
   egress_tstamp |-> EgressTstampBit, l2_ingress_port_id |-> L2PortIdsBit,
   l2_egress_port_id |-> L2PortIdsBit, egress_port_tx_util |-> EgressPortTxUtilBit]

Fields == DOMAIN BitOf

FieldOf(b) == CHOOSE f \in Fields : BitOf[f] = b

FieldsOf(mask) == {f \in Fields : BitOf[f] \in mask}

------------------------------------------------------------------------------
Word(n) == <<n \div 65536, n % 65536>>

Whole(w) == w[1] * 65536 + w[2]

\* The queue id stands above 24 bits of occupancy.
OccupancyRange == 16777216                                              \* 2^24

(* The words of an instruction: two ports in one, or 8 bits of queue id and   *)
(* 24 of occupancy in one, or two, or one field of 32 bits.                   *)
HopWords(b, h) ==
  CASE b = L1PortIdsBit -> << <<h["l1_ingress_port_id"], h["l1_egress_port_id"]>> >>
    [] b = QueueBit     -> <<Word(h["q_id"] * OccupancyRange + h["q_occupancy"])>>
    [] b = L2PortIdsBit -> <<Word(h["l2_ingress_port_id"]), Word(h["l2_egress_port_id"])>>
    [] OTHER            -> <<Word(h[FieldOf(b)])>>

HopData(mask, h) ==
  FlattenSeq([j \in 1..8 |-> IF j - 1 \in mask THEN HopWords(j - 1, h) ELSE <<>>])

Stack(r) == FlattenSeq([i \in DOMAIN r.hops |-> HopData(r.mask, r.hops[i])])

(* Eight bytes of UDP or twenty of TCP. *)
TransportWords(protocol) == IF protocol = "udp" THEN 2 ELSE 5

(* What the INT sources set hop_ml to for the instructions they give.         *)
WordsPerHop(mask) == IF L2PortIdsBit \in mask THEN Cardinality(mask) + 1 ELSE Cardinality(mask)

Wire(r) ==
  [n \in 1..TransportWords(r.protocol) |-> Word(0)]
    \o <<[length |-> 3 + Len(Stack(r))], [hop_ml |-> r.hop_ml], [ins_map |-> r.mask]>>
    \o Stack(r) \o r.options
=============================================================================
