------------------------------ MODULE DataPlane ------------------------------
(***************************************************************************)
(* The network of P4 switches (int.p4app/p4src, commands1..4.txt).         *)
(*                                                                         *)
(* A host's packet enters the network, the first switch inserts INT        *)
(* headers if the flow is tracked (int_source), every switch pushes its    *)
(* hop metadata (int_transit), and the last one clones the packet,         *)
(* turns the clone into a telemetry report for the collector               *)
(* (int_report) and strips INT from the packet it delivers                 *)
(* (int_sink).  Between the two pipelines of a switch there is one queue   *)
(* per port, with room for Depth packets.                                  *)
(*                                                                         *)
(* Each pipeline pass of a packet is one action; the passes of packets in  *)
(* different switches and queues interleave.  Time stamps, queue lengths,  *)
(* ports of the transport header, addresses and checksums carry no state   *)
(* of their own and are left out.  `path` is history, not a header.        *)
(***************************************************************************)
EXTENDS Integers, SequencesExt

CONSTANTS
  Switches, Hosts, Ports,
  Peer,        \* Peer[s][p]: <<node, its port>> at the other end of the cable,
               \*   as Cabling gives it for a list of links
  Tables,      \* Tables[s]: what commands<s>.txt installs
  MaxHop,      \* int_source's max_hop, ins_cnt and ins_map (a set of bits,
  InsCnt,      \*   0 the first), the same in every commands file
  InsMap,
  Collector,   \* the host every make_report entry names
  Sendable,    \* the packets hosts may send
  MaxPackets,  \* bound: packets sent
  Depth        \* packets a port's queue holds

IntDscp == 23                                           \* 6w0x17
IntWords == 3                            \* shim and INT header, in 32-bit words
VarbitWords == 64                                 \* int_data_t: varbit<2048>

UpTo(n) == 0..n

\* Header fields of 5, 6, 8 and 16 bits.
UInt5 == UpTo(31)
UInt6 == UpTo(63)
UInt8 == UpTo(255)
UInt16 == UpTo(65535)

ASSUME DataPlaneAssumption ==
  /\ MaxHop \in UInt8 \ {0} /\ InsCnt \in UInt5 /\ InsMap \subseteq 0..7
  /\ MaxPackets \in Nat /\ Depth \in Nat \ {0}
  /\ Collector \in Hosts
  \* A DSCP of 0x17 marks INT packets and is not used by hosts, whose packets
  \* leave room in the 16-bit lengths for the headers of every hop.
  /\ \A p \in Sendable :
       /\ p.src \in Hosts /\ p.dst \in Hosts \ {p.src}
       /\ p.l4 \in {"udp", "tcp", "other"}
       /\ p.len \in Nat /\ p.ulen \in 0..p.len /\ p.hl \in UInt6
       /\ p.len + 4 * (IntWords + VarbitWords) <= 65535
       /\ p.dscp \in UInt6 \ {IntDscp}
       /\ \E s \in Switches : \E i \in DOMAIN Peer[s] : Peer[s][i][1] = p.src

ASSUME TablesAssumption ==
  \A s \in Switches :
    /\ DOMAIN Peer[s] \subseteq Ports
    /\ \A i \in DOMAIN Peer[s] : Peer[s][i][1] \in Hosts \/ Peer[s][i] \in Switches \X Ports
    /\ Tables[s].flows \subseteq Hosts \X Hosts
    /\ Tables[s].reportSource \in Hosts /\ Tables[s].mtu \in Nat
    \* A host gets what is sent to it and the collector gets the clones.
    /\ \A h \in Hosts :
         /\ Tables[s].forward[h] \in DOMAIN Peer[s]
         /\ Peer[s][Tables[s].forward[h]][1] \in Hosts => Peer[s][Tables[s].forward[h]][1] = h
    /\ Tables[s].sink # {} =>
         /\ Tables[s].mirror \in DOMAIN Peer[s] \ Tables[s].sink
         /\ Peer[s][Tables[s].mirror][1] \in Hosts => Peer[s][Tables[s].mirror][1] = Collector
    \* Only hosts are behind source ports.
    /\ \A i \in DOMAIN Peer[s] : \A r \in Switches :
         Peer[s][i][1] = r => Peer[s][i][2] \notin Tables[r].source
    \* A flow does not start where it ends, and ends at a sink; the collector's
    \* packets are in no flow.
    /\ \A f \in Tables[s].flows :
         /\ f[2] # Collector
         /\ Tables[s].forward[f[2]] \notin Tables[s].sink
         /\ \A r \in Switches : Peer[r][Tables[r].forward[f[2]]][1] \in Hosts
                                 => Tables[r].forward[f[2]] \in Tables[r].sink

VARIABLES
  sent,        \* history: the packets hosts sent, in order
  inbuf,       \* inbuf[s]: packets that reached switch s, with their port
  outq,        \* outq[s][p]: packets between ingress and egress, for port p
  seq,         \* seq[s]: report_seq_num_register
  received,    \* received[h]: packets host h received, in order
  dropped      \* history: packets and clones that met a full queue

vars == <<sent, inbuf, outq, seq, received, dropped>>

------------------------------------------------------------------------------
(* Cables: topo.py connects the pairs of nodes of topo.txt one after another, *)
(* and each takes the next free port, of a switch from 1, of a host from 0.   *)

PortOf(links, j, n) ==
  Cardinality({i \in 1..j : n \in ToSet(links[i])}) - (IF n \in Hosts THEN 1 ELSE 0)

Cabling(links) ==
  [s \in Switches |->
     LET mine == {j \in DOMAIN links : s \in ToSet(links[j])} IN
     [p \in 1..Cardinality(mine) |->
        LET j == CHOOSE j \in mine : PortOf(links, j, s) = p
            n == CHOOSE n \in ToSet(links[j]) : n # s
        IN <<n, PortOf(links, j, n)>>]]

------------------------------------------------------------------------------
(* Headers *)

NoInt == [valid |-> FALSE, saved |-> 0, words |-> 0, hml |-> 0, left |-> 0,
          e |-> FALSE, m |-> FALSE, hops |-> <<>>]

NoReport == [valid |-> FALSE]

Frame(id, p) ==
  [id |-> id, src |-> p.src, dst |-> p.dst, l4 |-> p.l4, hl |-> p.hl,
   len |-> p.len, ulen |-> p.ulen, dscp |-> p.dscp,
   tel |-> NoInt, report |-> NoReport, path |-> <<>>]

HasL4(f) == f.l4 \in {"udp", "tcp"}

\* Fault: the UDP length is left alone.
AddLengthOfIp(f, n) == [f EXCEPT !.len = (@ + n) % 65536]

AddLength(f, n) ==
  [f EXCEPT !.len = (@ + n) % 65536,
            !.ulen = IF f.l4 = "udp" THEN (@ + n) % 65536 ELSE @]

(* action int_source *)
Sourced(f) ==
  [AddLength(f, 4 * IntWords) EXCEPT
     !.dscp = IntDscp,
     !.tel = [valid |-> TRUE, saved |-> f.dscp, words |-> IntWords, hml |-> InsCnt,
              left |-> MaxHop, e |-> FALSE, m |-> FALSE, hops |-> <<>>]]

(* The header int_set_header_<i> makes valid for each bit of the mask, for   *)
(* the first and the second half of the byte; 6 and 7 never become valid.    *)
Bits0003 == InsMap \cap 0..3
Bits0407 == InsMap \cap 4..5

Instructed == Bits0003 \cup Bits0407

(* The commands files count the instructions they give, and int_data has room *)
(* for every hop.                                                             *)
ASSUME InstructionsAssumption ==
  InsCnt = Cardinality(Instructed) /\ MaxHop * InsCnt <= VarbitWords

Hop(s, in, out) ==
  [switch |-> s, in |-> in, out |-> out, bits |-> Instructed]

(* The deparser emits the new metadata before the INT data received. *)
Pushed(hop, hops) == <<hop>> \o hops

(* control INT_transit, for a packet with INT headers *)
\* Fault: the switch that finds no hop left forgets to test the count.
ExhaustedByFlagOnly(t) == t.e

Exhausted(t) == t.left = 0 \/ t.e

\* Fault: the MTU is compared with the length before the metadata is added.
TooLongAlready(s, f) == f.len > Tables[s].mtu

TooLong(s, f) == (f.len + 4 * f.tel.hml) % 65536 > Tables[s].mtu

\* Fault: the shim keeps its length.
PushHopNotInShim(t, hop) == [t EXCEPT !.hops = Pushed(hop, @), !.left = @ - 1]

PushHop(t, hop) ==
  [t EXCEPT !.hops = Pushed(hop, @), !.left = @ - 1, !.words = (@ + t.hml) % 256]

WithHop(s, in, out, f) ==
  [AddLength(f, 4 * f.tel.hml) EXCEPT !.tel = PushHop(@, Hop(s, in, out))]

Marked(f) == [f EXCEPT !.tel.m = TRUE]

Transited(s, in, out, f) ==
  IF Exhausted(f.tel)    THEN [f EXCEPT !.tel.e = TRUE]
  ELSE IF TooLong(s, f)  THEN Marked(f)
  ELSE WithHop(s, in, out, f)

(* action int_sink *)
\* Fault: the sink restores the IP length and not the UDP length.
SunkKeepsUdpLength(f) ==
  [f EXCEPT !.len = @ - 4 * f.tel.words, !.dscp = f.tel.saved, !.tel = NoInt]

Sunk(f) ==
  [AddLength(f, -4 * f.tel.words) EXCEPT !.dscp = f.tel.saved, !.tel = NoInt]

(* action make_report: an outer header around the clone, cut after INT data *)
ReportLength(f) == 78 + f.hl + 4 * f.tel.words

Report(s, f, n) ==
  [Frame(f.id, [src |-> Tables[s].reportSource, dst |-> Collector, l4 |-> "udp", hl |-> 8,
                len |-> ReportLength(f), ulen |-> ReportLength(f) - 20, dscp |-> 0])
   EXCEPT !.report = [valid |-> TRUE, switch |-> s, seq |-> n, tel |-> f.tel, path |-> f.path]]

------------------------------------------------------------------------------
Init ==
  /\ sent = <<>>
  /\ inbuf = [s \in Switches |-> <<>>]
  /\ outq = [s \in Switches |-> [p \in Ports |-> <<>>]]
  /\ seq = [s \in Switches |-> 0]
  /\ received = [h \in Hosts |-> <<>>]
  /\ dropped = {}

HostPort(h) == CHOOSE sp \in Switches \X Ports :
                 sp[2] \in DOMAIN Peer[sp[1]] /\ Peer[sp[1]][sp[2]][1] = h

Arrive(s, in, f) == inbuf' = [inbuf EXCEPT ![s] = Append(@, [frame |-> f, in |-> in])]

Send ==
  /\ Len(sent) < MaxPackets
  /\ \E p \in Sendable :
       LET sp == HostPort(p.src) IN
       /\ sent' = Append(sent, p)
       /\ Arrive(sp[1], sp[2], Frame(Len(sent) + 1, p))
  /\ UNCHANGED <<outq, seq, received, dropped>>

IsSource(s, in, f) ==
  HasL4(f) /\ in \in Tables[s].source /\ <<f.src, f.dst>> \in Tables[s].flows

\* Fault: a packet without INT headers is reported too.
IsSinkOfUntracked(s, out, f) == HasL4(f) /\ out \in Tables[s].sink

IsSink(s, out, f) == HasL4(f) /\ f.tel.valid /\ out \in Tables[s].sink

(* control Forward *)
Out(s, f) == Tables[s].forward[f.dst]

(* What ingress hands to the port queues: the packet for its own port and, at *)
(* the sink, for the mirror port a clone of the packet as it was received.    *)
Copies(s, in, f) ==
  LET out == Out(s, f)
      g == IF IsSource(s, in, f) THEN Sourced(f) ELSE f
      sink == IsSink(s, out, g)
  IN [p \in {out} \cup (IF sink THEN {Tables[s].mirror} ELSE {}) |->
        IF p = out THEN [frame |-> g, in |-> in, sink |-> sink, clone |-> FALSE]
                   ELSE [frame |-> f, in |-> in, sink |-> FALSE, clone |-> TRUE]]

\* Fault: one packet more than there is room for.
HasRoomForOneMore(q) == Len(q) <= Depth

HasRoom(q) == Len(q) < Depth

\* Fault: the last packet of a queue is never served.
ReadyWithTwo(q) == Len(q) > 1

Ready(q) == q # <<>>

Ingress(s) ==
  /\ Ready(inbuf[s])
  /\ LET a == Head(inbuf[s])
         copies == Copies(s, a.in, a.frame)
         taken == {p \in DOMAIN copies : HasRoom(outq[s][p])}
     IN /\ outq' = [outq EXCEPT ![s] = [p \in Ports |->
                      IF p \in taken THEN Append(@[p], copies[p]) ELSE @[p]]]
        /\ dropped' = dropped \cup {copies[p] : p \in DOMAIN copies \ taken}
  /\ inbuf' = [inbuf EXCEPT ![s] = Tail(@)]
  /\ UNCHANGED <<sent, seq, received>>

\* history: f passes switch s from port in to port out
Passing(s, in, out, f) ==
  [f EXCEPT !.path = Append(@, [switch |-> s, in |-> in, out |-> out])]

(* The egress pipeline, for a packet that leaves s through out. *)
Leaving(s, out, q) ==
  LET f == Passing(s, q.in, out, q.frame)
      t == IF HasL4(f) /\ f.tel.valid THEN Transited(s, q.in, out, f) ELSE f
  IN CASE ~HasL4(f)  -> f
       [] q.clone    -> Report(s, t, seq[s])
       [] q.sink     -> Sunk(t)
       [] OTHER      -> t

\* Fault: the register is not written back.
SameSeq(n) == n

\* The register has 32 bits; that it wraps after 2^32 reports is left out.
NextSeq(n) == n + 1

Egress(s, out) ==
  /\ Ready(outq[s][out])
  /\ LET q == Head(outq[s][out])
         f == Leaving(s, out, q)
         to == Peer[s][out]
     IN /\ seq' = [seq EXCEPT ![s] = IF q.clone THEN NextSeq(@) ELSE @]
        /\ IF to[1] \in Hosts
             THEN /\ received' = [received EXCEPT ![to[1]] = Append(@, f)]
                  /\ UNCHANGED inbuf
             ELSE /\ Arrive(to[1], to[2], f)
                  /\ UNCHANGED received
  /\ outq' = [outq EXCEPT ![s][out] = Tail(@)]
  /\ UNCHANGED <<sent, dropped>>

Next ==
  \/ Send
  \/ \E s \in Switches : Ingress(s)
  \/ \E s \in Switches, p \in Ports : Egress(s, p)

Fairness ==
  /\ \A s \in Switches : WF_vars(Ingress(s))
  /\ \A s \in Switches, p \in Ports : WF_vars(Egress(s, p))

Spec == Init /\ [][Next]_vars /\ Fairness

------------------------------------------------------------------------------
(* The packets, clones and reports of a state. *)

Elements(q) == {q[i] : i \in DOMAIN q}

Travelling ==
  UNION {Elements(inbuf[s]) : s \in Switches}

Queued ==
  UNION {Elements(outq[s][p]) : s \in Switches, p \in Ports}

Delivered == UNION {Elements(received[h]) : h \in Hosts}

Frames ==
  {a.frame : a \in Travelling} \cup {q.frame : q \in Queued} \cup Delivered
    \cup {q.frame : q \in dropped}

(* The frames and reports that carry a stack of hops, with the path walked. *)
Stacks ==
  {[tel |-> f.tel, path |-> f.path] : f \in {g \in Frames : g.tel.valid}} \cup
  {[tel |-> f.report.tel, path |-> f.report.path] : f \in {g \in Frames : g.report.valid}}

Tracked(id) ==
  LET p == sent[id]
      sp == HostPort(p.src)
  IN /\ IsSource(sp[1], sp[2], p)

------------------------------------------------------------------------------
(* Properties *)

(* Type invariant: header fields stay in their ranges. *)
TypeOK ==
  /\ sent \in Seq(Sendable)
  /\ seq \in [Switches -> Nat]
  /\ \A s \in Switches, p \in Ports : Len(outq[s][p]) <= Depth
  /\ \A f \in Frames :
       /\ f.id \in 1..Len(sent)
       /\ f.len \in UInt16 /\ f.ulen \in UInt16 /\ f.dscp \in UInt6
       /\ f.tel.words \in UInt8 /\ f.tel.left \in UInt8

(* INT is transparent (int_source.p4:30, int_sink.p4:5-22): what a host       *)
(* receives is the packet another host sent to it, with its lengths and its   *)
(* DSCP restored and no INT header left, whatever the switches did with it    *)
(* between.                                                                   *)
Transparent ==
  \A h \in Hosts : \A f \in Elements(received[h]) :
    /\ f.dst = h
    /\ ~f.report.valid => f = [Frame(f.id, sent[f.id]) EXCEPT !.path = f.path]

(* The length fields agree with the headers present (int_transit.p4:10-18):   *)
(* a packet with INT is longer than the one sent by exactly the words its     *)
(* shim counts, and the shim counts the words of the hops on the stack.  The  *)
(* parser of the next switch and the sink both rely on it.                    *)
LengthsAddUp ==
  \A f \in Frames : f.tel.valid =>
    /\ f.len = sent[f.id].len + 4 * f.tel.words
    /\ f.l4 = "udp" => f.ulen = sent[f.id].ulen + 4 * f.tel.words
    /\ f.dscp = IntDscp /\ f.tel.saved = sent[f.id].dscp

WordsOf(hops) ==
  LET words[n \in 0..Len(hops)] == IF n = 0 THEN 0 ELSE words[n - 1] + Cardinality(hops[n].bits)
  IN words[Len(hops)]

(* The stack is as long as the shim says and int_data can hold it             *)
(* (parser.p4:26): the parser finds the end of the INT data where the last    *)
(* switch put it.                                                             *)
StackMatchesShim ==
  \A x \in Stacks :
    /\ x.tel.words = IntWords + WordsOf(x.tel.hops)
    /\ x.tel.words - IntWords <= VarbitWords

Route(hops) == [i \in DOMAIN hops |-> [switch |-> hops[i].switch, in |-> hops[i].in, out |-> hops[i].out]]

(* What a stack tells of the path the frame took. *)
Tells(tel, path) ==
  LET n == Len(path)
      walked == IF n <= MaxHop THEN path ELSE SubSeq(path, 1, MaxHop)
      route == Reverse(Route(tel.hops))
  IN /\ ~tel.m => route = walked /\ (tel.e <=> n > MaxHop)
     /\ \E I \in SUBSET (1..n) :
          /\ Cardinality(I) = Len(route)
          /\ \A i \in I : path[i] = route[Cardinality({j \in I : j <= i})]
     /\ tel.left + Len(route) = MaxHop

(* An incomplete stack says so (int_transit.p4:28-33, 301-308): the hops are  *)
(* the switches passed, newest first, unless a flag is set; with e alone they *)
(* are the first MaxHop switches, and with m they are some of them, in order. *)
StackIsRoute == \A x \in Stacks : Tells(x.tel, x.path)

(* No switch adds its metadata to a packet that then exceeds its MTU          *)
(* (int_transit.p4:305): the switch of the newest hop could send what it made.*)
WithinMtu ==
  \A f \in Frames : f.tel.hops # <<>> => f.len <= Tables[f.tel.hops[1].switch].mtu

(* Reports count packets: a tracked packet that left the network through its  *)
(* sink was cloned there once, and the clone is a report under way, a report  *)
(* at the collector, or was dropped.  Untracked packets are never reported.   *)
Clones(id) ==
  {q \in Queued \cup dropped : q.frame.id = id /\ (q.clone \/ q.frame.report.valid)} \cup
  {f \in {a.frame : a \in Travelling} \cup Delivered : f.id = id /\ f.report.valid}

OneReportEach ==
  \A id \in 1..Len(sent) :
    /\ Cardinality(Clones(id)) <= 1
    /\ Clones(id) # {} => Tracked(id)
    /\ (Tracked(id) /\ \E f \in Delivered : f.id = id /\ ~f.report.valid)
         => Clones(id) # {}

(* The report's sequence number finds losses (int_report.p4:70-72): the       *)
(* numbers a switch gave out are those of the reports it made, each once, and *)
(* the collector gets them in increasing order; a gap at the collector is a   *)
(* report dropped after it was made.                                          *)
Made(s) == {f \in Frames : f.report.valid /\ f.report.switch = s}

SeqFindsLosses ==
  \A s \in Switches :
    LET made == Made(s) IN
    /\ {f.report.seq : f \in made} = 0..(seq[s] - 1)
    /\ Cardinality(made) = seq[s]
    /\ \A i, j \in DOMAIN received[Collector] :
         LET f == received[Collector][i]  g == received[Collector][j] IN
         i < j /\ {f, g} \subseteq made => f.report.seq < g.report.seq

(* What the layout of int_report.p4:13-14 says: after the outer headers, the   *)
(* inner Ethernet and IP headers, the UDP or TCP header, the shim and the INT *)
(* data, a report ends.                                                       *)
ReportEndsAfterIntData ==
  \A f \in Frames : f.report.valid =>
    f.len = 78 + (IF sent[f.id].l4 = "tcp" THEN 20 ELSE 8) + 4 * f.report.tel.words

(* What enters the network leaves it or is dropped at a full queue, clones    *)
(* and reports included, so that after the last packet sent the network is    *)
(* empty: no pipeline holds a packet back or sends it round.                  *)
Empty == \A s \in Switches : inbuf[s] = <<>> /\ \A p \in Ports : outq[s][p] = <<>>

PacketsLeave == <>[]Empty
==============================================================================
