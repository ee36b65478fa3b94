--------------------------- MODULE MCXdpCollector ---------------------------
(* Two flows, one through s2 and s1, one through s1 alone, with latencies on  *)
(* both sides of every threshold; from the first report to the second only    *)
(* the link's exceeds its own.  The reports of a TCP flow end with the three  *)
(* words of its time stamp option, which read as the start of a hop.          *)
EXTENDS XdpCollector, TLC

CONSTANTS c1, c2, f1, f2, s1, s2, opt

MCThreshold == [k \in Kinds |-> CASE k = "flow" -> 2 [] OTHER -> 1]

\* The sink's hop: in by port 2, out by port 1.  The source's: 1 and 2.
SinkHop(lat, link) ==
  [switch |-> s1, in |-> 2, out |-> 1, latency |-> lat, qid |-> 0, occupancy |-> 0,
   ingress |-> 20 + link, egress |-> 30]
SourceHop(lat, occ) ==
  [switch |-> s2, in |-> 1, out |-> 2, latency |-> lat, qid |-> 0, occupancy |-> occ,
   ingress |-> 10, egress |-> 20]
Options ==
  [switch |-> opt, in |-> 0, out |-> 0, latency |-> 9, qid |-> 0, occupancy |-> 0,
   ingress |-> 0, egress |-> 0]

TwoHops(a, link, b, occ) ==
  [flow |-> f1, hops |-> <<SinkHop(a, link), SourceHop(b, occ)>>, last |-> HopSize]
WithOptions(a) == [flow |-> f2, hops |-> <<SinkHop(a, 0), Options>>, last |-> 3]
Overlong == [flow |-> f1, hops |-> <<SinkHop(1, 2), SourceHop(1, 0), Options>>, last |-> 3]

MCReports ==
  {TwoHops(0, 0, 0, 0), Overlong, TwoHops(2, 1, 2, 1), WithOptions(3)}

LaidOut == {TwoHops(0, 0, 0, v) : v \in 0..3}
=============================================================================
