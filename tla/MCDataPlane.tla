----------------------------- MODULE MCDataPlane -----------------------------
(* Two networks.  "Shipped" is topo.txt with commands1..4.txt: a full mesh of *)
(* s1..s4, hosts on port 1, h3 the collector.  "Line" is a chain of the same  *)
(* switches with the same program, long enough for the hop count, and with    *)
(* one smaller MTU, so that all three outcomes of int_transit occur.          *)
EXTENDS DataPlane

MCSwitches == {"s1", "s2", "s3", "s4"}
MCHosts == {"h1", "h2", "h3", "h4"}
MCPorts == 1..4
MCInsMap == 0..5

\* topo.txt
ShippedPeer ==
  Cabling(<< <<"h1", "s1">>, <<"h2", "s2">>, <<"h3", "s3">>, <<"h4", "s4">>,
             <<"s1", "s2">>, <<"s1", "s3">>, <<"s2", "s3">>,
             <<"s1", "s4">>, <<"s2", "s4">>, <<"s3", "s4">> >>)

Edge(forward, h, others, mirror, mtu) ==
  [forward |-> forward, source |-> {1}, flows |-> {<<h, d>> : d \in others},
   sink |-> {1}, mtu |-> mtu, mirror |-> mirror, reportSource |-> h]

Core(forward, mtu) ==
  [forward |-> forward, source |-> {}, flows |-> {}, sink |-> {}, mtu |-> mtu,
   mirror |-> 0, reportSource |-> "h3"]

ShippedTables ==
  [s1 |-> Edge([h1 |-> 1, h2 |-> 2, h3 |-> 3, h4 |-> 4], "h1", {"h2", "h4"}, 3, 1500),
   s2 |-> Edge([h1 |-> 2, h2 |-> 1, h3 |-> 3, h4 |-> 4], "h2", {"h1", "h4"}, 3, 1500),
   s3 |-> Core([h1 |-> 2, h2 |-> 3, h3 |-> 1, h4 |-> 4], 1500),
   s4 |-> Edge([h1 |-> 2, h2 |-> 3, h3 |-> 4, h4 |-> 1], "h4", {"h1", "h2"}, 4, 1500)]

LinePeer ==
  Cabling(<< <<"h1", "s1">>, <<"h3", "s3">>, <<"h4", "s4">>,
             <<"s1", "s2">>, <<"s2", "s3">>, <<"s3", "s4">>, <<"h2", "s1">> >>)

LineTables ==
  [s1 |-> Edge([h1 |-> 1, h2 |-> 3, h3 |-> 2, h4 |-> 2], "h1", {"h4"}, 2, 1500),
   s2 |-> Core([h1 |-> 1, h2 |-> 1, h3 |-> 2, h4 |-> 2], 1430),
   s3 |-> Core([h1 |-> 2, h2 |-> 2, h3 |-> 1, h4 |-> 3], 1500),
   s4 |-> Edge([h1 |-> 2, h2 |-> 2, h3 |-> 2, h4 |-> 1], "h4", {"h1"}, 2, 1500)]

Udp(a, b, n) ==
  [src |-> a, dst |-> b, l4 |-> "udp", hl |-> 8, len |-> n, ulen |-> n - 20, dscp |-> 10]
Tcp(a, b, n) ==
  [src |-> a, dst |-> b, l4 |-> "tcp", hl |-> 32, len |-> n, ulen |-> 0, dscp |-> 0]
Icmp(a, b) ==
  [src |-> a, dst |-> b, l4 |-> "other", hl |-> 8, len |-> 84, ulen |-> 0, dscp |-> 0]

ShippedSendable ==
  {Udp("h1", "h2", 1400), Tcp("h4", "h2", 60), Udp("h2", "h4", 60),
   Udp("h3", "h1", 60), Icmp("h2", "h1")}

LineSendable ==
  {Udp("h1", "h4", 60), Udp("h1", "h4", 1380), Tcp("h1", "h4", 1390), Udp("h2", "h4", 60),
   Tcp("h4", "h1", 60)}
==============================================================================
