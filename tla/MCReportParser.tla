--------------------------- MODULE MCReportParser ---------------------------
(* Reports of no, one and two hops with the shipped mask 0xFC, with all the   *)
(* instructions and with too few, of UDP and of TCP with options of two       *)
(* lengths; datagrams that are too small, of another protocol, cut to the     *)
(* buffer, or a TCP header without INT, or whose hop_ml is larger than the    *)
(* words of their instructions.                                               *)
EXTENDS ReportParser

Shipped == ExporterBits
NoClocks == {SwitchIdBit, L1PortIdsBit, HopLatencyBit, QueueBit}

\* Values that differ from field to field and hop to hop.
Hop(s, v) ==
  [f \in Fields |-> CASE f = "switch_id" -> s
                      [] f = "q_id"      -> 0
                      [] OTHER           -> 100 * v + 20 * s + CHOOSE i \in 1..11 : HopFields[i] = f]

Options(n) == [i \in 1..n |-> <<1, i>>]

Report(p, mask, route, v, options) ==
  [protocol |-> p, mask |-> mask, hop_ml |-> WordsPerHop(mask), options |-> options,
   hops |-> [i \in DOMAIN route |-> Hop(route[i], v)]]

Received(r) == [report |-> r, size |-> IF FullSize(r) > BufferSize THEN BufferSize ELSE FullSize(r)]

Two(mask, v) == Report("udp", mask, <<1, 2>>, v, <<>>)
Tcp(route, n) == Report("tcp", Shipped, route, 5, Options(n))

MCDatagrams ==
  {Received(r) : r \in {Two(Shipped, 1), Two(Shipped, 2), Two(Bits, 3), Two(NoClocks, 4),
                      Report("udp", Shipped, <<3>>, 1, <<>>), Tcp(<<1, 2>>, 3), Tcp(<<1>>, 7),
                      Tcp(<<2, 1>>, 7), Report("icmp", Shipped, <<1, 2>>, 1, <<>>),
                      Report("udp", Shipped, <<>>, 1, <<>>),
                      Report("udp", Bits, [i \in 1..13 |-> i], 1, <<>>),
                      [Two(Shipped, 6) EXCEPT !.hop_ml = 7],
                      [Two(NoClocks, 7) EXCEPT !.hop_ml = 31]}}
    \cup {[report |-> Two(Shipped, 1), size |-> 69], [report |-> Tcp(<<1>>, 0), size |-> 81]}

(* What the proofs assume of datagrams holds of these.                        *)
ASSUME OnlyReportsAssumption == HopsHoldTheirWords /\ OnlyReports
=============================================================================
