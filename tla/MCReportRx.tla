----------------------------- MODULE MCReportRx -----------------------------
(* Two flows.  f1 is routed over 1 and 2 or over 1 and 3, with the shipped    *)
(* mask 0xFC and with one that has the level 2 port ids; f2 is a TCP flow     *)
(* with options, or is reported without switch ids.                           *)
EXTENDS ReportRx

MCFlows == {"f1", "f2"}
MCSwitchIds == 1..3

Shipped == {SwitchIdBit, L1PortIdsBit, HopLatencyBit, QueueBit, IngressTstampBit, EgressTstampBit}
WithLevel2 == {SwitchIdBit, QueueBit, L2PortIdsBit, EgressPortTxUtilBit}
NoSwitchId == {L1PortIdsBit, HopLatencyBit}

\* Values that differ from field to field, hop to hop and report to report.
Value(s, v, f) == 100 * v + 20 * s + CHOOSE i \in 1..11 : HopFields[i] = f
Hop(s, v) ==
  [f \in Fields |-> IF f = "switch_id" THEN s ELSE IF f = "q_id" THEN 10 * v + s ELSE Value(s, v, f)]

Report(f, p, mask, route, v, options) ==
  [flow |-> f, protocol |-> p, mask |-> mask, hop_ml |-> WordsPerHop(mask),
   options |-> options,
   hops |-> [i \in DOMAIN route |-> Hop(route[i], v)]]

MCReports ==
  {Report("f1", "udp", Shipped, <<1, 2>>, 1, <<>>),
   Report("f1", "udp", WithLevel2, <<1, 3>>, 2, <<>>),
   Report("f2", "tcp", Shipped, <<1, 2>>, 3, << <<7, 7>>, <<8, 8>>, <<9, 9>> >>),
   Report("f2", "tcp", NoSwitchId, <<1>>, 4, << <<7, 7>>, <<8, 8>>, <<9, 9>> >>)}
=============================================================================
