---------------------------- MODULE MCMetricStore ----------------------------
(* Two flows over one switch or over a link between two: reports of one and   *)
(* two hops, with values on both sides of every threshold.                    *)
EXTENDS MetricStore

CONSTANTS f1, f2, f3, s1, s2, l21, q1, q2

MCIds == [k \in {"flow", "switch", "link", "queue"} |->
            CASE k = "flow" -> {f1, f2, f3} [] k = "switch" -> {s1, s2}
              [] k = "link" -> {l21} [] k = "queue" -> {q1, q2}]
MCSlots == 1..4
MCThreshold == [k \in {"flow", "switch", "link", "queue"} |-> IF k = "flow" THEN 2 ELSE 1]

\* Equal ids of switches and links have equal images; flows and queues have
\* padding, so that one of each hashes to two slots.
Number(i) == CASE i \in {f1, s1, l21, q1} -> 1 [] i \in {f2, s2, q2} -> 2 [] OTHER -> 3
OwnSlots(k, i) == {Number(i)} \cup (IF i \in {f1, q1} THEN {4} ELSE {})

\* Padding makes a flow hash to two slots, and two flows collide.
PaddedSlots(k, i) == IF k = "flow" /\ i # f3 THEN {Number(i), 3} ELSE {Number(i)}

M(i, v) == [id |-> i, val |-> v]
OneHop(f, v) == [flow |-> M(f, v), switches |-> <<M(s1, v)>>, links |-> <<>>,
                 queues |-> <<M(q1, v)>>]
TwoHops(f, v) == [flow |-> M(f, 2 * v), switches |-> <<M(s2, v), M(s1, v)>>,
                  links |-> <<M(l21, v)>>, queues |-> <<M(q2, v), M(q1, v)>>]

MCReports == {OneHop(f1, 0), OneHop(f1, 3), TwoHops(f2, 1)}
FlowReports == {[flow |-> M(f, v), switches |-> <<>>, links |-> <<>>, queues |-> <<>>] :
                  f \in {f1, f2, f3}, v \in {0, 3}}
==============================================================================
