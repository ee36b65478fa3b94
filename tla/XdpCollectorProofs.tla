------------------------- MODULE XdpCollectorProofs -------------------------
(***************************************************************************)
(* Theorems about module XdpCollector, for any reports that visit no       *)
(* switch twice, any thresholds, CPUs, ring size and user programs.        *)
(***************************************************************************)
EXTENDS XdpCollector, SharedLemmas

------------------------------------------------------------------------------
(* What a report holds *)

LEMMA Sizes == RingSize \in Nat \ {0} /\ MaxIntHop \in Nat \ {0} /\ MaxReports \in Nat /\ MaxFaults \in Nat
BY XdpAssumption DEF XdpAssumption

LEMMA HopsAre ==
  ASSUME NEW r \in Reports
  PROVE  /\ Len(r.hops) \in Nat \ {0} /\ DOMAIN r.hops = 1..Len(r.hops)
         /\ r.last \in 1..HopSize
         /\ \A i, j \in 1..Len(r.hops) : r.hops[i].switch = r.hops[j].switch => i = j
         /\ \A i \in 1..Len(r.hops) :
              /\ r.hops[i].latency \in Nat /\ r.hops[i].ingress \in Nat
              /\ r.hops[i].egress \in Nat
              /\ r.hops[i].qid = 0 /\ r.hops[i].occupancy \in Nat
<1>1. /\ r.hops \in Seq(ToSet(r.hops)) \ {<<>>} /\ r.last \in 1..HopSize
      /\ \A i, j \in DOMAIN r.hops : r.hops[i].switch = r.hops[j].switch => i = j
      /\ \A h \in ToSet(r.hops) :
           /\ h.latency \in Nat /\ h.ingress \in Nat /\ h.egress \in Nat
           /\ h.qid = 0 /\ h.occupancy \in Nat
  BY XdpAssumption DEF XdpAssumption
<1>2. Len(r.hops) \in Nat \ {0} /\ DOMAIN r.hops = 1..Len(r.hops)
  BY <1>1, LenProperties, EmptySeq
<1>3. \A i \in 1..Len(r.hops) : r.hops[i] \in ToSet(r.hops)
  BY <1>2 DEF ToSet
<1> QED BY <1>1, <1>2, <1>3

LEMMA HopsReadAre ==
  ASSUME NEW r \in Reports
  PROVE  \E n \in 1..Len(r.hops) :
           /\ Len(HopsRead(r)) = n /\ DOMAIN HopsRead(r) = 1..n
           /\ ReadToTheEnd(r) => \A i \in 1..n : WordsOf(r, i) = HopSize
<1> DEFINE n == IF Len(r.hops) < MaxIntHop THEN Len(r.hops) ELSE MaxIntHop
<1>1. n \in 1..Len(r.hops)
  BY HopsAre, Sizes
<1>2. Len(HopsRead(r)) = n /\ DOMAIN HopsRead(r) = 1..n
  <2>1. r.hops \in Seq(ToSet(r.hops))
    BY XdpAssumption DEF XdpAssumption
  <2>2. \A i \in 1..n : r.hops[i] \in ToSet(r.hops)
    BY <1>1, <2>1, HopsAre, ElementOfSeq
  <2>3. HopsRead(r) = SubSeq(r.hops, 1, n)
    BY DEF HopsRead
  <2> HIDE DEF n
  <2>4. 1 \in Int /\ n \in Int /\ 1 <= n
    BY <1>1
  <2>5. SubSeq(r.hops, 1, n) \in Seq(ToSet(r.hops)) /\ Len(SubSeq(r.hops, 1, n)) = n
    BY <2>2, <2>4, SubSeqProperties
  <2> QED BY <2>3, <2>5, LenProperties
<1>3. ASSUME ReadToTheEnd(r), NEW i \in 1..n PROVE WordsOf(r, i) = HopSize
  BY <1>1, <1>3, HopsAre, Sizes DEF ReadToTheEnd, WordsOf
<1> HIDE DEF n
<1> QED BY <1>1, <1>2, <1>3

\* The latencies of the hops add up to a natural number.
LEMMA LatencyIsNat ==
  ASSUME NEW r \in Reports
  PROVE  FlowLatency(r) \in Nat
<1>1. PICK n \in 1..Len(r.hops) : Len(HopsRead(r)) = n
  BY HopsReadAre
<1>2. n \in Nat /\ [i \in 1..n |-> r.hops[i].latency] \in [1..n -> Nat]
  BY HopsAre
<1> DEFINE Rec(f) == f = [i \in 0..n |-> IF i = 0 THEN 0 ELSE f[i - 1] + r.hops[i].latency]
<1>3. PICK g \in [0..n -> Nat] :
        g[0] = 0 /\ \A i \in 1..n : g[i] = g[i - 1] + [j \in 1..n |-> r.hops[j].latency][i]
  <2> DEFINE d == [i \in 1..n |-> r.hops[i].latency]
  <2>1. n \in Nat /\ d \in [1..n -> Nat]
    BY <1>2
  <2> HIDE DEF d
  <2>2. \E g \in [0..n -> Nat] : g[0] = 0 /\ \A i \in 1..n : g[i] = g[i - 1] + d[i]
    BY <2>1, PartialSums
  <2> QED BY <2>2 DEF d
<1>4. Rec(g)
  <2>1. \A i \in 0..n : g[i] = IF i = 0 THEN 0 ELSE g[i - 1] + r.hops[i].latency
    BY <1>2, <1>3
  <2> QED BY <1>3, <2>1
<1> DEFINE s == CHOOSE f : Rec(f)
<1>5. Rec(s)
  <2> HIDE DEF Rec
  <2> QED BY <1>4
<1>6. FlowLatency(r) = s[n]
  BY <1>1 DEF FlowLatency
<1>7. \A m \in 0..n : s[m] \in Nat
  <2> DEFINE N == {m \in Nat : m <= n => s[m] \in Nat}
  <2> HIDE DEF s
  <2>1. 0 \in N
    BY <1>2, <1>5
  <2>2. ASSUME NEW m \in Nat, m \in N PROVE m + 1 \in N
    <3>1. SUFFICES ASSUME m + 1 <= n PROVE s[m + 1] \in Nat
      OBVIOUS
    <3>2. s[m + 1] = s[m] + r.hops[m + 1].latency
      BY <1>2, <1>5, <3>1
    <3>3. s[m] \in Nat /\ r.hops[m + 1].latency \in Nat
      BY <1>1, <1>2, <2>2, <3>1, HopsAre
    <3> QED BY <3>2, <3>3
  <2>3. \A m \in Nat : m \in N
    <3> HIDE DEF N
    <3> QED BY <2>1, <2>2, NaturalsBySteps
  <2> QED BY <1>2, <2>3
<1> QED BY <1>2, <1>6, <1>7

LEMMA MetricIs ==
  ASSUME NEW k, NEW i, NEW v
  PROVE  Metric(k, i, v).kind = k /\ Metric(k, i, v).id = i /\ Metric(k, i, v).val = v
BY DEF Metric

LEMMA MetricsOfHops ==
  ASSUME NEW g, NEW h
  PROVE  /\ SwitchOf(h).kind = "switch" /\ SwitchOf(h).id = h.switch
         /\ QueueOf(h).kind = "queue" /\ QueueOf(h).id.switch_id = h.switch
         /\ LinkOf(g, h).kind = "link" /\ LinkOf(g, h).id.egress_switch = h.switch
<1>1. LinkId(g, h).egress_switch = h.switch
  BY DEF LinkId
<1>2. LinkOf(g, h).kind = "link" /\ LinkOf(g, h).id = LinkId(g, h)
  BY MetricIs DEF LinkOf
<1>3. SwitchOf(h).kind = "switch" /\ SwitchOf(h).id = h.switch
  BY MetricIs DEF SwitchOf
<1>4. QueueOf(h).kind = "queue" /\ QueueOf(h).id.switch_id = h.switch
  BY MetricIs DEF QueueOf
<1> QED BY <1>1, <1>2, <1>3, <1>4

IsSwitch(r, m, i) ==
  m.kind = "switch" /\ m = SwitchOf(r.hops[i]) /\ m.id = r.hops[i].switch

IsQueue(r, m, i) ==
  m.kind = "queue" /\ m = QueueOf(r.hops[i]) /\ m.id.switch_id = r.hops[i].switch

IsLink(r, m, i) ==
  /\ m.kind = "link" /\ m = LinkOf(r.hops[i - 1], r.hops[i])
  /\ m.id.egress_switch = r.hops[i].switch

IsFlow(r, m) == m.kind = "flow" /\ m = FlowOf(r)

\* The four sorts of metrics, each at its hops.
LEMMA MeasuredAre ==
  ASSUME NEW r \in Reports, NEW m \in Measured[r]
  PROVE  \/ \E i \in 1..Len(r.hops) : IsSwitch(r, m, i)
         \/ \E i \in 1..Len(r.hops) : IsQueue(r, m, i)
         \/ \E i \in 2..Len(r.hops) : IsLink(r, m, i)
         \/ IsFlow(r, m)
<1>1. PICK n \in 1..Len(r.hops) : DOMAIN HopsRead(r) = 1..n
  BY HopsReadAre
<1>2. Len(r.hops) \in Nat
  BY HopsAre
<1>3. /\ Reaches(r, 3) \subseteq 1..Len(r.hops) /\ Reaches(r, 4) \subseteq 1..Len(r.hops)
      /\ Reaches(r, HopSize) \ {1} \subseteq 2..Len(r.hops)
  BY <1>1, <1>2 DEF Reaches
<1>4. \/ \E i \in Reaches(r, 3) : m = SwitchOf(r.hops[i])
      \/ \E i \in Reaches(r, 4) : m = QueueOf(r.hops[i])
      \/ \E i \in Reaches(r, HopSize) \ {1} : m = LinkOf(r.hops[i - 1], r.hops[i])
      \/ m = FlowOf(r)
  BY DEF Measured
<1>5. CASE \E i \in Reaches(r, 3) : m = SwitchOf(r.hops[i])
  BY <1>3, <1>5, MetricsOfHops DEF IsSwitch
<1>6. CASE \E i \in Reaches(r, 4) : m = QueueOf(r.hops[i])
  BY <1>3, <1>6, MetricsOfHops DEF IsQueue
<1>7. CASE \E i \in Reaches(r, HopSize) \ {1} : m = LinkOf(r.hops[i - 1], r.hops[i])
  <2>1. PICK i \in 2..Len(r.hops) : m = LinkOf(r.hops[i - 1], r.hops[i])
    BY <1>3, <1>7
  <2> DEFINE g == r.hops[i - 1]  h == r.hops[i]
  <2>2. LinkOf(g, h).kind = "link" /\ LinkOf(g, h).id.egress_switch = h.switch
    BY MetricsOfHops
  <2>3. IsLink(r, m, i)
    BY <2>1, <2>2 DEF IsLink
  <2> QED BY <2>3
<1>8. CASE m = FlowOf(r)
  BY <1>8, MetricIs DEF FlowOf, IsFlow
<1> QED BY <1>4, <1>5, <1>6, <1>7, <1>8

\* A report has one value of every metric.
LEMMA OneValue ==
  ASSUME NEW r \in Reports, NEW m \in Measured[r], NEW n \in Measured[r],
         m.kind = n.kind, m.id = n.id
  PROVE  m = n
<1> DEFINE L == Len(r.hops)
<1>1. L \in Nat /\ \A i, j \in 1..L : r.hops[i].switch = r.hops[j].switch => i = j
  BY HopsAre
<1>2. /\ \/ \E i \in 1..L : IsSwitch(r, m, i)
         \/ \E i \in 1..L : IsQueue(r, m, i)
         \/ \E i \in 2..L : IsLink(r, m, i)
         \/ IsFlow(r, m)
      /\ \/ \E i \in 1..L : IsSwitch(r, n, i)
         \/ \E i \in 1..L : IsQueue(r, n, i)
         \/ \E i \in 2..L : IsLink(r, n, i)
         \/ IsFlow(r, n)
  BY MeasuredAre
<1> HIDE DEF L
<1>3. CASE \E i \in 1..L : IsSwitch(r, m, i)
  <2>1. PICK i \in 1..L : IsSwitch(r, m, i)
    BY <1>3
  <2>2. PICK j \in 1..L : IsSwitch(r, n, j)
    BY <1>2, <2>1 DEF IsSwitch, IsQueue, IsLink, IsFlow
  <2>3. i = j
    BY <1>1, <2>1, <2>2 DEF IsSwitch
  <2> QED BY <2>1, <2>2, <2>3 DEF IsSwitch
<1>4. CASE \E i \in 1..L : IsQueue(r, m, i)
  <2>1. PICK i \in 1..L : IsQueue(r, m, i)
    BY <1>4
  <2>2. PICK j \in 1..L : IsQueue(r, n, j)
    BY <1>2, <2>1 DEF IsSwitch, IsQueue, IsLink, IsFlow
  <2>3. i = j
    BY <1>1, <2>1, <2>2 DEF IsQueue
  <2> QED BY <2>1, <2>2, <2>3 DEF IsQueue
<1>5. CASE \E i \in 2..L : IsLink(r, m, i)
  <2>1. PICK i \in 2..L : IsLink(r, m, i)
    BY <1>5
  <2>2. PICK j \in 2..L : IsLink(r, n, j)
    BY <1>2, <2>1 DEF IsSwitch, IsQueue, IsLink, IsFlow
  <2>3. i \in 1..L /\ j \in 1..L /\ r.hops[i].switch = r.hops[j].switch
    BY <1>1, <2>1, <2>2 DEF IsLink
  <2>4. i = j
    BY <1>1, <2>3
  <2> QED BY <2>1, <2>2, <2>4 DEF IsLink
<1>6. CASE IsFlow(r, m)
  BY <1>2, <1>6 DEF IsSwitch, IsQueue, IsLink, IsFlow
<1> QED BY <1>2, <1>3, <1>4, <1>5, <1>6

LEMMA OccupancyIsInt ==
  ASSUME NEW h, h.qid = 0, h.occupancy \in Nat
  PROVE  QueueOccupancy(h) \in Int
<1> DEFINE q == h.qid  o == h.occupancy
           high == o \div 65536  mid == (o \div 256) % 256
<1>1. q = 0 /\ o \in Int
  OBVIOUS
<1>2. high \in Int /\ mid \in Int
  <2> HIDE DEF o
  <2> QED BY <1>1, SMT
<1>3. QueueOccupancy(h) = q * 16777216 + (high + mid) * 65536
  BY SMT DEF QueueOccupancy
<1> HIDE DEF q, high, mid
<1> QED BY <1>1, <1>2, <1>3, SMT

\* Every metric has a kind and a value.
LEMMA MeasuredTypes ==
  ASSUME NEW r \in Reports, NEW m \in Measured[r]
  PROVE  m.kind \in Kinds /\ m.val \in Int
<1>1. ASSUME NEW i \in 1..Len(r.hops), IsSwitch(r, m, i) PROVE m.val \in Int
  BY <1>1, HopsAre, MetricIs DEF SwitchOf, IsSwitch
<1>2. ASSUME NEW i \in 1..Len(r.hops), IsQueue(r, m, i) PROVE m.val \in Int
  <2> DEFINE h == r.hops[i]
  <2>1. h.qid = 0 /\ h.occupancy \in Nat
    BY HopsAre
  <2>2. m.val = QueueOccupancy(h)
    BY <1>2, MetricIs DEF QueueOf, IsQueue
  <2> HIDE DEF h
  <2> QED BY <2>1, <2>2, OccupancyIsInt
<1>3. ASSUME NEW i \in 2..Len(r.hops), IsLink(r, m, i) PROVE m.val \in Int
  <2>1. i - 1 \in 1..Len(r.hops) /\ i \in 1..Len(r.hops)
    BY <1>3, HopsAre
  <2>2. r.hops[i - 1].ingress \in Nat /\ r.hops[i].egress \in Nat
    BY <2>1, HopsAre
  <2>3. m.val = Distance(r.hops[i - 1].ingress, r.hops[i].egress)
    BY <1>3, MetricIs DEF LinkOf, IsLink
  <2> QED BY <2>2, <2>3 DEF Distance
<1>4. ASSUME IsFlow(r, m) PROVE m.val \in Int
  BY <1>4, LatencyIsNat, MetricIs DEF FlowOf, IsFlow
<1>5. m.val \in Int
  BY <1>1, <1>2, <1>3, <1>4, MeasuredAre
<1>6. m.kind \in Kinds
  BY MeasuredAre DEF IsSwitch, IsQueue, IsLink, IsFlow, Kinds
<1> QED BY <1>5, <1>6

LEMMA ToSetConcat ==
  ASSUME NEW S, NEW s \in Seq(S), NEW t \in Seq(S)
  PROVE  s \o t \in Seq(S) /\ ToSet(s \o t) = ToSet(s) \cup ToSet(t)
<1> DEFINE c == s \o t
<1>1. /\ c \in Seq(S) /\ Len(c) = Len(s) + Len(t)
      /\ \A i \in 1..Len(s) + Len(t) : c[i] = IF i <= Len(s) THEN s[i] ELSE t[i - Len(s)]
  BY ConcatProperties
<1>2. /\ Len(s) \in Nat /\ DOMAIN s = 1..Len(s)
      /\ Len(t) \in Nat /\ DOMAIN t = 1..Len(t) /\ DOMAIN c = 1..Len(c)
  BY <1>1, LenProperties
<1> HIDE DEF c
<1>3. ASSUME NEW i \in DOMAIN c PROVE c[i] \in ToSet(s) \cup ToSet(t)
  <2>1. CASE i <= Len(s)
    BY <1>1, <1>2, <2>1 DEF ToSet
  <2>2. CASE ~(i <= Len(s))
    <3>1. i - Len(s) \in DOMAIN t /\ c[i] = t[i - Len(s)]
      BY <1>1, <1>2, <2>2
    <3> QED BY <3>1 DEF ToSet
  <2> QED BY <2>1, <2>2
<1>4. ASSUME NEW i \in DOMAIN s PROVE s[i] \in ToSet(c)
  <2>1. i \in DOMAIN c /\ c[i] = s[i]
    BY <1>1, <1>2
  <2> QED BY <2>1 DEF ToSet
<1>5. ASSUME NEW i \in DOMAIN t PROVE t[i] \in ToSet(c)
  <2>1. i + Len(s) \in DOMAIN c /\ c[i + Len(s)] = t[i]
    BY <1>1, <1>2
  <2> QED BY <2>1 DEF ToSet
<1>6. ToSet(c) = ToSet(s) \cup ToSet(t)
  BY <1>3, <1>4, <1>5, Zenon DEF ToSet
<1> QED BY <1>1, <1>6 DEF c

\* A handler makes the metrics of the kinds that are flagged, and no others.
LEMMA MetricsAre ==
  ASSUME NEW e \in Events, ReadToTheEnd(e.report)
  PROVE  /\ Metrics(e) \in Seq(Measured[e.report])
         /\ \A m \in Measured[e.report] : m.kind \in e.flags => m \in ToSet(Metrics(e))
<1> DEFINE r == e.report
           M == Measured[r]
           S1 == IF "flow" \in e.flags THEN <<FlowOf(r)>> ELSE <<>>
           S2 == IF "switch" \in e.flags THEN EachSwitch(r) ELSE <<>>
           S3 == IF "queue" \in e.flags THEN EachQueue(r) ELSE <<>>
           S4 == IF "link" \in e.flags THEN EachLink(r) ELSE <<>>
<1>1. r \in Reports
  BY DEF Events
<1>2. PICK n \in 1..Len(r.hops) :
        /\ Len(HopsRead(r)) = n /\ DOMAIN HopsRead(r) = 1..n
        /\ \A i \in 1..n : WordsOf(r, i) = HopSize
  BY <1>1, HopsReadAre
<1>3. n \in Nat \ {0}
  BY <1>1, HopsAre
<1>4. Reaches(r, 3) = 1..n /\ Reaches(r, 4) = 1..n /\ Reaches(r, HopSize) = 1..n
  BY <1>2 DEF Reaches, HopSize
<1>5. M = {SwitchOf(r.hops[i]) : i \in 1..n} \cup {QueueOf(r.hops[i]) : i \in 1..n}
            \cup {LinkOf(r.hops[i - 1], r.hops[i]) : i \in (1..n) \ {1}} \cup {FlowOf(r)}
  BY <1>1, <1>4 DEF Measured
<1>6. S1 \in Seq(M) /\ ("flow" \in e.flags => FlowOf(r) \in ToSet(S1))
  <2>1. FlowOf(r) \in M
    BY <1>5
  <2> HIDE DEF M
  <2>2. <<FlowOf(r)>> \in Seq(M) /\ FlowOf(r) \in ToSet(<<FlowOf(r)>>)
    BY <2>1 DEF ToSet
  <2> QED BY <2>2, EmptySeq
<1>7. S2 \in Seq(M) /\ ("switch" \in e.flags => \A i \in 1..n : SwitchOf(r.hops[i]) \in ToSet(S2))
  <2>1. \A i \in 1..n : SwitchOf(r.hops[i]) \in M
    BY <1>5
  <2> HIDE DEF M
  <2>2. EachSwitch(r) = [i \in 1..n |-> SwitchOf(r.hops[i])]
    BY <1>2 DEF EachSwitch
  <2>3. EachSwitch(r) \in [1..n -> M]
    BY <2>1, <2>2
  <2>4. EachSwitch(r) \in Seq(M)
    BY <1>3, <2>3
  <2>5. \A i \in 1..n : SwitchOf(r.hops[i]) \in ToSet(EachSwitch(r))
    BY <2>2 DEF ToSet
  <2> QED BY <2>4, <2>5, EmptySeq
<1>8. S3 \in Seq(M) /\ ("queue" \in e.flags => \A i \in 1..n : QueueOf(r.hops[i]) \in ToSet(S3))
  <2>1. \A i \in 1..n : QueueOf(r.hops[i]) \in M
    BY <1>5
  <2> HIDE DEF M
  <2>2. EachQueue(r) = [i \in 1..n |-> QueueOf(r.hops[i])]
    BY <1>2 DEF EachQueue
  <2>3. EachQueue(r) \in [1..n -> M]
    BY <2>1, <2>2
  <2>4. EachQueue(r) \in Seq(M)
    BY <1>3, <2>3
  <2>5. \A i \in 1..n : QueueOf(r.hops[i]) \in ToSet(EachQueue(r))
    BY <2>2 DEF ToSet
  <2> QED BY <2>4, <2>5, EmptySeq
<1>9. /\ S4 \in Seq(M)
      /\ "link" \in e.flags =>
           \A i \in (1..n) \ {1} : LinkOf(r.hops[i - 1], r.hops[i]) \in ToSet(S4)
  <2>1. \A i \in 1..(n - 1) : LinkOf(r.hops[i], r.hops[i + 1]) \in M
    <3> SUFFICES ASSUME NEW i \in 1..(n - 1) PROVE LinkOf(r.hops[i], r.hops[i + 1]) \in M
      OBVIOUS
    <3>1. i + 1 \in (1..n) \ {1} /\ (i + 1) - 1 = i
      BY <1>3
    <3>2. LinkOf(r.hops[(i + 1) - 1], r.hops[i + 1]) \in M
      BY <1>5, <3>1
    <3> QED BY <3>1, <3>2
  <2> HIDE DEF M
  <2>2. EachLink(r) = [i \in 1..(n - 1) |-> LinkOf(r.hops[i], r.hops[i + 1])]
    BY <1>2 DEF EachLink
  <2>3. EachLink(r) \in [1..(n - 1) -> M]
    BY <2>1, <2>2
  <2>4. EachLink(r) \in Seq(M)
    BY <1>3, <2>3
  <2>5. ASSUME NEW i \in (1..n) \ {1} PROVE LinkOf(r.hops[i - 1], r.hops[i]) \in ToSet(EachLink(r))
    <3>1. i - 1 \in 1..(n - 1) /\ (i - 1) + 1 = i
      BY <1>3
    <3>2. EachLink(r)[i - 1] = LinkOf(r.hops[i - 1], r.hops[i]) /\ i - 1 \in DOMAIN EachLink(r)
      BY <2>2, <3>1
    <3> QED BY <3>2 DEF ToSet
  <2> QED BY <2>4, <2>5, EmptySeq
<1>10. Metrics(e) = S1 \o S2 \o S3 \o S4
  BY DEF Metrics
<1>11. ASSUME NEW m \in M, m.kind \in e.flags
       PROVE  m \in ToSet(S1) \cup ToSet(S2) \cup ToSet(S3) \cup ToSet(S4)
  <2> HIDE DEF S1, S2, S3, S4
  <2>1. CASE m = FlowOf(r)
    BY <1>6, <1>11, <2>1, MetricIs DEF FlowOf
  <2>2. CASE \E i \in 1..n : m = SwitchOf(r.hops[i])
    <3>1. PICK i \in 1..n : m = SwitchOf(r.hops[i])
      BY <2>2
    <3> DEFINE h == r.hops[i]
    <3>2. SwitchOf(h).kind = "switch"
      BY MetricsOfHops
    <3>3. "switch" \in e.flags
      BY <1>11, <3>1, <3>2
    <3> QED BY <1>7, <3>1, <3>3
  <2>3. CASE \E i \in 1..n : m = QueueOf(r.hops[i])
    <3>1. PICK i \in 1..n : m = QueueOf(r.hops[i])
      BY <2>3
    <3> DEFINE h == r.hops[i]
    <3>2. QueueOf(h).kind = "queue"
      BY MetricsOfHops
    <3>3. "queue" \in e.flags
      BY <1>11, <3>1, <3>2
    <3> QED BY <1>8, <3>1, <3>3
  <2>4. CASE \E i \in (1..n) \ {1} : m = LinkOf(r.hops[i - 1], r.hops[i])
    <3>1. PICK i \in (1..n) \ {1} : m = LinkOf(r.hops[i - 1], r.hops[i])
      BY <2>4
    <3> DEFINE g == r.hops[i - 1]  h == r.hops[i]
    <3>2. LinkOf(g, h).kind = "link"
      BY MetricsOfHops
    <3>3. "link" \in e.flags
      BY <1>11, <3>1, <3>2
    <3> QED BY <1>9, <3>1, <3>3
  <2> QED BY <1>5, <2>1, <2>2, <2>3, <2>4
<1> HIDE DEF S1, S2, S3, S4, M
<1>12. /\ S1 \o S2 \in Seq(M) /\ ToSet(S1 \o S2) = ToSet(S1) \cup ToSet(S2)
  BY <1>6, <1>7, ToSetConcat
<1> DEFINE C2 == S1 \o S2  C3 == C2 \o S3  C4 == C3 \o S4
<1>13. C2 \in Seq(M) /\ ToSet(C2) = ToSet(S1) \cup ToSet(S2)
  BY <1>12
<1> HIDE DEF C2
<1>14. C3 \in Seq(M) /\ ToSet(C3) = ToSet(C2) \cup ToSet(S3)
  BY <1>8, <1>13, ToSetConcat
<1> HIDE DEF C3
<1>15. C4 \in Seq(M) /\ ToSet(C4) = ToSet(C3) \cup ToSet(S4)
  BY <1>9, <1>14, ToSetConcat
<1>16. Metrics(e) = C4
  BY <1>10 DEF C2, C3
<1> HIDE DEF C4
<1> QED BY <1>11, <1>13, <1>14, <1>15, <1>16 DEF M

\* What Put writes, and what it leaves alone.
LEMMA PutIs ==
  ASSUME NEW t, NEW ms,
         \A m, n \in ms : m.kind = n.kind /\ m.id = n.id => m.val = n.val
  PROVE  /\ DOMAIN Put(t, ms) = Kinds
         /\ \A k \in Kinds : \A i :
              i \in DOMAIN Put(t, ms)[k] <=>
                i \in DOMAIN t[k] \/ \E m \in ms : m.kind = k /\ m.id = i
         /\ \A m \in ms : m.kind \in Kinds => Put(t, ms)[m.kind][m.id] = m.val
         /\ \A k \in Kinds : \A i \in DOMAIN t[k] :
              (\A m \in ms : ~(m.kind = k /\ m.id = i)) => Put(t, ms)[k][i] = t[k][i]
<1> DEFINE of(k, i) == {m \in ms : m.kind = k /\ m.id = i}
           D(k) == DOMAIN t[k] \cup {m.id : m \in {x \in ms : x.kind = k}}
           p == Put(t, ms)
<1>1. p = [k \in Kinds |-> [i \in D(k) |->
                              IF of(k, i) = {} THEN t[k][i]
                              ELSE (CHOOSE m \in of(k, i) : TRUE).val]]
  BY DEF Put
<1>2. \A k : \A i : i \in D(k) <=> i \in DOMAIN t[k] \/ \E m \in ms : m.kind = k /\ m.id = i
  OBVIOUS
<1>3. ASSUME NEW m \in ms, m.kind \in Kinds PROVE p[m.kind][m.id] = m.val
  <2> DEFINE k == m.kind  i == m.id  c == CHOOSE x \in of(k, i) : TRUE
  <2>1. m \in of(k, i)
    OBVIOUS
  <2>2. c \in of(k, i)
    BY <2>1
  <2>3. c.val = m.val
    BY <2>2
  <2>4. i \in D(k) /\ of(k, i) # {}
    BY <2>1
  <2> HIDE DEF of, D, p
  <2> QED BY <1>1, <1>3, <2>3, <2>4
<1>4. ASSUME NEW k \in Kinds, NEW i \in DOMAIN t[k], \A m \in ms : ~(m.kind = k /\ m.id = i)
      PROVE  p[k][i] = t[k][i]
  <2>1. of(k, i) = {} /\ i \in D(k)
    BY <1>4
  <2> HIDE DEF of, D, p
  <2> QED BY <1>1, <2>1
<1>5. DOMAIN p = Kinds /\ \A k \in Kinds : DOMAIN p[k] = D(k)
  <2> HIDE DEF of, D, p
  <2> QED BY <1>1
<1> HIDE DEF of, D
<1> QED BY <1>2, <1>3, <1>4, <1>5

------------------------------------------------------------------------------
(* The inductive invariant *)

InRings == {e \in Events : \E c \in Cpus : e \in ToSet(ring[c])}

Handled == IF pc = "handling" THEN {event} ELSE {}

Waiting == InRings \cup Handled

(* Types, strengthened by what the reports of the events hold. *)
StateInv ==
  /\ exporter \in Exporters
  /\ pc \in {"loaded", "attached", "polling", "handling", "detaching", "stopped"}
  /\ ring \in [Cpus -> Seq(Events)] /\ \A c \in Cpus : Len(ring[c]) <= RingSize
  /\ event \in Events \cup {NoEvent}
  /\ pc = "handling" => event \in Events /\ todo \in Seq(Measured[event.report])
  /\ order \in Seq(Nat) /\ passes \in Nat /\ spoilt \subseteq 1..passes
  /\ faults \in 0..MaxFaults

EventInv ==
  \A e \in Waiting :
    /\ e.pass \in 1..passes /\ ReadToTheEnd(e.report)
    /\ \A m \in Measured[e.report] : m.id \in DOMAIN last[m.kind]

TableInv ==
  \A k \in Kinds :
    /\ DOMAIN table[k] \subseteq DOMAIN changed[k] /\ DOMAIN changed[k] = DOMAIN last[k]
    /\ DOMAIN shown[k] \subseteq DOMAIN last[k]
    /\ \A i \in DOMAIN changed[k] : changed[k][i] \in 1..passes /\ last[k][i] \in Int
    /\ \A i \in DOMAIN shown[k] : shown[k][i].pass \in 1..passes /\ shown[k][i].val \in Int

(* t is the value the table took last of metric i of kind k: whatever was     *)
(* reported or made an event since is close to it.                            *)
Tracks(k, i, t) ==
  /\ Distance(last[k][i], t) <= Slack(k)
  /\ i \in DOMAIN table[k] => table[k][i] = [val |-> t, pass |-> changed[k][i]]
  /\ \A e \in Waiting : e.pass >= changed[k][i] =>
       \A m \in Measured[e.report] :
         m.kind = k /\ m.id = i => Distance(m.val, t) <= Slack(k)
  /\ UpToDate(k, i) =>
       Distance(shown[k][i].val, t) <= (IF FromTable(k) THEN 0 ELSE Slack(k))

TrackInv == \A k \in Kinds : \A i \in DOMAIN changed[k] : \E t \in Int : Tracks(k, i, t)

(* The event of the report that changed the metric last is in a ring. *)
Sent(k, i) ==
  \E e \in InRings :
    /\ e.pass = changed[k][i] /\ k \in e.flags
    /\ \E m \in Measured[e.report] : m.kind = k /\ m.id = i

InHand(k, i) ==
  pc = "handling" /\ event.pass = changed[k][i]
    /\ \E m \in ToSet(todo) : m.kind = k /\ m.id = i

Lost(k, i) == changed[k][i] \in spoilt

Late(k, i) == ~FromTable(k) /\ changed[k][i] \in Overtaken

FateInv ==
  /\ \A k \in Kinds : \A i \in DOMAIN changed[k] :
       /\ Lost(k, i) \/ Sent(k, i) \/ changed[k][i] \in ToSet(order)
       /\ UpToDate(k, i) \/ Lost(k, i) \/ Sent(k, i) \/ InHand(k, i) \/ Late(k, i)
  /\ pc = "handling" => order # <<>> /\ order[Len(order)] = event.pass

IInv == StateInv /\ EventInv /\ TableInv /\ TrackInv /\ FateInv

LEMMA InitHasInv == Init => IInv
<1> SUFFICES ASSUME Init PROVE IInv
  OBVIOUS
<1>1. \A k \in Kinds : /\ DOMAIN table[k] = {} /\ DOMAIN shown[k] = {}
                       /\ DOMAIN last[k] = {} /\ DOMAIN changed[k] = {}
  BY DEF Init, None
<1>2. InRings = {} /\ Waiting = {}
  BY DEF Init, InRings, Handled, Waiting, ToSet
<1>3. StateInv
  <2>1. ring \in [Cpus -> Seq(Events)] /\ \A c \in Cpus : ring[c] = <<>>
    BY EmptySeq DEF Init
  <2>2. \A c \in Cpus : Len(ring[c]) <= RingSize
    BY <2>1, Sizes, EmptySeq
  <2>3. 0 \in 0..MaxFaults
    BY Sizes
  <2>4. order \in Seq(Nat) /\ passes \in Nat /\ spoilt = {}
    BY EmptySeq DEF Init
  <2> QED BY <2>1, <2>2, <2>3, <2>4 DEF Init, StateInv
<1>4. EventInv
  BY <1>2 DEF EventInv
<1>5. TableInv /\ TrackInv
  BY <1>1 DEF TableInv, TrackInv
<1>6. FateInv
  BY <1>1 DEF FateInv, Init
<1> QED BY <1>3, <1>4, <1>5, <1>6 DEF IInv

------------------------------------------------------------------------------
(* The steps *)

\* Steps of the user program, and of the tables, that handle no event.
MovesOn ==
  /\ pc # "handling" /\ pc' # "handling"
  /\ pc' \in {"loaded", "attached", "polling", "handling", "detaching", "stopped"}
  /\ UNCHANGED <<exporter, kernelvars, ring, todo, event, shown, order, spoilt>>
  /\ faults' \in 0..MaxFaults

Value(m) ==
  IF FromTable(m.kind) THEN table[m.kind][m.id] ELSE [val |-> m.val, pass |-> event.pass]

\* The metrics ms of the event at hand are shown.
Shows(ms) ==
  /\ pc = "handling" /\ ms \subseteq ToSet(todo)
  /\ \A m \in ms : FromTable(m.kind) => m.id \in DOMAIN table[m.kind]
  /\ shown' = Put(shown, {Metric(m.kind, m.id, Value(m)) : m \in ms})
  /\ UNCHANGED <<exporter, kernelvars, ring, order, spoilt, faults>>
  /\ \/ /\ pc' = "handling" /\ event' = event
        /\ todo' \in Seq(Measured[event.report]) /\ ToSet(todo) \ ms \subseteq ToSet(todo')
     \/ /\ pc' = "polling" /\ event' = NoEvent /\ todo' = <<>> /\ ToSet(todo) \subseteq ms

\* The handler ends; what it has left to do is lost.
EndsHandler ==
  /\ pc = "handling" /\ pc' = "polling" /\ event' = NoEvent /\ todo' = <<>>
  /\ \/ spoilt' = spoilt \cup {event.pass}
     \/ todo = <<>> /\ spoilt' = spoilt
  /\ UNCHANGED <<exporter, kernelvars, ring, shown, order>>
  /\ faults' \in 0..MaxFaults

LEMMA FaultIs ==
  ASSUME StateInv, Fault
  PROVE  faults' \in 0..MaxFaults
BY Sizes DEF StateInv, Fault

LEMMA GaugeStep ==
  ASSUME IInv, SetGauge
  PROVE  EndsHandler \/ \E ms : Shows(ms)
<1> DEFINE m == Head(todo)  M == Measured[event.report]
<1>1. pc = "handling" /\ todo # <<>> /\ todo \in Seq(M) /\ faults \in 0..MaxFaults
  BY DEF IInv, StateInv, SetGauge
<1>2. UNCHANGED <<exporter, kernelvars, ring, order, faults>>
  BY DEF SetGauge
<1>3. CASE FromTable(m.kind) /\ m.id \notin DOMAIN table[m.kind]
  <2>1. Abort
    BY <1>3 DEF SetGauge
  <2> QED BY <1>1, <1>2, <2>1 DEF Abort, Return, EndsHandler
<1>4. CASE ~(FromTable(m.kind) /\ m.id \notin DOMAIN table[m.kind])
  <2>1. /\ shown' = Put(shown, {Metric(m.kind, m.id, Value(m))})
        /\ todo' = Tail(todo) /\ UNCHANGED <<pc, event, spoilt>>
    BY <1>4 DEF SetGauge, Value
  <2>2. /\ todo' \in Seq(M) /\ m \in ToSet(todo) /\ ToSet(todo) \ {m} \subseteq ToSet(todo')
    <3> HIDE DEF M
    <3>1. /\ Tail(todo) \in Seq(M) /\ Len(Tail(todo)) = Len(todo) - 1
          /\ \A i \in 1..Len(Tail(todo)) : Tail(todo)[i] = todo[i + 1]
      BY <1>1, HeadTailProperties
    <3>2. /\ Len(todo) \in Nat \ {0} /\ DOMAIN todo = 1..Len(todo)
          /\ DOMAIN Tail(todo) = 1..Len(Tail(todo)) /\ m = todo[1]
      BY <1>1, <3>1, LenProperties, EmptySeq
    <3>3. m \in ToSet(todo)
      BY <3>2 DEF ToSet
    <3>4. ASSUME NEW i \in DOMAIN todo, todo[i] # m PROVE todo[i] \in ToSet(Tail(todo))
      <4>1. i # 1
        BY <3>2, <3>4
      <4>2. i - 1 \in 1..Len(Tail(todo)) /\ (i - 1) + 1 = i
        BY <3>1, <3>2, <4>1
      <4>3. Tail(todo)[i - 1] = todo[i] /\ i - 1 \in DOMAIN Tail(todo)
        BY <3>1, <3>2, <4>2
      <4> QED BY <4>3 DEF ToSet
    <3>5. ToSet(todo) \ {m} \subseteq ToSet(Tail(todo))
      BY <3>4 DEF ToSet
    <3> QED BY <2>1, <3>1, <3>3, <3>5
  <2>3. {Metric(x.kind, x.id, Value(x)) : x \in {m}} = {Metric(m.kind, m.id, Value(m))}
    OBVIOUS
  <2>4. \A x \in {m} : FromTable(x.kind) => x.id \in DOMAIN table[x.kind]
    BY <1>4
  <2> HIDE DEF m, M
  <2>5. Shows({m})
    BY <1>1, <1>2, <2>1, <2>2, <2>3, <2>4 DEF Shows, M
  <2> QED BY <2>5
<1> QED BY <1>3, <1>4

LEMMA WriteStep ==
  ASSUME IInv, InfluxWrite \/ GraphiteSend
  PROVE  EndsHandler \/ \E ms : Shows(ms)
<1>1. /\ pc = "handling" /\ faults \in 0..MaxFaults /\ exporter \in {"influxdb", "graphite"}
      /\ UNCHANGED <<exporter, kernelvars, ring, order>>
      /\ (WriteAll /\ UNCHANGED faults) \/ (Fault /\ Abort)
  BY DEF IInv, StateInv, InfluxWrite, GraphiteSend
<1>2. CASE WriteAll /\ UNCHANGED faults
  <2> DEFINE ms == ToSet(todo)
  <2>1. \A k : ~FromTable(k)
    BY <1>1 DEF FromTable
  <2>2. {Metric(m.kind, m.id, Value(m)) : m \in ms} = Stamped(ms, event.pass)
    BY <2>1 DEF Value, Stamped
  <2>3. Return /\ shown' = Put(shown, Stamped(ms, event.pass)) /\ UNCHANGED spoilt
    BY <1>2 DEF WriteAll
  <2> HIDE DEF ms
  <2>4. Shows(ms)
    BY <1>1, <1>2, <2>1, <2>2, <2>3 DEF Shows, Return, ms
  <2> QED BY <2>4
<1>3. CASE Fault /\ Abort
  <2>1. faults' \in 0..MaxFaults
    BY <1>3, FaultIs DEF IInv
  <2> QED BY <1>1, <1>3, <2>1 DEF Abort, Return, EndsHandler
<1> QED BY <1>1, <1>2, <1>3

\* What a step may be.
LEMMA StepsAre ==
  ASSUME IInv, [Next]_vars
  PROVE  \/ UNCHANGED vars
         \/ \E c \in Cpus : Receive(c)
         \/ Evict
         \/ \E c \in Cpus : Poll(c)
         \/ MovesOn
         \/ EndsHandler
         \/ \E ms : Shows(ms)
<1>1. faults \in 0..MaxFaults
  BY DEF IInv, StateInv
<1>2. ASSUME Attach \/ OpenEvents \/ DetachAll PROVE MovesOn
  BY <1>1, <1>2 DEF Attach, OpenEvents, DetachAll, Goto, MovesOn, kernelvars
<1>3. ASSUME GaugesSet PROVE EndsHandler
  BY <1>1, <1>3 DEF GaugesSet, Return, EndsHandler
<1>4. ASSUME Interrupt PROVE MovesOn \/ EndsHandler
  <2>1. faults' \in 0..MaxFaults
    BY <1>4, FaultIs DEF IInv, Interrupt
  <2> QED BY <1>4, <2>1 DEF Interrupt, Abort, Return, MovesOn, EndsHandler
<1> QED BY <1>2, <1>3, <1>4, GaugeStep, WriteStep DEF Next, User

\* The metric of kind k with id i in a set of metrics.
Names(m, k, i) == m.kind = k /\ m.id = i

\* What a report does to metric i of kind k: its value differs from the
\* table's, or is as good as the table's, or the report does not have it.
NewValue(m, k, i) ==
  /\ Names(m, k, i) /\ Differs(table, m)
  /\ i \in DOMAIN table'[k] /\ table'[k][i] = [val |-> m.val, pass |-> passes']
  /\ i \in DOMAIN changed'[k] /\ changed'[k][i] = passes'
  /\ i \in DOMAIN last'[k] /\ last'[k][i] = m.val

OldValue(m, k, i) ==
  /\ Names(m, k, i) /\ ~Differs(table, m)
  /\ i \in DOMAIN table[k] /\ i \in DOMAIN table'[k] /\ table'[k][i] = table[k][i]
  /\ i \in DOMAIN changed[k] /\ i \in DOMAIN changed'[k] /\ changed'[k][i] = changed[k][i]
  /\ i \in DOMAIN last'[k] /\ last'[k][i] = m.val

NoValue(ms, k, i) ==
  /\ \A m \in ms : ~Names(m, k, i)
  /\ i \in DOMAIN table'[k] <=> i \in DOMAIN table[k]
  /\ i \in DOMAIN table[k] => table'[k][i] = table[k][i]
  /\ i \in DOMAIN changed'[k] <=> i \in DOMAIN changed[k]
  /\ i \in DOMAIN changed[k] => changed'[k][i] = changed[k][i]
  /\ i \in DOMAIN last'[k] <=> i \in DOMAIN last[k]
  /\ i \in DOMAIN last[k] => last'[k][i] = last[k][i]

\* The report r comes; its event, if it makes one, is ev.
Comes(r, c) ==
  LET changes == {m \in Measured[r] : Differs(table, m)}
      flags == {m.kind : m \in changes}
      ev == Event(passes', flags, r)
  IN /\ passes' = passes + 1
     /\ table' = Put(table, Stamped(changes, passes'))
     /\ changed' = Put(changed, {Metric(m.kind, m.id, passes') : m \in changes})
     /\ last' = Put(last, Measured[r])
     /\ UNCHANGED <<exporter, uservars, faults>>
     /\ \/ /\ ReadToTheEnd(r) /\ Len(ring[c]) < RingSize
           /\ ring' = [ring EXCEPT ![c] = Append(@, ev)] /\ spoilt' = spoilt
        \/ ring' = ring /\ (IF flags = {} THEN spoilt' = spoilt ELSE spoilt' = spoilt \cup {passes'})

LEMMA ReceiveIs ==
  ASSUME NEW c \in Cpus, Receive(c)
  PROVE  \E r \in Reports : Comes(r, c)
<1>1. PICK r \in Reports :
       LET changes == {m \in Measured[r] : Differs(table, m)}
           flags == {m.kind : m \in changes}
           sent == ReadToTheEnd(r) /\ Signals(flags) /\ HasRoom(c)
           lost == flags # {} /\ (~ReadToTheEnd(r) \/ (Signals(flags) /\ ~HasRoom(c)))
       IN /\ table' = Put(table, Stamped(changes, passes'))
          /\ changed' = Put(changed, {Metric(m.kind, m.id, passes') : m \in changes})
          /\ last' = Put(last, Measured[r])
          /\ ring' = IF sent THEN [ring EXCEPT ![c] = Append(@, Event(passes', flags, r))]
                             ELSE ring
          /\ spoilt' = IF lost THEN spoilt \cup {passes'} ELSE spoilt
  BY Zenon DEF Receive
<1>2. passes' = passes + 1 /\ UNCHANGED <<exporter, uservars, faults>>
  BY DEF Receive
<1> DEFINE changes == {m \in Measured[r] : Differs(table, m)}
           flags == {m.kind : m \in changes}
           sent == ReadToTheEnd(r) /\ Signals(flags) /\ HasRoom(c)
           lost == flags # {} /\ (~ReadToTheEnd(r) \/ (Signals(flags) /\ ~HasRoom(c)))
           ev == Event(passes', flags, r)
<1>3. /\ table' = Put(table, Stamped(changes, passes'))
      /\ changed' = Put(changed, {Metric(m.kind, m.id, passes') : m \in changes})
      /\ last' = Put(last, Measured[r])
  BY <1>1
<1>4. /\ ring' = IF sent THEN [ring EXCEPT ![c] = Append(@, ev)] ELSE ring
      /\ spoilt' = IF lost THEN spoilt \cup {passes'} ELSE spoilt
  BY <1>1
<1> HIDE DEF flags, ev
<1>5. \/ /\ ReadToTheEnd(r) /\ Len(ring[c]) < RingSize
         /\ ring' = [ring EXCEPT ![c] = Append(@, ev)] /\ spoilt' = spoilt
      \/ ring' = ring /\ (IF flags = {} THEN spoilt' = spoilt ELSE spoilt' = spoilt \cup {passes'})
  <2>1. CASE sent
    <3>1. ~lost
      BY <2>1
    <3> QED BY <1>4, <2>1, <3>1 DEF HasRoom
  <2>2. CASE ~sent
    <3>1. lost <=> flags # {}
      BY <2>2 DEF Signals
    <3> QED BY <1>4, <2>2, <3>1
  <2> QED BY <2>1, <2>2
<1> USE DEF flags, ev
<1> HIDE DEF changes
<1>6. Comes(r, c)
  BY <1>2, <1>3, <1>5, Zenon DEF Comes, changes
<1> QED BY <1>6

LEMMA ComesFor ==
  ASSUME TableInv, NEW r \in Reports, NEW c \in Cpus, Comes(r, c), NEW k \in Kinds, NEW i
  PROVE  \/ \E m \in Measured[r] : NewValue(m, k, i) \/ OldValue(m, k, i)
         \/ NoValue(Measured[r], k, i)
<1> DEFINE M == Measured[r]  changes == {m \in M : Differs(table, m)}
           T == Stamped(changes, passes')
           C == {Metric(m.kind, m.id, passes') : m \in changes}
<1>1. table' = Put(table, T) /\ changed' = Put(changed, C) /\ last' = Put(last, M)
  BY DEF Comes
<1>2. \A m, n \in M : m.kind = n.kind /\ m.id = n.id => m = n
  BY OneValue
<1>3. \A m \in M : m.kind \in Kinds
  BY MeasuredTypes
<1>4. \A x \in T : \E m \in M : /\ Differs(table, m) /\ x.kind = m.kind /\ x.id = m.id
                                /\ x.val = [val |-> m.val, pass |-> passes']
  BY MetricIs DEF Stamped
<1>5. \A m \in M : Differs(table, m) =>
        \E x \in T : x.kind = m.kind /\ x.id = m.id /\ x.val = [val |-> m.val, pass |-> passes']
  <2> SUFFICES ASSUME NEW m \in M, Differs(table, m)
               PROVE  \E x \in T : /\ x.kind = m.kind /\ x.id = m.id
                                   /\ x.val = [val |-> m.val, pass |-> passes']
    OBVIOUS
  <2> DEFINE v == [val |-> m.val, pass |-> passes']  x == Metric(m.kind, m.id, v)
  <2>1. m \in changes
    OBVIOUS
  <2>2. x \in T
    BY <2>1 DEF Stamped
  <2> HIDE DEF v, T
  <2>3. x.kind = m.kind /\ x.id = m.id /\ x.val = v
    BY MetricIs
  <2> HIDE DEF x
  <2> QED BY <2>2, <2>3 DEF v
<1>6. \A x \in C : \E m \in M : Differs(table, m) /\ x.kind = m.kind /\ x.id = m.id /\ x.val = passes'
  BY MetricIs
<1>7. \A m \in M : Differs(table, m) =>
        \E x \in C : x.kind = m.kind /\ x.id = m.id /\ x.val = passes'
  <2> SUFFICES ASSUME NEW m \in M, Differs(table, m)
               PROVE  \E x \in C : x.kind = m.kind /\ x.id = m.id /\ x.val = passes'
    OBVIOUS
  <2> DEFINE x == Metric(m.kind, m.id, passes')
  <2>1. m \in changes
    OBVIOUS
  <2>2. x \in C
    BY <2>1
  <2> HIDE DEF C
  <2>3. x.kind = m.kind /\ x.id = m.id /\ x.val = passes'
    BY MetricIs
  <2> HIDE DEF x
  <2> QED BY <2>2, <2>3
<1> HIDE DEF T, C, M
<1>8. \A x, y \in T : x.kind = y.kind /\ x.id = y.id => x.val = y.val
  <2> SUFFICES ASSUME NEW x \in T, NEW y \in T, x.kind = y.kind, x.id = y.id
               PROVE  x.val = y.val
    OBVIOUS
  <2>1. PICK m \in M : x.kind = m.kind /\ x.id = m.id /\ x.val = [val |-> m.val, pass |-> passes']
    BY <1>4
  <2>2. PICK n \in M : y.kind = n.kind /\ y.id = n.id /\ y.val = [val |-> n.val, pass |-> passes']
    BY <1>4
  <2>3. m = n
    BY <1>2, <2>1, <2>2
  <2> QED BY <2>1, <2>2, <2>3
<1>9. \A x, y \in C : x.kind = y.kind /\ x.id = y.id => x.val = y.val
  BY <1>6
<1>10. \A x, y \in M : x.kind = y.kind /\ x.id = y.id => x.val = y.val
  BY <1>2
<1>11. /\ i \in DOMAIN table'[k] <=> i \in DOMAIN table[k] \/ \E x \in T : x.kind = k /\ x.id = i
       /\ \A x \in T : x.kind = k /\ x.id = i => table'[k][i] = x.val
       /\ i \in DOMAIN table[k] /\ (\A x \in T : ~(x.kind = k /\ x.id = i)) => table'[k][i] = table[k][i]
  BY <1>1, <1>8, PutIs
<1>12. /\ i \in DOMAIN changed'[k] <=> i \in DOMAIN changed[k] \/ \E x \in C : x.kind = k /\ x.id = i
       /\ \A x \in C : x.kind = k /\ x.id = i => changed'[k][i] = x.val
       /\ i \in DOMAIN changed[k] /\ (\A x \in C : ~(x.kind = k /\ x.id = i)) => changed'[k][i] = changed[k][i]
  BY <1>1, <1>9, PutIs
<1>13. /\ i \in DOMAIN last'[k] <=> i \in DOMAIN last[k] \/ \E x \in M : x.kind = k /\ x.id = i
       /\ \A x \in M : x.kind = k /\ x.id = i => last'[k][i] = x.val
       /\ i \in DOMAIN last[k] /\ (\A x \in M : ~(x.kind = k /\ x.id = i)) => last'[k][i] = last[k][i]
  BY <1>1, <1>10, PutIs
<1>14. ASSUME NEW m \in M, Names(m, k, i), Differs(table, m) PROVE NewValue(m, k, i)
  <2>1. PICK x \in T : x.kind = k /\ x.id = i /\ x.val = [val |-> m.val, pass |-> passes']
    BY <1>5, <1>14 DEF Names
  <2>2. PICK y \in C : y.kind = k /\ y.id = i /\ y.val = passes'
    BY <1>7, <1>14 DEF Names
  <2>3. i \in DOMAIN table'[k] /\ table'[k][i] = [val |-> m.val, pass |-> passes']
    BY <1>11, <2>1
  <2>4. i \in DOMAIN changed'[k] /\ changed'[k][i] = passes'
    BY <1>12, <2>2
  <2>5. i \in DOMAIN last'[k] /\ last'[k][i] = m.val
    BY <1>13, <1>14 DEF Names
  <2> QED BY <1>14, <2>3, <2>4, <2>5 DEF NewValue
<1>15. ASSUME NEW m \in M, Names(m, k, i), ~Differs(table, m) PROVE OldValue(m, k, i)
  <2>1. \A n \in M : n.kind = k /\ n.id = i => n = m
    BY <1>2, <1>15 DEF Names
  <2>2. (\A x \in T : ~(x.kind = k /\ x.id = i)) /\ (\A x \in C : ~(x.kind = k /\ x.id = i))
    BY <1>4, <1>6, <1>15, <2>1
  <2>3. i \in DOMAIN table[k]
    BY <1>15 DEF Names, Differs
  <2>4. i \in DOMAIN changed[k]
    BY <2>3 DEF TableInv
  <2>5. i \in DOMAIN last'[k] /\ last'[k][i] = m.val
    BY <1>13, <1>15 DEF Names
  <2> QED BY <1>11, <1>12, <1>15, <2>2, <2>3, <2>4, <2>5 DEF OldValue
<1>16. ASSUME \A m \in M : ~Names(m, k, i) PROVE NoValue(M, k, i)
  <2>1. /\ \A x \in T : ~(x.kind = k /\ x.id = i)
        /\ \A x \in C : ~(x.kind = k /\ x.id = i)
        /\ \A x \in M : ~(x.kind = k /\ x.id = i)
    BY <1>4, <1>6, <1>16 DEF Names
  <2> QED BY <1>11, <1>12, <1>13, <1>16, <2>1 DEF NoValue
<1> QED BY <1>14, <1>15, <1>16 DEF M

\* What is shown of metric i of kind k after the metrics ms were shown.
LEMMA ShowsFor ==
  ASSUME IInv, NEW ms, Shows(ms), NEW k \in Kinds, NEW i
  PROVE  \/ \E m \in ms : Names(m, k, i) /\ i \in DOMAIN shown'[k] /\ shown'[k][i] = Value(m)
         \/ /\ \A m \in ms : ~Names(m, k, i)
            /\ i \in DOMAIN shown'[k] <=> i \in DOMAIN shown[k]
            /\ i \in DOMAIN shown[k] => shown'[k][i] = shown[k][i]
<1> DEFINE r == event.report  M == Measured[r]
           W == {Metric(m.kind, m.id, Value(m)) : m \in ms}
<1>1. event \in Events /\ todo \in Seq(M)
  BY DEF Shows, IInv, StateInv
<1>2. r \in Reports
  BY <1>1 DEF Events
<1>3. ms \subseteq M
  <2>1. ToSet(todo) \subseteq M
    <3> HIDE DEF M
    <3> QED BY <1>1, LenProperties, ElementOfSeq DEF ToSet
  <2> QED BY <2>1 DEF Shows
<1>4. shown' = Put(shown, W)
  BY DEF Shows
<1>5. \A m, n \in ms : m.kind = n.kind /\ m.id = n.id => m = n
  BY <1>2, <1>3, OneValue
<1>6. \A x \in W : \E m \in ms : x.kind = m.kind /\ x.id = m.id /\ x.val = Value(m)
  BY MetricIs
<1>7. \A m \in ms : \E x \in W : x.kind = m.kind /\ x.id = m.id /\ x.val = Value(m)
  <2> SUFFICES ASSUME NEW m \in ms
               PROVE  \E x \in W : x.kind = m.kind /\ x.id = m.id /\ x.val = Value(m)
    OBVIOUS
  <2> DEFINE x == Metric(m.kind, m.id, Value(m))
  <2>1. x \in W
    OBVIOUS
  <2> HIDE DEF W
  <2>2. x.kind = m.kind /\ x.id = m.id /\ x.val = Value(m)
    BY MetricIs
  <2> HIDE DEF x
  <2> QED BY <2>1, <2>2
<1> HIDE DEF W
<1>8. \A x, y \in W : x.kind = y.kind /\ x.id = y.id => x.val = y.val
  BY <1>5, <1>6
<1>9. /\ i \in DOMAIN shown'[k] <=> i \in DOMAIN shown[k] \/ \E x \in W : x.kind = k /\ x.id = i
      /\ \A x \in W : x.kind = k /\ x.id = i => shown'[k][i] = x.val
      /\ i \in DOMAIN shown[k] /\ (\A x \in W : ~(x.kind = k /\ x.id = i)) => shown'[k][i] = shown[k][i]
  BY <1>4, <1>8, PutIs
<1>10. ASSUME NEW m \in ms, Names(m, k, i)
       PROVE  i \in DOMAIN shown'[k] /\ shown'[k][i] = Value(m)
  <2>1. PICK x \in W : x.kind = k /\ x.id = i /\ x.val = Value(m)
    BY <1>7, <1>10 DEF Names
  <2> QED BY <1>9, <2>1
<1>11. ASSUME \A m \in ms : ~Names(m, k, i)
       PROVE  /\ i \in DOMAIN shown'[k] <=> i \in DOMAIN shown[k]
              /\ i \in DOMAIN shown[k] => shown'[k][i] = shown[k][i]
  <2>1. \A x \in W : ~(x.kind = k /\ x.id = i)
    BY <1>6, <1>11 DEF Names
  <2> QED BY <1>9, <2>1
<1> QED BY <1>10, <1>11

------------------------------------------------------------------------------
(* The events after a step *)

EventOf(r) ==
  Event(passes', {m.kind : m \in {x \in Measured[r] : Differs(table, x)}}, r)

LEMMA EventIs ==
  ASSUME NEW n \in Nat, NEW flags \in SUBSET Kinds, NEW r \in Reports
  PROVE  /\ Event(n, flags, r) \in Events
         /\ Event(n, flags, r).pass = n /\ Event(n, flags, r).flags = flags
         /\ Event(n, flags, r).report = r
BY DEF Event, Events

LEMMA ToSetAppend ==
  ASSUME NEW S, NEW s \in Seq(S), NEW x \in S
  PROVE  Append(s, x) \in Seq(S) /\ ToSet(Append(s, x)) = ToSet(s) \cup {x}
<1> DEFINE a == Append(s, x)
<1>1. /\ a \in Seq(S) /\ Len(a) = Len(s) + 1 /\ a[Len(s) + 1] = x
      /\ \A i \in 1..Len(s) : a[i] = s[i]
  BY AppendProperties
<1>2. /\ Len(s) \in Nat /\ DOMAIN s = 1..Len(s) /\ DOMAIN a = 1..(Len(s) + 1)
  BY <1>1, LenProperties
<1> HIDE DEF a
<1>3. \A i \in DOMAIN a : a[i] \in ToSet(s) \cup {x}
  BY <1>1, <1>2 DEF ToSet
<1>4. \A i \in DOMAIN s : s[i] \in ToSet(a)
  BY <1>1, <1>2 DEF ToSet
<1>5. x \in ToSet(a)
  BY <1>1, <1>2 DEF ToSet
<1>6. ToSet(a) = ToSet(s) \cup {x}
  BY <1>3, <1>4, <1>5, Zenon DEF ToSet
<1> QED BY <1>1, <1>6 DEF a

LEMMA ToSetTail ==
  ASSUME NEW S, NEW s \in Seq(S), s # <<>>
  PROVE  /\ Tail(s) \in Seq(S) /\ Head(s) \in S /\ Len(Tail(s)) <= Len(s)
         /\ ToSet(s) = {Head(s)} \cup ToSet(Tail(s))
<1>1. /\ Tail(s) \in Seq(S) /\ Head(s) \in S /\ Len(Tail(s)) = Len(s) - 1
      /\ \A i \in 1..Len(Tail(s)) : Tail(s)[i] = s[i + 1]
  BY HeadTailProperties
<1>2. /\ Len(s) \in Nat \ {0} /\ DOMAIN s = 1..Len(s) /\ Head(s) = s[1]
      /\ DOMAIN Tail(s) = 1..Len(Tail(s))
  BY <1>1, LenProperties, EmptySeq
<1> DEFINE u == Tail(s)
<1> HIDE DEF u
<1>3. ASSUME NEW i \in DOMAIN s PROVE s[i] \in {Head(s)} \cup ToSet(Tail(s))
  <2>1. CASE i = 1
    BY <1>2, <2>1
  <2>2. CASE i # 1
    <3>1. i - 1 \in 1..Len(Tail(s)) /\ (i - 1) + 1 = i
      BY <1>1, <1>2, <2>2
    <3>2. Tail(s)[i - 1] = s[i] /\ i - 1 \in DOMAIN Tail(s)
      BY <1>1, <1>2, <3>1
    <3> QED BY <3>2 DEF ToSet
  <2> QED BY <2>1, <2>2
<1>4. Head(s) \in ToSet(s)
  BY <1>2 DEF ToSet
<1>5. ASSUME NEW i \in DOMAIN Tail(s) PROVE Tail(s)[i] \in ToSet(s)
  <2>1. Tail(s)[i] = s[i + 1] /\ i + 1 \in DOMAIN s
    BY <1>1, <1>2
  <2> QED BY <2>1 DEF ToSet
<1>6. ToSet(s) = {Head(s)} \cup ToSet(Tail(s))
  BY <1>3, <1>4, <1>5, Zenon DEF ToSet
<1> QED BY <1>1, <1>2, <1>6

LEMMA ComesToRings ==
  ASSUME StateInv, NEW r \in Reports, NEW c \in Cpus, Comes(r, c)
  PROVE  /\ EventOf(r) \in Events /\ EventOf(r).pass = passes' /\ EventOf(r).report = r
         /\ \A m \in Measured[r] : Differs(table, m) => m.kind \in EventOf(r).flags
         /\ ring' \in [Cpus -> Seq(Events)] /\ \A d \in Cpus : Len(ring'[d]) <= RingSize
         /\ \A e \in InRings' : e \in InRings \/ (e = EventOf(r) /\ ReadToTheEnd(r))
         /\ InRings \subseteq InRings'
         /\ spoilt \subseteq spoilt' /\ spoilt' \subseteq spoilt \cup {passes'}
         /\ \A m \in Measured[r] : Differs(table, m) => passes' \in spoilt' \/ EventOf(r) \in InRings'
<1> DEFINE changes == {m \in Measured[r] : Differs(table, m)}
           flags == {m.kind : m \in changes}
           ev == EventOf(r)
<1>1. passes \in Nat /\ passes' = passes + 1 /\ ring \in [Cpus -> Seq(Events)]
      /\ \A d \in Cpus : Len(ring[d]) <= RingSize
  BY DEF StateInv, Comes
<1>2. flags \in SUBSET Kinds /\ \A m \in changes : m.kind \in flags
  BY MeasuredTypes
<1>3. ev = Event(passes', flags, r)
  BY DEF EventOf
<1>4. \/ /\ ReadToTheEnd(r) /\ Len(ring[c]) < RingSize
         /\ ring' = [ring EXCEPT ![c] = Append(@, ev)] /\ spoilt' = spoilt
      \/ ring' = ring /\ (IF flags = {} THEN spoilt' = spoilt ELSE spoilt' = spoilt \cup {passes'})
  BY <1>3 DEF Comes
<1> HIDE DEF flags, ev
<1>5. ev \in Events /\ ev.pass = passes' /\ ev.flags = flags /\ ev.report = r
  <2>1. passes' \in Nat
    BY <1>1
  <2> QED BY <1>2, <1>3, <2>1, EventIs
<1>6. /\ ring' \in [Cpus -> Seq(Events)] /\ \A d \in Cpus : Len(ring'[d]) <= RingSize
      /\ \A e \in InRings' : e \in InRings \/ (e = ev /\ ReadToTheEnd(r))
      /\ InRings \subseteq InRings'
      /\ spoilt \subseteq spoilt' /\ spoilt' \subseteq spoilt \cup {passes'}
      /\ flags # {} => passes' \in spoilt' \/ ev \in InRings'
  <2>1. CASE /\ ReadToTheEnd(r) /\ Len(ring[c]) < RingSize
             /\ ring' = [ring EXCEPT ![c] = Append(@, ev)] /\ spoilt' = spoilt
    <3>0. ring[c] \in Seq(Events)
      BY <1>1
    <3>1. Append(ring[c], ev) \in Seq(Events) /\ ToSet(Append(ring[c], ev)) = ToSet(ring[c]) \cup {ev}
      BY <1>5, <3>0, ToSetAppend
    <3>2. Len(Append(ring[c], ev)) <= RingSize
      <4>1. Len(ring[c]) \in Nat /\ Len(Append(ring[c], ev)) = Len(ring[c]) + 1
        BY <1>5, <3>0, LenProperties, AppendProperties
      <4> QED BY <2>1, <4>1, Sizes
    <3>3. ring'[c] = Append(ring[c], ev) /\ \A d \in Cpus : d # c => ring'[d] = ring[d]
      BY <1>1, <2>1
    <3>4. ring' \in [Cpus -> Seq(Events)]
      BY <1>1, <2>1, <3>1
    <3>5. \A d \in Cpus : Len(ring'[d]) <= RingSize
      BY <1>1, <3>2, <3>3
    <3>6. \A e \in InRings' : e \in InRings \/ e = ev
      BY <3>1, <3>3 DEF InRings
    <3>7. InRings \subseteq InRings' /\ ev \in InRings'
      BY <1>5, <3>1, <3>3 DEF InRings
    <3> QED BY <2>1, <3>4, <3>5, <3>6, <3>7
  <2>2. CASE ring' = ring /\ (IF flags = {} THEN spoilt' = spoilt ELSE spoilt' = spoilt \cup {passes'})
    <3>1. InRings' = InRings
      BY <2>2 DEF InRings
    <3> QED BY <1>1, <2>2, <3>1
  <2> QED BY <1>4, <2>1, <2>2
<1>7. \A m \in changes : flags # {} /\ m.kind \in ev.flags
  BY <1>2, <1>5
<1> QED BY <1>5, <1>6, <1>7 DEF ev

LEMMA PollIs ==
  ASSUME StateInv, NEW c \in Cpus, Poll(c)
  PROVE  /\ pc = "polling" /\ pc' = "handling" /\ event' \in InRings /\ event' \in Events
         /\ ring' \in [Cpus -> Seq(Events)] /\ \A d \in Cpus : Len(ring'[d]) <= RingSize
         /\ InRings' \subseteq InRings /\ InRings \subseteq InRings' \cup {event'}
         /\ todo' = Metrics(event') /\ order' = Append(order, event'.pass)
         /\ UNCHANGED <<exporter, kernelvars, shown, faults, spoilt>>
<1>1. /\ pc = "polling" /\ pc' = "handling" /\ ring[c] # <<>> /\ event' = Head(ring[c])
      /\ ring' = [ring EXCEPT ![c] = Tail(@)]
      /\ todo' = Metrics(event') /\ order' = Append(order, event'.pass)
      /\ UNCHANGED <<exporter, kernelvars, shown, faults, spoilt>>
  BY DEF Poll, Readable
<1>2. ring \in [Cpus -> Seq(Events)] /\ \A d \in Cpus : Len(ring[d]) <= RingSize
  BY DEF StateInv
<1>3. ring[c] \in Seq(Events)
  BY <1>2
<1>4. /\ Tail(ring[c]) \in Seq(Events) /\ Head(ring[c]) \in Events
      /\ Len(Tail(ring[c])) <= Len(ring[c])
      /\ ToSet(ring[c]) = {Head(ring[c])} \cup ToSet(Tail(ring[c]))
  BY <1>1, <1>3, ToSetTail
<1>5. ring'[c] = Tail(ring[c]) /\ \A d \in Cpus : d # c => ring'[d] = ring[d]
  BY <1>1, <1>2
<1>6. ring' \in [Cpus -> Seq(Events)]
  BY <1>1, <1>2, <1>4
<1>7. \A d \in Cpus : Len(ring'[d]) <= RingSize
  <2>1. Len(ring[c]) \in Nat /\ Len(Tail(ring[c])) \in Nat /\ Len(ring[c]) <= RingSize
    BY <1>2, <1>3, <1>4, LenProperties
  <2> QED BY <1>2, <1>4, <1>5, <2>1, Sizes
<1>8. event' \in InRings /\ event' \in Events
  BY <1>1, <1>4 DEF InRings
<1>9. InRings' \subseteq InRings
  BY <1>4, <1>5 DEF InRings
<1>10. InRings \subseteq InRings' \cup {event'}
  BY <1>1, <1>4, <1>5 DEF InRings
<1> QED BY <1>1, <1>6, <1>7, <1>8, <1>9, <1>10

LEMMA RingsStay ==
  ASSUME ring' = ring
  PROVE  InRings' = InRings
BY DEF InRings

------------------------------------------------------------------------------
(* Every step keeps the invariant *)

LEMMA NothingChanges ==
  ASSUME IInv, UNCHANGED vars
  PROVE  IInv'
<1> USE DEF vars, kernelvars, uservars
<1>1. StateInv'
  BY DEF IInv, StateInv
<1>2. InRings' = InRings /\ Handled' = Handled /\ Waiting' = Waiting
  BY DEF InRings, Handled, Waiting
<1>3. EventInv'
  BY <1>2 DEF IInv, EventInv
<1>4. TableInv'
  BY DEF IInv, TableInv
<1>5. TrackInv'
  <2>1. \A k, i, t : Tracks(k, i, t)' <=> Tracks(k, i, t)
    BY <1>2 DEF Tracks, UpToDate, FromTable
  <2> QED BY <2>1 DEF IInv, TrackInv
<1>6. FateInv'
  BY <1>2 DEF IInv, FateInv, Lost, Sent, InHand, Late, UpToDate, FromTable, Overtaken
<1> QED BY <1>1, <1>3, <1>4, <1>5, <1>6 DEF IInv

LEMMA StepKeepsState ==
  ASSUME IInv, \/ \E c \in Cpus : Receive(c)
               \/ Evict
               \/ \E c \in Cpus : Poll(c)
               \/ MovesOn
               \/ EndsHandler
               \/ \E ms : Shows(ms)
  PROVE  StateInv'
<1>0. StateInv
  BY DEF IInv
<1>1. ASSUME NEW c \in Cpus, Receive(c) PROVE StateInv'
  <2>1. PICK r \in Reports : Comes(r, c)
    BY <1>1, ReceiveIs
  <2>2. /\ ring' \in [Cpus -> Seq(Events)] /\ \A d \in Cpus : Len(ring'[d]) <= RingSize
        /\ spoilt' \subseteq spoilt \cup {passes'}
    BY <1>0, <2>1, ComesToRings
  <2>3. passes' = passes + 1 /\ UNCHANGED <<exporter, uservars, faults>>
    BY <2>1 DEF Comes
  <2>4. passes' \in Nat /\ spoilt' \subseteq 1..passes'
    BY <1>0, <2>2, <2>3 DEF StateInv
  <2> QED BY <1>0, <2>2, <2>3, <2>4 DEF StateInv, uservars
<1>2. ASSUME Evict PROVE StateInv'
  <2>1. faults' \in 0..MaxFaults
    BY <1>0, <1>2, FaultIs DEF Evict
  <2> QED BY <1>0, <1>2, <2>1 DEF Evict, StateInv, uservars
<1>3. ASSUME NEW c \in Cpus, Poll(c) PROVE StateInv'
  <2>1. /\ pc = "polling" /\ pc' = "handling" /\ event' \in InRings /\ event' \in Events
        /\ ring' \in [Cpus -> Seq(Events)] /\ \A d \in Cpus : Len(ring'[d]) <= RingSize
        /\ todo' = Metrics(event') /\ order' = Append(order, event'.pass)
        /\ UNCHANGED <<exporter, kernelvars, shown, faults, spoilt>>
    BY <1>0, <1>3, PollIs
  <2>2. PICK e \in Events : e = event'
    BY <2>1
  <2>3. ReadToTheEnd(e.report) /\ e.pass \in 1..passes
    BY <2>1, <2>2 DEF IInv, EventInv, Waiting
  <2>4. Metrics(e) \in Seq(Measured[e.report])
    BY <2>3, MetricsAre
  <2>5. passes \in Nat /\ order \in Seq(Nat)
    BY <1>0 DEF StateInv
  <2>6. Append(order, e.pass) \in Seq(Nat)
    <3>1. e.pass \in Nat
      BY <2>3, <2>5
    <3> QED BY <2>5, <3>1, ToSetAppend
  <2> QED BY <1>0, <2>1, <2>2, <2>4, <2>6 DEF StateInv, kernelvars
<1>4. ASSUME MovesOn PROVE StateInv'
  BY <1>0, <1>4 DEF MovesOn, StateInv, kernelvars
<1>5. ASSUME EndsHandler PROVE StateInv'
  <2>1. spoilt' \subseteq 1..passes
    <3>1. pc = "handling" /\ (spoilt' = spoilt \cup {event.pass} \/ spoilt' = spoilt)
      BY <1>5 DEF EndsHandler
    <3>2. event.pass \in 1..passes
      BY <3>1 DEF IInv, EventInv, Waiting, Handled
    <3>3. spoilt \subseteq 1..passes
      BY <1>0 DEF StateInv
    <3> QED BY <3>1, <3>2, <3>3
  <2> QED BY <1>0, <1>5, <2>1 DEF EndsHandler, StateInv, kernelvars
<1>6. ASSUME NEW ms, Shows(ms) PROVE StateInv'
  BY <1>0, <1>6 DEF Shows, StateInv, kernelvars
<1> QED BY <1>1, <1>2, <1>3, <1>4, <1>5, <1>6

\* What is in a ring or in hand after a step was there before, but for the
\* event of the report that came.
LEMMA WaitingIs ==
  ASSUME StateInv, \/ Evict
                   \/ \E c \in Cpus : Poll(c)
                   \/ MovesOn
                   \/ EndsHandler
                   \/ \E ms : Shows(ms)
  PROVE  Waiting' \subseteq Waiting
<1>1. ASSUME Evict \/ MovesOn \/ EndsHandler \/ \E ms : Shows(ms)
      PROVE  Waiting' \subseteq Waiting
  <2>1. ring' = ring
    BY <1>1 DEF Evict, MovesOn, EndsHandler, Shows
  <2>2. pc' = "handling" => pc = "handling" /\ event' = event
    BY <1>1 DEF Evict, MovesOn, EndsHandler, Shows, uservars
  <2> QED BY <2>1, <2>2, RingsStay DEF Waiting, Handled
<1>2. ASSUME NEW c \in Cpus, Poll(c) PROVE Waiting' \subseteq Waiting
  <2>1. event' \in InRings /\ InRings' \subseteq InRings
    BY <1>2, PollIs
  <2> QED BY <2>1 DEF Waiting, Handled
<1> QED BY <1>1, <1>2

LEMMA StepKeepsEvents ==
  ASSUME IInv, \/ \E c \in Cpus : Receive(c)
               \/ Evict
               \/ \E c \in Cpus : Poll(c)
               \/ MovesOn
               \/ EndsHandler
               \/ \E ms : Shows(ms)
  PROVE  EventInv'
<1>0. StateInv /\ TableInv /\ EventInv
  BY DEF IInv
<1>1. ASSUME NEW c \in Cpus, Receive(c) PROVE EventInv'
  <2>1. PICK r \in Reports : Comes(r, c)
    BY <1>1, ReceiveIs
  <2>2. /\ EventOf(r).pass = passes' /\ EventOf(r).report = r
        /\ \A e \in InRings' : e \in InRings \/ (e = EventOf(r) /\ ReadToTheEnd(r))
    BY <1>0, <2>1, ComesToRings
  <2>3. passes' = passes + 1 /\ passes \in Nat /\ pc' = pc /\ event' = event
    BY <1>0, <2>1 DEF Comes, StateInv, uservars
  <2>4. \A k \in Kinds : \A i : i \in DOMAIN last[k] => i \in DOMAIN last'[k]
    <3> SUFFICES ASSUME NEW k \in Kinds, NEW i, i \in DOMAIN last[k] PROVE i \in DOMAIN last'[k]
      OBVIOUS
    <3>1. \/ \E m \in Measured[r] : NewValue(m, k, i) \/ OldValue(m, k, i)
          \/ NoValue(Measured[r], k, i)
      BY <1>0, <2>1, ComesFor
    <3> QED BY <3>1 DEF NewValue, OldValue, NoValue
  <2>5. \A m \in Measured[r] : m.id \in DOMAIN last'[m.kind]
    <3> SUFFICES ASSUME NEW m \in Measured[r] PROVE m.id \in DOMAIN last'[m.kind]
      OBVIOUS
    <3>1. m.kind \in Kinds
      BY MeasuredTypes
    <3> DEFINE k == m.kind  i == m.id
    <3>2. Names(m, k, i)
      BY DEF Names
    <3> HIDE DEF k, i
    <3>3. \/ \E x \in Measured[r] : NewValue(x, k, i) \/ OldValue(x, k, i)
          \/ NoValue(Measured[r], k, i)
      BY <1>0, <2>1, <3>1, ComesFor DEF k
    <3>4. i \in DOMAIN last'[k]
      BY <3>2, <3>3 DEF NewValue, OldValue, NoValue
    <3> QED BY <3>4 DEF k, i
  <2> SUFFICES ASSUME NEW e \in Waiting'
               PROVE  /\ e.pass \in 1..passes' /\ ReadToTheEnd(e.report)
                      /\ \A m \in Measured[e.report] : m.id \in DOMAIN last'[m.kind]
    BY DEF EventInv
  <2>6. e \in Waiting \/ (e = EventOf(r) /\ ReadToTheEnd(r))
    BY <2>2, <2>3 DEF Waiting, Handled
  <2>7. CASE e \in Waiting
    <3>1. /\ e.pass \in 1..passes /\ ReadToTheEnd(e.report)
          /\ \A m \in Measured[e.report] : m.id \in DOMAIN last[m.kind]
      BY <1>0, <2>7 DEF EventInv
    <3>2. e.report \in Reports
      BY <1>0, <2>7 DEF StateInv, Waiting, Handled, InRings, Events
    <3>3. \A m \in Measured[e.report] : m.kind \in Kinds
      BY <3>2, MeasuredTypes
    <3> QED BY <2>3, <2>4, <3>1, <3>3
  <2>8. CASE e = EventOf(r) /\ ReadToTheEnd(r)
    BY <2>2, <2>3, <2>5, <2>8
  <2> QED BY <2>6, <2>7, <2>8
<1>2. ASSUME \/ Evict
             \/ \E c \in Cpus : Poll(c)
             \/ MovesOn
             \/ EndsHandler
             \/ \E ms : Shows(ms)
      PROVE  EventInv'
  <2>1. passes' = passes /\ last' = last
    BY <1>2 DEF Evict, Poll, MovesOn, EndsHandler, Shows, kernelvars
  <2>2. Waiting' \subseteq Waiting
    BY <1>0, <1>2, WaitingIs
  <2> QED BY <1>0, <2>1, <2>2 DEF EventInv
<1> QED BY <1>1, <1>2

LEMMA TracksValue ==
  ASSUME IInv, NEW k \in Kinds, NEW i \in DOMAIN table[k]
  PROVE  /\ i \in DOMAIN changed[k]
         /\ \E t \in Int : Tracks(k, i, t) /\ table[k][i] = [val |-> t, pass |-> changed[k][i]]
<1>1. i \in DOMAIN changed[k]
  BY DEF IInv, TableInv
<1>2. PICK t \in Int : Tracks(k, i, t)
  BY <1>1 DEF IInv, TrackInv
<1> QED BY <1>1, <1>2 DEF Tracks

\* Where a shown value comes from.
LEMMA ValueIs ==
  ASSUME IInv, NEW ms, Shows(ms), NEW m \in ms
  PROVE  /\ event \in Waiting /\ event \in Events /\ m \in Measured[event.report]
         /\ m \in ToSet(todo) /\ m.kind \in Kinds /\ m.val \in Int /\ event.pass \in 1..passes
         /\ m.id \in DOMAIN last[m.kind]
         /\ Value(m).pass \in 1..passes /\ Value(m).val \in Int
<1>1. event \in Events /\ todo \in Seq(Measured[event.report]) /\ event \in Waiting
  BY DEF Shows, IInv, StateInv, Waiting, Handled
<1>2. m \in ToSet(todo)
  BY DEF Shows
<1>3. m \in Measured[event.report]
  <2> DEFINE M == Measured[event.report]
  <2>1. todo \in Seq(M)
    BY <1>1
  <2> HIDE DEF M
  <2>2. m \in M
    BY <1>2, <2>1, LenProperties, ElementOfSeq DEF ToSet
  <2> QED BY <2>2 DEF M
<1>4. m.kind \in Kinds /\ m.val \in Int
  <2>1. event.report \in Reports
    BY <1>1 DEF Events
  <2> QED BY <1>3, <2>1, MeasuredTypes
<1>5. event.pass \in 1..passes /\ m.id \in DOMAIN last[m.kind]
  BY <1>1, <1>3 DEF IInv, EventInv
<1>6. CASE FromTable(m.kind)
  <2> DEFINE k == m.kind  i == m.id
  <2>1. i \in DOMAIN table[k]
    BY <1>6 DEF Shows
  <2>2. Value(m) = table[k][i]
    BY <1>6 DEF Value
  <2>3. k \in Kinds
    BY <1>4
  <2> HIDE DEF k, i
  <2>4. PICK t \in Int : table[k][i] = [val |-> t, pass |-> changed[k][i]]
    BY <2>1, <2>3, TracksValue
  <2>5. changed[k][i] \in 1..passes
    BY <2>1, <2>3 DEF IInv, TableInv
  <2> QED BY <1>1, <1>2, <1>3, <1>4, <1>5, <2>2, <2>4, <2>5
<1>7. CASE ~FromTable(m.kind)
  BY <1>1, <1>2, <1>3, <1>4, <1>5, <1>7 DEF Value
<1> QED BY <1>6, <1>7

LEMMA StepKeepsTables ==
  ASSUME IInv, \/ \E c \in Cpus : Receive(c)
               \/ Evict
               \/ \E c \in Cpus : Poll(c)
               \/ MovesOn
               \/ EndsHandler
               \/ \E ms : Shows(ms)
  PROVE  TableInv'
<1>0. StateInv /\ TableInv
  BY DEF IInv
<1>1. ASSUME NEW c \in Cpus, Receive(c) PROVE TableInv'
  <2>1. PICK r \in Reports : Comes(r, c)
    BY <1>1, ReceiveIs
  <2>2. passes' = passes + 1 /\ passes \in Nat /\ shown' = shown
    BY <1>0, <2>1 DEF Comes, StateInv, uservars
  <2> SUFFICES ASSUME NEW k \in Kinds, NEW i
               PROVE  /\ i \in DOMAIN table'[k] => i \in DOMAIN changed'[k]
                      /\ i \in DOMAIN changed'[k] <=> i \in DOMAIN last'[k]
                      /\ i \in DOMAIN shown'[k] => i \in DOMAIN last'[k]
                      /\ i \in DOMAIN changed'[k] => changed'[k][i] \in 1..passes' /\ last'[k][i] \in Int
                      /\ i \in DOMAIN shown'[k] =>
                           shown'[k][i].pass \in 1..passes' /\ shown'[k][i].val \in Int
    BY Zenon DEF TableInv
  <2>3. /\ i \in DOMAIN table[k] => i \in DOMAIN changed[k]
        /\ i \in DOMAIN changed[k] <=> i \in DOMAIN last[k]
        /\ i \in DOMAIN shown[k] => i \in DOMAIN last[k]
        /\ i \in DOMAIN changed[k] => changed[k][i] \in 1..passes /\ last[k][i] \in Int
        /\ i \in DOMAIN shown[k] => shown[k][i].pass \in 1..passes /\ shown[k][i].val \in Int
    BY <1>0 DEF TableInv
  <2>4. \/ \E m \in Measured[r] : NewValue(m, k, i) \/ OldValue(m, k, i)
        \/ NoValue(Measured[r], k, i)
    BY <1>0, <2>1, ComesFor
  <2>5. CASE \E m \in Measured[r] : NewValue(m, k, i)
    <3>1. PICK m \in Measured[r] : NewValue(m, k, i)
      BY <2>5
    <3>2. m.val \in Int
      BY MeasuredTypes
    <3> QED BY <2>2, <2>3, <3>1, <3>2 DEF NewValue
  <2>6. CASE \E m \in Measured[r] : OldValue(m, k, i)
    <3>1. PICK m \in Measured[r] : OldValue(m, k, i)
      BY <2>6
    <3>2. m.val \in Int
      BY MeasuredTypes
    <3> QED BY <2>2, <2>3, <3>1, <3>2 DEF OldValue
  <2>7. CASE NoValue(Measured[r], k, i)
    BY <2>2, <2>3, <2>7 DEF NoValue
  <2> QED BY <2>4, <2>5, <2>6, <2>7
<1>2. ASSUME Evict PROVE TableInv'
  <2>1. /\ \A k \in Kinds : DOMAIN table'[k] \subseteq DOMAIN table[k]
        /\ UNCHANGED <<shown, last, changed, passes>>
    <3>1. PICK k \in Kinds : \E i \in DOMAIN table[k] :
            table' = [table EXCEPT ![k] = [j \in DOMAIN @ \ {i} |-> @[j]]]
      BY <1>2 DEF Evict
    <3>2. PICK i \in DOMAIN table[k] :
            table' = [table EXCEPT ![k] = [j \in DOMAIN @ \ {i} |-> @[j]]]
      BY <3>1
    <3>3. ASSUME NEW l \in Kinds PROVE DOMAIN table'[l] \subseteq DOMAIN table[l]
      <4>1. table'[l] = table[l] \/ table'[l] = [j \in DOMAIN table[l] \ {i} |-> table[l][j]]
        BY <3>2
      <4> QED BY <4>1
    <3> QED BY <1>2, <3>3 DEF Evict, uservars
  <2> QED BY <1>0, <2>1 DEF TableInv
<1>3. ASSUME \/ \E c \in Cpus : Poll(c)
             \/ MovesOn
             \/ EndsHandler
      PROVE  TableInv'
  <2>1. UNCHANGED <<table, shown, last, changed, passes>>
    BY <1>3 DEF Poll, MovesOn, EndsHandler, kernelvars
  <2> QED BY <1>0, <2>1 DEF TableInv
<1>4. ASSUME NEW ms, Shows(ms) PROVE TableInv'
  <2>1. UNCHANGED <<table, last, changed, passes>>
    BY <1>4 DEF Shows, kernelvars
  <2>2. ASSUME NEW k \in Kinds, NEW i, i \in DOMAIN shown'[k]
        PROVE  i \in DOMAIN last[k] /\ shown'[k][i].pass \in 1..passes /\ shown'[k][i].val \in Int
    <3>1. \/ \E m \in ms : Names(m, k, i) /\ i \in DOMAIN shown'[k] /\ shown'[k][i] = Value(m)
          \/ /\ \A m \in ms : ~Names(m, k, i)
             /\ i \in DOMAIN shown'[k] <=> i \in DOMAIN shown[k]
             /\ i \in DOMAIN shown[k] => shown'[k][i] = shown[k][i]
      BY <1>4, ShowsFor
    <3>2. CASE \E m \in ms : Names(m, k, i) /\ shown'[k][i] = Value(m)
      <4>1. PICK m \in ms : Names(m, k, i) /\ shown'[k][i] = Value(m)
        BY <3>2
      <4>2. m.id \in DOMAIN last[m.kind] /\ Value(m).pass \in 1..passes /\ Value(m).val \in Int
        BY <1>4, ValueIs
      <4> QED BY <4>1, <4>2 DEF Names
    <3>3. CASE i \in DOMAIN shown[k] /\ shown'[k][i] = shown[k][i]
      BY <1>0, <3>3 DEF TableInv
    <3> QED BY <2>2, <3>1, <3>2, <3>3
  <2> QED BY <1>0, <2>1, <2>2 DEF TableInv
<1> QED BY <1>1, <1>2, <1>3, <1>4

LEMMA SlackIs ==
  ASSUME NEW k \in Kinds
  PROVE  /\ Slack(k) \in Nat
         /\ \A a, b \in Int : ~Exceeds(k, a, b) => Distance(a, b) <= Slack(k)
<1>1. Threshold[k] \in Nat /\ (k = "queue" => Threshold[k] > 0)
  BY XdpAssumption DEF XdpAssumption
<1> QED BY <1>1 DEF Slack, Exceeds, Distance

LEMMA StepKeepsTracks ==
  ASSUME IInv, \/ \E c \in Cpus : Receive(c)
               \/ Evict
               \/ \E c \in Cpus : Poll(c)
               \/ MovesOn
               \/ EndsHandler
               \/ \E ms : Shows(ms)
  PROVE  TrackInv'
<1>0. StateInv /\ TableInv /\ EventInv /\ TrackInv
  BY DEF IInv
<1>1. ASSUME NEW c \in Cpus, Receive(c), NEW k \in Kinds, NEW i, i \in DOMAIN changed'[k]
      PROVE  \E t \in Int : Tracks(k, i, t)'
  <2>1. PICK r \in Reports : Comes(r, c)
    BY <1>1, ReceiveIs
  <2>2. passes' = passes + 1 /\ passes \in Nat /\ UNCHANGED <<exporter, uservars>>
    BY <1>0, <2>1 DEF Comes, StateInv
  <2>3. /\ EventOf(r).pass = passes' /\ EventOf(r).report = r
        /\ \A e \in InRings' : e \in InRings \/ (e = EventOf(r) /\ ReadToTheEnd(r))
    BY <1>0, <2>1, ComesToRings
  <2>4. \A e \in Waiting' : e \in Waiting \/ e = EventOf(r)
    BY <2>2, <2>3 DEF Waiting, Handled, uservars
  <2>5. \A e \in Waiting : e.pass \in 1..passes
    BY <1>0 DEF EventInv
  <2>6. i \in DOMAIN shown[k] => shown[k][i].pass \in 1..passes
    BY <1>0 DEF TableInv
  <2>7. FromTable(k)' <=> FromTable(k)
    BY <2>2 DEF FromTable
  <2>8. \/ \E m \in Measured[r] : NewValue(m, k, i) \/ OldValue(m, k, i)
        \/ NoValue(Measured[r], k, i)
    BY <1>0, <2>1, ComesFor
  <2>9. CASE \E m \in Measured[r] : NewValue(m, k, i)
    <3>1. PICK m \in Measured[r] : NewValue(m, k, i)
      BY <2>9
    <3>2. m.val \in Int /\ Slack(k) \in Nat /\ Distance(m.val, m.val) = 0
      BY MeasuredTypes, SlackIs DEF Distance
    <3>3. changed'[k][i] = passes + 1
      BY <2>2, <3>1 DEF NewValue
    <3>4. ASSUME NEW e \in Waiting', e.pass >= changed'[k][i],
                 NEW n \in Measured[e.report], n.kind = k, n.id = i
          PROVE  Distance(n.val, m.val) <= Slack(k)
      <4>1. ~(e \in Waiting)
        BY <2>2, <2>5, <3>3, <3>4
      <4>2. n \in Measured[r]
        BY <2>3, <2>4, <4>1
      <4>3. m = n
        BY <3>1, <3>4, <4>2, OneValue DEF NewValue, Names
      <4> QED BY <3>2, <4>3
    <3>5. ~UpToDate(k, i)'
      BY <2>2, <2>6, <3>3 DEF UpToDate, uservars
    <3>6. Distance(last'[k][i], m.val) <= Slack(k)
      BY <3>1, <3>2 DEF NewValue
    <3>7. table'[k][i] = [val |-> m.val, pass |-> changed'[k][i]]
      BY <3>1 DEF NewValue
    <3>8. Tracks(k, i, m.val)'
      BY <3>4, <3>5, <3>6, <3>7 DEF Tracks, Slack
    <3> QED BY <3>2, <3>8
  <2>10. CASE \E m \in Measured[r] : OldValue(m, k, i)
    <3>1. PICK m \in Measured[r] : OldValue(m, k, i)
      BY <2>10
    <3>2. m.val \in Int
      BY MeasuredTypes
    <3>3. /\ i \in DOMAIN table[k] /\ table'[k][i] = table[k][i]
          /\ changed'[k][i] = changed[k][i] /\ last'[k][i] = m.val /\ ~Differs(table, m)
          /\ m.kind = k /\ m.id = i
      BY <3>1 DEF OldValue, Names
    <3>4. PICK t \in Int : Tracks(k, i, t) /\ table[k][i] = [val |-> t, pass |-> changed[k][i]]
      BY <3>3, TracksValue
    <3>5. Distance(m.val, t) <= Slack(k)
      <4>1. ~Exceeds(k, m.val, table[k][i].val)
        BY <3>3 DEF Differs
      <4>2. table[k][i].val = t
        BY <3>4
      <4> QED BY <3>2, <4>1, <4>2, SlackIs
    <3>6. ASSUME NEW e \in Waiting', e.pass >= changed'[k][i],
                 NEW n \in Measured[e.report], n.kind = k, n.id = i
          PROVE  Distance(n.val, t) <= Slack(k)
      <4>1. CASE e \in Waiting
        BY <3>3, <3>4, <3>6, <4>1 DEF Tracks
      <4>2. CASE e = EventOf(r)
        <5>1. n \in Measured[r]
          BY <2>3, <4>2
        <5>2. m = n
          BY <3>3, <3>6, <5>1, OneValue
        <5> QED BY <3>5, <5>2
      <4> QED BY <2>4, <4>1, <4>2
    <3>7. UpToDate(k, i)' =>
            Distance(shown'[k][i].val, t) <= (IF FromTable(k)' THEN 0 ELSE Slack(k))
      BY <2>2, <2>7, <3>3, <3>4 DEF UpToDate, Tracks, uservars
    <3>8. Distance(last'[k][i], t) <= Slack(k)
      BY <3>3, <3>5
    <3>9. Tracks(k, i, t)'
      BY <3>3, <3>4, <3>6, <3>7, <3>8 DEF Tracks, Slack
    <3> QED BY <3>9
  <2>11. CASE NoValue(Measured[r], k, i)
    <3>1. /\ i \in DOMAIN table'[k] <=> i \in DOMAIN table[k]
          /\ i \in DOMAIN table[k] => table'[k][i] = table[k][i]
          /\ i \in DOMAIN changed[k] /\ changed'[k][i] = changed[k][i]
          /\ i \in DOMAIN last[k] /\ last'[k][i] = last[k][i]
      BY <1>0, <1>1, <2>11 DEF NoValue, TableInv
    <3>2. PICK t \in Int : Tracks(k, i, t)
      BY <1>0, <3>1 DEF TrackInv
    <3>3. ASSUME NEW e \in Waiting', e.pass >= changed'[k][i],
                 NEW n \in Measured[e.report], n.kind = k, n.id = i
          PROVE  Distance(n.val, t) <= Slack(k)
      <4>1. CASE e \in Waiting
        BY <3>1, <3>2, <3>3, <4>1 DEF Tracks
      <4>2. CASE e = EventOf(r)
        BY <2>3, <2>11, <3>3, <4>2 DEF NoValue, Names
      <4> QED BY <2>4, <4>1, <4>2
    <3>4. UpToDate(k, i)' =>
            Distance(shown'[k][i].val, t) <= (IF FromTable(k)' THEN 0 ELSE Slack(k))
      BY <2>2, <2>7, <3>1, <3>2 DEF UpToDate, Tracks, uservars
    <3>5. Tracks(k, i, t)'
      BY <3>1, <3>2, <3>3, <3>4 DEF Tracks, Slack
    <3> QED BY <3>5
  <2> QED BY <2>8, <2>9, <2>10, <2>11
<1>2. ASSUME \/ Evict
             \/ \E c \in Cpus : Poll(c)
             \/ MovesOn
             \/ EndsHandler,
             NEW k \in Kinds, NEW i, i \in DOMAIN changed'[k]
      PROVE  \E t \in Int : Tracks(k, i, t)'
  <2>1. UNCHANGED <<exporter, shown, last, changed, passes>>
    BY <1>2 DEF Evict, Poll, MovesOn, EndsHandler, kernelvars, uservars
  <2>2. Waiting' \subseteq Waiting
    BY <1>0, <1>2, WaitingIs
  <2>3. i \in DOMAIN table'[k] => i \in DOMAIN table[k] /\ table'[k][i] = table[k][i]
    <3>1. CASE Evict
      <4>1. PICK l \in Kinds : \E x \in DOMAIN table[l] :
              table' = [table EXCEPT ![l] = [j \in DOMAIN @ \ {x} |-> @[j]]]
        BY <3>1 DEF Evict
      <4>2. PICK x \in DOMAIN table[l] :
              table' = [table EXCEPT ![l] = [j \in DOMAIN @ \ {x} |-> @[j]]]
        BY <4>1
      <4>3. table'[k] = table[k] \/ table'[k] = [j \in DOMAIN table[k] \ {x} |-> table[k][j]]
        BY <4>2
      <4> QED BY <4>3
    <3>2. CASE ~Evict
      BY <1>2, <3>2 DEF Poll, MovesOn, EndsHandler, kernelvars
    <3> QED BY <3>1, <3>2
  <2>4. PICK t \in Int : Tracks(k, i, t)
    BY <1>0, <1>2, <2>1 DEF TrackInv
  <2>5. Tracks(k, i, t)'
    BY <2>1, <2>2, <2>3, <2>4 DEF Tracks, UpToDate, FromTable, Slack
  <2> QED BY <2>5
<1>3. ASSUME NEW ms, Shows(ms), NEW k \in Kinds, NEW i, i \in DOMAIN changed'[k]
      PROVE  \E t \in Int : Tracks(k, i, t)'
  <2>1. UNCHANGED <<exporter, table, last, changed, passes>>
    BY <1>3 DEF Shows, kernelvars
  <2>2. Waiting' \subseteq Waiting
    BY <1>0, <1>3, WaitingIs
  <2>3. PICK t \in Int : Tracks(k, i, t)
    BY <1>0, <1>3, <2>1 DEF TrackInv
  <2>4. changed[k][i] \in 1..passes /\ Slack(k) \in Nat
    BY <1>0, <1>3, <2>1, SlackIs DEF TableInv
  <2>5. ASSUME UpToDate(k, i)'
        PROVE  Distance(shown'[k][i].val, t) <= (IF FromTable(k) THEN 0 ELSE Slack(k))
    <3>1. i \in DOMAIN shown'[k] /\ shown'[k][i].pass >= changed[k][i]
      BY <2>1, <2>5 DEF UpToDate
    <3>2. \/ \E m \in ms : Names(m, k, i) /\ i \in DOMAIN shown'[k] /\ shown'[k][i] = Value(m)
          \/ /\ \A m \in ms : ~Names(m, k, i)
             /\ i \in DOMAIN shown'[k] <=> i \in DOMAIN shown[k]
             /\ i \in DOMAIN shown[k] => shown'[k][i] = shown[k][i]
      BY <1>3, ShowsFor
    <3>3. CASE \E m \in ms : Names(m, k, i) /\ shown'[k][i] = Value(m)
      <4>1. PICK m \in ms : Names(m, k, i) /\ shown'[k][i] = Value(m)
        BY <3>3
      <4>2. m.kind = k /\ m.id = i
        BY <4>1 DEF Names
      <4>3. CASE FromTable(k)
        <5>1. i \in DOMAIN table[k] /\ Value(m) = table[k][i]
          BY <1>3, <4>2, <4>3 DEF Shows, Value
        <5>2. table[k][i].val = t
          BY <2>3, <5>1 DEF Tracks
        <5>3. shown'[k][i].val = t
          BY <4>1, <5>1, <5>2
        <5> QED BY <4>3, <5>3 DEF Distance
      <4>4. CASE ~FromTable(k)
        <5>1. Value(m).val = m.val /\ Value(m).pass = event.pass
          BY <4>2, <4>4 DEF Value
        <5>2. event \in Waiting /\ m \in Measured[event.report]
          BY <1>3, ValueIs
        <5>3. event.pass >= changed[k][i]
          BY <3>1, <4>1, <5>1
        <5>4. Distance(m.val, t) <= Slack(k)
          BY <2>3, <4>2, <5>2, <5>3 DEF Tracks
        <5> QED BY <4>1, <4>4, <5>1, <5>4
      <4> QED BY <4>3, <4>4
    <3>4. CASE i \in DOMAIN shown[k] /\ shown'[k][i] = shown[k][i]
      <4>1. UpToDate(k, i)
        BY <3>1, <3>4 DEF UpToDate
      <4> QED BY <2>3, <3>4, <4>1 DEF Tracks
    <3> QED BY <3>1, <3>2, <3>3, <3>4
  <2>6. FromTable(k)' <=> FromTable(k)
    BY <2>1 DEF FromTable
  <2>7. Tracks(k, i, t)'
    BY <2>1, <2>2, <2>3, <2>5, <2>6 DEF Tracks, Slack
  <2> QED BY <2>7
<1> QED BY <1>1, <1>2, <1>3 DEF TrackInv

\* An event that was overtaken stays so.
LEMMA OvertakenGrows ==
  ASSUME order \in Seq(Nat), NEW n \in Nat, order' = Append(order, n)
  PROVE  /\ Overtaken \subseteq Overtaken' /\ ToSet(order') = ToSet(order) \cup {n}
         /\ order' # <<>> /\ order'[Len(order')] = n
<1> DEFINE s == order  a == Append(s, n)
<1>1. /\ Len(s) \in Nat /\ DOMAIN s = 1..Len(s)
      /\ Len(a) = Len(s) + 1 /\ DOMAIN a = 1..Len(a) /\ a[Len(s) + 1] = n
      /\ \A j \in 1..Len(s) : a[j] = s[j]
  <2>1. a \in Seq(Nat)
    BY ToSetAppend
  <2> QED BY <2>1, LenProperties, AppendProperties
<1>2. ToSet(order') = ToSet(order) \cup {n}
  BY ToSetAppend
<1>3. order' # <<>> /\ order'[Len(order')] = n
  <2>1. Len(a) # 0
    BY <1>1
  <2> QED BY <1>1, <2>1, EmptySeq
<1>4. ASSUME NEW p \in Overtaken PROVE p \in Overtaken'
  <2>1. PICK j \in DOMAIN s : p = s[j] /\ \E m \in j + 1..Len(s) : s[m] < s[j]
    BY <1>4 DEF Overtaken
  <2>2. PICK m \in j + 1..Len(s) : s[m] < s[j]
    BY <2>1
  <2> HIDE DEF a
  <2>3. j \in DOMAIN a /\ m \in j + 1..Len(a) /\ a[m] < a[j] /\ p = a[j]
    BY <1>1, <2>1, <2>2
  <2>4. order' = a
    BY DEF a
  <2> QED BY <2>3, <2>4 DEF Overtaken
<1> QED BY <1>2, <1>3, <1>4

\* An event that was handled before the last one, of an earlier report, is overtaken.
LEMMA LastOvertakes ==
  ASSUME order \in Seq(Nat), NEW p \in ToSet(order), order[Len(order)] < p
  PROVE  p \in Overtaken
<1>1. PICK j \in DOMAIN order : p = order[j]
  BY DEF ToSet
<1>2. Len(order) \in Nat /\ DOMAIN order = 1..Len(order)
  BY LenProperties
<1>3. p \in Nat /\ order[Len(order)] \in Nat
  BY <1>1, <1>2, ElementOfSeq
<1>4. j # Len(order)
  BY <1>1, <1>3
<1>5. Len(order) \in j + 1..Len(order) /\ order[Len(order)] < order[j]
  BY <1>1, <1>2, <1>4
<1> QED BY <1>1, <1>5 DEF Overtaken

LEMMA StepKeepsFate ==
  ASSUME IInv, \/ \E c \in Cpus : Receive(c)
               \/ Evict
               \/ \E c \in Cpus : Poll(c)
               \/ MovesOn
               \/ EndsHandler
               \/ \E ms : Shows(ms)
  PROVE  FateInv'
<1>0. StateInv /\ TableInv /\ EventInv /\ FateInv
  BY DEF IInv
<1> DEFINE Known(k, i) == Lost(k, i) \/ Sent(k, i) \/ changed[k][i] \in ToSet(order)
           Fate(k, i) == UpToDate(k, i) \/ Lost(k, i) \/ Sent(k, i) \/ InHand(k, i) \/ Late(k, i)
           InTurn == pc = "handling" => order # <<>> /\ order[Len(order)] = event.pass
<1>1. ASSUME NEW c \in Cpus, Receive(c) PROVE FateInv'
  <2>1. PICK r \in Reports : Comes(r, c)
    BY <1>1, ReceiveIs
  <2>2. UNCHANGED <<exporter, pc, todo, event, shown, order>>
    BY <2>1 DEF Comes, uservars
  <2>3. /\ EventOf(r).pass = passes' /\ EventOf(r).report = r
        /\ \A m \in Measured[r] : Differs(table, m) => m.kind \in EventOf(r).flags
        /\ InRings \subseteq InRings' /\ spoilt \subseteq spoilt'
        /\ \A m \in Measured[r] : Differs(table, m) => passes' \in spoilt' \/ EventOf(r) \in InRings'
    BY <1>0, <2>1, ComesToRings
  <2>4. ASSUME NEW k \in Kinds, NEW i, i \in DOMAIN changed'[k]
        PROVE  Known(k, i)' /\ Fate(k, i)'
    <3>1. \/ \E m \in Measured[r] : NewValue(m, k, i) \/ OldValue(m, k, i)
          \/ NoValue(Measured[r], k, i)
      BY <1>0, <2>1, ComesFor
    <3>2. CASE \E m \in Measured[r] : NewValue(m, k, i)
      <4>1. PICK m \in Measured[r] : NewValue(m, k, i)
        BY <3>2
      <4>2. m.kind = k /\ m.id = i /\ Differs(table, m) /\ changed'[k][i] = passes'
        BY <4>1 DEF NewValue, Names
      <4>3. CASE passes' \in spoilt'
        BY <4>2, <4>3 DEF Lost
      <4>4. CASE EventOf(r) \in InRings'
        BY <2>3, <4>2, <4>4 DEF Sent
      <4> QED BY <2>3, <4>2, <4>3, <4>4
    <3>3. CASE (\E m \in Measured[r] : OldValue(m, k, i)) \/ NoValue(Measured[r], k, i)
      <4>1. i \in DOMAIN changed[k] /\ changed'[k][i] = changed[k][i]
        BY <2>4, <3>3 DEF OldValue, NoValue
      <4>2. Known(k, i) /\ Fate(k, i)
        BY <1>0, <4>1 DEF FateInv
      <4>3. Lost(k, i) => Lost(k, i)'
        BY <2>3, <4>1 DEF Lost
      <4>4. Sent(k, i) => Sent(k, i)'
        BY <2>3, <4>1 DEF Sent
      <4>5. UpToDate(k, i) => UpToDate(k, i)'
        BY <2>2, <4>1 DEF UpToDate
      <4>6. InHand(k, i) => InHand(k, i)'
        BY <2>2, <4>1 DEF InHand
      <4>7. Late(k, i) => Late(k, i)'
        BY <2>2, <4>1 DEF Late, FromTable, Overtaken
      <4>8. changed[k][i] \in ToSet(order) => changed'[k][i] \in ToSet(order')
        BY <2>2, <4>1
      <4> QED BY <4>2, <4>3, <4>4, <4>5, <4>6, <4>7, <4>8
    <3> QED BY <3>1, <3>2, <3>3
  <2>5. InTurn'
    BY <1>0, <2>2 DEF FateInv
  <2> QED BY <2>4, <2>5 DEF FateInv
<1>2. ASSUME Evict \/ MovesOn PROVE FateInv'
  <2>1. UNCHANGED <<exporter, event, shown, order, changed, ring, todo>> /\ spoilt' = spoilt
    BY <1>2 DEF Evict, MovesOn, kernelvars, uservars
  <2>2. pc' = pc \/ (pc # "handling" /\ pc' # "handling")
    BY <1>2 DEF Evict, MovesOn, uservars
  <2>3. InRings' = InRings
    BY <2>1, RingsStay
  <2> QED BY <1>0, <2>1, <2>2, <2>3
        DEF FateInv, Lost, Sent, UpToDate, InHand, Late, FromTable, Overtaken
<1>3. ASSUME EndsHandler PROVE FateInv'
  <2>1. /\ UNCHANGED <<exporter, shown, order, changed, ring>> /\ pc' = "polling"
        /\ spoilt \subseteq spoilt' /\ (todo = <<>> \/ event.pass \in spoilt')
    BY <1>3 DEF EndsHandler, kernelvars
  <2>2. ASSUME NEW k \in Kinds, NEW i \in DOMAIN changed[k] PROVE Known(k, i)' /\ Fate(k, i)'
    <3>1. Known(k, i) /\ Fate(k, i)
      BY <1>0 DEF FateInv
    <3>2. Lost(k, i) => Lost(k, i)'
      BY <2>1 DEF Lost
    <3>3. Sent(k, i) => Sent(k, i)'
      BY <2>1, RingsStay DEF Sent
    <3>4. UpToDate(k, i) => UpToDate(k, i)'
      BY <2>1 DEF UpToDate
    <3>5. InHand(k, i) => Lost(k, i)'
      <4>1. ToSet(<<>>) = {}
        BY DEF ToSet
      <4> QED BY <2>1, <4>1 DEF InHand, Lost
    <3>6. Late(k, i) => Late(k, i)'
      BY <2>1 DEF Late, FromTable, Overtaken
    <3>7. changed[k][i] \in ToSet(order) => changed'[k][i] \in ToSet(order')
      BY <2>1
    <3> QED BY <3>1, <3>2, <3>3, <3>4, <3>5, <3>6, <3>7
  <2> QED BY <2>1, <2>2 DEF FateInv
<1>4. ASSUME NEW c \in Cpus, Poll(c) PROVE FateInv'
  <2>1. /\ pc = "polling" /\ pc' = "handling" /\ event' \in InRings /\ event' \in Events
        /\ InRings \subseteq InRings' \cup {event'}
        /\ todo' = Metrics(event') /\ order' = Append(order, event'.pass)
        /\ UNCHANGED <<exporter, shown, changed, spoilt>>
    BY <1>0, <1>4, PollIs DEF kernelvars
  <2>2. PICK e \in Events : e = event'
    BY <2>1
  <2>3. ReadToTheEnd(e.report) /\ e.pass \in 1..passes /\ passes \in Nat
    BY <1>0, <2>1, <2>2 DEF EventInv, Waiting, StateInv
  <2>4. \A m \in Measured[e.report] : m.kind \in e.flags => m \in ToSet(todo')
    BY <2>1, <2>2, <2>3, MetricsAre
  <2>5. e.pass \in Nat /\ order \in Seq(Nat) /\ order' = Append(order, e.pass)
    BY <1>0, <2>1, <2>2, <2>3 DEF StateInv
  <2>6. /\ Overtaken \subseteq Overtaken' /\ ToSet(order') = ToSet(order) \cup {e.pass}
        /\ order' # <<>> /\ order'[Len(order')] = e.pass
    BY <2>5, OvertakenGrows
  <2>7. ASSUME NEW k \in Kinds, NEW i \in DOMAIN changed[k] PROVE Known(k, i)' /\ Fate(k, i)'
    <3>1. Known(k, i) /\ Fate(k, i)
      BY <1>0 DEF FateInv
    <3>2. Lost(k, i) => Lost(k, i)'
      BY <2>1 DEF Lost
    <3>3. Sent(k, i) => Sent(k, i)' \/ (InHand(k, i)' /\ changed'[k][i] \in ToSet(order'))
      <4> SUFFICES ASSUME Sent(k, i), ~Sent(k, i)'
                   PROVE  InHand(k, i)' /\ changed'[k][i] \in ToSet(order')
        OBVIOUS
      <4>1. PICK f \in InRings : /\ f.pass = changed[k][i] /\ k \in f.flags
                                 /\ \E m \in Measured[f.report] : m.kind = k /\ m.id = i
        BY DEF Sent
      <4>2. f \notin InRings'
        BY <2>1, <4>1 DEF Sent
      <4>3. f = e
        BY <2>1, <2>2, <4>2
      <4>4. PICK m \in Measured[e.report] : m.kind = k /\ m.id = i
        BY <4>1, <4>3
      <4>5. m \in ToSet(todo')
        BY <2>4, <4>1, <4>3, <4>4
      <4>6. InHand(k, i)'
        BY <2>1, <2>2, <4>1, <4>3, <4>4, <4>5 DEF InHand
      <4> QED BY <2>1, <2>6, <4>1, <4>3, <4>6
    <3>4. UpToDate(k, i) => UpToDate(k, i)'
      BY <2>1 DEF UpToDate
    <3>5. ~InHand(k, i)
      BY <2>1 DEF InHand
    <3>6. Late(k, i) => Late(k, i)'
      BY <2>1, <2>6 DEF Late, FromTable
    <3>7. changed[k][i] \in ToSet(order) => changed'[k][i] \in ToSet(order')
      BY <2>1, <2>6
    <3> QED BY <3>1, <3>2, <3>3, <3>4, <3>5, <3>6, <3>7
  <2> QED BY <2>1, <2>2, <2>6, <2>7 DEF FateInv
<1>5. ASSUME NEW ms, Shows(ms) PROVE FateInv'
  <2>1. UNCHANGED <<exporter, order, changed, table, ring, spoilt>> /\ pc = "handling"
    BY <1>5 DEF Shows, kernelvars
  <2>2. InRings' = InRings /\ InTurn'
    BY <1>0, <1>5, <2>1, RingsStay DEF FateInv, Shows
  <2>3. ASSUME NEW k \in Kinds, NEW i \in DOMAIN changed[k] PROVE Known(k, i)' /\ Fate(k, i)'
    <3>1. Known(k, i) /\ Fate(k, i)
      BY <1>0 DEF FateInv
    <3>2. (Lost(k, i) => Lost(k, i)') /\ (Sent(k, i) => Sent(k, i)') /\ (Late(k, i) => Late(k, i)')
      BY <2>1, <2>2 DEF Lost, Sent, Late, FromTable, Overtaken
    <3>3. Known(k, i)'
      BY <2>1, <3>1, <3>2
    <3>4. \/ \E m \in ms : Names(m, k, i) /\ i \in DOMAIN shown'[k] /\ shown'[k][i] = Value(m)
          \/ /\ \A m \in ms : ~Names(m, k, i)
             /\ i \in DOMAIN shown'[k] <=> i \in DOMAIN shown[k]
             /\ i \in DOMAIN shown[k] => shown'[k][i] = shown[k][i]
      BY <1>5, ShowsFor
    <3>5. CASE \E m \in ms : Names(m, k, i) /\ i \in DOMAIN shown'[k] /\ shown'[k][i] = Value(m)
      <4>1. PICK m \in ms : Names(m, k, i) /\ i \in DOMAIN shown'[k] /\ shown'[k][i] = Value(m)
        BY <3>5
      <4>2. m.kind = k /\ m.id = i
        BY <4>1 DEF Names
      <4>3. changed[k][i] \in 1..passes /\ event.pass \in 1..passes /\ passes \in Nat
        BY <1>0, <1>5, <4>1, ValueIs DEF TableInv, StateInv
      <4>4. CASE FromTable(k)
        <5>1. i \in DOMAIN table[k] /\ Value(m) = table[k][i]
          BY <1>5, <4>2, <4>4 DEF Shows, Value
        <5>2. Value(m).pass = changed[k][i]
          <6>1. PICK t \in Int : table[k][i] = [val |-> t, pass |-> changed[k][i]]
            BY <5>1, TracksValue
          <6> QED BY <5>1, <6>1
        <5>3. UpToDate(k, i)'
          BY <2>1, <4>1, <4>3, <5>2 DEF UpToDate
        <5> QED BY <3>3, <5>3
      <4>5. CASE ~FromTable(k)
        <5>1. Value(m).pass = event.pass
          BY <4>2, <4>5 DEF Value
        <5>2. CASE event.pass >= changed[k][i]
          <6>1. UpToDate(k, i)'
            BY <2>1, <4>1, <5>1, <5>2 DEF UpToDate
          <6> QED BY <3>3, <6>1
        <5>3. CASE event.pass < changed[k][i]
          <6>1. order \in Seq(Nat) /\ order[Len(order)] = event.pass
            BY <1>0, <2>1 DEF StateInv, FateInv
          <6>2. changed[k][i] \in ToSet(order) => changed[k][i] \in Overtaken
            BY <5>3, <6>1, LastOvertakes
          <6>3. Lost(k, i) \/ Sent(k, i) \/ Late(k, i)
            BY <3>1, <4>5, <6>2 DEF Late
          <6> QED BY <3>2, <3>3, <6>3
        <5> QED BY <4>3, <5>2, <5>3
      <4> QED BY <4>4, <4>5
    <3>6. CASE /\ \A m \in ms : ~Names(m, k, i)
               /\ i \in DOMAIN shown'[k] <=> i \in DOMAIN shown[k]
               /\ i \in DOMAIN shown[k] => shown'[k][i] = shown[k][i]
      <4>1. UpToDate(k, i) => UpToDate(k, i)'
        BY <2>1, <3>6 DEF UpToDate
      <4>2. InHand(k, i) => InHand(k, i)'
        <5> SUFFICES ASSUME InHand(k, i) PROVE InHand(k, i)'
          OBVIOUS
        <5>1. PICK m \in ToSet(todo) : m.kind = k /\ m.id = i
          BY DEF InHand
        <5>2. m \notin ms
          BY <3>6, <5>1 DEF Names
        <5>3. pc' = "handling" /\ event' = event /\ m \in ToSet(todo')
          BY <1>5, <5>2 DEF Shows
        <5> QED BY <2>1, <5>1, <5>3 DEF InHand
      <4> QED BY <3>1, <3>2, <3>3, <4>1, <4>2
    <3> QED BY <3>4, <3>5, <3>6
  <2> QED BY <2>1, <2>2, <2>3 DEF FateInv
<1> QED BY <1>1, <1>2, <1>3, <1>4, <1>5

------------------------------------------------------------------------------
(* The theorems *)

LEMMA InvAlways == Spec => []IInv
<1>1. IInv /\ [Next]_vars => IInv'
  <2> SUFFICES ASSUME IInv, [Next]_vars PROVE IInv'
    OBVIOUS
  <2>1. CASE UNCHANGED vars
    BY <2>1, NothingChanges
  <2>2. CASE \/ \E c \in Cpus : Receive(c)
             \/ Evict
             \/ \E c \in Cpus : Poll(c)
             \/ MovesOn
             \/ EndsHandler
             \/ \E ms : Shows(ms)
    BY <2>2, StepKeepsState, StepKeepsEvents, StepKeepsTables, StepKeepsTracks, StepKeepsFate DEF IInv
  <2> QED BY <2>1, <2>2, StepsAre
<1> QED BY InitHasInv, <1>1, PTL DEF Spec

(* The types of the XDP collector's state; no CPU's ring ever holds more      *)
(* events than fit (xdp_report_collector.c:395), and nothing is exported of   *)
(* a metric that no report had.                                               *)
THEOREM XdpCollectorTypes == Spec => []TypeOK
<1>1. IInv => TypeOK
  <2> SUFFICES ASSUME IInv PROVE TypeOK
    OBVIOUS
  <2>1. StateInv /\ TableInv
    BY DEF IInv
  <2>2. \A k \in Kinds : /\ DOMAIN table[k] \subseteq DOMAIN changed[k]
                         /\ DOMAIN shown[k] \subseteq DOMAIN last[k]
                         /\ DOMAIN changed[k] = DOMAIN last[k]
    BY <2>1 DEF TableInv
  <2> QED BY <2>1, <2>2 DEF StateInv, TypeOK
<1> QED BY <1>1, InvAlways, PTL

(* What is shown of a metric whose last change, or a later report, was        *)
(* handled, is within one threshold of the last value reported if the handler *)
(* reads the table, and within two otherwise (xdp_report_collector.c:272,     *)
(* 300, 337, 379; exporter.py:84, 96), whatever the thresholds are.           *)
THEOREM ShownStaysClose == Spec => []ShownIsClose
<1>1. IInv => ShownIsClose
  <2> SUFFICES ASSUME IInv, NEW k \in Kinds, NEW i \in DOMAIN changed[k], UpToDate(k, i)
               PROVE  Distance(shown[k][i].val, last[k][i])
                        <= (IF FromTable(k) THEN Slack(k) ELSE 2 * Slack(k))
    BY DEF ShownIsClose, ChangedIds
  <2>1. PICK t \in Int : Tracks(k, i, t)
    BY DEF IInv, TrackInv
  <2>2. /\ Distance(last[k][i], t) <= Slack(k)
        /\ Distance(shown[k][i].val, t) <= (IF FromTable(k) THEN 0 ELSE Slack(k))
    BY <2>1 DEF Tracks
  <2>3. last[k][i] \in Int /\ shown[k][i].val \in Int /\ Slack(k) \in Nat
    BY SlackIs DEF IInv, TableInv, UpToDate
  <2> QED BY <2>2, <2>3 DEF Distance
<1> QED BY <1>1, InvAlways, PTL

(* No change is forgotten (xdp_report_collector.c:390-395): once all events   *)
(* are handled a metric is out of date only if the event of its last change   *)
(* was lost, cut short or never made, or, unless the handler reads the table, *)
(* was overtaken by an older one from another CPU's ring.                     *)
THEOREM NoChangeIsForgotten == Spec => []StaleOnlyWithCause
<1>1. IInv => StaleOnlyWithCause
  <2> SUFFICES ASSUME IInv, AtRest, NEW k \in Kinds, NEW i \in DOMAIN changed[k]
               PROVE  \/ UpToDate(k, i)
                      \/ changed[k][i] \in spoilt \cup (IF FromTable(k) THEN {} ELSE Overtaken)
    BY DEF StaleOnlyWithCause, ChangedIds
  <2>1. UpToDate(k, i) \/ Lost(k, i) \/ Sent(k, i) \/ InHand(k, i) \/ Late(k, i)
    BY DEF IInv, FateInv
  <2>2. ~Sent(k, i) /\ ~InHand(k, i)
    BY DEF AtRest, Sent, InHand, InRings, ToSet
  <2> QED BY <2>1, <2>2 DEF Lost, Late
<1> QED BY <1>1, InvAlways, PTL
=============================================================================
