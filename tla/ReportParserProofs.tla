------------------------- MODULE ReportParserProofs -------------------------
(***************************************************************************)
(* Proofs about ReportParser, for any reports and datagrams, any number of *)
(* hops and any instructions: types (no array written and no word read     *)
(* past its end) and MetricsAreTrue.  Both need that the hop_ml of a       *)
(* datagram is at least the words of its instructions                      *)
(* (HopsHoldTheirWords), which the parser takes for granted.               *)
(*                                                                         *)
(* The parser finds a word by counting on from the words before it, the    *)
(* switch wrote it where the deparser laid it out.  WordIs brings both     *)
(* together: the cursor of hop i is (i - 1) times the words of a hop       *)
(* behind the INT headers (StandsAt), and the word of an instruction       *)
(* follows those of lower bits.  HopsAreThere and HopsAreCounted are what  *)
(* dividing by the size of a hop says about what is left of a datagram:    *)
(* never a hop too few, and one too many only for long options.            *)
(*                                                                         *)
(* InfoTells, the invariant of the loop, says that the hops up to the      *)
(* cursor are in the flow_info: values, links between two of them, and     *)
(* the sum of their latencies.  What is exported was such a flow_info.     *)
(***************************************************************************)
EXTENDS ReportParser, SharedLemmas

------------------------------------------------------------------------------
(* Datagrams *)

Transport(d) == TransportWords(d.report.protocol)
HopWidth(d) == WordsPerHop(d.report.mask)
Size(d) == (d.size - OuterSize) \div 4

\* What the assumption says of a datagram.
LEMMA DatagramIs ==
  ASSUME NEW d \in Datagrams
  PROVE  /\ OnWire(d.report) /\ d.report.mask # {}
         /\ d.size \in Nat /\ d.size <= FullSize(d.report) /\ d.size <= BufferSize
         /\ HopWidth(d) \in 1..9 /\ d.report.hop_ml \in 1..31
<1>1. OnWire(d.report) /\ d.report.mask # {}
  BY ParserAssumption DEF ParserAssumption, OnWire, Masks, HopValues, WordPairs
<1>2. d.size \in Nat /\ d.size <= FullSize(d.report) /\ d.size <= BufferSize
  BY ParserAssumption DEF ParserAssumption
<1>3. HopWidth(d) \in 1..9
  <2> DEFINE m == d.report.mask
  <2>1. m \in Masks /\ m # {}
    BY <1>1 DEF OnWire
  <2> HIDE DEF m
  <2>2. WordsPerHop(m) \in 0..9 /\ WordsPerHop(m) # 0
    BY <2>1, WordsCounted
  <2> QED BY <2>2 DEF HopWidth, m
<1>4. d.report.hop_ml \in 1..31
  BY ParserAssumption DEF ParserAssumption
<1> QED BY <1>1, <1>2, <1>3, <1>4

\* The cursor moves over the words of the instructions.
LEMMA MovesIs ==
  ASSUME NEW S \in SUBSET Bits
  PROVE  Moves(S) = WordsPerHop(S)
<1>1. IsFiniteSet(0..7)
  BY FS_Interval, 0 \in Int, 7 \in Int
<1>2. Cardinality(S) \in Nat
  BY <1>1, FS_Subset, FS_CardinalityType DEF Bits
<1> QED BY <1>2 DEF Moves, WordsPerHop

\* Hops that are counted by dividing fit what they were counted in.
LEMMA HopsFit ==
  ASSUME NEW l \in 1..9, NEW g \in 1..31, g >= l, NEW x \in Nat, NEW k \in 0..(x \div (4 * g))
  PROVE  4 * (k * l) <= x
<1> DEFINE q == 4 * g  c == x \div q
<1>1. q \in Nat /\ q > 0
  OBVIOUS
<1>2. c \in Nat /\ q * c <= x
  <2> HIDE DEF q
  <2> QED BY <1>1
<1>3. k \in Nat /\ k <= c
  BY <1>2
<1> HIDE DEF c
<1>4. k * g <= c * g /\ k * l <= k * g /\ k * g \in Nat /\ c * g \in Nat /\ k * l \in Nat
  <2> HIDE DEF q
  <2> QED BY <1>2, <1>3
<1>5. q * c = 4 * (c * g)
  BY <1>2
<1> HIDE DEF q
<1>6. 4 * (c * g) <= x
  BY <1>2, <1>5
<1> DEFINE u == k * l  v == k * g  y == c * g
<1>7. u <= v /\ v <= y /\ 4 * y <= x /\ u \in Nat /\ v \in Nat /\ y \in Nat
  BY <1>4, <1>6
<1> HIDE DEF u, v, y
<1>8. 4 * u <= x
  BY <1>7
<1> QED BY <1>8 DEF u

\* Dividing hops and options by the size of a hop counts the hops, and the hops
\* that options may look like.
LEMMA WholeHops ==
  ASSUME NEW l \in 1..9, NEW n \in Nat, NEW o \in Nat
  PROVE  /\ (4 * (n * l + o)) \div (4 * l) = n + o \div l
         /\ o \div l \in Nat /\ n * l \in Nat /\ n <= n * l /\ o \div l <= o
<1>1. CASE l = 1
  BY <1>1
<1>2. CASE l = 2
  BY <1>2
<1>3. CASE l = 3
  BY <1>3
<1>4. CASE l = 4
  BY <1>4
<1>5. CASE l = 5
  BY <1>5
<1>6. CASE l = 6
  BY <1>6
<1>7. CASE l = 7
  BY <1>7
<1>8. CASE l = 8
  BY <1>8
<1>9. CASE l = 9
  BY <1>9
<1> QED BY <1>1, <1>2, <1>3, <1>4, <1>5, <1>6, <1>7, <1>8, <1>9

\* The words of a datagram, and the headers that are looked for in them.
LEMMA WordsAre ==
  ASSUME NEW d \in Datagrams, RemainingSize(d) >= IntSize
  PROVE  /\ Size(d) \in Nat /\ Transport(d) \in {2, 5} /\ Transport(d) + 3 <= Size(d)
         /\ Size(d) <= Len(Wire(d.report)) /\ Len(Wire(d.report)) \in Nat
         /\ Len(Words(d)) = Size(d) /\ \A k \in 1..Size(d) : Words(d)[k] = Wire(d.report)[k]
         /\ HopMl(d) = d.report.hop_ml /\ InsMap(d) = d.report.mask
<1> DEFINE w == Wire(d.report)
           o == Transport(d)
           st == Stack(d.report)
           op == d.report.options
           z == Size(d)
           m == d.report.mask
<1>1. /\ o \in {2, 5}
      /\ w[o + 2] = [hop_ml |-> d.report.hop_ml] /\ w[o + 3] = [ins_map |-> m]
      /\ Len(st) \in Nat /\ Len(op) \in Nat /\ Len(w) = o + 3 + Len(st) + Len(op)
      /\ \E E : w \in Seq(E)
  BY DatagramIs, WireLaid DEF Transport
<1>2. d.size \in Nat /\ d.size <= 50 + 4 * Len(w) /\ d.size - 50 - 4 * o >= 12
  BY DatagramIs DEF FullSize, OuterSize, RemainingSize, IntSize, Transport
<1>3. z = (d.size - 50) \div 4 /\ Words(d) = SubSeq(w, 1, z)
  BY DEF Words, Size, OuterSize
<1> HIDE DEF w, o, st, op, z, m
<1> DEFINE n == d.size
<1>4. n \in Nat /\ n <= 50 + 4 * Len(w) /\ n - 50 - 4 * o >= 12 /\ z = (n - 50) \div 4
  BY <1>2, <1>3
<1> HIDE DEF n
<1>5. Len(w) \in Nat /\ z \in Nat /\ o + 3 <= z /\ z <= Len(w)
  BY <1>1, <1>4
<1>6. Len(Words(d)) = z /\ \A k \in 1..z : Words(d)[k] = w[k]
  <2>1. PICK E : w \in Seq(E)
    BY <1>1
  <2>2. \A i \in 1..z : w[i] \in E
    BY <1>5, <2>1, ElementOfSeq
  <2>3. 1 \in Int /\ z \in Int
    BY <1>5
  <2> DEFINE v == SubSeq(w, 1, z)
  <2>4. /\ v \in Seq(E) /\ Len(v) = IF 1 <= z THEN z - 1 + 1 ELSE 0
        /\ \A i \in 1..(z - 1 + 1) : v[i] = w[1 + i - 1]
    BY <2>2, <2>3, SubSeqProperties
  <2> HIDE DEF v
  <2>5. Len(v) = z /\ \A k \in 1..z : v[k] = w[k]
    BY <1>1, <1>5, <2>4
  <2> QED BY <1>3, <2>5 DEF v
<1>7. Words(d)[o + 2] = w[o + 2] /\ Words(d)[o + 3] = w[o + 3]
  BY <1>1, <1>5, <1>6
<1>8. HopMl(d) = d.report.hop_ml /\ InsMap(d) = m
  BY <1>1, <1>7 DEF HopMl, InsMap, Header, Transport, o
<1> QED BY <1>1, <1>5, <1>6, <1>8 DEF w, o, z, m

\* A datagram that is not dropped has the words of all the hops it is taken for.
LEMMA HopsAreThere ==
  ASSUME HopsHoldTheirWords, NEW d \in Datagrams, ~Dropped(d)
  PROVE  /\ RemainingSize(d) >= IntSize
         /\ HopCnt(d) \in 0..MaxIntHop
         /\ Transport(d) + 3 + HopCnt(d) * HopWidth(d) <= Size(d)
         /\ d.report.protocol \in {"udp", "tcp"}
<1> DEFINE l == HopWidth(d)
           g == d.report.hop_ml
           o == Transport(d)
           n == d.size
           z == Size(d)
           x == n - 62 - 4 * o
           c == x \div (4 * g)
           k == HopCnt(d)
<1>1. RemainingSize(d) = n - 50 - 4 * o
  BY DEF RemainingSize, OuterSize, Transport
<1>2. n \in Nat /\ l \in 1..9 /\ g \in 1..31 /\ g >= l
  BY DatagramIs DEF HopsHoldTheirWords, HopWidth
<1>3. ~(RemainingSize(d) < 12) /\ ~(k > MaxIntHop) /\ d.report.protocol \in {"udp", "tcp"}
  BY DEF Dropped, IntSize, TooManyHops, Known
<1>4. o \in {2, 5}
  BY DEF Transport, TransportWords
<1>5. x \in Nat /\ RemainingSize(d) >= IntSize /\ RemainingSize(d) - IntSize = x
  BY <1>1, <1>2, <1>3, <1>4 DEF IntSize
<1>6. HopMl(d) = g
  BY <1>5, WordsAre
<1>7. k = c % 256
  BY <1>5, <1>6 DEF HopCnt
<1>8. z = (n - 50) \div 4
  BY DEF Size, OuterSize
<1>9. MaxIntHop \in Nat
  BY ParserAssumption DEF ParserAssumption
<1> HIDE DEF l, g, o, n, z, k
<1>10. c \in Nat
  <2>1. 4 * g \in Nat /\ 4 * g > 0
    BY <1>2
  <2> DEFINE q == 4 * g
  <2> HIDE DEF q, x
  <2> QED BY <1>5, <2>1 DEF q
<1>11. k \in Nat /\ k <= c
  <2> HIDE DEF c
  <2> QED BY <1>7, <1>10
<1>12. 4 * (k * l) <= x
  <2> HIDE DEF x, c
  <2>1. k \in 0..c
    BY <1>10, <1>11
  <2>2. k \in 0..(x \div (4 * g))
    BY <2>1 DEF c
  <2> QED BY <1>2, <1>5, <2>2, HopsFit, Zenon
<1>13. k * l \in Nat
  BY <1>2, <1>11
<1>14. o + 3 + k * l <= z
  <2> DEFINE y == k * l
  <2>1. y \in Nat /\ 4 * y <= n - 62 - 4 * o
    BY <1>12, <1>13
  <2> HIDE DEF y, x, c
  <2>2. o + 3 + y <= z
    BY <1>2, <1>4, <1>8, <2>1
  <2> QED BY <2>2 DEF y
<1>15. k \in 0..MaxIntHop
  BY <1>3, <1>9, <1>11
<1> QED BY <1>3, <1>5, <1>14, <1>15 DEF o, k, l, z

------------------------------------------------------------------------------
(* The words of a hop *)

Value(x, f, i) == x.array[ArrayOf[f]][i]

Infos ==
  [hop_cnt : 0..MaxIntHop, flow_latency : Int, link_latencies : [1..MaxIntHop - 1 -> Int],
   array : [Arrays -> [1..MaxIntHop -> Int]]]

(* The fields the exporter uses, and those among them that are read as they   *)
(* were written.                                                              *)
UsedFields == FieldsOf(ExporterBits)
ExactFields == UsedFields \ {"q_id", "q_occupancy"}

(* The loop stands at hop i of datagram d, x being its flow_info and c the    *)
(* cursor.                                                                    *)
StandsAt(d, x, i, c) ==
  /\ d \in Datagrams /\ ~Dropped(d)
  /\ x.hop_cnt = HopCnt(d) /\ i \in 1..x.hop_cnt + 1
  /\ c = Transport(d) + 3 + (i - 1) * HopWidth(d)

AtHop == StandsAt(packet, info, hop, cursor)

\* The arrays, one per field.
LEMMA ArrayNames ==
  /\ DOMAIN ArrayOf = {"switch_id", "l1_ingress_port_id", "l1_egress_port_id", "hop_latency",
                       "q_id", "q_occupancy", "ingress_tstamp", "egress_tstamp",
                       "egress_port_tx_util"}
  /\ ArrayOf["switch_id"] = "switch_ids" /\ ArrayOf["l1_ingress_port_id"] = "ingress_ports"
  /\ ArrayOf["l1_egress_port_id"] = "egress_ports" /\ ArrayOf["hop_latency"] = "hop_latencies"
  /\ ArrayOf["q_id"] = "queue_ids" /\ ArrayOf["q_occupancy"] = "queue_occups"
  /\ ArrayOf["ingress_tstamp"] = "ingress_tstamps" /\ ArrayOf["egress_tstamp"] = "egress_tstamps"
  /\ ArrayOf["egress_port_tx_util"] = "egress_tx_utils"
  /\ DOMAIN ArrayOf \subseteq Fields
  /\ \A f, g \in DOMAIN ArrayOf : ArrayOf[f] = ArrayOf[g] => f = g
<1> DEFINE names == {"switch_id", "l1_ingress_port_id", "l1_egress_port_id", "hop_latency",
                     "q_id", "q_occupancy", "ingress_tstamp", "egress_tstamp",
                     "egress_port_tx_util"}
<1>1. /\ DOMAIN ArrayOf = names
      /\ ArrayOf["switch_id"] = "switch_ids" /\ ArrayOf["l1_ingress_port_id"] = "ingress_ports"
      /\ ArrayOf["l1_egress_port_id"] = "egress_ports" /\ ArrayOf["hop_latency"] = "hop_latencies"
      /\ ArrayOf["q_id"] = "queue_ids" /\ ArrayOf["q_occupancy"] = "queue_occups"
      /\ ArrayOf["ingress_tstamp"] = "ingress_tstamps" /\ ArrayOf["egress_tstamp"] = "egress_tstamps"
      /\ ArrayOf["egress_port_tx_util"] = "egress_tx_utils"
  BY DEF ArrayOf
<1>2. names \subseteq Fields
  BY FieldNames
<1>3. \A f, g \in names : ArrayOf[f] = ArrayOf[g] => f = g
  BY <1>1
<1> QED BY <1>1, <1>2, <1>3

\* The fields the exporter uses are read into arrays.
LEMMA UsedFieldsAre ==
  /\ UsedFields = {"switch_id", "l1_ingress_port_id", "l1_egress_port_id", "hop_latency",
                   "q_id", "q_occupancy", "ingress_tstamp", "egress_tstamp"}
  /\ UsedFields \subseteq DOMAIN ArrayOf
BY FieldNames, ArrayNames
   DEF UsedFields, FieldsOf, ExporterBits, SwitchIdBit, L1PortIdsBit, HopLatencyBit, QueueBit,
       IngressTstampBit, EgressTstampBit

\* The word of an instruction is inside the datagram, and what the switch wrote if
\* the report has such a hop.
LEMMA WordIs ==
  ASSUME HopsHoldTheirWords, NEW d \in Datagrams, ~Dropped(d), NEW i \in 1..HopCnt(d), NEW b \in d.report.mask,
         NEW p, p = Transport(d) + 3 + (i - 1) * HopWidth(d) + 1 + WordsBefore(d.report.mask, b)
  PROVE  /\ Words(d)[p] \in WordPairs
         /\ i <= Len(d.report.hops) => Words(d)[p] = HopWords(b, d.report.hops[i])[1]
<1> DEFINE r == d.report
           w == Wire(r)
           o == Transport(d)
           l == HopWidth(d)
           st == Stack(r)
           op == r.options
           hs == r.hops
           z == Size(d)
           k == HopCnt(d)
           m == r.mask
           q == WordsBefore(m, b) + 1
           from == (i - 1) * l
<1>1. OnWire(r) /\ m \in Masks /\ hs \in Seq(HopValues) /\ l \in 1..9
  BY DatagramIs DEF OnWire
<1>2. b \in m /\ q \in 1..l
  <2> DEFINE h == [f \in Fields |-> 0]
  <2>1. h \in HopValues
    BY DEF HopValues
  <2>2. b \in m /\ 1 \in 1..(IF b = 6 THEN 2 ELSE 1)
    OBVIOUS
  <2> HIDE DEF h, m
  <2>3. WordsBefore(m, b) + 1 \in 1..WordsPerHop(m)
    BY <1>1, <2>1, <2>2, HopDataLaid
  <2> QED BY <2>2, <2>3 DEF HopWidth, m
<1>3. /\ o \in {2, 5} /\ Len(st) \in Nat /\ Len(op) \in Nat /\ Len(w) = o + 3 + Len(st) + Len(op)
      /\ \A j \in 1..Len(st) : w[o + 3 + j] = st[j]
      /\ \A j \in 1..(Len(st) + Len(op)) : w[o + 3 + j] \in WordPairs
  BY <1>1, WireLaid DEF Transport
<1>4. /\ z \in Nat /\ z <= Len(w) /\ \A j \in 1..z : Words(d)[j] = w[j]
      /\ k \in Nat /\ o + 3 + k * l <= z /\ i \in 1..k
  BY HopsAreThere, WordsAre
<1>5. /\ l = WordsPerHop(m) /\ Len(st) = Len(hs) * l
      /\ \A j \in 1..Len(hs) : \A n \in 1..l :
           (j - 1) * l + n \in 1..Len(hs) * l /\ st[(j - 1) * l + n] = HopData(m, hs[j])[n]
  BY <1>1, StackLaid DEF HopWidth
<1>6. p = o + 3 + (from + q)
  <2>1. WordsBefore(m, b) \in Nat
    <3>1. b \in 0..8 /\ m \in Masks
      BY <1>1, <1>2 DEF Masks, Bits
    <3> QED BY <3>1, WordsCounted
  <2>2. from \in Int
    BY <1>1
  <2> DEFINE v == WordsBefore(m, b)
  <2>3. p = o + 3 + from + 1 + v
    OBVIOUS
  <2>4. q = v + 1 /\ v \in Int
    BY <2>1
  <2>5. o \in Int
    BY <1>3
  <2> HIDE DEF from, v, o, q
  <2> QED BY <2>2, <2>3, <2>4, <2>5
<1> HIDE DEF r, w, o, l, st, op, hs, z, k, m, q
<1>7. from \in Nat /\ from + q \in Nat /\ from + q >= 1 /\ from + q <= k * l
  <2>1. from \in Nat /\ from + l <= k * l
    <3>1. from + l = i * l /\ i * l <= k * l /\ from \in Nat
      BY <1>1, <1>4
    <3> QED BY <3>1
  <2> HIDE DEF from
  <2>2. k * l \in Nat
    BY <1>1, <1>4
  <2> DEFINE y == k * l
  <2>3. from + l <= y /\ y \in Nat
    BY <2>1, <2>2
  <2> HIDE DEF y
  <2> QED BY <1>1, <1>2, <2>1, <2>3 DEF y
<1> DEFINE j == from + q
<1> HIDE DEF from
<1>8. j \in Nat /\ j >= 1 /\ p = o + 3 + j /\ p \in 1..z /\ j \in 1..(Len(st) + Len(op))
  <2> DEFINE y == k * l
  <2>1. y \in Nat /\ o + 3 + y <= z /\ j \in Nat /\ j >= 1 /\ j <= y
    BY <1>1, <1>4, <1>7
  <2> HIDE DEF y, j
  <2> QED BY <1>3, <1>4, <1>6, <2>1 DEF j
<1>9. Words(d)[p] = w[o + 3 + j]
  BY <1>4, <1>8
<1>10. Words(d)[p] \in WordPairs
  BY <1>3, <1>8, <1>9
<1>11. ASSUME i <= Len(hs) PROVE Words(d)[p] = HopWords(b, hs[i])[1]
  <2>1. i \in 1..Len(hs) /\ hs[i] \in HopValues
    <3>1. i \in 1..Len(hs)
      BY <1>1, <1>4, <1>11, LenProperties
    <3> QED BY <1>1, <3>1, ElementOfSeq
  <2>2. j \in 1..Len(hs) * l /\ st[j] = HopData(m, hs[i])[q]
    BY <1>2, <1>5, <2>1 DEF from
  <2>3. w[o + 3 + j] = st[j]
    <3> HIDE DEF j
    <3> QED BY <1>3, <1>5, <2>2
  <2>4. HopData(m, hs[i])[q] = HopWords(b, hs[i])[1]
    <3> DEFINE h == hs[i]
    <3>1. h \in HopValues /\ 1 \in 1..(IF b = 6 THEN 2 ELSE 1)
      BY <2>1
    <3> HIDE DEF h
    <3>2. HopData(m, h)[WordsBefore(m, b) + 1] = HopWords(b, h)[1]
      BY <1>1, <1>2, <3>1, HopDataLaid
    <3> QED BY <3>2 DEF q, h
  <2> QED BY <1>9, <2>2, <2>3, <2>4
<1> QED BY <1>10, <1>11 DEF hs, r

\* What is read for a field of a hop is what the switch wrote, the queue excepted.
LEMMA ReadIs ==
  ASSUME HopsHoldTheirWords, AtHop, hop <= info.hop_cnt,
         NEW f \in DOMAIN ArrayOf, f \in FieldsOf(packet.report.mask)
  PROVE  /\ Read(f) \in Nat
         /\ hop <= Len(packet.report.hops) /\ f \notin {"q_id", "q_occupancy"} =>
              Read(f) = packet.report.hops[hop][f]
<1> DEFINE d == packet
           r == packet.report
           b == BitOf[f]
           w == WordFor(b)
           h == r.hops[hop]
<1>1. d \in Datagrams /\ ~Dropped(d) /\ hop \in 1..HopCnt(d) /\ r.mask \in Masks
      /\ InsMap(d) = r.mask /\ OnWire(r)
  <2>1. d \in Datagrams /\ ~Dropped(d) /\ OnWire(r) /\ HopCnt(d) \in 0..MaxIntHop
    BY DatagramIs, HopsAreThere DEF AtHop, StandsAt
  <2>2. InsMap(d) = r.mask
    BY <2>1, HopsAreThere, WordsAre
  <2> QED BY <2>1, <2>2 DEF AtHop, StandsAt, OnWire
<1>2. b \in r.mask /\ f \in Fields
  BY DEF FieldsOf
<1>3. /\ w \in WordPairs
      /\ hop <= Len(r.hops) => w = HopWords(b, h)[1]
  <2>1. {c \in Mask : c < b} \in SUBSET Bits /\ Mask = r.mask
    BY <1>1 DEF Mask, Masks
  <2>2. Moves({c \in Mask : c < b}) = WordsBefore(r.mask, b)
    BY <2>1, MovesIs DEF WordsBefore
  <2> DEFINE p == cursor + 1 + Moves({c \in Mask : c < b})
             v == WordsBefore(r.mask, b)
             from == (hop - 1) * HopWidth(d)
  <2>3. v \in Nat
    <3>1. b \in 0..8
      BY <1>1, <1>2 DEF Masks, Bits
    <3> QED BY <1>1, <3>1, WordsCounted
  <2>4. cursor = Transport(d) + 3 + from /\ Transport(d) \in Int /\ from \in Int
    <3>1. Transport(d) \in Int
      BY DEF Transport, TransportWords
    <3>2. from \in Int
      BY <1>1, DatagramIs
    <3> QED BY <3>1, <3>2 DEF AtHop, StandsAt
  <2>5. p = Transport(d) + 3 + from + 1 + v
    <3>1. p = cursor + 1 + v
      BY <2>2
    <3> HIDE DEF p, v, from
    <3> QED BY <2>3, <2>4, <3>1
  <2>6. w = Words(d)[p]
    BY DEF WordFor
  <2> HIDE DEF p, d
  <2>7. /\ Words(d)[p] \in WordPairs
        /\ hop <= Len(d.report.hops) => Words(d)[p] = HopWords(b, d.report.hops[hop])[1]
    BY <1>1, <1>2, <2>5, WordIs DEF d
  <2> QED BY <2>6, <2>7 DEF d
<1> HIDE DEF w, b, h, r, d
<1>4. Read(f) = CASE f = "l1_ingress_port_id" -> w[1]
                  [] f = "l1_egress_port_id"  -> w[2]
                  [] f = "q_id"               -> QueueId(w)
                  [] f = "q_occupancy"        -> QueueOccup(w)
                  [] OTHER                    -> Whole(w)
  BY DEF Read, w, b
<1>5. w[1] \in Nat /\ w[2] \in Nat /\ Whole(w) \in Nat
  BY <1>3 DEF WordPairs, Whole
<1>6. QueueId(w) \in Nat /\ QueueOccup(w) \in Nat
  <2> DEFINE x == w[1]  y == w[2]
  <2>1. x \in Nat /\ y \in Nat
    BY <1>5
  <2>2. QueueId(w) = y % 256 /\ QueueOccup(w) = ((x \div 256) * 65536 + (x % 256) * 256 + (y \div 256)) * 256
    BY DEF QueueId, QueueOccup, Bytes
  <2> HIDE DEF x, y
  <2>3. x \div 256 \in Nat /\ x % 256 \in Nat /\ y \div 256 \in Nat /\ y % 256 \in Nat
    BY <2>1
  <2> QED BY <2>2, <2>3
<1>7. Read(f) \in Nat
  BY <1>4, <1>5, <1>6
<1>8. ASSUME hop <= Len(r.hops), f \notin {"q_id", "q_occupancy"} PROVE Read(f) = h[f]
  <2>1. w = HopWords(b, h)[1]
    BY <1>3, <1>8
  <2>2. h \in HopValues /\ h[f] \in Nat
    <3>1. r.hops \in Seq(HopValues) /\ hop \in 1..Len(r.hops)
      <4>1. r.hops \in Seq(HopValues) /\ HopCnt(d) \in Nat
        BY <1>1, HopsAreThere DEF OnWire
      <4>2. hop \in Nat /\ hop >= 1
        BY <1>1, <4>1
      <4> QED BY <1>8, <4>1, <4>2, LenProperties
    <3> QED BY <1>2, <3>1, ElementOfSeq DEF HopValues, h
  <2>3. CASE f \in {"l1_ingress_port_id", "l1_egress_port_id"}
    <3>1. b = 1
      BY <2>3, FieldNames DEF b
    <3>2. HopWords(1, h) = << <<h["l1_ingress_port_id"], h["l1_egress_port_id"]>> >>
      BY DEF HopWords, L1PortIdsBit, QueueBit, L2PortIdsBit
    <3>3. w = <<h["l1_ingress_port_id"], h["l1_egress_port_id"]>>
      BY <2>1, <3>1, <3>2
    <3> QED BY <1>4, <2>3, <3>3
  <2>4. CASE f \notin {"l1_ingress_port_id", "l1_egress_port_id"}
    <3>1. f \in {"switch_id", "hop_latency", "ingress_tstamp", "egress_tstamp",
                 "egress_port_tx_util"}
      BY <1>8, <2>4, ArrayNames
    <3>2. Read(f) = Whole(w) /\ b \in {0, 2, 4, 5, 7} /\ FieldOf(b) = f
      BY <1>4, <3>1, FieldNames, OnlyFields DEF b
    <3>3. HopWords(b, h) = <<Word(h[f])>>
      BY <3>2 DEF HopWords, L1PortIdsBit, QueueBit, L2PortIdsBit
    <3>4. w = Word(h[f])
      BY <2>1, <3>3
    <3> QED BY <2>2, <3>2, <3>4, WordOf
  <2> QED BY <2>3, <2>4
<1> QED BY <1>7, <1>8 DEF h, r

\* What a turn of the loop makes of a flow_info.
LEMMA WithHopIs ==
  ASSUME HopsHoldTheirWords, AtHop, hop <= info.hop_cnt, info \in Infos
  PROVE  /\ WithHop \in Infos /\ WithHop.hop_cnt = info.hop_cnt
         /\ \A f \in DOMAIN ArrayOf : \A i \in 1..MaxIntHop :
              Value(WithHop, f, i) =
                IF i = hop /\ f \in FieldsOf(packet.report.mask) THEN Read(f) ELSE Value(info, f, i)
         /\ HopLatencyBit \in packet.report.mask =>
              WithHop.flow_latency = info.flow_latency + Value(WithHop, "hop_latency", hop)
         /\ \A i \in 1..MaxIntHop - 1 :
              WithHop.link_latencies[i] =
                IF i = hop - 1 /\ packet.report.mask \cap LinkBits # {}
                  THEN LinkLatency(Value(WithHop, "ingress_tstamp", i),
                                   Value(WithHop, "egress_tstamp", i + 1))
                  ELSE info.link_latencies[i]
<1> DEFINE mask == packet.report.mask
           read == FieldsOf(Mask) \cap DOMAIN ArrayOf
           array == [a \in Arrays |->
                       IF \E f \in read : ArrayOf[f] = a
                         THEN [info.array[a] EXCEPT ![hop] = Read(CHOOSE f \in read : ArrayOf[f] = a)]
                         ELSE info.array[a]]
           latency == info.flow_latency + (IF HopLatencyBit \in Mask THEN array["hop_latencies"][hop] ELSE 0)
           links == IF hop > 1 /\ Mask \cap LinkBits # {}
                      THEN [info.link_latencies EXCEPT ![hop - 1] = LinkEnds(array)]
                      ELSE info.link_latencies
<1>1. Mask = mask /\ hop \in 1..MaxIntHop /\ info.hop_cnt \in 0..MaxIntHop /\ MaxIntHop \in Nat
  <2>1. packet \in Datagrams /\ HopCnt(packet) \in 0..MaxIntHop /\ RemainingSize(packet) >= IntSize
    BY HopsAreThere DEF AtHop, StandsAt
  <2>2. InsMap(packet) = mask
    BY <2>1, WordsAre
  <2> QED BY <2>1, <2>2, ParserAssumption DEF AtHop, StandsAt, Mask, ParserAssumption
<1>2. /\ info.array \in [Arrays -> [1..MaxIntHop -> Int]] /\ info.flow_latency \in Int
      /\ info.link_latencies \in [1..MaxIntHop - 1 -> Int]
      /\ info = [hop_cnt |-> info.hop_cnt, flow_latency |-> info.flow_latency,
                 link_latencies |-> info.link_latencies, array |-> info.array]
  BY DEF Infos
<1>3. WithHop = [hop_cnt |-> info.hop_cnt, flow_latency |-> latency, link_latencies |-> links,
                 array |-> array]
  <2> DEFINE n == info.hop_cnt  v == info.flow_latency  k == info.link_latencies  a == info.array
             x == [info EXCEPT !.array = array]
             y == [x EXCEPT !.flow_latency = latency]
             z == [y EXCEPT !.link_latencies = links]
  <2>1. WithHop = [info EXCEPT !.array = array, !.flow_latency = latency, !.link_latencies = links]
    BY DEF WithHop
  <2>2. info = [hop_cnt |-> n, flow_latency |-> v, link_latencies |-> k, array |-> a]
    BY <1>2
  <2> HIDE DEF array, latency, links, n, v, k, a
  <2>3. WithHop = z
    BY <2>1, <2>2
  <2>4. x = [hop_cnt |-> n, flow_latency |-> v, link_latencies |-> k, array |-> array]
    BY <2>2
  <2> HIDE DEF x
  <2>5. y = [hop_cnt |-> n, flow_latency |-> latency, link_latencies |-> k, array |-> array]
    BY <2>4
  <2> HIDE DEF y
  <2>6. z = [hop_cnt |-> n, flow_latency |-> latency, link_latencies |-> links, array |-> array]
    BY <2>5
  <2> QED BY <2>3, <2>6 DEF n
<1>4. ASSUME NEW f \in DOMAIN ArrayOf
      PROVE  /\ ArrayOf[f] \in Arrays
             /\ array[ArrayOf[f]] = IF f \in read THEN [info.array[ArrayOf[f]] EXCEPT ![hop] = Read(f)]
                                    ELSE info.array[ArrayOf[f]]
  <2> DEFINE a == ArrayOf[f]  chosen == CHOOSE g \in read : ArrayOf[g] = a
  <2>1. a \in Arrays
    BY DEF Arrays
  <2>2. array[a] = IF \E g \in read : ArrayOf[g] = a
                     THEN [info.array[a] EXCEPT ![hop] = Read(chosen)] ELSE info.array[a]
    BY <2>1
  <2>3. \A g \in read : ArrayOf[g] = a => g = f
    BY ArrayNames
  <2>4. f \in read => chosen = f /\ \E g \in read : ArrayOf[g] = a
    <3> HIDE DEF read
    <3> QED BY <2>3
  <2> HIDE DEF array, chosen, read
  <2>5. CASE f \in read
    BY <2>1, <2>2, <2>4, <2>5
  <2>6. CASE f \notin read
    <3>1. ~ \E g \in read : ArrayOf[g] = a
      BY <2>3, <2>6
    <3> QED BY <2>1, <2>2, <2>6, <3>1
  <2> QED BY <2>5, <2>6
<1>5. \A f \in read : Read(f) \in Nat
  BY <1>1, ReadIs
<1> HIDE DEF array, latency, links, read
<1>6. ASSUME NEW f \in DOMAIN ArrayOf
      PROVE  /\ array[ArrayOf[f]] \in [1..MaxIntHop -> Int]
             /\ \A i \in 1..MaxIntHop :
                  array[ArrayOf[f]][i] = IF i = hop /\ f \in read THEN Read(f) ELSE info.array[ArrayOf[f]][i]
  <2> DEFINE old == info.array[ArrayOf[f]]  new == array[ArrayOf[f]]
  <2>1. old \in [1..MaxIntHop -> Int] /\ new = IF f \in read THEN [old EXCEPT ![hop] = Read(f)] ELSE old
    BY <1>2, <1>4
  <2>2. f \in read => Read(f) \in Int
    BY <1>5
  <2> HIDE DEF old, new
  <2>3. CASE f \in read
    BY <1>1, <2>1, <2>2, <2>3 DEF old, new
  <2>4. CASE f \notin read
    BY <2>1, <2>4 DEF old, new
  <2> QED BY <2>3, <2>4
<1>7. array \in [Arrays -> [1..MaxIntHop -> Int]]
  <2>1. \A a \in Arrays : array[a] \in [1..MaxIntHop -> Int]
    BY <1>6 DEF Arrays
  <2>2. array = [a \in Arrays |-> array[a]]
    BY DEF array
  <2> QED BY <2>1, <2>2
<1>8. /\ array["hop_latencies"] \in [1..MaxIntHop -> Int]
      /\ array["ingress_tstamps"] \in [1..MaxIntHop -> Int]
      /\ array["egress_tstamps"] \in [1..MaxIntHop -> Int]
  BY <1>6, ArrayNames
<1>9. latency \in Int
  BY <1>1, <1>2, <1>8 DEF latency
<1>10. ASSUME NEW in \in Int, NEW out \in Int PROVE LinkLatency(in, out) \in Int
  BY DEF LinkLatency, Distance, Unset
<1>11. hop > 1 => LinkEnds(array) \in Int
               /\ LinkEnds(array) = LinkLatency(array["ingress_tstamps"][hop - 1], array["egress_tstamps"][hop])
  <2> SUFFICES ASSUME hop > 1
               PROVE  /\ LinkEnds(array) \in Int
                      /\ LinkEnds(array) = LinkLatency(array["ingress_tstamps"][hop - 1], array["egress_tstamps"][hop])
    OBVIOUS
  <2>1. LinkEnds(array) = LinkLatency(array["ingress_tstamps"][hop - 1], array["egress_tstamps"][hop])
    BY DEF LinkEnds
  <2>2. hop - 1 \in 1..MaxIntHop
    BY <1>1
  <2> DEFINE in == array["ingress_tstamps"][hop - 1]  out == array["egress_tstamps"][hop]
  <2>3. in \in Int /\ out \in Int
    BY <1>1, <1>8, <2>2
  <2> HIDE DEF in, out
  <2>4. LinkLatency(in, out) \in Int
    BY <1>10, <2>3
  <2> QED BY <2>1, <2>4 DEF in, out
<1>12. /\ links \in [1..MaxIntHop - 1 -> Int]
       /\ \A i \in 1..MaxIntHop - 1 :
            links[i] = IF i = hop - 1 /\ mask \cap LinkBits # {}
                         THEN LinkLatency(array["ingress_tstamps"][i], array["egress_tstamps"][i + 1])
                         ELSE info.link_latencies[i]
  <2> HIDE DEF mask
  <2>1. CASE hop > 1 /\ mask \cap LinkBits # {}
    <3>1. links = [info.link_latencies EXCEPT ![hop - 1] = LinkEnds(array)]
      BY <1>1, <2>1 DEF links
    <3>2. hop - 1 \in 1..MaxIntHop - 1 /\ (hop - 1) + 1 = hop
      BY <1>1, <2>1
    <3> QED BY <1>2, <1>11, <2>1, <3>1, <3>2
  <2>2. CASE ~(hop > 1 /\ mask \cap LinkBits # {})
    <3>1. links = info.link_latencies
      BY <1>1, <2>2 DEF links
    <3>2. ASSUME NEW i \in 1..MaxIntHop - 1 PROVE ~(i = hop - 1 /\ mask \cap LinkBits # {})
      BY <1>1, <2>2
    <3> QED BY <1>2, <3>1, <3>2
  <2> QED BY <2>1, <2>2
<1> DEFINE x == WithHop
<1>13. x.hop_cnt = info.hop_cnt /\ x.flow_latency = latency /\ x.link_latencies = links /\ x.array = array
  BY <1>3
<1>14. x \in Infos
  BY <1>1, <1>3, <1>7, <1>9, <1>12 DEF Infos
<1> HIDE DEF x
<1>15. \A f \in DOMAIN ArrayOf : \A i \in 1..MaxIntHop :
         Value(x, f, i) = IF i = hop /\ f \in FieldsOf(mask) THEN Read(f) ELSE Value(info, f, i)
  BY <1>1, <1>6, <1>13 DEF Value, read
<1>16. HopLatencyBit \in mask => x.flow_latency = info.flow_latency + Value(x, "hop_latency", hop)
  BY <1>1, <1>13, ArrayNames DEF latency, Value
<1>17. \A i \in 1..MaxIntHop - 1 :
         x.link_latencies[i] = IF i = hop - 1 /\ mask \cap LinkBits # {}
                                 THEN LinkLatency(Value(x, "ingress_tstamp", i), Value(x, "egress_tstamp", i + 1))
                                 ELSE info.link_latencies[i]
  BY <1>12, <1>13, ArrayNames DEF Value
<1> QED BY <1>13, <1>14, <1>15, <1>16, <1>17 DEF x

------------------------------------------------------------------------------
(* Types *)

Jobs == [info : Infos, report : {d.report : d \in Datagrams}]

TypeInv ==
  /\ pc \in {"pop", "headers", "hops"} /\ received \in 0..MaxDatagrams /\ info \in Infos
  /\ packet = NoPacket \/ packet \in Datagrams
  /\ pc # "pop" => packet \in Datagrams
  /\ pc # "hops" => cursor = 0 /\ hop = 1
  /\ pc = "hops" => AtHop
  /\ queue \in Seq(Jobs) /\ Len(queue) + (IF pc = "pop" THEN 0 ELSE 1) <= received

\* A new flow_info is a flow_info.
LEMMA NewInfoIs ==
  ASSUME NEW n \in 0..MaxIntHop
  PROVE  NewFlowInfo(n) \in Infos /\ NewFlowInfo(n).hop_cnt = n /\ NewFlowInfo(n).flow_latency = 0
BY DEF NewFlowInfo, Infos, Unset

LEMMA InitHasTypes == Init => TypeInv
<1> SUFFICES ASSUME Init PROVE TypeInv
  OBVIOUS
<1>1. MaxDatagrams \in Nat /\ 0 \in 0..MaxIntHop
  BY ParserAssumption DEF ParserAssumption
<1>2. info \in Infos
  BY <1>1, NewInfoIs DEF Init, NoInfo
<1>3. queue \in Seq(Jobs) /\ Len(queue) = 0
  <2>1. <<>> \in Seq(Jobs) /\ Len(<<>>) = 0
    OBVIOUS
  <2> QED BY <2>1 DEF Init
<1> QED BY <1>1, <1>2, <1>3 DEF Init, TypeInv

LEMMA StepKeepsTypes ==
  ASSUME HopsHoldTheirWords
  PROVE  TypeInv /\ [Next]_vars => TypeInv'
<1> SUFFICES ASSUME TypeInv, [Next]_vars PROVE TypeInv'
  OBVIOUS
<1>1. /\ pc \in {"pop", "headers", "hops"} /\ received \in 0..MaxDatagrams /\ info \in Infos
      /\ packet = NoPacket \/ packet \in Datagrams
      /\ pc # "pop" => packet \in Datagrams
      /\ pc # "hops" => cursor = 0 /\ hop = 1
      /\ pc = "hops" => StandsAt(packet, info, hop, cursor)
      /\ queue \in Seq(Jobs) /\ Len(queue) \in Nat
      /\ Len(queue) + (IF pc = "pop" THEN 0 ELSE 1) <= received
  BY LenProperties DEF TypeInv, AtHop
<1>2. MaxDatagrams \in Nat /\ MaxIntHop \in Nat
  BY ParserAssumption DEF ParserAssumption
<1> SUFFICES
      /\ pc' \in {"pop", "headers", "hops"} /\ received' \in 0..MaxDatagrams /\ info' \in Infos
      /\ packet' = NoPacket \/ packet' \in Datagrams
      /\ pc' # "pop" => packet' \in Datagrams
      /\ pc' # "hops" => cursor' = 0 /\ hop' = 1
      /\ pc' = "hops" => StandsAt(packet', info', hop', cursor')
      /\ queue' \in Seq(Jobs) /\ Len(queue') + (IF pc' = "pop" THEN 0 ELSE 1) <= received'
  BY DEF TypeInv, AtHop
<1>3. CASE Pop
  <2>1. /\ pc = "pop" /\ received < MaxDatagrams /\ packet' \in Datagrams
        /\ received' = received + 1 /\ pc' = "headers"
        /\ UNCHANGED <<info, hop, cursor, queue, exported>>
    BY <1>3 DEF Pop
  <2>2. received' \in 0..MaxDatagrams /\ Len(queue') + 1 <= received'
    BY <1>1, <1>2, <2>1
  <2> QED BY <1>1, <2>1, <2>2
<1>4. CASE Drop
  <2>1. /\ pc = "headers" /\ packet' = NoPacket /\ pc' = "pop"
        /\ UNCHANGED <<info, hop, cursor, queue, received, exported>>
    BY <1>4 DEF Drop
  <2>2. Len(queue') <= received'
    BY <1>1, <2>1
  <2> QED BY <1>1, <2>1, <2>2
<1>5. CASE ReadHeaders
  <2>1. /\ pc = "headers" /\ ~Dropped(packet) /\ cursor' = TransportWords(packet.report.protocol) + 3
        /\ info' = NewFlowInfo(HopCnt(packet)) /\ hop' = 1 /\ pc' = "hops"
        /\ UNCHANGED <<packet, queue, received, exported>>
    BY <1>5 DEF ReadHeaders
  <2>2. packet \in Datagrams
    BY <1>1, <2>1
  <2>3. HopCnt(packet) \in 0..MaxIntHop /\ HopWidth(packet) \in 1..9
    BY <2>1, <2>2, HopsAreThere, DatagramIs
  <2>4. info' \in Infos /\ info'.hop_cnt = HopCnt(packet)
    BY <2>1, <2>3, NewInfoIs
  <2>5. StandsAt(packet', info', hop', cursor')
    <3>1. 1 \in 1..info'.hop_cnt + 1
      BY <1>2, <2>3, <2>4
    <3>2. TransportWords(packet.report.protocol) + 3
            = Transport(packet) + 3 + (1 - 1) * HopWidth(packet)
      BY <2>3 DEF Transport, TransportWords
    <3> QED BY <2>1, <2>2, <2>4, <3>1, <3>2 DEF StandsAt
  <2> QED BY <1>1, <2>1, <2>2, <2>4, <2>5
<1>6. CASE ReadHop
  <2>1. /\ pc = "hops" /\ hop <= info.hop_cnt /\ info' = WithHop /\ hop' = hop + 1
        /\ cursor' = cursor + Moves(Mask) /\ UNCHANGED <<pc, packet, queue, received, exported>>
    BY <1>6 DEF ReadHop
  <2>2. AtHop /\ packet \in Datagrams /\ ~Dropped(packet)
    BY <1>1, <2>1 DEF AtHop, StandsAt
  <2>3. info' \in Infos /\ info'.hop_cnt = info.hop_cnt
    BY <1>1, <2>1, <2>2, WithHopIs
  <2>4. Moves(Mask) = HopWidth(packet) /\ HopWidth(packet) \in 1..9
    <3>1. Mask = packet.report.mask /\ packet.report.mask \in SUBSET Bits
      BY <2>2, HopsAreThere, WordsAre, DatagramIs DEF Mask, OnWire, Masks
    <3> QED BY <2>2, <3>1, MovesIs, DatagramIs DEF HopWidth
  <2>5. StandsAt(packet, info', hop + 1, cursor + HopWidth(packet))
    <3>1. /\ info.hop_cnt = HopCnt(packet) /\ hop \in 1..info.hop_cnt + 1
          /\ cursor = Transport(packet) + 3 + (hop - 1) * HopWidth(packet)
          /\ HopCnt(packet) \in 0..MaxIntHop
      BY <2>2, HopsAreThere DEF AtHop, StandsAt
    <3>2. hop + 1 \in 1..info'.hop_cnt + 1
      BY <1>2, <2>1, <2>3, <3>1
    <3>3. cursor + HopWidth(packet) = Transport(packet) + 3 + ((hop + 1) - 1) * HopWidth(packet)
      <4> DEFINE l == HopWidth(packet)  o == Transport(packet)
      <4>1. o \in Nat
        BY DEF Transport, TransportWords
      <4>2. hop \in Nat
        BY <1>2, <3>1
      <4> DEFINE x == (hop - 1) * l  y == ((hop + 1) - 1) * l
      <4> HIDE DEF o, l
      <4>3. l \in Nat
        BY <2>4 DEF l
      <4>4. y = x + l /\ x \in Int
        BY <4>2, <4>3
      <4>5. cursor = o + 3 + x
        BY <3>1 DEF o, l
      <4> HIDE DEF x, y
      <4>6. cursor + l = o + 3 + y
        BY <4>1, <4>3, <4>4, <4>5
      <4> QED BY <4>6 DEF o, l, y
    <3> QED BY <2>2, <2>3, <3>1, <3>2, <3>3 DEF StandsAt
  <2> QED BY <1>1, <2>1, <2>2, <2>3, <2>4, <2>5
<1>7. CASE Push
  <2>1. /\ pc = "hops" /\ queue' = Append(queue, [info |-> info, report |-> packet.report])
        /\ packet' = NoPacket /\ info' = NoInfo /\ hop' = 1 /\ cursor' = 0 /\ pc' = "pop"
        /\ UNCHANGED <<received, exported>>
    BY <1>7 DEF Push
  <2>2. info' \in Infos
    BY <1>2, <2>1, NewInfoIs DEF NoInfo
  <2>3. queue' \in Seq(Jobs) /\ Len(queue') = Len(queue) + 1
    <3> DEFINE j == [info |-> info, report |-> packet.report]
    <3>1. j \in Jobs
      BY <1>1, <2>1 DEF Jobs
    <3>2. queue' = Append(queue, j)
      BY <2>1
    <3> HIDE DEF j
    <3> QED BY <1>1, <3>1, <3>2, AppendProperties
  <2>4. Len(queue') <= received'
    BY <1>1, <2>1, <2>3
  <2> QED BY <1>1, <2>1, <2>2, <2>3, <2>4
<1>8. CASE Export
  <2>1. /\ queue # <<>> /\ queue' = Tail(queue)
        /\ UNCHANGED <<pc, packet, info, hop, cursor, received>>
    BY <1>8 DEF Export
  <2>2. queue' \in Seq(Jobs) /\ Len(queue') = Len(queue) - 1
    BY <1>1, <2>1, HeadTailProperties
  <2>3. Len(queue') + (IF pc = "pop" THEN 0 ELSE 1) <= received
    <3>1. Len(queue') \in Int /\ Len(queue') <= Len(queue) /\ received \in Int
      BY <1>1, <2>2
    <3> DEFINE u == Len(queue')  v == Len(queue)  x == IF pc = "pop" THEN 0 ELSE 1
    <3>2. u \in Int /\ v \in Int /\ u <= v /\ v + x <= received /\ x \in Int /\ received \in Int
      BY <1>1, <3>1
    <3> HIDE DEF u, v, x
    <3>3. u + x <= received
      BY <3>2
    <3> QED BY <3>3 DEF u, x
  <2> QED BY <1>1, <2>1, <2>2, <2>3
<1>9. CASE UNCHANGED vars
  BY <1>1, <1>9 DEF vars
<1> QED BY <1>3, <1>4, <1>5, <1>6, <1>7, <1>8, <1>9 DEF Next

\* A datagram has no fewer than no words, however short it is.
LEMMA SomeWords ==
  ASSUME NEW d \in Datagrams
  PROVE  Len(Words(d)) \in Nat
<1> DEFINE w == Wire(d.report)  z == Size(d)
<1>1. Len(w) \in Nat /\ \E E : w \in Seq(E)
  <2>1. PICK E : w \in Seq(E)
    BY DatagramIs, WireLaid
  <2> QED BY <2>1, LenProperties
<1>2. d.size \in Nat /\ d.size <= 50 + 4 * Len(w)
  BY DatagramIs DEF FullSize, OuterSize
<1>3. z = (d.size - 50) \div 4 /\ Words(d) = SubSeq(w, 1, z)
  BY DEF Words, Size, OuterSize
<1> HIDE DEF w, z
<1> DEFINE n == d.size
<1>4. n \in Nat /\ n <= 50 + 4 * Len(w) /\ z = (n - 50) \div 4
  BY <1>2, <1>3
<1> HIDE DEF n
<1>5. z \in Int /\ z <= Len(w)
  BY <1>1, <1>4
<1>6. PICK E : w \in Seq(E)
  BY <1>1
<1>7. \A i \in 1..z : w[i] \in E
  BY <1>1, <1>5, <1>6, ElementOfSeq
<1> DEFINE v == SubSeq(w, 1, z)
<1>8. v \in Seq(E)
  BY <1>5, <1>7, SubSeqProperties, 1 \in Int
<1> HIDE DEF v
<1>9. Len(v) \in Nat
  BY <1>8, LenProperties
<1> QED BY <1>3, <1>9 DEF v

LEMMA TypesHold == ASSUME HopsHoldTheirWords PROVE TypeInv => TypeOK
<1> SUFFICES ASSUME TypeInv PROVE TypeOK
  OBVIOUS
<1>1. MaxIntHop \in Nat
  BY ParserAssumption DEF ParserAssumption
<1>2. Len(queue) <= received
  BY LenProperties DEF TypeInv
<1>3. info.hop_cnt \in 0..MaxIntHop /\ \A a \in Arrays : DOMAIN info.array[a] = 1..MaxIntHop
  BY DEF TypeInv, Infos
<1>4. hop \in 1..MaxIntHop + 1
  <2>1. CASE pc = "hops"
    <3>1. hop \in 1..info.hop_cnt + 1
      BY <2>1 DEF TypeInv, AtHop, StandsAt
    <3> QED BY <1>1, <1>3, <3>1
  <2>2. CASE pc # "hops"
    BY <1>1, <2>2 DEF TypeInv
  <2> QED BY <2>1, <2>2
<1>5. pc # "pop" => cursor <= Len(Words(packet))
  <2>1. CASE pc = "hops"
    <3>1. /\ packet \in Datagrams /\ ~Dropped(packet) /\ hop \in 1..HopCnt(packet) + 1
          /\ cursor = Transport(packet) + 3 + (hop - 1) * HopWidth(packet)
      BY <2>1 DEF TypeInv, AtHop, StandsAt
    <3> DEFINE o == Transport(packet)  l == HopWidth(packet)  k == HopCnt(packet)  z == Size(packet)
    <3>2. /\ o \in {2, 5} /\ l \in 1..9 /\ k \in 0..MaxIntHop /\ z \in Nat
          /\ o + 3 + k * l <= z /\ Len(Words(packet)) = z
      BY <3>1, HopsAreThere, WordsAre, DatagramIs
    <3>3. hop \in 1..k + 1 /\ cursor = o + 3 + (hop - 1) * l
      BY <3>1
    <3> HIDE DEF o, l, k, z
    <3>4. (hop - 1) * l <= k * l /\ (hop - 1) * l \in Int /\ k * l \in Int
      BY <1>1, <3>2, <3>3
    <3>5. cursor <= z
      <4> DEFINE x == (hop - 1) * l  y == k * l
      <4>1. x <= y /\ x \in Int /\ y \in Int /\ o + 3 + y <= z /\ cursor = o + 3 + x
        BY <3>2, <3>3, <3>4
      <4> HIDE DEF x, y
      <4> QED BY <3>2, <4>1
    <3> QED BY <3>2, <3>5
  <2>2. CASE pc = "headers"
    <3>1. cursor = 0 /\ packet \in Datagrams
      BY <2>2 DEF TypeInv
    <3> QED BY <3>1, SomeWords
  <2> QED BY <2>1, <2>2 DEF TypeInv
<1> QED BY <1>2, <1>3, <1>4, <1>5 DEF TypeInv, TypeOK

LEMMA TypesAlways == ASSUME HopsHoldTheirWords PROVE Spec => []TypeInv
<1> QED BY InitHasTypes, StepKeepsTypes, PTL DEF Spec

\* If no datagram's hop_ml is less than the words of its instructions, no array of a
\* flow_info is written past its end and no word read past the end of a datagram,
\* whatever its size, its protocol and its instructions, and however hop_ml and the
\* words it was given for disagree otherwise.  The parser does not look whether it
\* is so (parser.c:64, 80-117): of the other datagrams nothing is said.
THEOREM ParserTypes == ASSUME HopsHoldTheirWords PROVE Spec => []TypeOK
BY TypesAlways, TypesHold, PTL

------------------------------------------------------------------------------
(* Values *)

IsSum(hops, g) ==
  g = [i \in 0..Len(hops) |-> IF i = 0 THEN 0 ELSE g[i - 1] + hops[i]["hop_latency"]]

SumsOf(hops) == CHOOSE g : IsSum(hops, g)

(* All that was read of hop i, all of the fields the exporter uses, is a      *)
(* number, and what the switch wrote if report r has such a hop.              *)
HopTold(x, r, i) ==
  \A f \in UsedFields :
    /\ Value(x, f, i) \in Nat
    /\ i <= Len(r.hops) /\ f \in ExactFields => Value(x, f, i) = r.hops[i][f]

LinkTold(x, i) ==
  x.link_latencies[i] = Distance(Value(x, "ingress_tstamp", i), Value(x, "egress_tstamp", i + 1))

(* The first k hops of r are in x. *)
InfoTells(x, r, k) ==
  /\ \A i \in 1..k : HopTold(x, r, i)
  /\ \A i \in 1..k - 1 : LinkTold(x, i)
  /\ x.flow_latency \in Nat /\ (k <= Len(r.hops) => x.flow_latency = SumsOf(r.hops)[k])

(* Options may be taken for hops. *)
CountTells(n, r) ==
  r.hop_ml = WordsPerHop(r.mask) =>
    n - Len(r.hops) \in 0..Len(r.options) \div WordsPerHop(r.mask)

JobTells(j) ==
  /\ CountTells(j.info.hop_cnt, j.report)
  /\ ExporterBits \subseteq j.report.mask => InfoTells(j.info, j.report, j.info.hop_cnt)

TrueJobs == {j \in Jobs : JobTells(j)}

Entry(j) == [metrics |-> Metrics(j.info), report |-> j.report]

DataInv ==
  /\ pc = "hops" => CountTells(info.hop_cnt, packet.report)
  /\ pc = "hops" /\ ExporterBits \subseteq packet.report.mask =>
       InfoTells(info, packet.report, hop - 1)
  /\ queue \in Seq(TrueJobs)
  /\ \A e \in exported : \E j \in TrueJobs : e = Entry(j)

\* The latencies of hops can be added up, hop by hop.
LEMMA SumsAre ==
  ASSUME NEW hops \in Seq(HopValues)
  PROVE  /\ SumsOf(hops)[0] = 0 /\ Latency(hops) = SumsOf(hops)[Len(hops)]
         /\ \A i \in 1..Len(hops) : SumsOf(hops)[i] = SumsOf(hops)[i - 1] + hops[i]["hop_latency"]
<1> DEFINE n == Len(hops)
           d == [i \in 1..n |-> hops[i]["hop_latency"]]
<1>1. n \in Nat /\ d \in [1..n -> Nat]
  <2>1. n \in Nat /\ \A i \in 1..n : hops[i] \in HopValues
    BY LenProperties, ElementOfSeq
  <2>2. "hop_latency" \in Fields
    BY FieldNames
  <2> QED BY <2>1, <2>2 DEF HopValues
<1> HIDE DEF n
<1>2. PICK f \in [0..n -> Nat] : f[0] = 0 /\ \A i \in 1..n : f[i] = f[i - 1] + d[i]
  <2> HIDE DEF d
  <2> QED BY <1>1, PartialSums
<1>3. IsSum(hops, f)
  <2>1. ASSUME NEW i \in 0..n PROVE f[i] = IF i = 0 THEN 0 ELSE f[i - 1] + hops[i]["hop_latency"]
    BY <1>1, <1>2
  <2> QED BY <1>2, <2>1 DEF IsSum, n
<1> DEFINE w == SumsOf(hops)
<1>4. IsSum(hops, w)
  BY <1>3 DEF SumsOf
<1>5. Latency(hops) = w[n]
  BY DEF Latency, SumsOf, IsSum, n
<1> HIDE DEF w
<1>6. \A i \in 0..n : w[i] = IF i = 0 THEN 0 ELSE w[i - 1] + hops[i]["hop_latency"]
  BY <1>4 DEF IsSum, n
<1>7. w[0] = 0 /\ \A i \in 1..n : w[i] = w[i - 1] + hops[i]["hop_latency"]
  BY <1>1, <1>6
<1> QED BY <1>5, <1>7 DEF w, n

\* A datagram that is not dropped is taken for all the hops of its report, and for
\* more only if its options are as long as one.
LEMMA HopsAreCounted ==
  ASSUME HopsHoldTheirWords, OnlyReports, NEW d \in Datagrams, ~Dropped(d)
  PROVE  CountTells(HopCnt(d), d.report)
<1> SUFFICES ASSUME d.report.hop_ml = HopWidth(d) PROVE CountTells(HopCnt(d), d.report)
  BY DEF CountTells, HopWidth
<1> DEFINE r == d.report
           l == HopWidth(d)
           o == Transport(d)
           n == Len(r.hops)
           op == Len(r.options)
           st == Len(Stack(r))
           x == RemainingSize(d) - IntSize
           c == x \div (4 * l)
           k == HopCnt(d)
           z == d.size
<1>1. /\ OnWire(r) /\ l \in 1..9 /\ z \in Nat /\ z <= BufferSize /\ BufferSize = 512
      /\ (z = FullSize(r) \/ z = BufferSize) /\ MaxIntHop <= 6
  BY DatagramIs DEF OnlyReports
<1>2. /\ RemainingSize(d) >= IntSize /\ k \in 0..MaxIntHop /\ MaxIntHop <= 6
  BY HopsAreThere DEF OnlyReports
<1>3. n \in Nat /\ op \in Nat /\ st = n * l /\ l = WordsPerHop(r.mask)
  BY <1>1, StackLaid, LenProperties DEF OnWire, HopWidth
<1>4. o \in {2, 5} /\ Len(Wire(r)) = o + 3 + st + op
  BY <1>1, WireLaid DEF Transport
<1>5. FullSize(r) = 50 + 4 * (o + 3 + st + op)
  BY <1>4 DEF FullSize, OuterSize
<1>6. x = z - 50 - 4 * o - 12 /\ k = c % 256
  <2>1. HopMl(d) = l
    BY <1>2, WordsAre
  <2> QED BY <2>1 DEF HopCnt, RemainingSize, OuterSize, IntSize, Transport
<1>7. x >= 0
  <2>1. RemainingSize(d) = z - 50 - 4 * o /\ z \in Int /\ o \in Int
    BY <1>1, <1>4 DEF RemainingSize, OuterSize, Transport
  <2> HIDE DEF z, o
  <2>2. x = z - 50 - 4 * o - 12 /\ z - 50 - 4 * o >= 12
    BY <1>2, <2>1 DEF IntSize
  <2> QED BY <2>1, <2>2
<1> HIDE DEF r, l, o, n, op, st, x, k, z
<1>8. CASE z = FullSize(r)
  <2> DEFINE y == n * l
  <2>1. y \in Nat /\ st = y
    BY <1>1, <1>3
  <2>2. x = 4 * (y + op) /\ y + op <= 110
    <3>1. /\ z = 50 + 4 * (o + 3 + st + op) /\ z <= 512 /\ x = z - 50 - 4 * o - 12
          /\ o \in {2, 5}
      BY <1>1, <1>4, <1>5, <1>6, <1>8
    <3>2. op \in Nat
      BY <1>3
    <3> HIDE DEF y
    <3> QED BY <2>1, <3>1, <3>2
  <2>3. /\ c = n + op \div l
        /\ op \div l \in Nat /\ n <= y /\ op \div l <= op
    BY <1>1, <1>3, <2>2, WholeHops
  <2> DEFINE q == op \div l
  <2> HIDE DEF y, q, c
  <2>4. k = n + q /\ q \in Nat
    BY <1>3, <1>6, <2>1, <2>2, <2>3 DEF q
  <2>5. k - n \in 0..q
    BY <1>3, <2>4
  <2> QED BY <1>3, <2>5 DEF CountTells, q, k, n, op, r
<1>9. CASE z = BufferSize
  <2>1. x \in 430..442
    BY <1>1, <1>4, <1>6, <1>9
  <2>2. c >= 11 /\ c <= 110
    <3>1. CASE l = 1
      BY <2>1, <3>1
    <3>2. CASE l = 2
      BY <2>1, <3>2
    <3>3. CASE l = 3
      BY <2>1, <3>3
    <3>4. CASE l = 4
      BY <2>1, <3>4
    <3>5. CASE l = 5
      BY <2>1, <3>5
    <3>6. CASE l = 6
      BY <2>1, <3>6
    <3>7. CASE l = 7
      BY <2>1, <3>7
    <3>8. CASE l = 8
      BY <2>1, <3>8
    <3>9. CASE l = 9
      BY <2>1, <3>9
    <3> QED BY <1>1, <3>1, <3>2, <3>3, <3>4, <3>5, <3>6, <3>7, <3>8, <3>9
  <2>3. c \in Int
    BY <1>1, <2>1
  <2> HIDE DEF c
  <2>4. k >= 11
    BY <1>6, <2>2, <2>3
  <2>5. MaxIntHop \in Nat
    BY ParserAssumption DEF ParserAssumption
  <2> QED BY <1>2, <2>4, <2>5
<1> QED BY <1>1, <1>8, <1>9

\* A turn of the loop reads one hop more.
LEMMA TurnTells ==
  ASSUME HopsHoldTheirWords, AtHop, hop <= info.hop_cnt, info \in Infos, ExporterBits \subseteq packet.report.mask,
         InfoTells(info, packet.report, hop - 1)
  PROVE  InfoTells(WithHop, packet.report, hop)
<1> DEFINE r == packet.report
           x == WithHop
           bits == r.mask
<1>1. /\ hop \in 1..MaxIntHop /\ MaxIntHop \in Nat /\ r.hops \in Seq(HopValues)
      /\ Len(r.hops) \in Nat /\ info.hop_cnt \in 0..MaxIntHop
  <2>1. r.hops \in Seq(HopValues)
    BY DatagramIs DEF AtHop, StandsAt, OnWire
  <2>2. hop \in 1..info.hop_cnt + 1 /\ info.hop_cnt \in 0..MaxIntHop /\ MaxIntHop \in Nat
    BY ParserAssumption DEF AtHop, StandsAt, Infos, ParserAssumption
  <2>3. hop \in 1..MaxIntHop
    BY <2>2
  <2> QED BY <2>1, <2>2, <2>3, LenProperties
<1>2. UsedFields \subseteq DOMAIN ArrayOf /\ UsedFields \subseteq FieldsOf(bits)
  BY UsedFieldsAre DEF UsedFields, FieldsOf
<1>3. /\ \A f \in UsedFields : \A i \in 1..MaxIntHop :
           Value(x, f, i) = IF i = hop THEN Read(f) ELSE Value(info, f, i)
      /\ x.flow_latency = info.flow_latency + Value(x, "hop_latency", hop)
      /\ \A i \in 1..MaxIntHop - 1 :
           x.link_latencies[i] =
             IF i = hop - 1 THEN LinkLatency(Value(x, "ingress_tstamp", i), Value(x, "egress_tstamp", i + 1))
             ELSE info.link_latencies[i]
  <2>1. HopLatencyBit \in bits /\ bits \cap LinkBits # {}
    BY DEF ExporterBits, LinkBits
  <2>2. /\ \A f \in DOMAIN ArrayOf : \A i \in 1..MaxIntHop :
             Value(x, f, i) = IF i = hop /\ f \in FieldsOf(bits) THEN Read(f) ELSE Value(info, f, i)
        /\ HopLatencyBit \in bits =>
              x.flow_latency = info.flow_latency + Value(x, "hop_latency", hop)
        /\ \A i \in 1..MaxIntHop - 1 :
              x.link_latencies[i] =
                IF i = hop - 1 /\ bits \cap LinkBits # {}
                  THEN LinkLatency(Value(x, "ingress_tstamp", i), Value(x, "egress_tstamp", i + 1))
                  ELSE info.link_latencies[i]
    BY WithHopIs
  <2> HIDE DEF x, bits
  <2> QED BY <1>2, <2>1, <2>2
<1>4. \A f \in UsedFields :
        /\ Read(f) \in Nat
        /\ hop <= Len(r.hops) /\ f \in ExactFields => Read(f) = r.hops[hop][f]
  BY <1>2, ReadIs DEF ExactFields
<1>5. /\ \A i \in 1..hop - 1 : HopTold(info, r, i)
      /\ \A i \in 1..(hop - 1) - 1 : LinkTold(info, i)
      /\ info.flow_latency \in Nat
      /\ (hop - 1 <= Len(r.hops) => info.flow_latency = SumsOf(r.hops)[hop - 1])
  BY DEF InfoTells
<1>6. {"hop_latency", "ingress_tstamp", "egress_tstamp"} \subseteq UsedFields
      /\ "hop_latency" \in ExactFields
  BY UsedFieldsAre DEF ExactFields
<1> HIDE DEF r, x, bits
<1>7. ASSUME NEW i \in 1..hop PROVE HopTold(x, r, i)
  <2>1. i \in 1..MaxIntHop
    BY <1>1
  <2>2. CASE i = hop
    <3>1. \A f \in UsedFields : Value(x, f, i) = Read(f)
      BY <1>3, <2>1, <2>2
    <3> QED BY <1>4, <2>2, <3>1 DEF HopTold
  <2>3. CASE i # hop
    <3>1. i \in 1..hop - 1
      BY <1>1, <2>3
    <3>2. \A f \in UsedFields : Value(x, f, i) = Value(info, f, i)
      BY <1>3, <2>1, <2>3
    <3> QED BY <1>5, <3>1, <3>2 DEF HopTold
  <2> QED BY <2>2, <2>3
<1>8. ASSUME NEW i \in 1..hop - 1 PROVE LinkTold(x, i)
  <2>1. i \in 1..MaxIntHop - 1 /\ i \in 1..hop /\ i + 1 \in 1..hop /\ i \in 1..MaxIntHop
        /\ i + 1 \in 1..MaxIntHop /\ i # hop
    BY <1>1
  <2>2. CASE i = hop - 1
    <3> DEFINE in == Value(x, "ingress_tstamp", i)  out == Value(x, "egress_tstamp", i + 1)
    <3>1. in \in Nat /\ out \in Nat
      BY <1>6, <1>7, <2>1 DEF HopTold
    <3>2. x.link_latencies[i] = LinkLatency(in, out)
      BY <1>3, <2>1, <2>2
    <3> HIDE DEF in, out
    <3>3. LinkLatency(in, out) = Distance(in, out)
      BY <3>1 DEF LinkLatency, Unset
    <3> QED BY <3>2, <3>3 DEF LinkTold, in, out
  <2>3. CASE i # hop - 1
    <3>1. i \in 1..(hop - 1) - 1 /\ i + 1 # hop
      BY <1>1, <2>3
    <3>2. x.link_latencies[i] = info.link_latencies[i]
      BY <1>3, <2>1, <2>3
    <3>3. /\ Value(x, "ingress_tstamp", i) = Value(info, "ingress_tstamp", i)
          /\ Value(x, "egress_tstamp", i + 1) = Value(info, "egress_tstamp", i + 1)
      BY <1>3, <1>6, <2>1, <3>1
    <3>4. LinkTold(info, i)
      BY <1>5, <3>1
    <3> QED BY <3>2, <3>3, <3>4 DEF LinkTold
  <2> QED BY <2>2, <2>3
<1>9. /\ x.flow_latency \in Nat
      /\ hop <= Len(r.hops) => x.flow_latency = SumsOf(r.hops)[hop]
  <2>1. HopTold(x, r, hop)
    BY <1>1, <1>7
  <2> DEFINE v == Value(x, "hop_latency", hop)
  <2>2. v \in Nat /\ (hop <= Len(r.hops) => v = r.hops[hop]["hop_latency"])
    BY <1>6, <2>1 DEF HopTold
  <2>3. x.flow_latency = info.flow_latency + v
    BY <1>3
  <2> HIDE DEF v
  <2>4. ASSUME hop <= Len(r.hops) PROVE x.flow_latency = SumsOf(r.hops)[hop]
    <3>1. hop \in 1..Len(r.hops) /\ hop - 1 <= Len(r.hops)
      BY <1>1, <2>4
    <3>2. SumsOf(r.hops)[hop] = SumsOf(r.hops)[hop - 1] + r.hops[hop]["hop_latency"]
      BY <1>1, <3>1, SumsAre
    <3> QED BY <1>5, <2>2, <2>3, <2>4, <3>1, <3>2
  <2> QED BY <1>5, <2>2, <2>3, <2>4
<1> QED BY <1>7, <1>8, <1>9 DEF InfoTells, x, r

LEMMA InitTells == Init => DataInv
<1> SUFFICES ASSUME Init PROVE DataInv
  OBVIOUS
<1>1. <<>> \in Seq(TrueJobs)
  OBVIOUS
<1> QED BY <1>1 DEF Init, DataInv

LEMMA StepTells ==
  ASSUME HopsHoldTheirWords, OnlyReports
  PROVE  TypeInv /\ DataInv /\ [Next]_vars => DataInv'
<1> SUFFICES ASSUME TypeInv, DataInv, [Next]_vars PROVE DataInv'
  OBVIOUS
<1>1. /\ pc = "hops" => CountTells(info.hop_cnt, packet.report)
      /\ pc = "hops" /\ ExporterBits \subseteq packet.report.mask =>
           InfoTells(info, packet.report, hop - 1)
      /\ queue \in Seq(TrueJobs)
      /\ \A e \in exported : \E j \in TrueJobs : e = Entry(j)
  BY DEF DataInv
<1>2. /\ pc # "pop" => packet \in Datagrams
      /\ pc = "hops" => AtHop
      /\ info \in Infos
  BY DEF TypeInv
<1> SUFFICES
      /\ pc' = "hops" => CountTells(info'.hop_cnt, packet'.report)
      /\ pc' = "hops" /\ ExporterBits \subseteq packet'.report.mask =>
           InfoTells(info', packet'.report, hop' - 1)
      /\ queue' \in Seq(TrueJobs)
      /\ \A e \in exported' : \E j \in TrueJobs : e = Entry(j)
  BY DEF DataInv
<1>3. CASE Pop
  <2>1. pc' = "headers" /\ UNCHANGED <<queue, exported>>
    BY <1>3 DEF Pop
  <2> QED BY <1>1, <2>1
<1>4. CASE Drop
  <2>1. pc' = "pop" /\ UNCHANGED <<queue, exported>>
    BY <1>4 DEF Drop
  <2> QED BY <1>1, <2>1
<1>5. CASE ReadHeaders
  <2>1. /\ pc = "headers" /\ ~Dropped(packet) /\ info' = NewFlowInfo(HopCnt(packet)) /\ hop' = 1
        /\ UNCHANGED <<packet, queue, exported>>
    BY <1>5 DEF ReadHeaders
  <2>2. packet \in Datagrams
    BY <1>2, <2>1
  <2>3. info'.hop_cnt = HopCnt(packet) /\ info'.flow_latency = 0
    <3>1. HopCnt(packet) \in 0..MaxIntHop
      BY <2>1, <2>2, HopsAreThere
    <3> QED BY <2>1, <3>1, NewInfoIs
  <2>4. CountTells(HopCnt(packet), packet.report)
    BY <2>1, <2>2, HopsAreCounted
  <2>5. InfoTells(info', packet.report, 1 - 1)
    <3>1. packet.report.hops \in Seq(HopValues)
      BY <2>2, DatagramIs DEF OnWire
    <3>2. SumsOf(packet.report.hops)[0] = 0
      BY <3>1, SumsAre
    <3>3. 1 - 1 = 0 /\ 1..0 = {} /\ 1..0 - 1 = {}
      OBVIOUS
    <3> QED BY <2>3, <3>2, <3>3 DEF InfoTells
  <2> QED BY <1>1, <2>1, <2>3, <2>4, <2>5
<1>6. CASE ReadHop
  <2>1. /\ pc = "hops" /\ hop <= info.hop_cnt /\ info' = WithHop /\ hop' = hop + 1
        /\ UNCHANGED <<packet, queue, exported>>
    BY <1>6 DEF ReadHop
  <2>2. AtHop /\ WithHop.hop_cnt = info.hop_cnt
    BY <1>2, <2>1, WithHopIs
  <2>3. ExporterBits \subseteq packet.report.mask => InfoTells(info', packet.report, hop)
    BY <1>1, <1>2, <2>1, <2>2, TurnTells
  <2>4. hop' - 1 = hop
    <3>1. hop \in Int
      BY <2>2, <1>2 DEF AtHop, StandsAt, Infos
    <3> QED BY <2>1, <3>1
  <2> QED BY <1>1, <2>1, <2>2, <2>3, <2>4
<1>7. CASE Push
  <2>1. /\ pc = "hops" /\ hop > info.hop_cnt
        /\ queue' = Append(queue, [info |-> info, report |-> packet.report])
        /\ pc' = "pop" /\ UNCHANGED exported
    BY <1>7 DEF Push
  <2> DEFINE j == [info |-> info, report |-> packet.report]
  <2>2. j \in Jobs
    BY <1>2, <2>1 DEF Jobs
  <2>3. hop - 1 = info.hop_cnt
    BY <1>2, <2>1, ParserAssumption DEF AtHop, StandsAt, Infos, ParserAssumption
  <2>4. JobTells(j)
    BY <1>1, <2>1, <2>3 DEF JobTells
  <2>5. queue' = Append(queue, j) /\ j \in TrueJobs
    BY <2>1, <2>2, <2>4 DEF TrueJobs
  <2> HIDE DEF j
  <2>6. queue' \in Seq(TrueJobs)
    BY <1>1, <2>5, AppendProperties
  <2> QED BY <1>1, <2>1, <2>6
<1>8. CASE Export
  <2>1. /\ queue # <<>> /\ queue' = Tail(queue)
        /\ exported' = exported \cup {Entry(Head(queue))}
        /\ UNCHANGED <<pc, packet, info, hop>>
    BY <1>8 DEF Export, Entry
  <2>2. queue' \in Seq(TrueJobs) /\ Head(queue) \in TrueJobs
    BY <1>1, <2>1, HeadTailProperties
  <2>3. \A e \in exported' : \E j \in TrueJobs : e = Entry(j)
    BY <1>1, <2>1, <2>2
  <2> QED BY <1>1, <2>1, <2>2, <2>3
<1>9. CASE UNCHANGED vars
  BY <1>1, <1>9 DEF vars
<1> QED BY <1>3, <1>4, <1>5, <1>6, <1>7, <1>8, <1>9 DEF Next

\* What is exported for a flow_info that holds its report.
LEMMA MetricsTell ==
  ASSUME NEW j \in TrueJobs, ExporterBits \subseteq j.report.mask,
         j.report.hop_ml = WordsPerHop(j.report.mask)
  PROVE  AreTrueOf(Metrics(j.info), j.report)
<1> DEFINE x == j.info
           r == j.report
           h == r.hops
           n == Len(h)
           c == x.hop_cnt
           m == Metrics(x)
           o == Len(r.options) \div WordsPerHop(r.mask)
           v(f, i) == Value(x, f, i)
<1>1. /\ c - n \in 0..o /\ InfoTells(x, r, c) /\ c \in 0..MaxIntHop /\ MaxIntHop \in Nat
      /\ h \in Seq(HopValues) /\ n \in Nat /\ o \in Int
  <2>1. j \in Jobs /\ JobTells(j)
    BY DEF TrueJobs
  <2>2. PICK d \in Datagrams : r = d.report
    BY <2>1 DEF Jobs
  <2>3. h \in Seq(HopValues) /\ Len(r.options) \in Nat /\ WordsPerHop(r.mask) \in 1..9
    BY <2>2, DatagramIs, LenProperties DEF OnWire, HopWidth
  <2>4. o \in Int
    <3> DEFINE a == Len(r.options)  l == WordsPerHop(r.mask)
    <3>1. a \in Nat /\ l \in 1..9
      BY <2>3
    <3> HIDE DEF a, l
    <3>2. a \div l \in Int
      BY <3>1
    <3> QED BY <3>2 DEF a, l
  <2>5. c \in 0..MaxIntHop /\ MaxIntHop \in Nat
    BY <2>1, ParserAssumption DEF Jobs, Infos, ParserAssumption
  <2> QED BY <2>1, <2>3, <2>4, <2>5, LenProperties DEF JobTells, CountTells
<1>2. n <= c
  <2> HIDE DEF c, n, o
  <2> QED BY <1>1
<1>3. /\ m.flow = <<Metric("flow", x.flow_latency)>>
      /\ m.switch = [i \in 1..c |-> Metric(v("switch_id", i), v("hop_latency", i))]
      /\ m.link = [i \in 1..c - 1 |-> Metric(LinkId(x, i), x.link_latencies[i])]
      /\ m.queue = [i \in 1..c |-> Metric(QueueIdOf(x, i), v("q_occupancy", i))]
      /\ DOMAIN m = {"flow", "switch", "link", "queue"}
  BY ArrayNames DEF Metrics, Value
<1>4. /\ \A i \in 1..c : HopTold(x, r, i)
      /\ \A i \in 1..c - 1 : LinkTold(x, i)
      /\ x.flow_latency \in Nat /\ (c <= n => x.flow_latency = SumsOf(h)[c])
  BY <1>1 DEF InfoTells
<1>5. /\ {"switch_id", "hop_latency", "ingress_tstamp", "egress_tstamp", "l1_egress_port_id",
          "l1_ingress_port_id"} \subseteq ExactFields
      /\ ExactFields \subseteq UsedFields /\ "q_occupancy" \in UsedFields
  BY UsedFieldsAre DEF ExactFields
<1>6. ASSUME NEW i, NEW i1, i1 = i + 1
      PROVE  LinkId(x, i) = [egress_switch_id |-> v("switch_id", i),
                             egress_port_id |-> v("l1_egress_port_id", i),
                             ingress_switch_id |-> v("switch_id", i1),
                             ingress_port_id |-> v("l1_ingress_port_id", i1)]
  BY <1>6, ArrayNames DEF LinkId, Value
<1> HIDE DEF x, r, h, n, c, m, o, v
<1>0. \A a, b : Metric(a, b).id = a /\ Metric(a, b).val = b
  BY DEF Metric
<1>7. ASSUME NEW i \in 1..n, NEW f \in ExactFields PROVE v(f, i) = h[i][f]
  <2>1. i \in 1..c /\ i <= n
    BY <1>1, <1>2
  <2>2. HopTold(x, r, i) /\ f \in UsedFields
    BY <1>4, <1>5, <2>1
  <2> QED BY <2>1, <2>2 DEF HopTold, v, h, n
<1>8. ASSUME NEW i \in 1..c, NEW f \in UsedFields PROVE v(f, i) \in Nat
  BY <1>4 DEF HopTold, v
<1>9. Len(m.switch) = c /\ DOMAIN m.link = 1..c - 1
  <2> DEFINE s == m.switch  E == {s[i] : i \in 1..c}
  <2>1. s = [i \in 1..c |-> s[i]]
    BY <1>3
  <2> HIDE DEF s
  <2>2. Len(s) = c
    <3>1. s \in [1..c -> E]
      BY <2>1
    <3> HIDE DEF E
    <3> QED BY <1>1, <3>1, LenProperties
  <2> QED BY <1>3, <2>2 DEF s
<1>10. \A i \in 1..n : m.switch[i] = Metric(h[i]["switch_id"], h[i]["hop_latency"])
  <2> SUFFICES ASSUME NEW i \in 1..n
               PROVE  m.switch[i] = Metric(h[i]["switch_id"], h[i]["hop_latency"])
    OBVIOUS
  <2>1. i \in 1..c
    BY <1>1, <1>2
  <2>2. v("switch_id", i) = h[i]["switch_id"] /\ v("hop_latency", i) = h[i]["hop_latency"]
    BY <1>5, <1>7
  <2> QED BY <1>3, <2>1, <2>2
<1>11. ASSUME NEW i \in 1..c - 1 PROVE m.link[i] = Metric(LinkId(x, i), Distance(v("ingress_tstamp", i), v("egress_tstamp", i + 1)))
  BY <1>3, <1>4 DEF LinkTold, v
<1>12. ASSUME NEW i \in 1..n - 1
       PROVE  /\ m.link[i].val = Distance(h[i]["ingress_tstamp"], h[i + 1]["egress_tstamp"])
              /\ m.link[i].id = [egress_switch_id |-> h[i]["switch_id"],
                                 egress_port_id |-> h[i]["l1_egress_port_id"],
                                 ingress_switch_id |-> h[i + 1]["switch_id"],
                                 ingress_port_id |-> h[i + 1]["l1_ingress_port_id"]]
  <2>1. i \in 1..c - 1 /\ i \in 1..n /\ i + 1 \in 1..n
    BY <1>1, <1>2
  <2>2. /\ v("ingress_tstamp", i) = h[i]["ingress_tstamp"]
        /\ v("egress_tstamp", i + 1) = h[i + 1]["egress_tstamp"]
        /\ v("switch_id", i) = h[i]["switch_id"] /\ v("switch_id", i + 1) = h[i + 1]["switch_id"]
        /\ v("l1_egress_port_id", i) = h[i]["l1_egress_port_id"]
        /\ v("l1_ingress_port_id", i + 1) = h[i + 1]["l1_ingress_port_id"]
    BY <1>5, <1>7, <2>1
  <2>3. m.link[i].id = LinkId(x, i)
        /\ m.link[i].val = Distance(v("ingress_tstamp", i), v("egress_tstamp", i + 1))
    BY <1>0, <1>11, <2>1
  <2> QED BY <1>6, <2>2, <2>3
<1>13. m.flow[1].val = x.flow_latency /\ DOMAIN m.flow = {1}
  BY <1>0, <1>3
<1>14. c = n => m.flow[1].val = Latency(h)
  BY <1>1, <1>4, <1>13, SumsAre DEF n
<1>15. \A k \in DOMAIN m : \A i \in DOMAIN m[k] : m[k][i].val # Unset
  <2>1. m["flow"][1].val \in Nat
    BY <1>4, <1>13
  <2>2. \A i \in 1..c : m["switch"][i].val \in Nat
    <3> SUFFICES ASSUME NEW i \in 1..c PROVE m.switch[i].val \in Nat
      OBVIOUS
    <3>1. m.switch[i] = Metric(v("switch_id", i), v("hop_latency", i))
      BY <1>3
    <3>2. v("hop_latency", i) \in Nat
      BY <1>5, <1>8
    <3> QED BY <1>0, <3>1, <3>2
  <2>3. \A i \in 1..c : m["queue"][i].val \in Nat
    <3> SUFFICES ASSUME NEW i \in 1..c PROVE m.queue[i].val \in Nat
      OBVIOUS
    <3>1. m.queue[i] = Metric(QueueIdOf(x, i), v("q_occupancy", i))
      BY <1>3
    <3>2. v("q_occupancy", i) \in Nat
      BY <1>5, <1>8
    <3> QED BY <1>0, <3>1, <3>2
  <2>4. \A i \in 1..c - 1 : m["link"][i].val \in Nat
    <3> SUFFICES ASSUME NEW i \in 1..c - 1 PROVE m["link"][i].val \in Nat
      OBVIOUS
    <3> DEFINE a == v("ingress_tstamp", i)  b == v("egress_tstamp", i + 1)
    <3>1. i \in 1..c /\ i + 1 \in 1..c
      BY <1>1
    <3>2. a \in Nat /\ b \in Nat
      BY <1>5, <1>8, <3>1
    <3>3. m.link[i].val = Distance(a, b)
      BY <1>0, <1>11 DEF a, b
    <3> HIDE DEF a, b
    <3>4. Distance(a, b) \in Nat
      BY <3>2 DEF Distance
    <3> QED BY <3>3, <3>4
  <2>5. \A w \in Nat : w # Unset
    BY DEF Unset
  <2>6. /\ DOMAIN m["flow"] = {1} /\ DOMAIN m["switch"] = 1..c
        /\ DOMAIN m["queue"] = 1..c /\ DOMAIN m["link"] = 1..c - 1
    BY <1>3, <1>13
  <2> QED BY <1>3, <2>1, <2>2, <2>3, <2>4, <2>5, <2>6
<1>16. /\ Len(m.switch) - n \in 0..o /\ DOMAIN m.link = 1..Len(m.switch) - 1
       /\ Len(m.switch) = n => m.flow[1].val = Latency(h)
  BY <1>1, <1>9, <1>14
<1> QED BY <1>10, <1>12, <1>15, <1>16 DEF AreTrueOf, m, o, h, n, r, x

LEMMA DataHolds == DataInv => MetricsAreTrue
<1> SUFFICES ASSUME DataInv, NEW e \in Told PROVE AreTrueOf(e.metrics, e.report)
  BY DEF MetricsAreTrue
<1>1. PICK j \in TrueJobs : e = Entry(j)
  BY DEF DataInv, Told
<1>2. e.report = j.report /\ e.metrics = Metrics(j.info) /\ ExporterBits \subseteq j.report.mask
      /\ j.report.hop_ml = WordsPerHop(j.report.mask)
  BY <1>1 DEF Entry, Told
<1> QED BY <1>2, MetricsTell

\* The exporter is told what the switches wrote into the reports, for every number
\* of hops, every mask that has the metadata it uses and hop_ml that goes with it,
\* UDP and TCP with options, and reports of any length that INT sinks send.
THEOREM MetricsTellReports ==
  ASSUME HopsHoldTheirWords, OnlyReports
  PROVE  Spec => []MetricsAreTrue
<1>1. Init => DataInv
  BY InitTells
<1>2. TypeInv /\ DataInv /\ [Next]_vars => DataInv'
  BY StepTells
<1>3. DataInv => MetricsAreTrue
  BY DataHolds
<1>4. Spec => []TypeInv
  BY TypesAlways
<1> QED BY <1>1, <1>2, <1>3, <1>4, PTL DEF Spec
=============================================================================
