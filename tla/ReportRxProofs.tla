--------------------------- MODULE ReportRxProofs ---------------------------
(***************************************************************************)
(* Proofs about the Python collector, for every set of reports, of any     *)
(* number of hops and every one of the 255 masks of instructions.          *)
(*                                                                         *)
(* The first half is about the wire: the words of a hop lie where          *)
(* HopMetadata.from_bytes reads them, the hops where Report.__init__ cuts  *)
(* them apart, so FlowInfo holds what the switches wrote (FlowInfoIs).     *)
(* The second half is the loop: between two reports the export is behind   *)
(* the last hop of the report before, so every report has written all its  *)
(* gauges when the next one is taken, and a turn of the export adds one    *)
(* gauge of the newest report to those written.                            *)
(***************************************************************************)
EXTENDS ReportRx, SharedLemmas, FiniteSetTheorems

------------------------------------------------------------------------------
(* The words of a hop *)

Hops == {h \in HopValues : h["q_occupancy"] < OccupancyRange}

USE DEF Bits, Masks

\* The words passed before an instruction.
LEMMA WordsReadIs ==
  ASSUME NEW mask \in Masks
  PROVE  \A b \in 0..8 : WordsRead(mask)[b] = WordsBefore(mask, b)
<1> DEFINE step(b) == IF b \in mask THEN Width(b) ELSE 0
           IsRead(f) == f = [b \in 0..8 |-> IF b = 0 THEN 0 ELSE f[b - 1] + step(b - 1)]
           d == [b \in 1..8 |-> step(b - 1)]
<1>1. d \in [1..8 -> Nat]
  BY DEF Width
<1>2. PICK f \in [0..8 -> Nat] : f[0] = 0 /\ \A b \in 1..8 : f[b] = f[b - 1] + d[b]
  BY <1>1, PartialSums
<1>3. IsRead(f)
  <2>1. ASSUME NEW b \in 0..8 PROVE f[b] = IF b = 0 THEN 0 ELSE f[b - 1] + step(b - 1)
    BY <1>2
  <2> QED BY <1>2, <2>1
<1> DEFINE w == CHOOSE g : IsRead(g)
<1>4. IsRead(w)
  <2> HIDE DEF IsRead
  <2> QED BY <1>3
<1>5. WordsRead(mask) = w
  BY DEF WordsRead
<1> HIDE DEF w
<1>6. w[0] = 0 /\ \A b \in 1..8 : w[b] = w[b - 1] + step(b - 1)
  <2>1. \A b \in 0..8 : w[b] = IF b = 0 THEN 0 ELSE w[b - 1] + step(b - 1)
    BY <1>4
  <2> QED BY <2>1
<1>7. \A b \in Bits : w[b + 1] = w[b] + step(b)
  <2> SUFFICES ASSUME NEW b \in Bits PROVE w[b + 1] = w[b] + step(b)
    OBVIOUS
  <2>1. b + 1 \in 1..8 /\ (b + 1) - 1 = b
    OBVIOUS
  <2> QED BY <1>6, <2>1
<1>8. ASSUME NEW b \in Bits PROVE WordsBefore(mask, b + 1) = WordsBefore(mask, b) + step(b)
  BY WordsCounted DEF Width, L2PortIdsBit
<1>9. \A b \in 0..8 : w[b] = WordsBefore(mask, b)
  <2> DEFINE N == {n \in Nat : n \in 0..8 => w[n] = WordsBefore(mask, n)}
  <2>1. 0 \in N
    BY <1>6, WordsCounted
  <2>2. ASSUME NEW n \in Nat, n \in N PROVE n + 1 \in N
    <3> SUFFICES ASSUME n + 1 \in 0..8 PROVE w[n + 1] = WordsBefore(mask, n + 1)
      OBVIOUS
    <3>1. n \in Bits /\ w[n] = WordsBefore(mask, n)
      BY <2>2
    <3> HIDE DEF step
    <3> QED BY <1>7, <1>8, <3>1
  <2> HIDE DEF N
  <2>3. \A n \in Nat : n \in N
    BY <2>1, <2>2, NaturalsBySteps
  <2> QED BY <2>3 DEF N
<1> QED BY <1>5, <1>9

\* The halves of a number are found by division.
LEMMA TwoHalves ==
  ASSUME NEW m \in Nat, NEW c \in Nat, c < 65536
  PROVE  (m * 65536 + c) \div 65536 = m /\ (m * 65536 + c) % 65536 = c
OBVIOUS

\* Queue id and occupancy come apart again.
LEMMA QueueBytes ==
  ASSUME NEW q \in Nat, NEW occ \in Nat, occ < OccupancyRange,
         NEW n, n = q * OccupancyRange + occ
  PROVE  /\ n \in Nat /\ (n \div 65536) \div 256 = q
         /\ ((n \div 65536) % 256) * 65536 + (n % 65536) = occ
<1> DEFINE a == occ \div 65536  c == occ % 65536  m == q * 256 + a
<1>1. /\ a \in Nat /\ a < 256 /\ c \in Nat /\ c < 65536 /\ occ = a * 65536 + c
      /\ occ < 16777216
  BY DEF OccupancyRange
<1>2. n = q * 16777216 + occ
  BY DEF OccupancyRange
<1> HIDE DEF a, c
<1>3. m \in Nat /\ n = m * 65536 + c
  BY <1>1, <1>2
<1>4. m \div 256 = q /\ m % 256 = a
  BY <1>1
<1> HIDE DEF m
<1>5. n \div 65536 = m /\ n % 65536 = c
  BY <1>1, <1>3, TwoHalves
<1> QED BY <1>1, <1>3, <1>4, <1>5

\* What from_bytes makes of the words of a hop is what the switch wrote.
LEMMA FromBytesIs ==
  ASSUME NEW mask \in Masks, NEW h \in Hops, NEW ws, DOMAIN ws = 1..WordsPerHop(mask),
         \A k \in 1..WordsPerHop(mask) : ws[k] = HopData(mask, h)[k]
  PROVE  FromBytes(ws, mask) = [f \in FieldsOf(mask) |-> h[f]]
<1>1. h \in HopValues /\ \A f \in Fields : h[f] \in Nat
  BY DEF Hops, HopValues
<1>2. ASSUME NEW b \in mask, NEW k \in 1..Width(b)
      PROVE  WordAt(ws, WordsRead(mask)[b] + k) = HopWords(b, h)[k]
  <2>1. WordsRead(mask)[b] = WordsBefore(mask, b) /\ k \in 1..(IF b = 6 THEN 2 ELSE 1)
    BY WordsReadIs DEF Width, L2PortIdsBit
  <2>2. /\ WordsBefore(mask, b) + k \in 1..WordsPerHop(mask)
        /\ HopData(mask, h)[WordsBefore(mask, b) + k] = HopWords(b, h)[k]
    BY <1>1, <2>1, HopDataLaid
  <2> QED BY <2>1, <2>2 DEF WordAt
<1> DEFINE at(f) == WordAt(ws, Place(mask, BitOf[f]))
           next(f) == WordAt(ws, Place(mask, BitOf[f]) + 1)
           Of(f) == CASE f = "l1_ingress_port_id" -> at(f)[1]
                      [] f = "l1_egress_port_id"  -> at(f)[2]
                      [] f = "q_id"               -> at(f)[1] \div 256
                      [] f = "q_occupancy"        -> (at(f)[1] % 256) * 65536 + at(f)[2]
                      [] f = "l2_egress_port_id"  -> Whole(next(f))
                      [] OTHER                    -> Whole(at(f))
<1>3. FromBytes(ws, mask) = [f \in FieldsOf(mask) |-> Of(f)]
  BY DEF FromBytes
<1>4. ASSUME NEW f \in FieldsOf(mask) PROVE at(f) = HopWords(BitOf[f], h)[1]
  <2>1. BitOf[f] \in mask /\ 1 \in 1..Width(BitOf[f])
    BY DEF FieldsOf, Width
  <2> QED BY <1>2, <2>1 DEF Place
<1>5. ASSUME "l2_egress_port_id" \in FieldsOf(mask)
      PROVE  next("l2_egress_port_id") = HopWords(6, h)[2]
  <2>1. 6 \in mask /\ 2 \in 1..Width(6) /\ BitOf["l2_egress_port_id"] = 6
    BY <1>5, FieldNames DEF FieldsOf, Width, L2PortIdsBit
  <2>2. WordAt(ws, WordsRead(mask)[6] + 2) = HopWords(6, h)[2]
    BY <1>2, <2>1
  <2>3. Place(mask, 6) + 1 = WordsRead(mask)[6] + 2
    <3>1. WordsRead(mask)[6] \in Nat
      <4>1. 6 \in 0..8 /\ WordsBefore(mask, 6) \in Nat
        BY WordsCounted
      <4> QED BY <4>1, WordsReadIs
    <3> QED BY <3>1 DEF Place
  <2> QED BY <2>1, <2>2, <2>3
<1>6. ASSUME NEW f \in FieldsOf(mask) PROVE Of(f) = h[f]
  <2> HIDE DEF at, next
  <2>0. f \in Fields /\ h[f] \in Nat
    BY <1>1 DEF FieldsOf
  <2>1. CASE f = "l1_ingress_port_id"
    <3>1. HopWords(1, h) = << <<h["l1_ingress_port_id"], h["l1_egress_port_id"]>> >>
      BY DEF HopWords, L1PortIdsBit, QueueBit, L2PortIdsBit
    <3>2. Of(f) = at(f)[1] /\ BitOf[f] = 1
      BY <2>1, FieldNames
    <3> HIDE DEF Of
    <3> QED BY <1>4, <2>1, <3>1, <3>2
  <2>2. CASE f = "l1_egress_port_id"
    <3>1. HopWords(1, h) = << <<h["l1_ingress_port_id"], h["l1_egress_port_id"]>> >>
      BY DEF HopWords, L1PortIdsBit, QueueBit, L2PortIdsBit
    <3>2. Of(f) = at(f)[2] /\ BitOf[f] = 1
      BY <2>2, FieldNames
    <3> HIDE DEF Of
    <3> QED BY <1>4, <2>2, <3>1, <3>2
  <2>3. CASE f \in {"q_id", "q_occupancy"}
    <3> DEFINE n == h["q_id"] * OccupancyRange + h["q_occupancy"]
    <3>1. HopWords(3, h) = <<Word(n)>>
      BY DEF HopWords, L1PortIdsBit, QueueBit, L2PortIdsBit
    <3>2. h["q_id"] \in Nat /\ h["q_occupancy"] \in Nat /\ h["q_occupancy"] < OccupancyRange
      BY <1>1, FieldNames DEF Hops
    <3>3. /\ n \in Nat /\ (n \div 65536) \div 256 = h["q_id"]
          /\ ((n \div 65536) % 256) * 65536 + (n % 65536) = h["q_occupancy"]
      <4> DEFINE q == h["q_id"]  occ == h["q_occupancy"]
      <4>1. q \in Nat /\ occ \in Nat /\ occ < OccupancyRange /\ n = q * OccupancyRange + occ
        BY <3>2
      <4> HIDE DEF n, q, occ
      <4>2. /\ n \in Nat /\ (n \div 65536) \div 256 = q
            /\ ((n \div 65536) % 256) * 65536 + (n % 65536) = occ
        BY <4>1, QueueBytes
      <4> QED BY <4>2 DEF q, occ
    <3>4. BitOf[f] = 3 /\ Of(f) = IF f = "q_id" THEN at(f)[1] \div 256
                                  ELSE (at(f)[1] % 256) * 65536 + at(f)[2]
      BY <2>3, FieldNames
    <3> HIDE DEF n, Of
    <3>5. at(f) = Word(n)
      BY <1>4, <3>1, <3>4
    <3>6. at(f)[1] = n \div 65536 /\ at(f)[2] = n % 65536
      BY <3>3, <3>5, WordOf
    <3> QED BY <2>3, <3>3, <3>4, <3>6
  <2>4. CASE f = "l2_ingress_port_id"
    <3>1. HopWords(6, h) = <<Word(h["l2_ingress_port_id"]), Word(h["l2_egress_port_id"])>>
      BY DEF HopWords, L1PortIdsBit, QueueBit, L2PortIdsBit
    <3>2. Of(f) = Whole(at(f)) /\ BitOf[f] = 6
      BY <2>4, FieldNames
    <3> HIDE DEF Of
    <3>3. at(f) = Word(h[f])
      BY <1>4, <2>4, <3>1, <3>2
    <3> QED BY <2>0, <3>2, <3>3, WordOf
  <2>5. CASE f = "l2_egress_port_id"
    <3>1. HopWords(6, h) = <<Word(h["l2_ingress_port_id"]), Word(h["l2_egress_port_id"])>>
      BY DEF HopWords, L1PortIdsBit, QueueBit, L2PortIdsBit
    <3>2. Of(f) = Whole(next(f))
      BY <2>5
    <3> HIDE DEF Of
    <3>3. next(f) = Word(h[f])
      BY <1>5, <2>5, <3>1
    <3> QED BY <2>0, <3>2, <3>3, WordOf
  <2>6. CASE f \in {"switch_id", "hop_latency", "ingress_tstamp", "egress_tstamp",
                   "egress_port_tx_util"}
    <3>1. Of(f) = Whole(at(f)) /\ BitOf[f] \in {0, 2, 4, 5, 7} /\ FieldOf(BitOf[f]) = f
      BY <2>6, FieldNames, OnlyFields
    <3>2. HopWords(BitOf[f], h) = <<Word(h[f])>>
      BY <3>1 DEF HopWords, L1PortIdsBit, QueueBit, L2PortIdsBit
    <3> HIDE DEF Of
    <3>3. at(f) = Word(h[f])
      BY <1>4, <3>2
    <3> QED BY <2>0, <3>1, <3>3, WordOf
  <2> QED BY <2>0, <2>1, <2>2, <2>3, <2>4, <2>5, <2>6, FieldNames
<1> HIDE DEF Of
<1> QED BY <1>3, <1>6

------------------------------------------------------------------------------
(* A report *)

\* What the assumption says of a report.
LEMMA ReportIs ==
  ASSUME NEW r \in Reports
  PROVE  /\ r.flow \in Flows /\ r.protocol \in {"udp", "tcp"}
         /\ r.mask \in Masks /\ r.mask # {}
         /\ r.hops \in Seq(Hops) /\ OnWire(r) /\ r.hop_ml = WordsPerHop(r.mask)
<1>1. /\ r.flow \in Flows /\ r.protocol \in {"udp", "tcp"}
      /\ r.mask \in Masks /\ r.mask # {} /\ r.hop_ml = WordsPerHop(r.mask)
      /\ r.hops \in Seq(HopValues) /\ r.options \in Seq(WordPairs)
      /\ \A i \in DOMAIN r.hops : r.hops[i]["q_occupancy"] < OccupancyRange
  BY ReportRxAssumption DEF ReportRxAssumption, WordPairs, HopValues
<1> DEFINE hs == r.hops
<1>2. hs \in Seq(HopValues) /\ \A i \in DOMAIN hs : hs[i]["q_occupancy"] < OccupancyRange
  BY <1>1
<1> HIDE DEF hs
<1>3. \A i \in 1..Len(hs) : hs[i] \in Hops
  BY <1>2, ElementOfSeq, LenProperties DEF Hops
<1>4. hs \in Seq(Hops)
  <2>1. hs = [i \in 1..Len(hs) |-> hs[i]] /\ Len(hs) \in Nat
    BY <1>2, LenProperties
  <2>2. [i \in 1..Len(hs) |-> hs[i]] \in Seq(Hops)
    BY <1>3, <2>1, IsASeq
  <2> QED BY <2>1, <2>2
<1> QED BY <1>1, <1>4 DEF hs, OnWire

\* The hops of a report, as Report.__init__ finds them.
LEMMA ParsedIs ==
  ASSUME NEW r \in Reports
  PROVE  Parsed(Wire(r), r.flow, r.protocol) =
           [flow_id |-> r.flow, ins_map |-> r.mask,
            hop_metadata |-> [i \in 1..Len(r.hops) |->
                                [f \in FieldsOf(r.mask) |-> r.hops[i][f]]]]
<1> DEFINE o == Offset(r.protocol)
           w == Wire(r)
           st == Stack(r)
           n == Len(r.hops)
           l == WordsPerHop(r.mask)
           im == SubSeq(w, o + 4, Len(w))
           found == (w[o + 1].length - 3) \div w[o + 2].hop_ml
           part(i) == SubSeq(im, (i - 1) * l + 1, i * l)
<1>1. /\ o \in Nat
      /\ w[o + 1] = [length |-> 3 + Len(st)] /\ w[o + 2] = [hop_ml |-> l]
      /\ w[o + 3] = [ins_map |-> r.mask]
      /\ Len(w) \in Nat /\ Len(w) >= o + 3 + Len(st)
      /\ \A m \in 1..Len(st) : w[o + 3 + m] = st[m]
      /\ \E E : w \in Seq(E)
  <2>1. OnWire(r) /\ o = TransportWords(r.protocol)
    BY ReportIs DEF Offset, TransportWords
  <2> DEFINE op == r.options  t == TransportWords(r.protocol)
  <2>2. /\ t \in {2, 5}
        /\ w[t + 1] = [length |-> 3 + Len(st)] /\ w[t + 2] = [hop_ml |-> r.hop_ml]
        /\ w[t + 3] = [ins_map |-> r.mask]
        /\ Len(st) \in Nat /\ Len(op) \in Nat /\ Len(w) = t + 3 + Len(st) + Len(op)
        /\ \A m \in 1..Len(st) : w[t + 3 + m] = st[m]
        /\ \E E : w \in Seq(E)
    BY <2>1, WireLaid
  <2>3. r.hop_ml = l
    BY ReportIs
  <2> HIDE DEF o, w, st, op, l, t
  <2>4. o = t
    BY <2>1 DEF t
  <2> QED BY <2>2, <2>3, <2>4
<1>2. /\ n \in Nat /\ r.mask \in Masks /\ r.mask # {}
      /\ \A i \in 1..n : r.hops[i] \in Hops
  BY ReportIs, LenProperties, ElementOfSeq
<1>3. l \in 1..9
  <2>1. l \in 0..9 /\ l # 0
    BY <1>2, WordsCounted, Zenon
  <2> QED BY <2>1
<1>4. /\ Len(st) = n * l
      /\ \A i \in 1..n : \A k \in 1..l : st[(i - 1) * l + k] = HopData(r.mask, r.hops[i])[k]
  BY ReportIs, StackLaid, Zenon
<1>5. Parsed(Wire(r), r.flow, r.protocol) =
        [flow_id |-> r.flow, ins_map |-> w[o + 3].ins_map,
         hop_metadata |->
           [i \in 1..found |->
              FromBytes(SubSeq(im, (i - 1) * w[o + 2].hop_ml + 1, i * w[o + 2].hop_ml),
                        w[o + 3].ins_map)]]
  BY DEF Parsed
<1> HIDE DEF o, w, st, n, l
<1>6. w[o + 3].ins_map = r.mask /\ w[o + 2].hop_ml = l /\ w[o + 1].length = 3 + Len(st)
  BY <1>1
<1>7. n * l \in Nat
  BY <1>2, <1>3
<1>8. found = n
  <2>1. (3 + n * l) - 3 = n * l
    BY <1>7
  <2>2. (n * l) \div l = n
    <3>1. /\ (n * 1) \div 1 = n /\ (n * 2) \div 2 = n /\ (n * 3) \div 3 = n
          /\ (n * 4) \div 4 = n /\ (n * 5) \div 5 = n /\ (n * 6) \div 6 = n
          /\ (n * 7) \div 7 = n /\ (n * 8) \div 8 = n /\ (n * 9) \div 9 = n
      BY <1>2
    <3> QED BY <1>3, <3>1
  <2> QED BY <1>4, <1>6, <2>1, <2>2
<1>9. \A m \in 1..(n * l) : im[m] = st[m]
  <2>1. PICK E : w \in Seq(E)
    BY <1>1
  <2>2. \A i \in (o + 4)..Len(w) : w[i] \in E
    BY <1>1, <2>1, ElementOfSeq
  <2>3. o + 4 \in Int /\ Len(w) \in Int
    BY <1>1
  <2>4. \A i \in 1..(Len(w) - (o + 4) + 1) : im[i] = w[(o + 4) + i - 1]
    BY <2>2, <2>3, SubSeqProperties
  <2> SUFFICES ASSUME NEW m \in 1..(n * l) PROVE im[m] = st[m]
    OBVIOUS
  <2>5. m \in 1..(Len(w) - (o + 4) + 1) /\ (o + 4) + m - 1 = o + 3 + m
    BY <1>1, <1>4, <1>7
  <2> HIDE DEF im
  <2>6. im[m] = w[o + 3 + m]
    BY <2>4, <2>5
  <2> QED BY <1>1, <1>4, <2>6
<1> HIDE DEF im, found
<1>10. ASSUME NEW i \in 1..n
       PROVE  FromBytes(part(i), r.mask) = [f \in FieldsOf(r.mask) |-> r.hops[i][f]]
  <2> DEFINE from == (i - 1) * l
  <2>1. from \in Nat /\ i * l = from + l /\ from + l <= n * l
    <3>1. i * l <= n * l /\ i * l \in Nat /\ from \in Nat
      BY <1>2, <1>3
    <3>2. i * l = from + l
      BY <1>2, <1>3
    <3> QED BY <3>1, <3>2
  <2>2. ASSUME NEW k \in 1..l PROVE im[from + k] = HopData(r.mask, r.hops[i])[k]
    <3>1. st[from + k] = HopData(r.mask, r.hops[i])[k]
      BY <1>4
    <3> HIDE DEF from
    <3>2. from + k \in 1..(n * l)
      BY <1>3, <1>7, <2>1
    <3> QED BY <1>9, <3>1, <3>2
  <2>3. part(i) = SubSeq(im, from + 1, from + l)
    BY <2>1
  <2> HIDE DEF part, from
  <2> DEFINE E == {im[j] : j \in (from + 1)..(from + l)}
             ws == SubSeq(im, from + 1, from + l)
  <2>4. /\ ws \in Seq(E) /\ Len(ws) = l
        /\ \A k \in 1..l : ws[k] = im[from + k]
    <3>1. /\ from + 1 \in Int /\ from + l \in Int /\ from + 1 <= from + l
          /\ (from + l) - (from + 1) + 1 = l
      BY <1>3, <2>1
    <3>2. \A j \in (from + 1)..(from + l) : im[j] \in E
      OBVIOUS
    <3> HIDE DEF E
    <3>3. /\ ws \in Seq(E)
          /\ Len(ws) = IF from + 1 <= from + l THEN (from + l) - (from + 1) + 1 ELSE 0
          /\ \A k \in 1..((from + l) - (from + 1) + 1) : ws[k] = im[(from + 1) + k - 1]
      BY <3>1, <3>2, SubSeqProperties
    <3> HIDE DEF ws
    <3>4. \A k \in 1..l : (from + 1) + k - 1 = from + k
      BY <2>1
    <3> QED BY <3>1, <3>3, <3>4
  <2> HIDE DEF E, ws
  <2>5. DOMAIN ws = 1..l
    BY <2>4, LenProperties
  <2>6. \A k \in 1..l : ws[k] = HopData(r.mask, r.hops[i])[k]
    BY <2>2, <2>4
  <2> DEFINE h == r.hops[i]
  <2>7. h \in Hops
    BY <1>2
  <2> HIDE DEF h
  <2>8. FromBytes(ws, r.mask) = [f \in FieldsOf(r.mask) |-> h[f]]
    BY <1>2, <2>5, <2>6, <2>7, FromBytesIs DEF l, h
  <2> QED BY <2>3, <2>8 DEF ws, h
<1>11. [i \in 1..n |-> FromBytes(part(i), r.mask)] =
         [i \in 1..n |-> [f \in FieldsOf(r.mask) |-> r.hops[i][f]]]
  <2> HIDE DEF part
  <2> QED BY <1>10
<1> QED BY <1>5, <1>6, <1>8, <1>11 DEF n

\* The lists of a flow hold what the switches wrote.
LEMMA FlowInfoIs ==
  ASSUME NEW r \in Reports
  PROVE  /\ FlowInfo[r].flow_id = r.flow /\ FlowInfo[r].hop_cnt = Len(r.hops)
         /\ \A f \in Fields : FlowInfo[r].lists[f] =
              IF f \in FieldsOf(r.mask) THEN [i \in 1..Len(r.hops) |-> r.hops[i][f]] ELSE <<>>
<1> DEFINE n == Len(r.hops)
           hm == [i \in 1..n |-> [f \in FieldsOf(r.mask) |-> r.hops[i][f]]]
           rep == [flow_id |-> r.flow, ins_map |-> r.mask, hop_metadata |-> hm]
<1>1. FlowInfo[r] = FromReport(rep)
  BY ParsedIs DEF FlowInfo
<1>2. n \in Nat /\ DOMAIN hm = 1..n
  BY ReportIs, LenProperties
<1>3. Len(hm) = n
  <2>1. \A i \in 1..n : hm[i] \in {hm[j] : j \in 1..n}
    OBVIOUS
  <2>2. hm \in [1..n -> {hm[j] : j \in 1..n}]
    BY <2>1
  <2> HIDE DEF hm, n
  <2>3. hm \in Seq({hm[j] : j \in 1..n})
    BY <1>2, <2>2
  <2> QED BY <1>2, <2>3, LenProperties
<1>4. ASSUME NEW i \in 1..n, NEW f \in FieldsOf(r.mask) PROVE hm[i][f] = r.hops[i][f]
  OBVIOUS
<1> HIDE DEF hm, n
<1>5. FromReport(rep) =
        [flow_id |-> r.flow, hop_cnt |-> n,
         lists |-> [f \in Fields |-> IF f \in FieldsOf(r.mask)
                                       THEN [i \in DOMAIN hm |-> hm[i][f]] ELSE <<>>]]
  BY <1>3 DEF FromReport
<1>6. ASSUME NEW f \in FieldsOf(r.mask)
      PROVE  [i \in DOMAIN hm |-> hm[i][f]] = [i \in 1..n |-> r.hops[i][f]]
  BY <1>2, <1>4
<1> QED BY <1>1, <1>5, <1>6 DEF n

------------------------------------------------------------------------------
(* The invariant *)

\* The metadata that get a gauge: the number of the hop, and the fields.
LEMMA MetadataAre ==
  /\ Len(Metadata) = 11 /\ DOMAIN Metadata = 1..11
  /\ Metadata[1] = "hop_num" /\ ListOf(Metadata[1]) = "switch_id"
  /\ \A j \in 1..11 :
       /\ Metadata[j] \in ToSet(Metadata)
       /\ ListOf(Metadata[j]) \in Fields
       /\ j # 1 => Metadata[j] # "hop_num" /\ ListOf(Metadata[j]) = Metadata[j]
<1> DEFINE g == HopFields
           T == Fields \cup {"hop_num"}
<1>1. g \in Seq(T) /\ Len(g) = 11
  BY FieldNames DEF HopFields
<1>2. \A j \in 1..11 : g[j] \in Fields /\ g[j] # "hop_num"
  BY FieldNames DEF HopFields
<1>3. 1 \in 1..11 /\ "hop_num" \in T
  OBVIOUS
<1> HIDE DEF g, T
<1>4. /\ Metadata \in Seq(T) /\ Len(Metadata) = Len(g)
      /\ \A j \in 1..Len(g) : Metadata[j] = IF j = 1 THEN "hop_num" ELSE g[j]
  <2> DEFINE at(j) == IF j = 1 THEN "hop_num" ELSE g[j]
             md == [j \in 1..11 |-> at(j)]
  <2>1. DOMAIN g = 1..11
    BY <1>1, LenProperties
  <2>2. Metadata = md
    BY <2>1 DEF Metadata, g
  <2>3. \A j \in 1..11 : at(j) \in T
    <3>1. \A j \in 1..11 : g[j] \in T
      BY <1>1, ElementOfSeq
    <3> QED BY <1>3, <3>1
  <2>4. \A j \in 1..11 : md[j] = at(j)
    OBVIOUS
  <2>5. DOMAIN md = 1..11
    OBVIOUS
  <2> HIDE DEF at
  <2>6. md \in Seq(T)
    BY <2>3, IsASeq
  <2> HIDE DEF md
  <2>7. Len(md) = 11
    BY <2>5, <2>6, LenProperties
  <2> QED BY <1>1, <2>2, <2>4, <2>6, <2>7 DEF at
<1>5. Len(Metadata) = 11 /\ DOMAIN Metadata = 1..11
  BY <1>1, <1>4, LenProperties
<1>6. \A j \in 1..11 : Metadata[j] = IF j = 1 THEN "hop_num" ELSE g[j]
  BY <1>1, <1>4
<1>7. "switch_id" \in Fields
  BY FieldNames
<1> SUFFICES ASSUME NEW j \in 1..11
             PROVE  /\ Metadata[j] \in ToSet(Metadata)
                    /\ ListOf(Metadata[j]) \in Fields
                    /\ j = 1 => Metadata[j] = "hop_num" /\ ListOf(Metadata[j]) = "switch_id"
                    /\ j # 1 => Metadata[j] # "hop_num" /\ ListOf(Metadata[j]) = Metadata[j]
  BY <1>3, <1>5
<1>8. Metadata[j] \in ToSet(Metadata)
  BY <1>5 DEF ToSet
<1>9. Metadata[j] = IF j = 1 THEN "hop_num" ELSE g[j]
  BY <1>6
<1>10. g[j] \in Fields /\ g[j] # "hop_num"
  BY <1>2
<1> HIDE DEF Metadata
<1> QED BY <1>7, <1>8, <1>9, <1>10, Zenon DEF ListOf

\* Where the export stands: at the report that was taken last, and behind its
\* last hop unless it is under way.
ExportInv ==
  /\ taken = 0 => new_flow = NoFlow
  /\ taken # 0 => new_flow = FlowInfo[accepted[taken]]
  /\ pc \in {"check", "recv", "stopped"} => hop > new_flow.hop_cnt
  /\ pc \in {"export", "died"} => taken # 0

\* A second report cannot be taken after a signal.
LateInv == late = 0 \/ (late = 1 /\ kill_now /\ pc # "recv")

\* Report n wrote gauge k of flow f.
Wrote(n, f, k) == accepted[n].flow = f /\ \E w \in Written(n) : KeyOf(n, w) = k

\* The gauges: GaugesAreNewest, with the newest report as one of the writers.
GaugeInv ==
  /\ DOMAIN gauge = Flows
  /\ \A f \in Flows : \A k \in SwitchIds \X ToSet(Metadata) :
       /\ k \in DOMAIN gauge[f] <=> \E n \in 1..taken : Wrote(n, f, k)
       /\ k \in DOMAIN gauge[f] =>
            \E n \in 1..taken :
              /\ accepted[n].flow = f
              /\ \E w \in Written(n) : KeyOf(n, w) = k /\ gauge[f][k] = Truth(n, w)
              /\ \A m \in 1..taken : Wrote(m, f, k) => m <= n

IInv == TypeOK /\ ExportInv /\ LateInv /\ GaugeInv

\* A list is empty exactly if the report has no hop or not its metadata.
LEMMA ListIsPresent ==
  ASSUME NEW r \in Reports, NEW i \in 1..Len(r.hops), NEW f \in Fields
  PROVE  /\ FlowInfo[r].lists[f] # <<>> <=> f \in FieldsOf(r.mask)
         /\ f \in FieldsOf(r.mask) => FlowInfo[r].lists[f][i] = r.hops[i][f]
<1> DEFINE n == Len(r.hops)
           h == [j \in 1..n |-> r.hops[j][f]]
<1>1. FlowInfo[r].lists[f] = IF f \in FieldsOf(r.mask) THEN h ELSE <<>>
  BY FlowInfoIs
<1>2. i \in DOMAIN h /\ h[i] = r.hops[i][f]
  OBVIOUS
<1>3. h # <<>>
  <2> HIDE DEF h
  <2>1. DOMAIN <<>> = {}
    OBVIOUS
  <2> QED BY <1>2, <2>1
<1> HIDE DEF h
<1> QED BY <1>1, <1>2, <1>3

\* The numbers of the state, and the report that was taken last.
LEMMA TakenReport ==
  ASSUME TypeOK, ExportInv
  PROVE  /\ taken \in Nat /\ Len(accepted) \in Nat /\ taken <= Len(accepted)
         /\ accepted \in Seq(Reports) /\ \A n \in 1..Len(accepted) : accepted[n] \in Reports
         /\ new_flow.hop_cnt \in Nat /\ hop \in Nat \ {0} /\ hop <= new_flow.hop_cnt + 1
         /\ field \in 1..11
         /\ taken # 0 =>
              /\ accepted[taken] \in Reports
              /\ new_flow = FlowInfo[accepted[taken]]
              /\ new_flow.flow_id = accepted[taken].flow /\ new_flow.flow_id \in Flows
              /\ new_flow.hop_cnt = Len(accepted[taken].hops)
<1>1. accepted \in Seq(Reports) /\ taken \in 0..Len(accepted)
  BY DEF TypeOK
<1>2. Len(accepted) \in Nat /\ taken \in Nat /\ taken <= Len(accepted)
  BY <1>1, LenProperties
<1>3. \A n \in 1..Len(accepted) : accepted[n] \in Reports
  BY <1>1, ElementOfSeq
<1>4. ASSUME taken # 0
      PROVE  /\ accepted[taken] \in Reports
             /\ new_flow = FlowInfo[accepted[taken]]
             /\ new_flow.flow_id = accepted[taken].flow /\ new_flow.flow_id \in Flows
             /\ new_flow.hop_cnt = Len(accepted[taken].hops)
  <2>1. accepted[taken] \in Reports
    BY <1>2, <1>3, <1>4
  <2> QED BY <1>4, <2>1, FlowInfoIs, ReportIs DEF ExportInv
<1>5. new_flow.hop_cnt \in Nat
  <2>1. CASE taken = 0
    BY <2>1 DEF ExportInv, NoFlow
  <2>2. CASE taken # 0
    BY <1>4, <2>2, ReportIs, LenProperties
  <2> QED BY <2>1, <2>2
<1>6. hop \in 1..new_flow.hop_cnt + 1 /\ field \in 1..11
  BY MetadataAre DEF TypeOK
<1>7. hop \in Nat \ {0} /\ hop <= new_flow.hop_cnt + 1
  BY <1>5, <1>6
<1> QED BY <1>1, <1>2, <1>3, <1>4, <1>5, <1>6, <1>7

\* A step that sets no gauge, and behind which every report has written what it
\* had written before, keeps the gauges newest.
LEMMA SameWriting ==
  ASSUME GaugeInv, taken \in Nat, taken' \in {taken, taken + 1}, gauge' = gauge,
         \A n \in 1..taken : accepted'[n] = accepted[n] /\ Written(n)' = Written(n),
         \A n \in 1..taken' : n \notin 1..taken => Written(n)' = {}
  PROVE  GaugeInv'
<1>1. ASSUME NEW n \in 1..taken, NEW w PROVE KeyOf(n, w)' = KeyOf(n, w) /\ Truth(n, w)' = Truth(n, w)
  BY DEF KeyOf, Truth
<1>2. ASSUME NEW n \in 1..taken, NEW f, NEW k PROVE Wrote(n, f, k)' <=> Wrote(n, f, k)
  BY <1>1, Zenon DEF Wrote
<1>3. ASSUME NEW n \in 1..taken', NEW f, NEW k, Wrote(n, f, k)' PROVE n \in 1..taken
  BY <1>3, Zenon DEF Wrote
<1>4. \A n \in 1..taken : n \in 1..taken'
  OBVIOUS
<1> SUFFICES ASSUME NEW f \in Flows, NEW k \in SwitchIds \X ToSet(Metadata)
             PROVE  /\ k \in DOMAIN gauge[f] <=> \E n \in 1..taken' : Wrote(n, f, k)'
                    /\ k \in DOMAIN gauge[f] =>
                         \E n \in 1..taken' :
                           /\ accepted'[n].flow = f
                           /\ \E w \in Written(n)' :
                                KeyOf(n, w)' = k /\ gauge[f][k] = Truth(n, w)'
                           /\ \A m \in 1..taken' : Wrote(m, f, k)' => m <= n
  BY Zenon DEF GaugeInv
<1>5. k \in DOMAIN gauge[f] <=> \E n \in 1..taken' : Wrote(n, f, k)'
  <2>1. k \in DOMAIN gauge[f] <=> \E n \in 1..taken : Wrote(n, f, k)
    BY Zenon DEF GaugeInv
  <2> QED BY <1>2, <1>3, <1>4, <2>1, Zenon
<1>6. ASSUME k \in DOMAIN gauge[f]
      PROVE  \E n \in 1..taken' :
               /\ accepted'[n].flow = f
               /\ \E w \in Written(n)' : KeyOf(n, w)' = k /\ gauge[f][k] = Truth(n, w)'
               /\ \A m \in 1..taken' : Wrote(m, f, k)' => m <= n
  <2>1. PICK n \in 1..taken :
          /\ accepted[n].flow = f
          /\ \E w \in Written(n) : KeyOf(n, w) = k /\ gauge[f][k] = Truth(n, w)
          /\ \A m \in 1..taken : Wrote(m, f, k) => m <= n
    BY <1>6, Zenon DEF GaugeInv
  <2>2. \E w \in Written(n)' : KeyOf(n, w)' = k /\ gauge[f][k] = Truth(n, w)'
    BY <1>1, <2>1, Zenon
  <2>3. \A m \in 1..taken' : Wrote(m, f, k)' => m <= n
    BY <1>2, <1>3, <2>1, Zenon
  <2> QED BY <1>4, <2>1, <2>2, <2>3, Zenon
<1> QED BY <1>5, <1>6, Zenon

\* What has been written does not depend on the cursor, once it is behind the report.
LEMMA WrittenAll ==
  ASSUME TypeOK, ExportInv, pc \in {"check", "recv", "stopped"} \/ hop > new_flow.hop_cnt,
         NEW n \in 1..taken
  PROVE  Written(n) =
           IF SwitchIdBit \notin accepted[n].mask THEN {}
           ELSE {w \in (DOMAIN accepted[n].hops) \X (DOMAIN Metadata) :
                   ListOf(Metadata[w[2]]) \in FieldsOf(accepted[n].mask)}
<1> DEFINE hs == accepted[n].hops
           D == (DOMAIN hs) \X (DOMAIN Metadata)
<1>1. /\ accepted[n] \in Reports /\ taken \in Nat /\ taken # 0 /\ hop \in Nat
      /\ new_flow.hop_cnt \in Nat /\ new_flow.hop_cnt = Len(accepted[taken].hops)
  BY TakenReport
<1>2. ASSUME NEW w \in D PROVE n < taken \/ w[1] < hop
  <2>1. hs \in Seq(Hops)
    BY <1>1, ReportIs
  <2>2. w[1] \in 1..Len(hs) /\ Len(hs) \in Nat
    <3> HIDE DEF hs
    <3> QED BY <2>1, LenProperties
  <2>3. CASE n = taken
    <3>1. new_flow.hop_cnt = Len(hs)
      BY <1>1, <2>3
    <3>2. hop > new_flow.hop_cnt
      BY DEF ExportInv
    <3> HIDE DEF hs
    <3> QED BY <1>1, <2>2, <3>1, <3>2
  <2>4. CASE n # taken
    BY <1>1, <2>4
  <2> QED BY <2>3, <2>4
<1>3. {w \in D : /\ ListOf(Metadata[w[2]]) \in FieldsOf(accepted[n].mask)
                 /\ (n < taken \/ w[1] < hop \/ (w[1] = hop /\ w[2] < field))} =
        {w \in D : ListOf(Metadata[w[2]]) \in FieldsOf(accepted[n].mask)}
  <2> HIDE DEF D
  <2> QED BY <1>2, Zenon
<1> QED BY <1>3, Zenon DEF Written

\* The collector starts with the invariant.
LEMMA InitHasInv == Init => IInv
<1> SUFFICES ASSUME Init PROVE IInv
  OBVIOUS
<1>1. ToSet(Metadata) = ToSet(Metadata) /\ Len(Metadata) = 11
  BY MetadataAre
<1>2. TypeOK
  <2>1. <<>> \in Seq(Reports) /\ Len(<<>>) = 0
    OBVIOUS
  <2>2. accepted \in Seq(Reports) /\ taken \in 0..Len(accepted) /\ Len(accepted) - taken <= Room
    BY <2>1, ReportRxAssumption DEF Init, ReportRxAssumption
  <2>3. hop \in 1..new_flow.hop_cnt + 1 /\ field \in 1..Len(Metadata)
    BY <1>1 DEF Init, NoFlow
  <2>4. \A f \in Flows : DOMAIN gauge[f] = {}
    BY DEF Init
  <2>5. DOMAIN flow_table = {}
    BY DEF Init
  <2>6. kill_now \in BOOLEAN /\ pc \in {"check", "recv", "export", "stopped", "died"}
    BY DEF Init
  <2> QED BY <2>2, <2>3, <2>4, <2>5, <2>6 DEF TypeOK
<1>3. ExportInv
  BY DEF Init, ExportInv, NoFlow
<1>4. LateInv
  BY DEF Init, LateInv
<1>5. GaugeInv
  <2>1. DOMAIN gauge = Flows /\ \A f \in Flows : DOMAIN gauge[f] = {}
    BY DEF Init
  <2>2. 1..taken = {}
    BY DEF Init
  <2> QED BY <2>1, <2>2, Zenon DEF GaugeInv
<1> QED BY <1>2, <1>3, <1>4, <1>5 DEF IInv

\* A report that arrives stands behind those that have.
LEMMA ArriveAppends ==
  ASSUME TypeOK, Arrive
  PROVE  /\ accepted' \in Seq(Reports) /\ Len(accepted') = Len(accepted) + 1
         /\ \A n \in 1..Len(accepted) : accepted'[n] = accepted[n]
         /\ Len(accepted) - taken < Room
<1>1. PICK r \in Reports : accepted' = Append(accepted, r)
  BY DEF Arrive
<1>2. accepted \in Seq(Reports)
  BY DEF TypeOK
<1>3. Len(accepted) - taken < Room
  BY DEF Arrive
<1> QED BY <1>1, <1>2, <1>3, AppendProperties

\* What a turn of the export loop finds.
LEMMA TurnFinds ==
  ASSUME TypeOK, ExportInv, pc = "export", hop <= new_flow.hop_cnt
  PROVE  LET r == accepted[taken]
             m == Metadata[field] IN
         /\ taken \in Nat \ {0} /\ r \in Reports /\ hop \in DOMAIN r.hops
         /\ new_flow.flow_id = r.flow /\ r.flow \in Flows
         /\ Present(m) <=> ListOf(m) \in FieldsOf(r.mask)
         /\ Present("switch_id") <=> SwitchIdBit \in r.mask
         /\ Present(m) /\ Present("switch_id") =>
              /\ new_flow.lists["switch_id"][hop] = r.hops[hop]["switch_id"]
              /\ r.hops[hop]["switch_id"] \in SwitchIds
              /\ ValueOf(m) = Truth(taken, <<hop, field>>)
<1> DEFINE r == accepted[taken]
           m == Metadata[field]
           fi == FlowInfo[r]
<1>1. /\ taken \in Nat \ {0} /\ r \in Reports /\ new_flow = fi
      /\ new_flow.flow_id = r.flow /\ r.flow \in Flows
      /\ hop \in Nat \ {0} /\ hop <= Len(r.hops) /\ Len(r.hops) \in Nat /\ field \in 1..11
  <2>1. taken # 0
    BY DEF ExportInv
  <2> QED BY <2>1, TakenReport
<1>2. hop \in 1..Len(r.hops) /\ hop \in DOMAIN r.hops
  <2>1. DOMAIN r.hops = 1..Len(r.hops)
    BY <1>1, ReportIs, LenProperties
  <2> HIDE DEF r
  <2> QED BY <1>1, <2>1
<1>3. ListOf(m) \in Fields /\ "switch_id" \in Fields /\ ListOf("switch_id") = "switch_id"
  <2>1. field \in 1..11
    BY <1>1
  <2>2. ListOf(m) \in Fields
    BY <2>1, MetadataAre, Zenon
  <2>3. ListOf("switch_id") = "switch_id"
    BY DEF ListOf
  <2> QED BY <2>2, <2>3, FieldNames
<1>4. ASSUME NEW f \in Fields
      PROVE  /\ fi.lists[f] # <<>> <=> f \in FieldsOf(r.mask)
             /\ f \in FieldsOf(r.mask) => fi.lists[f][hop] = r.hops[hop][f]
  <2> HIDE DEF r
  <2> QED BY <1>1, <1>2, ListIsPresent
<1>5. "switch_id" \in FieldsOf(r.mask) <=> SwitchIdBit \in r.mask
  BY FieldNames DEF FieldsOf, SwitchIdBit
<1> HIDE DEF r, m, fi
<1>6. /\ Present(m) <=> ListOf(m) \in FieldsOf(r.mask)
      /\ Present("switch_id") <=> SwitchIdBit \in r.mask
  BY <1>1, <1>3, <1>4, <1>5 DEF Present
<1>7. ASSUME Present(m), Present("switch_id")
      PROVE  /\ new_flow.lists["switch_id"][hop] = r.hops[hop]["switch_id"]
             /\ r.hops[hop]["switch_id"] \in SwitchIds
             /\ ValueOf(m) = Truth(taken, <<hop, field>>)
  <2>1. new_flow.lists["switch_id"][hop] = r.hops[hop]["switch_id"]
    BY <1>1, <1>3, <1>4, <1>5, <1>6, <1>7
  <2>2. r.hops[hop]["switch_id"] \in SwitchIds
    BY <1>1, <1>2, <1>6, <1>7, ReportRxAssumption DEF ReportRxAssumption
  <2>3. ValueOf(m) = Truth(taken, <<hop, field>>)
    <3>1. CASE field = 1
      <4>1. m = "hop_num"
        BY <3>1, MetadataAre DEF m
      <4> QED BY <3>1, <4>1 DEF ValueOf, Truth
    <3>2. CASE field # 1
      <4>1. m # "hop_num" /\ ListOf(m) = m
        <5>1. field \in 1..11
          BY <1>1
        <5> QED BY <3>2, <5>1, MetadataAre, Zenon DEF m
      <4>2. new_flow.lists[m][hop] = r.hops[hop][m]
        BY <1>1, <1>3, <1>4, <1>6, <1>7, <4>1
      <4>3. ValueOf(m) = r.hops[hop][m]
        BY <4>1, <4>2 DEF ValueOf
      <4>4. Truth(taken, <<hop, field>>) = r.hops[hop][m]
        BY <3>2 DEF Truth, r, m
      <4> QED BY <4>3, <4>4
    <3> QED BY <3>1, <3>2
  <2> QED BY <2>1, <2>2, <2>3
<1> QED BY <1>1, <1>2, <1>6, <1>7 DEF r, m

\* The turn of the loop writes the gauge at the cursor, or none.
LEMMA TurnWrites ==
  ASSUME TypeOK, ExportInv, SetGauge
  PROVE  LET m == Metadata[field] IN
         /\ accepted' = accepted /\ taken' = taken
         /\ \A n \in 1..taken : n # taken => Written(n)' = Written(n)
         /\ Present(m) /\ Present("switch_id") =>
              Written(taken)' = Written(taken) \cup {<<hop, field>>}
         /\ ~(Present(m) /\ Present("switch_id")) => Written(taken)' = Written(taken)
<1> DEFINE r == accepted[taken]
           m == Metadata[field]
           D == (DOMAIN r.hops) \X (DOMAIN Metadata)
           Past(w) == w[1] < hop \/ (w[1] = hop /\ w[2] < field)
           Sent(w) == ListOf(Metadata[w[2]]) \in FieldsOf(r.mask)
           w0 == <<hop, field>>
<1>1. pc = "export" /\ hop <= new_flow.hop_cnt /\ accepted' = accepted /\ taken' = taken
  BY DEF SetGauge
<1>2. /\ taken \in Nat \ {0} /\ r \in Reports /\ hop \in DOMAIN r.hops
      /\ Present(m) <=> ListOf(m) \in FieldsOf(r.mask)
      /\ Present("switch_id") <=> SwitchIdBit \in r.mask
  BY <1>1, TurnFinds, Zenon
<1>3. field \in 1..11 /\ hop \in Nat /\ DOMAIN Metadata = 1..11 /\ Len(Metadata) = 11
  BY TakenReport, MetadataAre
<1>4. ASSUME NEW n \in 1..taken, n # taken PROVE Written(n)' = Written(n)
  <2>1. n < taken /\ n < taken'
    BY <1>1, <1>2, <1>4
  <2> QED BY <1>1, <2>1, Zenon DEF Written
<1>5. DOMAIN r.hops = 1..Len(r.hops) /\ Len(r.hops) \in Nat
  BY <1>2, ReportIs, LenProperties
<1>6. ~(taken < taken)
  BY <1>2
<1>7. /\ SwitchIdBit \in r.mask => Written(taken) = {w \in D : Sent(w) /\ Past(w)}
      /\ SwitchIdBit \in r.mask => Written(taken)' = {w \in D : Sent(w) /\ Past(w)'}
      /\ SwitchIdBit \notin r.mask => Written(taken) = {} /\ Written(taken)' = {}
  BY <1>1, <1>6, Zenon DEF Written
<1>8. w0 \in D /\ Metadata[w0[2]] = m
  BY <1>2, <1>3
<1>9. ASSUME Advance, NEW w \in D PROVE Past(w)' <=> Past(w) \/ w = w0
  <2>1. w[1] \in Nat /\ w[2] \in 1..11 /\ (w = w0 <=> w[1] = hop /\ w[2] = field)
    <3>1. w[1] \in DOMAIN r.hops /\ w[2] \in DOMAIN Metadata /\ w = <<w[1], w[2]>>
      OBVIOUS
    <3>2. w[1] \in Nat /\ w[2] \in 1..11
      <4> DEFINE a == w[1]
      <4> HIDE DEF a, r
      <4> QED BY <1>3, <1>5, <3>1 DEF a
    <3> QED BY <3>1, <3>2
  <2>2. CASE field = 11
    <3>1. hop' = hop + 1 /\ field' = 1
      BY <1>3, <1>9, <2>2 DEF Advance, LastField
    <3> QED BY <1>3, <2>1, <2>2, <3>1
  <2>3. CASE field # 11
    <3>1. hop' = hop /\ field' = field + 1
      BY <1>3, <1>9, <2>3 DEF Advance, LastField
    <3> QED BY <1>3, <2>1, <3>1
  <2> QED BY <2>2, <2>3
<1>10. CASE Present(m) /\ Present("switch_id")
  <2>1. Advance
    BY <1>10 DEF SetGauge
  <2>2. SwitchIdBit \in r.mask /\ Sent(w0)
    BY <1>2, <1>8, <1>10
  <2> HIDE DEF D, Past, Sent, w0
  <2>3. {w \in D : Sent(w) /\ Past(w)'} = {w \in D : Sent(w) /\ Past(w)} \cup {w0}
    BY <1>8, <1>9, <2>1, <2>2, Zenon
  <2>4. Written(taken)' = Written(taken) \cup {w0}
    BY <1>7, <2>2, <2>3
  <2> QED BY <1>1, <1>4, <1>10, <2>4 DEF w0
<1>11. CASE ~(Present(m) /\ Present("switch_id"))
  <2>1. Written(taken)' = Written(taken)
    <3>1. CASE SwitchIdBit \notin r.mask
      BY <1>7, <3>1
    <3>2. CASE SwitchIdBit \in r.mask
      <4>1. ~Present(m) /\ ~Sent(w0)
        BY <1>2, <1>8, <1>11, <3>2
      <4>2. Advance
        BY <4>1 DEF SetGauge, Skip
      <4> HIDE DEF D, Past, Sent, w0
      <4>3. {w \in D : Sent(w) /\ Past(w)'} = {w \in D : Sent(w) /\ Past(w)}
        BY <1>9, <4>1, <4>2, Zenon
      <4> QED BY <1>7, <3>2, <4>3
    <3> QED BY <3>1, <3>2
  <2> QED BY <1>1, <1>4, <1>11, <2>1
<1> QED BY <1>10, <1>11

\* The types and the place of the export, step by step.
LEMMA StepKeepsTypes ==
  ASSUME TypeOK, ExportInv, GaugeInv, [Next]_vars
  PROVE  TypeOK' /\ ExportInv'
<1>1. /\ taken \in Nat /\ Len(accepted) \in Nat /\ taken <= Len(accepted)
      /\ accepted \in Seq(Reports) /\ \A n \in 1..Len(accepted) : accepted[n] \in Reports
      /\ new_flow.hop_cnt \in Nat /\ hop \in Nat \ {0} /\ hop <= new_flow.hop_cnt + 1
      /\ field \in 1..11 /\ Len(Metadata) = 11
  BY TakenReport, MetadataAre
<1>2. Len(accepted) - taken <= Room /\ kill_now \in BOOLEAN
  BY DEF TypeOK
<1>3. CASE Arrive
  <2>1. /\ accepted' \in Seq(Reports) /\ Len(accepted') = Len(accepted) + 1
        /\ \A n \in 1..Len(accepted) : accepted'[n] = accepted[n]
        /\ Len(accepted) - taken < Room
    BY <1>3, ArriveAppends
  <2>2. UNCHANGED <<pc, taken, kill_now, new_flow, hop, field, flow_table, gauge>>
    BY <1>3 DEF Arrive
  <2>3. taken \in 0..Len(accepted') /\ Len(accepted') - taken <= Room
    BY <1>1, <2>1, ReportRxAssumption DEF ReportRxAssumption
  <2>4. TypeOK'
    BY <2>1, <2>2, <2>3 DEF TypeOK
  <2>5. taken # 0 => accepted'[taken] = accepted[taken]
    BY <1>1, <2>1
  <2>6. ExportInv'
    BY <2>2, <2>5 DEF ExportInv
  <2> QED BY <2>4, <2>6
<1>4. CASE Signal
  <2>1. kill_now' = TRUE /\ UNCHANGED <<pc, accepted, taken, new_flow, hop, field, flow_table, gauge>>
    BY <1>4 DEF Signal
  <2> QED BY <2>1 DEF TypeOK, ExportInv
<1>5. CASE Check
  <2>1. pc = "check" /\ pc' \in {"recv", "stopped"}
        /\ UNCHANGED <<accepted, taken, kill_now, new_flow, hop, field, flow_table, gauge>>
    BY <1>5 DEF Check
  <2> QED BY <2>1 DEF TypeOK, ExportInv
<1>6. CASE Exported
  <2>1. pc = "export" /\ pc' = "check" /\ hop > new_flow.hop_cnt
        /\ UNCHANGED <<accepted, taken, kill_now, new_flow, hop, field, flow_table, gauge>>
    BY <1>6 DEF Exported
  <2> QED BY <2>1 DEF TypeOK, ExportInv
<1>7. CASE Receive
  <2>1. /\ taken < Len(accepted) /\ taken' = taken + 1 /\ new_flow' = FlowInfo[accepted[taken']]
        /\ flow_table' = With(flow_table, new_flow'.flow_id, new_flow')
        /\ pc' = "export" /\ hop' = 1 /\ field' = 1
        /\ UNCHANGED <<accepted, kill_now, gauge>>
    BY <1>7 DEF Receive
  <2>2. taken' \in 1..Len(accepted) /\ Len(accepted) - taken' <= Room
    BY <1>1, <1>2, <2>1, ReportRxAssumption DEF ReportRxAssumption
  <2> DEFINE r == accepted[taken']
  <2>3. r \in Reports
    BY <1>1, <2>2
  <2>4. /\ new_flow'.flow_id \in Flows
        /\ new_flow'.hop_cnt \in Nat
    <3> HIDE DEF r
    <3>1. new_flow' = FlowInfo[r]
      BY <2>1 DEF r
    <3>2. r.flow \in Flows /\ Len(r.hops) \in Nat
      BY <2>3, ReportIs, LenProperties
    <3> QED BY <2>3, <3>1, <3>2, FlowInfoIs
  <2>5. DOMAIN flow_table' \subseteq Flows
    <3>1. DOMAIN flow_table \subseteq Flows
      BY DEF TypeOK
    <3>2. DOMAIN flow_table' = DOMAIN flow_table \cup {new_flow'.flow_id}
      BY <2>1 DEF With
    <3> QED BY <2>4, <3>1, <3>2
  <2>6. hop' \in 1..new_flow'.hop_cnt + 1 /\ field' \in 1..Len(Metadata)
    BY <1>1, <2>1, <2>4
  <2>7. taken' \in 0..Len(accepted)
    BY <1>1, <2>2
  <2>8. TypeOK'
    <3> HIDE DEF r
    <3>1. \A f \in Flows : DOMAIN gauge[f] \subseteq SwitchIds \X ToSet(Metadata)
      BY DEF TypeOK
    <3> QED BY <1>1, <1>2, <2>1, <2>2, <2>5, <2>6, <2>7, <3>1 DEF TypeOK
  <2>9. ExportInv'
    BY <1>1, <2>1 DEF ExportInv
  <2> QED BY <2>8, <2>9
<1>8. CASE SetGauge
  <2> DEFINE m == Metadata[field]
             r == accepted[taken]
  <2>1. pc = "export" /\ hop <= new_flow.hop_cnt
        /\ UNCHANGED <<accepted, taken, kill_now, new_flow, flow_table>>
    BY <1>8 DEF SetGauge
  <2>2. (Advance /\ pc' = pc) \/ (pc' = "died" /\ UNCHANGED <<hop, field>>)
    BY <1>8 DEF SetGauge, Skip
  <2>3. hop' \in 1..new_flow.hop_cnt + 1 /\ field' \in 1..11
    <3>1. CASE Advance
      <4>1. field' = (IF field = 11 THEN 1 ELSE field + 1)
            /\ hop' = (IF field = 11 THEN hop + 1 ELSE hop)
        BY <1>1, <3>1 DEF Advance, LastField
      <4> QED BY <1>1, <2>1, <4>1
    <3>2. CASE UNCHANGED <<hop, field>>
      BY <1>1, <3>2
    <3> QED BY <2>2, <3>1, <3>2
  <2>4. ASSUME NEW f \in Flows PROVE DOMAIN gauge'[f] \subseteq SwitchIds \X ToSet(Metadata)
    <3>0. DOMAIN gauge[f] \subseteq SwitchIds \X ToSet(Metadata) /\ DOMAIN gauge = Flows
      BY DEF TypeOK, GaugeInv
    <3>1. CASE Present(m) /\ Present("switch_id")
      <4> DEFINE k == <<new_flow.lists["switch_id"][hop], m>>
                 fl == new_flow.flow_id
                 add == With(gauge[fl], k, ValueOf(m))
      <4>1. gauge' = [gauge EXCEPT ![fl] = add]
        BY <1>8, <3>1 DEF SetGauge
      <4>2. new_flow.lists["switch_id"][hop] \in SwitchIds
        BY <2>1, <3>1, TurnFinds
      <4>3. m \in ToSet(Metadata)
        BY <1>1, MetadataAre
      <4>4. k \in SwitchIds \X ToSet(Metadata)
        BY <4>2, <4>3
      <4> HIDE DEF k, m
      <4>5. DOMAIN add = DOMAIN gauge[fl] \cup {k}
        BY DEF With
      <4> HIDE DEF add, fl
      <4>6. CASE f = fl
        BY <3>0, <4>1, <4>4, <4>5, <4>6
      <4>7. CASE f # fl
        BY <3>0, <4>1, <4>7
      <4> QED BY <4>6, <4>7
    <3>2. CASE ~(Present(m) /\ Present("switch_id"))
      <4>1. gauge' = gauge
        BY <1>8, <3>2 DEF SetGauge
      <4> QED BY <3>0, <4>1
    <3> QED BY <3>1, <3>2
  <2>5. pc' \in {"export", "died"}
    BY <2>1, <2>2
  <2>6. TypeOK'
    <3>1. hop' \in 1..new_flow'.hop_cnt + 1 /\ field' \in 1..Len(Metadata)
      BY <1>1, <2>1, <2>3
    <3>2. pc' \in {"check", "recv", "export", "stopped", "died"}
      BY <2>5
    <3>3. /\ accepted' \in Seq(Reports) /\ taken' \in 0..Len(accepted')
          /\ Len(accepted') - taken' <= Room /\ kill_now' \in BOOLEAN
          /\ DOMAIN flow_table' \subseteq Flows
      BY <2>1 DEF TypeOK
    <3> QED BY <2>4, <3>1, <3>2, <3>3 DEF TypeOK
  <2>7. ExportInv'
    <3>1. taken # 0 /\ new_flow = FlowInfo[accepted[taken]]
      BY <2>1 DEF ExportInv
    <3> QED BY <2>1, <2>5, <3>1 DEF ExportInv
  <2> QED BY <2>6, <2>7
<1>9. CASE UNCHANGED vars
  BY <1>9 DEF vars, TypeOK, ExportInv
<1> QED BY <1>3, <1>4, <1>5, <1>6, <1>7, <1>8, <1>9 DEF Next, Receiver

\* A step takes no second report after a signal.
LEMMA StepKeepsLate ==
  ASSUME LateInv, [Next]_vars
  PROVE  LateInv'
<1>1. CASE Check
  BY <1>1 DEF Check, GoesOn, LateInv
<1>2. CASE Receive
  BY <1>2 DEF Receive, LateInv
<1>3. CASE SetGauge
  BY <1>3 DEF SetGauge, LateInv
<1>4. CASE Exported
  BY <1>4 DEF Exported, LateInv
<1>5. CASE Arrive
  BY <1>5 DEF Arrive, LateInv
<1>6. CASE Signal
  BY <1>6 DEF Signal, LateInv
<1>7. CASE UNCHANGED vars
  BY <1>7 DEF vars, LateInv
<1> QED BY <1>1, <1>2, <1>3, <1>4, <1>5, <1>6, <1>7 DEF Next, Receiver

\* The export overwrites the gauges with those of its report, and no others.
LEMMA TurnKeepsGauges ==
  ASSUME TypeOK, ExportInv, GaugeInv, SetGauge,
         Present(Metadata[field]), Present("switch_id")
  PROVE  GaugeInv'
<1>0. PICK t, w0 : t = taken /\ w0 = <<hop, field>>
  OBVIOUS
<1> DEFINE r == accepted[taken]
           m == Metadata[field]
           k0 == KeyOf(t, w0)
           fl == r.flow
           v0 == Truth(t, w0)
<1>1. /\ accepted' = accepted /\ taken' = taken
      /\ \A n \in 1..taken : n # t => Written(n)' = Written(n)
      /\ Written(t)' = Written(t) \cup {w0}
  <2>1. /\ accepted' = accepted /\ taken' = taken
        /\ \A n \in 1..taken : n # taken => Written(n)' = Written(n)
        /\ Written(taken)' = Written(taken) \cup {<<hop, field>>}
    BY TurnWrites, Zenon
  <2> QED BY <1>0, <2>1, Zenon
<1>2. pc = "export" /\ hop <= new_flow.hop_cnt
  BY DEF SetGauge
<1>3. /\ taken \in Nat \ {0} /\ new_flow.flow_id = fl /\ fl \in Flows
      /\ new_flow.lists["switch_id"][hop] = r.hops[hop]["switch_id"] /\ ValueOf(m) = v0
  BY <1>0, <1>2, TurnFinds, Zenon
<1>4. <<new_flow.lists["switch_id"][hop], m>> = k0
  BY <1>0, <1>3 DEF KeyOf
<1>5. gauge' = [gauge EXCEPT ![fl] = With(gauge[fl], k0, v0)]
  <2>1. gauge' = [gauge EXCEPT ![new_flow.flow_id] =
                    With(gauge[new_flow.flow_id], <<new_flow.lists["switch_id"][hop], m>>, ValueOf(m))]
    BY DEF SetGauge
  <2> HIDE DEF k0, v0, fl
  <2> QED BY <1>3, <1>4, <2>1
<1>6. t \in 1..taken /\ (\A n \in 1..taken : n <= t) /\ accepted[t].flow = fl
  BY <1>0, <1>3
<1>7. ASSUME NEW n \in 1..taken, NEW w PROVE KeyOf(n, w)' = KeyOf(n, w) /\ Truth(n, w)' = Truth(n, w)
  BY <1>1, Zenon DEF KeyOf, Truth
<1> HIDE DEF k0, v0, m, fl
<1>8. ASSUME NEW n \in 1..taken, NEW f, NEW k
      PROVE  Wrote(n, f, k)' <=> Wrote(n, f, k) \/ (n = t /\ f = fl /\ k = k0)
  <2>1. CASE n = t
    <3>1. (\E w \in Written(n)' : KeyOf(n, w)' = k) <=> (\E w \in Written(n) : KeyOf(n, w) = k) \/ k = k0
      BY <1>1, <1>7, <2>1, Zenon DEF k0
    <3> QED BY <1>1, <1>6, <2>1, <3>1, Zenon DEF Wrote
  <2>2. CASE n # t
    BY <1>1, <1>7, <2>2, Zenon DEF Wrote
  <2> QED BY <2>1, <2>2
<1>9. DOMAIN gauge = Flows
  BY DEF GaugeInv
<1>10. DOMAIN gauge' = Flows
  BY <1>5, <1>9
<1> SUFFICES ASSUME NEW f \in Flows, NEW k \in SwitchIds \X ToSet(Metadata)
             PROVE  /\ k \in DOMAIN gauge'[f] <=> \E n \in 1..taken : Wrote(n, f, k)'
                    /\ k \in DOMAIN gauge'[f] =>
                         \E n \in 1..taken :
                           /\ accepted[n].flow = f
                           /\ \E w \in Written(n)' :
                                KeyOf(n, w)' = k /\ gauge'[f][k] = Truth(n, w)'
                           /\ \A j \in 1..taken : Wrote(j, f, k)' => j <= n
  BY <1>1, <1>10, Zenon DEF GaugeInv
<1>11. CASE f = fl /\ k = k0
  <2>1. k \in DOMAIN gauge'[f] /\ gauge'[f][k] = v0
    <3>1. gauge'[f] = With(gauge[f], k0, v0)
      BY <1>5, <1>9, <1>11
    <3> QED BY <1>11, <3>1 DEF With
  <2>2. Wrote(t, f, k)'
    BY <1>6, <1>8, <1>11
  <2>3. w0 \in Written(t)' /\ KeyOf(t, w0)' = k /\ Truth(t, w0)' = v0
    <3>1. KeyOf(t, w0)' = KeyOf(t, w0) /\ Truth(t, w0)' = Truth(t, w0)
      BY <1>6, <1>7, Zenon
    <3>2. w0 \in Written(t)'
      BY <1>1, Zenon
    <3> QED BY <1>11, <3>1, <3>2 DEF k0, v0
  <2>4. accepted[t].flow = f
    BY <1>6, <1>11
  <2>5. \E w \in Written(t)' : KeyOf(t, w)' = k /\ gauge'[f][k] = Truth(t, w)'
    BY <2>1, <2>3, Zenon
  <2> QED BY <1>6, <2>1, <2>2, <2>4, <2>5, Zenon
<1>12. CASE ~(f = fl /\ k = k0)
  <2>1. /\ k \in DOMAIN gauge'[f] <=> k \in DOMAIN gauge[f]
        /\ k \in DOMAIN gauge[f] => gauge'[f][k] = gauge[f][k]
    <3>1. CASE f # fl
      <4>1. gauge'[f] = gauge[f]
        BY <1>5, <1>9, <3>1
      <4> QED BY <4>1
    <3>2. CASE f = fl
      <4>1. gauge'[f] = With(gauge[f], k0, v0) /\ k # k0
        BY <1>5, <1>9, <1>12, <3>2
      <4> QED BY <4>1 DEF With
    <3> QED BY <3>1, <3>2
  <2>2. ASSUME NEW n \in 1..taken PROVE Wrote(n, f, k)' <=> Wrote(n, f, k)
    BY <1>8, <1>12
  <2>3. ASSUME NEW n \in 1..taken, NEW w \in Written(n) PROVE w \in Written(n)'
    BY <1>1, Zenon
  <2>4. k \in DOMAIN gauge[f] <=> \E n \in 1..taken : Wrote(n, f, k)
    BY Zenon DEF GaugeInv
  <2>5. ASSUME k \in DOMAIN gauge[f]
        PROVE  \E n \in 1..taken :
                 /\ accepted[n].flow = f
                 /\ \E w \in Written(n)' : KeyOf(n, w)' = k /\ gauge'[f][k] = Truth(n, w)'
                 /\ \A j \in 1..taken : Wrote(j, f, k)' => j <= n
    <3>1. PICK n \in 1..taken :
            /\ accepted[n].flow = f
            /\ \E w \in Written(n) : KeyOf(n, w) = k /\ gauge[f][k] = Truth(n, w)
            /\ \A j \in 1..taken : Wrote(j, f, k) => j <= n
      BY <2>5, Zenon DEF GaugeInv
    <3>2. PICK w \in Written(n) : KeyOf(n, w) = k /\ gauge[f][k] = Truth(n, w)
      BY <3>1
    <3>3. w \in Written(n)' /\ KeyOf(n, w)' = k /\ gauge'[f][k] = Truth(n, w)'
      BY <1>7, <2>1, <2>3, <2>5, <3>2
    <3>4. \A j \in 1..taken : Wrote(j, f, k)' => j <= n
      BY <2>2, <3>1, Zenon
    <3> QED BY <3>1, <3>3, <3>4, Zenon
  <2> QED BY <2>1, <2>2, <2>4, <2>5, Zenon
<1> QED BY <1>11, <1>12

\* Every step keeps the gauges newest.
LEMMA StepKeepsGauges ==
  ASSUME TypeOK, ExportInv, GaugeInv, [Next]_vars
  PROVE  GaugeInv'
<1>1. TypeOK' /\ ExportInv'
  BY StepKeepsTypes
<1>2. taken \in Nat /\ Len(accepted) \in Nat /\ taken <= Len(accepted)
  BY TakenReport
<1>3. CASE SetGauge
  <2>1. CASE Present(Metadata[field]) /\ Present("switch_id")
    BY <1>3, <2>1, TurnKeepsGauges
  <2>2. CASE ~(Present(Metadata[field]) /\ Present("switch_id"))
    <3>1. /\ accepted' = accepted /\ taken' = taken
          /\ \A n \in 1..taken : Written(n)' = Written(n)
      BY <1>3, <2>2, TurnWrites, Zenon
    <3>2. gauge' = gauge
      BY <1>3, <2>2 DEF SetGauge
    <3>3. \A n \in 1..taken : accepted'[n] = accepted[n] /\ Written(n)' = Written(n)
      BY <3>1
    <3>4. taken' \in {taken, taken + 1} /\ \A n \in 1..taken' : n \notin 1..taken => Written(n)' = {}
      BY <3>1
    <3> QED BY <1>2, <3>2, <3>3, <3>4, SameWriting, Zenon
  <2> QED BY <2>1, <2>2
<1>4. CASE Receive
  <2>1. pc = "recv" /\ taken' = taken + 1 /\ hop' = 1 /\ field' = 1
        /\ accepted' = accepted /\ gauge' = gauge
    BY <1>4 DEF Receive
  <2>2. ASSUME NEW n \in 1..taken PROVE Written(n)' = Written(n)
    <3>1. n < taken'
      BY <1>2, <2>1
    <3>2. Written(n)' = IF SwitchIdBit \notin accepted[n].mask THEN {}
                        ELSE {w \in (DOMAIN accepted[n].hops) \X (DOMAIN Metadata) :
                                ListOf(Metadata[w[2]]) \in FieldsOf(accepted[n].mask)}
      BY <2>1, <3>1, Zenon DEF Written
    <3>3. Written(n) = IF SwitchIdBit \notin accepted[n].mask THEN {}
                       ELSE {w \in (DOMAIN accepted[n].hops) \X (DOMAIN Metadata) :
                               ListOf(Metadata[w[2]]) \in FieldsOf(accepted[n].mask)}
      BY <2>1, WrittenAll
    <3> QED BY <3>2, <3>3
  <2>3. ASSUME NEW n \in 1..taken', n \notin 1..taken PROVE Written(n)' = {}
    <3>1. n = taken' /\ ~(n < taken')
      BY <1>2, <2>1, <2>3
    <3>2. /\ accepted[n].hops \in Seq(Hops) /\ DOMAIN Metadata = 1..11
      <4>1. n \in 1..Len(accepted)
        <5>1. taken < Len(accepted)
          BY <1>4 DEF Receive
        <5> QED BY <1>2, <2>1, <3>1, <5>1
      <4>2. accepted[n] \in Reports
        BY <4>1, TakenReport
      <4> QED BY <4>2, ReportIs, MetadataAre
    <3> DEFINE hs == accepted[n].hops
    <3>3. DOMAIN hs = 1..Len(hs) /\ Len(hs) \in Nat
      BY <3>2, LenProperties
    <3> HIDE DEF hs
    <3>4. ASSUME NEW w \in (DOMAIN hs) \X (DOMAIN Metadata)
          PROVE  ~(n < taken' \/ w[1] < hop' \/ (w[1] = hop' /\ w[2] < field'))
      <4>1. w[1] \in 1..Len(hs) /\ w[2] \in 1..11
        BY <3>2, <3>3
      <4> QED BY <2>1, <3>1, <3>3, <4>1
    <3> QED BY <2>1, <3>4, Zenon DEF Written, hs
  <2> QED BY <1>2, <2>1, <2>2, <2>3, SameWriting
<1>5. CASE Arrive
  <2>1. /\ Len(accepted') = Len(accepted) + 1
        /\ \A n \in 1..Len(accepted) : accepted'[n] = accepted[n]
    BY <1>5, ArriveAppends
  <2>2. taken' = taken /\ hop' = hop /\ field' = field /\ gauge' = gauge
    BY <1>5 DEF Arrive
  <2>3. ASSUME NEW n \in 1..taken PROVE accepted'[n] = accepted[n]
    BY <1>2, <2>1
  <2>4. ASSUME NEW n \in 1..taken PROVE Written(n)' = Written(n)
    BY <2>2, <2>3, Zenon DEF Written
  <2>5. \A n \in 1..taken' : n \notin 1..taken => Written(n)' = {}
    BY <2>2
  <2> QED BY <1>2, <2>2, <2>3, <2>4, <2>5, SameWriting
<1>6. CASE UNCHANGED <<accepted, taken, hop, field, gauge>>
  <2>1. ASSUME NEW n \in 1..taken PROVE accepted'[n] = accepted[n] /\ Written(n)' = Written(n)
    BY <1>6, Zenon DEF Written
  <2>2. \A n \in 1..taken' : n \notin 1..taken => Written(n)' = {}
    BY <1>6
  <2> QED BY <1>2, <1>6, <2>1, <2>2, SameWriting
<1> QED BY <1>3, <1>4, <1>5, <1>6 DEF Next, Receiver, Check, Exported, Signal, vars

\* The invariant always holds.
LEMMA InvAlways == Spec => []IInv
<1>1. IInv /\ [Next]_vars => IInv'
  BY StepKeepsTypes, StepKeepsLate, StepKeepsGauges DEF IInv
<1> QED BY <1>1, InitHasInv, PTL DEF Spec

------------------------------------------------------------------------------
(* The theorems *)

\* The state of the collector is well-typed: the cursor stays inside the report
\* that is exported, and the gauges are those of known switches and metadata.
THEOREM CollectorTypes == Spec => []TypeOK
<1>1. IInv => TypeOK
  BY DEF IInv
<1> QED BY <1>1, InvAlways, PTL

\* A signal ends the collector with the next report at the latest.
THEOREM SignalEndsIt == Spec => []SignalEndsWithNextReport
<1>1. IInv => SignalEndsWithNextReport
  BY DEF IInv, LateInv, SignalEndsWithNextReport
<1> QED BY <1>1, InvAlways, PTL

\* A gauge holds what the newest report of its flow that names its switch said.
THEOREM GaugesTellReports == Spec => []GaugesAreNewest
<1>1. ASSUME IInv PROVE GaugesAreNewest
  <2> SUFFICES ASSUME NEW f \in Flows, NEW k \in SwitchIds \X ToSet(Metadata)
               PROVE  LET W == Writers(f, k) IN
                      /\ k \in DOMAIN gauge[f] <=> W # {}
                      /\ k \in DOMAIN gauge[f] =>
                           \E w \in Written(Newest(W)) :
                             KeyOf(Newest(W), w) = k /\ gauge[f][k] = Truth(Newest(W), w)
    BY Zenon DEF GaugesAreNewest
  <2> DEFINE W == Writers(f, k)
  <2>1. ASSUME NEW n PROVE n \in W <=> n \in 1..taken /\ Wrote(n, f, k)
    BY Zenon DEF Writers, Wrote
  <2>2. W # {} <=> \E n \in 1..taken : Wrote(n, f, k)
    <3> HIDE DEF W
    <3> QED BY <2>1
  <2>3. k \in DOMAIN gauge[f] <=> \E n \in 1..taken : Wrote(n, f, k)
    BY <1>1, Zenon DEF IInv, GaugeInv
  <2>4. ASSUME k \in DOMAIN gauge[f]
        PROVE  \E w \in Written(Newest(W)) :
                 KeyOf(Newest(W), w) = k /\ gauge[f][k] = Truth(Newest(W), w)
    <3>1. PICK n \in 1..taken :
            /\ accepted[n].flow = f
            /\ \E w \in Written(n) : KeyOf(n, w) = k /\ gauge[f][k] = Truth(n, w)
            /\ \A j \in 1..taken : Wrote(j, f, k) => j <= n
      BY <1>1, <2>4, Zenon DEF IInv, GaugeInv
    <3>2. Wrote(n, f, k)
      BY <3>1, Zenon DEF Wrote
    <3> HIDE DEF W
    <3>3. n \in W /\ \A j \in W : j <= n
      BY <2>1, <3>1, <3>2
    <3>4. W \subseteq Int
      <4>1. \A j \in W : j \in 1..taken
        BY <2>1
      <4>2. taken \in Nat
        BY <1>1, TakenReport DEF IInv
      <4> QED BY <4>1, <4>2
    <3>5. \A j \in W : (\A i \in W : i <= j) => j = n
      BY <3>3, <3>4
    <3>6. Newest(W) = n
      BY <3>3, <3>5, Zenon DEF Newest
    <3> QED BY <3>1, <3>6
  <2> HIDE DEF W
  <2>5. /\ k \in DOMAIN gauge[f] <=> W # {}
        /\ k \in DOMAIN gauge[f] =>
             \E w \in Written(Newest(W)) :
               KeyOf(Newest(W), w) = k /\ gauge[f][k] = Truth(Newest(W), w)
    BY <2>2, <2>3, <2>4, Zenon
  <2> QED BY <2>5 DEF W
<1> QED BY <1>1, InvAlways, PTL
=============================================================================
