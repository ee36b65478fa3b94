----------------------------- MODULE SharedLemmas -----------------------------
(***************************************************************************)
(* Lemmas that several proof modules use.  Induction over naturals and     *)
(* sequences is stated with a set of numbers or sequences in the place of  *)
(* a predicate: the provers can instantiate a set, not an operator.  From  *)
(* it follows what functions defined by recursion and the fold FlattenSeq  *)
(* compute, and from that where the words of a report stand on the wire,   *)
(* which the proofs of both parsers rest on.                               *)
(***************************************************************************)
EXTENDS ReportWire, FiniteSetTheorems, SequenceTheorems, WellFoundedInduction, TLAPS

\* A nonempty set of naturals has a least element.
LEMMA LeastElement ==
  ASSUME NEW S \in SUBSET Nat, S # {}
  PROVE  \E x \in S : \A y \in S : x <= y
<1> DEFINE R == {p \in Nat \X Nat : p[1] < p[2]}
<1>1. IsWellFoundedOn(R, Nat)
  BY NatLessThanWellFounded DEF OpToRel
<1>2. PICK x \in S : \A y \in S : ~(<<y, x>> \in R)
  <2> HIDE DEF R
  <2> QED BY <1>1, WFMin
<1>3. ASSUME NEW y \in S PROVE ~(y < x)
  BY <1>2
<1> HIDE DEF R
<1> QED BY <1>3

\* A set of naturals that has 0 and, with a number, the next one, has them all.
LEMMA NaturalsBySteps ==
  ASSUME NEW S, 0 \in S, \A n \in Nat : n \in S => n + 1 \in S
  PROVE  \A n \in Nat : n \in S
<1> SUFFICES ASSUME NEW k \in Nat, k \notin S PROVE FALSE
  OBVIOUS
<1>1. PICK m \in Nat \ S : \A n \in Nat \ S : m <= n
  BY LeastElement
<1>2. m # 0 /\ m - 1 \in Nat
  BY <1>1
<1>3. m - 1 \in S
  BY <1>1, <1>2
<1> QED BY <1>1, <1>2, <1>3

\* A set that has the empty sequence and, with a sequence, those one longer,
\* has all the sequences.
LEMMA SequencesBySteps ==
  ASSUME NEW E, NEW S, <<>> \in S,
         \A s \in Seq(E) : \A e \in E : s \in S => Append(s, e) \in S
  PROVE  \A s \in Seq(E) : s \in S
<1> DEFINE N == {n \in Nat : \A s \in Seq(E) : Len(s) = n => s \in S}
<1>1. 0 \in N
  <2> SUFFICES ASSUME NEW s \in Seq(E), Len(s) = 0 PROVE s \in S
    OBVIOUS
  <2>1. s = <<>>
    OBVIOUS
  <2> QED BY <2>1
<1>2. ASSUME NEW n \in Nat, n \in N PROVE n + 1 \in N
  <2> SUFFICES ASSUME NEW s \in Seq(E), Len(s) = n + 1 PROVE s \in S
    OBVIOUS
  <2>1. s # <<>>
    BY EmptySeq
  <2>2. PICK t \in Seq(E), e \in E : s = Append(t, e)
    BY <2>1, SequenceEmptyOrAppend
  <2>3. Len(t) = n
    BY <2>2, AppendProperties, LenProperties
  <2> QED BY <1>2, <2>2, <2>3
<1>3. \A n \in Nat : n \in N
  <2> HIDE DEF N
  <2> QED BY <1>1, <1>2, NaturalsBySteps
<1> QED BY <1>3, LenProperties

\* Naturals can be added up.
LEMMA PartialSums ==
  ASSUME NEW n \in Nat, NEW d \in [1..n -> Nat]
  PROVE  \E f \in [0..n -> Nat] : f[0] = 0 /\ \A i \in 1..n : f[i] = f[i - 1] + d[i]
<1> DEFINE Sums(m, f) == f \in [0..m -> Nat] /\ f[0] = 0 /\ \A i \in 1..m : f[i] = f[i - 1] + d[i]
           N == {m \in Nat : m <= n => \E f : Sums(m, f)}
<1>1. 0 \in N
  <2>1. Sums(0, [i \in 0..0 |-> 0])
    OBVIOUS
  <2> QED BY <2>1
<1>2. ASSUME NEW m \in Nat, m \in N PROVE m + 1 \in N
  <2>1. CASE m + 1 <= n
    <3>1. PICK f : Sums(m, f)
      <4> HIDE DEF Sums
      <4> QED BY <1>2, <2>1
    <3>2. d[m + 1] \in Nat /\ f[m] \in Nat
      BY <2>1, <3>1
    <3> DEFINE g == [i \in 0..(m + 1) |-> IF i <= m THEN f[i] ELSE f[m] + d[m + 1]]
    <3>3. g \in [0..(m + 1) -> Nat] /\ g[0] = 0
      BY <3>1, <3>2
    <3>4. ASSUME NEW i \in 1..(m + 1) PROVE g[i] = g[i - 1] + d[i]
      <4>1. CASE i \in 1..m
        <5>1. g[i] = f[i] /\ g[i - 1] = f[i - 1]
          BY <4>1
        <5> HIDE DEF g
        <5> QED BY <3>1, <4>1, <5>1
      <4>2. CASE i = m + 1
        <5>1. g[i] = f[m] + d[m + 1] /\ g[i - 1] = f[m]
          BY <4>2
        <5> HIDE DEF g
        <5> QED BY <4>2, <5>1
      <4> QED BY <4>1, <4>2
    <3>5. Sums(m + 1, g)
      <4> HIDE DEF g
      <4> QED BY <3>3, <3>4
    <3> HIDE DEF Sums, g
    <3> QED BY <3>5
  <2>2. CASE ~(m + 1 <= n)
    <3> HIDE DEF Sums
    <3> QED BY <2>2
  <2> QED BY <2>1, <2>2
<1>3. \A m \in Nat : m \in N
  <2> HIDE DEF N
  <2> QED BY <1>1, <1>2, NaturalsBySteps
<1>4. \E f : Sums(n, f)
  <2> HIDE DEF Sums
  <2> QED BY <1>3
<1> QED BY <1>4

------------------------------------------------------------------------------
(* Sequences taken apart *)

LEMMA AppendConcat ==
  ASSUME NEW E, NEW s \in Seq(E), NEW t \in Seq(E), NEW e \in E
  PROVE  s \o Append(t, e) = Append(s \o t, e)
<1>1. /\ <<e>> \in Seq(E) /\ s \o t \in Seq(E)
      /\ Append(t, e) = t \o <<e>> /\ Append(s \o t, e) = (s \o t) \o <<e>>
  BY AppendIsConcat, ConcatProperties
<1> QED BY <1>1, ConcatAssociative

LEMMA HeadThenTail ==
  ASSUME NEW E, NEW s \in Seq(E), s # <<>>
  PROVE  s = <<Head(s)>> \o Tail(s)
<1>1. /\ Head(s) \in E /\ Tail(s) \in Seq(E) /\ Len(Tail(s)) = Len(s) - 1
      /\ \A i \in 1..Len(Tail(s)) : Tail(s)[i] = s[i + 1]
      /\ Head(s) = s[1] /\ Len(s) \in Nat \ {0}
  BY HeadTailProperties, EmptySeq
<1> DEFINE h == <<Head(s)>>  t == h \o Tail(s)
<1>2. h \in Seq(E) /\ Len(h) = 1 /\ h[1] = Head(s)
  BY <1>1
<1> HIDE DEF h
<1>3. /\ t \in Seq(E) /\ Len(t) = Len(s)
      /\ \A i \in 1..Len(s) : t[i] = IF i <= 1 THEN h[i] ELSE Tail(s)[i - 1]
  <2>1. /\ t \in Seq(E) /\ Len(t) = Len(h) + Len(Tail(s))
        /\ \A i \in 1..Len(h) + Len(Tail(s)) :
             t[i] = IF i <= Len(h) THEN h[i] ELSE Tail(s)[i - Len(h)]
    BY <1>1, <1>2, ConcatProperties, Zenon
  <2>2. Len(h) + Len(Tail(s)) = Len(s)
    BY <1>1, <1>2
  <2> HIDE DEF t
  <2> QED BY <1>2, <2>1, <2>2
<1>4. ASSUME NEW i \in 1..Len(s) PROVE t[i] = s[i]
  <2>1. CASE i = 1
    BY <1>1, <1>2, <1>3, <2>1
  <2>2. CASE i # 1
    BY <1>1, <1>3, <2>2
  <2> QED BY <2>1, <2>2
<1> HIDE DEF t
<1>5. t = s
  BY <1>3, <1>4, SeqEqual
<1> QED BY <1>5 DEF t, h

------------------------------------------------------------------------------
(* FlattenSeq lays sequences end to end *)

IsFlat(ss, n, f) == f = [i \in 1..n |-> IF i = 1 THEN ss[i] ELSE f[i - 1] \o ss[i]]

\* The recursion of FlattenSeq defines a function.
LEMMA FlatExists ==
  ASSUME NEW ss
  PROVE  \A n \in Nat : \E f : IsFlat(ss, n, f)
<1> DEFINE N == {n \in Nat : \E f : IsFlat(ss, n, f)}
<1>1. 0 \in N
  <2>1. IsFlat(ss, 0, [i \in 1..0 |-> <<>>])
    BY DEF IsFlat
  <2> QED BY <2>1
<1>2. ASSUME NEW n \in Nat, n \in N PROVE n + 1 \in N
  <2>1. PICK f : IsFlat(ss, n, f)
    BY <1>2
  <2>2. \A i \in 1..n : f[i] = IF i = 1 THEN ss[i] ELSE f[i - 1] \o ss[i]
    BY <2>1 DEF IsFlat
  <2> DEFINE g == [i \in 1..(n + 1) |-> IF i <= n THEN f[i]
                                        ELSE IF i = 1 THEN ss[i] ELSE f[n] \o ss[i]]
  <2>3. ASSUME NEW i \in 1..(n + 1)
        PROVE  g[i] = IF i = 1 THEN ss[i] ELSE g[i - 1] \o ss[i]
    <3>1. CASE i \in 1..n
      <4>1. g[i] = f[i]
        BY <3>1
      <4>2. i # 1 => g[i - 1] = f[i - 1]
        BY <3>1
      <4> HIDE DEF g
      <4> QED BY <2>2, <3>1, <4>1, <4>2
    <3>2. CASE i = n + 1
      <4>1. g[i] = IF i = 1 THEN ss[i] ELSE f[n] \o ss[i]
        BY <3>2
      <4>2. i # 1 => g[i - 1] = f[n]
        BY <3>2
      <4> HIDE DEF g
      <4> QED BY <4>1, <4>2
    <3> QED BY <3>1, <3>2
  <2>4. g = [i \in 1..(n + 1) |-> g[i]]
    OBVIOUS
  <2> HIDE DEF g
  <2>5. IsFlat(ss, n + 1, g)
    BY <2>3, <2>4, Zenon DEF IsFlat
  <2> QED BY <2>5
<1>3. \A n \in Nat : n \in N
  <2> HIDE DEF N
  <2> QED BY <1>1, <1>2, NaturalsBySteps
<1> QED BY <1>3

\* If start[i] words precede the i-th sequence, that is where its words are.
LEMMA FlattenEnds ==
  ASSUME NEW E, NEW ss \in Seq(Seq(E)), NEW start \in [1..Len(ss) + 1 -> Nat], start[1] = 0,
         \A i \in 1..Len(ss) : start[i + 1] = start[i] + Len(ss[i])
  PROVE  /\ FlattenSeq(ss) \in Seq(E) /\ Len(FlattenSeq(ss)) = start[Len(ss) + 1]
         /\ \A i \in 1..Len(ss) : \A k \in 1..Len(ss[i]) :
              /\ start[i] + k \in 1..Len(FlattenSeq(ss))
              /\ FlattenSeq(ss)[start[i] + k] = ss[i][k]
<1> DEFINE n == Len(ss)
<1>0. n \in Nat /\ \A i \in 1..n + 1 : start[i] \in Nat
  BY LenProperties
<1>1. CASE n = 0
  <2>1. ss = <<>>
    BY <1>1, EmptySeq
  <2>2. FlattenSeq(ss) = <<>>
    BY <1>1, <2>1 DEF FlattenSeq
  <2>3. <<>> \in Seq(E) /\ Len(<<>>) = 0
    OBVIOUS
  <2> QED BY <1>1, <2>2, <2>3
<1>2. CASE n # 0
  <2> DEFINE f == CHOOSE f : IsFlat(ss, n, f)
  <2>1. IsFlat(ss, n, f)
    <3>1. \E g : IsFlat(ss, n, g)
      BY <1>0, FlatExists
    <3> QED BY <3>1
  <2>2. FlattenSeq(ss) = f[n]
    BY <1>2 DEF FlattenSeq, IsFlat
  <2> HIDE DEF f
  <2>3. \A i \in 1..n : f[i] = IF i = 1 THEN ss[i] ELSE f[i - 1] \o ss[i]
    BY <2>1 DEF IsFlat
  <2> DEFINE LaidOut(m) ==
               /\ f[m] \in Seq(E) /\ Len(f[m]) = start[m + 1]
               /\ \A i \in 1..m : \A k \in 1..Len(ss[i]) :
                    start[i] + k <= start[m + 1] /\ f[m][start[i] + k] = ss[i][k]
             N == {m \in Nat : m + 1 <= n => LaidOut(m + 1)}
  <2>4. 0 \in N
    <3>1. f[1] = ss[1] /\ ss[1] \in Seq(E) /\ start[1] = 0 /\ start[1 + 1] = start[1] + Len(ss[1])
      BY <1>0, <1>2, <2>3, ElementOfSeq
    <3>2. Len(ss[1]) \in Nat
      BY <3>1, LenProperties
    <3>3. Len(f[1]) = start[1 + 1]
      BY <3>1, <3>2
    <3>4. ASSUME NEW i \in 1..1, NEW k \in 1..Len(ss[i])
          PROVE  start[i] + k <= start[1 + 1] /\ f[1][start[i] + k] = ss[i][k]
      BY <3>1, <3>2
    <3>5. LaidOut(1)
      BY <3>1, <3>3, <3>4
    <3> HIDE DEF LaidOut
    <3> QED BY <3>5
  <2>5. ASSUME NEW m \in Nat, m \in N PROVE m + 1 \in N
    <3> SUFFICES ASSUME m + 1 + 1 <= n PROVE LaidOut(m + 1 + 1)
      OBVIOUS
    <3> DEFINE a == m + 1  b == m + 1 + 1
    <3>1. a \in 1..n /\ b \in 1..n /\ b # 1 /\ b - 1 = a /\ a + 1 = b /\ a \in Nat
      BY <1>0
    <3>2. LaidOut(a)
      BY <2>5, <3>1
    <3> HIDE DEF a, b, N
    <3>3. f[b] = f[a] \o ss[b]
      BY <2>3, <3>1
    <3>4. ss[b] \in Seq(E) /\ Len(ss[b]) \in Nat /\ start[b + 1] = start[b] + Len(ss[b])
      BY <1>0, <3>1, ElementOfSeq, LenProperties
    <3>5. f[a] \in Seq(E) /\ Len(f[a]) = start[b] /\ start[b] \in Nat
      BY <3>1, <3>2, LenProperties
    <3> DEFINE u == f[a]  v == ss[b]
    <3>6. /\ f[b] \in Seq(E) /\ Len(f[b]) = start[b + 1]
          /\ \A j \in 1..start[b] + Len(v) : f[b][j] = IF j <= start[b] THEN u[j] ELSE v[j - start[b]]
      <4>1. u \in Seq(E) /\ v \in Seq(E) /\ f[b] = u \o v /\ Len(u) = start[b]
            /\ start[b + 1] = start[b] + Len(v)
        BY <3>3, <3>4, <3>5
      <4> HIDE DEF u, v
      <4>2. /\ u \o v \in Seq(E) /\ Len(u \o v) = Len(u) + Len(v)
            /\ \A j \in 1..Len(u) + Len(v) : (u \o v)[j] = IF j <= Len(u) THEN u[j] ELSE v[j - Len(u)]
        BY <4>1, ConcatProperties, Zenon
      <4> QED BY <4>1, <4>2, Zenon
    <3>7. ASSUME NEW i \in 1..b, NEW k \in 1..Len(ss[i])
          PROVE  start[i] + k <= start[b + 1] /\ f[b][start[i] + k] = ss[i][k]
      <4>1. i \in 1..n /\ start[i] \in Nat /\ k \in Nat /\ k >= 1
        <5>1. i \in 1..n
          BY <1>0, <3>1
        <5>2. ss[i] \in Seq(E)
          BY <1>0, <5>1, ElementOfSeq
        <5>3. start[i] \in Nat
          <6> HIDE DEF n
          <6> QED BY <1>0, <5>1
        <5> QED BY <5>1, <5>2, <5>3, LenProperties
      <4>2. CASE i \in 1..a
        <5>1. start[i] + k <= start[a + 1] /\ f[a][start[i] + k] = ss[i][k]
          BY <3>2, <4>2
        <5>2. start[a + 1] = start[b] /\ start[i] + k \in 1..start[b] + Len(v)
          <6>1. start[a + 1] = start[b] /\ start[i] + k <= start[b]
            BY <3>1, <5>1
          <6>2. Len(v) \in Nat /\ start[b] \in Nat
            BY <3>4, <3>5
          <6> DEFINE x == start[i]  y == start[b]
          <6>3. x \in Nat /\ y \in Nat /\ x + k <= y
            BY <4>1, <6>1, <6>2
          <6> HIDE DEF v, x, y
          <6>4. x + k \in 1..y + Len(v)
            BY <4>1, <6>2, <6>3
          <6> QED BY <6>1, <6>4 DEF x, y
        <5>3. f[b][start[i] + k] = f[a][start[i] + k]
          BY <3>1, <3>6, <5>1, <5>2
        <5> QED BY <3>4, <3>5, <5>1, <5>2, <5>3
      <4>3. CASE i = b
        <5>0. Len(v) \in Nat /\ start[b] \in Nat /\ k \in 1..Len(v) /\ start[b + 1] = start[b] + Len(v)
          BY <3>4, <3>5, <4>3
        <5> DEFINE q == start[b]
        <5> HIDE DEF v, q
        <5>1. q + k \in 1..q + Len(v) /\ ~(q + k <= q) /\ (q + k) - q = k /\ q + k <= q + Len(v)
          <6>1. q \in Nat /\ Len(v) \in Nat /\ k \in 1..Len(v)
            BY <5>0 DEF q
          <6> QED BY <6>1
        <5>2. f[b][q + k] = v[k]
          BY <3>6, <5>1 DEF q
        <5> QED BY <4>3, <5>0, <5>1, <5>2 DEF q, v
      <4> QED BY <3>1, <4>1, <4>2, <4>3
    <3>8. LaidOut(b)
      BY <3>6, <3>7
    <3> QED BY <3>8 DEF b
  <2>6. \A m \in Nat : m \in N
    <3> HIDE DEF N
    <3> QED BY <2>4, <2>5, NaturalsBySteps
  <2>7. n - 1 \in Nat /\ n - 1 \in N /\ (n - 1) + 1 = n
    <3> HIDE DEF N, n
    <3> QED BY <1>0, <1>2, <2>6
  <2>8. LaidOut(n)
    <3> HIDE DEF LaidOut
    <3> QED BY <1>0, <2>7
  <2>9. ASSUME NEW i \in 1..n, NEW k \in 1..Len(ss[i]) PROVE start[i] + k \in 1..start[n + 1]
    <3>1. Len(ss[i]) \in Nat
      BY ElementOfSeq, LenProperties
    <3>2. start[i] \in Nat /\ start[n + 1] \in Nat
      <4> HIDE DEF n
      <4> QED BY <1>0
    <3> DEFINE x == start[i]  y == start[n + 1]
    <3>3. x + k <= y
      BY <2>8
    <3> HIDE DEF x, y, n
    <3>4. x \in Nat /\ y \in Nat /\ k \in Nat /\ k >= 1
      BY <3>1, <3>2 DEF x, y
    <3> QED BY <3>3, <3>4 DEF x, y
  <2> QED BY <2>2, <2>8, <2>9
<1> QED BY <1>1, <1>2

------------------------------------------------------------------------------
(* A report on the wire *)

WordPairs == Nat \X Nat
HopValues == [Fields -> Nat]
Masks == SUBSET Bits

(* What the collectors' assumptions say of every report. *)
OnWire(r) ==
  r.mask \in Masks /\ r.hops \in Seq(HopValues) /\ r.options \in Seq(WordPairs)

(* The words of a hop before those of instruction b. *)
WordsBefore(mask, b) == WordsPerHop({c \in mask : c < b})

\* The fields and their instructions, spelled out.
LEMMA FieldNames ==
  /\ Fields = {"switch_id", "l1_ingress_port_id", "l1_egress_port_id", "hop_latency", "q_id",
               "q_occupancy", "ingress_tstamp", "egress_tstamp", "l2_ingress_port_id",
               "l2_egress_port_id", "egress_port_tx_util"}
  /\ BitOf["switch_id"] = 0 /\ BitOf["l1_ingress_port_id"] = 1 /\ BitOf["l1_egress_port_id"] = 1
  /\ BitOf["hop_latency"] = 2 /\ BitOf["q_id"] = 3 /\ BitOf["q_occupancy"] = 3
  /\ BitOf["ingress_tstamp"] = 4 /\ BitOf["egress_tstamp"] = 5
  /\ BitOf["l2_ingress_port_id"] = 6 /\ BitOf["l2_egress_port_id"] = 6
  /\ BitOf["egress_port_tx_util"] = 7
BY DEF Fields, BitOf, SwitchIdBit, L1PortIdsBit, HopLatencyBit, QueueBit, IngressTstampBit,
       EgressTstampBit, L2PortIdsBit, EgressPortTxUtilBit

\* The field of an instruction that has only one.
LEMMA OnlyFields ==
  /\ FieldOf(0) = "switch_id" /\ FieldOf(2) = "hop_latency" /\ FieldOf(4) = "ingress_tstamp"
  /\ FieldOf(5) = "egress_tstamp" /\ FieldOf(7) = "egress_port_tx_util"
<1>1. FieldOf(0) = "switch_id"
  BY FieldNames DEF FieldOf
<1>2. FieldOf(2) = "hop_latency"
  BY FieldNames DEF FieldOf
<1>3. FieldOf(4) = "ingress_tstamp"
  BY FieldNames DEF FieldOf
<1>4. FieldOf(5) = "egress_tstamp"
  BY FieldNames DEF FieldOf
<1>5. FieldOf(7) = "egress_port_tx_util"
  BY FieldNames DEF FieldOf
<1> QED BY <1>1, <1>2, <1>3, <1>4, <1>5

\* A word holds its number in two halves.
LEMMA WordOf ==
  ASSUME NEW n \in Nat
  PROVE  /\ Word(n) \in WordPairs /\ Whole(Word(n)) = n
         /\ Word(n)[1] = n \div 65536 /\ Word(n)[2] = n % 65536
<1>1. n \div 65536 \in Nat /\ n % 65536 \in Nat /\ (n \div 65536) * 65536 + (n % 65536) = n
  OBVIOUS
<1> QED BY <1>1 DEF Word, Whole, WordPairs

\* An instruction has one word, the level 2 port ids have two.
LEMMA HopWordsOf ==
  ASSUME NEW b \in Bits, NEW h \in HopValues
  PROVE  HopWords(b, h) \in Seq(WordPairs) /\ Len(HopWords(b, h)) = IF b = 6 THEN 2 ELSE 1
<1>1. \A f \in Fields : h[f] \in Nat
  BY DEF HopValues
<1>2. CASE b = 1
  <2>1. HopWords(b, h) = << <<h["l1_ingress_port_id"], h["l1_egress_port_id"]>> >>
    BY <1>2 DEF HopWords, L1PortIdsBit, QueueBit, L2PortIdsBit
  <2>2. <<h["l1_ingress_port_id"], h["l1_egress_port_id"]>> \in WordPairs
    BY <1>1, FieldNames DEF WordPairs
  <2> QED BY <1>2, <2>1, <2>2
<1>3. CASE b = 3
  <2>1. HopWords(b, h) = <<Word(h["q_id"] * OccupancyRange + h["q_occupancy"])>>
    BY <1>3 DEF HopWords, L1PortIdsBit, QueueBit, L2PortIdsBit
  <2>2. h["q_id"] * OccupancyRange + h["q_occupancy"] \in Nat
    BY <1>1, FieldNames DEF OccupancyRange
  <2>3. Word(h["q_id"] * OccupancyRange + h["q_occupancy"]) \in WordPairs
    BY <2>2, WordOf
  <2> DEFINE w == Word(h["q_id"] * OccupancyRange + h["q_occupancy"])
  <2>4. HopWords(b, h) = <<w>> /\ w \in WordPairs
    BY <2>1, <2>3
  <2> HIDE DEF w
  <2>5. Len(<<w>>) = 1 /\ <<w>> \in Seq(WordPairs)
    BY <2>4
  <2>6. (IF b = 6 THEN 2 ELSE 1) = 1
    BY <1>3
  <2> QED BY <2>4, <2>5, <2>6
<1>4. CASE b = 6
  <2>1. HopWords(b, h) = <<Word(h["l2_ingress_port_id"]), Word(h["l2_egress_port_id"])>>
    BY <1>4 DEF HopWords, L1PortIdsBit, QueueBit, L2PortIdsBit
  <2>2. Word(h["l2_ingress_port_id"]) \in WordPairs /\ Word(h["l2_egress_port_id"]) \in WordPairs
    BY <1>1, FieldNames, WordOf
  <2> DEFINE v == Word(h["l2_ingress_port_id"])  w == Word(h["l2_egress_port_id"])
  <2>3. HopWords(b, h) = <<v, w>> /\ v \in WordPairs /\ w \in WordPairs
    BY <2>1, <2>2
  <2> HIDE DEF v, w
  <2>4. Len(<<v, w>>) = 2 /\ <<v, w>> \in Seq(WordPairs)
    BY <2>3
  <2> QED BY <1>4, <2>3, <2>4
<1>5. CASE b \notin {1, 3, 6}
  <2>1. HopWords(b, h) = <<Word(h[FieldOf(b)])>>
    BY <1>5 DEF HopWords, L1PortIdsBit, QueueBit, L2PortIdsBit
  <2>2. FieldOf(b) \in Fields
    <3>1. b \in {0, 2, 4, 5, 7}
      BY <1>5 DEF Bits
    <3> QED BY <3>1, OnlyFields, FieldNames
  <2>3. Word(h[FieldOf(b)]) \in WordPairs
    BY <1>1, <2>2, WordOf
  <2> QED BY <1>5, <2>1, <2>3
<1> QED BY <1>2, <1>3, <1>4, <1>5 DEF Bits

\* The words of a hop, and those before an instruction, are counted instruction by
\* instruction.
LEMMA WordsCounted ==
  ASSUME NEW mask \in Masks
  PROVE  /\ WordsBefore(mask, 0) = 0 /\ WordsBefore(mask, 8) = WordsPerHop(mask)
         /\ \A b \in 0..8 : WordsBefore(mask, b) \in Nat
         /\ \A b \in Bits : WordsBefore(mask, b + 1) =
              WordsBefore(mask, b) + (IF b \notin mask THEN 0 ELSE IF b = 6 THEN 2 ELSE 1)
         /\ WordsPerHop(mask) \in 0..9
         /\ mask # {} => WordsPerHop(mask) # 0
<1> DEFINE before(b) == {c \in mask : c < b}
           extra(S) == IF 6 \in S THEN 1 ELSE 0
<1>0. \A c \in mask : c \in 0..7
  BY DEF Masks, Bits
<1>1. IsFiniteSet(mask) /\ Cardinality(mask) <= 8
  <2>1. IsFiniteSet(0..7) /\ Cardinality(0..7) = IF 0 > 7 THEN 0 ELSE 7 - 0 + 1
    BY FS_Interval, 0 \in Int, 7 \in Int, Zenon
  <2>2. Cardinality(0..7) = 8
    BY <2>1
  <2> QED BY <1>0, <2>1, <2>2, FS_Subset
<1>2. ASSUME NEW b PROVE IsFiniteSet(before(b)) /\ Cardinality(before(b)) \in Nat
  BY <1>1, FS_Subset, FS_CardinalityType
<1>3. ASSUME NEW S PROVE WordsPerHop(S) = Cardinality(S) + (IF 6 \in S THEN 1 ELSE 0)
               \/ ~(Cardinality(S) \in Nat)
  BY DEF WordsPerHop, L2PortIdsBit
<1>4. ASSUME NEW b PROVE WordsBefore(mask, b) = Cardinality(before(b)) + extra(before(b))
  BY <1>2, <1>3 DEF WordsBefore
<1>5. before(0) = {} /\ before(8) = mask
  BY <1>0
<1>6. WordsBefore(mask, 0) = 0 /\ WordsBefore(mask, 8) = WordsPerHop(mask)
  <2>1. WordsBefore(mask, 0) = 0
    BY <1>4, <1>5, FS_EmptySet
  <2> QED BY <1>5, <2>1 DEF WordsBefore
<1>7. ASSUME NEW b PROVE WordsBefore(mask, b) \in Nat
  <2> DEFINE n == Cardinality(before(b))  x == extra(before(b))
  <2>1. n \in Nat /\ x \in Nat /\ WordsBefore(mask, b) = n + x
    BY <1>2, <1>4
  <2> HIDE DEF n, x
  <2> QED BY <2>1
<1>8. ASSUME NEW b \in Bits
      PROVE  WordsBefore(mask, b + 1) =
               WordsBefore(mask, b) + (IF b \notin mask THEN 0 ELSE IF b = 6 THEN 2 ELSE 1)
  <2>0. b \in 0..7
    BY DEF Bits
  <2>1. CASE b \in mask
    <3>1. before(b + 1) = before(b) \cup {b}
      <4>1. ASSUME NEW c \in mask PROVE c < b + 1 <=> (c < b \/ c = b)
        BY <1>0, <2>0
      <4> QED BY <2>1, <4>1
    <3>2. b \notin before(b)
      BY <2>0
    <3>3. 6 \in before(b + 1) <=> 6 \in before(b) \/ b = 6
      BY <3>1
    <3>4. b = 6 => 6 \notin before(b)
      BY <3>2
    <3> DEFINE S == before(b)  T == before(b + 1)
    <3>5. /\ IsFiniteSet(S) /\ b \notin S /\ T = S \cup {b} /\ Cardinality(S) \in Nat
          /\ 6 \in T <=> (6 \in S \/ b = 6)
          /\ b = 6 => 6 \notin S
      BY <1>2, <3>1, <3>2, <3>3, <3>4
    <3>6. WordsBefore(mask, b) = Cardinality(S) + extra(S)
          /\ WordsBefore(mask, b + 1) = Cardinality(T) + extra(T)
      BY <1>4
    <3> HIDE DEF S, T, before
    <3>7. Cardinality(T) = Cardinality(S) + 1
      BY <3>5, FS_AddElement
    <3>8. extra(T) = extra(S) + (IF b = 6 THEN 1 ELSE 0)
      BY <3>5
    <3> DEFINE n == Cardinality(S)  x == extra(S)
    <3>9. n \in Nat /\ x \in Nat /\ WordsBefore(mask, b) = n + x
          /\ WordsBefore(mask, b + 1) = (n + 1) + (x + (IF b = 6 THEN 1 ELSE 0))
      BY <3>5, <3>6, <3>7, <3>8
    <3> HIDE DEF n, x
    <3>10. CASE b = 6
      BY <2>1, <3>9, <3>10
    <3>11. CASE b # 6
      BY <2>1, <3>9, <3>11
    <3> QED BY <3>10, <3>11
  <2>2. CASE b \notin mask
    <3>1. before(b + 1) = before(b)
      <4>1. ASSUME NEW c \in mask PROVE c < b + 1 <=> c < b
        BY <1>0, <2>0, <2>2
      <4> QED BY <4>1
    <3>2. WordsBefore(mask, b + 1) = WordsBefore(mask, b)
      BY <3>1 DEF WordsBefore
    <3> QED BY <1>7, <2>2, <3>2
  <2> QED BY <2>1, <2>2
<1>9. WordsPerHop(mask) \in 0..9
  BY <1>1, <1>3, FS_CardinalityType
<1>10. mask # {} => WordsPerHop(mask) # 0
  <2>1. mask # {} => Cardinality(mask) # 0
    BY <1>1, FS_EmptySet
  <2> QED BY <1>1, <1>3, <2>1, FS_CardinalityType
<1> QED BY <1>6, <1>7, <1>8, <1>9, <1>10

\* Where the words of an instruction are in those of a hop.
LEMMA HopDataLaid ==
  ASSUME NEW mask \in Masks, NEW h \in HopValues
  PROVE  /\ HopData(mask, h) \in Seq(WordPairs) /\ Len(HopData(mask, h)) = WordsPerHop(mask)
         /\ \A b \in mask : \A k \in 1..(IF b = 6 THEN 2 ELSE 1) :
              /\ WordsBefore(mask, b) + k \in 1..WordsPerHop(mask)
              /\ HopData(mask, h)[WordsBefore(mask, b) + k] = HopWords(b, h)[k]
<1> DEFINE ss == [j \in 1..8 |-> IF j - 1 \in mask THEN HopWords(j - 1, h) ELSE <<>>]
           start == [j \in 1..9 |-> WordsBefore(mask, j - 1)]
           width(b) == IF b \notin mask THEN 0 ELSE IF b = 6 THEN 2 ELSE 1
<1>1. ASSUME NEW j \in 1..8
      PROVE  ss[j] \in Seq(WordPairs) /\ Len(ss[j]) = width(j - 1) /\ j - 1 \in Bits
  <2>1. j - 1 \in Bits
    BY DEF Bits
  <2>2. CASE j - 1 \in mask
    <3>1. ss[j] = HopWords(j - 1, h)
      BY <2>2
    <3> QED BY <2>1, <2>2, <3>1, HopWordsOf
  <2>3. CASE j - 1 \notin mask
    <3>1. ss[j] = <<>>
      BY <2>3
    <3>2. <<>> \in Seq(WordPairs) /\ Len(<<>>) = 0
      OBVIOUS
    <3> QED BY <2>1, <2>3, <3>1, <3>2
  <2> QED BY <2>2, <2>3
<1>2. ss \in Seq(Seq(WordPairs)) /\ DOMAIN ss = 1..8
  <2>1. \A j \in 1..8 : ss[j] \in Seq(WordPairs)
    BY <1>1
  <2>2. ss = [j \in 1..8 |-> ss[j]]
    OBVIOUS
  <2> HIDE DEF ss
  <2>3. [j \in 1..8 |-> ss[j]] \in Seq(Seq(WordPairs))
    BY <2>1, IsASeq
  <2> QED BY <2>2, <2>3
<1>3. Len(ss) = 8
  <2> HIDE DEF ss
  <2> QED BY <1>2, LenProperties
<1>4. start \in [1..9 -> Nat] /\ start[1] = 0 /\ start[9] = WordsPerHop(mask)
  <2>1. \A j \in 1..9 : j - 1 \in 0..8
    OBVIOUS
  <2> QED BY <2>1, WordsCounted
<1>5. ASSUME NEW j \in 1..8 PROVE start[j + 1] = start[j] + Len(ss[j])
  <2> DEFINE b == j - 1
  <2>1. start[j + 1] = WordsBefore(mask, b + 1) /\ start[j] = WordsBefore(mask, b)
    OBVIOUS
  <2>2. b \in Bits /\ Len(ss[j]) = width(b)
    BY <1>1
  <2> HIDE DEF start, ss, b
  <2> QED BY <2>1, <2>2, WordsCounted
<1>6. HopData(mask, h) = FlattenSeq(ss)
  BY DEF HopData
<1>7. ASSUME NEW b \in mask PROVE b + 1 \in 1..8 /\ start[b + 1] = WordsBefore(mask, b)
                                  /\ ss[b + 1] = HopWords(b, h) /\ b \in Bits
  <2>1. b \in Bits /\ b \in 0..7 /\ (b + 1) - 1 = b
    BY DEF Masks, Bits
  <2> QED BY <2>1
<1> HIDE DEF ss, start
<1>8. /\ FlattenSeq(ss) \in Seq(WordPairs) /\ Len(FlattenSeq(ss)) = start[9]
      /\ \A j \in 1..8 : \A k \in 1..Len(ss[j]) :
           start[j] + k \in 1..start[9] /\ FlattenSeq(ss)[start[j] + k] = ss[j][k]
  <2>1. start \in [1..(Len(ss) + 1) -> Nat] /\ ss \in Seq(Seq(WordPairs)) /\ start[1] = 0
    BY <1>2, <1>3, <1>4
  <2>2. \A j \in 1..Len(ss) : start[j + 1] = start[j] + Len(ss[j])
    BY <1>3, <1>5
  <2>3. /\ FlattenSeq(ss) \in Seq(WordPairs) /\ Len(FlattenSeq(ss)) = start[Len(ss) + 1]
        /\ \A j \in 1..Len(ss) : \A k \in 1..Len(ss[j]) :
             /\ start[j] + k \in 1..Len(FlattenSeq(ss))
             /\ FlattenSeq(ss)[start[j] + k] = ss[j][k]
    BY <2>1, <2>2, FlattenEnds, ZenonT(90)
  <2> QED BY <1>3, <2>3
<1>9. ASSUME NEW b \in mask, NEW k \in 1..(IF b = 6 THEN 2 ELSE 1)
      PROVE  /\ WordsBefore(mask, b) + k \in 1..WordsPerHop(mask)
             /\ HopData(mask, h)[WordsBefore(mask, b) + k] = HopWords(b, h)[k]
  <2> DEFINE j == b + 1
  <2>1. Len(HopWords(b, h)) = IF b = 6 THEN 2 ELSE 1
    BY <1>7, HopWordsOf
  <2>2. j \in 1..8 /\ start[j] = WordsBefore(mask, b) /\ ss[j] = HopWords(b, h)
    BY <1>7
  <2> HIDE DEF j
  <2>3. k \in 1..Len(ss[j])
    BY <2>1, <2>2
  <2>4. start[j] + k \in 1..start[9] /\ FlattenSeq(ss)[start[j] + k] = ss[j][k]
    BY <1>8, <2>2, <2>3
  <2> QED BY <1>4, <1>6, <2>2, <2>4
<1> QED BY <1>4, <1>6, <1>8, <1>9

\* The hops stand behind each other, each as long as the INT header says.
LEMMA StackLaid ==
  ASSUME NEW r, OnWire(r)
  PROVE  LET l == WordsPerHop(r.mask) IN
         /\ Stack(r) \in Seq(WordPairs) /\ Len(Stack(r)) = Len(r.hops) * l
         /\ \A i \in 1..Len(r.hops) : \A k \in 1..l :
              /\ (i - 1) * l + k \in 1..Len(r.hops) * l
              /\ Stack(r)[(i - 1) * l + k] = HopData(r.mask, r.hops[i])[k]
<1> DEFINE n == Len(r.hops)
           l == WordsPerHop(r.mask)
           ss == [i \in DOMAIN r.hops |-> HopData(r.mask, r.hops[i])]
           start == [i \in 1..n + 1 |-> (i - 1) * l]
<1>1. /\ n \in Nat /\ DOMAIN r.hops = 1..n /\ r.mask \in Masks
      /\ \A i \in 1..n : r.hops[i] \in HopValues
  BY LenProperties, ElementOfSeq DEF OnWire
<1>2. l \in Nat
  <2>1. l \in 0..9
    BY <1>1, WordsCounted, Zenon
  <2> QED BY <2>1
<1>3. ASSUME NEW i \in 1..n
      PROVE ss[i] = HopData(r.mask, r.hops[i]) /\ ss[i] \in Seq(WordPairs) /\ Len(ss[i]) = l
  <2>1. ss[i] = HopData(r.mask, r.hops[i])
    BY <1>1
  <2> DEFINE h == r.hops[i]  d == HopData(r.mask, h)
  <2>2. h \in HopValues /\ r.mask \in Masks /\ ss[i] = d
    BY <1>1, <2>1
  <2> HIDE DEF ss, n, h
  <2>3. d \in Seq(WordPairs) /\ Len(d) = l
    BY <2>2, HopDataLaid, Zenon
  <2> QED BY <2>2, <2>3, Zenon DEF h
<1>4. ss \in Seq(Seq(WordPairs)) /\ Len(ss) = n
  <2>1. ss = [i \in 1..n |-> ss[i]]
    BY <1>1
  <2> HIDE DEF ss, n
  <2>2. [i \in 1..n |-> ss[i]] \in Seq(Seq(WordPairs))
    BY <1>1, <1>3, IsASeq
  <2>3. ss \in Seq(Seq(WordPairs)) /\ DOMAIN ss = 1..n
    BY <2>1, <2>2
  <2> QED BY <1>1, <2>3, LenProperties
<1>5. /\ start \in [1..n + 1 -> Nat] /\ start[1] = 0 /\ start[n + 1] = n * l
      /\ \A i \in 1..n : start[i] = (i - 1) * l /\ start[i + 1] = start[i] + l
  <2> HIDE DEF n, l
  <2>1. ASSUME NEW i \in 1..n + 1 PROVE (i - 1) * l \in Nat
    BY <1>1, <1>2
  <2>2. ASSUME NEW i \in 1..n
        PROVE  i + 1 \in 1..n + 1 /\ i \in 1..n + 1 /\ ((i + 1) - 1) * l = (i - 1) * l + l
    BY <1>1, <1>2
  <2>3. ((n + 1) - 1) * l = n * l /\ (1 - 1) * l = 0
    BY <1>1, <1>2
  <2> QED BY <1>1, <2>1, <2>2, <2>3
<1>6. Stack(r) = FlattenSeq(ss)
  BY DEF Stack
<1> HIDE DEF ss, start, n, l
<1>7. /\ FlattenSeq(ss) \in Seq(WordPairs) /\ Len(FlattenSeq(ss)) = start[n + 1]
      /\ \A i \in 1..n : \A k \in 1..l :
           start[i] + k \in 1..start[n + 1] /\ FlattenSeq(ss)[start[i] + k] = ss[i][k]
  <2>1. start \in [1..(Len(ss) + 1) -> Nat] /\ ss \in Seq(Seq(WordPairs)) /\ start[1] = 0
    BY <1>4, <1>5
  <2>2. \A i \in 1..Len(ss) : start[i + 1] = start[i] + Len(ss[i])
    BY <1>3, <1>4, <1>5
  <2>3. /\ FlattenSeq(ss) \in Seq(WordPairs) /\ Len(FlattenSeq(ss)) = start[Len(ss) + 1]
        /\ \A j \in 1..Len(ss) : \A k \in 1..Len(ss[j]) :
             /\ start[j] + k \in 1..Len(FlattenSeq(ss))
             /\ FlattenSeq(ss)[start[j] + k] = ss[j][k]
    BY <2>1, <2>2, FlattenEnds, ZenonT(90)
  <2>4. FlattenSeq(ss) \in Seq(WordPairs) /\ Len(FlattenSeq(ss)) = start[n + 1]
    BY <1>4, <2>3
  <2>5. ASSUME NEW i \in 1..n, NEW k \in 1..l
        PROVE  /\ start[i] + k \in 1..start[n + 1]
               /\ FlattenSeq(ss)[start[i] + k] = ss[i][k]
    <3>1. i \in 1..Len(ss) /\ k \in 1..Len(ss[i])
      BY <1>3, <1>4
    <3> QED BY <2>3, <2>4, <3>1, Zenon
  <2> QED BY <2>4, <2>5, Zenon
<1>8. ASSUME NEW i \in 1..n, NEW k \in 1..l
      PROVE  /\ (i - 1) * l + k \in 1..n * l
             /\ Stack(r)[(i - 1) * l + k] = HopData(r.mask, r.hops[i])[k]
  <2>1. start[i] = (i - 1) * l
    BY <1>5
  <2> QED BY <1>3, <1>5, <1>6, <1>7, <2>1
<1> QED BY <1>5, <1>6, <1>7, <1>8 DEF n, l

\* The INT headers and the INT data stand behind the transport header.
LEMMA WireLaid ==
  ASSUME NEW r, OnWire(r)
  PROVE  LET o == TransportWords(r.protocol)
             w == Wire(r)
             st == Stack(r)
             op == r.options IN
         /\ o \in {2, 5}
         /\ w[o + 1] = [length |-> 3 + Len(st)] /\ w[o + 2] = [hop_ml |-> r.hop_ml]
         /\ w[o + 3] = [ins_map |-> r.mask]
         /\ Len(st) \in Nat /\ Len(op) \in Nat /\ Len(w) = o + 3 + Len(st) + Len(op)
         /\ \A m \in 1..Len(st) : w[o + 3 + m] = st[m]
         /\ \A m \in 1..(Len(st) + Len(op)) : w[o + 3 + m] \in WordPairs
         /\ \E E : w \in Seq(E)
<1> DEFINE o == TransportWords(r.protocol)
           st == Stack(r)
           h1 == [length |-> 3 + Len(st)]
           h2 == [hop_ml |-> r.hop_ml]
           h3 == [ins_map |-> r.mask]
           E == WordPairs \cup {h1, h2, h3}
           t == [n \in 1..o |-> Word(0)]
           hh == <<h1, h2, h3>>
           op == r.options
           w == ((t \o hh) \o st) \o op
<1>1. o \in {2, 5} /\ o \in Nat
  BY DEF TransportWords
<1>2. Wire(r) = w
  BY DEF Wire
<1>0. st \in Seq(WordPairs) /\ op \in Seq(WordPairs)
  BY StackLaid DEF OnWire
<1>3. st \in Seq(E) /\ op \in Seq(E)
  <2> HIDE DEF st, op
  <2>2. WordPairs \subseteq E
    OBVIOUS
  <2> HIDE DEF E
  <2> QED BY <1>0, <2>2, SeqMonotonic
<1>4. t \in Seq(E) /\ Len(t) = o
  <2>1. Word(0) \in E
    BY WordOf
  <2> DEFINE z == Word(0)
  <2> HIDE DEF o, E, z
  <2>2. [n \in 1..o |-> z] \in Seq(E) /\ Len([n \in 1..o |-> z]) = o
    BY <1>1, <2>1 DEF z
  <2> QED BY <2>2 DEF z
<1>5. hh \in Seq(E) /\ Len(hh) = 3 /\ hh[1] = h1 /\ hh[2] = h2 /\ hh[3] = h3
  <2>1. h1 \in E /\ h2 \in E /\ h3 \in E
    OBVIOUS
  <2> HIDE DEF h1, h2, h3, E
  <2> QED BY <2>1
<1> DEFINE a == t \o hh
           b == a \o st
<1> HIDE DEF o, st, E, t, op, hh, h1, h2, h3
<1>6. /\ a \in Seq(E) /\ Len(a) = o + 3
      /\ \A i \in 1..(o + 3) : a[i] = IF i <= o THEN t[i] ELSE hh[i - o]
  <2>1. /\ a \in Seq(E) /\ Len(a) = Len(t) + Len(hh)
        /\ \A i \in 1..Len(t) + Len(hh) : a[i] = IF i <= Len(t) THEN t[i] ELSE hh[i - Len(t)]
    BY <1>4, <1>5, ConcatProperties, Zenon
  <2> HIDE DEF a
  <2> QED BY <1>4, <1>5, <2>1
<1> HIDE DEF a
<1>7. /\ b \in Seq(E) /\ Len(b) = o + 3 + Len(st)
      /\ \A i \in 1..(o + 3 + Len(st)) : b[i] = IF i <= o + 3 THEN a[i] ELSE st[i - (o + 3)]
  <2>1. /\ b \in Seq(E) /\ Len(b) = Len(a) + Len(st)
        /\ \A i \in 1..Len(a) + Len(st) : b[i] = IF i <= Len(a) THEN a[i] ELSE st[i - Len(a)]
    BY <1>3, <1>6, ConcatProperties, Zenon
  <2> HIDE DEF b
  <2> QED BY <1>6, <2>1
<1>8. w = b \o op
  BY DEF a
<1> HIDE DEF b, w
<1>9. /\ w \in Seq(E) /\ Len(w) = o + 3 + Len(st) + Len(op)
      /\ \A i \in 1..(o + 3 + Len(st) + Len(op)) :
           w[i] = IF i <= o + 3 + Len(st) THEN b[i] ELSE op[i - (o + 3 + Len(st))]
  <2>1. /\ w \in Seq(E) /\ Len(w) = Len(b) + Len(op)
        /\ \A i \in 1..Len(b) + Len(op) : w[i] = IF i <= Len(b) THEN b[i] ELSE op[i - Len(b)]
    BY <1>3, <1>7, <1>8, ConcatProperties, Zenon
  <2> QED BY <1>7, <2>1
<1>10. Len(st) \in Nat /\ Len(op) \in Nat
  BY <1>3, LenProperties
<1>11. w[o + 1] = h1 /\ w[o + 2] = h2 /\ w[o + 3] = h3
  <2>1. ASSUME NEW j \in {1, 2, 3} PROVE w[o + j] = hh[j]
    <3>1. o + j \in 1..(o + 3) /\ ~(o + j <= o) /\ (o + j) - o = j
      BY <1>1
    <3>2. o + j \in 1..(o + 3 + Len(st)) /\ o + j \in 1..(o + 3 + Len(st) + Len(op))
      BY <1>1, <1>10
    <3> DEFINE k == o + j
    <3> HIDE DEF k
    <3>3. w[k] = b[k] /\ b[k] = a[k] /\ a[k] = hh[k - o]
      BY <1>1, <1>6, <1>7, <1>9, <1>10, <3>1, <3>2 DEF k
    <3> QED BY <3>1, <3>3 DEF k
  <2> QED BY <1>5, <2>1
<1>12. ASSUME NEW m \in 1..Len(st) PROVE w[o + 3 + m] = st[m]
  <2> DEFINE k == o + 3 + m
  <2>1. /\ k \in 1..(o + 3 + Len(st)) /\ k \in 1..(o + 3 + Len(st) + Len(op))
        /\ ~(k <= o + 3) /\ k - (o + 3) = m /\ k <= o + 3 + Len(st)
    BY <1>1, <1>10
  <2> HIDE DEF k
  <2>2. w[k] = b[k] /\ b[k] = st[m]
    BY <1>7, <1>9, <2>1
  <2> QED BY <2>2 DEF k
<1>13. ASSUME NEW m \in 1..(Len(st) + Len(op)) PROVE w[o + 3 + m] \in WordPairs
  <2>1. CASE m \in 1..Len(st)
    BY <1>0, <1>12, <2>1, ElementOfSeq
  <2>2. CASE m \notin 1..Len(st)
    <3> DEFINE k == o + 3 + m  j == k - (o + 3 + Len(st))
    <3>1. /\ k \in 1..(o + 3 + Len(st) + Len(op)) /\ ~(k <= o + 3 + Len(st)) /\ j \in 1..Len(op)
      BY <1>1, <1>10, <2>2
    <3> HIDE DEF k, j
    <3>2. w[k] = op[j]
      BY <1>9, <3>1 DEF j
    <3> QED BY <1>0, <3>1, <3>2, ElementOfSeq DEF k
  <2> QED BY <2>1, <2>2
<1> QED BY <1>1, <1>2, <1>9, <1>10, <1>11, <1>12, <1>13 DEF o, st, op, h1, h2, h3
=============================================================================
