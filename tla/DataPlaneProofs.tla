-------------------------- MODULE DataPlaneProofs --------------------------
(***************************************************************************)
(* Proofs about the data plane, for any switches, cables and tables that   *)
(* TablesAssumption allows, any number of packets and queues of any depth. *)
(*                                                                         *)
(* The first part is about each packet.  The invariant FrameInv puts it in *)
(* a set that says what it may look like where it is: before ingress       *)
(* (Arrivals), between the pipelines (Waiting) and at a host (Deliveries). *)
(* The lemmas follow the pipelines: what int_source, a hop, a flag,        *)
(* int_sink and make_report make of a packet of one set is a packet of     *)
(* another.                                                                *)
(*                                                                         *)
(* The second part is about how many packets, clones and reports of a      *)
(* packet there are, where and in which order: the network as one set of   *)
(* queues (Queues), one per place where packets wait, from which an action *)
(* takes the head of one and to which it gives at most two.  The invariant *)
(* CopyInv says that no packet and no copy of it is at two places          *)
(* (Distinct), that there is a copy of a packet exactly if it is tracked   *)
(* and its sink handled it (LifeOK), and that a packet that met no switch  *)
(* yet is where its host is connected (PlaceOK).  The invariant OrderInv   *)
(* says that the reports of one switch are on one route (RouteOK), the     *)
(* lower numbers further on (InOrder), and that each number the switch     *)
(* gave out is in one of them (Numbered).                                  *)
(***************************************************************************)
EXTENDS DataPlane, SharedLemmas, FiniteSetTheorems, FunctionTheorems


------------------------------------------------------------------------------
(* The packets of the network *)

Hops == [switch : Switches, in : Ports, out : Ports, bits : {Instructed}]
Steps == [switch : Switches, in : Ports, out : Ports]
StepOf(hop) == [switch |-> hop.switch, in |-> hop.in, out |-> hop.out]

\* INT headers, reports and frames with every field in its width.
Tels ==
  [valid : BOOLEAN, saved : UInt6, words : UInt8, hml : UInt5, left : UInt8,
   e : BOOLEAN, m : BOOLEAN, hops : Seq(Hops)]

Reports ==
  [valid : {TRUE}, switch : Switches, seq : Nat, tel : Tels, path : Seq(Steps)]

AllFrames ==
  [id : Nat, src : Hosts, dst : Hosts, l4 : {"udp", "tcp", "other"}, hl : UInt6,
   len : UInt16, ulen : UInt16, dscp : UInt6,
   tel : Tels, report : {NoReport} \cup Reports, path : Seq(Steps)]

(* A stack of INT data, and the shim and header before it. *)
StackOK(t) ==
  /\ t.valid = TRUE /\ t.hml = InsCnt
  /\ Len(t.hops) \in 0..MaxHop
  /\ t.left = MaxHop - Len(t.hops)
  /\ t.words = IntWords + InsCnt * Len(t.hops)

(* The frames that carry packet f.id of the sequence of packets S. *)
DataFrames(S) ==
  {f \in AllFrames :
     /\ f.id \in 1..Len(S) /\ f.report = NoReport
     /\ f.src = S[f.id].src /\ f.dst = S[f.id].dst /\ f.l4 = S[f.id].l4 /\ f.hl = S[f.id].hl}

(* ... as it was sent; *)
PlainFrames(S) ==
  {f \in DataFrames(S) :
     /\ f.tel = NoInt
     /\ f.len = S[f.id].len /\ f.ulen = S[f.id].ulen /\ f.dscp = S[f.id].dscp}

(* ... with INT headers, of a tracked flow; *)
CarryingFrames(S) ==
  {f \in DataFrames(S) :
     /\ StackOK(f.tel) /\ HasL4(f)
     /\ f.dscp = IntDscp /\ f.tel.saved = S[f.id].dscp
     /\ f.len = S[f.id].len + 4 * f.tel.words
     /\ f.ulen = S[f.id].ulen + (IF f.l4 = "udp" THEN 4 * f.tel.words ELSE 0)
     /\ \E s \in Switches : <<f.src, f.dst>> \in Tables[s].flows
     /\ f.tel.hops # <<>> => f.len <= Tables[f.tel.hops[1].switch].mtu}

(* ... and with the hops of its route. *)
IntFrames(S) == {f \in CarryingFrames(S) : Tells(f.tel, f.path)}

(* The reports about packets of S. *)
ReportFrames(S) ==
  {f \in AllFrames :
     /\ f.id \in 1..Len(S) /\ f.dst = Collector /\ f.l4 = "udp" /\ f.tel = NoInt
     /\ f.report \in Reports /\ StackOK(f.report.tel) /\ Tells(f.report.tel, f.report.path)}

GoodFrames(S) == PlainFrames(S) \cup IntFrames(S) \cup ReportFrames(S)

(* What reaches switch s: nothing but new packets at its source ports. *)
Arrivals(s, S) ==
  {a \in [frame : GoodFrames(S), in : Ports] :
     a.in \in Tables[s].source => a.frame \in PlainFrames(S) /\ a.frame.path = <<>>}

(* What ingress of s put into the queue of port p: clones for the mirror, and *)
(* packets for the port of their destination, with INT headers to be removed  *)
(* at a sink port.                                                            *)
Waiting(s, p, S) ==
  {q \in [frame : GoodFrames(S), in : Ports, sink : BOOLEAN, clone : BOOLEAN] :
     /\ q.clone = TRUE => /\ q.frame \in IntFrames(S) /\ q.sink = FALSE
                          /\ p = Tables[s].mirror /\ Tables[s].sink # {}
     /\ q.clone = FALSE => p = Tables[s].forward[q.frame.dst]
     /\ q.sink = TRUE => q.frame \in IntFrames(S)
     /\ q.clone = FALSE /\ q.sink = FALSE /\ p \in Tables[s].sink
          => q.frame \in PlainFrames(S) \cup ReportFrames(S)}

(* What host h receives. *)
Deliveries(h, S) == {f \in PlainFrames(S) \cup ReportFrames(S) : f.dst = h}

(* The inductive invariant. *)
FrameInv ==
  /\ sent \in Seq(Sendable)
  /\ seq \in [Switches -> Nat]
  /\ inbuf = [s \in Switches |-> inbuf[s]]
  /\ \A s \in Switches : inbuf[s] \in Seq(Arrivals(s, sent))
  /\ outq = [s \in Switches |-> [p \in Ports |-> outq[s][p]]]
  /\ \A s \in Switches, p \in Ports :
       outq[s][p] \in Seq(Waiting(s, p, sent)) /\ Len(outq[s][p]) <= Depth
  /\ received = [h \in Hosts |-> received[h]]
  /\ \A h \in Hosts : received[h] \in Seq(Deliveries(h, sent))
  /\ \A q \in dropped : q.frame \in GoodFrames(sent)

------------------------------------------------------------------------------
(* The constants *)

LEMMA FieldSizes ==
  /\ \A x : x \in UInt5 <=> x \in Nat /\ x <= 31
  /\ \A x : x \in UInt6 <=> x \in Nat /\ x <= 63
  /\ \A x : x \in UInt8 <=> x \in Nat /\ x <= 255
  /\ \A x : x \in UInt16 <=> x \in Nat /\ x <= 65535
<1>1. \A n \in Nat : \A x : x \in UpTo(n) <=> x \in Nat /\ x <= n
  BY DEF UpTo
<1> QED BY <1>1, SMT DEF UInt5, UInt6, UInt8, UInt16

LEMMA Numbers ==
  /\ MaxHop \in Nat /\ MaxHop > 0 /\ MaxHop <= 255 /\ InsCnt \in Nat /\ InsCnt <= 31
  /\ \A n \in 0..MaxHop : InsCnt * n \in Nat /\ InsCnt * n <= 64
  /\ \A n \in Nat : InsCnt * (n + 1) = InsCnt * n + InsCnt
<1>1. MaxHop \in Nat /\ MaxHop > 0 /\ MaxHop <= 255 /\ InsCnt \in Nat /\ InsCnt <= 31
  <2>1. MaxHop \in UInt8 \ {0} /\ InsCnt \in UInt5
    BY DataPlaneAssumption DEF DataPlaneAssumption
  <2> QED BY <2>1, FieldSizes
<1>2. MaxHop * InsCnt <= 64
  BY InstructionsAssumption DEF InstructionsAssumption, VarbitWords
<1>3. \A m, k \in Nat : \A n \in 0..m : k * n \in Nat /\ k * n <= m * k
  OBVIOUS
<1>4. \A k, n \in Nat : k * (n + 1) = k * n + k
  OBVIOUS
<1>5. MaxHop \in Nat /\ InsCnt \in Nat
  BY <1>1
<1>6. ASSUME NEW n \in 0..MaxHop PROVE InsCnt * n \in Nat /\ InsCnt * n <= 64
  <2>1. InsCnt * n \in Nat /\ InsCnt * n <= MaxHop * InsCnt
    BY <1>3, <1>5
  <2> QED BY <1>2, <1>5, <2>1
<1> QED BY <1>1, <1>4, <1>5, <1>6

LEMMA Packets ==
  ASSUME NEW p \in Sendable
  PROVE  /\ p.src \in Hosts /\ p.dst \in Hosts
         /\ p.l4 \in {"udp", "tcp", "other"}
         /\ p.len \in Nat /\ p.ulen \in Nat /\ p.ulen <= p.len /\ p.hl \in UInt6
         /\ p.len + 268 <= 65535
         /\ p.dscp \in UInt6
<1>1. /\ p.src \in Hosts /\ p.dst \in Hosts
      /\ p.l4 \in {"udp", "tcp", "other"} /\ p.hl \in UInt6 /\ p.dscp \in UInt6
  BY DataPlaneAssumption DEF DataPlaneAssumption
<1>2. p.len \in Nat /\ p.ulen \in 0..p.len /\ p.len + 4 * (3 + 64) <= 65535
  BY DataPlaneAssumption DEF DataPlaneAssumption, IntWords, VarbitWords
<1>3. p.ulen \in Nat /\ p.ulen <= p.len
  BY <1>2
<1> QED BY <1>1, <1>2, <1>3

------------------------------------------------------------------------------
(* What the steps of the pipelines make of a frame *)

LEMMA SentPacket ==
  ASSUME NEW S, NEW n \in Nat, S \in Seq(Sendable), n \in 1..Len(S)
  PROVE  S[n] \in Sendable
OBVIOUS

LEMMA ConstantTels == NoInt \in Tels
<1>1. 0 \in UInt5 /\ 0 \in UInt6 /\ 0 \in UInt8
  BY FieldSizes
<1>2. <<>> \in Seq(Hops)
  OBVIOUS
<1> QED BY <1>1, <1>2 DEF NoInt, Tels

LEMMA FramesArePlain ==
  ASSUME NEW S, S \in Seq(Sendable), NEW n \in 1..Len(S)
  PROVE  Frame(n, S[n]) \in PlainFrames(S) /\ Frame(n, S[n]).path = <<>>
<1> DEFINE p == S[n]  f == Frame(n, p)
<1>1. p \in Sendable
  OBVIOUS
<1>2. /\ p.src \in Hosts /\ p.dst \in Hosts /\ p.l4 \in {"udp", "tcp", "other"}
      /\ p.hl \in UInt6 /\ p.len \in UInt16 /\ p.ulen \in UInt16 /\ p.dscp \in UInt6
  <2> HIDE DEF p
  <2>1. /\ p.src \in Hosts /\ p.dst \in Hosts /\ p.l4 \in {"udp", "tcp", "other"}
        /\ p.hl \in UInt6 /\ p.dscp \in UInt6
    BY <1>1, Packets
  <2>2. p.len \in Nat /\ p.ulen \in Nat /\ p.ulen <= p.len /\ p.len + 268 <= 65535
    BY <1>1, Packets
  <2>3. p.len \in UInt16 /\ p.ulen \in UInt16
    BY <2>2, FieldSizes
  <2> QED BY <2>1, <2>3
<1>3. NoInt \in Tels
  BY ConstantTels
<1>4. n \in Nat
  OBVIOUS
<1>5. <<>> \in Seq(Steps)
  OBVIOUS
<1>6. f \in AllFrames
  BY <1>2, <1>3, <1>4, <1>5 DEF Frame, AllFrames
<1> QED BY <1>6 DEF PlainFrames, DataFrames, Frame

LEMMA PathGrows ==
  ASSUME NEW S, NEW f \in PlainFrames(S) \cup CarryingFrames(S) \cup ReportFrames(S),
         NEW s \in Switches, NEW in \in Ports, NEW out \in Ports
  PROVE  LET g == Passing(s, in, out, f) IN
         /\ f \in PlainFrames(S) => g \in PlainFrames(S)
         /\ f \in CarryingFrames(S) => g \in CarryingFrames(S)
         /\ f \in ReportFrames(S) => g \in ReportFrames(S)
         /\ g.dst = f.dst /\ g.tel = f.tel /\ g.path = Append(f.path, StepOf(Hop(s, in, out)))
         /\ g.l4 = f.l4
<1> DEFINE x == StepOf(Hop(s, in, out))  g == [f EXCEPT !.path = Append(@, x)]
<1>0. x \in Steps /\ Passing(s, in, out, f) = g
  BY Zenon DEF Steps, StepOf, Hop, Passing
<1> HIDE DEF x
<1>1. f \in AllFrames
  BY DEF PlainFrames, CarryingFrames, DataFrames, ReportFrames
<1>2. g \in AllFrames
  <2>1. f.path \in Seq(Steps)
    BY <1>1 DEF AllFrames
  <2>2. Append(f.path, x) \in Seq(Steps)
    BY <1>0, <2>1
  <2> QED BY <1>1, <2>2, SMTT(30) DEF AllFrames
<1>3. /\ g.id = f.id /\ g.src = f.src /\ g.dst = f.dst /\ g.l4 = f.l4 /\ g.hl = f.hl
      /\ g.len = f.len /\ g.ulen = f.ulen /\ g.dscp = f.dscp /\ g.tel = f.tel
      /\ g.report = f.report /\ g.path = Append(f.path, x)
  BY <1>1 DEF AllFrames
<1> HIDE DEF g
<1>4. f \in DataFrames(S) => g \in DataFrames(S)
  BY <1>2, <1>3 DEF DataFrames
<1>5. f \in PlainFrames(S) => g \in PlainFrames(S)
  BY <1>3, <1>4 DEF PlainFrames
<1>6. f \in CarryingFrames(S) => g \in CarryingFrames(S)
  BY <1>3, <1>4 DEF CarryingFrames, HasL4
<1>7. f \in ReportFrames(S) => g \in ReportFrames(S)
  BY <1>2, <1>3 DEF ReportFrames
<1> QED BY <1>0, <1>3, <1>5, <1>6, <1>7, Zenon DEF x

\* Lengths that fit their field are added without a carry.
LEMMA Fits ==
  /\ \A n \in Nat : n <= 65535 => n % 65536 = n
  /\ \A n \in Nat : n <= 255 => n % 256 = n
BY SMT

LEMMA Numerals ==
  /\ IntDscp \in UInt6 /\ IntWords = 3
  /\ \A n \in 0..MaxHop : /\ MaxHop - n \in UInt8
                         /\ IntWords + InsCnt * n \in UInt8
                         /\ IntWords + InsCnt * n <= 67
<1>1. IntDscp \in UInt6
  BY FieldSizes, SMT DEF IntDscp
<1>2. ASSUME NEW n \in 0..MaxHop
      PROVE  /\ MaxHop - n \in UInt8
             /\ 3 + InsCnt * n \in UInt8 /\ 3 + InsCnt * n <= 67
  <2>1. MaxHop - n \in Nat /\ MaxHop - n <= 255
    BY Numbers
  <2>2. 3 + InsCnt * n \in Nat /\ 3 + InsCnt * n <= 67
    BY Numbers
  <2> QED BY <2>1, <2>2, FieldSizes
<1> QED BY <1>1, <1>2 DEF IntWords

LEMMA PacketOf ==
  ASSUME NEW S, S \in Seq(Sendable), NEW f \in DataFrames(S)
  PROVE  /\ f \in AllFrames /\ S[f.id] \in Sendable
         /\ f.l4 = S[f.id].l4 /\ S[f.id].dscp \in UInt6
         /\ S[f.id].len \in Nat /\ S[f.id].ulen \in Nat
         /\ S[f.id].len + 268 <= 65535 /\ S[f.id].ulen + 268 <= 65535
<1>1. f \in AllFrames /\ f.id \in 1..Len(S) /\ f.l4 = S[f.id].l4
  BY DEF DataFrames
<1>2. S[f.id] \in Sendable
  BY <1>1
<1> DEFINE p == S[f.id]
<1>3. p \in Sendable
  BY <1>2
<1> HIDE DEF p
<1>4. p.len \in Nat /\ p.ulen \in Nat /\ p.ulen <= p.len /\ p.len + 268 <= 65535 /\ p.dscp \in UInt6
  BY <1>3, Packets
<1>5. p.len + 268 <= 65535 /\ p.ulen + 268 <= 65535
  BY <1>4
<1> QED BY <1>1, <1>2, <1>4, <1>5 DEF p

LEMMA Roomy ==
  ASSUME NEW n \in Nat, n + 268 <= 65535, NEW k \in Nat, k <= 268
  PROVE  n + k \in UInt16
BY FieldSizes, SMT

(* A frame whose lengths, DSCP and INT headers are replaced. *)
Rewritten(f, len, ulen, dscp, tel) ==
  [id |-> f.id, src |-> f.src, dst |-> f.dst, l4 |-> f.l4, hl |-> f.hl,
   len |-> len, ulen |-> ulen, dscp |-> dscp, tel |-> tel,
   report |-> f.report, path |-> f.path]

LEMMA RewrittenFields ==
  ASSUME NEW f \in AllFrames, NEW len \in UInt16, NEW ulen \in UInt16, NEW dscp \in UInt6,
         NEW tel \in Tels
  PROVE  LET g == Rewritten(f, len, ulen, dscp, tel) IN
         /\ g \in AllFrames
         /\ g.id = f.id /\ g.src = f.src /\ g.dst = f.dst /\ g.l4 = f.l4 /\ g.hl = f.hl
         /\ g.len = len /\ g.ulen = ulen /\ g.dscp = dscp /\ g.tel = tel
         /\ g.report = f.report /\ g.path = f.path
BY SMT DEF AllFrames, Rewritten

LEMMA RewriteOne ==
  ASSUME NEW f \in AllFrames, NEW x
  PROVE  /\ [f EXCEPT !.len = x] = Rewritten(f, x, f.ulen, f.dscp, f.tel)
         /\ [f EXCEPT !.ulen = x] = Rewritten(f, f.len, x, f.dscp, f.tel)
         /\ [f EXCEPT !.dscp = x] = Rewritten(f, f.len, f.ulen, x, f.tel)
         /\ [f EXCEPT !.tel = x] = Rewritten(f, f.len, f.ulen, f.dscp, x)
<1>1. [f EXCEPT !.len = x] = Rewritten(f, x, f.ulen, f.dscp, f.tel)
  BY SMTT(30) DEF AllFrames, Rewritten
<1>2. [f EXCEPT !.ulen = x] = Rewritten(f, f.len, x, f.dscp, f.tel)
  BY SMTT(30) DEF AllFrames, Rewritten
<1>3. [f EXCEPT !.dscp = x] = Rewritten(f, f.len, f.ulen, x, f.tel)
  BY SMTT(30) DEF AllFrames, Rewritten
<1>4. [f EXCEPT !.tel = x] = Rewritten(f, f.len, f.ulen, f.dscp, x)
  BY SMTT(30) DEF AllFrames, Rewritten
<1> QED BY <1>1, <1>2, <1>3, <1>4

LEMMA Lengthened ==
  ASSUME NEW f \in AllFrames, NEW n \in Int,
         f.len + n \in UInt16, f.l4 = "udp" => f.ulen + n \in UInt16
  PROVE  AddLength(f, n) =
           Rewritten(f, f.len + n, IF f.l4 = "udp" THEN f.ulen + n ELSE f.ulen, f.dscp, f.tel)
<1> DEFINE a == (f.len + n) % 65536
           b == IF f.l4 = "udp" THEN (f.ulen + n) % 65536 ELSE f.ulen
           l == f.len + n
           u == IF f.l4 = "udp" THEN f.ulen + n ELSE f.ulen
<1>1. a = l
  BY FieldSizes, Fits, SMT
<1>2. b = u
  BY FieldSizes, Fits, SMT
<1>3. AddLength(f, n) = [f EXCEPT !.len = a, !.ulen = b]
  BY DEF AddLength
<1> HIDE DEF a, b, l, u
<1>4. [f EXCEPT !.len = l, !.ulen = u] = [[f EXCEPT !.len = l] EXCEPT !.ulen = u]
  OBVIOUS
<1>5. [f EXCEPT !.len = l] = Rewritten(f, l, f.ulen, f.dscp, f.tel)
  BY RewriteOne
<1>6. [Rewritten(f, l, f.ulen, f.dscp, f.tel) EXCEPT !.ulen = u] = Rewritten(f, l, u, f.dscp, f.tel)
  BY SMTT(30) DEF Rewritten
<1>7. AddLength(f, n) = Rewritten(f, l, u, f.dscp, f.tel)
  BY <1>1, <1>2, <1>3, <1>4, <1>5, <1>6
<1> QED BY <1>7 DEF l, u

\* int_source: the packet gets an INT header with an empty stack.
LEMMA SourcedCarries ==
  ASSUME NEW S, S \in Seq(Sendable), NEW f \in PlainFrames(S), HasL4(f),
         \E s \in Switches : <<f.src, f.dst>> \in Tables[s].flows
  PROVE  /\ Sourced(f) \in CarryingFrames(S) /\ Sourced(f).path = f.path
         /\ Sourced(f).dst = f.dst
         /\ Sourced(f).tel.hops = <<>> /\ Sourced(f).tel.left = MaxHop /\ Sourced(f).tel.e = FALSE
<1> DEFINE g == Sourced(f)
<1>1. /\ f \in DataFrames(S) /\ f \in AllFrames
      /\ f.len = S[f.id].len /\ f.ulen = S[f.id].ulen /\ f.dscp = S[f.id].dscp
  BY DEF PlainFrames, DataFrames
<1>2. /\ f.len \in Nat /\ f.len + 268 <= 65535 /\ f.ulen \in Nat /\ f.ulen + 268 <= 65535
      /\ f.dscp \in UInt6
  BY <1>1, PacketOf
<1> DEFINE t == [valid |-> TRUE, saved |-> f.dscp, words |-> IntWords, hml |-> InsCnt,
                 left |-> MaxHop, e |-> FALSE, m |-> FALSE, hops |-> <<>>]
           u == IF f.l4 = "udp" THEN f.ulen + 12 ELSE f.ulen
<1>3. g = Rewritten(f, f.len + 12, u, IntDscp, t)
  <2>1. f.len + 12 \in UInt16 /\ f.ulen + 12 \in UInt16
    BY <1>2, Roomy
  <2> DEFINE l == f.len + 12  r == Rewritten(f, l, u, f.dscp, f.tel)
  <2>2. AddLength(f, 12) = r
    BY <2>1, <1>1, Lengthened
  <2>3. g = [AddLength(f, 4 * IntWords) EXCEPT !.dscp = IntDscp, !.tel = t]
    BY DEF Sourced
  <2>4. 4 * IntWords = 12
    BY DEF IntWords
  <2> HIDE DEF l, r, u, t, g
  <2>5. g = [[r EXCEPT !.dscp = IntDscp] EXCEPT !.tel = t]
    BY <2>2, <2>3, <2>4
  <2>6. [r EXCEPT !.dscp = IntDscp] = Rewritten(f, l, u, IntDscp, f.tel)
    BY SMTT(30) DEF r, Rewritten
  <2>7. [Rewritten(f, l, u, IntDscp, f.tel) EXCEPT !.tel = t] = Rewritten(f, l, u, IntDscp, t)
    BY SMTT(30) DEF Rewritten
  <2> QED BY <2>5, <2>6, <2>7 DEF l
<1> HIDE DEF t, g
<1>4. /\ t \in Tels /\ t.saved = f.dscp /\ StackOK(t) /\ t.hops = <<>> /\ t.words = 3
      /\ t.left = MaxHop /\ t.e = FALSE
  <2>1. /\ t.saved = f.dscp /\ t.words = IntWords /\ t.hops = <<>>
        /\ t.valid = TRUE /\ t.hml = InsCnt /\ t.left = MaxHop /\ t.e = FALSE
    BY DEF t
  <2>2. 0 \in 0..MaxHop /\ MaxHop - 0 = MaxHop /\ InsCnt * 0 = 0 /\ IntWords + 0 = 3
    BY Numbers DEF IntWords
  <2>3. Len(t.hops) = 0
    BY <2>1
  <2>4. StackOK(t)
    BY <2>1, <2>2, <2>3 DEF StackOK, IntWords
  <2>5. IntWords \in UInt8 /\ MaxHop \in UInt8 /\ InsCnt \in UInt5 /\ <<>> \in Seq(Hops)
    BY DataPlaneAssumption, FieldSizes DEF DataPlaneAssumption, IntWords
  <2>6. t \in Tels
    BY <2>5, <1>2 DEF t, Tels
  <2> QED BY <2>1, <2>4, <2>6 DEF IntWords
<1>5. u \in UInt16 /\ f.len + 12 \in UInt16 /\ IntDscp \in UInt6
  <2>1. f.len + 12 \in UInt16
    BY <1>2, Roomy
  <2>2. f.ulen + 12 \in UInt16
    BY <1>2, Roomy
  <2>3. f.ulen \in UInt16
    BY <1>1, Zenon DEF AllFrames
  <2> QED BY <2>1, <2>2, <2>3, Numerals DEF u
<1> HIDE DEF u
<1>6. /\ g \in AllFrames
      /\ g.id = f.id /\ g.src = f.src /\ g.dst = f.dst /\ g.l4 = f.l4 /\ g.hl = f.hl
      /\ g.len = f.len + 12 /\ g.ulen = u /\ g.dscp = IntDscp /\ g.tel = t
      /\ g.report = f.report /\ g.path = f.path
  BY <1>1, <1>3, <1>4, <1>5, RewrittenFields
<1>7. g \in DataFrames(S)
  BY <1>1, <1>6 DEF DataFrames
<1>8. g.len = S[g.id].len + 4 * g.tel.words
  BY <1>1, <1>4, <1>6
<1>9. g.ulen = S[g.id].ulen + (IF g.l4 = "udp" THEN 4 * g.tel.words ELSE 0)
  BY <1>1, <1>2, <1>4, <1>6 DEF u
<1>10. g \in CarryingFrames(S)
  BY <1>1, <1>4, <1>6, <1>7, <1>8, <1>9 DEF CarryingFrames, HasL4
<1> QED BY <1>4, <1>6, <1>10 DEF g

------------------------------------------------------------------------------
(* A pushed hop *)

LEMMA PushedHops ==
  ASSUME NEW hop \in Hops, NEW hops \in Seq(Hops)
  PROVE  /\ Pushed(hop, hops) \in Seq(Hops) /\ Len(Pushed(hop, hops)) = Len(hops) + 1
         /\ Pushed(hop, hops)[1] = hop /\ Pushed(hop, hops) # <<>>
         /\ \A i \in 1..Len(hops) : Pushed(hop, hops)[i + 1] = hops[i]
<1> DEFINE h == <<hop>>
<1>1. h \in Seq(Hops) /\ Len(h) = 1 /\ h[1] = hop
  OBVIOUS
<1> HIDE DEF h
<1>2. /\ h \o hops \in Seq(Hops) /\ Len(h \o hops) = Len(h) + Len(hops)
      /\ \A i \in 1..Len(h) + Len(hops) :
           (h \o hops)[i] = IF i <= Len(h) THEN h[i] ELSE hops[i - Len(h)]
  BY <1>1, ConcatProperties, Zenon
<1> DEFINE r == h \o hops
<1>3. r \in Seq(Hops) /\ Len(r) = Len(hops) + 1
  BY <1>1, <1>2, LenProperties
<1>4. \A i \in 1..Len(hops) + 1 : r[i] = IF i <= 1 THEN h[i] ELSE hops[i - 1]
  <2>1. Len(h) + Len(hops) = Len(hops) + 1
    BY <1>1, LenProperties
  <2> HIDE DEF r
  <2> QED BY <1>1, <1>2, <2>1 DEF r
<1> HIDE DEF r
<1>5. r[1] = hop /\ r # <<>>
  BY <1>1, <1>3, <1>4, LenProperties
<1>6. ASSUME NEW i \in 1..Len(hops) PROVE r[i + 1] = hops[i]
  BY <1>4, LenProperties
<1> QED BY <1>3, <1>5, <1>6 DEF r, h, Pushed

(* INT headers whose counts, flags and stack are replaced. *)
TelOf(t, words, left, e, m, hops) ==
  [valid |-> t.valid, saved |-> t.saved, words |-> words, hml |-> t.hml, left |-> left,
   e |-> e, m |-> m, hops |-> hops]

LEMMA TelFields ==
  ASSUME NEW t \in Tels
  PROVE  /\ [t EXCEPT !.e = TRUE] = TelOf(t, t.words, t.left, TRUE, t.m, t.hops)
         /\ [t EXCEPT !.m = TRUE] = TelOf(t, t.words, t.left, t.e, TRUE, t.hops)
         /\ \A hop : PushHop(t, hop) =
              TelOf(t, (t.words + t.hml) % 256, t.left - 1, t.e, t.m, Pushed(hop, t.hops))
<1>1. ASSUME NEW x PROVE [t EXCEPT !.e = x] = TelOf(t, t.words, t.left, x, t.m, t.hops)
  BY SMTT(30) DEF Tels, TelOf
<1>2. ASSUME NEW x PROVE [t EXCEPT !.m = x] = TelOf(t, t.words, t.left, t.e, x, t.hops)
  BY SMTT(30) DEF Tels, TelOf
<1>3. ASSUME NEW hop
      PROVE  PushHop(t, hop) =
               TelOf(t, (t.words + t.hml) % 256, t.left - 1, t.e, t.m, Pushed(hop, t.hops))
  <2> DEFINE h == Pushed(hop, t.hops)  l == t.left - 1  w == (t.words + t.hml) % 256
  <2>1. PushHop(t, hop) = [t EXCEPT !.hops = h, !.left = l, !.words = w]
    BY DEF PushHop
  <2> HIDE DEF h, l, w
  <2>2. [t EXCEPT !.hops = h, !.left = l, !.words = w]
          = [[[t EXCEPT !.hops = h] EXCEPT !.left = l] EXCEPT !.words = w]
    OBVIOUS
  <2>3. [t EXCEPT !.hops = h] = TelOf(t, t.words, t.left, t.e, t.m, h)
    BY SMTT(30) DEF Tels, TelOf
  <2>4. [TelOf(t, t.words, t.left, t.e, t.m, h) EXCEPT !.left = l]
          = TelOf(t, t.words, l, t.e, t.m, h)
    BY SMTT(30) DEF TelOf
  <2>5. [TelOf(t, t.words, l, t.e, t.m, h) EXCEPT !.words = w] = TelOf(t, w, l, t.e, t.m, h)
    BY SMTT(30) DEF TelOf
  <2>6. PushHop(t, hop) = TelOf(t, w, l, t.e, t.m, h)
    BY <2>1, <2>2, <2>3, <2>4, <2>5
  <2> QED BY <2>6 DEF h, l, w
<1> QED BY <1>1, <1>2, <1>3, Zenon

LEMMA TelOfFields ==
  ASSUME NEW t \in Tels, NEW words \in UInt8, NEW left \in UInt8, NEW e \in BOOLEAN,
         NEW m \in BOOLEAN, NEW hops \in Seq(Hops)
  PROVE  LET u == TelOf(t, words, left, e, m, hops) IN
         /\ u \in Tels /\ u.valid = t.valid /\ u.saved = t.saved /\ u.hml = t.hml
         /\ u.words = words /\ u.left = left /\ u.hops = hops
<1> DEFINE u == TelOf(t, words, left, e, m, hops)
<1>1. /\ t.valid \in BOOLEAN /\ t.saved \in UInt6 /\ t.hml \in UInt5
  BY Zenon DEF Tels
<1>2. u \in Tels
  BY <1>1, Zenon DEF Tels, TelOf
<1>3. /\ u.valid = t.valid /\ u.saved = t.saved /\ u.hml = t.hml
      /\ u.words = words /\ u.left = left /\ u.hops = hops
  BY Zenon DEF TelOf
<1> QED BY <1>2, <1>3

------------------------------------------------------------------------------
(* A frame with INT headers *)

LEMMA CarriesOn ==
  ASSUME NEW S, S \in Seq(Sendable), NEW f \in CarryingFrames(S), NEW t \in Tels, StackOK(t),
         t.saved = f.tel.saved, NEW len, NEW ulen,
         len = S[f.id].len + 4 * t.words,
         ulen = S[f.id].ulen + (IF f.l4 = "udp" THEN 4 * t.words ELSE 0),
         t.hops # <<>> => len <= Tables[t.hops[1].switch].mtu
  PROVE  LET g == Rewritten(f, len, ulen, f.dscp, t) IN
         /\ g \in CarryingFrames(S) /\ g.path = f.path /\ g.dst = f.dst /\ g.tel = t
         /\ len \in UInt16 /\ ulen \in UInt16
<1> DEFINE g == Rewritten(f, len, ulen, f.dscp, t)
<1>1. /\ f \in DataFrames(S) /\ f \in AllFrames /\ HasL4(f)
      /\ f.dscp = IntDscp /\ f.tel.saved = S[f.id].dscp
      /\ \E s \in Switches : <<f.src, f.dst>> \in Tables[s].flows
  BY DEF CarryingFrames, DataFrames
<1>2. /\ S[f.id].len \in Nat /\ S[f.id].ulen \in Nat
      /\ S[f.id].len + 268 <= 65535 /\ S[f.id].ulen + 268 <= 65535
  BY <1>1, PacketOf
<1>3. t.words \in UInt8 /\ t.words <= 67
  BY Numerals DEF StackOK
<1>4. 4 * t.words \in Nat /\ 4 * t.words <= 268
  BY <1>3, FieldSizes
<1>5. len \in UInt16
  BY <1>2, <1>4, Roomy
<1>6. ulen \in UInt16
  <2>1. S[f.id].ulen + 4 * t.words \in UInt16 /\ S[f.id].ulen + 0 \in UInt16
    <3>1. S[f.id].ulen + 4 * t.words \in UInt16
      BY <1>2, <1>4, Roomy
    <3>2. S[f.id].ulen + 0 \in UInt16
      BY <1>2, FieldSizes, SMT
    <3> QED BY <3>1, <3>2
  <2> QED BY <2>1
<1>7. f.dscp \in UInt6
  BY <1>1 DEF AllFrames
<1>8. /\ g \in AllFrames
      /\ g.id = f.id /\ g.src = f.src /\ g.dst = f.dst /\ g.l4 = f.l4 /\ g.hl = f.hl
      /\ g.len = len /\ g.ulen = ulen /\ g.dscp = f.dscp /\ g.tel = t
      /\ g.report = f.report /\ g.path = f.path
  BY <1>1, <1>5, <1>6, <1>7, RewrittenFields
<1> HIDE DEF g
<1>9. g \in DataFrames(S)
  BY <1>1, <1>8 DEF DataFrames
<1>10. g \in CarryingFrames(S)
  BY <1>1, <1>8, <1>9 DEF CarryingFrames, HasL4
<1> QED BY <1>5, <1>6, <1>8, <1>10 DEF g

LEMMA RewriteTel ==
  ASSUME NEW f \in AllFrames
  PROVE  LET t == f.tel IN
         /\ [f EXCEPT !.tel.e = TRUE] =
              Rewritten(f, f.len, f.ulen, f.dscp, TelOf(t, t.words, t.left, TRUE, t.m, t.hops))
         /\ [f EXCEPT !.tel.m = TRUE] =
              Rewritten(f, f.len, f.ulen, f.dscp, TelOf(t, t.words, t.left, t.e, TRUE, t.hops))
<1> DEFINE t == f.tel
<1>1. ASSUME NEW x
      PROVE  [f EXCEPT !.tel.e = x] = Rewritten(f, f.len, f.ulen, f.dscp, [t EXCEPT !.e = x])
  BY SMTT(30) DEF AllFrames, Rewritten
<1>2. ASSUME NEW x
      PROVE  [f EXCEPT !.tel.m = x] = Rewritten(f, f.len, f.ulen, f.dscp, [t EXCEPT !.m = x])
  BY SMTT(30) DEF AllFrames, Rewritten
<1>3. t \in Tels
  BY DEF AllFrames
<1>4. /\ [t EXCEPT !.e = TRUE] = TelOf(t, t.words, t.left, TRUE, t.m, t.hops)
      /\ [t EXCEPT !.m = TRUE] = TelOf(t, t.words, t.left, t.e, TRUE, t.hops)
  BY <1>3, TelFields, Zenon
<1>5. [f EXCEPT !.tel.e = TRUE] = Rewritten(f, f.len, f.ulen, f.dscp, [t EXCEPT !.e = TRUE])
  BY <1>1, Zenon
<1>6. [f EXCEPT !.tel.m = TRUE] = Rewritten(f, f.len, f.ulen, f.dscp, [t EXCEPT !.m = TRUE])
  BY <1>2, Zenon
<1> QED BY <1>4, <1>5, <1>6, Zenon

LEMMA CarryingFields ==
  ASSUME NEW S, NEW f \in CarryingFrames(S)
  PROVE  /\ f \in DataFrames(S) /\ f \in AllFrames /\ f.tel \in Tels /\ StackOK(f.tel)
         /\ f.tel.hops \in Seq(Hops) /\ f.tel.words \in UInt8 /\ f.tel.left \in UInt8
         /\ f.tel.e \in BOOLEAN /\ f.tel.m \in BOOLEAN
         /\ f.len \in UInt16 /\ f.ulen \in UInt16
         /\ f.tel.hml = InsCnt /\ f.dscp \in UInt6
         /\ f.len = S[f.id].len + 4 * f.tel.words
         /\ f.ulen = S[f.id].ulen + (IF f.l4 = "udp" THEN 4 * f.tel.words ELSE 0)
         /\ f.tel.hops # <<>> => f.len <= Tables[f.tel.hops[1].switch].mtu
<1>1. /\ f \in DataFrames(S) /\ f \in AllFrames /\ StackOK(f.tel)
      /\ f.len = S[f.id].len + 4 * f.tel.words
      /\ f.ulen = S[f.id].ulen + (IF f.l4 = "udp" THEN 4 * f.tel.words ELSE 0)
      /\ f.tel.hops # <<>> => f.len <= Tables[f.tel.hops[1].switch].mtu
  BY DEF CarryingFrames, DataFrames
<1>2. f.tel \in Tels /\ f.len \in UInt16 /\ f.ulen \in UInt16 /\ f.dscp \in UInt6
  BY <1>1 DEF AllFrames
<1>3. f.tel.hops \in Seq(Hops) /\ f.tel.words \in UInt8 /\ f.tel.left \in UInt8
  BY <1>2, Zenon DEF Tels
<1>4. f.tel.e \in BOOLEAN /\ f.tel.m \in BOOLEAN
  BY <1>2, Zenon DEF Tels
<1>5. f.tel.hml = InsCnt
  BY <1>1 DEF StackOK
<1> QED BY <1>1, <1>2, <1>3, <1>4, <1>5, Zenon

\* The flags: lengths and stack stay as they are.
LEMMA FlagsCarry ==
  ASSUME NEW S, S \in Seq(Sendable), NEW f \in CarryingFrames(S), NEW e \in BOOLEAN,
         NEW m \in BOOLEAN
  PROVE  LET t == TelOf(f.tel, f.tel.words, f.tel.left, e, m, f.tel.hops)
             g == Rewritten(f, f.len, f.ulen, f.dscp, t)
         IN g \in CarryingFrames(S) /\ g.path = f.path /\ g.dst = f.dst /\ g.tel = t
<1> DEFINE t == TelOf(f.tel, f.tel.words, f.tel.left, e, m, f.tel.hops)
<1>1. /\ t \in Tels /\ t.valid = f.tel.valid /\ t.saved = f.tel.saved /\ t.hml = f.tel.hml
      /\ t.words = f.tel.words /\ t.left = f.tel.left /\ t.hops = f.tel.hops
  BY CarryingFields, TelOfFields
<1> HIDE DEF t
<1>2. StackOK(t)
  BY <1>1, CarryingFields DEF StackOK
<1>3. /\ f.len = S[f.id].len + 4 * t.words
      /\ f.ulen = S[f.id].ulen + (IF f.l4 = "udp" THEN 4 * t.words ELSE 0)
      /\ t.hops # <<>> => f.len <= Tables[t.hops[1].switch].mtu
  BY <1>1, CarryingFields
<1> QED BY <1>1, <1>2, <1>3, CarriesOn DEF t

\* The hop: what the lengths gain is what the shim counts.
LEMMA HopCarries ==
  ASSUME NEW S, S \in Seq(Sendable), NEW f \in CarryingFrames(S), NEW s \in Switches,
         NEW in \in Ports, NEW out \in Ports, ~Exhausted(f.tel), ~TooLong(s, f)
  PROVE  LET g == WithHop(s, in, out, f) IN
         /\ g \in CarryingFrames(S) /\ g.path = f.path /\ g.dst = f.dst
         /\ g.tel = TelOf(f.tel, f.tel.words + InsCnt, f.tel.left - 1, f.tel.e, f.tel.m,
                          Pushed(Hop(s, in, out), f.tel.hops))
<1> DEFINE hop == Hop(s, in, out)  hops == Pushed(hop, f.tel.hops)
           w == f.tel.words + InsCnt  k == Len(f.tel.hops)
           t == TelOf(f.tel, w, f.tel.left - 1, f.tel.e, f.tel.m, hops)
           l == f.len + 4 * InsCnt
           u == IF f.l4 = "udp" THEN f.ulen + 4 * InsCnt ELSE f.ulen
<1>0. /\ f \in DataFrames(S) /\ StackOK(f.tel) /\ f.tel.hops \in Seq(Hops)
      /\ f.tel.words \in UInt8 /\ f.tel.left \in UInt8
  BY CarryingFields
<1>1. hop \in Hops
  BY DEF Hops, Hop
<1> HIDE DEF hop
<1>2. /\ hops \in Seq(Hops) /\ Len(hops) = k + 1 /\ hops[1] = hop
  BY <1>0, <1>1, PushedHops
<1>3. /\ k \in 0..MaxHop - 1 /\ f.tel.left = MaxHop - k /\ f.tel.words = IntWords + InsCnt * k
  <2>1. /\ k \in 0..MaxHop /\ f.tel.left = MaxHop - k /\ f.tel.words = IntWords + InsCnt * k
    BY <1>0 DEF StackOK
  <2>2. f.tel.left # 0
    BY DEF Exhausted
  <2> HIDE DEF k
  <2>3. k # MaxHop
    BY <2>1, <2>2, Numbers
  <2> QED BY <2>1, <2>3, Numbers
<1> HIDE DEF hops, k
<1>4. /\ k + 1 \in 0..MaxHop /\ f.tel.left - 1 = MaxHop - (k + 1)
      /\ w = IntWords + InsCnt * (k + 1)
  <2>1. k + 1 \in 0..MaxHop /\ f.tel.left - 1 = MaxHop - (k + 1)
    BY <1>3, Numbers
  <2>2. InsCnt * (k + 1) = InsCnt * k + InsCnt /\ InsCnt * k \in Nat /\ InsCnt \in Nat
    BY <1>3, Numbers
  <2>3. w = IntWords + InsCnt * (k + 1)
    BY <1>3, <2>2 DEF IntWords
  <2> QED BY <2>1, <2>3
<1>5. w \in UInt8 /\ f.tel.left - 1 \in UInt8 /\ w <= 67
  BY <1>4, Numerals
<1> HIDE DEF w
<1>6. /\ t \in Tels /\ t.valid = f.tel.valid /\ t.saved = f.tel.saved /\ t.hml = f.tel.hml
      /\ t.words = w /\ t.left = f.tel.left - 1 /\ t.hops = hops
  BY <1>2, <1>5, CarryingFields, TelOfFields
<1> HIDE DEF t
<1>7. StackOK(t)
  BY <1>2, <1>4, <1>6, CarryingFields DEF StackOK
<1>8. l = S[f.id].len + 4 * w /\ u = S[f.id].ulen + (IF f.l4 = "udp" THEN 4 * w ELSE 0)
  <2>1. /\ S[f.id].len \in Nat /\ S[f.id].ulen \in Nat /\ f.tel.words \in Nat /\ InsCnt \in Nat
    <3>1. S[f.id].len \in Nat /\ S[f.id].ulen \in Nat
      BY <1>0, PacketOf
    <3>2. f.tel.words \in Nat
      BY <1>0, FieldSizes
    <3> QED BY <3>1, <3>2, Numbers
  <2>2. 4 * w = 4 * f.tel.words + 4 * InsCnt
    BY <2>1 DEF w
  <2>3. w \in Nat
    BY <2>1 DEF w
  <2>4. f.len = S[f.id].len + 4 * f.tel.words
    BY CarryingFields
  <2>5. f.ulen = S[f.id].ulen + (IF f.l4 = "udp" THEN 4 * f.tel.words ELSE 0)
    BY CarryingFields
  <2>6. l = S[f.id].len + 4 * w
    <3> DEFINE a == S[f.id].len  b == 4 * f.tel.words  c == 4 * InsCnt
    <3>1. a \in Nat /\ b \in Nat /\ c \in Nat
      BY <2>1
    <3>2. f.len = a + b /\ 4 * w = b + c /\ l = f.len + c
      BY <2>2, <2>4
    <3> HIDE DEF a, b, c, l
    <3>3. l = a + 4 * w
      BY <3>1, <3>2
    <3> QED BY <3>3 DEF a
  <2>7. CASE f.l4 = "udp"
    <3> DEFINE a == S[f.id].ulen  b == 4 * f.tel.words  c == 4 * InsCnt
    <3>1. a \in Nat /\ b \in Nat /\ c \in Nat
      BY <2>1
    <3>2. f.ulen = a + b /\ 4 * w = b + c /\ u = f.ulen + c
      BY <2>2, <2>5, <2>7
    <3> HIDE DEF a, b, c, u
    <3>3. u = a + 4 * w
      BY <3>1, <3>2
    <3> QED BY <2>6, <2>7, <3>3 DEF a
  <2>8. CASE f.l4 # "udp"
    BY <2>1, <2>5, <2>6, <2>8
  <2> QED BY <2>7, <2>8
<1>9. l \in UInt16 /\ u \in UInt16
  <2>1. /\ S[f.id].len \in Nat /\ S[f.id].ulen \in Nat
        /\ S[f.id].len + 268 <= 65535 /\ S[f.id].ulen + 268 <= 65535
    BY CarryingFields, PacketOf
  <2>2. 4 * w \in Nat /\ 4 * w <= 268
    BY <1>5, FieldSizes
  <2>3. S[f.id].len + 4 * w \in UInt16 /\ S[f.id].ulen + 4 * w \in UInt16
    BY <2>1, <2>2, Roomy
  <2> QED BY <1>8, <2>3, CarryingFields
<1>10. AddLength(f, 4 * f.tel.hml) = Rewritten(f, l, u, f.dscp, f.tel)
  <2>1. 4 * InsCnt \in Int
    BY Numbers
  <2>2. f.l4 = "udp" => f.ulen + 4 * InsCnt \in UInt16
    BY <1>9
  <2>3. f.len + 4 * InsCnt \in UInt16
    BY <1>9
  <2>4. f \in AllFrames
    BY CarryingFields
  <2>5. AddLength(f, 4 * InsCnt) = Rewritten(f, l, u, f.dscp, f.tel)
    BY <2>1, <2>2, <2>3, <2>4, Lengthened
  <2> QED BY <2>5, CarryingFields
<1>11. PushHop(f.tel, hop) = t
  <2>1. (f.tel.words + f.tel.hml) % 256 = w
    <3>1. f.tel.words + f.tel.hml = w
      BY CarryingFields DEF w
    <3>2. w \in Nat /\ w <= 255
      BY <1>5, FieldSizes
    <3> QED BY <3>1, <3>2, Fits
  <2> QED BY <2>1, CarryingFields, TelFields DEF t, hops
<1>12. hops # <<>> => l <= Tables[hops[1].switch].mtu
  <2>1. hop.switch = s
    BY DEF hop, Hop
  <2>2. ~(l % 65536 > Tables[s].mtu)
    BY CarryingFields DEF TooLong
  <2>3. l % 65536 = l /\ l \in Nat
    BY <1>9, FieldSizes, Fits
  <2>4. Tables[s].mtu \in Nat
    BY TablesAssumption DEF TablesAssumption
  <2> HIDE DEF l
  <2>5. l <= Tables[s].mtu
    BY <2>2, <2>3, <2>4
  <2> QED BY <1>2, <2>1, <2>5
<1> HIDE DEF l, u
<1>13. WithHop(s, in, out, f) = Rewritten(f, l, u, f.dscp, t)
  <2> DEFINE r == Rewritten(f, l, u, f.dscp, f.tel)
  <2>1. r.tel = f.tel
    BY DEF Rewritten
  <2>2. [r EXCEPT !.tel = t] = Rewritten(f, l, u, f.dscp, t)
    BY SMTT(30) DEF Rewritten
  <2>3. WithHop(s, in, out, f) = [r EXCEPT !.tel = PushHop(r.tel, hop)]
    BY <1>10 DEF WithHop, hop
  <2> HIDE DEF r
  <2> QED BY <1>11, <2>1, <2>2, <2>3
<1>14. LET g == Rewritten(f, l, u, f.dscp, t) IN
         g \in CarryingFrames(S) /\ g.path = f.path /\ g.dst = f.dst /\ g.tel = t
  BY <1>6, <1>7, <1>8, <1>12, CarriesOn
<1> QED BY <1>13, <1>14 DEF t, w, hops, hop

\* int_transit, for a frame with INT headers: one of three outcomes.
TransitOutcome(t, u, hop) ==
  \/ Exhausted(t) /\ u = TelOf(t, t.words, t.left, TRUE, t.m, t.hops)
  \/ ~Exhausted(t) /\ u = TelOf(t, t.words, t.left, t.e, TRUE, t.hops)
  \/ ~Exhausted(t) /\ u = TelOf(t, t.words + InsCnt, t.left - 1, t.e, t.m, Pushed(hop, t.hops))

LEMMA TransitedCarries ==
  ASSUME NEW S, S \in Seq(Sendable), NEW f \in CarryingFrames(S), NEW s \in Switches,
         NEW in \in Ports, NEW out \in Ports
  PROVE  LET g == Transited(s, in, out, f) IN
         /\ g \in CarryingFrames(S) /\ g.path = f.path /\ g.dst = f.dst
         /\ TransitOutcome(f.tel, g.tel, Hop(s, in, out))
<1> DEFINE g == Transited(s, in, out, f)  t == f.tel
           Q == /\ g \in CarryingFrames(S) /\ g.path = f.path /\ g.dst = f.dst
                /\ TransitOutcome(f.tel, g.tel, Hop(s, in, out))
<1>1. t \in Tels /\ f \in AllFrames /\ t.e \in BOOLEAN /\ t.m \in BOOLEAN
  BY CarryingFields, Zenon
<1>2. ASSUME NEW e \in BOOLEAN, NEW m \in BOOLEAN
      PROVE  LET u == TelOf(t, t.words, t.left, e, m, t.hops)
                 h == Rewritten(f, f.len, f.ulen, f.dscp, u)
             IN h \in CarryingFrames(S) /\ h.path = f.path /\ h.dst = f.dst /\ h.tel = u
  BY FlagsCarry
<1>3. ASSUME Exhausted(t) PROVE Q
  <2> DEFINE u == TelOf(t, t.words, t.left, TRUE, t.m, t.hops)
  <2>1. g = [f EXCEPT !.tel.e = TRUE]
    BY <1>3, Zenon DEF Transited
  <2>2. [f EXCEPT !.tel.e = TRUE] = Rewritten(f, f.len, f.ulen, f.dscp, u)
    BY <1>1, RewriteTel, Zenon
  <2>3. g = Rewritten(f, f.len, f.ulen, f.dscp, u)
    BY <2>1, <2>2, Zenon
  <2> HIDE DEF g
  <2>4. g \in CarryingFrames(S) /\ g.path = f.path /\ g.dst = f.dst /\ g.tel = u
    BY <1>1, <1>2, <2>3, Zenon
  <2> QED BY <1>3, <2>4, Zenon DEF TransitOutcome
<1>4. ASSUME ~Exhausted(t), TooLong(s, f) PROVE Q
  <2> DEFINE u == TelOf(t, t.words, t.left, t.e, TRUE, t.hops)
  <2>1. g = [f EXCEPT !.tel.m = TRUE]
    BY <1>4, Zenon DEF Transited, Marked
  <2>2. [f EXCEPT !.tel.m = TRUE] = Rewritten(f, f.len, f.ulen, f.dscp, u)
    BY <1>1, RewriteTel, Zenon
  <2>3. g = Rewritten(f, f.len, f.ulen, f.dscp, u)
    BY <2>1, <2>2, Zenon
  <2> HIDE DEF g
  <2>4. g \in CarryingFrames(S) /\ g.path = f.path /\ g.dst = f.dst /\ g.tel = u
    BY <1>1, <1>2, <2>3, Zenon
  <2> QED BY <1>4, <2>4, Zenon DEF TransitOutcome
<1>5. ASSUME ~Exhausted(t), ~TooLong(s, f) PROVE Q
  <2>1. g = WithHop(s, in, out, f)
    BY <1>5, Zenon DEF Transited
  <2> HIDE DEF g
  <2>2. /\ g \in CarryingFrames(S) /\ g.path = f.path /\ g.dst = f.dst
        /\ g.tel = TelOf(t, t.words + InsCnt, t.left - 1, t.e, t.m,
                         Pushed(Hop(s, in, out), t.hops))
    BY <1>5, <2>1, HopCarries
  <2> QED BY <1>5, <2>2, Zenon DEF TransitOutcome
<1> HIDE DEF Q
<1>6. Q
  BY <1>3, <1>4, <1>5, Zenon
<1> QED BY <1>6 DEF Q

\* int_sink: what the shim counts is what the lengths lose.
LEMMA SunkIsPlain ==
  ASSUME NEW S, S \in Seq(Sendable), NEW f \in CarryingFrames(S)
  PROVE  Sunk(f) \in PlainFrames(S) /\ Sunk(f).path = f.path /\ Sunk(f).dst = f.dst
<1> DEFINE p == S[f.id]  w == f.tel.words  l == f.len + (-4 * w)
           u == IF f.l4 = "udp" THEN f.ulen + (-4 * w) ELSE f.ulen  d == f.tel.saved
<1>1. /\ f \in DataFrames(S) /\ f \in AllFrames /\ f.tel \in Tels /\ w \in UInt8
      /\ f.len = p.len + 4 * w /\ f.ulen = p.ulen + (IF f.l4 = "udp" THEN 4 * w ELSE 0)
  BY CarryingFields
<1>2. /\ p.len \in Nat /\ p.ulen \in Nat /\ p.len + 268 <= 65535 /\ p.ulen + 268 <= 65535
      /\ p.dscp \in UInt6
  BY <1>1, PacketOf
<1>3. d = p.dscp
  BY DEF CarryingFrames
<1>4. w \in Nat
  BY <1>1, FieldSizes
<1> HIDE DEF p, w
<1>5. l = p.len /\ u = p.ulen
  BY <1>1, <1>2, <1>4
<1>6. l \in UInt16 /\ u \in UInt16
  BY <1>2, <1>5, FieldSizes
<1>7. AddLength(f, -4 * w) = Rewritten(f, l, u, f.dscp, f.tel)
  <2>1. -4 * w \in Int
    BY <1>4
  <2>2. f.len + (-4 * w) \in UInt16 /\ (f.l4 = "udp" => f.ulen + (-4 * w) \in UInt16)
    BY <1>6
  <2> QED BY <1>1, <2>1, <2>2, Lengthened
<1> HIDE DEF l, u, d
<1> DEFINE g == Rewritten(f, l, u, d, NoInt)
<1>8. Sunk(f) = g
  <2> DEFINE r == Rewritten(f, l, u, f.dscp, f.tel)
  <2>1. Sunk(f) = [r EXCEPT !.dscp = d, !.tel = NoInt]
    BY <1>7 DEF Sunk, d, w
  <2> HIDE DEF r, g
  <2>2. Sunk(f) = [[r EXCEPT !.dscp = d] EXCEPT !.tel = NoInt]
    BY <2>1
  <2>3. [r EXCEPT !.dscp = d] = Rewritten(f, l, u, d, f.tel)
    BY SMTT(30) DEF r, Rewritten
  <2>4. [Rewritten(f, l, u, d, f.tel) EXCEPT !.tel = NoInt] = Rewritten(f, l, u, d, NoInt)
    BY SMTT(30) DEF Rewritten
  <2> QED BY <2>2, <2>3, <2>4 DEF g
<1>9. d \in UInt6
  BY <1>2, <1>3
<1>10. /\ g \in AllFrames
       /\ g.id = f.id /\ g.src = f.src /\ g.dst = f.dst /\ g.l4 = f.l4 /\ g.hl = f.hl
       /\ g.len = l /\ g.ulen = u /\ g.dscp = d /\ g.tel = NoInt
       /\ g.report = f.report /\ g.path = f.path
  BY <1>1, <1>6, <1>9, ConstantTels, RewrittenFields
<1> HIDE DEF g
<1>11. g \in DataFrames(S)
  BY <1>1, <1>10 DEF DataFrames
<1>12. g \in PlainFrames(S)
  BY <1>3, <1>5, <1>10, <1>11 DEF PlainFrames, p
<1> QED BY <1>8, <1>10, <1>12

\* make_report: the clone's stack and path, in a frame for the collector.
LEMMA ReportIsReport ==
  ASSUME NEW S, S \in Seq(Sendable), NEW f \in IntFrames(S), NEW s \in Switches, NEW n \in Nat
  PROVE  Report(s, f, n) \in ReportFrames(S) /\ Report(s, f, n).dst = Collector
<1> DEFINE len == ReportLength(f)  g == Report(s, f, n)
           rep == [valid |-> TRUE, switch |-> s, seq |-> n, tel |-> f.tel, path |-> f.path]
           p == [src |-> Tables[s].reportSource, dst |-> Collector, l4 |-> "udp", hl |-> 8,
                 len |-> len, ulen |-> len - 20, dscp |-> 0]
           q == Frame(f.id, p)
<1>1. /\ f \in CarryingFrames(S) /\ Tells(f.tel, f.path)
  BY DEF IntFrames
<1>2. /\ f \in AllFrames /\ f.id \in 1..Len(S) /\ f.hl \in UInt6 /\ f.path \in Seq(Steps)
      /\ f.id \in Nat
  BY <1>1 DEF CarryingFrames, DataFrames, AllFrames
<1>3. f.tel \in Tels /\ StackOK(f.tel)
  BY <1>1, CarryingFields
<1>4. rep \in Reports
  BY <1>2, <1>3 DEF Reports
<1>5. len \in UInt16 /\ len - 20 \in UInt16
  <2>1. f.tel.words \in UInt8
    BY <1>1, CarryingFields
  <2>2. f.tel.words \in Nat /\ f.tel.words <= 255 /\ f.hl \in Nat /\ f.hl <= 63
    BY <1>2, <2>1, FieldSizes
  <2>3. len = 78 + f.hl + 4 * f.tel.words
    BY DEF ReportLength
  <2> HIDE DEF len
  <2>4. len \in Nat /\ 20 <= len /\ len <= 2000
    <3> HIDE DEF g, rep, p, q
    <3> DEFINE a == f.hl  b == f.tel.words
    <3>1. a \in Nat /\ a <= 63 /\ b \in Nat /\ b <= 255 /\ len = 78 + a + 4 * b
      BY <2>2, <2>3
    <3> HIDE DEF a, b
    <3> QED BY <3>1
  <2> QED BY <2>4, FieldSizes, SMT
<1>6. Collector \in Hosts /\ Tables[s].reportSource \in Hosts
  BY DataPlaneAssumption, TablesAssumption DEF DataPlaneAssumption, TablesAssumption
<1>7. 8 \in UInt6 /\ 0 \in UInt6
  BY FieldSizes, SMT
<1> HIDE DEF len, rep
<1>8. g = [q EXCEPT !.report = rep]
  BY DEF Report, rep, len
<1>9. q = [id |-> f.id, src |-> Tables[s].reportSource, dst |-> Collector, l4 |-> "udp", hl |-> 8,
           len |-> len, ulen |-> len - 20, dscp |-> 0,
           tel |-> NoInt, report |-> NoReport, path |-> <<>>]
  BY DEF Frame
<1>10. g = [id |-> f.id, src |-> Tables[s].reportSource, dst |-> Collector, l4 |-> "udp", hl |-> 8,
           len |-> len, ulen |-> len - 20, dscp |-> 0,
           tel |-> NoInt, report |-> rep, path |-> <<>>]
  <2> HIDE DEF q, g
  <2> QED BY <1>8, <1>9, SMTT(30)
<1> HIDE DEF g, q
<1>11. g \in AllFrames
  <2>1. <<>> \in Seq(Steps)
    OBVIOUS
  <2> QED BY <1>2, <1>4, <1>5, <1>6, <1>7, <1>10, <2>1, ConstantTels, SMTT(30) DEF AllFrames
<1>12. /\ g.id = f.id /\ g.dst = Collector /\ g.l4 = "udp" /\ g.tel = NoInt /\ g.report = rep
  BY <1>10
<1>13. rep.tel = f.tel /\ rep.path = f.path
  BY DEF rep
<1>14. g \in ReportFrames(S)
  BY <1>1, <1>2, <1>3, <1>4, <1>11, <1>12, <1>13 DEF ReportFrames
<1> QED BY <1>12, <1>14 DEF g

------------------------------------------------------------------------------
(* What a stack tells of the path *)

RouteOf(hops) == Reverse(Route(hops))
Walked(path) == IF Len(path) <= MaxHop THEN path ELSE SubSeq(path, 1, MaxHop)

(* The hops are steps of the path, in order. *)
Subroute(route, path) ==
  \E I \in SUBSET (1..Len(path)) :
    /\ Cardinality(I) = Len(route)
    /\ \A i \in I : path[i] = route[Cardinality({j \in I : j <= i})]

LEMMA RouteIs ==
  ASSUME NEW hops \in Seq(Hops)
  PROVE  /\ RouteOf(hops) \in Seq(Steps) /\ Len(RouteOf(hops)) = Len(hops)
         /\ \A i \in 1..Len(hops) : RouteOf(hops)[i] = StepOf(hops[Len(hops) - i + 1])
<1> DEFINE n == Len(hops)  r == Route(hops)
<1>1. n \in Nat /\ DOMAIN hops = 1..n /\ \A i \in 1..n : hops[i] \in Hops
  BY ElementOfSeq, LenProperties
<1>2. ASSUME NEW h \in Hops PROVE StepOf(h) \in Steps
  BY DEF StepOf, Steps, Hops
<1>3. r = [i \in 1..n |-> StepOf(hops[i])]
  BY <1>1 DEF Route, StepOf
<1> HIDE DEF n, r
<1>4. \A i \in 1..n : r[i] = StepOf(hops[i]) /\ r[i] \in Steps
  BY <1>1, <1>2, <1>3
<1>5. r \in Seq(Steps) /\ Len(r) = n
  <2>1. \A i \in 1..n : StepOf(hops[i]) \in Steps
    BY <1>1, <1>2
  <2>2. [i \in 1..n |-> StepOf(hops[i])] \in Seq(Steps)
    BY <1>1, <2>1, IsASeq
  <2>3. DOMAIN r = 1..n
    BY <1>3
  <2>4. Len(r) = n
    BY <1>1, <1>3, <2>2, <2>3, LenProperties
  <2> QED BY <1>3, <2>2, <2>4
<1> DEFINE v == [i \in 1..n |-> r[(n - i) + 1]]
<1>6. RouteOf(hops) = v
  BY <1>5 DEF RouteOf, Reverse, r
<1>7. \A i \in 1..n : n - i + 1 \in 1..n
  BY <1>1
<1>8. \A i \in 1..n : v[i] = StepOf(hops[n - i + 1]) /\ r[(n - i) + 1] \in Steps
  BY <1>4, <1>7
<1>9. v \in Seq(Steps)
  BY <1>1, <1>8, IsASeq
<1>10. DOMAIN v = 1..n
  OBVIOUS
<1> HIDE DEF v
<1>11. Len(v) = n
  BY <1>1, <1>9, <1>10, LenProperties
<1> QED BY <1>6, <1>8, <1>9, <1>11 DEF n

LEMMA RouteOfPushed ==
  ASSUME NEW hop \in Hops, NEW hops \in Seq(Hops)
  PROVE  RouteOf(Pushed(hop, hops)) = Append(RouteOf(hops), StepOf(hop))
<1> DEFINE n == Len(hops)  p == Pushed(hop, hops)  r == RouteOf(hops)  v == RouteOf(p)
           x == StepOf(hop)
<1>1. n \in Nat /\ p \in Seq(Hops) /\ Len(p) = n + 1 /\ p[1] = hop
      /\ \A i \in 1..n : p[i + 1] = hops[i]
  BY PushedHops, LenProperties
<1>2. r \in Seq(Steps) /\ Len(r) = n /\ \A i \in 1..n : r[i] = StepOf(hops[n - i + 1])
  BY RouteIs
<1>3. v \in Seq(Steps) /\ Len(v) = n + 1 /\ \A i \in 1..n + 1 : v[i] = StepOf(p[n + 1 - i + 1])
  <2> HIDE DEF p
  <2>1. /\ v \in Seq(Steps) /\ Len(v) = Len(p)
        /\ \A i \in 1..Len(p) : v[i] = StepOf(p[Len(p) - i + 1])
    BY <1>1, RouteIs
  <2> HIDE DEF v, n
  <2> QED BY <1>1, <2>1
<1>4. x \in Steps
  BY DEF Hops, Steps, StepOf
<1> HIDE DEF n, p, r, v, x
<1> DEFINE w == Append(r, x)
<1>5. /\ w \in Seq(Steps) /\ Len(w) = n + 1
      /\ \A i \in 1..n : w[i] = r[i]
      /\ w[n + 1] = x
  BY <1>2, <1>4, AppendProperties
<1> HIDE DEF w
<1>6. ASSUME NEW i \in 1..n + 1 PROVE v[i] = w[i]
  <2>1. CASE i = n + 1
    <3>1. n + 1 - i + 1 = 1
      BY <1>1, <2>1
    <3> QED BY <1>1, <1>3, <1>5, <2>1, <3>1 DEF x
  <2>2. CASE i # n + 1
    <3>1. i \in 1..n /\ n + 1 - i + 1 = (n - i + 1) + 1 /\ n - i + 1 \in 1..n
      BY <1>1, <2>2
    <3>2. p[n + 1 - i + 1] = hops[n - i + 1]
      BY <1>1, <3>1
    <3> QED BY <1>2, <1>3, <1>5, <3>1, <3>2
  <2> QED BY <2>1, <2>2
<1>7. v = w
  BY <1>1, <1>3, <1>5, <1>6, SeqEqual
<1> QED BY <1>7 DEF v, w, r, x, p

LEMMA WalkedIs ==
  ASSUME NEW path \in Seq(Steps)
  PROVE  /\ Walked(path) \in Seq(Steps)
         /\ Len(Walked(path)) = IF Len(path) <= MaxHop THEN Len(path) ELSE MaxHop
         /\ \A i \in 1..Len(Walked(path)) : Walked(path)[i] = path[i]
<1> DEFINE n == Len(path)  w == SubSeq(path, 1, MaxHop)
<1>1. n \in Nat /\ \A i \in 1..n : path[i] \in Steps
  BY ElementOfSeq, LenProperties
<1>2. CASE n <= MaxHop
  BY <1>2 DEF Walked
<1>3. CASE ~(n <= MaxHop)
  <2>1. MaxHop \in Nat /\ MaxHop > 0 /\ \A i \in 1..MaxHop : path[i] \in Steps
    BY <1>1, <1>3, Numbers
  <2>2. w \in Seq(Steps) /\ Len(w) = MaxHop /\ \A i \in 1..MaxHop : w[i] = path[i]
    <3>1. /\ w \in Seq(Steps)
          /\ Len(w) = IF 1 <= MaxHop THEN MaxHop - 1 + 1 ELSE 0
          /\ \A i \in 1..MaxHop - 1 + 1 : w[i] = path[1 + i - 1]
      BY <2>1, SubSeqProperties
    <3> HIDE DEF w
    <3>2. MaxHop - 1 + 1 = MaxHop /\ \A i \in 1..MaxHop : 1 + i - 1 = i
      BY <2>1
    <3> QED BY <2>1, <3>1, <3>2
  <2>3. Walked(path) = w
    BY <1>3 DEF Walked
  <2> HIDE DEF w, n
  <2> QED BY <1>3, <2>2, <2>3 DEF n
<1> QED BY <1>2, <1>3

LEMMA SubrouteGrows ==
  ASSUME NEW path \in Seq(Steps), NEW route \in Seq(Steps), NEW x \in Steps,
         Subroute(route, path)
  PROVE  /\ Subroute(route, Append(path, x))
         /\ Subroute(Append(route, x), Append(path, x))
<1> DEFINE n == Len(path)  k == Len(route)  p == Append(path, x)  r == Append(route, x)
<1>1. /\ n \in Nat /\ k \in Nat /\ Len(p) = n + 1 /\ Len(r) = k + 1
      /\ \A i \in 1..n : p[i] = path[i]
      /\ \A i \in 1..k : r[i] = route[i]
      /\ p[n + 1] = x /\ r[k + 1] = x
  BY AppendProperties, LenProperties
<1>2. PICK I \in SUBSET (1..n) :
        /\ Cardinality(I) = k
        /\ \A i \in I : path[i] = route[Cardinality({j \in I : j <= i})]
  BY DEF Subroute
<1> HIDE DEF n, k, p, r
<1>3. IsFiniteSet(I)
  <2>1. IsFiniteSet(1..n)
    BY <1>1, FS_Interval
  <2> QED BY <1>2, <2>1, FS_Subset
<1>4. Subroute(route, p)
  <2>1. I \in SUBSET (1..n + 1)
    BY <1>1, <1>2
  <2>2. ASSUME NEW i \in I PROVE p[i] = route[Cardinality({j \in I : j <= i})]
    BY <1>1, <1>2
  <2>3. Cardinality(I) = Len(route)
    BY <1>2 DEF k
  <2>4. I \in SUBSET (1..Len(p))
    BY <1>1, <2>1
  <2> QED BY <2>2, <2>3, <2>4 DEF Subroute
<1>5. Subroute(r, p)
  <2> DEFINE J == I \cup {n + 1}
  <2>1. J \in SUBSET (1..n + 1) /\ n + 1 \notin I
    BY <1>1, <1>2
  <2>2. Cardinality(J) = k + 1
    BY <1>2, <1>3, <2>1, FS_AddElement
  <2>3. ASSUME NEW i \in J PROVE p[i] = r[Cardinality({j \in J : j <= i})]
    <3>1. CASE i = n + 1
      <4>0. \A j \in J : j <= i
        BY <1>1, <2>1, <3>1
      <4>1. {j \in J : j <= i} = J
        BY <4>0, Zenon
      <4> HIDE DEF J
      <4> QED BY <1>1, <2>2, <3>1, <4>1
    <3>2. CASE i # n + 1
      <4>1. i \in I /\ i \in 1..n
        BY <1>2, <3>2
      <4> DEFINE B == {j \in I : j <= i}
      <4>2. {j \in J : j <= i} = B
        BY <1>1, <4>1
      <4>3. i \in B /\ B \in SUBSET I
        BY <4>1
      <4> HIDE DEF B, J
      <4>4. IsFiniteSet(B) /\ Cardinality(B) <= Cardinality(I)
        BY <1>3, <4>3, FS_Subset
      <4>5. Cardinality(B) \in Nat /\ Cardinality(B) # 0
        BY <4>3, <4>4, FS_CardinalityType, FS_EmptySet
      <4>6. Cardinality(B) \in 1..k
        BY <1>1, <1>2, <4>4, <4>5
      <4>7. path[i] = route[Cardinality(B)]
        BY <1>2, <4>1 DEF B
      <4> QED BY <1>1, <4>1, <4>2, <4>6, <4>7
    <3> QED BY <3>1, <3>2
  <2>4. Cardinality(J) = Len(r) /\ J \in SUBSET (1..Len(p))
    BY <1>1, <2>1, <2>2
  <2> HIDE DEF J
  <2> QED BY <2>3, <2>4 DEF Subroute
<1> QED BY <1>4, <1>5 DEF p, r

LEMMA TellsIs ==
  ASSUME NEW t, NEW path
  PROVE  Tells(t, path) <=>
           /\ ~t.m => RouteOf(t.hops) = Walked(path) /\ (t.e <=> Len(path) > MaxHop)
           /\ Subroute(RouteOf(t.hops), path)
           /\ t.left + Len(RouteOf(t.hops)) = MaxHop
BY Zenon DEF Tells, RouteOf, Walked, Subroute

LEMMA TellsNothing ==
  ASSUME NEW t, t.hops = <<>>, t.left = MaxHop, t.e = FALSE
  PROVE  Tells(t, <<>>)
<1>1. <<>> \in Seq(Hops) /\ <<>> \in Seq(Steps) /\ Len(<<>>) = 0
  OBVIOUS
<1>2. RouteOf(t.hops) \in Seq(Steps) /\ Len(RouteOf(t.hops)) = 0
  BY <1>1, RouteIs
<1>3. RouteOf(t.hops) = <<>>
  BY <1>2, EmptySeq
<1>4. MaxHop \in Nat /\ 0 <= MaxHop /\ ~(0 > MaxHop)
  BY Numbers
<1>5. Walked(<<>>) = <<>>
  BY <1>1, <1>4 DEF Walked
<1>6. Subroute(<<>>, <<>>)
  <2>1. {} \in SUBSET (1..Len(<<>>)) /\ Cardinality({}) = Len(<<>>)
    BY <1>1, FS_EmptySet
  <2> QED BY <2>1 DEF Subroute
<1>7. MaxHop + 0 = MaxHop
  BY <1>4
<1> QED BY <1>1, <1>3, <1>4, <1>5, <1>6, <1>7, TellsIs, Zenon

LEMMA WalkedGrows ==
  ASSUME NEW path \in Seq(Steps), NEW x \in Steps
  PROVE  /\ Len(path) < MaxHop => Walked(path) = path /\ Walked(Append(path, x)) = Append(path, x)
         /\ Len(path) >= MaxHop => Walked(Append(path, x)) = Walked(path)
<1> DEFINE n == Len(path)  p == Append(path, x)  v == Walked(p)  w == Walked(path)
<1>1. /\ n \in Nat /\ p \in Seq(Steps) /\ Len(p) = n + 1
      /\ \A i \in 1..n : p[i] = path[i]
  BY AppendProperties, LenProperties
<1>2. MaxHop \in Nat
  BY Numbers
<1>3. ASSUME n < MaxHop PROVE w = path /\ v = p
  <2>1. Len(path) <= MaxHop /\ Len(p) <= MaxHop
    BY <1>1, <1>2, <1>3
  <2> QED BY <2>1 DEF Walked
<1>4. ASSUME n >= MaxHop PROVE v = w
  <2> HIDE DEF p
  <2>1. /\ w \in Seq(Steps) /\ Len(w) = IF Len(path) <= MaxHop THEN Len(path) ELSE MaxHop
        /\ \A i \in 1..Len(w) : w[i] = path[i]
    BY WalkedIs
  <2>2. /\ v \in Seq(Steps) /\ Len(v) = IF Len(p) <= MaxHop THEN Len(p) ELSE MaxHop
        /\ \A i \in 1..Len(v) : v[i] = p[i]
    BY <1>1, WalkedIs
  <2> HIDE DEF v, w
  <2>3. Len(w) = MaxHop /\ Len(v) = MaxHop
    BY <1>1, <1>2, <1>4, <2>1, <2>2
  <2>4. \A i \in 1..MaxHop : v[i] = w[i]
    BY <1>1, <1>2, <1>4, <2>1, <2>2, <2>3
  <2> QED BY <2>1, <2>2, <2>3, <2>4, SeqEqual
<1> QED BY <1>3, <1>4 DEF n, p, v, w

LEMMA TellsStep ==
  ASSUME NEW t \in Tels, StackOK(t), NEW path \in Seq(Steps), Tells(t, path), NEW hop \in Hops,
         NEW u, TransitOutcome(t, u, hop)
  PROVE  Tells(u, Append(path, StepOf(hop)))
<1> DEFINE x == StepOf(hop)  p == Append(path, x)  n == Len(path)  r == RouteOf(t.hops)
<1>1. /\ t.hops \in Seq(Hops) /\ t.left \in Nat
  BY FieldSizes DEF Tels
<1>2. x \in Steps
  BY DEF Hops, Steps, StepOf
<1>3. /\ ~t.m => r = Walked(path) /\ (t.e <=> n > MaxHop)
      /\ Subroute(r, path)
      /\ t.left + Len(r) = MaxHop
  BY TellsIs, Zenon
<1>4. r \in Seq(Steps) /\ Len(r) = Len(t.hops) /\ Len(r) \in Nat
  BY <1>1, RouteIs, LenProperties
<1>5. n \in Nat /\ Len(p) = n + 1 /\ MaxHop \in Nat
  BY <1>2, AppendProperties, LenProperties, Numbers
<1>6. Subroute(r, p) /\ Subroute(Append(r, x), p)
  BY <1>2, <1>3, <1>4, SubrouteGrows
<1>7. Len(Walked(path)) = IF n <= MaxHop THEN n ELSE MaxHop
  BY WalkedIs
<1>8. /\ n < MaxHop => Walked(path) = path /\ Walked(p) = p
      /\ n >= MaxHop => Walked(p) = Walked(path)
  BY <1>2, WalkedGrows
<1> HIDE DEF x, p, n, r
<1>9. ASSUME Exhausted(t), u = TelOf(t, t.words, t.left, TRUE, t.m, t.hops) PROVE Tells(u, p)
  <2>1. u.hops = t.hops /\ u.left = t.left /\ u.m = t.m /\ u.e = TRUE
    BY <1>9, Zenon DEF TelOf
  <2>2. ASSUME ~t.m PROVE n >= MaxHop
    <3>1. CASE t.left = 0
      <4>1. Len(Walked(path)) = MaxHop
        BY <1>3, <1>4, <2>2, <3>1
      <4> QED BY <1>5, <1>7, <4>1
    <3>2. CASE t.e
      <4>1. n > MaxHop
        BY <1>3, <2>2, <3>2, Zenon
      <4> QED BY <1>5, <4>1
    <3> QED BY <1>9, <3>1, <3>2, Zenon DEF Exhausted
  <2>3. n >= MaxHop => Len(p) > MaxHop
    BY <1>5
  <2>4. ~u.m => r = Walked(p) /\ (u.e <=> Len(p) > MaxHop)
    BY <1>3, <1>8, <2>1, <2>2, <2>3, Zenon
  <2> QED BY <1>3, <1>6, <2>1, <2>4, TellsIs, Zenon DEF r
<1>10. ASSUME u = TelOf(t, t.words, t.left, t.e, TRUE, t.hops) PROVE Tells(u, p)
  <2>1. u.hops = t.hops /\ u.left = t.left /\ u.m = TRUE
    BY <1>10, Zenon DEF TelOf
  <2> QED BY <1>3, <1>6, <2>1, TellsIs, Zenon DEF r
<1>11. ASSUME ~Exhausted(t),
              u = TelOf(t, t.words + InsCnt, t.left - 1, t.e, t.m, Pushed(hop, t.hops))
       PROVE  Tells(u, p)
  <2>1. u.hops = Pushed(hop, t.hops) /\ u.left = t.left - 1 /\ u.m = t.m /\ u.e = t.e
    BY <1>11, Zenon DEF TelOf
  <2>2. t.left # 0 /\ ~t.e
    BY <1>11, Zenon DEF Exhausted
  <2>3. RouteOf(u.hops) = Append(r, x)
    BY <1>1, <2>1, RouteOfPushed DEF r, x
  <2>4. Len(Append(r, x)) = Len(r) + 1
    BY <1>2, <1>4, AppendProperties
  <2>5. u.left + Len(Append(r, x)) = MaxHop
    BY <1>1, <1>3, <1>4, <1>5, <2>1, <2>4
  <2>6. ASSUME ~t.m PROVE n < MaxHop
    <3>1. ~(n > MaxHop)
      BY <1>3, <2>2, <2>6, Zenon
    <3>2. Len(Walked(path)) = n
      BY <1>5, <1>7, <3>1
    <3>3. Len(r) = n
      BY <1>3, <2>6, <3>2, Zenon
    <3> QED BY <1>1, <1>3, <1>5, <2>2, <3>3
  <2>7. n < MaxHop => ~(Len(p) > MaxHop)
    BY <1>5
  <2>8. ASSUME ~t.m PROVE r = path
    BY <1>3, <1>8, <2>6, <2>8, Zenon
  <2>9. ~u.m => Append(r, x) = Walked(p) /\ (u.e <=> Len(p) > MaxHop)
    BY <1>8, <2>1, <2>2, <2>6, <2>7, <2>8, Zenon DEF p
  <2> QED BY <1>6, <2>3, <2>5, <2>9, TellsIs, Zenon
<1>12. Tells(u, p)
  BY <1>9, <1>10, <1>11, Zenon DEF TransitOutcome
<1> QED BY <1>12 DEF p, x

------------------------------------------------------------------------------
(* What a switch makes of a frame *)

LEMMA GoodFields ==
  ASSUME NEW S, NEW f \in GoodFrames(S)
  PROVE  /\ f \in AllFrames /\ f.id \in 1..Len(S) /\ f.dst \in Hosts /\ f.path \in Seq(Steps)
         /\ f \in PlainFrames(S) \cup ReportFrames(S) => f.tel = NoInt
         /\ f \in IntFrames(S) => /\ f.tel.valid = TRUE /\ HasL4(f)
                                 /\ \E s \in Switches : <<f.src, f.dst>> \in Tables[s].flows
<1>1. f \in AllFrames /\ f.id \in 1..Len(S)
  BY DEF GoodFrames, PlainFrames, IntFrames, CarryingFrames, DataFrames, ReportFrames
<1>2. f.dst \in Hosts /\ f.path \in Seq(Steps)
  BY <1>1 DEF AllFrames
<1>3. f \in PlainFrames(S) \cup ReportFrames(S) => f.tel = NoInt
  BY DEF PlainFrames, ReportFrames
<1>4. f \in IntFrames(S) => /\ f.tel.valid = TRUE /\ HasL4(f)
                           /\ \E s \in Switches : <<f.src, f.dst>> \in Tables[s].flows
  BY DEF IntFrames, CarryingFrames, StackOK
<1> QED BY <1>1, <1>2, <1>3, <1>4

LEMMA ForwardPorts ==
  ASSUME NEW s \in Switches, NEW h \in Hosts
  PROVE  /\ Tables[s].forward[h] \in DOMAIN Peer[s] /\ Tables[s].forward[h] \in Ports
         /\ Peer[s][Tables[s].forward[h]][1] \in Hosts => Peer[s][Tables[s].forward[h]][1] = h
BY TablesAssumption DEF TablesAssumption

LEMMA MirrorPort ==
  ASSUME NEW s \in Switches, Tables[s].sink # {}
  PROVE  /\ Tables[s].mirror \in DOMAIN Peer[s] \ Tables[s].sink /\ Tables[s].mirror \in Ports
         /\ Peer[s][Tables[s].mirror][1] \in Hosts => Peer[s][Tables[s].mirror][1] = Collector
BY TablesAssumption DEF TablesAssumption

LEMMA CopiesWait ==
  ASSUME NEW S, S \in Seq(Sendable), NEW s \in Switches, NEW a \in Arrivals(s, S)
  PROVE  LET copies == Copies(s, a.in, a.frame) IN
         /\ DOMAIN copies \subseteq Ports
         /\ \A p \in DOMAIN copies : copies[p] \in Waiting(s, p, S)
<1> DEFINE f == a.frame  in == a.in  out == Out(s, f)
           g == IF IsSource(s, in, f) THEN Sourced(f) ELSE f
           sink == IsSink(s, out, g)
           D == {out} \cup (IF sink THEN {Tables[s].mirror} ELSE {})
           copies == Copies(s, in, f)
<1>1. /\ f \in GoodFrames(S) /\ in \in Ports
      /\ in \in Tables[s].source => f \in PlainFrames(S) /\ f.path = <<>>
  BY Zenon DEF Arrivals
<1>2. /\ f.dst \in Hosts
      /\ f \in PlainFrames(S) \cup ReportFrames(S) => f.tel = NoInt
  BY <1>1, GoodFields, Zenon
<1> HIDE DEF f, in
<1>3. out \in DOMAIN Peer[s] /\ out \in Ports /\ out = Tables[s].forward[f.dst]
  BY <1>2, ForwardPorts DEF Out
<1>4. ASSUME IsSource(s, in, f)
      PROVE  Sourced(f) \in IntFrames(S) /\ Sourced(f).dst = f.dst /\ out \notin Tables[s].sink
  <2>1. HasL4(f) /\ in \in Tables[s].source /\ <<f.src, f.dst>> \in Tables[s].flows
    BY <1>4, Zenon DEF IsSource
  <2>2. f \in PlainFrames(S) /\ f.path = <<>>
    BY <1>1, <2>1
  <2>3. /\ Sourced(f) \in CarryingFrames(S) /\ Sourced(f).path = <<>> /\ Sourced(f).dst = f.dst
        /\ Sourced(f).tel.hops = <<>> /\ Sourced(f).tel.left = MaxHop /\ Sourced(f).tel.e = FALSE
    BY <2>1, <2>2, SourcedCarries
  <2>4. Tells(Sourced(f).tel, <<>>)
    BY <2>3, TellsNothing, Zenon
  <2>5. Sourced(f) \in IntFrames(S)
    BY <2>3, <2>4, Zenon DEF IntFrames
  <2>6. Tables[s].forward[<<f.src, f.dst>>[2]] \notin Tables[s].sink
    BY <2>1, TablesAssumption DEF TablesAssumption
  <2> QED BY <1>3, <2>3, <2>5, <2>6
<1>5. g \in GoodFrames(S) /\ g.dst = f.dst
  BY <1>1, <1>4, Zenon DEF GoodFrames
<1>6. sink => /\ g = f /\ f \in IntFrames(S)
              /\ Tables[s].mirror \in Ports /\ Tables[s].sink # {}
  <2> SUFFICES ASSUME sink
               PROVE  /\ g = f /\ f \in IntFrames(S)
                      /\ Tables[s].mirror \in Ports /\ Tables[s].sink # {}
    BY Zenon
  <2>1. g.tel.valid /\ out \in Tables[s].sink
    BY Zenon DEF IsSink
  <2>2. g = f
    BY <1>4, <2>1, Zenon
  <2>3. NoInt.valid = FALSE
    BY DEF NoInt
  <2>4. f \in IntFrames(S)
    BY <1>1, <1>2, <2>1, <2>2, <2>3, Zenon DEF GoodFrames
  <2>5. Tables[s].sink # {}
    BY <2>1
  <2> QED BY <2>2, <2>4, <2>5, MirrorPort, Zenon
<1>7. sink \in BOOLEAN
  BY DEF IsSink
<1>8. ~sink /\ out \in Tables[s].sink => g \in PlainFrames(S) \cup ReportFrames(S)
  <2>1. g \in IntFrames(S) => g.tel.valid = TRUE /\ HasL4(g)
    BY <1>5, GoodFields, Zenon
  <2> QED BY <1>5, <2>1, Zenon DEF IsSink, GoodFrames
<1>9. copies = [p \in D |->
         IF p = out THEN [frame |-> g, in |-> in, sink |-> sink, clone |-> FALSE]
                    ELSE [frame |-> f, in |-> in, sink |-> FALSE, clone |-> TRUE]]
  BY Zenon DEF Copies
<1>10. D \subseteq Ports
  BY <1>3, <1>6, Zenon
<1> HIDE DEF g, sink, copies, out
<1>11. ASSUME NEW p \in D PROVE copies[p] \in Waiting(s, p, S)
  <2>1. CASE p = out
    <3> DEFINE q == [frame |-> g, in |-> in, sink |-> sink, clone |-> FALSE]
    <3>1. copies[p] = q
      BY <1>9, <2>1, Zenon
    <3>2. q.frame = g /\ q.sink = sink /\ q.clone = FALSE
      BY Zenon
    <3>3. FALSE \in BOOLEAN /\ FALSE # TRUE
      BY Zenon
    <3>4. q \in [frame : GoodFrames(S), in : Ports, sink : BOOLEAN, clone : BOOLEAN]
      BY <1>1, <1>5, <1>7, <3>3, Zenon
    <3>5. sink = TRUE => g \in IntFrames(S)
      BY <1>6, Zenon
    <3>6. sink = FALSE /\ out \in Tables[s].sink => g \in PlainFrames(S) \cup ReportFrames(S)
      BY <1>8, Zenon
    <3>7. p = Tables[s].forward[q.frame.dst]
      BY <1>3, <1>5, <2>1, <3>2, Zenon
    <3> HIDE DEF q
    <3>8. q \in Waiting(s, p, S)
      BY <2>1, <3>2, <3>3, <3>4, <3>5, <3>6, <3>7, Zenon DEF Waiting
    <3> QED BY <3>1, <3>8, Zenon
  <2>2. CASE p # out
    <3> DEFINE q == [frame |-> f, in |-> in, sink |-> FALSE, clone |-> TRUE]
    <3>1. copies[p] = q
      BY <1>9, <2>2, Zenon
    <3>2. q.frame = f /\ q.sink = FALSE /\ q.clone = TRUE
      BY Zenon
    <3>3. FALSE \in BOOLEAN /\ TRUE \in BOOLEAN /\ FALSE # TRUE
      BY Zenon
    <3>4. q \in [frame : GoodFrames(S), in : Ports, sink : BOOLEAN, clone : BOOLEAN]
      BY <1>1, <3>3, Zenon
    <3>5. sink /\ p = Tables[s].mirror
      BY <2>2, Zenon
    <3> HIDE DEF q
    <3>6. q \in Waiting(s, p, S)
      BY <1>6, <3>2, <3>3, <3>4, <3>5, Zenon DEF Waiting
    <3> QED BY <3>1, <3>6, Zenon
  <2> QED BY <2>1, <2>2, Zenon
<1>12. DOMAIN copies = D
  BY <1>9, Zenon
<1> HIDE DEF D
<1> QED BY <1>10, <1>11, <1>12, Zenon DEF copies, in, f

LEMMA IntOutcome ==
  ASSUME NEW S, S \in Seq(Sendable), NEW s \in Switches, NEW in \in Ports, NEW out \in Ports,
         NEW f \in IntFrames(S)
  PROVE  LET g == Transited(s, in, out, Passing(s, in, out, f)) IN
         g \in IntFrames(S) /\ g.dst = f.dst
<1> DEFINE h == Passing(s, in, out, f)  g == Transited(s, in, out, h)  hop == Hop(s, in, out)
<1>1. hop \in Hops
  BY DEF Hops, Hop
<1>2. f \in CarryingFrames(S) /\ Tells(f.tel, f.path)
  BY DEF IntFrames
<1>3. f.path \in Seq(Steps) /\ f.tel \in Tels /\ StackOK(f.tel)
  BY <1>2, CarryingFields DEF AllFrames
<1>4. /\ h \in CarryingFrames(S) /\ h.dst = f.dst /\ h.tel = f.tel
      /\ h.path = Append(f.path, StepOf(hop))
  BY <1>2, PathGrows
<1> HIDE DEF h, hop
<1>5. /\ g \in CarryingFrames(S) /\ g.path = h.path /\ g.dst = h.dst
      /\ TransitOutcome(f.tel, g.tel, hop)
  BY <1>4, TransitedCarries DEF hop
<1> HIDE DEF g
<1>6. Tells(g.tel, Append(f.path, StepOf(hop)))
  BY <1>1, <1>2, <1>3, <1>5, TellsStep
<1>7. g \in IntFrames(S)
  BY <1>4, <1>5, <1>6, Zenon DEF IntFrames
<1> QED BY <1>4, <1>5, <1>7 DEF g, h

LEMMA LeavingIsGood ==
  ASSUME NEW S, S \in Seq(Sendable), seq \in [Switches -> Nat], NEW s \in Switches,
         NEW out \in Ports, NEW q \in Waiting(s, out, S)
  PROVE  LET g == Leaving(s, out, q)  to == Peer[s][out] IN
         /\ out \in DOMAIN Peer[s]
         /\ g \in GoodFrames(S)
         /\ to[1] \in Hosts => g \in Deliveries(to[1], S)
<1> DEFINE f == Passing(s, q.in, out, q.frame)
           t == IF HasL4(f) /\ f.tel.valid THEN Transited(s, q.in, out, f) ELSE f
           g == Leaving(s, out, q)  to == Peer[s][out]
           Q == /\ out \in DOMAIN Peer[s] /\ g \in GoodFrames(S)
                /\ to[1] \in Hosts => g \in PlainFrames(S) \cup ReportFrames(S) /\ g.dst = to[1]
<1>1. /\ q.frame \in GoodFrames(S) /\ q.in \in Ports /\ q.sink \in BOOLEAN /\ q.clone \in BOOLEAN
      /\ q.clone = TRUE => /\ q.frame \in IntFrames(S) /\ q.sink = FALSE
                           /\ out = Tables[s].mirror /\ Tables[s].sink # {}
      /\ q.clone = FALSE => out = Tables[s].forward[q.frame.dst]
      /\ q.sink = TRUE => q.frame \in IntFrames(S)
      /\ q.clone = FALSE /\ q.sink = FALSE /\ out \in Tables[s].sink
           => q.frame \in PlainFrames(S) \cup ReportFrames(S)
  BY Zenon DEF Waiting
<1>2. g = CASE ~HasL4(f)  -> f
            [] q.clone    -> Report(s, t, seq[s])
            [] q.sink     -> Sunk(t)
            [] OTHER      -> t
  BY Zenon DEF Leaving
<1>4. q.frame.dst \in Hosts
  BY <1>1, GoodFields
<1>5. CASE q.frame \in PlainFrames(S) \cup ReportFrames(S)
  <2>1. /\ f \in PlainFrames(S) \cup ReportFrames(S)
        /\ f.dst = q.frame.dst
    BY <1>1, <1>5, PathGrows
  <2>2. q.frame.tel = NoInt /\ f \in GoodFrames(S)
    BY <1>1, <1>5, <2>1, GoodFields DEF GoodFrames
  <2>3. f.tel = NoInt
    BY <2>1, <2>2, GoodFields
  <2>4. NoInt.valid = FALSE
    BY DEF NoInt
  <2>5. ~(q.frame \in IntFrames(S))
    BY <1>1, <2>2, <2>4, GoodFields, Zenon
  <2>6. q.clone = FALSE /\ q.sink = FALSE
    BY <1>1, <2>5, Zenon
  <2> HIDE DEF f
  <2>7. t = f
    BY <2>3, <2>4, Zenon
  <2> HIDE DEF t, g
  <2>8. g = f
    BY <1>2, <2>6, <2>7, Zenon
  <2>9. out \in DOMAIN Peer[s] /\ (to[1] \in Hosts => to[1] = f.dst)
    BY <1>1, <1>4, <2>1, <2>6, ForwardPorts
  <2> HIDE DEF to
  <2>10. Q
    BY <2>1, <2>2, <2>8, <2>9, Zenon
  <2> QED BY <2>10, Zenon DEF Deliveries, Q, g, to
<1>6. CASE q.frame \in IntFrames(S)
  <2>1. /\ f \in CarryingFrames(S) /\ f.l4 = q.frame.l4 /\ f.tel = q.frame.tel
        /\ f.dst = q.frame.dst
    BY <1>1, <1>6, PathGrows DEF IntFrames
  <2>2. q.frame.tel.valid = TRUE /\ HasL4(q.frame)
    BY <1>1, <1>6, GoodFields
  <2>3. HasL4(f) /\ f.tel.valid = TRUE
    BY <2>1, <2>2, Zenon DEF HasL4
  <2> HIDE DEF f
  <2>4. Transited(s, q.in, out, f) \in IntFrames(S) /\ Transited(s, q.in, out, f).dst = q.frame.dst
    BY <1>1, <1>6, IntOutcome DEF f
  <2>5. t \in IntFrames(S) /\ t.dst = q.frame.dst
    BY <2>3, <2>4, Zenon
  <2> HIDE DEF t, g
  <2>6. t \in CarryingFrames(S)
    BY <2>5 DEF IntFrames
  <2>7. CASE q.clone = TRUE
    <3>1. g = Report(s, t, seq[s])
      BY <1>1, <1>2, <2>3, <2>7, Zenon
    <3>2. seq[s] \in Nat
      OBVIOUS
    <3>3. Report(s, t, seq[s]) \in ReportFrames(S) /\ Report(s, t, seq[s]).dst = Collector
      BY <2>5, <3>2, ReportIsReport
    <3>4. out \in DOMAIN Peer[s] /\ (to[1] \in Hosts => to[1] = Collector)
      BY <1>1, <2>7, MirrorPort
    <3> HIDE DEF to
    <3>5. Q
      BY <3>1, <3>3, <3>4, Zenon DEF GoodFrames
    <3> QED BY <3>5, Zenon DEF Deliveries, Q, g, to
  <2>8. CASE q.clone = FALSE
    <3>1. out \in DOMAIN Peer[s] /\ out = Tables[s].forward[q.frame.dst]
          /\ (to[1] \in Hosts => to[1] = q.frame.dst)
      BY <1>1, <1>4, <2>8, ForwardPorts
    <3>2. CASE q.sink = TRUE
      <4>1. g = Sunk(t)
        BY <1>2, <2>3, <2>8, <3>2, Zenon
      <4>2. Sunk(t) \in PlainFrames(S) /\ Sunk(t).dst = q.frame.dst
        BY <2>5, <2>6, SunkIsPlain
      <4> HIDE DEF to
      <4>3. Q
        BY <3>1, <4>1, <4>2, Zenon DEF GoodFrames
      <4> QED BY <4>3, Zenon DEF Deliveries, Q, g, to
    <3>3. CASE q.sink = FALSE
      <4>1. g = t
        BY <1>2, <2>3, <2>8, <3>3, Zenon
      <4>2. ~(q.frame \in PlainFrames(S) \cup ReportFrames(S))
        <5>1. NoInt.valid = FALSE
          BY DEF NoInt
        <5> QED BY <1>1, <2>2, <5>1, GoodFields, Zenon
      <4>3. out \notin Tables[s].sink
        BY <1>1, <2>8, <3>3, <4>2, Zenon
      <4>4. PICK r \in Switches : <<q.frame.src, q.frame.dst>> \in Tables[r].flows
        BY <1>1, <1>6, GoodFields, Zenon
      <4>5. Peer[s][Tables[s].forward[q.frame.dst]][1] \in Hosts
              => Tables[s].forward[q.frame.dst] \in Tables[s].sink
        <5> DEFINE fl == <<q.frame.src, q.frame.dst>>
        <5>1. \A y \in Tables[r].flows : \A z \in Switches :
                 Peer[z][Tables[z].forward[y[2]]][1] \in Hosts
                                 => Tables[z].forward[y[2]] \in Tables[z].sink
          BY TablesAssumption, Zenon DEF TablesAssumption
        <5>2. fl \in Tables[r].flows /\ fl[2] = q.frame.dst
          BY <4>4
        <5> HIDE DEF fl
        <5> QED BY <5>1, <5>2
      <4>6. ~(to[1] \in Hosts)
        BY <3>1, <4>3, <4>5
      <4> HIDE DEF to
      <4>7. Q
        BY <2>5, <3>1, <4>1, <4>6, Zenon DEF GoodFrames
      <4> QED BY <4>7, Zenon DEF Deliveries, Q, g, to
    <3> QED BY <1>1, <3>2, <3>3, Zenon
  <2> QED BY <1>1, <2>7, <2>8, Zenon
<1> QED BY <1>1, <1>5, <1>6, Zenon DEF GoodFrames

------------------------------------------------------------------------------
(* The steps keep the invariant *)

\* Packets sent later change nothing about those sent before.
LEMMA MoreSent ==
  ASSUME NEW S, S \in Seq(Sendable), NEW p \in Sendable
  PROVE  LET T == Append(S, p) IN
         /\ GoodFrames(S) \subseteq GoodFrames(T)
         /\ \A s : Arrivals(s, S) \subseteq Arrivals(s, T)
         /\ \A s, i : Waiting(s, i, S) \subseteq Waiting(s, i, T)
         /\ \A h : Deliveries(h, S) \subseteq Deliveries(h, T)
<1> DEFINE T == Append(S, p)
<1>1. Len(S) \in Nat /\ Len(T) = Len(S) + 1 /\ \A i \in 1..Len(S) : i \in 1..Len(T) /\ T[i] = S[i]
  BY AppendProperties, LenProperties
<1> HIDE DEF T
<1>2. ASSUME NEW f \in DataFrames(S) PROVE f \in DataFrames(T) /\ T[f.id] = S[f.id]
  BY <1>1 DEF DataFrames
<1>3. PlainFrames(S) \subseteq PlainFrames(T)
  <2> SUFFICES ASSUME NEW f \in PlainFrames(S) PROVE f \in PlainFrames(T)
    OBVIOUS
  <2>1. f \in DataFrames(S)
    BY DEF PlainFrames
  <2> QED BY <1>2, <2>1 DEF PlainFrames
<1>4. CarryingFrames(S) \subseteq CarryingFrames(T)
  <2> SUFFICES ASSUME NEW f \in CarryingFrames(S) PROVE f \in CarryingFrames(T)
    OBVIOUS
  <2>1. f \in DataFrames(S)
    BY DEF CarryingFrames
  <2> QED BY <1>2, <2>1 DEF CarryingFrames
<1>5. IntFrames(S) \subseteq IntFrames(T)
  BY <1>4, Zenon DEF IntFrames
<1>6. ReportFrames(S) \subseteq ReportFrames(T)
  BY <1>1, Zenon DEF ReportFrames
<1>7. GoodFrames(S) \subseteq GoodFrames(T)
  BY <1>3, <1>5, <1>6, Zenon DEF GoodFrames
<1>8. ASSUME NEW s PROVE Arrivals(s, S) \subseteq Arrivals(s, T)
  <2> SUFFICES ASSUME NEW a \in Arrivals(s, S) PROVE a \in Arrivals(s, T)
    OBVIOUS
  <2>1. a \in [frame : GoodFrames(S), in : Ports]
    BY Zenon DEF Arrivals
  <2>2. a \in [frame : GoodFrames(T), in : Ports]
    BY <1>7, <2>1
  <2>3. a.in \in Tables[s].source => a.frame \in PlainFrames(T) /\ a.frame.path = <<>>
    BY <1>3, Zenon DEF Arrivals
  <2> QED BY <2>2, <2>3, Zenon DEF Arrivals
<1>9. ASSUME NEW s, NEW i PROVE Waiting(s, i, S) \subseteq Waiting(s, i, T)
  <2> SUFFICES ASSUME NEW q \in Waiting(s, i, S) PROVE q \in Waiting(s, i, T)
    OBVIOUS
  <2>1. q \in [frame : GoodFrames(S), in : Ports, sink : BOOLEAN, clone : BOOLEAN]
    BY Zenon DEF Waiting
  <2>2. q \in [frame : GoodFrames(T), in : Ports, sink : BOOLEAN, clone : BOOLEAN]
    BY <1>7, <2>1
  <2>3. /\ q.clone = TRUE => /\ q.frame \in IntFrames(S) /\ q.sink = FALSE
                            /\ i = Tables[s].mirror /\ Tables[s].sink # {}
        /\ q.clone = FALSE => i = Tables[s].forward[q.frame.dst]
        /\ q.sink = TRUE => q.frame \in IntFrames(S)
        /\ q.clone = FALSE /\ q.sink = FALSE /\ i \in Tables[s].sink
             => q.frame \in PlainFrames(S) \cup ReportFrames(S)
    BY Zenon DEF Waiting
  <2> QED BY <1>3, <1>5, <1>6, <2>2, <2>3, Zenon DEF Waiting
<1>10. ASSUME NEW h PROVE Deliveries(h, S) \subseteq Deliveries(h, T)
  BY <1>3, <1>6, Zenon DEF Deliveries
<1> QED BY <1>7, <1>8, <1>9, <1>10 DEF T

LEMMA SeqGrows ==
  ASSUME NEW A, NEW B, A \subseteq B
  PROVE  Seq(A) \subseteq Seq(B)
OBVIOUS

LEMMA FrameInit ==
  ASSUME Init PROVE FrameInv
<1> USE DEF Init
<1>1. sent \in Seq(Sendable) /\ seq \in [Switches -> Nat]
  OBVIOUS
<1>2. inbuf = [s \in Switches |-> inbuf[s]] /\ received = [h \in Hosts |-> received[h]]
  OBVIOUS
<1>3. outq = [s \in Switches |-> [p \in Ports |-> outq[s][p]]]
  OBVIOUS
<1>4. \A s \in Switches : inbuf[s] \in Seq(Arrivals(s, sent))
  OBVIOUS
<1>5. \A s \in Switches, p \in Ports :
        outq[s][p] \in Seq(Waiting(s, p, sent)) /\ Len(outq[s][p]) <= Depth
  <2>1. Depth \in Nat
    BY DataPlaneAssumption DEF DataPlaneAssumption
  <2> SUFFICES ASSUME NEW s \in Switches, NEW p \in Ports
               PROVE  outq[s][p] \in Seq(Waiting(s, p, sent)) /\ Len(outq[s][p]) <= Depth
    OBVIOUS
  <2>2. outq[s][p] = <<>>
    OBVIOUS
  <2>3. <<>> \in Seq(Waiting(s, p, sent)) /\ Len(<<>>) = 0
    OBVIOUS
  <2> QED BY <2>1, <2>2, <2>3
<1>6. \A h \in Hosts : received[h] \in Seq(Deliveries(h, sent))
  OBVIOUS
<1>7. \A q \in dropped : q.frame \in GoodFrames(sent)
  OBVIOUS
<1> QED BY <1>1, <1>2, <1>3, <1>4, <1>5, <1>6, <1>7, Zenon DEF FrameInv

LEMMA FrameSend ==
  ASSUME FrameInv, Send PROVE FrameInv'
<1>1. PICK p \in Sendable :
        /\ sent' = Append(sent, p)
        /\ Arrive(HostPort(p.src)[1], HostPort(p.src)[2], Frame(Len(sent) + 1, p))
  BY DEF Send
<1>2. UNCHANGED <<outq, seq, received, dropped>>
  BY DEF Send
<1>3. sent \in Seq(Sendable) /\ sent' \in Seq(Sendable)
  BY <1>1 DEF FrameInv
<1> DEFINE sp == HostPort(p.src)  r == sp[1]  in == sp[2]
           a == [frame |-> Frame(Len(sent) + 1, p), in |-> in]
<1>4. r \in Switches /\ in \in Ports
  <2>1. PICK s \in Switches : \E i \in DOMAIN Peer[s] : Peer[s][i][1] = p.src
    BY DataPlaneAssumption, SMT DEF DataPlaneAssumption
  <2>2. PICK i \in DOMAIN Peer[s] : Peer[s][i][1] = p.src
    BY <2>1
  <2>3. i \in Ports
    BY TablesAssumption, Zenon DEF TablesAssumption
  <2>4. \E x \in Switches \X Ports : x[2] \in DOMAIN Peer[x[1]] /\ Peer[x[1]][x[2]][1] = p.src
    <3> DEFINE x == <<s, i>>
    <3>1. x \in Switches \X Ports /\ x[1] = s /\ x[2] = i
      BY <2>3
    <3> HIDE DEF x
    <3> QED BY <2>2, <3>1
  <2>5. sp \in Switches \X Ports
    BY <2>4 DEF HostPort
  <2> HIDE DEF sp
  <2> QED BY <2>5
<1>5. a \in Arrivals(r, sent')
  <2>1. Len(sent) + 1 \in 1..Len(sent') /\ sent'[Len(sent) + 1] = p
    <3>1. Len(sent') = Len(sent) + 1 /\ sent'[Len(sent) + 1] = p /\ Len(sent) \in Nat
      BY <1>1, <1>3, AppendProperties, LenProperties
    <3> QED BY <3>1
  <2> DEFINE f == Frame(Len(sent) + 1, p)
  <2>2. f \in PlainFrames(sent') /\ f.path = <<>>
    BY <1>3, <2>1, FramesArePlain
  <2>3. a = [frame |-> f, in |-> in]
    OBVIOUS
  <2> HIDE DEF a, f, in, r
  <2>4. a \in [frame : GoodFrames(sent'), in : Ports] /\ a.frame = f
    BY <1>4, <2>2, <2>3, Zenon DEF GoodFrames
  <2> QED BY <2>2, <2>4, Zenon DEF Arrivals
<1>6. inbuf' = [inbuf EXCEPT ![r] = Append(@, a)]
  BY <1>1 DEF Arrive
<1> HIDE DEF a, r, in, sp
<1>7. /\ GoodFrames(sent) \subseteq GoodFrames(sent')
      /\ \A s : Arrivals(s, sent) \subseteq Arrivals(s, sent')
      /\ \A s, i : Waiting(s, i, sent) \subseteq Waiting(s, i, sent')
      /\ \A h : Deliveries(h, sent) \subseteq Deliveries(h, sent')
  BY <1>1, <1>3, MoreSent
<1>8. \A s \in Switches : inbuf'[s] \in Seq(Arrivals(s, sent'))
  <2> SUFFICES ASSUME NEW s \in Switches PROVE inbuf'[s] \in Seq(Arrivals(s, sent'))
    OBVIOUS
  <2>1. inbuf[s] \in Seq(Arrivals(s, sent')) /\ inbuf = [x \in Switches |-> inbuf[x]]
    BY <1>7, SeqGrows DEF FrameInv
  <2>2. CASE s = r
    <3>1. inbuf'[s] = Append(inbuf[s], a)
      BY <1>6, <2>1, <2>2
    <3> QED BY <1>5, <2>1, <2>2, <3>1, AppendProperties
  <2>3. CASE s # r
    <3>1. inbuf'[s] = inbuf[s]
      BY <1>6, <2>1, <2>3
    <3> QED BY <2>1, <3>1
  <2> QED BY <2>2, <2>3
<1>9. inbuf' = [x \in Switches |-> inbuf'[x]]
  <2>1. inbuf = [x \in Switches |-> inbuf[x]]
    BY Zenon DEF FrameInv
  <2> QED BY <1>6, <2>1
<1>10. \A s \in Switches, i \in Ports :
         outq'[s][i] \in Seq(Waiting(s, i, sent')) /\ Len(outq'[s][i]) <= Depth
  BY <1>2, <1>7, SeqGrows DEF FrameInv
<1>11. \A h \in Hosts : received'[h] \in Seq(Deliveries(h, sent'))
  BY <1>2, <1>7, SeqGrows DEF FrameInv
<1>12. \A q \in dropped' : q.frame \in GoodFrames(sent')
  BY <1>2, <1>7 DEF FrameInv
<1>13. /\ seq' \in [Switches -> Nat]
       /\ outq' = [s \in Switches |-> [i \in Ports |-> outq'[s][i]]]
       /\ received' = [h \in Hosts |-> received'[h]]
  BY <1>2, Zenon DEF FrameInv
<1> QED BY <1>3, <1>8, <1>9, <1>10, <1>11, <1>12, <1>13, Zenon DEF FrameInv

LEMMA FrameIngress ==
  ASSUME FrameInv, NEW s \in Switches, Ingress(s) PROVE FrameInv'
<1> DEFINE a == Head(inbuf[s])  copies == Copies(s, a.in, a.frame)
           taken == {p \in DOMAIN copies : HasRoom(outq[s][p])}
<1>0. sent' = sent /\ seq' = seq /\ received' = received
  BY DEF Ingress
<1>1. inbuf[s] # <<>> /\ inbuf' = [inbuf EXCEPT ![s] = Tail(@)]
  BY DEF Ingress, Ready
<1>2. /\ outq' = [outq EXCEPT ![s] = [p \in Ports |->
                    IF p \in taken THEN Append(@[p], copies[p]) ELSE @[p]]]
      /\ dropped' = dropped \cup {copies[p] : p \in DOMAIN copies \ taken}
  BY DEF Ingress
<1>3. sent \in Seq(Sendable) /\ inbuf[s] \in Seq(Arrivals(s, sent))
  BY DEF FrameInv
<1>4. a \in Arrivals(s, sent) /\ Tail(inbuf[s]) \in Seq(Arrivals(s, sent))
  BY <1>1, <1>3, HeadTailProperties
<1> HIDE DEF a
<1>5. /\ DOMAIN copies \subseteq Ports
      /\ \A p \in DOMAIN copies : copies[p] \in Waiting(s, p, sent)
  BY <1>3, <1>4, CopiesWait, Zenon
<1> HIDE DEF copies
<1>6. /\ inbuf' = [x \in Switches |-> inbuf'[x]]
      /\ \A x \in Switches : inbuf'[x] \in Seq(Arrivals(x, sent'))
  <2>1. /\ inbuf = [x \in Switches |-> inbuf[x]]
        /\ \A x \in Switches : inbuf[x] \in Seq(Arrivals(x, sent))
    BY Zenon DEF FrameInv
  <2>2. inbuf' = [x \in Switches |-> inbuf'[x]]
    BY <1>1, <2>1
  <2>3. ASSUME NEW x \in Switches PROVE inbuf'[x] \in Seq(Arrivals(x, sent'))
    <3>1. inbuf'[x] = IF x = s THEN Tail(inbuf[s]) ELSE inbuf[x]
      BY <1>1, <2>1
    <3> QED BY <1>0, <1>4, <2>1, <3>1
  <2> QED BY <2>2, <2>3
<1>7. outq = [x \in Switches |-> [p \in Ports |-> outq[x][p]]]
  BY Zenon DEF FrameInv
<1>8. ASSUME NEW x \in Switches, NEW p \in Ports
      PROVE  outq'[x][p] = IF x = s /\ p \in taken THEN Append(outq[s][p], copies[p])
                                                   ELSE outq[x][p]
  <2>1. outq'[x] = IF x = s THEN [y \in Ports |->
                     IF y \in taken THEN Append(outq[s][y], copies[y]) ELSE outq[s][y]] ELSE outq[x]
    BY <1>2, <1>7
  <2> HIDE DEF taken
  <2> QED BY <2>1
<1>9. outq' = [x \in Switches |-> [p \in Ports |-> outq'[x][p]]]
  <2> DEFINE new == [p \in Ports |-> IF p \in taken THEN Append(outq[s][p], copies[p])
                                                     ELSE outq[s][p]]
  <2>1. outq' = [outq EXCEPT ![s] = new]
    BY <1>2
  <2>2. new = [p \in Ports |-> new[p]]
    OBVIOUS
  <2> HIDE DEF new
  <2>3. DOMAIN outq' = Switches /\ outq' = [x \in Switches |-> outq'[x]]
    BY <1>7, <2>1
  <2>4. ASSUME NEW x \in Switches PROVE outq'[x] = [p \in Ports |-> outq'[x][p]]
    <3>1. outq'[x] = IF x = s THEN new ELSE outq[x]
      BY <1>7, <2>1
    <3>2. outq[x] = [p \in Ports |-> outq[x][p]]
      BY <1>7
    <3> QED BY <2>2, <3>1, <3>2, Zenon
  <2> QED BY <2>3, <2>4
<1>10. ASSUME NEW x \in Switches, NEW p \in Ports
       PROVE  outq'[x][p] \in Seq(Waiting(x, p, sent')) /\ Len(outq'[x][p]) <= Depth
  <2>1. outq[x][p] \in Seq(Waiting(x, p, sent)) /\ Len(outq[x][p]) <= Depth /\ Depth \in Nat
    BY DataPlaneAssumption DEF FrameInv, DataPlaneAssumption
  <2>2. CASE x = s /\ p \in taken
    <3>1. outq'[x][p] = Append(outq[s][p], copies[p])
      BY <1>8, <2>2
    <3>2. copies[p] \in Waiting(s, p, sent) /\ Len(outq[s][p]) < Depth
      BY <1>5, <2>2 DEF HasRoom
    <3>3. outq[s][p] \in Seq(Waiting(s, p, sent))
      BY <2>1, <2>2
    <3> DEFINE o == outq[s][p]  n == Append(o, copies[p])
    <3>4. n \in Seq(Waiting(s, p, sent)) /\ Len(n) = Len(o) + 1 /\ Len(o) \in Nat
      BY <3>2, <3>3, AppendProperties, LenProperties
    <3>5. Len(n) <= Depth
      BY <2>1, <3>2, <3>4
    <3> QED BY <1>0, <2>2, <3>1, <3>4, <3>5
  <2>3. CASE ~(x = s /\ p \in taken)
    BY <1>0, <1>8, <2>1, <2>3
  <2> QED BY <2>2, <2>3
<1>11. \A q \in dropped' : q.frame \in GoodFrames(sent')
  <2>1. \A q \in dropped : q.frame \in GoodFrames(sent)
    BY DEF FrameInv
  <2>2. \A p \in DOMAIN copies : copies[p].frame \in GoodFrames(sent)
    BY <1>5 DEF Waiting
  <2> QED BY <1>0, <1>2, <2>1, <2>2
<1>12. /\ sent' \in Seq(Sendable) /\ seq' \in [Switches -> Nat]
       /\ received' = [h \in Hosts |-> received'[h]]
       /\ \A h \in Hosts : received'[h] \in Seq(Deliveries(h, sent'))
  BY <1>0, Zenon DEF FrameInv
<1> QED BY <1>6, <1>9, <1>10, <1>11, <1>12, Zenon DEF FrameInv

LEMMA FrameEgress ==
  ASSUME FrameInv, NEW s \in Switches, NEW out \in Ports, Egress(s, out) PROVE FrameInv'
<1> DEFINE q == Head(outq[s][out])  f == Leaving(s, out, q)  to == Peer[s][out]
<1>0. sent' = sent /\ dropped' = dropped
  BY DEF Egress
<1>1. outq[s][out] # <<>> /\ outq' = [outq EXCEPT ![s][out] = Tail(@)]
  BY DEF Egress, Ready
<1>2. seq' = [seq EXCEPT ![s] = IF q.clone THEN NextSeq(@) ELSE @]
  BY DEF Egress
<1>3. \/ /\ to[1] \in Hosts
         /\ received' = [received EXCEPT ![to[1]] = Append(@, f)] /\ inbuf' = inbuf
      \/ /\ to[1] \notin Hosts
         /\ inbuf' = [inbuf EXCEPT ![to[1]] = Append(@, [frame |-> f, in |-> to[2]])]
         /\ received' = received
  BY Zenon DEF Egress, Arrive
<1>4. /\ sent \in Seq(Sendable) /\ seq \in [Switches -> Nat]
      /\ outq[s][out] \in Seq(Waiting(s, out, sent))
  BY DEF FrameInv
<1>5. q \in Waiting(s, out, sent) /\ Tail(outq[s][out]) \in Seq(Waiting(s, out, sent))
      /\ Len(Tail(outq[s][out])) <= Len(outq[s][out])
  <2> DEFINE o == outq[s][out]
  <2>1. o \in Seq(Waiting(s, out, sent)) /\ o # <<>>
    BY <1>1, <1>4
  <2> HIDE DEF o
  <2>2. Head(o) \in Waiting(s, out, sent) /\ Tail(o) \in Seq(Waiting(s, out, sent))
        /\ Len(Tail(o)) = Len(o) - 1 /\ Len(o) \in Nat
    BY <2>1, HeadTailProperties, LenProperties
  <2>3. Len(Tail(o)) <= Len(o)
    BY <2>2
  <2> QED BY <2>2, <2>3 DEF o
<1> HIDE DEF q
<1>6. /\ out \in DOMAIN Peer[s] /\ f \in GoodFrames(sent)
      /\ to[1] \in Hosts => f \in Deliveries(to[1], sent)
  BY <1>4, <1>5, LeavingIsGood, Zenon
<1> HIDE DEF f
<1>7. seq' \in [Switches -> Nat]
  <2>1. (IF q.clone THEN NextSeq(seq[s]) ELSE seq[s]) \in Nat
    BY <1>4 DEF NextSeq
  <2> QED BY <1>2, <1>4, <2>1
<1>8. outq = [x \in Switches |-> [p \in Ports |-> outq[x][p]]]
  BY Zenon DEF FrameInv
<1>9. ASSUME NEW x \in Switches, NEW p \in Ports
      PROVE  outq'[x][p] = IF x = s /\ p = out THEN Tail(outq[s][out]) ELSE outq[x][p]
  <2>1. outq[s] = [y \in Ports |-> outq[s][y]]
    BY <1>8
  <2>2. outq'[x] = IF x = s THEN [outq[s] EXCEPT ![out] = Tail(outq[s][out])] ELSE outq[x]
    BY <1>1, <1>8
  <2> QED BY <2>1, <2>2
<1>10. outq' = [x \in Switches |-> [p \in Ports |-> outq'[x][p]]]
  <2> DEFINE new == [outq[s] EXCEPT ![out] = Tail(outq[s][out])]
  <2>1. outq' = [outq EXCEPT ![s] = new]
    BY <1>1
  <2>2. outq[s] = [y \in Ports |-> outq[s][y]]
    BY <1>8
  <2>3. new = [p \in Ports |-> new[p]]
    BY <2>2
  <2> HIDE DEF new
  <2>4. DOMAIN outq' = Switches /\ outq' = [x \in Switches |-> outq'[x]]
    BY <1>8, <2>1
  <2>5. ASSUME NEW x \in Switches PROVE outq'[x] = [p \in Ports |-> outq'[x][p]]
    <3>1. outq'[x] = IF x = s THEN new ELSE outq[x]
      BY <1>8, <2>1
    <3>2. outq[x] = [p \in Ports |-> outq[x][p]]
      BY <1>8
    <3> QED BY <2>3, <3>1, <3>2, Zenon
  <2> QED BY <2>4, <2>5
<1>11. ASSUME NEW x \in Switches, NEW p \in Ports
       PROVE  outq'[x][p] \in Seq(Waiting(x, p, sent')) /\ Len(outq'[x][p]) <= Depth
  <2>1. outq[x][p] \in Seq(Waiting(x, p, sent)) /\ Len(outq[x][p]) <= Depth /\ Depth \in Nat
    BY DataPlaneAssumption DEF FrameInv, DataPlaneAssumption
  <2>2. CASE x = s /\ p = out
    <3> DEFINE n == Tail(outq[s][out])
    <3>1. outq'[x][p] = n
      BY <1>9, <2>2
    <3>2. n \in Seq(Waiting(x, p, sent)) /\ Len(n) <= Len(outq[x][p])
      BY <1>5, <2>2
    <3> HIDE DEF n
    <3>3. Len(n) \in Nat /\ Len(outq[x][p]) \in Nat
      BY <2>1, <3>2, LenProperties
    <3>4. Len(n) <= Depth
      BY <2>1, <3>2, <3>3
    <3> QED BY <1>0, <3>1, <3>2, <3>4
  <2>3. CASE ~(x = s /\ p = out)
    BY <1>0, <1>9, <2>1, <2>3
  <2> QED BY <2>2, <2>3
<1>12. /\ inbuf' = [x \in Switches |-> inbuf'[x]]
       /\ \A x \in Switches : inbuf'[x] \in Seq(Arrivals(x, sent'))
       /\ received' = [h \in Hosts |-> received'[h]]
       /\ \A h \in Hosts : received'[h] \in Seq(Deliveries(h, sent'))
  <2>1. /\ inbuf = [x \in Switches |-> inbuf[x]]
        /\ \A x \in Switches : inbuf[x] \in Seq(Arrivals(x, sent))
        /\ received = [h \in Hosts |-> received[h]]
        /\ \A h \in Hosts : received[h] \in Seq(Deliveries(h, sent))
    BY Zenon DEF FrameInv
  <2>2. CASE to[1] \in Hosts
    <3> DEFINE h == to[1]
    <3>1. received' = [received EXCEPT ![h] = Append(@, f)] /\ inbuf' = inbuf
      BY <1>3, <2>2, Zenon
    <3>2. f \in Deliveries(h, sent) /\ h \in Hosts
      BY <1>6, <2>2
    <3> HIDE DEF h
    <3>3. received' = [x \in Hosts |-> received'[x]]
      BY <2>1, <3>1
    <3>4. ASSUME NEW x \in Hosts PROVE received'[x] \in Seq(Deliveries(x, sent'))
      <4>1. received'[x] = IF x = h THEN Append(received[h], f) ELSE received[x]
        BY <2>1, <3>1
      <4>2. Append(received[h], f) \in Seq(Deliveries(h, sent))
        BY <2>1, <3>2, AppendProperties
      <4> QED BY <1>0, <2>1, <4>1, <4>2
    <3> QED BY <1>0, <2>1, <3>1, <3>3, <3>4
  <2>3. CASE to[1] \notin Hosts
    <3> DEFINE r == to[1]  in == to[2]  a == [frame |-> f, in |-> in]
    <3>1. received' = received /\ inbuf' = [inbuf EXCEPT ![r] = Append(@, a)]
      BY <1>3, <2>3, Zenon
    <3>2. r \in Switches /\ in \in Ports /\ in \notin Tables[r].source
      <4>1. to \in Switches \X Ports
        BY <1>6, <2>3, TablesAssumption DEF TablesAssumption
      <4>2. \A x \in Switches : to[1] = x => to[2] \notin Tables[x].source
        BY <1>6, TablesAssumption, Zenon DEF TablesAssumption
      <4> HIDE DEF to
      <4>3. to[1] \in Switches /\ to[2] \in Ports
        BY <4>1
      <4> QED BY <4>2, <4>3
    <3> HIDE DEF r, in
    <3>3. a \in Arrivals(r, sent)
      <4>1. a \in [frame : GoodFrames(sent), in : Ports] /\ a.in = in
        BY <1>6, <3>2, Zenon
      <4> HIDE DEF a
      <4> QED BY <3>2, <4>1, Zenon DEF Arrivals
    <3> HIDE DEF a
    <3>4. inbuf' = [x \in Switches |-> inbuf'[x]]
      BY <2>1, <3>1
    <3>5. ASSUME NEW x \in Switches PROVE inbuf'[x] \in Seq(Arrivals(x, sent'))
      <4>1. inbuf'[x] = IF x = r THEN Append(inbuf[r], a) ELSE inbuf[x]
        BY <2>1, <3>1, <3>2
      <4>2. Append(inbuf[r], a) \in Seq(Arrivals(r, sent))
        BY <2>1, <3>2, <3>3, AppendProperties
      <4> QED BY <1>0, <2>1, <4>1, <4>2
    <3> QED BY <1>0, <2>1, <3>1, <3>4, <3>5
  <2> QED BY <2>2, <2>3
<1>13. \A x \in dropped' : x.frame \in GoodFrames(sent')
  BY <1>0, Zenon DEF FrameInv
<1> QED BY <1>0, <1>4, <1>7, <1>10, <1>11, <1>12, <1>13, Zenon DEF FrameInv

LEMMA FrameStep ==
  ASSUME FrameInv, [Next]_vars PROVE FrameInv'
<1>1. CASE Send
  BY <1>1, FrameSend
<1>2. CASE \E s \in Switches : Ingress(s)
  BY <1>2, FrameIngress
<1>3. CASE \E s \in Switches, p \in Ports : Egress(s, p)
  BY <1>3, FrameEgress
<1>4. CASE UNCHANGED vars
  BY <1>4, Zenon DEF vars, FrameInv
<1> QED BY <1>1, <1>2, <1>3, <1>4 DEF Next

------------------------------------------------------------------------------
(* From the invariant to the properties *)

LEMMA ElementsOf ==
  ASSUME NEW A, NEW q \in Seq(A)
  PROVE  Elements(q) \subseteq A
<1>1. \A i \in DOMAIN q : q[i] \in A
  BY ElementOfSeq, LenProperties
<1> QED BY <1>1 DEF Elements

LEMMA FramesAreGood ==
  ASSUME FrameInv PROVE Frames \subseteq GoodFrames(sent)
<1>1. ASSUME NEW a \in Travelling PROVE a.frame \in GoodFrames(sent)
  <2>1. PICK s \in Switches : a \in Elements(inbuf[s])
    BY Zenon DEF Travelling
  <2>2. inbuf[s] \in Seq(Arrivals(s, sent))
    BY Zenon DEF FrameInv
  <2>3. a \in Arrivals(s, sent)
    BY <2>1, <2>2, ElementsOf, Zenon
  <2> QED BY <2>3, Zenon DEF Arrivals
<1>2. ASSUME NEW q \in Queued PROVE q.frame \in GoodFrames(sent)
  <2>1. PICK s \in Switches, p \in Ports : q \in Elements(outq[s][p])
    BY SMT DEF Queued
  <2>2. outq[s][p] \in Seq(Waiting(s, p, sent))
    BY Zenon DEF FrameInv
  <2>3. q \in Waiting(s, p, sent)
    BY <2>1, <2>2, ElementsOf, Zenon
  <2> QED BY <2>3, Zenon DEF Waiting
<1>3. ASSUME NEW f \in Delivered PROVE f \in GoodFrames(sent)
  <2>1. PICK h \in Hosts : f \in Elements(received[h])
    BY Zenon DEF Delivered
  <2>2. received[h] \in Seq(Deliveries(h, sent))
    BY Zenon DEF FrameInv
  <2>3. f \in Deliveries(h, sent)
    BY <2>1, <2>2, ElementsOf, Zenon
  <2> QED BY <2>3, Zenon DEF Deliveries, GoodFrames
<1>4. ASSUME NEW q \in dropped PROVE q.frame \in GoodFrames(sent)
  BY Zenon DEF FrameInv
<1> QED BY <1>1, <1>2, <1>3, <1>4, Zenon DEF Frames

\* A frame has an INT header or is a report, by the kind it is.
LEMMA KindOf ==
  ASSUME NEW S, NEW f \in GoodFrames(S)
  PROVE  /\ f.tel.valid => f \in IntFrames(S)
         /\ f.tel.hops # <<>> => f \in IntFrames(S)
         /\ f.report.valid => f \in ReportFrames(S)
         /\ ~f.report.valid => f \notin ReportFrames(S)
<1>1. NoInt.valid = FALSE /\ NoInt.hops = <<>> /\ NoReport.valid = FALSE
  BY DEF NoInt, NoReport
<1>2. f \in PlainFrames(S) \cup ReportFrames(S) => f.tel = NoInt
  BY Zenon DEF PlainFrames, ReportFrames
<1>3. f \in PlainFrames(S) \cup IntFrames(S) => f.report = NoReport
  BY Zenon DEF PlainFrames, IntFrames, CarryingFrames, DataFrames
<1>4. f \in ReportFrames(S) => f.report.valid = TRUE
  BY Zenon DEF ReportFrames, Reports
<1> QED BY <1>1, <1>2, <1>3, <1>4, Zenon DEF GoodFrames

\* A packet without INT headers is the one that was sent, but for its path.
LEMMA PlainIsAsSent ==
  ASSUME NEW S, NEW f \in PlainFrames(S)
  PROVE  f = [Frame(f.id, S[f.id]) EXCEPT !.path = f.path]
<1> DEFINE p == S[f.id]
<1>1. /\ f \in AllFrames /\ f.report = NoReport /\ f.tel = NoInt
      /\ f.src = p.src /\ f.dst = p.dst /\ f.l4 = p.l4 /\ f.hl = p.hl
      /\ f.len = p.len /\ f.ulen = p.ulen /\ f.dscp = p.dscp
  BY DEF PlainFrames, DataFrames
<1> HIDE DEF p
<1> DEFINE g == [id |-> f.id, src |-> p.src, dst |-> p.dst, l4 |-> p.l4, hl |-> p.hl,
                 len |-> p.len, ulen |-> p.ulen, dscp |-> p.dscp,
                 tel |-> NoInt, report |-> NoReport, path |-> f.path]
<1>2. [Frame(f.id, p) EXCEPT !.path = f.path] = g
  BY SMTT(30) DEF Frame
<1>3. f = g
  BY <1>1, SMTT(30) DEF AllFrames
<1> QED BY <1>2, <1>3 DEF p

\* Every stack, of a frame or in a report, is one the switches built.
LEMMA StacksAreGood ==
  ASSUME FrameInv, NEW x \in Stacks
  PROVE  x.tel \in Tels /\ StackOK(x.tel) /\ Tells(x.tel, x.path)
<1>1. CASE \E f \in Frames : f.tel.valid /\ x = [tel |-> f.tel, path |-> f.path]
  <2>1. PICK f \in Frames : f.tel.valid /\ x = [tel |-> f.tel, path |-> f.path]
    BY <1>1
  <2>2. f \in IntFrames(sent)
    BY <2>1, FramesAreGood, KindOf, Zenon
  <2>3. StackOK(f.tel) /\ Tells(f.tel, f.path) /\ f.tel \in Tels
    BY <2>2, CarryingFields, Zenon DEF IntFrames
  <2>4. x.tel = f.tel /\ x.path = f.path
    BY <2>1, Zenon
  <2> QED BY <2>3, <2>4, Zenon
<1>2. CASE \E f \in Frames : f.report.valid
                              /\ x = [tel |-> f.report.tel, path |-> f.report.path]
  <2>1. PICK f \in Frames : f.report.valid
                             /\ x = [tel |-> f.report.tel, path |-> f.report.path]
    BY <1>2
  <2>2. f \in ReportFrames(sent)
    BY <2>1, FramesAreGood, KindOf, Zenon
  <2>3. StackOK(f.report.tel) /\ Tells(f.report.tel, f.report.path) /\ f.report.tel \in Tels
    BY <2>2, Zenon DEF ReportFrames, Reports
  <2>4. x.tel = f.report.tel /\ x.path = f.report.path
    BY <2>1, Zenon
  <2> QED BY <2>3, <2>4, Zenon
<1> QED BY <1>1, <1>2, Zenon DEF Stacks

\* Every hop has the words of the instructions, InsCnt of them.
LEMMA WordsOfHops ==
  ASSUME NEW hops \in Seq(Hops)
  PROVE  WordsOf(hops) = InsCnt * Len(hops)
<1> DEFINE n == Len(hops)
           Words(w) == w = [i \in 0..n |-> IF i = 0 THEN 0
                                            ELSE w[i - 1] + Cardinality(hops[i].bits)]
           w == CHOOSE w : Words(w)
           Count == [i \in 0..n |-> InsCnt * i]
<1>1. n \in Nat /\ InsCnt \in Nat
  BY Numbers
<1>2. ASSUME NEW i \in 1..n PROVE Cardinality(hops[i].bits) = InsCnt
  <2>1. hops[i] \in Hops
    BY <1>2
  <2>2. hops[i].bits = Instructed
    BY <2>1 DEF Hops
  <2> QED BY <2>2, InstructionsAssumption DEF InstructionsAssumption
<1>3. Words(Count)
  <2>1. ASSUME NEW i \in 0..n
        PROVE  Count[i] = IF i = 0 THEN 0 ELSE Count[i - 1] + Cardinality(hops[i].bits)
    <3>1. CASE i = 0
      BY <1>1, <3>1
    <3>2. CASE i # 0
      <4>1. i \in 1..n /\ i - 1 \in 0..n /\ i - 1 \in Nat /\ (i - 1) + 1 = i
        BY <1>1, <3>2
      <4>2. InsCnt * i = InsCnt * (i - 1) + InsCnt
        BY <4>1, Numbers
      <4> QED BY <1>2, <3>2, <4>1, <4>2
    <3> QED BY <3>1, <3>2
  <2> QED BY <2>1
<1>4. Words(w)
  <2> HIDE DEF Words, Count
  <2> QED BY <1>3
<1>5. \A i \in 0..n : w[i] = IF i = 0 THEN 0 ELSE w[i - 1] + Cardinality(hops[i].bits)
  <2> HIDE DEF w
  <2> QED BY <1>4
<1> DEFINE N == {i \in Nat : i <= n => w[i] = InsCnt * i}
<1> HIDE DEF w
<1>6. 0 \in N
  BY <1>1, <1>5
<1>7. ASSUME NEW i \in Nat, i \in N PROVE i + 1 \in N
  <2> SUFFICES ASSUME i + 1 <= n PROVE w[i + 1] = InsCnt * (i + 1)
    BY <1>1
  <2>1. i \in 0..n /\ i + 1 \in 0..n /\ i + 1 \in 1..n /\ i + 1 # 0 /\ (i + 1) - 1 = i
    BY <1>1
  <2>2. w[i + 1] = w[i] + InsCnt
    BY <1>2, <1>5, <2>1
  <2> QED BY <1>7, <2>1, <2>2, Numbers
<1>8. \A i \in Nat : i \in N
  <2> HIDE DEF N
  <2> QED BY <1>6, <1>7, NaturalsBySteps
<1>9. w[n] = InsCnt * n
  BY <1>1, <1>8
<1> QED BY <1>9 DEF WordsOf, w

------------------------------------------------------------------------------
(* Theorems *)

\* Every packet, wherever it is, is a packet that was sent, the same packet with
\* an INT header and a stack of hops, or a report about it; it waits only where
\* the tables send it.
THEOREM FramesAreGoodAlways == Spec => []FrameInv
<1>1. Init => FrameInv
  BY FrameInit
<1>2. FrameInv /\ [Next]_vars => FrameInv'
  BY FrameStep
<1> QED BY <1>1, <1>2, PTL DEF Spec

\* The header fields keep their widths, and the queues their depth.
THEOREM HeaderTypes == Spec => []TypeOK
<1>1. FrameInv => TypeOK
  <2> SUFFICES ASSUME FrameInv PROVE TypeOK
    OBVIOUS
  <2>1. ASSUME NEW f \in Frames
        PROVE  /\ f.id \in 1..Len(sent)
               /\ f.len \in UInt16 /\ f.ulen \in UInt16 /\ f.dscp \in UInt6
               /\ f.tel.words \in UInt8 /\ f.tel.left \in UInt8
    <3>1. f \in AllFrames /\ f.id \in 1..Len(sent)
      BY FramesAreGood, GoodFields, Zenon
    <3>2. f.tel \in Tels /\ f.len \in UInt16 /\ f.ulen \in UInt16 /\ f.dscp \in UInt6
      BY <3>1, Zenon DEF AllFrames
    <3>3. f.tel.words \in UInt8 /\ f.tel.left \in UInt8
      BY <3>2, Zenon DEF Tels
    <3> QED BY <3>1, <3>2, <3>3
  <2>2. \A s \in Switches, p \in Ports : Len(outq[s][p]) <= Depth
    BY Zenon DEF FrameInv
  <2>3. sent \in Seq(Sendable) /\ seq \in [Switches -> Nat]
    BY Zenon DEF FrameInv
  <2> QED BY <2>1, <2>2, <2>3, Zenon DEF TypeOK
<1> QED BY <1>1, FramesAreGoodAlways, PTL

\* A host receives what was sent to it, as it was sent.
THEOREM HostsSeeNoInt == Spec => []Transparent
<1>1. FrameInv => Transparent
  <2> SUFFICES ASSUME FrameInv, NEW h \in Hosts, NEW f \in Elements(received[h])
               PROVE  /\ f.dst = h
                      /\ ~f.report.valid => f = [Frame(f.id, sent[f.id]) EXCEPT !.path = f.path]
    BY Zenon DEF Transparent
  <2>1. f \in Deliveries(h, sent)
    <3>1. received[h] \in Seq(Deliveries(h, sent))
      BY Zenon DEF FrameInv
    <3> QED BY <3>1, ElementsOf, Zenon
  <2>2. f \in PlainFrames(sent) \cup ReportFrames(sent) /\ f \in GoodFrames(sent) /\ f.dst = h
    BY <2>1, Zenon DEF Deliveries, GoodFrames
  <2>3. ASSUME ~f.report.valid PROVE f = [Frame(f.id, sent[f.id]) EXCEPT !.path = f.path]
    <3>1. f \in PlainFrames(sent)
      BY <2>2, <2>3, KindOf, Zenon
    <3> QED BY <3>1, PlainIsAsSent
  <2> QED BY <2>2, <2>3, Zenon
<1> QED BY <1>1, FramesAreGoodAlways, PTL

\* The lengths of a packet with an INT header are those it was sent with and the
\* words its shim counts: no hop, flag or clone makes them disagree, and no sum
\* wraps in 16 bits.
THEOREM LengthsAgree == Spec => []LengthsAddUp
<1>1. FrameInv => LengthsAddUp
  <2> SUFFICES ASSUME FrameInv, NEW f \in Frames, f.tel.valid
               PROVE  /\ f.len = sent[f.id].len + 4 * f.tel.words
                      /\ f.l4 = "udp" => f.ulen = sent[f.id].ulen + 4 * f.tel.words
                      /\ f.dscp = IntDscp /\ f.tel.saved = sent[f.id].dscp
    BY Zenon DEF LengthsAddUp
  <2>1. f \in CarryingFrames(sent)
    BY FramesAreGood, KindOf, Zenon DEF IntFrames
  <2> QED BY <2>1 DEF CarryingFrames
<1> QED BY <1>1, FramesAreGoodAlways, PTL

\* The shim counts the words of the stack, for every instruction mask, and
\* int_data has room for them.
THEOREM ShimCountsStack == Spec => []StackMatchesShim
<1>1. FrameInv => StackMatchesShim
  <2> SUFFICES ASSUME FrameInv, NEW x \in Stacks
               PROVE  /\ x.tel.words = IntWords + WordsOf(x.tel.hops)
                      /\ x.tel.words - IntWords <= VarbitWords
    BY Zenon DEF StackMatchesShim
  <2>1. x.tel \in Tels /\ StackOK(x.tel)
    BY StacksAreGood
  <2>2. x.tel.hops \in Seq(Hops)
    BY <2>1, Zenon DEF Tels
  <2>3. Len(x.tel.hops) \in 0..MaxHop /\ x.tel.words = IntWords + InsCnt * Len(x.tel.hops)
    BY <2>1, Zenon DEF StackOK
  <2>4. WordsOf(x.tel.hops) = InsCnt * Len(x.tel.hops)
    BY <2>2, WordsOfHops
  <2>5. x.tel.words - IntWords <= VarbitWords
    <3>1. InsCnt * Len(x.tel.hops) \in Nat /\ InsCnt * Len(x.tel.hops) <= 64
      BY <2>3, Numbers
    <3> DEFINE k == InsCnt * Len(x.tel.hops)
    <3>2. k \in Nat /\ k <= 64 /\ x.tel.words = IntWords + k
      BY <2>3, <3>1
    <3> HIDE DEF k
    <3> QED BY <3>2 DEF IntWords, VarbitWords
  <2> QED BY <2>3, <2>4, <2>5
<1> QED BY <1>1, FramesAreGoodAlways, PTL

\* The stack of a packet or a report is the route it took, or its flags say what
\* is missing, on every network and for every number of hops.
THEOREM StacksTellRoutes == Spec => []StackIsRoute
<1>1. FrameInv => StackIsRoute
  BY StacksAreGood, Zenon DEF StackIsRoute
<1> QED BY <1>1, FramesAreGoodAlways, PTL

\* A packet that gained metadata still fits the MTU of the switch that added it.
THEOREM HopsFitMtu == Spec => []WithinMtu
<1>1. FrameInv => WithinMtu
  <2> SUFFICES ASSUME FrameInv, NEW f \in Frames, f.tel.hops # <<>>
               PROVE  f.len <= Tables[f.tel.hops[1].switch].mtu
    BY Zenon DEF WithinMtu
  <2>1. f \in CarryingFrames(sent)
    BY FramesAreGood, KindOf, Zenon DEF IntFrames
  <2> QED BY <2>1, Zenon DEF CarryingFrames
<1> QED BY <1>1, FramesAreGoodAlways, PTL

------------------------------------------------------------------------------
(* Every packet and copy under way, by the queue it waits in *)

Item(f, in, sink, clone) == [frame |-> f, in |-> in, sink |-> sink, clone |-> clone]
Packet(f, in) == Item(f, in, FALSE, FALSE)

Items == [frame : AllFrames, in : Ports \cup {0}, sink : BOOLEAN, clone : BOOLEAN]

AtInput(s) == <<"in", s, 0>>
AtOutput(s, p) == <<"out", s, p>>
AtHost(h) == <<"host", h, 0>>

Places == {AtInput(s) : s \in Switches} \cup {AtOutput(x[1], x[2]) : x \in Switches \X Ports}
            \cup {AtHost(h) : h \in Hosts}

(* The queues of a state, given inbuf, outq and received. *)
FromInput(q) == [i \in 1..Len(q) |-> Packet(q[i].frame, q[i].in)]
FromHost(q) == [i \in 1..Len(q) |-> Packet(q[i], 0)]

QueuesOf(I, O, H) ==
  [x \in Places |-> IF x[1] = "in" THEN FromInput(I[x[2]])
                    ELSE IF x[1] = "out" THEN O[x[2]][x[3]]
                    ELSE FromHost(H[x[2]])]

Queues == QueuesOf(inbuf, outq, received)

(* A packet of a host is one thing, and the clone or the report another. *)
IsCopy(e) == e.clone = TRUE \/ e.frame.report # NoReport
Key(e) == <<e.frame.id, IF IsCopy(e) THEN "copy" ELSE "packet">>

\* What is in queues Q or dropped (D); nothing is there twice.
InAll(Q, D) == D \cup UNION {{Q[x][i] : i \in DOMAIN Q[x]} : x \in Places}

Distinct(Q, D) ==
  /\ \A x, y \in Places : \A i \in DOMAIN Q[x], j \in DOMAIN Q[y] :
       Key(Q[x][i]) = Key(Q[y][j]) => x = y /\ i = j
  /\ \A x \in Places : \A i \in DOMAIN Q[x] : \A d \in D : Key(Q[x][i]) # Key(d)
  /\ \A d, e \in D : Key(d) = Key(e) => d = e

Taken(Q, x) == [Q EXCEPT ![x] = Tail(@)]
Given(Q, x, e) == [Q EXCEPT ![x] = Append(@, e)]

LEMMA InAllIs ==
  ASSUME NEW Q, NEW D, NEW e
  PROVE  e \in InAll(Q, D) <=> \/ e \in D
                               \/ \E x \in Places : \E i \in DOMAIN Q[x] : e = Q[x][i]
<1>1. e \in UNION {{Q[x][i] : i \in DOMAIN Q[x]} : x \in Places}
        <=> \E x \in Places : e \in {Q[x][i] : i \in DOMAIN Q[x]}
  BY Zenon
<1> QED BY <1>1 DEF InAll

LEMMA TakenIs ==
  ASSUME NEW E, NEW Q \in [Places -> Seq(E)], NEW x \in Places, Q[x] # <<>>
  PROVE  /\ Taken(Q, x) \in [Places -> Seq(E)]
         /\ \A y \in Places : y # x => Taken(Q, x)[y] = Q[y]
         /\ DOMAIN Taken(Q, x)[x] = 1..(Len(Q[x]) - 1)
         /\ \A i \in 1..(Len(Q[x]) - 1) : Taken(Q, x)[x][i] = Q[x][i + 1]
         /\ Len(Q[x]) \in Nat \ {0} /\ DOMAIN Q[x] = 1..Len(Q[x]) /\ Head(Q[x]) = Q[x][1]
<1> DEFINE s == Q[x]  R == Taken(Q, x)
<1>1. s \in Seq(E) /\ s # <<>>
  OBVIOUS
<1>2. R = [Q EXCEPT ![x] = Tail(s)]
  BY DEF Taken
<1>3. R[x] = Tail(s) /\ \A y \in Places : y # x => R[y] = Q[y]
  BY <1>2
<1> HIDE DEF s
<1>4. /\ Tail(s) \in Seq(E) /\ Len(Tail(s)) = Len(s) - 1 /\ Len(s) \in Nat \ {0}
      /\ \A i \in 1..Len(Tail(s)) : Tail(s)[i] = s[i + 1]
      /\ Head(s) = s[1] /\ DOMAIN s = 1..Len(s)
  BY <1>1, HeadTailProperties, LenProperties, EmptySeq
<1>5. R \in [Places -> Seq(E)]
  BY <1>2, <1>4
<1>6. DOMAIN Tail(s) = 1..Len(Tail(s))
  BY <1>4, LenProperties
<1> HIDE DEF R
<1> QED BY <1>3, <1>4, <1>5, <1>6 DEF s, R

LEMMA GivenIs ==
  ASSUME NEW E, NEW Q \in [Places -> Seq(E)], NEW x \in Places, NEW e \in E
  PROVE  /\ Given(Q, x, e) \in [Places -> Seq(E)]
         /\ \A y \in Places : y # x => Given(Q, x, e)[y] = Q[y]
         /\ DOMAIN Given(Q, x, e)[x] = 1..(Len(Q[x]) + 1)
         /\ \A i \in 1..Len(Q[x]) : Given(Q, x, e)[x][i] = Q[x][i]
         /\ Given(Q, x, e)[x][Len(Q[x]) + 1] = e
         /\ Len(Q[x]) \in Nat /\ DOMAIN Q[x] = 1..Len(Q[x])
<1> DEFINE s == Q[x]  R == Given(Q, x, e)
<1>1. s \in Seq(E)
  OBVIOUS
<1>2. R = [Q EXCEPT ![x] = Append(s, e)]
  BY DEF Given
<1>3. R[x] = Append(s, e) /\ \A y \in Places : y # x => R[y] = Q[y]
  BY <1>2
<1> HIDE DEF s
<1>4. /\ Append(s, e) \in Seq(E) /\ Len(Append(s, e)) = Len(s) + 1 /\ Len(s) \in Nat
      /\ \A i \in 1..Len(s) : Append(s, e)[i] = s[i]
      /\ Append(s, e)[Len(s) + 1] = e /\ DOMAIN s = 1..Len(s)
  BY <1>1, AppendProperties, LenProperties
<1>5. R \in [Places -> Seq(E)]
  BY <1>2, <1>4
<1>6. DOMAIN Append(s, e) = 1..(Len(s) + 1)
  BY <1>4, LenProperties
<1> HIDE DEF R
<1> QED BY <1>3, <1>4, <1>5, <1>6 DEF s, R

\* What is taken out of its queue is nowhere else.
LEMMA TakeOne ==
  ASSUME NEW E, NEW Q \in [Places -> Seq(E)], NEW D, NEW x \in Places, Q[x] # <<>>, Distinct(Q, D)
  PROVE  /\ Distinct(Taken(Q, x), D)
         /\ InAll(Taken(Q, x), D) = InAll(Q, D) \ {Head(Q[x])}
         /\ \A e \in InAll(Taken(Q, x), D) : Key(e) # Key(Head(Q[x]))
<1> DEFINE R == Taken(Q, x)
<1>1. /\ R \in [Places -> Seq(E)] /\ \A y \in Places : y # x => R[y] = Q[y]
      /\ DOMAIN R[x] = 1..(Len(Q[x]) - 1)
      /\ \A i \in 1..(Len(Q[x]) - 1) : R[x][i] = Q[x][i + 1]
      /\ Len(Q[x]) \in Nat \ {0} /\ DOMAIN Q[x] = 1..Len(Q[x]) /\ Head(Q[x]) = Q[x][1]
  BY TakenIs
<1> HIDE DEF R
<1> DEFINE from(y, i) == IF y = x THEN i + 1 ELSE i
<1>2. ASSUME NEW y \in Places, NEW i \in DOMAIN R[y]
      PROVE  /\ from(y, i) \in DOMAIN Q[y] /\ R[y][i] = Q[y][from(y, i)]
             /\ ~(y = x /\ from(y, i) = 1)
  <2>1. CASE y = x
    BY <1>1, <2>1
  <2>2. CASE y # x
    BY <1>1, <2>2
  <2> QED BY <2>1, <2>2
<1>3. \A i, j \in Nat : from(x, i) = from(x, j) => i = j
  OBVIOUS
<1>9. \A y : y # x => \A i : from(y, i) = i
  OBVIOUS
<1> HIDE DEF from
<1>4. Distinct(R, D)
  <2>1. ASSUME NEW y \in Places, NEW z \in Places, NEW i \in DOMAIN R[y], NEW j \in DOMAIN R[z],
               Key(R[y][i]) = Key(R[z][j])
        PROVE  y = z /\ i = j
    <3>1. Key(Q[y][from(y, i)]) = Key(Q[z][from(z, j)])
      BY <1>2, <2>1
    <3>2. y = z /\ from(y, i) = from(z, j)
      BY <1>2, <3>1 DEF Distinct
    <3>3. CASE y = x
      <4>1. i \in Nat /\ j \in Nat
        BY <1>1, <3>2, <3>3
      <4> QED BY <1>3, <3>2, <3>3, <4>1
    <3>4. CASE y # x
      BY <1>9, <3>2, <3>4
    <3> QED BY <3>3, <3>4
  <2>2. ASSUME NEW y \in Places, NEW i \in DOMAIN R[y], NEW d \in D PROVE Key(R[y][i]) # Key(d)
    BY <1>2 DEF Distinct
  <2>3. \A d, e \in D : Key(d) = Key(e) => d = e
    BY Zenon DEF Distinct
  <2> QED BY <2>1, <2>2, <2>3 DEF Distinct
<1>5. 1 \in DOMAIN Q[x]
  BY <1>1
<1>6. ASSUME NEW e \in InAll(R, D) PROVE e \in InAll(Q, D) /\ Key(e) # Key(Q[x][1])
  <2>1. CASE e \in D
    BY <1>5, <2>1, InAllIs DEF Distinct
  <2>2. CASE \E y \in Places : \E i \in DOMAIN R[y] : e = R[y][i]
    <3>1. PICK y \in Places : \E i \in DOMAIN R[y] : e = R[y][i]
      BY <2>2
    <3>2. PICK i \in DOMAIN R[y] : e = R[y][i]
      BY <3>1
    <3>3. from(y, i) \in DOMAIN Q[y] /\ e = Q[y][from(y, i)] /\ ~(y = x /\ from(y, i) = 1)
      BY <1>2, <3>2
    <3> QED BY <1>5, <3>3, InAllIs DEF Distinct
  <2> QED BY <2>1, <2>2, InAllIs
<1>7. ASSUME NEW e \in InAll(Q, D), e # Q[x][1] PROVE e \in InAll(R, D)
  <2>1. CASE e \in D
    BY <2>1, InAllIs
  <2>2. CASE \E y \in Places : \E i \in DOMAIN Q[y] : e = Q[y][i]
    <3>1. PICK y \in Places : \E i \in DOMAIN Q[y] : e = Q[y][i]
      BY <2>2
    <3>2. PICK i \in DOMAIN Q[y] : e = Q[y][i]
      BY <3>1
    <3>3. CASE y # x
      BY <1>1, <3>2, <3>3, InAllIs
    <3>4. CASE y = x
      <4>1. i \in 2..Len(Q[x])
        BY <1>1, <1>7, <3>2, <3>4
      <4>2. i - 1 \in DOMAIN R[x] /\ R[x][i - 1] = e
        BY <1>1, <3>2, <3>4, <4>1
      <4> QED BY <4>2, InAllIs
    <3> QED BY <3>3, <3>4
  <2> QED BY <2>1, <2>2, InAllIs
<1>8. InAll(R, D) = InAll(Q, D) \ {Q[x][1]}
  BY <1>6, <1>7
<1> QED BY <1>1, <1>4, <1>6, <1>8 DEF R

\* e joins the queue of x, or is dropped.
Passed(Q, D, R, B, x, e) ==
  \/ R = Given(Q, x, e) /\ B = D
  \/ R = Q /\ B = D \cup {e}

Adds(Q, D, R, B, e) == InAll(R, B) = InAll(Q, D) \cup {e}

LEMMA PassedIs ==
  ASSUME NEW E, NEW Q \in [Places -> Seq(E)], NEW D, NEW x \in Places, NEW e \in E,
         NEW R, NEW B, Passed(Q, D, R, B, x, e)
  PROVE  /\ R \in [Places -> Seq(E)]
         /\ Adds(Q, D, R, B, e)
<1>1. CASE R = Q /\ B = D \cup {e}
  <2>1. InAll(R, B) = InAll(Q, D) \cup {e}
    BY <1>1, InAllIs
  <2> QED BY <1>1, <2>1 DEF Adds
<1>2. CASE R = Given(Q, x, e) /\ B = D
  <2> DEFINE n == Len(Q[x]) + 1
  <2>1. /\ R \in [Places -> Seq(E)] /\ \A y \in Places : y # x => R[y] = Q[y]
        /\ DOMAIN R[x] = 1..n /\ \A i \in 1..Len(Q[x]) : R[x][i] = Q[x][i]
        /\ R[x][n] = e /\ Len(Q[x]) \in Nat /\ DOMAIN Q[x] = 1..Len(Q[x])
    BY <1>2, GivenIs
  <2>2. ASSUME NEW y \in Places, NEW i \in DOMAIN R[y]
        PROVE  \/ i \in DOMAIN Q[y] /\ R[y][i] = Q[y][i]
               \/ y = x /\ i = n /\ R[y][i] = e
    BY <2>1
  <2>3. n \in DOMAIN R[x] /\ \A y \in Places : \A i \in DOMAIN Q[y] :
                               i \in DOMAIN R[y] /\ R[y][i] = Q[y][i]
    <3>1. n \in DOMAIN R[x]
      BY <2>1
    <3>2. ASSUME NEW y \in Places, NEW i \in DOMAIN Q[y]
          PROVE  i \in DOMAIN R[y] /\ R[y][i] = Q[y][i]
      <4>1. CASE y = x
        BY <2>1, <4>1
      <4>2. CASE y # x
        BY <2>1, <4>2
      <4> QED BY <4>1, <4>2
    <3> QED BY <3>1, <3>2
  <2> HIDE DEF n
  <2>4. InAll(R, B) = InAll(Q, D) \cup {e}
    <3>1. ASSUME NEW f \in InAll(R, B) PROVE f \in InAll(Q, D) \cup {e}
      BY <1>2, <2>2, InAllIs
    <3>2. ASSUME NEW f \in InAll(Q, D) \cup {e} PROVE f \in InAll(R, B)
      BY <1>2, <2>1, <2>3, InAllIs
    <3> QED BY <3>1, <3>2
  <2> QED BY <2>1, <2>4 DEF Adds
<1> QED BY <1>1, <1>2 DEF Passed

LEMMA PassOne ==
  ASSUME NEW E, NEW Q \in [Places -> Seq(E)], NEW D, NEW x \in Places, NEW e \in E,
         Distinct(Q, D), \A f \in InAll(Q, D) : Key(f) # Key(e),
         NEW R, NEW B, Passed(Q, D, R, B, x, e)
  PROVE  /\ R \in [Places -> Seq(E)] /\ Distinct(R, B)
         /\ InAll(R, B) = InAll(Q, D) \cup {e}
<1>1. R \in [Places -> Seq(E)] /\ InAll(R, B) = InAll(Q, D) \cup {e}
  <2>1. R \in [Places -> Seq(E)]
    BY ONLY Q \in [Places -> Seq(E)], x \in Places, e \in E, Passed(Q, D, R, B, x, e), PassedIs
  <2>2. Adds(Q, D, R, B, e)
    BY ONLY Q \in [Places -> Seq(E)], x \in Places, e \in E, Passed(Q, D, R, B, x, e), PassedIs
  <2> QED BY <2>1, <2>2 DEF Adds
<1>2. \A y \in Places : \A i \in DOMAIN Q[y] : Key(Q[y][i]) # Key(e)
  BY InAllIs
<1>3. \A d \in D : Key(d) # Key(e)
  BY InAllIs
<1>4. CASE R = Q /\ B = D \cup {e}
  <2>1. \A y, z \in Places : \A i \in DOMAIN R[y], j \in DOMAIN R[z] :
          Key(R[y][i]) = Key(R[z][j]) => y = z /\ i = j
    BY <1>4 DEF Distinct
  <2>2. \A y \in Places : \A i \in DOMAIN R[y] : \A d \in B : Key(R[y][i]) # Key(d)
    BY <1>2, <1>4 DEF Distinct
  <2>3. \A d, f \in B : Key(d) = Key(f) => d = f
    BY <1>3, <1>4 DEF Distinct
  <2> QED BY <1>1, <2>1, <2>2, <2>3, Zenon DEF Distinct
<1>5. CASE R = Given(Q, x, e) /\ B = D
  <2> DEFINE n == Len(Q[x]) + 1
  <2>1. /\ \A y \in Places : y # x => R[y] = Q[y]
        /\ DOMAIN R[x] = 1..n /\ \A i \in 1..Len(Q[x]) : R[x][i] = Q[x][i]
        /\ R[x][n] = e /\ Len(Q[x]) \in Nat /\ DOMAIN Q[x] = 1..Len(Q[x])
    BY <1>5, GivenIs
  <2>2. ASSUME NEW y \in Places, NEW i \in DOMAIN R[y]
        PROVE  \/ i \in DOMAIN Q[y] /\ R[y][i] = Q[y][i] /\ ~(y = x /\ i = n)
               \/ y = x /\ i = n /\ R[y][i] = e
    BY <2>1
  <2> HIDE DEF n
  <2>3. ASSUME NEW y \in Places, NEW z \in Places, NEW i \in DOMAIN R[y], NEW j \in DOMAIN R[z],
               Key(R[y][i]) = Key(R[z][j])
        PROVE  y = z /\ i = j
    <3>1. \A a, b \in Places : \A k \in DOMAIN Q[a], l \in DOMAIN Q[b] :
            Key(Q[a][k]) = Key(Q[b][l]) => a = b /\ k = l
      BY DEF Distinct
    <3> QED BY <1>2, <2>2, <2>3, <3>1
  <2>4. ASSUME NEW y \in Places, NEW i \in DOMAIN R[y], NEW d \in D PROVE Key(R[y][i]) # Key(d)
    <3>1. \A k \in DOMAIN Q[y] : Key(Q[y][k]) # Key(d)
      BY DEF Distinct
    <3> QED BY <1>3, <2>2, <3>1
  <2>5. \A d, f \in D : Key(d) = Key(f) => d = f
    BY Zenon DEF Distinct
  <2> QED BY <1>1, <1>5, <2>3, <2>4, <2>5 DEF Distinct
<1> QED BY <1>4, <1>5 DEF Passed

------------------------------------------------------------------------------
(* What the steps do to the queues *)

LEMMA PlacesAre ==
  /\ \A s \in Switches : AtInput(s) \in Places
  /\ \A s \in Switches, p \in Ports : AtOutput(s, p) \in Places
  /\ \A h \in Hosts : AtHost(h) \in Places
  /\ \A x \in Places : \/ \E s \in Switches : x = AtInput(s)
                       \/ \E s \in Switches, p \in Ports : x = AtOutput(s, p)
                       \/ \E h \in Hosts : x = AtHost(h)
<1>1. ASSUME NEW s \in Switches, NEW p \in Ports PROVE AtOutput(s, p) \in Places
  <2> DEFINE z == <<s, p>>
  <2>1. z \in Switches \X Ports /\ z[1] = s /\ z[2] = p
    OBVIOUS
  <2> HIDE DEF z
  <2>2. AtOutput(z[1], z[2]) \in {AtOutput(x[1], x[2]) : x \in Switches \X Ports}
    BY <2>1
  <2> QED BY <2>1, <2>2 DEF Places
<1>2. ASSUME NEW x \in {AtOutput(y[1], y[2]) : y \in Switches \X Ports}
      PROVE  \E s \in Switches, p \in Ports : x = AtOutput(s, p)
  <2>1. PICK y \in Switches \X Ports : x = AtOutput(y[1], y[2])
    OBVIOUS
  <2>2. y[1] \in Switches /\ y[2] \in Ports
    OBVIOUS
  <2> QED BY <2>1, <2>2
<1>3. \A s \in Switches : AtInput(s) \in Places
  BY Zenon DEF Places
<1>4. \A h \in Hosts : AtHost(h) \in Places
  BY Zenon DEF Places
<1>5. \A x \in Places : \/ x \in {AtInput(s) : s \in Switches}
                       \/ x \in {AtOutput(y[1], y[2]) : y \in Switches \X Ports}
                       \/ x \in {AtHost(h) : h \in Hosts}
  BY Zenon DEF Places
<1> QED BY <1>1, <1>2, <1>3, <1>4, <1>5

LEMMA PlacesDiffer ==
  /\ \A s, t, p : AtInput(s) # AtOutput(t, p)
  /\ \A s, h : AtInput(s) # AtHost(h)
  /\ \A s, p, h : AtOutput(s, p) # AtHost(h)
  /\ \A s, t : AtInput(s) = AtInput(t) => s = t
  /\ \A s, t, p, o : AtOutput(s, p) = AtOutput(t, o) => s = t /\ p = o
  /\ \A g, h : AtHost(g) = AtHost(h) => g = h
<1>1. \A s : AtInput(s)[1] = "in" /\ AtInput(s)[2] = s
  BY DEF AtInput
<1>2. \A s, p : AtOutput(s, p)[1] = "out" /\ AtOutput(s, p)[2] = s /\ AtOutput(s, p)[3] = p
  BY DEF AtOutput
<1>3. \A h : AtHost(h)[1] = "host" /\ AtHost(h)[2] = h
  BY DEF AtHost
<1>4. "in" # "out" /\ "in" # "host" /\ "out" # "host"
  OBVIOUS
<1> QED BY <1>1, <1>2, <1>3, <1>4

LEMMA QueuesAre ==
  ASSUME NEW I, NEW O, NEW H
  PROVE  /\ \A s \in Switches : QueuesOf(I, O, H)[AtInput(s)] = FromInput(I[s])
         /\ \A s \in Switches, p \in Ports : QueuesOf(I, O, H)[AtOutput(s, p)] = O[s][p]
         /\ \A h \in Hosts : QueuesOf(I, O, H)[AtHost(h)] = FromHost(H[h])
         /\ QueuesOf(I, O, H) = [x \in Places |-> QueuesOf(I, O, H)[x]]
<1>1. \A s : AtInput(s)[1] = "in" /\ AtInput(s)[2] = s
  BY DEF AtInput
<1>2. \A s, p : AtOutput(s, p)[1] = "out" /\ AtOutput(s, p)[2] = s /\ AtOutput(s, p)[3] = p
  BY DEF AtOutput
<1>3. \A h : AtHost(h)[1] = "host" /\ AtHost(h)[2] = h
  BY DEF AtHost
<1>4. "in" # "out" /\ "in" # "host" /\ "out" # "host"
  OBVIOUS
<1>5. \A x \in Places : QueuesOf(I, O, H)[x] =
        IF x[1] = "in" THEN FromInput(I[x[2]])
        ELSE IF x[1] = "out" THEN O[x[2]][x[3]]
        ELSE FromHost(H[x[2]])
  BY DEF QueuesOf
<1>6. QueuesOf(I, O, H) = [x \in Places |-> QueuesOf(I, O, H)[x]]
  BY DEF QueuesOf
<1> DEFINE Q == QueuesOf(I, O, H)
<1> HIDE DEF Q
<1>7. \A s \in Switches : Q[AtInput(s)] = FromInput(I[s])
  BY <1>1, <1>5, PlacesAre DEF Q
<1>8. ASSUME NEW s \in Switches, NEW p \in Ports PROVE Q[AtOutput(s, p)] = O[s][p]
  <2> DEFINE x == AtOutput(s, p)
  <2>1. x \in Places /\ x[1] = "out" /\ x[2] = s /\ x[3] = p
    BY <1>2, PlacesAre
  <2> HIDE DEF x
  <2>2. Q[x] = O[s][p]
    BY <1>4, <1>5, <2>1 DEF Q
  <2> QED BY <2>2 DEF x
<1>9. ASSUME NEW h \in Hosts PROVE Q[AtHost(h)] = FromHost(H[h])
  <2> DEFINE x == AtHost(h)
  <2>1. x \in Places /\ x[1] = "host" /\ x[2] = h
    BY <1>3, PlacesAre
  <2> HIDE DEF x
  <2>2. Q[x] = FromHost(H[h])
    BY <1>4, <1>5, <2>1 DEF Q
  <2> QED BY <2>2 DEF x
<1> QED BY <1>6, <1>7, <1>8, <1>9 DEF Q

LEMMA SameQueues ==
  ASSUME NEW Q, NEW R, Q = [x \in Places |-> Q[x]], R = [x \in Places |-> R[x]],
         \A s \in Switches : Q[AtInput(s)] = R[AtInput(s)],
         \A s \in Switches, p \in Ports : Q[AtOutput(s, p)] = R[AtOutput(s, p)],
         \A h \in Hosts : Q[AtHost(h)] = R[AtHost(h)]
  PROVE  Q = R
<1>1. \A x \in Places : Q[x] = R[x]
  BY PlacesAre
<1> QED BY <1>1

LEMMA SeqIsFunction ==
  ASSUME NEW E, NEW q \in Seq(E), NEW n, Len(q) = n
  PROVE  q = [i \in 1..n |-> q[i]]
BY LenProperties

LEMMA FromInputIs ==
  ASSUME NEW A, NEW q \in Seq(A), NEW a \in A
  PROVE  /\ FromInput(Append(q, a)) = Append(FromInput(q), Packet(a.frame, a.in))
         /\ q # <<>> => /\ FromInput(Tail(q)) = Tail(FromInput(q)) /\ FromInput(q) # <<>>
                        /\ Head(FromInput(q)) = Packet(Head(q).frame, Head(q).in)
<1> DEFINE m(b) == Packet(b.frame, b.in)
           E == {m(b) : b \in A}
<1>0. Len(q) \in Nat
  BY LenProperties
<1>1. FromInput(q) = [i \in 1..Len(q) |-> m(q[i])]
  BY DEF FromInput
<1>2. \A i \in 1..Len(q) : m(q[i]) \in E
  <2>1. \A i \in 1..Len(q) : q[i] \in A
    BY ElementOfSeq
  <2> QED BY <2>1
<1> HIDE DEF m
<1>3. FromInput(q) \in Seq(E) /\ Len(FromInput(q)) = Len(q)
  BY <1>0, <1>1, <1>2, IsASeq
<1>4. m(a) \in E
  OBVIOUS
<1> HIDE DEF E
<1>5. FromInput(Append(q, a)) = Append(FromInput(q), m(a))
  <2>1. FromInput(Append(q, a)) = [i \in 1..Len(Append(q, a)) |-> m(Append(q, a)[i])]
    BY DEF FromInput, m
  <2> DEFINE r == Append(q, a)  f == FromInput(q)  g == Append(f, m(a))
  <2>2. r \in Seq(A) /\ Len(r) = Len(q) + 1 /\ r[Len(q) + 1] = a /\ \A i \in 1..Len(q) : r[i] = q[i]
    BY AppendProperties
  <2>3. g \in Seq(E) /\ Len(g) = Len(q) + 1 /\ g[Len(q) + 1] = m(a) /\ \A i \in 1..Len(q) : g[i] = f[i]
    BY <1>3, <1>4, AppendProperties
  <2>4. \A i \in 1..Len(q) : f[i] = m(q[i])
    BY <1>1
  <2>5. g = [i \in 1..(Len(q) + 1) |-> g[i]]
    BY <2>3, SeqIsFunction
  <2> HIDE DEF r, f, g
  <2>6. \A i \in 1..(Len(q) + 1) : m(r[i]) = g[i]
    BY <1>0, <2>2, <2>3, <2>4
  <2>7. [i \in 1..Len(r) |-> m(r[i])] = g
    BY <2>2, <2>5, <2>6
  <2> QED BY <2>1, <2>7 DEF r, f, g
<1>6. ASSUME q # <<>> PROVE /\ FromInput(Tail(q)) = Tail(FromInput(q)) /\ FromInput(q) # <<>>
                            /\ Head(FromInput(q)) = m(Head(q))
  <2>1. FromInput(Tail(q)) = [i \in 1..Len(Tail(q)) |-> m(Tail(q)[i])]
    BY DEF FromInput, m
  <2> DEFINE r == Tail(q)  f == FromInput(q)  g == Tail(f)
  <2>2. /\ r \in Seq(A) /\ Len(r) = Len(q) - 1 /\ \A i \in 1..Len(r) : r[i] = q[i + 1]
        /\ Head(q) = q[1] /\ Len(q) # 0
    BY <1>6, HeadTailProperties, EmptySeq
  <2>3. f \in Seq(E) /\ Len(f) = Len(q) /\ f # <<>>
    BY <1>3, <2>2, EmptySeq
  <2> HIDE DEF f
  <2>4. /\ g \in Seq(E) /\ Len(g) = Len(q) - 1 /\ \A i \in 1..Len(g) : g[i] = f[i + 1]
        /\ Head(f) = f[1]
    BY <2>3, HeadTailProperties
  <2>5. \A i \in 1..Len(q) : f[i] = m(q[i])
    BY <1>1 DEF f
  <2>6. g = [i \in 1..(Len(q) - 1) |-> g[i]]
    BY <2>4, SeqIsFunction
  <2> HIDE DEF r, g
  <2>7. \A i \in 1..(Len(q) - 1) : m(r[i]) = g[i]
    BY <1>0, <2>2, <2>4, <2>5
  <2>8. [i \in 1..Len(r) |-> m(r[i])] = g
    BY <2>2, <2>6, <2>7
  <2>9. Head(f) = m(Head(q))
    BY <1>0, <2>2, <2>4, <2>5
  <2> QED BY <2>1, <2>3, <2>8, <2>9 DEF r, f, g
<1> QED BY <1>5, <1>6 DEF m

LEMMA FromHostIs ==
  ASSUME NEW A, NEW q \in Seq(A), NEW a \in A
  PROVE  FromHost(Append(q, a)) = Append(FromHost(q), Packet(a, 0))
<1> DEFINE m(b) == Packet(b, 0)
           E == {m(b) : b \in A}
<1>0. Len(q) \in Nat
  BY LenProperties
<1>1. FromHost(q) = [i \in 1..Len(q) |-> m(q[i])]
  BY DEF FromHost
<1>2. \A i \in 1..Len(q) : m(q[i]) \in E
  <2>1. \A i \in 1..Len(q) : q[i] \in A
    BY ElementOfSeq
  <2> QED BY <2>1
<1> HIDE DEF m
<1>3. FromHost(q) \in Seq(E) /\ Len(FromHost(q)) = Len(q)
  BY <1>0, <1>1, <1>2, IsASeq
<1>4. m(a) \in E
  OBVIOUS
<1> HIDE DEF E
<1>5. FromHost(Append(q, a)) = [i \in 1..Len(Append(q, a)) |-> m(Append(q, a)[i])]
  BY DEF FromHost, m
<1> DEFINE r == Append(q, a)  f == FromHost(q)  g == Append(f, m(a))
<1>6. r \in Seq(A) /\ Len(r) = Len(q) + 1 /\ r[Len(q) + 1] = a /\ \A i \in 1..Len(q) : r[i] = q[i]
  BY AppendProperties
<1>7. g \in Seq(E) /\ Len(g) = Len(q) + 1 /\ g[Len(q) + 1] = m(a) /\ \A i \in 1..Len(q) : g[i] = f[i]
  BY <1>3, <1>4, AppendProperties
<1>8. \A i \in 1..Len(q) : f[i] = m(q[i])
  BY <1>1
<1>9. g = [i \in 1..(Len(q) + 1) |-> g[i]]
  BY <1>7, SeqIsFunction
<1> HIDE DEF r, f, g
<1>10. \A i \in 1..(Len(q) + 1) : m(r[i]) = g[i]
  BY <1>0, <1>6, <1>7, <1>8
<1>11. [i \in 1..Len(r) |-> m(r[i])] = g
  BY <1>6, <1>9, <1>10
<1> QED BY <1>5, <1>11 DEF r, f, g, m

OnPlaces(Q) == Q = [x \in Places |-> Q[x]]
SameBut(Q, R, y) == \A x \in Places : x # y => R[x] = Q[x]

LEMMA Rearranged ==
  ASSUME NEW Q, OnPlaces(Q), NEW R, OnPlaces(R),
         NEW y \in Places, NEW e, SameBut(Q, R, y)
  PROVE  /\ R[y] = Append(Q[y], e) => R = Given(Q, y, e)
         /\ R[y] = Tail(Q[y]) => R = Taken(Q, y)
<1> USE DEF OnPlaces, SameBut
<1>1. \A a : /\ DOMAIN [Q EXCEPT ![y] = a] = Places
             /\ \A x \in Places : [Q EXCEPT ![y] = a][x] = IF x = y THEN a ELSE Q[x]
             /\ [Q EXCEPT ![y] = a] = [x \in Places |-> [Q EXCEPT ![y] = a][x]]
  OBVIOUS
<1>2. \A a : R[y] = a => R = [Q EXCEPT ![y] = a]
  <2> SUFFICES ASSUME NEW a, R[y] = a PROVE R = [Q EXCEPT ![y] = a]
    OBVIOUS
  <2> DEFINE G == [Q EXCEPT ![y] = a]
  <2>1. G = [x \in Places |-> G[x]] /\ \A x \in Places : G[x] = IF x = y THEN a ELSE Q[x]
    BY <1>1
  <2> HIDE DEF G
  <2>2. \A x \in Places : R[x] = G[x]
    BY <2>1
  <2>3. R = G
    BY <2>1, <2>2
  <2> QED BY <2>3 DEF G
<1> QED BY <1>2 DEF Given, Taken

\* What a step does to one queue.
Grown(q, r, e) == r = Append(q, e)
Shrunk(q, r) == r = Tail(q)

InputOnly(I, J, r) == \A x \in Switches : x # r => J[x] = I[x]
OutputOnly(O, N, r, o) == \A x \in Switches, p \in Ports : ~(x = r /\ p = o) => N[x][p] = O[x][p]
HostOnly(H, K, d) == \A x \in Hosts : x # d => K[x] = H[x]

\* Only the input queue of a switch changes.
LEMMA InputOthers ==
  ASSUME NEW I, NEW J, NEW O, NEW H, NEW r \in Switches, InputOnly(I, J, r)
  PROVE  /\ OnPlaces(QueuesOf(I, O, H)) /\ OnPlaces(QueuesOf(J, O, H))
         /\ AtInput(r) \in Places /\ SameBut(QueuesOf(I, O, H), QueuesOf(J, O, H), AtInput(r))
<1> DEFINE Q == QueuesOf(I, O, H)  R == QueuesOf(J, O, H)
<1>1. /\ \A s \in Switches : Q[AtInput(s)] = FromInput(I[s])
      /\ \A s \in Switches, p \in Ports : Q[AtOutput(s, p)] = O[s][p]
      /\ \A h \in Hosts : Q[AtHost(h)] = FromHost(H[h])
      /\ \A s \in Switches : R[AtInput(s)] = FromInput(J[s])
      /\ \A s \in Switches, p \in Ports : R[AtOutput(s, p)] = O[s][p]
      /\ \A h \in Hosts : R[AtHost(h)] = FromHost(H[h])
  BY QueuesAre
<1>2. OnPlaces(Q) /\ OnPlaces(R)
  BY QueuesAre DEF OnPlaces
<1> HIDE DEF Q, R
<1>3. AtInput(r) \in Places
  BY PlacesAre
<1>4. ASSUME NEW x \in Places, x # AtInput(r) PROVE R[x] = Q[x]
  <2>1. CASE \E s \in Switches : x = AtInput(s)
    <3>1. PICK s \in Switches : x = AtInput(s)
      BY <2>1
    <3>2. s # r
      BY <1>4, <3>1
    <3>3. R[AtInput(s)] = Q[AtInput(s)]
      BY <1>1, <3>2 DEF InputOnly
    <3> QED BY <3>1, <3>3
  <2>2. CASE \E s \in Switches, p \in Ports : x = AtOutput(s, p)
    <3>1. PICK s \in Switches, p \in Ports : x = AtOutput(s, p)
      BY <2>2
    <3>2. R[AtOutput(s, p)] = Q[AtOutput(s, p)]
      BY <1>1
    <3> QED BY <3>1, <3>2
  <2>3. CASE \E h \in Hosts : x = AtHost(h)
    <3>1. PICK h \in Hosts : x = AtHost(h)
      BY <2>3
    <3>2. R[AtHost(h)] = Q[AtHost(h)]
      BY <1>1
    <3> QED BY <3>1, <3>2
  <2> QED BY <2>1, <2>2, <2>3, PlacesAre
<1> QED BY <1>2, <1>3, <1>4 DEF SameBut, Q, R

\* Only the queue of a port changes.
LEMMA OutputOthers ==
  ASSUME NEW I, NEW O, NEW N, NEW H, NEW r \in Switches, NEW o \in Ports,
         OutputOnly(O, N, r, o)
  PROVE  /\ OnPlaces(QueuesOf(I, O, H)) /\ OnPlaces(QueuesOf(I, N, H))
         /\ AtOutput(r, o) \in Places /\ SameBut(QueuesOf(I, O, H), QueuesOf(I, N, H), AtOutput(r, o))
<1> DEFINE Q == QueuesOf(I, O, H)  R == QueuesOf(I, N, H)
<1>1. /\ \A s \in Switches : Q[AtInput(s)] = FromInput(I[s])
      /\ \A s \in Switches, p \in Ports : Q[AtOutput(s, p)] = O[s][p]
      /\ \A h \in Hosts : Q[AtHost(h)] = FromHost(H[h])
      /\ \A s \in Switches : R[AtInput(s)] = FromInput(I[s])
      /\ \A s \in Switches, p \in Ports : R[AtOutput(s, p)] = N[s][p]
      /\ \A h \in Hosts : R[AtHost(h)] = FromHost(H[h])
  BY QueuesAre
<1>2. OnPlaces(Q) /\ OnPlaces(R)
  BY QueuesAre DEF OnPlaces
<1> HIDE DEF Q, R
<1>3. AtOutput(r, o) \in Places
  BY PlacesAre
<1>4. ASSUME NEW x \in Places, x # AtOutput(r, o) PROVE R[x] = Q[x]
  <2>1. CASE \E s \in Switches : x = AtInput(s)
    <3>1. PICK s \in Switches : x = AtInput(s)
      BY <2>1
    <3>2. R[AtInput(s)] = Q[AtInput(s)]
      BY <1>1
    <3> QED BY <3>1, <3>2
  <2>2. CASE \E s \in Switches, p \in Ports : x = AtOutput(s, p)
    <3>1. PICK s \in Switches, p \in Ports : x = AtOutput(s, p)
      BY <2>2
    <3>2. ~(s = r /\ p = o)
      BY <1>4, <3>1
    <3>3. R[AtOutput(s, p)] = Q[AtOutput(s, p)]
      BY <1>1, <3>2 DEF OutputOnly
    <3> QED BY <3>1, <3>3
  <2>3. CASE \E h \in Hosts : x = AtHost(h)
    <3>1. PICK h \in Hosts : x = AtHost(h)
      BY <2>3
    <3>2. R[AtHost(h)] = Q[AtHost(h)]
      BY <1>1
    <3> QED BY <3>1, <3>2
  <2> QED BY <2>1, <2>2, <2>3, PlacesAre
<1> QED BY <1>2, <1>3, <1>4 DEF SameBut, Q, R

\* Only the packets of a host change.
LEMMA HostOthers ==
  ASSUME NEW I, NEW O, NEW H, NEW K, NEW d \in Hosts, HostOnly(H, K, d)
  PROVE  /\ OnPlaces(QueuesOf(I, O, H)) /\ OnPlaces(QueuesOf(I, O, K))
         /\ AtHost(d) \in Places /\ SameBut(QueuesOf(I, O, H), QueuesOf(I, O, K), AtHost(d))
<1> DEFINE Q == QueuesOf(I, O, H)  R == QueuesOf(I, O, K)
<1>1. /\ \A s \in Switches : Q[AtInput(s)] = FromInput(I[s])
      /\ \A s \in Switches, p \in Ports : Q[AtOutput(s, p)] = O[s][p]
      /\ \A h \in Hosts : Q[AtHost(h)] = FromHost(H[h])
      /\ \A s \in Switches : R[AtInput(s)] = FromInput(I[s])
      /\ \A s \in Switches, p \in Ports : R[AtOutput(s, p)] = O[s][p]
      /\ \A h \in Hosts : R[AtHost(h)] = FromHost(K[h])
  BY QueuesAre
<1>2. OnPlaces(Q) /\ OnPlaces(R)
  BY QueuesAre DEF OnPlaces
<1> HIDE DEF Q, R
<1>3. AtHost(d) \in Places
  BY PlacesAre
<1>4. ASSUME NEW x \in Places, x # AtHost(d) PROVE R[x] = Q[x]
  <2>1. CASE \E s \in Switches : x = AtInput(s)
    <3>1. PICK s \in Switches : x = AtInput(s)
      BY <2>1
    <3>2. R[AtInput(s)] = Q[AtInput(s)]
      BY <1>1
    <3> QED BY <3>1, <3>2
  <2>2. CASE \E s \in Switches, p \in Ports : x = AtOutput(s, p)
    <3>1. PICK s \in Switches, p \in Ports : x = AtOutput(s, p)
      BY <2>2
    <3>2. R[AtOutput(s, p)] = Q[AtOutput(s, p)]
      BY <1>1
    <3> QED BY <3>1, <3>2
  <2>3. CASE \E h \in Hosts : x = AtHost(h)
    <3>1. PICK h \in Hosts : x = AtHost(h)
      BY <2>3
    <3>2. h # d
      BY <1>4, <3>1
    <3>3. R[AtHost(h)] = Q[AtHost(h)]
      BY <1>1, <3>2 DEF HostOnly
    <3> QED BY <3>1, <3>3
  <2> QED BY <2>1, <2>2, <2>3, PlacesAre
<1> QED BY <1>2, <1>3, <1>4 DEF SameBut, Q, R

\* A packet arrives at a switch.
LEMMA InputGrows ==
  ASSUME NEW I, NEW J, NEW O, NEW H, NEW r \in Switches, InputOnly(I, J, r),
         NEW A, I[r] \in Seq(A), NEW a \in A, Grown(I[r], J[r], a)
  PROVE  QueuesOf(J, O, H)
           = Given(QueuesOf(I, O, H), AtInput(r), Packet(a.frame, a.in))
<1> DEFINE Q == QueuesOf(I, O, H)  R == QueuesOf(J, O, H)  y == AtInput(r)  e == Packet(a.frame, a.in)
<1>1. OnPlaces(Q) /\ OnPlaces(R) /\ y \in Places /\ SameBut(Q, R, y)
  BY InputOthers
<1>2. R[y] = Append(Q[y], e)
  <2>1. Q[y] = FromInput(I[r]) /\ R[y] = FromInput(J[r])
    BY QueuesAre
  <2>2. FromInput(Append(I[r], a)) = Append(FromInput(I[r]), e)
    BY FromInputIs
  <2>3. J[r] = Append(I[r], a)
    BY DEF Grown
  <2> HIDE DEF Q, R, y, e
  <2> QED BY <2>1, <2>2, <2>3
<1> HIDE DEF Q, R, y, e
<1>3. R = Given(Q, y, e)
  BY <1>1, <1>2, Rearranged
<1> QED BY <1>3 DEF Q, R, y, e

\* A switch takes one.
LEMMA InputShrinks ==
  ASSUME NEW I, NEW J, NEW O, NEW H, NEW r \in Switches, InputOnly(I, J, r),
         NEW A, I[r] \in Seq(A), I[r] # <<>>, Shrunk(I[r], J[r])
  PROVE  QueuesOf(J, O, H)
           = Taken(QueuesOf(I, O, H), AtInput(r))
<1> DEFINE Q == QueuesOf(I, O, H)  R == QueuesOf(J, O, H)  y == AtInput(r)
<1>1. OnPlaces(Q) /\ OnPlaces(R) /\ y \in Places /\ SameBut(Q, R, y)
  BY InputOthers
<1>2. R[y] = Tail(Q[y])
  <2>1. Q[y] = FromInput(I[r]) /\ R[y] = FromInput(J[r])
    BY QueuesAre
  <2>2. FromInput(Tail(I[r])) = Tail(FromInput(I[r]))
    <3>1. PICK a \in A : TRUE
      BY HeadTailProperties
    <3> QED BY <3>1, FromInputIs
  <2>3. J[r] = Tail(I[r])
    BY DEF Shrunk
  <2> HIDE DEF Q, R, y
  <2> QED BY <2>1, <2>2, <2>3
<1> HIDE DEF Q, R, y
<1>3. R = Taken(Q, y)
  BY <1>1, <1>2, Rearranged
<1> QED BY <1>3 DEF Q, R, y

\* A packet is put into the queue of a port.
LEMMA OutputGrows ==
  ASSUME NEW I, NEW O, NEW N, NEW H, NEW r \in Switches, NEW o \in Ports,
         OutputOnly(O, N, r, o), NEW e, Grown(O[r][o], N[r][o], e)
  PROVE  QueuesOf(I, N, H)
           = Given(QueuesOf(I, O, H), AtOutput(r, o), e)
<1> DEFINE Q == QueuesOf(I, O, H)  R == QueuesOf(I, N, H)  y == AtOutput(r, o)
<1>1. OnPlaces(Q) /\ OnPlaces(R) /\ y \in Places /\ SameBut(Q, R, y)
  BY OutputOthers
<1>2. R[y] = Append(Q[y], e)
  <2>1. Q[y] = O[r][o] /\ R[y] = N[r][o]
    BY QueuesAre
  <2> HIDE DEF Q, R, y
  <2> QED BY <2>1 DEF Grown
<1> HIDE DEF Q, R, y
<1>3. R = Given(Q, y, e)
  BY <1>1, <1>2, Rearranged
<1> QED BY <1>3 DEF Q, R, y

\* The egress of a port takes one.
LEMMA OutputShrinks ==
  ASSUME NEW I, NEW O, NEW N, NEW H, NEW r \in Switches, NEW o \in Ports,
         OutputOnly(O, N, r, o), Shrunk(O[r][o], N[r][o])
  PROVE  QueuesOf(I, N, H)
           = Taken(QueuesOf(I, O, H), AtOutput(r, o))
<1> DEFINE Q == QueuesOf(I, O, H)  R == QueuesOf(I, N, H)  y == AtOutput(r, o)
<1>1. OnPlaces(Q) /\ OnPlaces(R) /\ y \in Places /\ SameBut(Q, R, y)
  BY OutputOthers
<1>2. R[y] = Tail(Q[y])
  <2>1. Q[y] = O[r][o] /\ R[y] = N[r][o]
    BY QueuesAre
  <2> HIDE DEF Q, R, y
  <2> QED BY <2>1 DEF Shrunk
<1> HIDE DEF Q, R, y
<1>3. R = Taken(Q, y)
  BY <1>1, <1>2, Rearranged
<1> QED BY <1>3 DEF Q, R, y

\* A host receives a packet.
LEMMA HostGrows ==
  ASSUME NEW I, NEW O, NEW H, NEW K, NEW d \in Hosts, HostOnly(H, K, d),
         NEW A, H[d] \in Seq(A), NEW f \in A, Grown(H[d], K[d], f)
  PROVE  QueuesOf(I, O, K)
           = Given(QueuesOf(I, O, H), AtHost(d), Packet(f, 0))
<1> DEFINE Q == QueuesOf(I, O, H)  R == QueuesOf(I, O, K)  y == AtHost(d)  e == Packet(f, 0)
<1>1. OnPlaces(Q) /\ OnPlaces(R) /\ y \in Places /\ SameBut(Q, R, y)
  BY HostOthers
<1>2. R[y] = Append(Q[y], e)
  <2>1. Q[y] = FromHost(H[d]) /\ R[y] = FromHost(K[d])
    BY QueuesAre
  <2>2. FromHost(Append(H[d], f)) = Append(FromHost(H[d]), e)
    BY FromHostIs
  <2>3. K[d] = Append(H[d], f)
    BY DEF Grown
  <2> HIDE DEF Q, R, y, e
  <2> QED BY <2>1, <2>2, <2>3
<1> HIDE DEF Q, R, y, e
<1>3. R = Given(Q, y, e)
  BY <1>1, <1>2, Rearranged
<1> QED BY <1>3 DEF Q, R, y, e

LEMMA QueuesType ==
  ASSUME FrameInv
  PROVE  Queues \in [Places -> Seq(Items)]
<1>1. ASSUME NEW s \in Switches PROVE FromInput(inbuf[s]) \in Seq(Items)
  <2>1. inbuf[s] \in Seq(Arrivals(s, sent))
    BY DEF FrameInv
  <2>2. ASSUME NEW i \in 1..Len(inbuf[s])
        PROVE  Packet(inbuf[s][i].frame, inbuf[s][i].in) \in Items
    <3>1. inbuf[s][i] \in Arrivals(s, sent)
      BY <2>1, ElementOfSeq
    <3>2. inbuf[s][i].frame \in GoodFrames(sent) /\ inbuf[s][i].in \in Ports
      BY <3>1, Zenon DEF Arrivals
    <3>3. inbuf[s][i].frame \in AllFrames
      BY <3>2, GoodFields
    <3> QED BY <3>2, <3>3 DEF Packet, Item, Items
  <2>3. Len(inbuf[s]) \in Nat
    BY <2>1, LenProperties
  <2> DEFINE m(i) == Packet(inbuf[s][i].frame, inbuf[s][i].in)
  <2>4. FromInput(inbuf[s]) = [i \in 1..Len(inbuf[s]) |-> m(i)]
    BY DEF FromInput
  <2>5. \A i \in 1..Len(inbuf[s]) : m(i) \in Items
    BY <2>2
  <2> HIDE DEF m
  <2> QED BY <2>3, <2>4, <2>5, IsASeq
<1>2. ASSUME NEW s \in Switches, NEW p \in Ports PROVE outq[s][p] \in Seq(Items)
  <2>1. outq[s][p] \in Seq(Waiting(s, p, sent))
    BY DEF FrameInv
  <2>2. ASSUME NEW q \in Waiting(s, p, sent) PROVE q \in Items
    <3>1. q \in [frame : GoodFrames(sent), in : Ports, sink : BOOLEAN, clone : BOOLEAN]
      BY Zenon DEF Waiting
    <3>2. q.frame \in AllFrames
      BY <3>1, GoodFields
    <3> QED BY <3>1, <3>2 DEF Items
  <2>3. Waiting(s, p, sent) \subseteq Items
    BY <2>2
  <2> QED BY <2>1, <2>3, SeqGrows
<1>3. ASSUME NEW h \in Hosts PROVE FromHost(received[h]) \in Seq(Items)
  <2>1. received[h] \in Seq(Deliveries(h, sent))
    BY DEF FrameInv
  <2>2. ASSUME NEW i \in 1..Len(received[h]) PROVE Packet(received[h][i], 0) \in Items
    <3>1. received[h][i] \in Deliveries(h, sent)
      BY <2>1, ElementOfSeq
    <3>2. received[h][i] \in GoodFrames(sent)
      BY <3>1, Zenon DEF Deliveries, GoodFrames
    <3>3. received[h][i] \in AllFrames
      BY <3>2, GoodFields
    <3> QED BY <3>3 DEF Packet, Item, Items
  <2>3. Len(received[h]) \in Nat
    BY <2>1, LenProperties
  <2> DEFINE m(i) == Packet(received[h][i], 0)
  <2>4. FromHost(received[h]) = [i \in 1..Len(received[h]) |-> m(i)]
    BY DEF FromHost
  <2>5. \A i \in 1..Len(received[h]) : m(i) \in Items
    BY <2>2
  <2> HIDE DEF m
  <2> QED BY <2>3, <2>4, <2>5, IsASeq
<1>4. /\ \A s \in Switches : Queues[AtInput(s)] = FromInput(inbuf[s])
      /\ \A s \in Switches, p \in Ports : Queues[AtOutput(s, p)] = outq[s][p]
      /\ \A h \in Hosts : Queues[AtHost(h)] = FromHost(received[h])
      /\ Queues = [x \in Places |-> Queues[x]]
  BY QueuesAre DEF Queues
<1>5. ASSUME NEW x \in Places PROVE Queues[x] \in Seq(Items)
  <2>1. CASE \E s \in Switches : x = AtInput(s)
    <3>1. PICK s \in Switches : x = AtInput(s)
      BY <2>1
    <3>2. Queues[AtInput(s)] \in Seq(Items)
      BY <1>1, <1>4
    <3> QED BY <3>1, <3>2
  <2>2. CASE \E s \in Switches, p \in Ports : x = AtOutput(s, p)
    <3>1. PICK s \in Switches, p \in Ports : x = AtOutput(s, p)
      BY <2>2
    <3>2. Queues[AtOutput(s, p)] \in Seq(Items)
      BY <1>2, <1>4
    <3> QED BY <3>1, <3>2
  <2>3. CASE \E h \in Hosts : x = AtHost(h)
    <3>1. PICK h \in Hosts : x = AtHost(h)
      BY <2>3
    <3>2. Queues[AtHost(h)] \in Seq(Items)
      BY <1>3, <1>4
    <3> QED BY <3>1, <3>2
  <2> QED BY <2>1, <2>2, <2>3, PlacesAre
<1> QED BY <1>4, <1>5

\* A new packet comes in at the port of its host.
LEMMA SendMoves ==
  ASSUME FrameInv, Send
  PROVE  \E p \in Sendable :
           LET f == Frame(Len(sent) + 1, p)  r == HostPort(p.src)[1]  in == HostPort(p.src)[2] IN
           /\ HostPort(p.src) \in Switches \X Ports
           /\ f \in PlainFrames(sent') /\ f.path = <<>> /\ f.src = p.src
           /\ sent' = Append(sent, p)
           /\ Queues' = Given(Queues, AtInput(r), Packet(f, in))
           /\ dropped' = dropped /\ seq' = seq
<1>1. PICK p \in Sendable :
        /\ sent' = Append(sent, p)
        /\ Arrive(HostPort(p.src)[1], HostPort(p.src)[2], Frame(Len(sent) + 1, p))
  BY DEF Send
<1>2. UNCHANGED <<outq, seq, received, dropped>>
  BY DEF Send
<1> DEFINE f == Frame(Len(sent) + 1, p)  sp == HostPort(p.src)  r == sp[1]  in == sp[2]
           a == [frame |-> f, in |-> in]
<1>3. sp \in Switches \X Ports
  <2>1. PICK s \in Switches : \E i \in DOMAIN Peer[s] : Peer[s][i][1] = p.src
    BY DataPlaneAssumption, SMT DEF DataPlaneAssumption
  <2>2. PICK i \in DOMAIN Peer[s] : Peer[s][i][1] = p.src
    BY <2>1
  <2>3. i \in Ports
    BY TablesAssumption, Zenon DEF TablesAssumption
  <2>4. \E x \in Switches \X Ports : x[2] \in DOMAIN Peer[x[1]] /\ Peer[x[1]][x[2]][1] = p.src
    <3> DEFINE x == <<s, i>>
    <3>1. x \in Switches \X Ports /\ x[1] = s /\ x[2] = i
      BY <2>3
    <3> HIDE DEF x
    <3> QED BY <2>2, <3>1
  <2> QED BY <2>4 DEF HostPort
<1>4. f \in PlainFrames(sent') /\ f.path = <<>> /\ f.src = p.src
  <2>1. sent \in Seq(Sendable) /\ sent' \in Seq(Sendable)
    BY <1>1 DEF FrameInv
  <2>2. Len(sent') = Len(sent) + 1 /\ sent'[Len(sent) + 1] = p /\ Len(sent) \in Nat
    BY <1>1, <2>1, AppendProperties, LenProperties
  <2>3. Len(sent) + 1 \in 1..Len(sent')
    BY <2>2
  <2>4. f.src = p.src
    BY DEF Frame
  <2> QED BY <2>1, <2>2, <2>3, <2>4, FramesArePlain
<1>5. inbuf' = [inbuf EXCEPT ![r] = Append(@, a)]
  BY <1>1 DEF Arrive
<1>6. a.frame = f /\ a.in = in
  OBVIOUS
<1> HIDE DEF f, sp, a
<1>7. r \in Switches /\ in \in Ports
  BY <1>3
<1> HIDE DEF r, in
<1>8. Queues' = Given(Queues, AtInput(r), Packet(a.frame, a.in))
  <2>1. inbuf = [s \in Switches |-> inbuf[s]] /\ inbuf[r] \in Seq(Arrivals(r, sent))
    BY <1>7 DEF FrameInv
  <2> DEFINE A == Arrivals(r, sent) \cup {a}
  <2>2. inbuf[r] \in Seq(A) /\ a \in A
    BY <2>1, SeqGrows
  <2> HIDE DEF A
  <2>3. inbuf'[r] = Append(inbuf[r], a) /\ \A x \in Switches : x # r => inbuf'[x] = inbuf[x]
    BY <1>5, <1>7, <2>1
  <2>4. QueuesOf(inbuf', outq, received)
          = Given(QueuesOf(inbuf, outq, received), AtInput(r), Packet(a.frame, a.in))
    <3> DEFINE I == inbuf  J == inbuf'  O == outq  K == received
    <3>1. I[r] \in Seq(A) /\ Grown(I[r], J[r], a) /\ InputOnly(I, J, r)
      BY <2>2, <2>3 DEF Grown, InputOnly
    <3> HIDE DEF I, J, O, K
    <3>2. QueuesOf(J, O, K) = Given(QueuesOf(I, O, K), AtInput(r), Packet(a.frame, a.in))
      BY <1>7, <2>2, <3>1, InputGrows
    <3> QED BY <3>2 DEF I, J, O, K
  <2> QED BY <1>2, <2>4 DEF Queues
<1> QED BY <1>1, <1>2, <1>3, <1>4, <1>6, <1>8 DEF f, sp, r, in

\* A switch takes a packet, puts it into the queue of its port, and at the sink
\* a clone into that of the mirror port.
LEMMA IngressMoves ==
  ASSUME FrameInv, NEW s \in Switches, Ingress(s)
  PROVE  LET a == Head(inbuf[s])  f == a.frame  in == a.in  out == Out(s, f)
             e == Packet(f, in)
             g == IF IsSource(s, in, f) THEN Sourced(f) ELSE f
             sink == IsSink(s, out, g)
             mid == Taken(Queues, AtInput(s))
             q == Item(g, in, sink, FALSE)  c == Item(f, in, FALSE, TRUE)
         IN /\ a \in Arrivals(s, sent) /\ out \in Ports
            /\ Queues[AtInput(s)] # <<>> /\ Head(Queues[AtInput(s)]) = e
            /\ q \in Waiting(s, out, sent)
            /\ ~sink => Passed(mid, dropped, Queues', dropped', AtOutput(s, out), q)
            /\ sink => /\ c \in Waiting(s, Tables[s].mirror, sent) /\ Tables[s].mirror \in Ports
                       /\ \E R, B : /\ Passed(mid, dropped, R, B, AtOutput(s, out), q)
                                   /\ Passed(R, B, Queues', dropped',
                                             AtOutput(s, Tables[s].mirror), c)
            /\ sent' = sent /\ seq' = seq
<1> DEFINE a == Head(inbuf[s])  f == a.frame  in == a.in  out == Out(s, f)
           e == Packet(f, in)
           g == IF IsSource(s, in, f) THEN Sourced(f) ELSE f
           sink == IsSink(s, out, g)
           mid == Taken(Queues, AtInput(s))
           q == Item(g, in, sink, FALSE)  c == Item(f, in, FALSE, TRUE)
           mirror == Tables[s].mirror
           copies == Copies(s, in, f)
           taken == {p \in DOMAIN copies : HasRoom(outq[s][p])}
<1>1. sent' = sent /\ seq' = seq /\ received' = received
  BY DEF Ingress
<1>2. inbuf[s] # <<>> /\ inbuf' = [inbuf EXCEPT ![s] = Tail(@)]
  BY DEF Ingress, Ready
<1>3. /\ outq' = [outq EXCEPT ![s] = [p \in Ports |->
                    IF p \in taken THEN Append(@[p], copies[p]) ELSE @[p]]]
      /\ dropped' = dropped \cup {copies[p] : p \in DOMAIN copies \ taken}
  BY DEF Ingress
<1>4. sent \in Seq(Sendable) /\ inbuf[s] \in Seq(Arrivals(s, sent))
  BY DEF FrameInv
<1>5. a \in Arrivals(s, sent)
  BY <1>2, <1>4, HeadTailProperties
<1> HIDE DEF a
<1>6. /\ DOMAIN copies \subseteq Ports
      /\ \A p \in DOMAIN copies : copies[p] \in Waiting(s, p, sent)
  BY <1>4, <1>5, CopiesWait, Zenon
<1>7. copies = [p \in {out} \cup (IF sink THEN {mirror} ELSE {}) |-> IF p = out THEN q ELSE c]
  BY Zenon DEF Copies, Item
<1>8. out \in Tables[s].sink => mirror # out
  BY MirrorPort
<1>9. sink => mirror # out
  BY <1>8 DEF IsSink
<1> HIDE DEF copies, q, c, g, sink, out, mirror
<1>10. out \in DOMAIN copies /\ copies[out] = q
  BY <1>7
<1>11. ~sink => DOMAIN copies = {out}
  BY <1>7
<1>12. sink => DOMAIN copies = {out, mirror} /\ copies[mirror] = c
  BY <1>7, <1>9
<1>13. /\ QueuesOf(inbuf', outq, received) = mid
       /\ Queues[AtInput(s)] # <<>> /\ Head(Queues[AtInput(s)]) = e
  <2>1. inbuf = [x \in Switches |-> inbuf[x]]
    BY Zenon DEF FrameInv
  <2>2. inbuf'[s] = Tail(inbuf[s]) /\ \A x \in Switches : x # s => inbuf'[x] = inbuf[x]
    BY <1>2, <2>1
  <2>3. QueuesOf(inbuf', outq, received) = Taken(QueuesOf(inbuf, outq, received), AtInput(s))
    <3> DEFINE I == inbuf  J == inbuf'  O == outq  K == received  A == Arrivals(s, sent)
    <3>1. /\ I[s] \in Seq(A) /\ I[s] # <<>> /\ a \in A
          /\ Shrunk(I[s], J[s]) /\ InputOnly(I, J, s)
      BY <1>2, <1>4, <1>5, <2>2 DEF Shrunk, InputOnly
    <3> HIDE DEF I, J, O, K, A
    <3>2. QueuesOf(J, O, K) = Taken(QueuesOf(I, O, K), AtInput(s))
      BY <3>1, InputShrinks
    <3> QED BY <3>2 DEF I, J, O, K
  <2>4. FromInput(inbuf[s]) # <<>> /\ Head(FromInput(inbuf[s])) = e
    BY <1>2, <1>4, <1>5, FromInputIs DEF a
  <2>5. Queues[AtInput(s)] = FromInput(inbuf[s])
    BY QueuesAre DEF Queues
  <2> QED BY <2>3, <2>4, <2>5 DEF Queues
<1>14. outq = [x \in Switches |-> [p \in Ports |-> outq[x][p]]]
  BY Zenon DEF FrameInv
<1>15. ASSUME NEW x \in Switches, NEW p \in Ports
       PROVE  outq'[x][p] = IF x = s /\ p \in taken THEN Append(outq[s][p], copies[p])
                                                    ELSE outq[x][p]
  <2>1. outq'[x] = IF x = s THEN [y \in Ports |->
                     IF y \in taken THEN Append(outq[s][y], copies[y]) ELSE outq[s][y]] ELSE outq[x]
    BY <1>3, <1>14
  <2> HIDE DEF taken
  <2> QED BY <2>1
<1>16. Queues' = QueuesOf(inbuf', outq', received)
  BY <1>1 DEF Queues
<1>17. out \in Ports /\ q \in Waiting(s, out, sent)
  BY <1>6, <1>10
<1>18. taken \subseteq DOMAIN copies
  OBVIOUS
<1> HIDE DEF taken, mid, e
<1>19. ASSUME NEW N, NEW I, NEW H, NEW O, NEW p \in DOMAIN copies, NEW D, NEW B,
              p \in taken => N[s][p] = Append(O[s][p], copies[p]) /\ B = D,
              p \notin taken => N[s][p] = O[s][p] /\ B = D \cup {copies[p]},
              \A x \in Switches, o \in Ports : ~(x = s /\ o = p) => N[x][o] = O[x][o]
       PROVE  Passed(QueuesOf(I, O, H), D, QueuesOf(I, N, H), B, AtOutput(s, p), copies[p])
  <2>1. p \in Ports
    BY <1>6
  <2>2. CASE p \in taken
    <3>1. Grown(O[s][p], N[s][p], copies[p]) /\ OutputOnly(O, N, s, p)
      BY <1>19, <2>2 DEF Grown, OutputOnly
    <3>2. QueuesOf(I, N, H) = Given(QueuesOf(I, O, H), AtOutput(s, p), copies[p])
      BY <2>1, <3>1, OutputGrows
    <3> QED BY <1>19, <2>2, <3>2 DEF Passed
  <2>3. CASE p \notin taken
    <3> DEFINE Q == QueuesOf(I, O, H)  R == QueuesOf(I, N, H)
    <3>1. /\ \A x \in Switches : Q[AtInput(x)] = FromInput(I[x])
          /\ \A x \in Switches, o \in Ports : Q[AtOutput(x, o)] = O[x][o]
          /\ \A h \in Hosts : Q[AtHost(h)] = FromHost(H[h])
          /\ \A x \in Switches : R[AtInput(x)] = FromInput(I[x])
          /\ \A x \in Switches, o \in Ports : R[AtOutput(x, o)] = N[x][o]
          /\ \A h \in Hosts : R[AtHost(h)] = FromHost(H[h])
      BY QueuesAre
    <3>2. Q = [x \in Places |-> Q[x]] /\ R = [x \in Places |-> R[x]]
      BY QueuesAre
    <3> HIDE DEF Q, R
    <3>3. \A x \in Switches, o \in Ports : N[x][o] = O[x][o]
      BY <1>19, <2>3
    <3>4. R = Q
      BY <3>1, <3>2, <3>3, SameQueues
    <3> QED BY <1>19, <2>3, <3>4 DEF Passed, Q, R
  <2> QED BY <2>2, <2>3
<1>20. ASSUME ~sink PROVE Passed(mid, dropped, Queues', dropped', AtOutput(s, out), q)
  <2>1. \A x \in Switches, o \in Ports : ~(x = s /\ o = out) => outq'[x][o] = outq[x][o]
    BY <1>11, <1>15, <1>18, <1>20
  <2>2. outq'[s][out] = IF out \in taken THEN Append(outq[s][out], copies[out]) ELSE outq[s][out]
    BY <1>15, <1>17
  <2>3. dropped' = IF out \in taken THEN dropped ELSE dropped \cup {copies[out]}
    BY <1>3, <1>10, <1>11, <1>20 DEF taken
  <2>4. Passed(QueuesOf(inbuf', outq, received), dropped, QueuesOf(inbuf', outq', received), dropped',
               AtOutput(s, out), copies[out])
    BY <1>10, <1>19, <2>1, <2>2, <2>3
  <2> QED BY <1>10, <1>13, <1>16, <2>4
<1>21. ASSUME sink
       PROVE  \E R, B : /\ Passed(mid, dropped, R, B, AtOutput(s, out), q)
                        /\ Passed(R, B, Queues', dropped', AtOutput(s, mirror), c)
  <2> DEFINE O == [x \in Switches |-> [p \in Ports |->
                     IF x = s /\ p = out /\ out \in taken THEN Append(outq[s][out], q)
                                                         ELSE outq[x][p]]]
             B == IF out \in taken THEN dropped ELSE dropped \cup {q}
             R == QueuesOf(inbuf', O, received)
  <2>1. /\ \A x \in Switches, o \in Ports : ~(x = s /\ o = out) => O[x][o] = outq[x][o]
        /\ O[s][out] = IF out \in taken THEN Append(outq[s][out], q) ELSE outq[s][out]
    BY <1>17
  <2>2. /\ mirror \in DOMAIN copies /\ mirror \in Ports /\ mirror # out /\ copies[mirror] = c
    BY <1>6, <1>9, <1>12, <1>21
  <2>3. ASSUME NEW x \in Switches, NEW o \in Ports, ~(x = s /\ o = mirror)
        PROVE  outq'[x][o] = O[x][o]
    <3>1. CASE x = s /\ o = out
      BY <1>10, <1>15, <2>1, <3>1
    <3>2. CASE ~(x = s /\ o = out)
      <4>1. ~(x = s /\ o \in taken)
        BY <1>12, <1>18, <1>21, <2>3, <3>2
      <4> QED BY <1>15, <2>1, <3>2, <4>1
    <3> QED BY <3>1, <3>2
  <2>4. outq'[s][mirror] = IF mirror \in taken THEN Append(O[s][mirror], c) ELSE O[s][mirror]
    BY <1>15, <2>1, <2>2
  <2>5. dropped' = IF mirror \in taken THEN B ELSE B \cup {c}
    BY <1>3, <1>10, <1>12, <1>21, <2>2 DEF taken
  <2> HIDE DEF O, B
  <2>6. B = IF out \in taken THEN dropped ELSE dropped \cup {q}
    BY DEF B
  <2>7. Passed(QueuesOf(inbuf', outq, received), dropped, R, B, AtOutput(s, out), copies[out])
    BY <1>10, <1>19, <2>1, <2>6
  <2>8. Passed(R, B, QueuesOf(inbuf', outq', received), dropped', AtOutput(s, mirror), copies[mirror])
    BY <1>19, <2>2, <2>3, <2>4, <2>5
  <2>9. /\ Passed(mid, dropped, R, B, AtOutput(s, out), q)
        /\ Passed(R, B, Queues', dropped', AtOutput(s, mirror), c)
    BY <1>10, <1>13, <1>16, <2>2, <2>7, <2>8
  <2> QED BY <2>9
<1>22. sink => c \in Waiting(s, mirror, sent) /\ mirror \in Ports
  BY <1>6, <1>12
<1> QED BY <1>1, <1>5, <1>13, <1>17, <1>20, <1>21, <1>22 DEF a, out, e, g, sink, mid, q, c, mirror

\* A packet leaves a switch for the next one or for a host.
LEMMA EgressMoves ==
  ASSUME FrameInv, NEW s \in Switches, NEW out \in Ports, Egress(s, out)
  PROVE  LET q == Head(outq[s][out])  f == Leaving(s, out, q)  to == Peer[s][out]
             mid == Taken(Queues, AtOutput(s, out))
         IN /\ q \in Waiting(s, out, sent) /\ f \in GoodFrames(sent)
            /\ Queues[AtOutput(s, out)] # <<>> /\ Head(Queues[AtOutput(s, out)]) = q
            /\ \/ /\ to[1] \in Hosts
                  /\ Queues' = Given(mid, AtHost(to[1]), Packet(f, 0))
               \/ /\ to[1] \notin Hosts /\ to \in Switches \X Ports
                  /\ Queues' = Given(mid, AtInput(to[1]), Packet(f, to[2]))
            /\ seq' = [seq EXCEPT ![s] = IF q.clone THEN seq[s] + 1 ELSE seq[s]]
            /\ sent' = sent /\ dropped' = dropped
<1> DEFINE q == Head(outq[s][out])  f == Leaving(s, out, q)  to == Peer[s][out]
           mid == Taken(Queues, AtOutput(s, out))
<1>0. sent' = sent /\ dropped' = dropped
  BY DEF Egress
<1>1. outq[s][out] # <<>> /\ outq' = [outq EXCEPT ![s][out] = Tail(@)]
  BY DEF Egress, Ready
<1>2. seq' = [seq EXCEPT ![s] = IF q.clone THEN seq[s] + 1 ELSE seq[s]]
  BY DEF Egress, NextSeq
<1>3. \/ /\ to[1] \in Hosts
         /\ received' = [received EXCEPT ![to[1]] = Append(@, f)] /\ inbuf' = inbuf
      \/ /\ to[1] \notin Hosts
         /\ inbuf' = [inbuf EXCEPT ![to[1]] = Append(@, [frame |-> f, in |-> to[2]])]
         /\ received' = received
  BY Zenon DEF Egress, Arrive
<1>4. /\ sent \in Seq(Sendable) /\ seq \in [Switches -> Nat]
      /\ outq[s][out] \in Seq(Waiting(s, out, sent))
  BY DEF FrameInv
<1>5. q \in Waiting(s, out, sent)
  BY <1>1, <1>4, HeadTailProperties
<1> HIDE DEF q
<1>6. out \in DOMAIN Peer[s] /\ f \in GoodFrames(sent)
  BY <1>4, <1>5, LeavingIsGood, Zenon
<1> HIDE DEF f
<1>7. outq = [x \in Switches |-> [p \in Ports |-> outq[x][p]]]
  BY Zenon DEF FrameInv
<1>8. ASSUME NEW x \in Switches, NEW p \in Ports
      PROVE  outq'[x][p] = IF x = s /\ p = out THEN Tail(outq[s][out]) ELSE outq[x][p]
  <2>1. outq[s] = [y \in Ports |-> outq[s][y]]
    BY <1>7
  <2>2. outq'[x] = IF x = s THEN [outq[s] EXCEPT ![out] = Tail(outq[s][out])] ELSE outq[x]
    BY <1>1, <1>7
  <2> QED BY <2>1, <2>2
<1>9. QueuesOf(inbuf, outq', received) = mid
  <2>1. outq'[s][out] = Tail(outq[s][out])
    BY <1>8
  <2>2. \A x \in Switches, p \in Ports : ~(x = s /\ p = out) => outq'[x][p] = outq[x][p]
    BY <1>8
  <2>3. PICK I, O, N, H : I = inbuf /\ O = outq /\ N = outq' /\ H = received
    OBVIOUS
  <2>4. Shrunk(O[s][out], N[s][out]) /\ OutputOnly(O, N, s, out)
    BY <2>1, <2>2, <2>3 DEF Shrunk, OutputOnly
  <2>5. QueuesOf(I, N, H) = Taken(QueuesOf(I, O, H), AtOutput(s, out))
    BY <2>4, OutputShrinks
  <2> QED BY <2>3, <2>5 DEF Queues
<1>10. Queues[AtOutput(s, out)] = outq[s][out]
  BY QueuesAre DEF Queues
<1> HIDE DEF mid
<1>11. CASE to[1] \in Hosts
  <2> DEFINE h == to[1]
  <2>1. received' = [received EXCEPT ![h] = Append(@, f)] /\ inbuf' = inbuf /\ h \in Hosts
    BY <1>3, <1>11, Zenon
  <2> HIDE DEF h
  <2>2. received = [x \in Hosts |-> received[x]] /\ received[h] \in Seq(Deliveries(h, sent))
    BY <2>1, Zenon DEF FrameInv
  <2> DEFINE A == Deliveries(h, sent) \cup {f}
  <2>3. received[h] \in Seq(A) /\ f \in A
    BY <2>2, SeqGrows
  <2> HIDE DEF A
  <2>4. received'[h] = Append(received[h], f) /\ \A x \in Hosts : x # h => received'[x] = received[x]
    BY <2>1, <2>2
  <2>5. QueuesOf(inbuf, outq', received')
          = Given(QueuesOf(inbuf, outq', received), AtHost(h), Packet(f, 0))
    <3> DEFINE I == inbuf  O == outq'  H == received  K == received'
    <3>1. H[h] \in Seq(A) /\ Grown(H[h], K[h], f) /\ HostOnly(H, K, h)
      BY <2>3, <2>4 DEF Grown, HostOnly
    <3> HIDE DEF I, O, H, K
    <3>2. QueuesOf(I, O, K) = Given(QueuesOf(I, O, H), AtHost(h), Packet(f, 0))
      BY <2>1, <2>3, <3>1, HostGrows
    <3> QED BY <3>2 DEF I, O, H, K
  <2>6. Queues' = Given(mid, AtHost(h), Packet(f, 0))
    BY <1>9, <2>1, <2>5 DEF Queues
  <2> QED BY <1>0, <1>1, <1>2, <1>5, <1>6, <1>10, <1>11, <2>6 DEF q, f, mid, h
<1>12. CASE to[1] \notin Hosts
  <2> DEFINE r == to[1]  in == to[2]  a == [frame |-> f, in |-> in]
  <2>1. received' = received /\ inbuf' = [inbuf EXCEPT ![r] = Append(@, a)]
    BY <1>3, <1>12, Zenon
  <2>2. to \in Switches \X Ports
    BY <1>6, <1>12, TablesAssumption DEF TablesAssumption
  <2> HIDE DEF to
  <2>3. r \in Switches /\ a.frame = f /\ a.in = in
    BY <2>2
  <2> HIDE DEF r, in, a
  <2>4. inbuf = [x \in Switches |-> inbuf[x]] /\ inbuf[r] \in Seq(Arrivals(r, sent))
    BY <2>3, Zenon DEF FrameInv
  <2> DEFINE A == Arrivals(r, sent) \cup {a}
  <2>5. inbuf[r] \in Seq(A) /\ a \in A
    BY <2>4, SeqGrows
  <2> HIDE DEF A
  <2>6. inbuf'[r] = Append(inbuf[r], a) /\ \A x \in Switches : x # r => inbuf'[x] = inbuf[x]
    BY <2>1, <2>3, <2>4
  <2>7. QueuesOf(inbuf', outq', received)
          = Given(QueuesOf(inbuf, outq', received), AtInput(r), Packet(a.frame, a.in))
    <3> DEFINE I == inbuf  J == inbuf'  O == outq'  K == received
    <3>1. I[r] \in Seq(A) /\ Grown(I[r], J[r], a) /\ InputOnly(I, J, r)
      BY <2>5, <2>6 DEF Grown, InputOnly
    <3> HIDE DEF I, J, O, K
    <3>2. QueuesOf(J, O, K) = Given(QueuesOf(I, O, K), AtInput(r), Packet(a.frame, a.in))
      BY <2>3, <2>5, <3>1, InputGrows
    <3> QED BY <3>2 DEF I, J, O, K
  <2>8. Queues' = Given(mid, AtInput(r), Packet(f, in))
    BY <1>9, <2>1, <2>3, <2>7 DEF Queues
  <2> QED BY <1>0, <1>1, <1>2, <1>5, <1>6, <1>10, <1>12, <2>2, <2>8 DEF q, f, mid, r, in, to
<1> QED BY <1>11, <1>12

------------------------------------------------------------------------------
(* One copy of each tracked packet *)

TrackedAs(S, id) == IsSource(HostPort(S[id].src)[1], HostPort(S[id].src)[2], S[id])

Reported(W, id) == \E c \in W : IsCopy(c) /\ c.frame.id = id

(* A packet that its sink handled, or that carries no INT header behind its *)
(* first switch.                                                            *)
Past(e) == e.sink = TRUE \/ (e.frame.tel = NoInt /\ e.frame.path # <<>>)

LifeOK(W, S, e) ==
  /\ e \in Items /\ e.frame.id \in 1..Len(S)
  /\ IsCopy(e) => TrackedAs(S, e.frame.id)
  /\ ~IsCopy(e) => /\ e.frame.tel # NoInt => TrackedAs(S, e.frame.id)
                   /\ Reported(W, e.frame.id) <=> TrackedAs(S, e.frame.id) /\ Past(e)

AllLive(W, S) == \A e \in W : LifeOK(W, S, e)

(* A packet that passed no switch yet. *)
PlaceOK(x, e, S) ==
  ~IsCopy(e) /\ e.frame.path = <<>> =>
    /\ x[1] = "in" => e.frame.tel = NoInt /\ HostPort(e.frame.src) = <<x[2], e.in>>
    /\ x[1] = "out" => (e.frame.tel = NoInt => ~TrackedAs(S, e.frame.id))
    /\ x[1] # "host"

AllPlaced(Q, S) == \A x \in Places : \A i \in DOMAIN Q[x] : PlaceOK(x, Q[x][i], S)

CopyOK(Q, D, S) ==
  /\ Q \in [Places -> Seq(Items)]
  /\ Distinct(Q, D)
  /\ AllLive(InAll(Q, D), S)
  /\ AllPlaced(Q, S)

CopyInv == FrameInv /\ CopyOK(Queues, dropped, sent)

LEMMA SameKey ==
  ASSUME NEW d, NEW e
  PROVE  Key(d) = Key(e) <=> d.frame.id = e.frame.id /\ (IsCopy(d) <=> IsCopy(e))
<1>1. /\ Key(d)[1] = d.frame.id /\ Key(d)[2] = (IF IsCopy(d) THEN "copy" ELSE "packet")
      /\ Key(e)[1] = e.frame.id /\ Key(e)[2] = (IF IsCopy(e) THEN "copy" ELSE "packet")
  BY DEF Key
<1>2. Key(d) = Key(e) => d.frame.id = e.frame.id /\ (IsCopy(d) <=> IsCopy(e))
  BY <1>1
<1>3. d.frame.id = e.frame.id /\ (IsCopy(d) <=> IsCopy(e)) => Key(d) = Key(e)
  BY DEF Key
<1> QED BY <1>2, <1>3

\* e is replaced by q, the same packet or copy.
LEMMA LifeGoesOn ==
  ASSUME NEW W, NEW S, AllLive(W, S), NEW e \in W, NEW V, V = W \ {e},
         NEW q, Key(q) = Key(e), NEW U, U = V \cup {q}, q \in Items,
         ~IsCopy(q) => /\ q.frame.tel # NoInt => TrackedAs(S, q.frame.id)
                       /\ TrackedAs(S, q.frame.id) => (Past(q) <=> Past(e))
  PROVE  AllLive(U, S)
<1>1. q.frame.id = e.frame.id /\ (IsCopy(q) <=> IsCopy(e))
  BY SameKey
<1>2. ASSUME NEW id PROVE Reported(U, id) <=> Reported(W, id)
  BY <1>1 DEF Reported
<1>3. ASSUME NEW d \in V PROVE LifeOK(U, S, d)
  <2>1. LifeOK(W, S, d)
    BY DEF AllLive
  <2> QED BY <2>1, <1>2 DEF LifeOK
<1>4. LifeOK(U, S, q)
  <2>1. LifeOK(W, S, e)
    BY DEF AllLive
  <2> QED BY <2>1, <1>1, <1>2 DEF LifeOK
<1> QED BY <1>3, <1>4 DEF AllLive

\* The packet e is replaced by q, and c is the copy of it.
Sinks(W, S, e, V, q, c, U) ==
  /\ AllLive(W, S) /\ e \in W /\ ~IsCopy(e) /\ ~Past(e) /\ e.frame.tel # NoInt
  /\ V = W \ {e} /\ \A d \in V : Key(d) # Key(e)
  /\ q \in Items /\ Key(q) = Key(e) /\ Past(q)
  /\ c \in Items /\ IsCopy(c) /\ c.frame.id = e.frame.id
  /\ U = V \cup {q, c}

LEMMA LifeAtSink ==
  ASSUME NEW W, NEW S, NEW e, NEW V, NEW q, NEW c, NEW U, Sinks(W, S, e, V, q, c, U)
  PROVE  AllLive(U, S) /\ \A d \in V \cup {q} : Key(d) # Key(c)
<1> USE DEF Sinks
<1>1. q.frame.id = e.frame.id /\ ~IsCopy(q)
  BY SameKey
<1>2. LifeOK(W, S, e)
  BY DEF AllLive
<1>3. TrackedAs(S, e.frame.id) /\ ~Reported(W, e.frame.id)
  BY <1>2 DEF LifeOK
<1>4. ASSUME NEW id, id # e.frame.id PROVE Reported(U, id) <=> Reported(W, id)
  BY <1>1, <1>4 DEF Reported
<1>5. Reported(U, e.frame.id)
  BY DEF Reported
<1>6. ASSUME NEW d \in V PROVE LifeOK(U, S, d)
  <2>1. LifeOK(W, S, d) /\ Key(d) # Key(e)
    BY DEF AllLive
  <2>2. CASE d.frame.id = e.frame.id
    <3>1. IsCopy(d)
      BY <2>1, <2>2, SameKey
    <3> QED BY <2>1, <3>1 DEF LifeOK
  <2>3. CASE d.frame.id # e.frame.id
    BY <2>1, <2>3, <1>4 DEF LifeOK
  <2> QED BY <2>2, <2>3
<1>7. LifeOK(U, S, q)
  BY <1>1, <1>2, <1>3, <1>5 DEF LifeOK
<1>8. LifeOK(U, S, c)
  BY <1>2, <1>3 DEF LifeOK
<1>9. ASSUME NEW d \in V \cup {q}, Key(d) = Key(c) PROVE FALSE
  <2>1. IsCopy(d) /\ d.frame.id = e.frame.id
    BY <1>9, SameKey
  <2>2. d \in W
    BY <1>1, <2>1
  <2> QED BY <1>3, <2>1, <2>2 DEF Reported
<1> QED BY <1>6, <1>7, <1>8, <1>9 DEF AllLive

\* Where the packets that passed no switch are, when one is taken or put somewhere.
LEMMA PlacedTaken ==
  ASSUME NEW E, NEW Q \in [Places -> Seq(E)], NEW S, NEW x \in Places, Q[x] # <<>>, AllPlaced(Q, S)
  PROVE  AllPlaced(Taken(Q, x), S)
<1> DEFINE R == Taken(Q, x)
<1>1. /\ \A y \in Places : y # x => R[y] = Q[y]
      /\ DOMAIN R[x] = 1..(Len(Q[x]) - 1)
      /\ \A i \in 1..(Len(Q[x]) - 1) : R[x][i] = Q[x][i + 1]
      /\ Len(Q[x]) \in Nat \ {0} /\ DOMAIN Q[x] = 1..Len(Q[x])
  BY TakenIs
<1> HIDE DEF R
<1>2. ASSUME NEW y \in Places, NEW i \in DOMAIN R[y] PROVE PlaceOK(y, R[y][i], S)
  <2>1. CASE y = x
    <3>1. i + 1 \in DOMAIN Q[x] /\ R[y][i] = Q[x][i + 1]
      BY <1>1, <2>1
    <3> QED BY <2>1, <3>1 DEF AllPlaced
  <2>2. CASE y # x
    BY <1>1, <2>2 DEF AllPlaced
  <2> QED BY <2>1, <2>2
<1> QED BY <1>2 DEF AllPlaced, R

LEMMA PlacedPassed ==
  ASSUME NEW E, NEW Q \in [Places -> Seq(E)], NEW S, NEW x \in Places, NEW e \in E,
         AllPlaced(Q, S), PlaceOK(x, e, S), NEW D, NEW R, NEW B, Passed(Q, D, R, B, x, e)
  PROVE  AllPlaced(R, S)
<1>1. CASE R = Q
  BY <1>1
<1>2. CASE R = Given(Q, x, e)
  <2>1. /\ \A y \in Places : y # x => R[y] = Q[y]
        /\ DOMAIN R[x] = 1..(Len(Q[x]) + 1)
        /\ \A i \in 1..Len(Q[x]) : R[x][i] = Q[x][i]
        /\ R[x][Len(Q[x]) + 1] = e
        /\ Len(Q[x]) \in Nat /\ DOMAIN Q[x] = 1..Len(Q[x])
    BY <1>2, GivenIs
  <2>2. ASSUME NEW y \in Places, NEW i \in DOMAIN R[y] PROVE PlaceOK(y, R[y][i], S)
    <3>1. CASE y = x /\ i = Len(Q[x]) + 1
      BY <2>1, <3>1
    <3>2. CASE y = x /\ i # Len(Q[x]) + 1
      <4>1. i \in DOMAIN Q[x] /\ R[y][i] = Q[x][i]
        BY <2>1, <3>2
      <4> QED BY <3>2, <4>1 DEF AllPlaced
    <3>3. CASE y # x
      BY <2>1, <3>3 DEF AllPlaced
    <3> QED BY <3>1, <3>2, <3>3
  <2> QED BY <2>2 DEF AllPlaced
<1> QED BY <1>1, <1>2 DEF Passed

LEMMA WaitsAsItem ==
  ASSUME NEW S, NEW s, NEW p, NEW q \in Waiting(s, p, S)
  PROVE  q \in Items /\ q.frame \in GoodFrames(S) /\ q.in \in Ports /\ q.sink \in BOOLEAN /\ q.clone \in BOOLEAN
<1>1. q \in [frame : GoodFrames(S), in : Ports, sink : BOOLEAN, clone : BOOLEAN]
  BY Zenon DEF Waiting
<1>2. q.frame \in AllFrames
  BY <1>1, GoodFields
<1> QED BY <1>1, <1>2 DEF Items

LEMMA PacketIs ==
  ASSUME NEW S, NEW f \in GoodFrames(S), NEW in \in Ports \cup {0}
  PROVE  LET e == Packet(f, in) IN
         /\ e \in Items /\ e.frame = f /\ e.in = in /\ e.sink = FALSE /\ e.clone = FALSE
         /\ IsCopy(e) <=> f.report # NoReport
         /\ Past(e) <=> f.tel = NoInt /\ f.path # <<>>
<1>1. f \in AllFrames
  BY GoodFields
<1> QED BY <1>1 DEF Packet, Item, Items, IsCopy, Past

\* What kind of frame a good frame is, by its INT header and its report.
LEMMA KindIs ==
  ASSUME NEW S, NEW f \in GoodFrames(S)
  PROVE  /\ f.report = NoReport => f \in DataFrames(S)
         /\ f.report # NoReport => f \in ReportFrames(S) /\ f.tel = NoInt /\ HasL4(f)
         /\ f \in PlainFrames(S) => f.report = NoReport /\ f.tel = NoInt
         /\ f \in IntFrames(S) => f.report = NoReport /\ f.tel # NoInt /\ f.tel.valid = TRUE /\ HasL4(f)
         /\ f \in ReportFrames(S) => f.report # NoReport
         /\ f.tel # NoInt => f \in IntFrames(S)
         /\ f.tel.valid <=> f.tel # NoInt
<1>1. \A r \in Reports : r # NoReport
  <2> SUFFICES ASSUME NEW r \in Reports, r = NoReport PROVE FALSE
    OBVIOUS
  <2>1. r.valid = TRUE
    BY DEF Reports
  <2>2. NoReport.valid = FALSE
    BY DEF NoReport
  <2> QED BY <2>1, <2>2
<1>2. NoInt.valid = FALSE
  BY DEF NoInt
<1>3. f \in PlainFrames(S) => f \in DataFrames(S) /\ f.tel = NoInt /\ f.report = NoReport
  BY DEF PlainFrames, DataFrames
<1>4. f \in IntFrames(S) => f \in DataFrames(S) /\ f.report = NoReport /\ StackOK(f.tel) /\ HasL4(f)
  BY DEF IntFrames, CarryingFrames, DataFrames
<1>5. f \in ReportFrames(S) => f.report \in Reports /\ f.tel = NoInt /\ f.l4 = "udp"
  BY DEF ReportFrames
<1>6. f \in IntFrames(S) => f.tel.valid = TRUE
  BY <1>4 DEF StackOK
<1> QED BY <1>1, <1>2, <1>3, <1>4, <1>5, <1>6 DEF GoodFrames, HasL4

LEMMA TrackedIs ==
  ASSUME NEW id PROVE Tracked(id) <=> TrackedAs(sent, id)
BY DEF Tracked, TrackedAs

\* A data frame is of the flow and the kind of the packet that was sent.
LEMMA SourceOf ==
  ASSUME NEW S, NEW f \in GoodFrames(S), f.report = NoReport, NEW s, NEW in,
         HostPort(f.src) = <<s, in>>
  PROVE  IsSource(s, in, f) <=> TrackedAs(S, f.id)
<1>1. f \in DataFrames(S)
  BY KindIs
<1>2. f.src = S[f.id].src /\ f.dst = S[f.id].dst /\ f.l4 = S[f.id].l4
  BY <1>1 DEF DataFrames
<1>3. HostPort(S[f.id].src)[1] = s /\ HostPort(S[f.id].src)[2] = in
  BY <1>2
<1> QED BY <1>2, <1>3 DEF IsSource, TrackedAs, HasL4

\* A packet or copy goes from the head of one queue to another, or is dropped.
LEMMA CopyMoved ==
  ASSUME NEW Q, NEW D, NEW S, CopyOK(Q, D, S), NEW x \in Places, Q[x] # <<>>,
         NEW e, e = Head(Q[x]), NEW q \in Items, Key(q) = Key(e),
         ~IsCopy(q) => /\ q.frame.tel # NoInt => TrackedAs(S, q.frame.id)
                       /\ TrackedAs(S, q.frame.id) => (Past(q) <=> Past(e)),
         NEW y \in Places, PlaceOK(y, q, S),
         NEW R, NEW B, Passed(Taken(Q, x), D, R, B, y, q)
  PROVE  CopyOK(R, B, S)
<1> DEFINE W == InAll(Q, D)  M == Taken(Q, x)  V == InAll(M, D)
<1>1. Q \in [Places -> Seq(Items)] /\ Distinct(Q, D) /\ AllLive(W, S) /\ AllPlaced(Q, S)
  BY DEF CopyOK
<1>2. Distinct(M, D) /\ V = W \ {e} /\ \A d \in V : Key(d) # Key(e)
  BY <1>1, TakeOne
<1>3. M \in [Places -> Seq(Items)] /\ Head(Q[x]) = Q[x][1] /\ 1 \in DOMAIN Q[x]
  BY <1>1, TakenIs
<1>4. AllPlaced(M, S)
  BY <1>1, PlacedTaken
<1>5. e \in W
  BY <1>3, InAllIs
<1> HIDE DEF W, M, V
<1>6. \A d \in V : Key(d) # Key(q)
  BY <1>2
<1>7. Passed(M, D, R, B, y, q)
  BY DEF M
<1>8. R \in [Places -> Seq(Items)] /\ Distinct(R, B) /\ InAll(R, B) = V \cup {q}
  BY <1>2, <1>3, <1>6, <1>7, PassOne DEF V
<1>9. AllLive(InAll(R, B), S)
  BY <1>1, <1>2, <1>5, <1>8, LifeGoesOn
<1>10. AllPlaced(R, S)
  BY <1>3, <1>4, <1>7, PlacedPassed
<1> QED BY <1>8, <1>9, <1>10 DEF CopyOK

\* The packet at the head of a queue passes the sink: it goes on, with its copy.
LEMMA CopyMade ==
  ASSUME NEW Q, NEW D, NEW S, CopyOK(Q, D, S), NEW x \in Places, Q[x] # <<>>,
         NEW e, e = Head(Q[x]), ~IsCopy(e), ~Past(e), e.frame.tel # NoInt,
         NEW q \in Items, Key(q) = Key(e), Past(q), NEW y \in Places, PlaceOK(y, q, S),
         NEW c \in Items, IsCopy(c), c.frame.id = e.frame.id, NEW z \in Places,
         NEW N, NEW C, Passed(Taken(Q, x), D, N, C, y, q),
         NEW R, NEW B, Passed(N, C, R, B, z, c)
  PROVE  CopyOK(R, B, S)
<1> DEFINE W == InAll(Q, D)  M == Taken(Q, x)  V == InAll(M, D)
<1>1. Q \in [Places -> Seq(Items)] /\ Distinct(Q, D) /\ AllLive(W, S) /\ AllPlaced(Q, S)
  BY DEF CopyOK
<1>2. Distinct(M, D) /\ V = W \ {e} /\ \A d \in V : Key(d) # Key(e)
  BY <1>1, TakeOne
<1>3. M \in [Places -> Seq(Items)] /\ Head(Q[x]) = Q[x][1] /\ 1 \in DOMAIN Q[x]
  BY <1>1, TakenIs
<1>4. AllPlaced(M, S)
  BY <1>1, PlacedTaken
<1>5. e \in W
  BY <1>3, InAllIs
<1> HIDE DEF W, M, V
<1>6. \A d \in V : Key(d) # Key(q)
  BY <1>2
<1>7. Passed(M, D, N, C, y, q)
  BY DEF M
<1>8. N \in [Places -> Seq(Items)] /\ Distinct(N, C) /\ InAll(N, C) = V \cup {q}
  <2>1. M \in [Places -> Seq(Items)]
    BY <1>3
  <2>2. Distinct(M, D)
    BY <1>2
  <2>3. \A d \in InAll(M, D) : Key(d) # Key(q)
    BY <1>6 DEF V
  <2>4. /\ N \in [Places -> Seq(Items)] /\ Distinct(N, C)
        /\ InAll(N, C) = InAll(M, D) \cup {q}
    BY ONLY <1>7, <2>1, <2>2, <2>3, PassOne
  <2> QED BY <2>4 DEF V
<1>9. AllPlaced(N, S)
  BY <1>3, <1>4, <1>7, PlacedPassed
<1> DEFINE U == V \cup {q, c}
<1>10. AllLive(U, S) /\ \A d \in V \cup {q} : Key(d) # Key(c)
  <2>1. U = V \cup {q, c}
    OBVIOUS
  <2>2. AllLive(W, S) /\ V = W \ {e} /\ \A d \in V : Key(d) # Key(e)
    BY <1>1, <1>2
  <2> HIDE DEF U
  <2>3. Sinks(W, S, e, V, q, c, U)
    BY <1>5, <2>1, <2>2 DEF Sinks
  <2> QED BY <2>3, LifeAtSink
<1>11. \A d \in InAll(N, C) : Key(d) # Key(c)
  BY <1>8, <1>10
<1>12. R \in [Places -> Seq(Items)] /\ Distinct(R, B) /\ InAll(R, B) = InAll(N, C) \cup {c}
  <2>1. N \in [Places -> Seq(Items)]
    BY <1>8
  <2>2. Distinct(N, C)
    BY <1>8
  <2>3. Passed(N, C, R, B, z, c)
    OBVIOUS
  <2> QED BY ONLY <1>11, <2>1, <2>2, <2>3, PassOne
<1>13. InAll(R, B) = U
  BY <1>8, <1>12
<1>14. PlaceOK(z, c, S)
  BY DEF PlaceOK
<1>15. AllPlaced(R, S)
  BY <1>8, <1>9, <1>14, PlacedPassed
<1> QED BY <1>10, <1>12, <1>13, <1>15 DEF CopyOK

LEMMA QueuesEmpty ==
  ASSUME Init PROVE Queues \in [Places -> Seq(Items)] /\ \A x \in Places : DOMAIN Queues[x] = {}
<1>0. FrameInv
  BY FrameInit
<1>1. Queues \in [Places -> Seq(Items)]
  BY <1>0, QueuesType
<1>2. /\ \A s \in Switches : Queues[AtInput(s)] = FromInput(<<>>)
      /\ \A s \in Switches, p \in Ports : Queues[AtOutput(s, p)] = <<>>
      /\ \A h \in Hosts : Queues[AtHost(h)] = FromHost(<<>>)
  <2>1. /\ \A s \in Switches : inbuf[s] = <<>>
        /\ \A s \in Switches, p \in Ports : outq[s][p] = <<>>
        /\ \A h \in Hosts : received[h] = <<>>
    BY DEF Init
  <2>2. /\ \A s \in Switches : Queues[AtInput(s)] = FromInput(inbuf[s])
        /\ \A s \in Switches, p \in Ports : Queues[AtOutput(s, p)] = outq[s][p]
        /\ \A h \in Hosts : Queues[AtHost(h)] = FromHost(received[h])
    BY QueuesAre DEF Queues
  <2> QED BY <2>1, <2>2
<1>3. FromInput(<<>>) = <<>> /\ FromHost(<<>>) = <<>>
  BY DEF FromInput, FromHost
<1>4. ASSUME NEW x \in Places PROVE DOMAIN Queues[x] = {}
  <2>1. Queues[x] = <<>>
    BY <1>2, <1>3, PlacesAre
  <2> QED BY <2>1
<1> QED BY <1>1, <1>4

LEMMA CopyInit ==
  ASSUME Init PROVE CopyOK(Queues, dropped, sent)
<1>1. Queues \in [Places -> Seq(Items)]
  BY QueuesEmpty
<1>4. ASSUME NEW x \in Places PROVE DOMAIN Queues[x] = {}
  BY QueuesEmpty
<1>5. dropped = {}
  BY DEF Init
<1>6. ASSUME NEW e \in InAll(Queues, dropped) PROVE FALSE
  BY <1>4, <1>5, InAllIs
<1>7. Distinct(Queues, dropped)
  BY <1>4, <1>5 DEF Distinct
<1>8. AllLive(InAll(Queues, dropped), sent)
  BY <1>6 DEF AllLive
<1>9. AllPlaced(Queues, sent)
  BY <1>4 DEF AllPlaced
<1> QED BY <1>1, <1>7, <1>8, <1>9 DEF CopyOK

\* A packet that is sent is one more of its kind.
LEMMA CopySend ==
  ASSUME NEW Q, NEW D, NEW S, S \in Seq(Sendable), CopyOK(Q, D, S), NEW p \in Sendable,
         NEW T, T = Append(S, p), NEW r \in Switches, NEW in \in Ports, NEW f \in PlainFrames(T),
         f.id = Len(S) + 1, f.path = <<>>, HostPort(f.src) = <<r, in>>,
         NEW R, R = Given(Q, AtInput(r), Packet(f, in))
  PROVE  CopyOK(R, D, T)
<1> DEFINE e == Packet(f, in)  x == AtInput(r)  W == InAll(Q, D)  U == InAll(R, D)
<1>0. Len(S) \in Nat /\ \A i \in 1..Len(S) : T[i] = S[i]
  BY AppendProperties, LenProperties
<1>1. f \in GoodFrames(T) /\ f.report = NoReport /\ f.tel = NoInt
  BY KindIs DEF GoodFrames
<1>2. e \in Items /\ e.frame = f /\ e.in = in /\ ~IsCopy(e) /\ ~Past(e)
  BY <1>1, PacketIs
<1>3. Q \in [Places -> Seq(Items)] /\ Distinct(Q, D) /\ AllLive(W, S) /\ AllPlaced(Q, S)
  BY DEF CopyOK
<1>4. x \in Places /\ x[1] = "in" /\ x[2] = r
  BY PlacesAre DEF AtInput
<1> HIDE DEF e, x, W, U
<1>5. ASSUME NEW d \in W PROVE d.frame.id \in 1..Len(S) /\ Key(d) # Key(e)
  <2>1. d.frame.id \in 1..Len(S)
    BY <1>3 DEF AllLive, LifeOK
  <2>2. d.frame.id # e.frame.id
    BY <1>0, <1>2, <2>1
  <2> QED BY <2>1, <2>2, SameKey
<1>6. Passed(Q, D, R, D, x, e)
  BY DEF Passed, e, x
<1>7. R \in [Places -> Seq(Items)] /\ Distinct(R, D) /\ U = W \cup {e}
  <2>1. \A d \in InAll(Q, D) : Key(d) # Key(e)
    BY <1>5 DEF W
  <2>2. Q \in [Places -> Seq(Items)]
    BY <1>3
  <2>3. Distinct(Q, D)
    BY <1>3
  <2>4. R \in [Places -> Seq(Items)] /\ Distinct(R, D) /\ InAll(R, D) = InAll(Q, D) \cup {e}
    BY ONLY <1>2, <1>4, <1>6, <2>1, <2>2, <2>3, PassOne
  <2> QED BY <2>4 DEF U, W
<1>8. ASSUME NEW id \in 1..Len(S) PROVE TrackedAs(T, id) <=> TrackedAs(S, id)
  <2>1. T[id] = S[id]
    BY <1>0
  <2> QED BY <2>1 DEF TrackedAs
<1>9. ASSUME NEW id PROVE Reported(U, id) <=> Reported(W, id)
  BY <1>2, <1>7 DEF Reported
<1>10. Len(T) = Len(S) + 1
  BY AppendProperties
<1>11. ASSUME NEW d \in W PROVE LifeOK(U, T, d)
  <2>1. LifeOK(W, S, d) /\ d.frame.id \in 1..Len(S)
    BY <1>3, <1>5 DEF AllLive
  <2>2. d.frame.id \in 1..Len(T)
    BY <1>0, <1>10, <2>1
  <2>3. TrackedAs(T, d.frame.id) <=> TrackedAs(S, d.frame.id)
    BY <1>8, <2>1
  <2>4. Reported(U, d.frame.id) <=> Reported(W, d.frame.id)
    BY <1>9
  <2> QED BY <2>1, <2>2, <2>3, <2>4 DEF LifeOK
<1>12. LifeOK(U, T, e)
  <2>1. ~Reported(U, e.frame.id)
    <3>1. ASSUME NEW c \in W, c.frame.id = e.frame.id PROVE FALSE
      BY <1>0, <1>2, <1>5, <3>1
    <3>2. ~Reported(W, e.frame.id)
      BY <3>1 DEF Reported
    <3> QED BY <1>9, <3>2
  <2>2. e.frame.id \in 1..Len(T)
    BY <1>0, <1>2, <1>10
  <2> QED BY <1>1, <1>2, <2>1, <2>2 DEF LifeOK
<1>13. AllLive(U, T)
  BY <1>7, <1>11, <1>12 DEF AllLive
<1>14. AllPlaced(Q, T)
  <2> SUFFICES ASSUME NEW y \in Places, NEW i \in DOMAIN Q[y] PROVE PlaceOK(y, Q[y][i], T)
    BY DEF AllPlaced
  <2>1. PlaceOK(y, Q[y][i], S)
    BY <1>3 DEF AllPlaced
  <2>2. Q[y][i] \in W
    BY InAllIs DEF W
  <2>3. TrackedAs(T, Q[y][i].frame.id) <=> TrackedAs(S, Q[y][i].frame.id)
    BY <1>5, <1>8, <2>2
  <2> QED BY <2>1, <2>3 DEF PlaceOK
<1>15. PlaceOK(x, e, T)
  BY <1>1, <1>2, <1>4 DEF PlaceOK
<1>16. AllPlaced(R, T)
  BY <1>2, <1>3, <1>4, <1>6, <1>14, <1>15, PlacedPassed
<1> QED BY <1>7, <1>13, <1>16 DEF CopyOK, U

\* The pipelines change neither the packet a frame carries nor, but for
\* make_report, that it is no report.
Alike(f, g) == DOMAIN g = DOMAIN f /\ g.id = f.id /\ g.report = f.report

With(g, field, v) == [g EXCEPT ![field] = v]

LEMMA AlikeExcept ==
  ASSUME NEW f \in AllFrames, NEW g, Alike(f, g), NEW k, k \notin {"id", "report"}, NEW v
  PROVE  Alike(f, With(g, k, v))
<1>1. DOMAIN f = {"id", "src", "dst", "l4", "hl", "len", "ulen", "dscp", "tel", "report", "path"}
  BY DEF AllFrames
<1>2. With(g, k, v) = [g EXCEPT ![k] = v]
  BY DEF With
<1> QED BY <1>1, <1>2 DEF Alike

LEMMA AlikeLonger ==
  ASSUME NEW f \in AllFrames, NEW g, Alike(f, g), NEW n
  PROVE  Alike(f, AddLength(g, n))
<1> DEFINE h == [g EXCEPT !.len = (g.len + n) % 65536]
           u == IF g.l4 = "udp" THEN (g.ulen + n) % 65536 ELSE g.ulen
           k == [h EXCEPT !.ulen = u]
<1>1. DOMAIN g = {"id", "src", "dst", "l4", "hl", "len", "ulen", "dscp", "tel", "report", "path"}
  BY DEF AllFrames, Alike
<1>2. Alike(f, h)
  <2>1. h = With(g, "len", (g.len + n) % 65536)
    BY DEF With
  <2> HIDE DEF h
  <2> QED BY <2>1, AlikeExcept
<1>3. h.ulen = g.ulen
  BY <1>1
<1>4. AddLength(g, n) = [[g EXCEPT !.len = (@ + n) % 65536] EXCEPT !.ulen = IF g.l4 = "udp" THEN (@ + n) % 65536 ELSE @]
  BY DEF AddLength
<1>5. [g EXCEPT !.len = (@ + n) % 65536] = h
  OBVIOUS
<1>6. AddLength(g, n) = [h EXCEPT !.ulen = IF g.l4 = "udp" THEN (@ + n) % 65536 ELSE @]
  BY <1>4, <1>5
<1> HIDE DEF h
<1>7. AddLength(g, n) = k
  BY <1>3, <1>6
<1>8. k = With(h, "ulen", u)
  BY DEF With
<1> HIDE DEF k, u
<1> QED BY <1>2, <1>7, <1>8, AlikeExcept

LEMMA SameId ==
  ASSUME NEW f \in AllFrames, NEW s, NEW in, NEW out
  PROVE  /\ Alike(f, Sourced(f)) /\ Alike(f, Sunk(f)) /\ Alike(f, Passing(s, in, out, f))
         /\ Alike(f, Transited(s, in, out, f))
         /\ \A n : Report(s, f, n).id = f.id
<1>1. Alike(f, f)
  BY DEF Alike
<1>2. ASSUME NEW g, Alike(f, g), NEW v, NEW w PROVE Alike(f, [g EXCEPT !.dscp = v, !.tel = w])
  <2> DEFINE h == [g EXCEPT !.dscp = v]
  <2>1. h = With(g, "dscp", v)
    BY DEF With
  <2>2. [g EXCEPT !.dscp = v, !.tel = w] = [h EXCEPT !.tel = w]
    OBVIOUS
  <2> HIDE DEF h
  <2>3. [h EXCEPT !.tel = w] = With(h, "tel", w)
    BY DEF With
  <2>4. Alike(f, h)
    BY <1>2, <2>1, AlikeExcept
  <2>5. Alike(f, With(h, "tel", w))
    BY <2>4, AlikeExcept
  <2> QED BY <2>2, <2>3, <2>5
<1>3. Alike(f, Sourced(f))
  <2> DEFINE g == AddLength(f, 4 * IntWords)
             w == [valid |-> TRUE, saved |-> f.dscp, words |-> IntWords, hml |-> InsCnt,
                   left |-> MaxHop, e |-> FALSE, m |-> FALSE, hops |-> <<>>]
  <2>1. Alike(f, g)
    BY <1>1, AlikeLonger
  <2>2. Sourced(f) = [g EXCEPT !.dscp = IntDscp, !.tel = w]
    BY DEF Sourced
  <2> HIDE DEF g, w
  <2>3. Alike(f, [g EXCEPT !.dscp = IntDscp, !.tel = w])
    BY <1>2, <2>1, Zenon
  <2> QED BY <2>2, <2>3
<1>4. Alike(f, Sunk(f))
  <2> DEFINE g == AddLength(f, -4 * f.tel.words)  d == f.tel.saved
  <2>1. Alike(f, g)
    BY <1>1, AlikeLonger
  <2>2. Sunk(f) = [g EXCEPT !.dscp = d, !.tel = NoInt]
    BY DEF Sunk
  <2> HIDE DEF g, d
  <2>3. Alike(f, [g EXCEPT !.dscp = d, !.tel = NoInt])
    BY <1>2, <2>1, Zenon
  <2> QED BY <2>2, <2>3
<1>5. Alike(f, Passing(s, in, out, f))
  <2> DEFINE v == Append(f.path, [switch |-> s, in |-> in, out |-> out])
  <2>1. Passing(s, in, out, f) = With(f, "path", v)
    BY DEF Passing, With
  <2> HIDE DEF v
  <2> QED BY <1>1, <2>1, AlikeExcept
<1>6. Alike(f, Transited(s, in, out, f))
  <2> DEFINE t == f.tel  te == [t EXCEPT !.e = TRUE]  tm == [t EXCEPT !.m = TRUE]
             g == AddLength(f, 4 * t.hml)  tp == PushHop(g.tel, Hop(s, in, out))
  <2>1. \/ Transited(s, in, out, f) = With(f, "tel", te)
        \/ Transited(s, in, out, f) = With(f, "tel", tm)
        \/ Transited(s, in, out, f) = With(g, "tel", tp)
    <3>1. \/ Transited(s, in, out, f) = [f EXCEPT !.tel.e = TRUE]
          \/ Transited(s, in, out, f) = Marked(f)
          \/ Transited(s, in, out, f) = WithHop(s, in, out, f)
      BY Zenon DEF Transited
    <3>2. [f EXCEPT !.tel.e = TRUE] = With(f, "tel", te)
      BY DEF With
    <3>3. Marked(f) = With(f, "tel", tm)
      BY DEF Marked, With
    <3>4. WithHop(s, in, out, f) = With(g, "tel", tp)
      <4>1. WithHop(s, in, out, f) = [g EXCEPT !.tel = PushHop(@, Hop(s, in, out))]
        BY DEF WithHop
      <4> HIDE DEF g
      <4> QED BY <4>1 DEF With
    <3> QED BY <3>1, <3>2, <3>3, <3>4, Zenon
  <2>2. Alike(f, g)
    BY <1>1, AlikeLonger
  <2> HIDE DEF te, tm, g, tp
  <2> QED BY <1>1, <2>1, <2>2, AlikeExcept
<1>7. ASSUME NEW n PROVE Report(s, f, n).id = f.id
  BY DEF Report, Frame
<1> QED BY <1>3, <1>4, <1>5, <1>6, <1>7

LEMMA PlaceKinds ==
  /\ \A s : AtInput(s)[1] = "in" /\ AtInput(s)[2] = s
  /\ \A s, p : AtOutput(s, p)[1] = "out" /\ AtOutput(s, p)[2] = s
  /\ \A h : AtHost(h)[1] = "host" /\ AtHost(h)[2] = h
BY DEF AtInput, AtOutput, AtHost

LEMMA HeadLives ==
  ASSUME NEW Q, NEW D, NEW S, CopyOK(Q, D, S), NEW x \in Places, Q[x] # <<>>
  PROVE  LifeOK(InAll(Q, D), S, Head(Q[x])) /\ PlaceOK(x, Head(Q[x]), S)
<1>1. Q \in [Places -> Seq(Items)] /\ AllLive(InAll(Q, D), S) /\ AllPlaced(Q, S)
  BY DEF CopyOK
<1>2. Head(Q[x]) = Q[x][1] /\ 1 \in DOMAIN Q[x]
  BY <1>1, TakenIs
<1>3. Head(Q[x]) \in InAll(Q, D)
  BY <1>2, InAllIs
<1> QED BY <1>1, <1>2, <1>3 DEF AllLive, AllPlaced

\* What a packet that ingress takes becomes.
LEMMA IngressTurns ==
  ASSUME NEW S, S \in Seq(Sendable), NEW s \in Switches, NEW f \in GoodFrames(S), NEW in \in Ports,
         in \in Tables[s].source => f \in PlainFrames(S) /\ f.path = <<>>,
         NEW W, LifeOK(W, S, Packet(f, in)), PlaceOK(AtInput(s), Packet(f, in), S)
  PROVE  LET out == Out(s, f)  g == IF IsSource(s, in, f) THEN Sourced(f) ELSE f
             sink == IsSink(s, out, g)  q == Item(g, in, sink, FALSE)
         IN /\ g.id = f.id /\ g.report = f.report
            /\ f.report = NoReport =>
                 /\ g.tel # NoInt => TrackedAs(S, f.id)
                 /\ ~sink /\ TrackedAs(S, f.id) => (Past(q) <=> Past(Packet(f, in)))
            /\ PlaceOK(AtOutput(s, out), q, S)
            /\ sink => /\ f.report = NoReport /\ f.tel # NoInt /\ Past(q) /\ ~Past(Packet(f, in))
<1> DEFINE out == Out(s, f)  g == IF IsSource(s, in, f) THEN Sourced(f) ELSE f
           sink == IsSink(s, out, g)  q == Item(g, in, sink, FALSE)  e == Packet(f, in)
           y == AtOutput(s, out)  T == TrackedAs(S, f.id)
<1>1. /\ e \in Items /\ e.frame = f /\ e.in = in /\ (IsCopy(e) <=> f.report # NoReport)
      /\ Past(e) <=> f.tel = NoInt /\ f.path # <<>>
  BY PacketIs
<1>2. q.frame = g /\ q.sink = sink /\ q.clone = FALSE
  BY DEF Item
<1>3. y[1] = "out"
  BY PlaceKinds
<1>4. f.report = NoReport => (f.tel # NoInt => T)
  BY <1>1 DEF LifeOK
<1>5. f.report = NoReport /\ f.path = <<>> => f.tel = NoInt /\ HostPort(f.src) = <<s, in>>
  BY <1>1, PlaceKinds DEF PlaceOK
<1>6. f.report = NoReport /\ f.path = <<>> => (IsSource(s, in, f) <=> T)
  BY <1>5, SourceOf
<1>7. sink <=> HasL4(g) /\ g.tel.valid /\ out \in Tables[s].sink
  BY DEF IsSink
<1>8. f \in AllFrames
  BY GoodFields
<1>9. CASE IsSource(s, in, f)
  <2>1. in \in Tables[s].source /\ <<f.src, f.dst>> \in Tables[s].flows /\ HasL4(f)
    BY <1>9 DEF IsSource
  <2>2. f \in PlainFrames(S) /\ f.path = <<>>
    BY <2>1
  <2>3. f.report = NoReport /\ f.tel = NoInt
    BY <2>2, KindIs
  <2>4. g = Sourced(f)
    BY <1>9
  <2>5. g \in CarryingFrames(S) /\ g.path = <<>>
    BY <2>1, <2>2, <2>4, SourcedCarries
  <2>6. g.tel # NoInt
    <3>1. g.tel.valid = TRUE
      BY <2>5 DEF CarryingFrames, StackOK
    <3>2. NoInt.valid = FALSE
      BY DEF NoInt
    <3> QED BY <3>1, <3>2
  <2>7. g.id = f.id /\ g.report = f.report
    BY <1>8, <2>4, SameId DEF Alike
  <2>8. out \notin Tables[s].sink
    <3>1. <<f.src, f.dst>>[2] = f.dst
      OBVIOUS
    <3>2. Tables[s].forward[<<f.src, f.dst>>[2]] \notin Tables[s].sink
      BY <2>1, TablesAssumption DEF TablesAssumption
    <3> QED BY <3>1, <3>2 DEF Out
  <2> HIDE DEF g, e, T, y, out
  <2>9. ~sink
    BY <1>7, <2>8
  <2> HIDE DEF sink, q
  <2>10. ~Past(q) /\ ~Past(e)
    BY <1>1, <1>2, <2>2, <2>6, <2>9 DEF Past
  <2>11. PlaceOK(y, q, S)
    BY <1>2, <1>3, <2>6 DEF PlaceOK
  <2> QED BY <1>6, <2>2, <2>3, <2>7, <2>9, <2>10, <2>11 DEF g, e, T, y, q, sink, out
<1>10. CASE ~IsSource(s, in, f)
  <2>1. g = f
    BY <1>10
  <2> HIDE DEF g
  <2>2. PlaceOK(y, q, S)
    <3> SUFFICES ASSUME ~IsCopy(q), q.frame.path = <<>>
                 PROVE  q.frame.tel = NoInt => ~TrackedAs(S, q.frame.id)
      BY <1>3 DEF PlaceOK
    <3>1. f.report = NoReport /\ f.path = <<>>
      BY <1>2, <2>1 DEF IsCopy
    <3> QED BY <1>2, <1>6, <1>10, <2>1, <3>1
  <2>3. sink => f.tel # NoInt /\ f.report = NoReport
    <3>1. f.tel.valid <=> f.tel # NoInt
      BY KindIs
    <3>2. f.tel # NoInt => f.report = NoReport
      BY KindIs
    <3> QED BY <1>7, <2>1, <3>1, <3>2
  <2> HIDE DEF e, T, y, out, sink, q
  <2>4. sink => Past(q) /\ ~Past(e)
    BY <1>1, <1>2, <2>3 DEF Past
  <2>5. ~sink => (Past(q) <=> Past(e))
    BY <1>1, <1>2, <2>1 DEF Past
  <2> QED BY <1>4, <2>1, <2>2, <2>3, <2>4, <2>5 DEF g, e, T, y, q, sink, out
<1> QED BY <1>9, <1>10

LEMMA CopyIngress ==
  ASSUME CopyInv, NEW s \in Switches, Ingress(s)
  PROVE  CopyOK(Queues, dropped, sent)'
<1> DEFINE a == Head(inbuf[s])  f == a.frame  in == a.in  out == Out(s, f)
           e == Packet(f, in)
           g == IF IsSource(s, in, f) THEN Sourced(f) ELSE f
           sink == IsSink(s, out, g)
           x == AtInput(s)  y == AtOutput(s, out)  z == AtOutput(s, Tables[s].mirror)
           mid == Taken(Queues, x)
           q == Item(g, in, sink, FALSE)  c == Item(f, in, FALSE, TRUE)
           S == sent  W == InAll(Queues, dropped)
<1>1. FrameInv /\ CopyOK(Queues, dropped, S) /\ S \in Seq(Sendable)
  BY DEF CopyInv, FrameInv
<1>2. /\ a \in Arrivals(s, sent) /\ out \in Ports
      /\ Queues[x] # <<>> /\ Head(Queues[x]) = e
      /\ q \in Waiting(s, out, sent)
      /\ ~sink => Passed(mid, dropped, Queues', dropped', y, q)
      /\ sink => /\ c \in Waiting(s, Tables[s].mirror, sent) /\ Tables[s].mirror \in Ports
                 /\ \E R, B : /\ Passed(mid, dropped, R, B, y, q)
                             /\ Passed(R, B, Queues', dropped', z, c)
      /\ sent' = sent
  BY <1>1, IngressMoves
<1>3. f \in GoodFrames(S) /\ in \in Ports
      /\ (in \in Tables[s].source => f \in PlainFrames(S) /\ f.path = <<>>)
  BY <1>2 DEF Arrivals
<1>4. x \in Places /\ y \in Places /\ (Tables[s].mirror \in Ports => z \in Places)
  BY <1>2, PlacesAre
<1>5. LifeOK(W, S, e) /\ PlaceOK(x, e, S)
  <2> HIDE DEF S, e, x
  <2> QED BY <1>1, <1>2, <1>4, HeadLives
<1>6. /\ g.id = f.id /\ g.report = f.report
      /\ f.report = NoReport =>
           /\ g.tel # NoInt => TrackedAs(S, f.id)
           /\ ~sink /\ TrackedAs(S, f.id) => (Past(q) <=> Past(e))
      /\ PlaceOK(y, q, S)
      /\ sink => /\ f.report = NoReport /\ f.tel # NoInt /\ Past(q) /\ ~Past(e)
  <2> DEFINE A == a  i == in  F == f
  <2>1. F = f /\ i = in
    OBVIOUS
  <2> HIDE DEF a, S, W
  <2> QED BY <1>1, <1>3, <1>5, IngressTurns
<1>7. /\ e.frame = f /\ (IsCopy(e) <=> f.report # NoReport)
      /\ q.frame = g /\ (IsCopy(q) <=> g.report # NoReport)
      /\ c.frame = f /\ IsCopy(c)
  <2>1. e.frame = f /\ (IsCopy(e) <=> f.report # NoReport)
    BY <1>3, PacketIs
  <2>2. q.frame = g /\ q.clone = FALSE /\ c.frame = f /\ c.clone = TRUE
    BY DEF Item
  <2> QED BY <2>1, <2>2 DEF IsCopy
<1>8. q \in Items
  BY <1>2, WaitsAsItem
<1>9. sink => c \in Items
  BY <1>2, WaitsAsItem
<1>10. Key(q) = Key(e)
  <2>1. g.id = f.id /\ g.report = f.report
    BY <1>6
  <2> HIDE DEF q, e, g, a
  <2>2. q.frame.id = e.frame.id /\ (IsCopy(q) <=> IsCopy(e))
    BY <1>7, <2>1
  <2> QED BY <2>2, SameKey
<1>11. PICK R, B : R = Queues' /\ B = dropped'
  OBVIOUS
<1> HIDE DEF a, out, e, g, sink, x, y, z, mid, q, c, S, W
<1>12. Passed(Taken(Queues, x), dropped, R, B, y, q) => CopyOK(R, B, S) \/ sink
  <2> SUFFICES ASSUME ~sink, Passed(Taken(Queues, x), dropped, R, B, y, q) PROVE CopyOK(R, B, S)
    OBVIOUS
  <2>1. ~IsCopy(q) => /\ q.frame.tel # NoInt => TrackedAs(S, q.frame.id)
                      /\ TrackedAs(S, q.frame.id) => (Past(q) <=> Past(e))
    BY <1>6, <1>7
  <2>2. e = Head(Queues[x]) /\ Queues[x] # <<>>
    BY <1>2
  <2>3. CopyOK(Queues, dropped, S) /\ PlaceOK(y, q, S) /\ x \in Places /\ y \in Places
    BY <1>1, <1>4, <1>6
  <2> QED BY <1>8, <1>10, <2>1, <2>2, <2>3, CopyMoved
<1>13. CASE ~sink
  <2>1. CopyOK(R, B, S)
    BY <1>2, <1>11, <1>12, <1>13 DEF mid
  <2> QED BY <1>2, <1>11, <2>1 DEF S
<1>14. CASE sink
  <2>1. PICK N, C : Passed(mid, dropped, N, C, y, q) /\ Passed(N, C, R, B, z, c)
    BY <1>2, <1>11, <1>14
  <2>2. e = Head(Queues[x]) /\ Queues[x] # <<>>
    BY <1>2
  <2>3. CopyOK(Queues, dropped, S) /\ PlaceOK(y, q, S) /\ x \in Places /\ y \in Places /\ z \in Places
    BY <1>1, <1>2, <1>4, <1>6, <1>14
  <2>4. ~IsCopy(e) /\ ~Past(e) /\ e.frame.tel # NoInt /\ Past(q) /\ c.frame.id = e.frame.id
    BY <1>6, <1>7, <1>14
  <2>5. c \in Items /\ IsCopy(c) /\ q \in Items /\ Key(q) = Key(e)
    BY <1>7, <1>8, <1>9, <1>10, <1>14
  <2>6. CopyOK(R, B, S)
    BY <2>1, <2>2, <2>3, <2>4, <2>5, CopyMade DEF mid
  <2> QED BY <1>2, <1>11, <2>6 DEF S
<1> QED BY <1>13, <1>14

\* The packet behind the egress pipeline, by what ingress said of it.
LEMMA LeavingIs ==
  ASSUME NEW S, NEW s \in Switches, NEW out \in Ports, NEW q \in Waiting(s, out, S)
  PROVE  LET h == q.frame  p == Passing(s, q.in, out, h)
             t == IF HasL4(p) /\ p.tel.valid THEN Transited(s, q.in, out, p) ELSE p
         IN /\ p.path = Append(h.path, StepOf(Hop(s, q.in, out))) /\ p.tel = h.tel
            /\ p \in AllFrames /\ p.id = h.id /\ p.report = h.report /\ (HasL4(p) <=> HasL4(h))
            /\ Leaving(s, out, q) = IF ~HasL4(h) THEN p
                                    ELSE IF q.clone = TRUE THEN Report(s, t, seq[s])
                                    ELSE IF q.sink = TRUE THEN Sunk(t) ELSE t
<1> DEFINE f == Leaving(s, out, q)  h == q.frame
           p == Passing(s, q.in, out, h)
           t == IF HasL4(p) /\ p.tel.valid THEN Transited(s, q.in, out, p) ELSE p
<1>1. /\ q \in Items /\ h \in GoodFrames(S) /\ q.in \in Ports
      /\ q.sink \in BOOLEAN /\ q.clone \in BOOLEAN
  BY WaitsAsItem
<1>2. h \in AllFrames /\ p.id = h.id /\ p.report = h.report
  <2>1. h \in AllFrames
    BY <1>1, GoodFields
  <2> DEFINE in == q.in
  <2>2. p = Passing(s, in, out, h)
    OBVIOUS
  <2> HIDE DEF in, h, p
  <2> QED BY <2>1, <2>2, SameId DEF Alike
<1>3. /\ p.tel = h.tel /\ p.path = Append(h.path, StepOf(Hop(s, q.in, out))) /\ p.l4 = h.l4
      /\ p \in AllFrames
  <2> DEFINE in == q.in
  <2>1. p = Passing(s, in, out, h) /\ in \in Ports
    BY <1>1
  <2>2. h \in PlainFrames(S) \cup CarryingFrames(S) \cup ReportFrames(S)
    BY <1>1 DEF GoodFrames, IntFrames
  <2> HIDE DEF in, h, p
  <2>3. /\ p.tel = h.tel /\ p.path = Append(h.path, StepOf(Hop(s, in, out))) /\ p.l4 = h.l4
        /\ p \in PlainFrames(S) \cup CarryingFrames(S) \cup ReportFrames(S)
    BY <2>1, <2>2, PathGrows
  <2>4. p \in AllFrames
    BY <2>3 DEF PlainFrames, CarryingFrames, DataFrames, ReportFrames
  <2> QED BY <2>3, <2>4 DEF in
<1>7. (h \notin IntFrames(S) /\ ~HasL4(h)) \/ HasL4(h)
  BY <1>1, KindIs
<1>8. /\ q.clone = TRUE => h \in IntFrames(S) /\ q.sink = FALSE
      /\ q.sink = TRUE => h \in IntFrames(S)
  BY DEF Waiting
<1>9. HasL4(p) <=> HasL4(h)
  BY <1>3 DEF HasL4
<1>10. f = IF ~HasL4(h) THEN p
           ELSE IF q.clone = TRUE THEN Report(s, t, seq[s])
           ELSE IF q.sink = TRUE THEN Sunk(t) ELSE t
  <2>1. f = CASE ~HasL4(p)  -> p
              [] q.clone    -> Report(s, t, seq[s])
              [] q.sink     -> Sunk(t)
              [] OTHER      -> t
    BY Zenon DEF Leaving
  <2> HIDE DEF f, p, t
  <2>2. CASE ~HasL4(p)
    <3>1. q.clone = FALSE /\ q.sink = FALSE
      BY <1>1, <1>7, <1>8, <1>9, <2>2
    <3>2. f = p
      BY <2>1, <2>2, <3>1, Zenon
    <3> QED BY <1>9, <2>2, <3>2
  <2>3. CASE HasL4(p) /\ q.clone = TRUE
    <3>1. f = Report(s, t, seq[s])
      BY <1>8, <2>1, <2>3, Zenon
    <3> QED BY <1>9, <2>3, <3>1
  <2>4. CASE HasL4(p) /\ q.clone = FALSE /\ q.sink = TRUE
    <3>1. f = Sunk(t)
      BY <2>1, <2>4, Zenon
    <3> QED BY <1>9, <2>4, <3>1
  <2>5. CASE HasL4(p) /\ q.clone = FALSE /\ q.sink = FALSE
    <3>1. f = t
      BY <2>1, <2>5, Zenon
    <3> QED BY <1>9, <2>5, <3>1
  <2> QED BY <1>1, <2>2, <2>3, <2>4, <2>5
<1> QED BY <1>2, <1>3, <1>9, <1>10

\* What a packet that leaves a switch becomes.
LEMMA EgressTurns ==
  ASSUME NEW S, S \in Seq(Sendable), seq \in [Switches -> Nat], NEW s \in Switches,
         NEW out \in Ports, NEW q \in Waiting(s, out, S),
         NEW W, LifeOK(W, S, q), PlaceOK(AtOutput(s, out), q, S),
         NEW i \in Ports \cup {0}
  PROVE  LET f == Leaving(s, out, q)  e == Packet(f, i) IN
         /\ f.id = q.frame.id /\ (IsCopy(e) <=> IsCopy(q))
         /\ ~IsCopy(e) => /\ f.tel # NoInt => TrackedAs(S, f.id)
                          /\ TrackedAs(S, f.id) => (Past(e) <=> Past(q))
                          /\ f.path # <<>>
<1> DEFINE f == Leaving(s, out, q)  e == Packet(f, i)  h == q.frame  T == TrackedAs(S, h.id)
           p == Passing(s, q.in, out, h)
           t == IF HasL4(p) /\ p.tel.valid THEN Transited(s, q.in, out, p) ELSE p
           y == AtOutput(s, out)
<1>1. /\ q \in Items /\ h \in GoodFrames(S) /\ q.in \in Ports
      /\ q.sink \in BOOLEAN /\ q.clone \in BOOLEAN
  BY WaitsAsItem
<1>2. f \in GoodFrames(S)
  BY LeavingIsGood, Zenon
<1>3. /\ e.frame = f /\ (IsCopy(e) <=> f.report # NoReport)
      /\ Past(e) <=> f.tel = NoInt /\ f.path # <<>>
  BY <1>2, PacketIs
<1>4. h \in AllFrames /\ p.id = h.id /\ p.report = h.report
  <2>1. h \in AllFrames
    BY <1>1, GoodFields
  <2> DEFINE in == q.in
  <2>2. p = Passing(s, in, out, h)
    OBVIOUS
  <2> HIDE DEF in, h, p
  <2> QED BY <2>1, <2>2, SameId DEF Alike
<1>5. /\ h \in PlainFrames(S) => p \in PlainFrames(S)
      /\ h \in CarryingFrames(S) => p \in CarryingFrames(S)
      /\ h \in ReportFrames(S) => p \in ReportFrames(S)
      /\ p.tel = h.tel /\ p.path = Append(h.path, StepOf(Hop(s, q.in, out))) /\ p.l4 = h.l4
  <2> DEFINE in == q.in
  <2>1. p = Passing(s, in, out, h) /\ in \in Ports
    BY <1>1
  <2>2. h \in PlainFrames(S) \cup CarryingFrames(S) \cup ReportFrames(S)
    BY <1>1 DEF GoodFrames, IntFrames
  <2> HIDE DEF in, h, p
  <2>3. /\ h \in PlainFrames(S) => p \in PlainFrames(S)
        /\ h \in CarryingFrames(S) => p \in CarryingFrames(S)
        /\ h \in ReportFrames(S) => p \in ReportFrames(S)
        /\ p.tel = h.tel /\ p.path = Append(h.path, StepOf(Hop(s, in, out))) /\ p.l4 = h.l4
    BY <2>1, <2>2, PathGrows
  <2> QED BY <2>3 DEF in
<1>6. p.path # <<>>
  <2>1. h.path \in Seq(Steps) /\ StepOf(Hop(s, q.in, out)) \in Steps
    BY <1>1, GoodFields DEF StepOf, Hop, Steps
  <2> QED BY <1>5, <2>1, AppendProperties
<1>7. /\ h \in PlainFrames(S) => h.report = NoReport /\ h.tel = NoInt
      /\ h \in IntFrames(S) => h.report = NoReport /\ h.tel # NoInt /\ h.tel.valid = TRUE /\ HasL4(h)
      /\ h \in ReportFrames(S) => h.report # NoReport /\ h.tel = NoInt /\ HasL4(h)
      /\ h.tel.valid <=> h.tel # NoInt
  BY <1>1, KindIs
<1>8. /\ q.clone = TRUE => h \in IntFrames(S) /\ q.sink = FALSE
      /\ q.sink = TRUE => h \in IntFrames(S)
  BY DEF Waiting
<1>9. HasL4(p) <=> HasL4(h)
  BY <1>5 DEF HasL4
<1>10. f = IF ~HasL4(h) THEN p
           ELSE IF q.clone = TRUE THEN Report(s, t, seq[s])
           ELSE IF q.sink = TRUE THEN Sunk(t) ELSE t
  BY LeavingIs
<1> HIDE DEF f, p, e, h, T, y
<1>11. CASE h \notin IntFrames(S)
  <2>1. f = p /\ h.tel = NoInt
    <3>1. h.tel = NoInt
      BY <1>1, <1>7, <1>11 DEF GoodFrames
    <3>2. ~p.tel.valid
      BY <1>5, <1>7, <3>1
    <3>3. t = p
      BY <3>2
    <3> HIDE DEF t
    <3> QED BY <1>1, <1>8, <1>10, <1>11, <3>1, <3>3
  <2>2. IsCopy(e) <=> IsCopy(q)
    BY <1>3, <1>4, <1>8, <1>11, <2>1 DEF IsCopy, h
  <2>3. q.sink = FALSE
    BY <1>1, <1>8, <1>11
  <2>4. Past(e)
    BY <1>3, <1>5, <1>6, <2>1
  <2>5. ASSUME ~IsCopy(q), T PROVE Past(q)
    <3>1. h.path = <<>> => ~T
      <4>1. y[1] = "out"
        BY PlaceKinds DEF y
      <4> QED BY <2>1, <2>5, <4>1 DEF PlaceOK, h, T, y
    <3> QED BY <2>1, <2>5, <3>1 DEF Past, h
  <2> QED BY <1>4, <1>5, <1>6, <2>1, <2>2, <2>4, <2>5 DEF f, e, T, h
<1>12. CASE h \in IntFrames(S)
  <2>1. HasL4(h) /\ h.tel # NoInt /\ h.report = NoReport /\ h \in CarryingFrames(S)
    BY <1>7, <1>12 DEF IntFrames
  <2>2. t = Transited(s, q.in, out, p)
    BY <1>5, <1>7, <1>9, <2>1
  <2>3. p \in CarryingFrames(S) /\ p \in AllFrames
    BY <1>5, <2>1, CarryingFields
  <2> HIDE DEF t
  <2>4. t \in CarryingFrames(S) /\ t.path = p.path
    BY <1>1, <2>2, <2>3, TransitedCarries
  <2>5. t.id = h.id /\ t.report = NoReport /\ t \in AllFrames
    <3>1. t.id = p.id /\ t.report = p.report
      BY <2>2, <2>3, SameId DEF Alike
    <3> QED BY <1>4, <2>1, <2>4, <3>1, CarryingFields
  <2>6. t.tel # NoInt
    <3>1. t.tel.valid = TRUE
      BY <2>4 DEF CarryingFrames, StackOK
    <3>2. NoInt.valid = FALSE
      BY DEF NoInt
    <3> QED BY <3>1, <3>2
  <2>7. ~IsCopy(q) => T
    BY <2>1 DEF LifeOK, T, h
  <2>8. CASE q.clone = TRUE
    <3>1. f = Report(s, t, seq[s])
      BY <1>10, <2>1, <2>8
    <3>2. f.id = t.id
      BY <2>5, <3>1, SameId
    <3>3. f.report # NoReport
      <4>1. t \in IntFrames(S)
        BY <1>1, <1>12, <2>2, IntOutcome DEF p
      <4>2. seq[s] \in Nat
        OBVIOUS
      <4>3. f \in ReportFrames(S)
        BY <3>1, <4>1, <4>2, ReportIsReport
      <4> QED BY <1>2, <4>3, KindIs
    <3>4. IsCopy(e) /\ IsCopy(q)
      BY <1>3, <2>8, <3>3 DEF IsCopy
    <3> QED BY <2>5, <3>2, <3>4 DEF f, e, T, h
  <2>9. CASE q.clone = FALSE /\ q.sink = TRUE
    <3>1. f = Sunk(t)
      BY <1>10, <2>1, <2>9
    <3>2. f.id = h.id /\ f.report = NoReport
      BY <2>5, <3>1, SameId DEF Alike
    <3>3. f.tel = NoInt /\ f.path # <<>>
      <4>1. f \in PlainFrames(S) /\ f.path = t.path
        BY <2>4, <3>1, SunkIsPlain
      <4>2. f.tel = NoInt
        BY <4>1 DEF PlainFrames
      <4> QED BY <1>6, <2>4, <4>1, <4>2
    <3>4. ~IsCopy(e) /\ ~IsCopy(q) /\ Past(e) /\ Past(q)
      BY <1>3, <2>1, <2>9, <3>2, <3>3 DEF IsCopy, Past, h
    <3> QED BY <2>7, <3>2, <3>3, <3>4 DEF f, e, T, h
  <2>10. CASE q.clone = FALSE /\ q.sink = FALSE
    <3>1. f = t
      BY <1>10, <2>1, <2>10
    <3>2. ~IsCopy(e) /\ ~IsCopy(q) /\ ~Past(e) /\ ~Past(q)
      BY <1>3, <2>1, <2>5, <2>6, <2>10, <3>1 DEF IsCopy, Past, h
    <3> QED BY <1>6, <2>4, <2>5, <2>7, <3>1, <3>2 DEF f, e, T, h
  <2> QED BY <1>1, <2>8, <2>9, <2>10
<1> QED BY <1>11, <1>12

LEMMA CopyEgress ==
  ASSUME CopyInv, NEW s \in Switches, NEW out \in Ports, Egress(s, out)
  PROVE  CopyOK(Queues, dropped, sent)'
<1> DEFINE q == Head(outq[s][out])  f == Leaving(s, out, q)  to == Peer[s][out]
           x == AtOutput(s, out)  mid == Taken(Queues, x)
           S == sent  W == InAll(Queues, dropped)
<1>1. FrameInv /\ CopyOK(Queues, dropped, S) /\ S \in Seq(Sendable) /\ seq \in [Switches -> Nat]
  BY DEF CopyInv, FrameInv
<1>2. /\ q \in Waiting(s, out, sent) /\ f \in GoodFrames(sent)
      /\ Queues[x] # <<>> /\ Head(Queues[x]) = q
      /\ \/ /\ to[1] \in Hosts
            /\ Queues' = Given(mid, AtHost(to[1]), Packet(f, 0))
         \/ /\ to[1] \notin Hosts /\ to \in Switches \X Ports
            /\ Queues' = Given(mid, AtInput(to[1]), Packet(f, to[2]))
      /\ sent' = sent /\ dropped' = dropped
  BY <1>1, EgressMoves
<1>3. PICK y \in Places, i \in Ports \cup {0} : Queues' = Given(mid, y, Packet(f, i))
  BY <1>2, PlacesAre
<1> DEFINE e == Packet(f, i)
<1>4. x \in Places
  BY PlacesAre
<1>5. LifeOK(W, S, q) /\ PlaceOK(x, q, S)
  <2> HIDE DEF S, q, x
  <2> QED BY <1>1, <1>2, <1>4, HeadLives
<1>6. /\ f.id = q.frame.id /\ (IsCopy(e) <=> IsCopy(q))
      /\ ~IsCopy(e) => /\ f.tel # NoInt => TrackedAs(S, f.id)
                       /\ TrackedAs(S, f.id) => (Past(e) <=> Past(q))
                       /\ f.path # <<>>
  <2> HIDE DEF q, S, W
  <2> QED BY <1>1, <1>2, <1>5, EgressTurns DEF S
<1> HIDE DEF q, f, x, mid, S, W
<1>7. e.frame = f /\ e \in Items
  BY <1>2, PacketIs
<1>8. PICK R, B : R = Queues' /\ B = dropped'
  OBVIOUS
<1> HIDE DEF e
<1>9. Key(e) = Key(q)
  BY <1>6, <1>7, SameKey
<1>10. PlaceOK(y, e, S)
  BY <1>6, <1>7 DEF PlaceOK
<1>11. Passed(Taken(Queues, x), dropped, R, B, y, e)
  BY <1>2, <1>3, <1>8 DEF Passed, mid, e
<1>12. CopyOK(Queues, dropped, S) /\ q = Head(Queues[x]) /\ Queues[x] # <<>>
  BY <1>1, <1>2
<1>13. ~IsCopy(e) => /\ e.frame.tel # NoInt => TrackedAs(S, e.frame.id)
                     /\ TrackedAs(S, e.frame.id) => (Past(e) <=> Past(q))
  BY <1>6, <1>7
<1>14. CopyOK(R, B, S)
  BY <1>4, <1>7, <1>9, <1>10, <1>11, <1>12, <1>13, CopyMoved
<1> QED BY <1>2, <1>8, <1>14 DEF S

LEMMA CopyStep ==
  ASSUME CopyInv, [Next]_vars PROVE CopyInv'
<1>1. FrameInv /\ FrameInv' /\ CopyOK(Queues, dropped, sent) /\ sent \in Seq(Sendable)
  BY FrameStep DEF CopyInv, FrameInv
<1>2. ASSUME Send PROVE CopyOK(Queues, dropped, sent)'
  <2>1. PICK p \in Sendable :
          LET f == Frame(Len(sent) + 1, p)  r == HostPort(p.src)[1]  in == HostPort(p.src)[2] IN
          /\ HostPort(p.src) \in Switches \X Ports
          /\ f \in PlainFrames(sent') /\ f.path = <<>> /\ f.src = p.src
          /\ sent' = Append(sent, p)
          /\ Queues' = Given(Queues, AtInput(r), Packet(f, in))
          /\ dropped' = dropped /\ seq' = seq
    BY <1>1, <1>2, SendMoves
  <2> DEFINE f == Frame(Len(sent) + 1, p)  sp == HostPort(p.src)  r == sp[1]  in == sp[2]
  <2>2. sp = <<r, in>> /\ r \in Switches /\ in \in Ports
    BY <2>1
  <2>3. f.id = Len(sent) + 1
    BY DEF Frame
  <2>4. PICK R, T : R = Queues' /\ T = sent'
    OBVIOUS
  <2>5. /\ f \in PlainFrames(T) /\ f.path = <<>> /\ HostPort(f.src) = <<r, in>>
        /\ T = Append(sent, p) /\ R = Given(Queues, AtInput(r), Packet(f, in))
    BY <2>1, <2>2, <2>4
  <2> HIDE DEF f, sp, r, in
  <2>6. CopyOK(R, dropped, T)
    BY <1>1, <2>2, <2>3, <2>5, CopySend
  <2> QED BY <2>1, <2>4, <2>6
<1>3. ASSUME NEW s \in Switches, Ingress(s) PROVE CopyOK(Queues, dropped, sent)'
  BY <1>3, CopyIngress
<1>4. ASSUME NEW s \in Switches, NEW p \in Ports, Egress(s, p) PROVE CopyOK(Queues, dropped, sent)'
  BY <1>4, CopyEgress
<1>5. ASSUME UNCHANGED vars PROVE CopyOK(Queues, dropped, sent)'
  <2>1. Queues' = Queues /\ dropped' = dropped /\ sent' = sent
    BY <1>5 DEF vars, Queues
  <2> QED BY <1>1, <2>1
<1>6. CopyOK(Queues, dropped, sent)'
  BY <1>2, <1>3, <1>4, <1>5 DEF Next
<1> QED BY <1>1, <1>6 DEF CopyInv

\* Every state of the network satisfies the invariant: whatever the pipelines
\* make of a packet, there is one of it and at most one copy.
THEOREM CopiesAlways == Spec => []CopyInv
<1>1. Init => CopyInv
  BY FrameInit, CopyInit DEF CopyInv
<1>2. CopyInv /\ [Next]_vars => CopyInv'
  BY CopyStep
<1> QED BY <1>1, <1>2, PTL DEF Spec

\* What Clones shows of a copy, by where it is.
Shown(x, e) == IF x[1] = "out" THEN e ELSE e.frame

LEMMA ItemsReport ==
  ASSUME NEW e \in Items
  PROVE  e.frame.report.valid <=> e.frame.report # NoReport
<1>1. e.frame.report \in {NoReport} \cup Reports
  BY DEF Items, AllFrames
<1>2. \A r \in Reports : r.valid = TRUE
  BY DEF Reports
<1>3. NoReport.valid = FALSE
  BY DEF NoReport
<1> QED BY <1>1, <1>2, <1>3

LEMMA PacketsAre ==
  ASSUME NEW f, NEW in PROVE Packet(f, in).frame = f /\ (IsCopy(Packet(f, in)) <=> f.report # NoReport)
BY DEF Packet, Item, IsCopy

\* The queues hold what is in inbuf, outq and received.
LEMMA QueuesHold ==
  ASSUME FrameInv
  PROVE  /\ \A s \in Switches : /\ DOMAIN Queues[AtInput(s)] = DOMAIN inbuf[s]
                                /\ \A i \in DOMAIN inbuf[s] :
                                     Queues[AtInput(s)][i] = Packet(inbuf[s][i].frame, inbuf[s][i].in)
         /\ \A s \in Switches, p \in Ports : Queues[AtOutput(s, p)] = outq[s][p]
         /\ \A h \in Hosts : /\ DOMAIN Queues[AtHost(h)] = DOMAIN received[h]
                             /\ \A i \in DOMAIN received[h] :
                                  Queues[AtHost(h)][i] = Packet(received[h][i], 0)
<1>1. /\ \A s \in Switches : Queues[AtInput(s)] = FromInput(inbuf[s])
      /\ \A s \in Switches, p \in Ports : Queues[AtOutput(s, p)] = outq[s][p]
      /\ \A h \in Hosts : Queues[AtHost(h)] = FromHost(received[h])
  BY QueuesAre DEF Queues
<1>2. ASSUME NEW s \in Switches PROVE DOMAIN inbuf[s] = 1..Len(inbuf[s])
  <2>1. inbuf[s] \in Seq(Arrivals(s, sent))
    BY DEF FrameInv
  <2> QED BY <2>1, LenProperties
<1>3. ASSUME NEW h \in Hosts PROVE DOMAIN received[h] = 1..Len(received[h])
  <2>1. received[h] \in Seq(Deliveries(h, sent))
    BY DEF FrameInv
  <2> QED BY <2>1, LenProperties
<1>4. \A q : /\ DOMAIN FromInput(q) = 1..Len(q)
             /\ \A i \in 1..Len(q) : FromInput(q)[i] = Packet(q[i].frame, q[i].in)
  BY DEF FromInput
<1>5. \A q : /\ DOMAIN FromHost(q) = 1..Len(q)
             /\ \A i \in 1..Len(q) : FromHost(q)[i] = Packet(q[i], 0)
  BY DEF FromHost
<1>6. ASSUME NEW s \in Switches
      PROVE  /\ DOMAIN Queues[AtInput(s)] = DOMAIN inbuf[s]
             /\ \A i \in DOMAIN inbuf[s] :
                  Queues[AtInput(s)][i] = Packet(inbuf[s][i].frame, inbuf[s][i].in)
  <2>1. Queues[AtInput(s)] = FromInput(inbuf[s])
    BY <1>1
  <2> QED BY <1>2, <1>4, <2>1
<1>7. ASSUME NEW h \in Hosts
      PROVE  /\ DOMAIN Queues[AtHost(h)] = DOMAIN received[h]
             /\ \A i \in DOMAIN received[h] : Queues[AtHost(h)][i] = Packet(received[h][i], 0)
  <2>1. Queues[AtHost(h)] = FromHost(received[h])
    BY <1>1
  <2> QED BY <1>3, <1>5, <2>1
<1> QED BY <1>1, <1>6, <1>7

\* The clones and reports about packet id are the copies of that packet.
\* The sets of DataPlane, by the queues they are made of.
LEMMA SetsAre ==
  ASSUME NEW z
  PROVE  /\ z \in Queued <=> \E s \in Switches, p \in Ports : \E i \in DOMAIN outq[s][p] : z = outq[s][p][i]
         /\ z \in {a.frame : a \in Travelling} <=>
              \E s \in Switches : \E i \in DOMAIN inbuf[s] : z = inbuf[s][i].frame
         /\ z \in Delivered <=> \E h \in Hosts : \E i \in DOMAIN received[h] : z = received[h][i]
<1>1. z \in Queued <=> \E s \in Switches, p \in Ports : \E i \in DOMAIN outq[s][p] : z = outq[s][p][i]
  <2>1. z \in Queued <=> \E s \in Switches, p \in Ports : z \in Elements(outq[s][p])
    <3>1. ASSUME z \in Queued PROVE \E s \in Switches, p \in Ports : z \in Elements(outq[s][p])
      BY <3>1, SMT DEF Queued
    <3>2. ASSUME NEW s \in Switches, NEW p \in Ports, z \in Elements(outq[s][p]) PROVE z \in Queued
      BY <3>2, SMT DEF Queued
    <3> QED BY <3>1, <3>2
  <2>2. \A q : z \in Elements(q) <=> \E i \in DOMAIN q : z = q[i]
    BY DEF Elements
  <2> QED BY <2>1, <2>2
<1>2. z \in {a.frame : a \in Travelling} <=>
        \E s \in Switches : \E i \in DOMAIN inbuf[s] : z = inbuf[s][i].frame
  BY DEF Travelling, Elements
<1>3. z \in Delivered <=> \E h \in Hosts : \E i \in DOMAIN received[h] : z = received[h][i]
  BY DEF Delivered, Elements
<1> QED BY <1>1, <1>2, <1>3

LEMMA ClonesAre ==
  ASSUME CopyInv, NEW id, NEW z
  PROVE  z \in Clones(id) <=>
           \/ \E e \in dropped : IsCopy(e) /\ e.frame.id = id /\ z = e
           \/ \E x \in Places : \E i \in DOMAIN Queues[x] :
                IsCopy(Queues[x][i]) /\ Queues[x][i].frame.id = id /\ z = Shown(x, Queues[x][i])
<1> DEFINE W == InAll(Queues, dropped)
<1>1. FrameInv /\ CopyOK(Queues, dropped, sent)
  BY DEF CopyInv
<1>2. ASSUME NEW e \in W PROVE e \in Items /\ (e.clone \/ e.frame.report.valid <=> IsCopy(e))
  <2>1. e \in Items
    BY <1>1 DEF CopyOK, AllLive, LifeOK
  <2>2. e.clone \in BOOLEAN
    BY <2>1 DEF Items
  <2>3. e.frame.report.valid <=> e.frame.report # NoReport
    BY <2>1, ItemsReport
  <2> QED BY <2>1, <2>2, <2>3 DEF IsCopy
<1>3. \A x \in Places : \A i \in DOMAIN Queues[x] : Queues[x][i] \in W
  BY InAllIs
<1>4. dropped \subseteq W
  BY InAllIs
<1> HIDE DEF W
<1>5. z \in Clones(id) <=>
        \/ z \in Queued \cup dropped /\ z.frame.id = id /\ (z.clone \/ z.frame.report.valid)
        \/ z \in {a.frame : a \in Travelling} \cup Delivered /\ z.id = id /\ z.report.valid
  BY DEF Clones
<1>6. \A x \in Places : x[1] = "out" \/ x[1] # "out"
  OBVIOUS
<1>7. z \in Queued <=> \E s \in Switches, p \in Ports : \E i \in DOMAIN outq[s][p] : z = outq[s][p][i]
  BY SetsAre
<1>8. z \in {a.frame : a \in Travelling} <=>
        \E s \in Switches : \E i \in DOMAIN inbuf[s] : z = inbuf[s][i].frame
  BY SetsAre
<1>9. z \in Delivered <=> \E h \in Hosts : \E i \in DOMAIN received[h] : z = received[h][i]
  BY SetsAre
<1> DEFINE There(x) == \E i \in DOMAIN Queues[x] :
                         IsCopy(Queues[x][i]) /\ Queues[x][i].frame.id = id /\ z = Shown(x, Queues[x][i])
<1>10. ASSUME NEW s \in Switches, NEW p \in Ports
       PROVE  There(AtOutput(s, p)) <=>
                \E i \in DOMAIN outq[s][p] : /\ z = outq[s][p][i] /\ z.frame.id = id
                                             /\ (z.clone \/ z.frame.report.valid)
  <2> DEFINE x == AtOutput(s, p)
  <2>1. x \in Places /\ x[1] = "out" /\ Queues[x] = outq[s][p]
    BY <1>1, PlacesAre, PlaceKinds, QueuesHold
  <2> HIDE DEF x
  <2>2. \A i \in DOMAIN Queues[x] : Queues[x][i] \in W
    BY <1>3, <2>1
  <2> QED BY <1>2, <2>1, <2>2 DEF Shown, x
<1>11. ASSUME NEW s \in Switches
       PROVE  There(AtInput(s)) <=>
                \E i \in DOMAIN inbuf[s] : z = inbuf[s][i].frame /\ z.id = id /\ z.report.valid
  <2> DEFINE x == AtInput(s)
  <2>1. /\ x \in Places /\ x[1] = "in" /\ DOMAIN Queues[x] = DOMAIN inbuf[s]
        /\ \A i \in DOMAIN inbuf[s] : Queues[x][i] = Packet(inbuf[s][i].frame, inbuf[s][i].in)
    BY <1>1, PlacesAre, PlaceKinds, QueuesHold
  <2> HIDE DEF x
  <2>2. \A i \in DOMAIN inbuf[s] :
          /\ Queues[x][i].frame = inbuf[s][i].frame /\ Queues[x][i] \in Items
          /\ IsCopy(Queues[x][i]) <=> inbuf[s][i].frame.report # NoReport
    BY <1>2, <1>3, <2>1, PacketsAre
  <2>3. \A i \in DOMAIN inbuf[s] :
          IsCopy(Queues[x][i]) <=> inbuf[s][i].frame.report.valid
    BY <2>2, ItemsReport
  <2> QED BY <2>1, <2>2, <2>3 DEF Shown, x
<1>12. ASSUME NEW h \in Hosts
       PROVE  There(AtHost(h)) <=>
                \E i \in DOMAIN received[h] : z = received[h][i] /\ z.id = id /\ z.report.valid
  <2> DEFINE x == AtHost(h)
  <2>1. /\ x \in Places /\ x[1] = "host" /\ DOMAIN Queues[x] = DOMAIN received[h]
        /\ \A i \in DOMAIN received[h] : Queues[x][i] = Packet(received[h][i], 0)
    BY <1>1, PlacesAre, PlaceKinds, QueuesHold
  <2> HIDE DEF x
  <2>2. \A i \in DOMAIN received[h] :
          /\ Queues[x][i].frame = received[h][i] /\ Queues[x][i] \in Items
          /\ IsCopy(Queues[x][i]) <=> received[h][i].report # NoReport
    BY <1>2, <1>3, <2>1, PacketsAre
  <2>3. \A i \in DOMAIN received[h] : IsCopy(Queues[x][i]) <=> received[h][i].report.valid
    BY <2>2, ItemsReport
  <2> QED BY <2>1, <2>2, <2>3 DEF Shown, x
<1>13. z \in dropped => ((z.clone \/ z.frame.report.valid) <=> IsCopy(z))
  BY <1>2, <1>4
<1> HIDE DEF There
<1>14. z \in Clones(id) <=>
         \/ z \in dropped /\ IsCopy(z) /\ z.frame.id = id
         \/ \E s \in Switches, p \in Ports : There(AtOutput(s, p))
         \/ \E s \in Switches : There(AtInput(s))
         \/ \E h \in Hosts : There(AtHost(h))
  BY <1>5, <1>7, <1>8, <1>9, <1>10, <1>11, <1>12, <1>13
<1>15. (\E x \in Places : There(x)) <=>
         \/ \E s \in Switches, p \in Ports : There(AtOutput(s, p))
         \/ \E s \in Switches : There(AtInput(s))
         \/ \E h \in Hosts : There(AtHost(h))
  BY PlacesAre
<1> QED BY <1>14, <1>15 DEF There

LEMMA ReportsAreOne ==
  ASSUME CopyInv PROVE OneReportEach
<1> DEFINE W == InAll(Queues, dropped)
<1>1. FrameInv /\ CopyOK(Queues, dropped, sent)
  BY DEF CopyInv
<1>2. /\ Distinct(Queues, dropped) /\ AllLive(W, sent) /\ AllPlaced(Queues, sent)
  BY <1>1 DEF CopyOK
<1>3. \A x \in Places : \A i \in DOMAIN Queues[x] : Queues[x][i] \in W
  BY InAllIs
<1>4. dropped \subseteq W
  BY InAllIs
<1> HIDE DEF W
<1> SUFFICES ASSUME NEW id \in 1..Len(sent)
             PROVE  /\ Cardinality(Clones(id)) <= 1
                    /\ Clones(id) # {} => Tracked(id)
                    /\ (Tracked(id) /\ \E f \in Delivered : f.id = id /\ ~f.report.valid)
                         => Clones(id) # {}
  BY DEF OneReportEach
<1>5. ASSUME NEW y \in Clones(id), NEW z \in Clones(id) PROVE y = z
  <2>1. \A d, e : IsCopy(d) /\ d.frame.id = id /\ IsCopy(e) /\ e.frame.id = id => Key(d) = Key(e)
    BY SameKey
  <2>2. /\ \A x, v \in Places : \A i \in DOMAIN Queues[x], j \in DOMAIN Queues[v] :
             Key(Queues[x][i]) = Key(Queues[v][j]) => x = v /\ i = j
        /\ \A x \in Places : \A i \in DOMAIN Queues[x] : \A d \in dropped :
             Key(Queues[x][i]) # Key(d)
        /\ \A d, e \in dropped : Key(d) = Key(e) => d = e
    BY <1>2 DEF Distinct
  <2> DEFINE Lost(v) == \E e \in dropped : IsCopy(e) /\ e.frame.id = id /\ v = e
             Kept(v) == \E x \in Places : \E i \in DOMAIN Queues[x] :
                          IsCopy(Queues[x][i]) /\ Queues[x][i].frame.id = id /\ v = Shown(x, Queues[x][i])
  <2>3. (Lost(y) \/ Kept(y)) /\ (Lost(z) \/ Kept(z))
    BY ClonesAre
  <2>4. CASE Lost(y) /\ Lost(z)
    BY <2>1, <2>2, <2>4
  <2>5. CASE Lost(y) /\ Kept(z)
    BY <2>1, <2>2, <2>5
  <2>6. CASE Kept(y) /\ Lost(z)
    BY <2>1, <2>2, <2>6
  <2>7. CASE Kept(y) /\ Kept(z)
    <3>1. PICK x \in Places : \E i \in DOMAIN Queues[x] :
            IsCopy(Queues[x][i]) /\ Queues[x][i].frame.id = id /\ y = Shown(x, Queues[x][i])
      BY <2>7
    <3>2. PICK i \in DOMAIN Queues[x] :
            IsCopy(Queues[x][i]) /\ Queues[x][i].frame.id = id /\ y = Shown(x, Queues[x][i])
      BY <3>1
    <3>3. PICK v \in Places : \E j \in DOMAIN Queues[v] :
            IsCopy(Queues[v][j]) /\ Queues[v][j].frame.id = id /\ z = Shown(v, Queues[v][j])
      BY <2>7
    <3>4. PICK j \in DOMAIN Queues[v] :
            IsCopy(Queues[v][j]) /\ Queues[v][j].frame.id = id /\ z = Shown(v, Queues[v][j])
      BY <3>3
    <3>5. Key(Queues[x][i]) = Key(Queues[v][j])
      BY <2>1, <3>2, <3>4
    <3>6. x = v /\ i = j
      BY <2>2, <3>5
    <3> QED BY <3>2, <3>4, <3>6
  <2> QED BY <2>3, <2>4, <2>5, <2>6, <2>7
<1>6. Cardinality(Clones(id)) <= 1
  <2>1. CASE Clones(id) = {}
    BY <2>1, FS_EmptySet
  <2>2. CASE Clones(id) # {}
    <3>1. PICK z : z \in Clones(id)
      BY <2>2
    <3>2. Clones(id) = {z}
      BY <1>5, <3>1
    <3>3. Cardinality({z}) = 1
      BY FS_Singleton
    <3> QED BY <3>2, <3>3
  <2> QED BY <2>1, <2>2
<1>7. ASSUME Clones(id) # {} PROVE Tracked(id)
  <2>1. PICK z : z \in Clones(id)
    BY <1>7
  <2>2. \E e \in W : IsCopy(e) /\ e.frame.id = id
    BY <1>3, <1>4, <2>1, ClonesAre
  <2>3. PICK e \in W : IsCopy(e) /\ e.frame.id = id
    BY <2>2
  <2>4. TrackedAs(sent, id)
    BY <1>2, <2>3 DEF AllLive, LifeOK
  <2> QED BY <2>4, TrackedIs
<1>8. ASSUME Tracked(id), NEW f \in Delivered, f.id = id, ~f.report.valid PROVE Clones(id) # {}
  <2>1. PICK h \in Hosts : f \in Elements(received[h])
    BY Zenon DEF Delivered
  <2>2. PICK i \in DOMAIN received[h] : f = received[h][i]
    BY <2>1 DEF Elements
  <2> DEFINE x == AtHost(h)  e == Queues[x][i]
  <2>3. /\ x \in Places /\ x[1] = "host" /\ i \in DOMAIN Queues[x] /\ e = Packet(f, 0)
    BY <1>1, <2>2, PlacesAre, PlaceKinds, QueuesHold
  <2>4. e \in W /\ PlaceOK(x, e, sent)
    BY <1>2, <1>3, <2>3 DEF AllPlaced
  <2>5. e.frame = f /\ (IsCopy(e) <=> f.report # NoReport)
    BY <2>3, PacketsAre
  <2> HIDE DEF x, e
  <2>6. LifeOK(W, sent, e) /\ e \in Items
    BY <1>2, <2>4 DEF AllLive, LifeOK
  <2>7. ~IsCopy(e)
    BY <1>8, <2>5, <2>6, ItemsReport
  <2>8. f.path # <<>>
    BY <2>3, <2>4, <2>5, <2>7 DEF PlaceOK
  <2>9. f.tel = NoInt
    <3>1. received[h] \in Seq(Deliveries(h, sent))
      BY <1>1 DEF FrameInv
    <3>2. f \in Deliveries(h, sent)
      BY <2>1, <3>1, ElementsOf
    <3>3. f \in GoodFrames(sent) /\ f \in PlainFrames(sent) \cup ReportFrames(sent)
      BY <3>2 DEF Deliveries, GoodFrames
    <3> QED BY <3>3, GoodFields
  <2>10. Reported(W, id)
    BY <1>8, <2>5, <2>6, <2>7, <2>8, <2>9, TrackedIs DEF LifeOK, Past
  <2>11. PICK c \in W : IsCopy(c) /\ c.frame.id = id
    BY <2>10 DEF Reported
  <2>12. \/ c \in dropped
         \/ \E y \in Places : \E j \in DOMAIN Queues[y] : c = Queues[y][j]
    BY <2>11, InAllIs DEF W
  <2>13. CASE c \in dropped
    <3>1. c \in Clones(id)
      BY <2>11, <2>13, ClonesAre
    <3> QED BY <3>1
  <2>14. CASE \E y \in Places : \E j \in DOMAIN Queues[y] : c = Queues[y][j]
    <3>1. PICK y \in Places : \E j \in DOMAIN Queues[y] : c = Queues[y][j]
      BY <2>14
    <3>2. PICK j \in DOMAIN Queues[y] : c = Queues[y][j]
      BY <3>1
    <3>3. PICK z : z = Shown(y, Queues[y][j])
      OBVIOUS
    <3>4. z \in Clones(id)
      BY <2>11, <3>2, <3>3, ClonesAre
    <3> QED BY <3>4
  <2> QED BY <2>12, <2>13, <2>14
<1> QED BY <1>6, <1>7, <1>8

\* A tracked packet that went through its sink was reported there, once: the
\* clone or the report of it is somewhere in the network, at the collector, or
\* was dropped at a full queue; no other packet is reported.
THEOREM ReportsAreOnePerPacket == Spec => []OneReportEach
<1>1. CopyInv => OneReportEach
  BY ReportsAreOne
<1> QED BY <1>1, CopiesAlways, PTL

------------------------------------------------------------------------------
(* Reports in the order of their numbers *)

IsReport(e) == e.frame.report # NoReport
Maker(e) == e.frame.report.switch
Number(e) == e.frame.report.seq

ToCollector(s) == Tables[s].forward[Collector]

(* The node and port that a report of s with this path reached at step i. *)
Ahead(s, path, i) ==
  IF i = 0 THEN Peer[s][Tables[s].mirror] ELSE Peer[path[i].switch][path[i].out]

(* Reports of a switch go the way the tables give: from the mirror port to the *)
(* next switch, and from there through the port of the collector.              *)
PathOK(s, path) ==
  \A i \in 1..Len(path) :
    /\ path[i].switch = Ahead(s, path, i - 1)[1] /\ path[i].in = Ahead(s, path, i - 1)[2]
    /\ path[i].out = ToCollector(path[i].switch) /\ path[i].switch \notin Hosts

IsAt(x, e, a) ==
  \/ a[1] \in Hosts /\ x = AtHost(a[1])
  \/ a[1] \notin Hosts /\ e.in = a[2] /\ (x = AtInput(a[1]) \/ x = AtOutput(a[1], ToCollector(a[1])))

RouteOK(x, e) ==
  IsReport(e) => /\ PathOK(Maker(e), e.frame.path)
                 /\ IsAt(x, e, Ahead(Maker(e), e.frame.path, Len(e.frame.path)))

AllRouted(Q) == \A x \in Places : \A i \in DOMAIN Q[x] : RouteOK(x, Q[x][i])

(* How far a report got: twice the switches passed, and one behind ingress. *)
Stage(x, e) == 2 * Len(e.frame.path) + (IF x[1] = "out" THEN 1 ELSE 0)

SameMaker(d, e) == IsReport(d) /\ IsReport(e) /\ Maker(d) = Maker(e)

(* The earlier report is further on, or before the other in one queue. *)
InOrder(Q) ==
  \A x, y \in Places : \A i \in DOMAIN Q[x], j \in DOMAIN Q[y] :
    SameMaker(Q[x][i], Q[y][j]) /\ Number(Q[x][i]) < Number(Q[y][j])
      => \/ Stage(x, Q[x][i]) > Stage(y, Q[y][j])
         \/ Stage(x, Q[x][i]) = Stage(y, Q[y][j]) /\ x = y /\ i < j

(* W holds one report of switch s for each number below N[s]. *)
Numbered(W, N) ==
  /\ \A e \in W : IsReport(e) => Number(e) < N[Maker(e)]
  /\ \A d, e \in W : SameMaker(d, e) /\ Number(d) = Number(e) => d = e
  /\ \A s \in Switches : \A n \in 0..(N[s] - 1) :
       \E e \in W : IsReport(e) /\ Maker(e) = s /\ Number(e) = n

OrderOK(Q, D, N) ==
  /\ AllRouted(Q)
  /\ InOrder(Q)
  /\ Numbered(InAll(Q, D), N)

OrderInv == CopyInv /\ OrderOK(Queues, dropped, seq)

LEMMA ReportFields ==
  ASSUME NEW e \in Items, IsReport(e)
  PROVE  /\ Maker(e) \in Switches /\ Number(e) \in Nat
         /\ e.frame.path \in Seq(Steps) /\ Len(e.frame.path) \in Nat
<1>1. e.frame.report \in Reports /\ e.frame.path \in Seq(Steps)
  BY DEF Items, AllFrames, IsReport
<1> QED BY <1>1, LenProperties DEF Reports, Maker, Number

\* Two reports of s go the same way as far as both have gone.
LEMMA SameWay ==
  ASSUME NEW s, NEW p \in Seq(Steps), NEW q \in Seq(Steps), PathOK(s, p), PathOK(s, q),
         NEW n \in Nat, n <= Len(p), n <= Len(q)
  PROVE  Ahead(s, p, n) = Ahead(s, q, n)
<1> DEFINE K == {k \in Nat : k <= Len(p) /\ k <= Len(q) => Ahead(s, p, k) = Ahead(s, q, k)}
<1>1. 0 \in K
  BY DEF Ahead
<1>2. Len(p) \in Nat /\ Len(q) \in Nat
  BY LenProperties
<1>3. ASSUME NEW k \in Nat, k \in K PROVE k + 1 \in K
  <2> SUFFICES ASSUME k + 1 <= Len(p), k + 1 <= Len(q) PROVE Ahead(s, p, k + 1) = Ahead(s, q, k + 1)
    OBVIOUS
  <2>1. Ahead(s, p, k) = Ahead(s, q, k)
    BY <1>2, <1>3
  <2>2. k + 1 \in 1..Len(p) /\ k + 1 \in 1..Len(q) /\ (k + 1) - 1 = k /\ k + 1 # 0
    BY <1>2
  <2>3. /\ p[k + 1].switch = Ahead(s, p, k)[1] /\ p[k + 1].out = ToCollector(p[k + 1].switch)
        /\ q[k + 1].switch = Ahead(s, q, k)[1] /\ q[k + 1].out = ToCollector(q[k + 1].switch)
    BY <2>2 DEF PathOK
  <2>4. p[k + 1].switch = q[k + 1].switch /\ p[k + 1].out = q[k + 1].out
    BY <2>1, <2>3
  <2> QED BY <2>2, <2>4 DEF Ahead
<1> HIDE DEF K
<1>4. n \in K
  BY <1>1, <1>3, NaturalsBySteps
<1> QED BY <1>4 DEF K

LEMMA StageIs ==
  ASSUME NEW e, Len(e.frame.path) \in Nat, NEW x
  PROVE  /\ Stage(x, e) \in Nat
         /\ x[1] = "out" => Stage(x, e) = 2 * Len(e.frame.path) + 1
         /\ x[1] # "out" => Stage(x, e) = 2 * Len(e.frame.path)
<1> DEFINE n == Len(e.frame.path)
<1>1. n \in Nat /\ Stage(x, e) = 2 * n + (IF x[1] = "out" THEN 1 ELSE 0)
  BY DEF Stage
<1> HIDE DEF n
<1>2. x[1] = "out" => Stage(x, e) = 2 * n + 1
  BY <1>1
<1>3. x[1] # "out" => Stage(x, e) = 2 * n
  <2>1. ASSUME x[1] # "out" PROVE Stage(x, e) = 2 * n + 0
    BY <1>1, <2>1
  <2>2. 2 * n + 0 = 2 * n
    BY <1>1
  <2> QED BY <2>1, <2>2
<1>4. 2 * n \in Nat /\ 2 * n + 1 \in Nat
  BY <1>1
<1> QED BY <1>2, <1>3, <1>4 DEF n

\* Where reports of one maker are that got equally far.
LEMMA SameStage ==
  ASSUME NEW d \in Items, NEW e \in Items, SameMaker(d, e), NEW x \in Places, NEW y \in Places,
         RouteOK(x, d), RouteOK(y, e), Stage(x, d) = Stage(y, e)
  PROVE  x = y
<1> DEFINE p == d.frame.path  q == e.frame.path  s == Maker(d)  a == Ahead(s, p, Len(p))
<1>1. /\ p \in Seq(Steps) /\ q \in Seq(Steps) /\ Len(p) \in Nat /\ Len(q) \in Nat
      /\ IsReport(d) /\ IsReport(e) /\ Maker(e) = s
  BY ReportFields DEF SameMaker
<1>2. PathOK(s, p) /\ PathOK(s, q) /\ IsAt(x, d, a) /\ IsAt(y, e, Ahead(s, q, Len(q)))
  BY <1>1 DEF RouteOK
<1>3. Len(p) = Len(q) /\ (x[1] = "out" <=> y[1] = "out")
  <2>1. \A m, n \in Nat : 2 * m # 2 * n + 1 /\ 2 * n + 1 # 2 * m /\ (2 * m = 2 * n => m = n)
    OBVIOUS
  <2>2. /\ x[1] = "out" => Stage(x, d) = 2 * Len(p) + 1
        /\ x[1] # "out" => Stage(x, d) = 2 * Len(p)
        /\ y[1] = "out" => Stage(y, e) = 2 * Len(q) + 1
        /\ y[1] # "out" => Stage(y, e) = 2 * Len(q)
    BY <1>1, StageIs
  <2> DEFINE m == Len(p)  n == Len(q)
  <2>3. /\ m \in Nat /\ n \in Nat
        /\ x[1] = "out" => Stage(x, d) = 2 * m + 1
        /\ x[1] # "out" => Stage(x, d) = 2 * m
        /\ y[1] = "out" => Stage(y, e) = 2 * n + 1
        /\ y[1] # "out" => Stage(y, e) = 2 * n
    BY <1>1, <2>2
  <2> HIDE DEF m, n
  <2>4. x[1] = "out" <=> y[1] = "out"
    BY <2>1, <2>3
  <2>5. m = n
    BY <2>3, <2>4
  <2> QED BY <2>4, <2>5 DEF m, n
<1>4. Ahead(s, q, Len(q)) = a
  <2> HIDE DEF p, q, s, a
  <2>1. Ahead(s, p, Len(p)) = Ahead(s, q, Len(p))
    BY <1>1, <1>2, <1>3, SameWay
  <2> QED BY <1>3, <2>1 DEF a
<1> HIDE DEF a
<1>5. \A s1, p1 : AtInput(s1)[1] # "out" /\ AtOutput(s1, p1)[1] = "out"
  BY PlaceKinds
<1> QED BY <1>2, <1>3, <1>4, <1>5 DEF IsAt

\* No report goes on from a host.
LEMMA HostIsLast ==
  ASSUME NEW d \in Items, NEW e \in Items, SameMaker(d, e), NEW x \in Places, NEW h \in Hosts,
         RouteOK(x, d), RouteOK(AtHost(h), e)
  PROVE  Len(d.frame.path) <= Len(e.frame.path)
<1> DEFINE p == d.frame.path  q == e.frame.path  s == Maker(d)  n == Len(q)
<1>1. /\ p \in Seq(Steps) /\ q \in Seq(Steps) /\ Len(p) \in Nat /\ n \in Nat
      /\ IsReport(d) /\ IsReport(e) /\ Maker(e) = s
  BY ReportFields DEF SameMaker
<1>2. PathOK(s, p) /\ PathOK(s, q) /\ IsAt(AtHost(h), e, Ahead(s, q, n))
  BY <1>1 DEF RouteOK
<1>3. Ahead(s, q, n)[1] \in Hosts
  BY <1>2, PlacesDiffer DEF IsAt
<1> SUFFICES ASSUME ~(Len(p) <= n) PROVE FALSE
  OBVIOUS
<1> HIDE DEF p, q, s, n
<1>4. n + 1 \in 1..Len(p) /\ (n + 1) - 1 = n /\ n <= Len(p) /\ n <= Len(q)
  BY <1>1 DEF n
<1>5. Ahead(s, p, n) = Ahead(s, q, n)
  BY <1>1, <1>2, <1>4, SameWay
<1>6. p[n + 1].switch = Ahead(s, p, n)[1] /\ p[n + 1].switch \notin Hosts
  BY <1>2, <1>4 DEF PathOK
<1> QED BY <1>3, <1>5, <1>6

------------------------------------------------------------------------------
(* What a move of a report does to the order *)

LEMMA TakenAt ==
  ASSUME NEW E, NEW Q \in [Places -> Seq(E)], NEW x \in Places, Q[x] # <<>>,
         NEW y \in Places, NEW i \in DOMAIN Taken(Q, x)[y]
  PROVE  \E k \in DOMAIN Q[y] : /\ Taken(Q, x)[y][i] = Q[y][k]
                                /\ i \in Nat /\ k = IF y = x THEN i + 1 ELSE i
<1> DEFINE R == Taken(Q, x)
<1>1. /\ \A z \in Places : z # x => R[z] = Q[z]
      /\ DOMAIN R[x] = 1..(Len(Q[x]) - 1)
      /\ \A j \in 1..(Len(Q[x]) - 1) : R[x][j] = Q[x][j + 1]
      /\ Len(Q[x]) \in Nat \ {0} /\ DOMAIN Q[x] = 1..Len(Q[x])
  BY TakenIs
<1>2. DOMAIN Q[y] = 1..Len(Q[y]) /\ Len(Q[y]) \in Nat
  BY LenProperties
<1> HIDE DEF R
<1>3. CASE y = x
  <2>1. i \in 1..(Len(Q[x]) - 1)
    BY <1>1, <1>3 DEF R
  <2>2. i + 1 \in DOMAIN Q[y] /\ R[y][i] = Q[y][i + 1] /\ i \in Nat
    BY <1>1, <1>3, <2>1
  <2> QED BY <1>3, <2>2 DEF R
<1>4. CASE y # x
  <2>1. i \in DOMAIN Q[y] /\ R[y][i] = Q[y][i] /\ i \in Nat
    BY <1>1, <1>2, <1>4 DEF R
  <2> QED BY <1>4, <2>1 DEF R
<1> QED BY <1>3, <1>4

LEMMA GivenAt ==
  ASSUME NEW E, NEW Q \in [Places -> Seq(E)], NEW x \in Places, NEW e \in E,
         NEW y \in Places, NEW i \in DOMAIN Given(Q, x, e)[y]
  PROVE  \/ y = x /\ i = Len(Q[x]) + 1 /\ Given(Q, x, e)[y][i] = e
         \/ i \in DOMAIN Q[y] /\ Given(Q, x, e)[y][i] = Q[y][i] /\ (y = x => i < Len(Q[x]) + 1)
<1> DEFINE R == Given(Q, x, e)
<1>1. /\ \A z \in Places : z # x => R[z] = Q[z]
      /\ DOMAIN R[x] = 1..(Len(Q[x]) + 1)
      /\ \A j \in 1..Len(Q[x]) : R[x][j] = Q[x][j]
      /\ R[x][Len(Q[x]) + 1] = e
      /\ Len(Q[x]) \in Nat /\ DOMAIN Q[x] = 1..Len(Q[x])
  BY GivenIs
<1> HIDE DEF R
<1>2. i \in DOMAIN R[y]
  BY DEF R
<1>3. CASE y = x /\ i = Len(Q[x]) + 1
  BY <1>1, <1>3 DEF R
<1>4. CASE y = x /\ i # Len(Q[x]) + 1
  <2>1. i \in 1..Len(Q[x]) /\ i < Len(Q[x]) + 1
    BY <1>1, <1>2, <1>4
  <2> QED BY <1>1, <1>4, <2>1 DEF R
<1>5. CASE y # x
  BY <1>1, <1>2, <1>5 DEF R
<1> QED BY <1>3, <1>4, <1>5

LEMMA RoutedTaken ==
  ASSUME NEW E, NEW Q \in [Places -> Seq(E)], NEW x \in Places, Q[x] # <<>>, AllRouted(Q)
  PROVE  AllRouted(Taken(Q, x))
<1> DEFINE R == Taken(Q, x)
<1>1. ASSUME NEW y \in Places, NEW i \in DOMAIN R[y] PROVE RouteOK(y, R[y][i])
  <2>1. PICK k \in DOMAIN Q[y] : R[y][i] = Q[y][k]
    BY TakenAt
  <2> HIDE DEF R
  <2> QED BY <2>1 DEF AllRouted
<1> QED BY <1>1 DEF AllRouted

LEMMA RoutedGiven ==
  ASSUME NEW E, NEW Q \in [Places -> Seq(E)], NEW x \in Places, NEW e \in E,
         AllRouted(Q), RouteOK(x, e)
  PROVE  AllRouted(Given(Q, x, e))
<1> DEFINE R == Given(Q, x, e)
<1>1. ASSUME NEW y \in Places, NEW i \in DOMAIN R[y] PROVE RouteOK(y, R[y][i])
  <2>1. (y = x /\ R[y][i] = e) \/ (i \in DOMAIN Q[y] /\ R[y][i] = Q[y][i])
    BY GivenAt
  <2> HIDE DEF R
  <2> QED BY <2>1 DEF AllRouted
<1> QED BY <1>1 DEF AllRouted

\* d, at place i of x, and e, at place j of y, are in order.
Before(x, i, d, y, j, e) ==
  SameMaker(d, e) /\ Number(d) < Number(e)
    => \/ Stage(x, d) > Stage(y, e)
       \/ Stage(x, d) = Stage(y, e) /\ x = y /\ i < j

LEMMA InOrderIs ==
  ASSUME NEW Q
  PROVE  InOrder(Q) <=> \A x, y \in Places : \A i \in DOMAIN Q[x], j \in DOMAIN Q[y] :
                          Before(x, i, Q[x][i], y, j, Q[y][j])
BY DEF InOrder, Before

LEMMA OrderTaken ==
  ASSUME NEW Q \in [Places -> Seq(Items)], NEW x \in Places, Q[x] # <<>>, InOrder(Q)
  PROVE  InOrder(Taken(Q, x))
<1> DEFINE R == Taken(Q, x)
<1>1. ASSUME NEW y \in Places, NEW z \in Places, NEW i \in DOMAIN R[y], NEW j \in DOMAIN R[z]
      PROVE  Before(y, i, R[y][i], z, j, R[z][j])
  <2>1. PICK k \in DOMAIN Q[y] : R[y][i] = Q[y][k] /\ i \in Nat /\ k = IF y = x THEN i + 1 ELSE i
    BY TakenAt
  <2>2. PICK l \in DOMAIN Q[z] : R[z][j] = Q[z][l] /\ j \in Nat /\ l = IF z = x THEN j + 1 ELSE j
    BY TakenAt
  <2> HIDE DEF R
  <2>3. Before(y, k, Q[y][k], z, l, Q[z][l])
    BY InOrderIs
  <2>4. y = z /\ k < l => i < j
    BY <2>1, <2>2
  <2> QED BY <2>1, <2>2, <2>3, <2>4 DEF Before
<1> HIDE DEF R
<1>2. InOrder(R)
  BY <1>1, InOrderIs
<1> QED BY <1>2 DEF R

\* q, at the end of queue y, is in order with all of Q.
EndsInOrder(Q, y, q) ==
  \A z \in Places : \A i \in DOMAIN Q[z] :
    SameMaker(Q[z][i], q) =>
      /\ Number(Q[z][i]) < Number(q) => \/ Stage(z, Q[z][i]) > Stage(y, q)
                                        \/ Stage(z, Q[z][i]) = Stage(y, q) /\ z = y
      /\ Number(q) < Number(Q[z][i]) => Stage(y, q) > Stage(z, Q[z][i])

LEMMA OrderGiven ==
  ASSUME NEW Q \in [Places -> Seq(Items)], NEW y \in Places, NEW q \in Items, InOrder(Q), EndsInOrder(Q, y, q)
  PROVE  InOrder(Given(Q, y, q))
<1> DEFINE R == Given(Q, y, q)  n == Len(Q[y]) + 1
<1>1. \A z \in Places : \A i \in DOMAIN R[z] :
        \/ z = y /\ i = n /\ R[z][i] = q
        \/ i \in DOMAIN Q[z] /\ R[z][i] = Q[z][i] /\ (z = y => i < n)
  BY GivenAt
<1> HIDE DEF R, n
<1>2. Before(y, n, q, y, n, q)
  BY ReportFields DEF Before, SameMaker
<1>3. ASSUME NEW z \in Places, NEW i \in DOMAIN Q[z], z = y => i < n
      PROVE  Before(z, i, Q[z][i], y, n, q) /\ Before(y, n, q, z, i, Q[z][i])
  <2>1. SameMaker(q, Q[z][i]) <=> SameMaker(Q[z][i], q)
    BY DEF SameMaker
  <2> QED BY <1>3, <2>1 DEF Before, EndsInOrder
<1>4. ASSUME NEW x \in Places, NEW z \in Places, NEW i \in DOMAIN R[x], NEW j \in DOMAIN R[z]
      PROVE  Before(x, i, R[x][i], z, j, R[z][j])
  <2>1. \/ x = y /\ i = n /\ R[x][i] = q
        \/ i \in DOMAIN Q[x] /\ R[x][i] = Q[x][i] /\ (x = y => i < n)
    BY <1>1
  <2>2. \/ z = y /\ j = n /\ R[z][j] = q
        \/ j \in DOMAIN Q[z] /\ R[z][j] = Q[z][j] /\ (z = y => j < n)
    BY <1>1
  <2>3. CASE /\ i \in DOMAIN Q[x] /\ R[x][i] = Q[x][i]
             /\ j \in DOMAIN Q[z] /\ R[z][j] = Q[z][j]
    BY <2>3, InOrderIs
  <2> QED BY <1>2, <1>3, <2>1, <2>2, <2>3
<1>5. InOrder(R)
  BY <1>4, InOrderIs
<1> QED BY <1>5 DEF R

\* A report that goes one stage further.
LEMMA FitsMoved ==
  ASSUME NEW Q \in [Places -> Seq(Items)], NEW x \in Places, Q[x] # <<>>, InOrder(Q), AllRouted(Q),
         NEW e, e = Head(Q[x]), IsReport(e), NEW q \in Items, q.frame.report = e.frame.report,
         NEW y \in Places, RouteOK(y, q), Stage(y, q) = Stage(x, e) + 1
  PROVE  EndsInOrder(Taken(Q, x), y, q)
<1> DEFINE R == Taken(Q, x)
<1>1. e = Q[x][1] /\ 1 \in DOMAIN Q[x] /\ e \in Items
  <2>1. Len(Q[x]) \in Nat \ {0} /\ DOMAIN Q[x] = 1..Len(Q[x]) /\ Head(Q[x]) = Q[x][1]
    BY TakenIs
  <2> QED BY <2>1, ElementOfSeq
<1>2. IsReport(q) /\ Maker(q) = Maker(e) /\ Number(q) = Number(e)
  BY DEF IsReport, Maker, Number
<1>3. AllRouted(R)
  BY RoutedTaken
<1>4. Stage(x, e) \in Nat
  BY <1>1, ReportFields, StageIs
<1>5. ASSUME NEW z \in Places, NEW i \in DOMAIN R[z], SameMaker(R[z][i], q)
      PROVE  /\ Number(R[z][i]) < Number(q) => \/ Stage(z, R[z][i]) > Stage(y, q)
                                               \/ Stage(z, R[z][i]) = Stage(y, q) /\ z = y
             /\ Number(q) < Number(R[z][i]) => Stage(y, q) > Stage(z, R[z][i])
  <2> DEFINE d == R[z][i]
  <2>1. PICK k \in DOMAIN Q[z] : d = Q[z][k] /\ i \in Nat /\ k = IF z = x THEN i + 1 ELSE i
    BY TakenAt
  <2>2. RouteOK(z, d)
    BY <1>3 DEF AllRouted
  <2> HIDE DEF R, d
  <2>3. d \in Items /\ k \in Nat /\ k >= 1
    <3>1. Q[z] \in Seq(Items) /\ DOMAIN Q[z] = 1..Len(Q[z]) /\ Len(Q[z]) \in Nat
      BY LenProperties
    <3> QED BY <2>1, <3>1, ElementOfSeq
  <2>4. SameMaker(d, e) /\ SameMaker(e, d) /\ SameMaker(d, q)
    BY <1>2, <1>5 DEF SameMaker, d
  <2>5. Stage(z, d) \in Nat
    BY <2>3, <2>4, ReportFields, StageIs DEF SameMaker
  <2>6. Before(z, k, d, x, 1, e) /\ Before(x, 1, e, z, k, d)
    BY <1>1, <2>1, InOrderIs
  <2>7. ASSUME Number(d) < Number(q)
        PROVE  Stage(z, d) > Stage(y, q) \/ (Stage(z, d) = Stage(y, q) /\ z = y)
    <3>1. Stage(z, d) > Stage(x, e)
      BY <1>2, <2>3, <2>4, <2>6, <2>7 DEF Before
    <3>2. Stage(z, d) > Stage(y, q) \/ Stage(z, d) = Stage(y, q)
      BY <1>4, <2>5, <3>1
    <3> QED BY <2>2, <2>3, <2>4, <3>2, SameStage
  <2>8. ASSUME Number(q) < Number(d) PROVE Stage(y, q) > Stage(z, d)
    <3>1. Stage(x, e) >= Stage(z, d)
      BY <1>2, <1>4, <2>4, <2>5, <2>6, <2>8 DEF Before
    <3> QED BY <1>4, <2>5, <3>1
  <2> QED BY <2>7, <2>8 DEF d
<1> QED BY <1>5 DEF EndsInOrder

\* A new report.
LEMMA FitsMade ==
  ASSUME NEW Q \in [Places -> Seq(Items)], AllRouted(Q), NEW q \in Items, IsReport(q),
         NEW y \in Places, RouteOK(y, q), Stage(y, q) = 0,
         \A x \in Places : \A i \in DOMAIN Q[x] : SameMaker(Q[x][i], q) => Number(Q[x][i]) < Number(q)
  PROVE  EndsInOrder(Q, y, q)
<1> SUFFICES ASSUME NEW z \in Places, NEW i \in DOMAIN Q[z], SameMaker(Q[z][i], q)
             PROVE  /\ Number(Q[z][i]) < Number(q) => \/ Stage(z, Q[z][i]) > Stage(y, q)
                                                      \/ Stage(z, Q[z][i]) = Stage(y, q) /\ z = y
                    /\ Number(q) < Number(Q[z][i]) => Stage(y, q) > Stage(z, Q[z][i])
  BY DEF EndsInOrder
<1> DEFINE d == Q[z][i]
<1>1. d \in Items /\ RouteOK(z, d) /\ SameMaker(d, q) /\ Number(d) < Number(q)
  <2>1. Q[z] \in Seq(Items)
    OBVIOUS
  <2> QED BY <2>1, ElementOfSeq, LenProperties DEF AllRouted
<1>2. Number(d) \in Nat /\ Number(q) \in Nat /\ Stage(z, d) \in Nat
  BY <1>1, ReportFields, StageIs DEF SameMaker
<1> HIDE DEF d
<1>3. Stage(z, d) > Stage(y, q) \/ (Stage(z, d) = Stage(y, q) /\ z = y)
  <2>1. Stage(z, d) > Stage(y, q) \/ Stage(z, d) = Stage(y, q)
    BY <1>2
  <2> QED BY <1>1, <2>1, SameStage
<1>4. ~(Number(q) < Number(d))
  BY <1>1, <1>2
<1> QED BY <1>3, <1>4 DEF d

LEMMA NumbersKept ==
  ASSUME NEW W, NEW N, Numbered(W, N), NEW e \in W, NEW q, q.frame.report = e.frame.report,
         NEW U, U = (W \ {e}) \cup {q}
  PROVE  Numbered(U, N)
<1>1. (IsReport(q) <=> IsReport(e)) /\ Maker(q) = Maker(e) /\ Number(q) = Number(e)
  BY DEF IsReport, Maker, Number
<1>2. \A d : d \in U <=> (d \in W /\ d # e) \/ d = q
  OBVIOUS
<1>3. ASSUME NEW d \in U, IsReport(d) PROVE Number(d) < N[Maker(d)]
  <2>1. \A c \in W : IsReport(c) => Number(c) < N[Maker(c)]
    BY DEF Numbered
  <2> QED BY <1>1, <1>2, <1>3, <2>1
<1>4. ASSUME NEW c \in U, NEW d \in U, SameMaker(c, d), Number(c) = Number(d) PROVE c = d
  <2>1. \A a, b \in W : SameMaker(a, b) /\ Number(a) = Number(b) => a = b
    BY DEF Numbered
  <2>2. CASE c = q /\ d # q
    <3>1. SameMaker(e, d) /\ Number(e) = Number(d) /\ d \in W /\ d # e
      BY <1>1, <1>2, <1>4, <2>2 DEF SameMaker
    <3> QED BY <2>1, <3>1
  <2>3. CASE d = q /\ c # q
    <3>1. SameMaker(c, e) /\ Number(c) = Number(e) /\ c \in W /\ c # e
      BY <1>1, <1>2, <1>4, <2>3 DEF SameMaker
    <3> QED BY <2>1, <3>1
  <2>4. CASE c # q /\ d # q
    BY <1>2, <1>4, <2>1, <2>4
  <2> QED BY <2>2, <2>3, <2>4
<1>5. ASSUME NEW s \in Switches, NEW n \in 0..(N[s] - 1)
      PROVE  \E d \in U : IsReport(d) /\ Maker(d) = s /\ Number(d) = n
  <2>1. PICK d \in W : IsReport(d) /\ Maker(d) = s /\ Number(d) = n
    BY DEF Numbered
  <2>2. CASE d = e
    BY <1>1, <1>2, <2>1, <2>2
  <2>3. CASE d # e
    BY <1>2, <2>1, <2>3
  <2> QED BY <2>2, <2>3
<1> QED BY <1>3, <1>4, <1>5 DEF Numbered

LEMMA NumbersWith ==
  ASSUME NEW W, NEW N, Numbered(W, N), NEW c, ~IsReport(c), NEW U, U = W \cup {c}
  PROVE  Numbered(U, N)
<1>1. \A d : d \in U <=> d \in W \/ d = c
  OBVIOUS
<1>2. ASSUME NEW d \in U, IsReport(d) PROVE Number(d) < N[Maker(d)]
  BY <1>1, <1>2 DEF Numbered
<1>3. ASSUME NEW a \in U, NEW d \in U, SameMaker(a, d), Number(a) = Number(d) PROVE a = d
  BY <1>1, <1>3 DEF Numbered, SameMaker
<1>4. ASSUME NEW s \in Switches, NEW n \in 0..(N[s] - 1)
      PROVE  \E d \in U : IsReport(d) /\ Maker(d) = s /\ Number(d) = n
  BY <1>1 DEF Numbered
<1> QED BY <1>2, <1>3, <1>4 DEF Numbered

LEMMA NumbersGrow ==
  ASSUME NEW W \in SUBSET Items, NEW N \in [Switches -> Nat], Numbered(W, N), NEW e \in W, ~IsReport(e),
         NEW q \in Items, IsReport(q), NEW s \in Switches, Maker(q) = s, Number(q) = N[s],
         NEW U, U = (W \ {e}) \cup {q}, NEW M, M = [N EXCEPT ![s] = N[s] + 1]
  PROVE  Numbered(U, M)
<1>1. \A d : d \in U <=> (d \in W /\ d # e) \/ d = q
  OBVIOUS
<1>2. M[s] = N[s] + 1 /\ \A r \in Switches : r # s => M[r] = N[r]
  OBVIOUS
<1>3. N[s] \in Nat /\ \A d \in W : IsReport(d) => Maker(d) \in Switches /\ Number(d) \in Nat
  BY ReportFields
<1>4. \A d \in W : IsReport(d) => Number(d) < N[Maker(d)]
  BY DEF Numbered
<1>5. ASSUME NEW d \in U, IsReport(d) PROVE Number(d) < M[Maker(d)]
  <2>1. CASE d = q
    BY <1>2, <1>3, <2>1
  <2>2. CASE d # q /\ Maker(d) = s
    <3>1. Number(d) \in Nat /\ Number(d) < N[s]
      BY <1>1, <1>3, <1>4, <1>5, <2>2
    <3> QED BY <1>2, <1>3, <2>2, <3>1
  <2>3. CASE d # q /\ Maker(d) # s
    BY <1>1, <1>2, <1>3, <1>4, <1>5, <2>3
  <2> QED BY <2>1, <2>2, <2>3
<1>6. ASSUME NEW c \in U, NEW d \in U, SameMaker(c, d), Number(c) = Number(d) PROVE c = d
  <2>1. \A a \in W : SameMaker(a, q) \/ SameMaker(q, a) => Number(a) # Number(q)
    <3> SUFFICES ASSUME NEW a \in W, SameMaker(a, q) \/ SameMaker(q, a) PROVE Number(a) # Number(q)
      OBVIOUS
    <3>1. IsReport(a) /\ Maker(a) = s
      BY DEF SameMaker
    <3>2. Number(a) < N[s] /\ Number(a) \in Nat
      BY <1>3, <1>4, <3>1
    <3> QED BY <1>3, <3>2
  <2>2. \A a, b \in W : SameMaker(a, b) /\ Number(a) = Number(b) => a = b
    BY DEF Numbered
  <2> QED BY <1>1, <1>6, <2>1, <2>2
<1>7. ASSUME NEW r \in Switches, NEW n \in 0..(M[r] - 1)
      PROVE  \E d \in U : IsReport(d) /\ Maker(d) = r /\ Number(d) = n
  <2>1. CASE r = s /\ n = N[s]
    BY <1>1, <2>1
  <2>2. CASE ~(r = s /\ n = N[s])
    <3>1. n \in 0..(N[r] - 1)
      BY <1>2, <1>3, <2>2
    <3>2. PICK d \in W : IsReport(d) /\ Maker(d) = r /\ Number(d) = n
      BY <3>1 DEF Numbered
    <3> QED BY <1>1, <3>2
  <2> QED BY <2>1, <2>2
<1> QED BY <1>5, <1>6, <1>7 DEF Numbered

LEMMA AllAreItems ==
  ASSUME NEW Q, NEW D, NEW S, CopyOK(Q, D, S)
  PROVE  /\ Q \in [Places -> Seq(Items)] /\ Distinct(Q, D) /\ InAll(Q, D) \in SUBSET Items
         /\ \A x \in Places : \A i \in DOMAIN Q[x] : Q[x][i] \in InAll(Q, D)
         /\ \A x \in Places : Q[x] # <<>> => Head(Q[x]) \in InAll(Q, D)
<1>1. Q \in [Places -> Seq(Items)] /\ Distinct(Q, D) /\ \A e \in InAll(Q, D) : e \in Items
  BY DEF CopyOK, AllLive, LifeOK
<1>2. \A x \in Places : \A i \in DOMAIN Q[x] : Q[x][i] \in InAll(Q, D)
  BY InAllIs
<1>3. ASSUME NEW x \in Places, Q[x] # <<>> PROVE Head(Q[x]) \in InAll(Q, D)
  <2>1. Len(Q[x]) \in Nat \ {0} /\ DOMAIN Q[x] = 1..Len(Q[x]) /\ Head(Q[x]) = Q[x][1]
    BY <1>1, <1>3, TakenIs
  <2>2. 1 \in DOMAIN Q[x]
    BY <2>1
  <2> QED BY <1>2, <2>1, <2>2
<1> QED BY <1>1, <1>2, <1>3

\* The head of a queue goes on, as the same packet or copy, or is dropped.
LEMMA OrderMoved ==
  ASSUME NEW Q, NEW D, NEW S, CopyOK(Q, D, S), NEW N, OrderOK(Q, D, N),
         NEW x \in Places, Q[x] # <<>>, NEW e, e = Head(Q[x]),
         NEW q \in Items, Key(q) = Key(e), q.frame.report = e.frame.report,
         NEW y \in Places, IsReport(e) => RouteOK(y, q) /\ Stage(y, q) = Stage(x, e) + 1,
         NEW R, NEW B, Passed(Taken(Q, x), D, R, B, y, q)
  PROVE  OrderOK(R, B, N)
<1> DEFINE T == Taken(Q, x)  W == InAll(Q, D)
<1>1. Q \in [Places -> Seq(Items)] /\ Distinct(Q, D) /\ e \in W
  BY AllAreItems
<1>2. AllRouted(Q) /\ InOrder(Q) /\ Numbered(W, N)
  BY DEF OrderOK
<1>3. IsReport(q) <=> IsReport(e)
  BY DEF IsReport
<1>4. T \in [Places -> Seq(Items)] /\ AllRouted(T) /\ InOrder(T)
  BY <1>1, <1>2, TakenIs, RoutedTaken, OrderTaken
<1>5. Distinct(T, D) /\ InAll(T, D) = W \ {e} /\ \A f \in InAll(T, D) : Key(f) # Key(q)
  BY <1>1, TakeOne
<1>6. EndsInOrder(T, y, q) /\ RouteOK(y, q)
  <2>1. CASE IsReport(e)
    <3>1. RouteOK(y, q) /\ Stage(y, q) = Stage(x, e) + 1
      BY <2>1
    <3> HIDE DEF W
    <3> QED BY <1>1, <1>2, <2>1, <3>1, FitsMoved
  <2>2. CASE ~IsReport(e)
    BY <1>3, <2>2 DEF EndsInOrder, SameMaker, RouteOK
  <2> QED BY <2>1, <2>2
<1> HIDE DEF T, W
<1>7. Passed(T, D, R, B, y, q)
  BY DEF T
<1>8. InAll(R, B) = (W \ {e}) \cup {q}
  <2>1. T \in [Places -> Seq(Items)] /\ Distinct(T, D)
    BY <1>4, <1>5
  <2>2. \A f \in InAll(T, D) : Key(f) # Key(q)
    BY <1>5
  <2>3. InAll(R, B) = InAll(T, D) \cup {q}
    BY ONLY <1>7, <2>1, <2>2, y \in Places, q \in Items, PassOne
  <2> QED BY <1>5, <2>3
<1>9. Numbered(InAll(R, B), N)
  BY <1>1, <1>2, <1>8, NumbersKept
<1>10. AllRouted(R) /\ InOrder(R)
  <2>1. AllRouted(Given(T, y, q)) /\ InOrder(Given(T, y, q))
    BY <1>4, <1>6, RoutedGiven, OrderGiven
  <2> QED BY <1>4, <1>7, <2>1 DEF Passed
<1> QED BY <1>9, <1>10 DEF OrderOK

\* Something that is no report enters.
LEMMA OrderAdded ==
  ASSUME NEW Q \in [Places -> Seq(Items)], NEW D, NEW N, OrderOK(Q, D, N),
         NEW c \in Items, ~IsReport(c),
         NEW y \in Places, NEW R, NEW B, Passed(Q, D, R, B, y, c)
  PROVE  OrderOK(R, B, N)
<1>1. AllRouted(Q) /\ InOrder(Q) /\ Numbered(InAll(Q, D), N)
  BY DEF OrderOK
<1>2. InAll(R, B) = InAll(Q, D) \cup {c}
  <2>1. Adds(Q, D, R, B, c)
    BY PassedIs
  <2> QED BY <2>1 DEF Adds
<1>3. Numbered(InAll(R, B), N)
  BY <1>1, <1>2, NumbersWith
<1>4. EndsInOrder(Q, y, c) /\ RouteOK(y, c)
  BY DEF EndsInOrder, SameMaker, RouteOK
<1>5. AllRouted(Given(Q, y, c)) /\ InOrder(Given(Q, y, c))
  BY <1>1, <1>4, RoutedGiven, OrderGiven
<1>6. AllRouted(R) /\ InOrder(R)
  BY <1>1, <1>5 DEF Passed
<1> QED BY <1>3, <1>6 DEF OrderOK

\* The head of a queue, a clone, becomes the next report of switch s.
LEMMA OrderMade ==
  ASSUME NEW Q, NEW D, NEW S, CopyOK(Q, D, S), NEW N \in [Switches -> Nat], OrderOK(Q, D, N),
         NEW x \in Places, Q[x] # <<>>, NEW e, e = Head(Q[x]), ~IsReport(e),
         NEW q \in Items, Key(q) = Key(e), IsReport(q),
         NEW s \in Switches, Maker(q) = s, Number(q) = N[s],
         NEW y \in Places, RouteOK(y, q), Stage(y, q) = 0,
         NEW R, R = Given(Taken(Q, x), y, q), NEW M, M = [N EXCEPT ![s] = N[s] + 1]
  PROVE  OrderOK(R, D, M)
<1> DEFINE T == Taken(Q, x)  W == InAll(Q, D)
<1>1. Q \in [Places -> Seq(Items)] /\ Distinct(Q, D) /\ e \in W /\ W \in SUBSET Items
  BY AllAreItems
<1>2. AllRouted(Q) /\ InOrder(Q) /\ Numbered(W, N)
  BY DEF OrderOK
<1>3. T \in [Places -> Seq(Items)] /\ AllRouted(T) /\ InOrder(T)
  BY <1>1, <1>2, TakenIs, RoutedTaken, OrderTaken
<1>4. Distinct(T, D) /\ InAll(T, D) = W \ {e} /\ \A f \in InAll(T, D) : Key(f) # Key(q)
  BY <1>1, TakeOne
<1>5. \A z \in Places : \A i \in DOMAIN T[z] : SameMaker(T[z][i], q) => Number(T[z][i]) < Number(q)
  <2> SUFFICES ASSUME NEW z \in Places, NEW i \in DOMAIN T[z], SameMaker(T[z][i], q)
               PROVE  Number(T[z][i]) < Number(q)
    OBVIOUS
  <2>1. T[z][i] \in W
    BY <1>4, InAllIs
  <2> HIDE DEF T, W
  <2> QED BY <1>2, <2>1 DEF Numbered, SameMaker
<1> HIDE DEF T, W
<1>6. EndsInOrder(T, y, q)
  BY <1>3, <1>5, FitsMade
<1>7. R = Given(T, y, q) /\ Passed(T, D, R, D, y, q)
  BY DEF Passed, T
<1>8. InAll(R, D) = (W \ {e}) \cup {q}
  <2>1. T \in [Places -> Seq(Items)] /\ Distinct(T, D)
    BY <1>3, <1>4
  <2>2. \A f \in InAll(T, D) : Key(f) # Key(q)
    BY <1>4
  <2>3. PICK C : C = D
    OBVIOUS
  <2>4. Passed(T, D, R, C, y, q)
    BY <1>7, <2>3
  <2>5. InAll(R, C) = InAll(T, D) \cup {q}
    BY ONLY <2>1, <2>2, <2>4, y \in Places, q \in Items, PassOne
  <2> QED BY <1>4, <2>3, <2>5
<1>9. Numbered(InAll(R, D), M)
  BY <1>1, <1>2, <1>8, NumbersGrow
<1>10. AllRouted(R) /\ InOrder(R)
  BY <1>3, <1>6, <1>7, RoutedGiven, OrderGiven
<1> QED BY <1>9, <1>10 DEF OrderOK

------------------------------------------------------------------------------
(* The way of a report, step by step *)

LEMMA RouteThrough ==
  ASSUME NEW s \in Switches, NEW e \in Items, IsReport(e), RouteOK(AtInput(s), e),
         NEW q, q.frame = e.frame, q.in = e.in, NEW out, out = ToCollector(s)
  PROVE  RouteOK(AtOutput(s, out), q) /\ Stage(AtOutput(s, out), q) = Stage(AtInput(s), e) + 1
<1> DEFINE p == e.frame.path  a == Ahead(Maker(e), p, Len(p))  y == AtOutput(s, out)  x == AtInput(s)
<1>1. IsReport(q) /\ Maker(q) = Maker(e) /\ q.frame.path = p /\ Len(p) \in Nat
  BY ReportFields DEF IsReport, Maker
<1>2. PathOK(Maker(e), p) /\ IsAt(x, e, a)
  BY DEF RouteOK
<1>3. a[1] \notin Hosts /\ e.in = a[2] /\ a[1] = s
  <2> HIDE DEF a
  <2> QED BY <1>2, PlacesDiffer DEF IsAt
<1>4. IsAt(y, q, a)
  <2> HIDE DEF a
  <2> QED BY <1>3 DEF IsAt
<1>5. RouteOK(y, q)
  BY <1>1, <1>2, <1>4 DEF RouteOK
<1>6. x[1] # "out" /\ y[1] = "out"
  BY PlaceKinds
<1> HIDE DEF x, y, p
<1>7. Stage(x, e) = 2 * Len(p) /\ Stage(y, q) = 2 * Len(p) + 1
  BY <1>1, <1>6, StageIs DEF p
<1> QED BY <1>5, <1>7 DEF x, y

LEMMA RouteOut ==
  ASSUME NEW s \in Switches, NEW out \in Ports, NEW q \in Items, IsReport(q), q.in \in Ports,
         RouteOK(AtOutput(s, out), q), NEW e, e.frame.report = q.frame.report,
         e.frame.path = Append(q.frame.path, StepOf(Hop(s, q.in, out))),
         NEW y, y[1] # "out", IsAt(y, e, Peer[s][out])
  PROVE  RouteOK(y, e) /\ Stage(y, e) = Stage(AtOutput(s, out), q) + 1
<1> DEFINE p == q.frame.path  n == Len(p)  m == Maker(q)  a == Ahead(m, p, n)  x == AtOutput(s, out)
           b == StepOf(Hop(s, q.in, out))  r == e.frame.path
<1>1. IsReport(e) /\ Maker(e) = m /\ p \in Seq(Steps) /\ n \in Nat
  BY ReportFields DEF IsReport, Maker
<1>2. PathOK(m, p) /\ IsAt(x, q, a)
  BY DEF RouteOK
<1>3. a[1] \notin Hosts /\ q.in = a[2] /\ a[1] = s /\ out = ToCollector(s)
  <2> HIDE DEF a
  <2> QED BY <1>2, PlacesDiffer DEF IsAt
<1>4. b \in Steps /\ b.switch = s /\ b.in = q.in /\ b.out = out
  BY DEF StepOf, Hop, Steps
<1>5. r = Append(p, b)
  OBVIOUS
<1> HIDE DEF p, m, b, r
<1>6. /\ Len(r) = n + 1 /\ r[n + 1] = b /\ \A i \in 1..n : r[i] = p[i]
  BY <1>1, <1>4, <1>5, AppendProperties
<1> HIDE DEF n
<1>7. ASSUME NEW i \in 0..n PROVE Ahead(m, r, i) = Ahead(m, p, i)
  BY <1>1, <1>6 DEF Ahead
<1>8. PathOK(m, r)
  <2> SUFFICES ASSUME NEW i \in 1..(n + 1)
               PROVE  /\ r[i].switch = Ahead(m, r, i - 1)[1] /\ r[i].in = Ahead(m, r, i - 1)[2]
                      /\ r[i].out = ToCollector(r[i].switch) /\ r[i].switch \notin Hosts
    BY <1>6 DEF PathOK
  <2>1. CASE i = n + 1
    <3>1. i - 1 = n /\ n \in 0..n
      BY <1>1, <2>1
    <3>2. Ahead(m, r, i - 1) = a
      BY <1>7, <3>1 DEF n
    <3> HIDE DEF a
    <3> QED BY <1>3, <1>4, <1>6, <2>1, <3>2
  <2>2. CASE i # n + 1
    <3>1. i \in 1..n /\ i - 1 \in 0..n
      BY <1>1, <2>2
    <3>2. Ahead(m, r, i - 1) = Ahead(m, p, i - 1) /\ r[i] = p[i]
      BY <1>6, <1>7, <3>1
    <3> QED BY <1>2, <3>1, <3>2 DEF PathOK, n
  <2> QED BY <2>1, <2>2
<1>9. Ahead(m, r, Len(r)) = Peer[s][out]
  <2>1. n + 1 # 0
    BY <1>1
  <2> QED BY <1>4, <1>6, <2>1 DEF Ahead
<1>10. RouteOK(y, e)
  BY <1>1, <1>8, <1>9 DEF RouteOK, r
<1>11. Stage(x, q) = 2 * n + 1
  <2>1. x[1] = "out"
    BY PlaceKinds
  <2> HIDE DEF x
  <2> QED BY <1>1, <2>1, StageIs DEF n, p
<1>12. Stage(y, e) = 2 * (n + 1)
  <2>1. Len(e.frame.path) = n + 1 /\ n + 1 \in Nat
    BY <1>1, <1>6 DEF r
  <2>2. Stage(y, e) = 2 * Len(e.frame.path)
    BY <2>1, StageIs
  <2> QED BY <2>1, <2>2
<1> HIDE DEF x
<1>13. 2 * (n + 1) = (2 * n + 1) + 1
  BY <1>1
<1> QED BY <1>10, <1>11, <1>12, <1>13 DEF x

LEMMA RouteStart ==
  ASSUME NEW e, IsReport(e), e.frame.path = <<>>, NEW y, y[1] # "out",
         IsAt(y, e, Peer[Maker(e)][Tables[Maker(e)].mirror])
  PROVE  RouteOK(y, e) /\ Stage(y, e) = 0
<1>1. Len(e.frame.path) = 0
  OBVIOUS
<1>2. PathOK(Maker(e), e.frame.path)
  BY <1>1 DEF PathOK
<1>3. Ahead(Maker(e), e.frame.path, Len(e.frame.path)) = Peer[Maker(e)][Tables[Maker(e)].mirror]
  BY <1>1 DEF Ahead
<1>4. Stage(y, e) = 2 * Len(e.frame.path)
  BY <1>1, StageIs
<1> QED BY <1>1, <1>2, <1>3, <1>4 DEF RouteOK

LEMMA ReportIs ==
  ASSUME NEW s, NEW f, NEW n
  PROVE  /\ Report(s, f, n).path = <<>> /\ Report(s, f, n).report # NoReport
         /\ Report(s, f, n).report.switch = s /\ Report(s, f, n).report.seq = n
<1> DEFINE g == Report(s, f, n)
<1>1. /\ g.path = <<>> /\ g.report.valid = TRUE
      /\ g.report.switch = s /\ g.report.seq = n
  BY DEF Report, Frame
<1>2. NoReport.valid = FALSE
  BY DEF NoReport
<1> HIDE DEF g
<1>3. g.report # NoReport
  BY <1>1, <1>2
<1> QED BY <1>1, <1>3 DEF g

\* The report in f, which q became when it left s.
LeavesAs(s, out, q, f) ==
  /\ q.clone = TRUE => /\ q.frame.report = NoReport /\ out = Tables[s].mirror
                       /\ f.report # NoReport /\ f.report.switch = s /\ f.report.seq = seq[s]
                       /\ f.path = <<>>
  /\ q.clone = FALSE => f.report = q.frame.report
  /\ q.frame.report # NoReport => f.path = Append(q.frame.path, StepOf(Hop(s, q.in, out)))

LEMMA LeavingReports ==
  ASSUME NEW S, S \in Seq(Sendable), NEW s \in Switches, NEW out \in Ports, NEW q \in Waiting(s, out, S)
  PROVE  LeavesAs(s, out, q, Leaving(s, out, q))
<1> DEFINE f == Leaving(s, out, q)  h == q.frame
           p == Passing(s, q.in, out, h)
           t == IF HasL4(p) /\ p.tel.valid THEN Transited(s, q.in, out, p) ELSE p
<1>1. /\ q \in Items /\ h \in GoodFrames(S) /\ q.in \in Ports
      /\ q.sink \in BOOLEAN /\ q.clone \in BOOLEAN
  BY WaitsAsItem
<1>2. /\ p.path = Append(h.path, StepOf(Hop(s, q.in, out))) /\ p.tel = h.tel
      /\ p \in AllFrames /\ p.id = h.id /\ p.report = h.report /\ (HasL4(p) <=> HasL4(h))
      /\ f = IF ~HasL4(h) THEN p
             ELSE IF q.clone = TRUE THEN Report(s, t, seq[s])
             ELSE IF q.sink = TRUE THEN Sunk(t) ELSE t
  BY LeavingIs
<1>3. /\ h \in IntFrames(S) => h.report = NoReport /\ HasL4(h)
      /\ h.report # NoReport => h.tel = NoInt /\ HasL4(h)
      /\ h.tel # NoInt => h \in IntFrames(S)
      /\ h.tel.valid <=> h.tel # NoInt
  BY <1>1, KindIs
<1>4. /\ q.clone = TRUE => h \in IntFrames(S) /\ q.sink = FALSE /\ out = Tables[s].mirror
      /\ q.sink = TRUE => h \in IntFrames(S)
  BY DEF Waiting
<1>5. t.report = h.report /\ t \in AllFrames /\ (h.tel = NoInt => t = p)
  <2>1. CASE h.tel = NoInt
    <3>1. t = p
      BY <1>2, <1>3, <2>1
    <3> HIDE DEF t, p
    <3> QED BY <1>2, <3>1
  <2>2. CASE h.tel # NoInt
    <3>1. t = Transited(s, q.in, out, p)
      BY <1>2, <1>3, <2>2
    <3>2. t \in IntFrames(S)
      <4>1. h \in IntFrames(S)
        BY <1>3, <2>2
      <4> HIDE DEF h, t
      <4> QED BY <1>1, <3>1, <4>1, IntOutcome DEF p
    <3>3. t.report = p.report
      <4> HIDE DEF p, t
      <4> QED BY <1>2, <3>1, SameId DEF Alike
    <3>4. t \in AllFrames
      BY <3>2 DEF IntFrames, CarryingFrames, DataFrames
    <3> HIDE DEF t, p
    <3> QED BY <1>2, <2>2, <3>3, <3>4
  <2> QED BY <2>1, <2>2
<1> HIDE DEF f, p, t, h
<1>6. CASE q.clone = TRUE
  <2>1. f = Report(s, t, seq[s])
    BY <1>2, <1>3, <1>4, <1>6
  <2>2. f.path = <<>> /\ f.report # NoReport /\ f.report.switch = s /\ f.report.seq = seq[s]
    BY <2>1, ReportIs
  <2> QED BY <1>3, <1>4, <1>6, <2>2 DEF f, h, LeavesAs
<1>7. CASE q.clone = FALSE
  <2>1. f = p \/ f = t \/ f = Sunk(t)
    BY <1>2, <1>7
  <2>2. Sunk(t).report = t.report
    BY <1>5, SameId DEF Alike
  <2>3. f.report = h.report
    BY <1>2, <1>5, <2>1, <2>2
  <2>4. h.report # NoReport => f = p
    <3> SUFFICES ASSUME h.report # NoReport PROVE f = p
      OBVIOUS
    <3>1. h.tel = NoInt /\ q.sink = FALSE
      BY <1>1, <1>3, <1>4
    <3> QED BY <1>2, <1>5, <1>7, <3>1
  <2> QED BY <1>2, <1>7, <2>3, <2>4 DEF f, h, LeavesAs
<1> QED BY <1>1, <1>6, <1>7

------------------------------------------------------------------------------
(* The steps *)

LEMMA OrderInit ==
  ASSUME Init PROVE OrderOK(Queues, dropped, seq)
<1>1. ASSUME NEW x \in Places PROVE DOMAIN Queues[x] = {}
  BY QueuesEmpty
<1>2. dropped = {} /\ \A s \in Switches : seq[s] = 0
  BY DEF Init
<1>3. ASSUME NEW e \in InAll(Queues, dropped) PROVE FALSE
  BY <1>1, <1>2, InAllIs
<1>4. AllRouted(Queues) /\ InOrder(Queues)
  BY <1>1 DEF AllRouted, InOrder
<1>5. Numbered(InAll(Queues, dropped), seq)
  <2>1. \A s \in Switches : 0..(seq[s] - 1) = {}
    BY <1>2
  <2> QED BY <1>3, <2>1 DEF Numbered
<1> QED BY <1>4, <1>5 DEF OrderOK

LEMMA OrderSend ==
  ASSUME CopyInv, OrderOK(Queues, dropped, seq), Send
  PROVE  OrderOK(Queues, dropped, seq)'
<1>1. FrameInv /\ CopyOK(Queues, dropped, sent)
  BY DEF CopyInv
<1>2. PICK p \in Sendable :
        LET f == Frame(Len(sent) + 1, p)  r == HostPort(p.src)[1]  in == HostPort(p.src)[2] IN
        /\ HostPort(p.src) \in Switches \X Ports
        /\ f \in PlainFrames(sent')
        /\ Queues' = Given(Queues, AtInput(r), Packet(f, in))
        /\ dropped' = dropped /\ seq' = seq
  BY <1>1, SendMoves
<1> DEFINE f == Frame(Len(sent) + 1, p)  sp == HostPort(p.src)  in == sp[2]
           y == AtInput(sp[1])  c == Packet(f, in)
<1>3. y \in Places /\ in \in Ports \cup {0}
  BY <1>2, PlacesAre
<1>4. c \in Items /\ ~IsReport(c)
  <2>1. PICK T : T = sent'
    OBVIOUS
  <2>2. f \in PlainFrames(T)
    BY <1>2, <2>1
  <2> HIDE DEF f, in
  <2>3. f \in GoodFrames(T) /\ f.report = NoReport
    BY <2>2, KindIs DEF GoodFrames
  <2> QED BY <1>3, <2>3, PacketIs DEF IsReport
<1>5. PICK R, B : R = Queues' /\ B = dropped'
  OBVIOUS
<1>6. Passed(Queues, dropped, R, B, y, c)
  BY <1>2, <1>5 DEF Passed
<1> HIDE DEF c, y
<1>7. Queues \in [Places -> Seq(Items)]
  BY <1>1 DEF CopyOK
<1>8. OrderOK(R, B, seq)
  BY <1>3, <1>4, <1>6, <1>7, OrderAdded
<1> QED BY <1>2, <1>5, <1>8

LEMMA HeadRouted ==
  ASSUME NEW Q \in [Places -> Seq(Items)], AllRouted(Q), NEW x \in Places, Q[x] # <<>>
  PROVE  RouteOK(x, Head(Q[x])) /\ Head(Q[x]) \in Items
<1>1. Len(Q[x]) \in Nat \ {0} /\ DOMAIN Q[x] = 1..Len(Q[x]) /\ Head(Q[x]) = Q[x][1]
  BY TakenIs
<1>2. 1 \in DOMAIN Q[x] /\ Q[x] \in Seq(Items)
  BY <1>1
<1> QED BY <1>1, <1>2, ElementOfSeq DEF AllRouted

LEMMA OrderIngress ==
  ASSUME CopyInv, OrderOK(Queues, dropped, seq), NEW s \in Switches, Ingress(s)
  PROVE  OrderOK(Queues, dropped, seq)'
<1> DEFINE a == Head(inbuf[s])  f == a.frame  in == a.in  out == Out(s, f)
           e == Packet(f, in)
           g == IF IsSource(s, in, f) THEN Sourced(f) ELSE f
           sink == IsSink(s, out, g)
           x == AtInput(s)  y == AtOutput(s, out)  z == AtOutput(s, Tables[s].mirror)
           mid == Taken(Queues, x)
           q == Item(g, in, sink, FALSE)  c == Item(f, in, FALSE, TRUE)
           S == sent  W == InAll(Queues, dropped)
<1>1. FrameInv /\ CopyOK(Queues, dropped, S) /\ S \in Seq(Sendable)
  BY DEF CopyInv, FrameInv
<1>2. /\ a \in Arrivals(s, sent) /\ out \in Ports
      /\ Queues[x] # <<>> /\ Head(Queues[x]) = e
      /\ q \in Waiting(s, out, sent)
      /\ ~sink => Passed(mid, dropped, Queues', dropped', y, q)
      /\ sink => /\ c \in Waiting(s, Tables[s].mirror, sent) /\ Tables[s].mirror \in Ports
                 /\ \E R, B : /\ Passed(mid, dropped, R, B, y, q)
                             /\ Passed(R, B, Queues', dropped', z, c)
      /\ seq' = seq
  BY <1>1, IngressMoves
<1>3. f \in GoodFrames(S) /\ in \in Ports
      /\ (in \in Tables[s].source => f \in PlainFrames(S) /\ f.path = <<>>)
  BY <1>2 DEF Arrivals
<1>4. x \in Places /\ y \in Places /\ (Tables[s].mirror \in Ports => z \in Places)
  BY <1>2, PlacesAre
<1>5. LifeOK(W, S, e) /\ PlaceOK(x, e, S)
  <2> HIDE DEF S, e, x
  <2> QED BY <1>1, <1>2, <1>4, HeadLives
<1>6. g.id = f.id /\ g.report = f.report /\ (sink => f.report = NoReport)
  <2> HIDE DEF a, S, W
  <2> QED BY <1>1, <1>3, <1>5, IngressTurns
<1>7. /\ e.frame = f /\ e.in = in /\ e \in Items /\ e.clone = FALSE
      /\ q.frame = g /\ q.in = in /\ q.clone = FALSE /\ c.frame = f
  <2>1. e.frame = f /\ e.in = in /\ e \in Items /\ e.clone = FALSE
    <3>1. in \in Ports \cup {0} /\ f \in GoodFrames(S)
      BY <1>3
    <3> HIDE DEF f, in, S
    <3> QED BY <3>1, PacketIs
  <2> QED BY <2>1 DEF Item
<1>8. q \in Items /\ (sink => c \in Items)
  BY <1>2, WaitsAsItem
<1>9. f.report # NoReport => g = f /\ out = ToCollector(s)
  <2> SUFFICES ASSUME f.report # NoReport PROVE g = f /\ out = ToCollector(s)
    OBVIOUS
  <2> HIDE DEF a, S
  <2>1. f \in ReportFrames(S) /\ f \notin PlainFrames(S)
    BY <1>3, KindIs
  <2>2. ~IsSource(s, in, f)
    BY <1>3, <2>1 DEF IsSource
  <2>3. f.dst = Collector
    BY <2>1 DEF ReportFrames
  <2> QED BY <2>2, <2>3 DEF Out, ToCollector
<1>10. PICK R, B : R = Queues' /\ B = dropped'
  OBVIOUS
<1>11. y = AtOutput(s, out)
  OBVIOUS
<1> HIDE DEF a, out, e, g, sink, y, z, mid, q, c, S, W
<1>12. Key(q) = Key(e) /\ q.frame.report = e.frame.report /\ (sink => ~IsReport(e) /\ ~IsReport(c))
  <2>1. q.frame.id = e.frame.id /\ q.frame.report = e.frame.report /\ (IsCopy(q) <=> IsCopy(e))
    BY <1>6, <1>7 DEF IsCopy
  <2> QED BY <1>6, <1>7, <2>1, SameKey DEF IsReport
<1>13. Queues \in [Places -> Seq(Items)] /\ RouteOK(x, e)
  <2>1. Queues \in [Places -> Seq(Items)] /\ AllRouted(Queues)
    BY <1>1, AllAreItems DEF OrderOK
  <2> QED BY <1>2, <1>4, <2>1, HeadRouted
<1>14. IsReport(e) => RouteOK(y, q) /\ Stage(y, q) = Stage(x, e) + 1
  <2> SUFFICES ASSUME IsReport(e) PROVE RouteOK(y, q) /\ Stage(y, q) = Stage(x, e) + 1
    OBVIOUS
  <2>1. q.frame = e.frame /\ q.in = e.in /\ out = ToCollector(s)
    BY <1>7, <1>9 DEF IsReport
  <2>2. RouteOK(AtInput(s), e) /\ e \in Items
    BY <1>7, <1>13
  <2> HIDE DEF x
  <2> QED BY <1>11, <2>1, <2>2, RouteThrough DEF x
<1> HIDE DEF x
<1>15. ASSUME NEW N, NEW C, Passed(mid, dropped, N, C, y, q) PROVE OrderOK(N, C, seq)
  <2>1. Passed(Taken(Queues, x), dropped, N, C, y, q)
    BY <1>15 DEF mid
  <2>2. e = Head(Queues[x]) /\ Queues[x] # <<>> /\ CopyOK(Queues, dropped, S)
    BY <1>1, <1>2
  <2> QED BY <1>4, <1>8, <1>12, <1>14, <2>1, <2>2, OrderMoved
<1>16. CASE ~sink
  <2>1. OrderOK(R, B, seq)
    BY <1>2, <1>10, <1>15, <1>16
  <2> QED BY <1>2, <1>10, <2>1
<1>17. CASE sink
  <2>1. PICK N, C : Passed(mid, dropped, N, C, y, q) /\ Passed(N, C, R, B, z, c)
    BY <1>2, <1>10, <1>17
  <2>2. OrderOK(N, C, seq)
    BY <1>15, <2>1
  <2>3. N \in [Places -> Seq(Items)]
    <3>1. mid \in [Places -> Seq(Items)]
      BY <1>2, <1>4, <1>13, TakenIs DEF mid
    <3> QED BY <1>4, <1>8, <2>1, <3>1, PassedIs
  <2>4. c \in Items /\ ~IsReport(c) /\ z \in Places
    BY <1>2, <1>4, <1>8, <1>12, <1>17
  <2>5. OrderOK(R, B, seq)
    BY <2>1, <2>2, <2>3, <2>4, OrderAdded
  <2> QED BY <1>2, <1>10, <2>5
<1> QED BY <1>16, <1>17

LEMMA OrderEgress ==
  ASSUME CopyInv, OrderOK(Queues, dropped, seq), NEW s \in Switches, NEW out \in Ports, Egress(s, out)
  PROVE  OrderOK(Queues, dropped, seq)'
<1> DEFINE q == Head(outq[s][out])  f == Leaving(s, out, q)  to == Peer[s][out]
           x == AtOutput(s, out)  mid == Taken(Queues, x)
           S == sent  W == InAll(Queues, dropped)
<1>1. FrameInv /\ CopyOK(Queues, dropped, S) /\ S \in Seq(Sendable) /\ seq \in [Switches -> Nat]
  BY DEF CopyInv, FrameInv
<1>2. /\ q \in Waiting(s, out, sent) /\ f \in GoodFrames(sent)
      /\ Queues[x] # <<>> /\ Head(Queues[x]) = q
      /\ \/ /\ to[1] \in Hosts
            /\ Queues' = Given(mid, AtHost(to[1]), Packet(f, 0))
         \/ /\ to[1] \notin Hosts /\ to \in Switches \X Ports
            /\ Queues' = Given(mid, AtInput(to[1]), Packet(f, to[2]))
      /\ seq' = [seq EXCEPT ![s] = IF q.clone THEN seq[s] + 1 ELSE seq[s]]
      /\ dropped' = dropped
  BY <1>1, EgressMoves
<1>3. PICK y \in Places, i \in Ports \cup {0} :
        /\ Queues' = Given(mid, y, Packet(f, i)) /\ y[1] # "out"
        /\ to[1] \in Hosts => y = AtHost(to[1])
        /\ to[1] \notin Hosts => y = AtInput(to[1]) /\ i = to[2]
  <2>1. CASE to[1] \in Hosts
    <3>1. AtHost(to[1]) \in Places /\ AtHost(to[1])[1] # "out" /\ 0 \in Ports \cup {0}
      BY <2>1, PlacesAre, PlaceKinds
    <3>2. Queues' = Given(mid, AtHost(to[1]), Packet(f, 0))
      BY <1>2, <2>1
    <3> HIDE DEF to, f, mid
    <3> QED BY <2>1, <3>1, <3>2
  <2>2. CASE to[1] \notin Hosts
    <3>1. to \in Switches \X Ports /\ Queues' = Given(mid, AtInput(to[1]), Packet(f, to[2]))
      BY <1>2, <2>2
    <3>2. AtInput(to[1]) \in Places /\ AtInput(to[1])[1] # "out" /\ to[2] \in Ports \cup {0}
      BY <3>1, PlacesAre, PlaceKinds
    <3> HIDE DEF to, f, mid
    <3> QED BY <2>2, <3>1, <3>2
  <2> QED BY <2>1, <2>2
<1> DEFINE e == Packet(f, i)
<1>4. x \in Places
  BY PlacesAre
<1>5. LifeOK(W, S, q) /\ PlaceOK(x, q, S)
  <2> HIDE DEF S, q, x
  <2> QED BY <1>1, <1>2, <1>4, HeadLives
<1>6. f.id = q.frame.id /\ (IsCopy(e) <=> IsCopy(q))
  <2> HIDE DEF q, S, W
  <2> QED BY <1>1, <1>2, <1>5, EgressTurns DEF S
<1>7. /\ q.clone = TRUE => /\ q.frame.report = NoReport /\ out = Tables[s].mirror
                           /\ f.report # NoReport /\ f.report.switch = s /\ f.report.seq = seq[s]
                           /\ f.path = <<>>
      /\ q.clone = FALSE => f.report = q.frame.report
      /\ q.frame.report # NoReport => f.path = Append(q.frame.path, StepOf(Hop(s, q.in, out)))
  <2>1. q \in Waiting(s, out, S) /\ S \in Seq(Sendable)
    BY <1>1, <1>2
  <2> HIDE DEF q, S, W
  <2>2. LeavesAs(s, out, q, f)
    BY <2>1, LeavingReports
  <2> QED BY <2>2 DEF LeavesAs
<1>8. q \in Items /\ q.in \in Ports /\ q.clone \in BOOLEAN
  BY <1>2, WaitsAsItem
<1>9. e.frame = f /\ e.in = i /\ e \in Items
  BY <1>2, PacketIs
<1> HIDE DEF q, f, x, mid, S, W
<1>10. PICK R, M : R = Queues' /\ M = seq'
  OBVIOUS
<1> HIDE DEF e
<1>11. Key(e) = Key(q)
  BY <1>6, <1>9, SameKey
<1>12. R = Given(Taken(Queues, x), y, e)
  BY <1>3, <1>10 DEF mid, e
<1>13. CopyOK(Queues, dropped, S) /\ q = Head(Queues[x]) /\ Queues[x] # <<>>
  BY <1>1, <1>2
<1>14. IsAt(y, e, Peer[s][out])
  BY <1>3, <1>9 DEF IsAt
<1>15. CASE q.clone = TRUE
  <2>1. ~IsReport(q) /\ IsReport(e) /\ Maker(e) = s /\ Number(e) = seq[s]
    BY <1>7, <1>9, <1>15 DEF IsReport, Maker, Number
  <2>2. RouteOK(y, e) /\ Stage(y, e) = 0
    <3>1. e.frame.path = <<>> /\ IsAt(y, e, Peer[Maker(e)][Tables[Maker(e)].mirror])
      BY <1>7, <1>9, <1>14, <1>15, <2>1
    <3> QED BY <1>3, <2>1, <3>1, RouteStart
  <2>3. M = [seq EXCEPT ![s] = seq[s] + 1]
    BY <1>2, <1>10, <1>15
  <2>4. OrderOK(R, dropped, M)
    BY <1>1, <1>4, <1>9, <1>11, <1>12, <1>13, <2>1, <2>2, <2>3, OrderMade
  <2> QED BY <1>2, <1>10, <2>4
<1>16. CASE q.clone = FALSE
  <2>1. e.frame.report = q.frame.report
    BY <1>7, <1>9, <1>16
  <2>2. IsReport(q) => RouteOK(y, e) /\ Stage(y, e) = Stage(x, q) + 1
    <3> SUFFICES ASSUME IsReport(q) PROVE RouteOK(y, e) /\ Stage(y, e) = Stage(x, q) + 1
      OBVIOUS
    <3>1. e.frame.path = Append(q.frame.path, StepOf(Hop(s, q.in, out)))
      BY <1>7, <1>9 DEF IsReport
    <3>2. RouteOK(x, q)
      <4>1. Queues \in [Places -> Seq(Items)] /\ AllRouted(Queues)
        BY <1>1, AllAreItems DEF OrderOK
      <4> QED BY <1>4, <1>13, <4>1, HeadRouted
    <3>3. RouteOK(AtOutput(s, out), q)
      BY <3>2 DEF x
    <3> QED BY <1>3, <1>8, <1>14, <2>1, <3>1, <3>3, RouteOut DEF x
  <2>3. M = seq
    BY <1>1, <1>2, <1>10, <1>16
  <2>4. PICK B : B = dropped
    OBVIOUS
  <2>5. Passed(Taken(Queues, x), dropped, R, B, y, e)
    BY <1>12, <2>4 DEF Passed
  <2>6. OrderOK(R, B, seq)
    BY <1>4, <1>9, <1>11, <1>13, <2>1, <2>2, <2>5, OrderMoved
  <2> QED BY <1>2, <1>10, <2>3, <2>4, <2>6
<1> QED BY <1>8, <1>15, <1>16

LEMMA OrderStep ==
  ASSUME OrderInv, [Next]_vars PROVE OrderInv'
<1>1. CopyInv /\ OrderOK(Queues, dropped, seq)
  BY DEF OrderInv
<1>2. CopyInv'
  BY <1>1, CopyStep
<1>3. ASSUME UNCHANGED vars PROVE OrderOK(Queues, dropped, seq)'
  <2>1. Queues' = Queues /\ dropped' = dropped /\ seq' = seq
    BY <1>3 DEF vars, Queues
  <2> QED BY <1>1, <2>1
<1>4. OrderOK(Queues, dropped, seq)'
  BY <1>1, <1>3, OrderSend, OrderIngress, OrderEgress DEF Next
<1> QED BY <1>2, <1>4 DEF OrderInv

\* Every state of the network satisfies the invariant: the reports of a switch
\* are on one route, in the order of their numbers.
THEOREM OrderAlways == Spec => []OrderInv
<1>1. Init => OrderInv
  BY FrameInit, CopyInit, OrderInit DEF OrderInv, CopyInv
<1>2. OrderInv /\ [Next]_vars => OrderInv'
  BY OrderStep
<1> QED BY <1>1, <1>2, PTL DEF Spec

LEMMA FramesAre ==
  ASSUME CopyInv, NEW f
  PROVE  f \in Frames <=> \E e \in InAll(Queues, dropped) : f = e.frame
<1> DEFINE W == InAll(Queues, dropped)
<1>1. FrameInv
  BY DEF CopyInv
<1>2. f \in Frames <=> \/ f \in {a.frame : a \in Travelling}
                       \/ \E q \in Queued : f = q.frame
                       \/ f \in Delivered
                       \/ \E q \in dropped : f = q.frame
  BY DEF Frames
<1>3. ASSUME NEW x \in Places, NEW i \in DOMAIN Queues[x] PROVE Queues[x][i] \in W
  BY InAllIs
<1>4. dropped \subseteq W
  BY InAllIs
<1>5. \A e \in W : e \in dropped \/ \E x \in Places : \E i \in DOMAIN Queues[x] : e = Queues[x][i]
  BY InAllIs
<1> HIDE DEF W
<1>6. ASSUME NEW s \in Switches
      PROVE  /\ AtInput(s) \in Places /\ DOMAIN Queues[AtInput(s)] = DOMAIN inbuf[s]
             /\ \A i \in DOMAIN inbuf[s] : Queues[AtInput(s)][i].frame = inbuf[s][i].frame
  BY <1>1, QueuesHold, PlacesAre, PacketsAre
<1>7. ASSUME NEW s \in Switches, NEW p \in Ports
      PROVE  AtOutput(s, p) \in Places /\ Queues[AtOutput(s, p)] = outq[s][p]
  BY <1>1, QueuesHold, PlacesAre
<1>8. ASSUME NEW h \in Hosts
      PROVE  /\ AtHost(h) \in Places /\ DOMAIN Queues[AtHost(h)] = DOMAIN received[h]
             /\ \A i \in DOMAIN received[h] : Queues[AtHost(h)][i].frame = received[h][i]
  BY <1>1, QueuesHold, PlacesAre, PacketsAre
<1>9. ASSUME f \in Frames PROVE \E e \in W : f = e.frame
  <2>1. CASE f \in {a.frame : a \in Travelling}
    <3>1. PICK s \in Switches : \E i \in DOMAIN inbuf[s] : f = inbuf[s][i].frame
      BY <2>1, SetsAre
    <3>2. PICK i \in DOMAIN inbuf[s] : f = inbuf[s][i].frame
      BY <3>1
    <3>3. Queues[AtInput(s)][i] \in W /\ f = Queues[AtInput(s)][i].frame
      BY <1>3, <1>6, <3>2
    <3> QED BY <3>3
  <2>2. CASE \E q \in Queued : f = q.frame
    <3>1. PICK q \in Queued : f = q.frame
      BY <2>2
    <3>2. PICK s \in Switches, p \in Ports : \E i \in DOMAIN outq[s][p] : q = outq[s][p][i]
      BY SetsAre
    <3>3. PICK i \in DOMAIN outq[s][p] : q = outq[s][p][i]
      BY <3>2
    <3>4. q \in W
      BY <1>3, <1>7, <3>3
    <3> QED BY <3>1, <3>4
  <2>3. CASE f \in Delivered
    <3>1. PICK h \in Hosts : \E i \in DOMAIN received[h] : f = received[h][i]
      BY <2>3, SetsAre
    <3>2. PICK i \in DOMAIN received[h] : f = received[h][i]
      BY <3>1
    <3>3. Queues[AtHost(h)][i] \in W /\ f = Queues[AtHost(h)][i].frame
      BY <1>3, <1>8, <3>2
    <3> QED BY <3>3
  <2> QED BY <1>2, <1>4, <1>9, <2>1, <2>2, <2>3
<1>10. ASSUME NEW e \in W, f = e.frame PROVE f \in Frames
  <2>1. CASE e \in dropped
    BY <1>2, <1>10, <2>1
  <2>2. ASSUME NEW x \in Places, NEW i \in DOMAIN Queues[x], e = Queues[x][i] PROVE f \in Frames
    <3>1. CASE \E s \in Switches : x = AtInput(s)
      <4>1. PICK s \in Switches : x = AtInput(s)
        BY <3>1
      <4>2. i \in DOMAIN inbuf[s] /\ f = inbuf[s][i].frame
        BY <1>6, <1>10, <2>2, <4>1
      <4>3. f \in {a.frame : a \in Travelling}
        BY <4>2, SetsAre
      <4> QED BY <1>2, <4>3
    <3>2. CASE \E s \in Switches, p \in Ports : x = AtOutput(s, p)
      <4>1. PICK s \in Switches, p \in Ports : x = AtOutput(s, p)
        BY <3>2
      <4>2. i \in DOMAIN outq[s][p] /\ e = outq[s][p][i]
        BY <1>7, <2>2, <4>1
      <4>3. e \in Queued
        BY <4>2, SetsAre
      <4> QED BY <1>2, <1>10, <4>3
    <3>3. CASE \E h \in Hosts : x = AtHost(h)
      <4>1. PICK h \in Hosts : x = AtHost(h)
        BY <3>3
      <4>2. i \in DOMAIN received[h] /\ f = received[h][i]
        BY <1>8, <1>10, <2>2, <4>1
      <4>3. f \in Delivered
        BY <4>2, SetsAre
      <4> QED BY <1>2, <4>3
    <3> QED BY <3>1, <3>2, <3>3, PlacesAre
  <2> QED BY <1>5, <2>1, <2>2
<1> QED BY <1>9, <1>10 DEF W

LEMMA ReportsAreNumbered ==
  ASSUME OrderInv PROVE SeqFindsLosses
<1> DEFINE W == InAll(Queues, dropped)
<1>1. CopyInv /\ FrameInv /\ CopyOK(Queues, dropped, sent) /\ seq \in [Switches -> Nat]
  BY DEF OrderInv, CopyInv, FrameInv
<1>2. AllRouted(Queues) /\ InOrder(Queues) /\ Numbered(W, seq)
  BY DEF OrderInv, OrderOK
<1>3. /\ Queues \in [Places -> Seq(Items)] /\ Distinct(Queues, dropped) /\ W \in SUBSET Items
      /\ \A x \in Places : \A i \in DOMAIN Queues[x] : Queues[x][i] \in W
  BY <1>1, AllAreItems
<1> SUFFICES ASSUME NEW s \in Switches
             PROVE  /\ {f.report.seq : f \in Made(s)} = 0..(seq[s] - 1)
                    /\ Cardinality(Made(s)) = seq[s]
                    /\ \A i, j \in DOMAIN received[Collector] :
                         LET f == received[Collector][i]  g == received[Collector][j] IN
                         i < j /\ {f, g} \subseteq Made(s) => f.report.seq < g.report.seq
  BY DEF SeqFindsLosses
<1> HIDE DEF W
<1>4. ASSUME NEW f
      PROVE  f \in Made(s) <=> \E e \in W : f = e.frame /\ IsReport(e) /\ Maker(e) = s
  <2>1. f \in Frames <=> \E e \in W : f = e.frame
    BY <1>1, FramesAre DEF W
  <2>2. \A e \in W : e.frame.report.valid <=> IsReport(e)
    BY <1>3, ItemsReport DEF IsReport
  <2> QED BY <2>1, <2>2 DEF Made, Maker
<1>5. ASSUME NEW f \in Made(s), NEW g \in Made(s), f.report.seq = g.report.seq PROVE f = g
  <2>1. PICK d \in W : f = d.frame /\ IsReport(d) /\ Maker(d) = s
    BY <1>4
  <2>2. PICK e \in W : g = e.frame /\ IsReport(e) /\ Maker(e) = s
    BY <1>4
  <2>3. SameMaker(d, e) /\ Number(d) = Number(e)
    BY <1>5, <2>1, <2>2 DEF SameMaker, Number
  <2> QED BY <1>2, <2>1, <2>2, <2>3 DEF Numbered
<1>6. seq[s] \in Nat
  BY <1>1
<1>7. ASSUME NEW f \in Made(s) PROVE f.report.seq \in 0..(seq[s] - 1)
  <2>1. PICK e \in W : f = e.frame /\ IsReport(e) /\ Maker(e) = s
    BY <1>4
  <2>2. Number(e) \in Nat /\ Number(e) < seq[s]
    BY <1>2, <1>3, <2>1, ReportFields DEF Numbered
  <2> QED BY <1>6, <2>1, <2>2 DEF Number
<1>8. ASSUME NEW n \in 0..(seq[s] - 1) PROVE \E f \in Made(s) : f.report.seq = n
  <2>1. PICK e \in W : IsReport(e) /\ Maker(e) = s /\ Number(e) = n
    BY <1>2 DEF Numbered
  <2>2. e.frame \in Made(s)
    BY <1>4, <2>1
  <2> QED BY <2>1, <2>2 DEF Number
<1>9. {f.report.seq : f \in Made(s)} = 0..(seq[s] - 1)
  BY <1>7, <1>8
<1>10. Cardinality(Made(s)) = seq[s]
  <2> DEFINE M == Made(s)  I == 0..(seq[s] - 1)  F == [f \in M |-> f.report.seq]
  <2>1. F \in Bijection(M, I)
    <3>1. F \in [M -> I]
      BY <1>7
    <3>2. \A f, g \in M : F[f] = F[g] => f = g
      BY <1>5
    <3>3. \A n \in I : \E f \in M : F[f] = n
      BY <1>8
    <3> HIDE DEF M, I, F
    <3> QED BY ONLY <3>1, <3>2, <3>3, Fun_IsBij
  <2> HIDE DEF F, M, I
  <2>2. ExistsBijection(I, M)
    <3>1. ExistsBijection(M, I)
      BY <2>1 DEF ExistsBijection
    <3> QED BY <3>1, Fun_ExistsBijSymmetric
  <2>3. IsFiniteSet(I) /\ Cardinality(I) = seq[s]
    BY <1>6, FS_Interval DEF I
  <2>4. Cardinality(M) = Cardinality(I)
    BY <2>2, <2>3, FS_Bijection
  <2> QED BY <2>3, <2>4 DEF M
<1>11. ASSUME NEW i \in DOMAIN received[Collector], NEW j \in DOMAIN received[Collector], i < j,
              received[Collector][i] \in Made(s), received[Collector][j] \in Made(s)
       PROVE  received[Collector][i].report.seq < received[Collector][j].report.seq
  <2> DEFINE x == AtHost(Collector)  d == Queues[x][i]  e == Queues[x][j]
  <2>1. Collector \in Hosts /\ x \in Places
    BY DataPlaneAssumption, PlacesAre DEF DataPlaneAssumption
  <2>2. /\ i \in DOMAIN Queues[x] /\ d.frame = received[Collector][i]
        /\ j \in DOMAIN Queues[x] /\ e.frame = received[Collector][j]
    BY <1>1, <2>1, QueuesHold, PacketsAre
  <2>3. d \in W /\ e \in W /\ RouteOK(x, d) /\ RouteOK(x, e)
    BY <1>2, <1>3, <2>1, <2>2 DEF AllRouted
  <2>4. i \in Nat /\ j \in Nat
    <3>1. Queues[x] \in Seq(Items)
      BY <1>3, <2>1
    <3> QED BY <2>2, <3>1, LenProperties
  <2> HIDE DEF d, e
  <2>5. IsReport(d) /\ Maker(d) = s /\ IsReport(e) /\ Maker(e) = s
    <3>1. \A f \in Made(s) : f.report # NoReport /\ f.report.switch = s
      BY <1>4 DEF IsReport, Maker
    <3> QED BY <1>11, <2>2, <3>1 DEF IsReport, Maker
  <2>6. SameMaker(d, e) /\ SameMaker(e, d) /\ d \in Items /\ e \in Items
    BY <1>3, <2>3, <2>5 DEF SameMaker
  <2>7. Number(d) \in Nat /\ Number(e) \in Nat /\ Len(d.frame.path) \in Nat /\ Len(e.frame.path) \in Nat
    BY <2>5, <2>6, ReportFields
  <2>8. Stage(x, d) = Stage(x, e)
    <3>1. Len(d.frame.path) <= Len(e.frame.path)
      BY <2>1, <2>3, <2>6, HostIsLast
    <3>2. Len(e.frame.path) <= Len(d.frame.path)
      BY <2>1, <2>3, <2>6, HostIsLast
    <3>3. Len(d.frame.path) = Len(e.frame.path)
      BY <2>7, <3>1, <3>2
    <3> QED BY <3>3 DEF Stage
  <2>9. Number(d) # Number(e)
    <3> SUFFICES ASSUME Number(d) = Number(e) PROVE FALSE
      OBVIOUS
    <3>1. d = e
      BY <1>2, <2>3, <2>6 DEF Numbered
    <3>2. i = j
      BY <1>3, <2>1, <2>2, <3>1 DEF Distinct, d, e
    <3> QED BY <1>11, <2>4, <3>2
  <2>10. ~(Number(e) < Number(d))
    <3> SUFFICES ASSUME Number(e) < Number(d) PROVE FALSE
      OBVIOUS
    <3>1. Before(x, j, e, x, i, d)
      BY <1>2, <2>1, <2>2, InOrderIs DEF d, e
    <3>2. Stage(x, d) \in Nat
      BY <2>7, StageIs
    <3>3. j < i
      BY <2>6, <2>8, <3>1, <3>2 DEF Before
    <3> QED BY <1>11, <2>4, <3>3
  <2>11. Number(d) < Number(e)
    BY <2>7, <2>9, <2>10
  <2> QED BY <2>2, <2>11 DEF Number
<1>12. \A i, j \in DOMAIN received[Collector] :
         LET f == received[Collector][i]  g == received[Collector][j] IN
         i < j /\ {f, g} \subseteq Made(s) => f.report.seq < g.report.seq
  BY <1>11
<1> QED BY <1>9, <1>10, <1>12

\* The numbers in the reports of a switch find the losses: they are those the
\* switch gave out, each in one report, and the collector gets them in order,
\* whatever other switches do with the reports on the way.
THEOREM SequenceNumbersFindLosses == Spec => []SeqFindsLosses
<1>1. OrderInv => SeqFindsLosses
  BY ReportsAreNumbered
<1> QED BY <1>1, OrderAlways, PTL
=============================================================================
