--------------------------- MODULE CollectorProofs ---------------------------
(***************************************************************************)
(* Theorems about module Collector, for any number of packets and signals  *)
(* and any choice of the threads that may run the handler.                 *)
(***************************************************************************)
EXTENDS Collector, SharedLemmas

\* What a control point says of the buffers and of the other threads.
ControlInv ==
  /\ mpc \notin {"check", "recv", "put", "post"} => terminate
  /\ mpc \in {"join_exporter", "join_periodic"} \cup Freeing => ppc = "done"
  /\ mpc \in {"join_periodic"} \cup Freeing => xpc = "done"
  /\ IF mpc = "put" THEN mbuf \in Packets ELSE mbuf = None
  /\ IF ppc \in {"parse", "put"} THEN pbuf \in Packets ELSE pbuf = None
  /\ ppc = "put" => IsReport(pbuf)
  /\ IF xpc = "export" THEN xbuf \in Packets ELSE xbuf = None

One(b) == IF b THEN 1 ELSE 0

\* The tokens of a queue, with the one its consumer has in hand and the post
\* its producer still owes.
ParserTokens == psem + One(ppc = "take") + One(mpc = "post")
ExporterTokens == esem + One(xpc = "take") + One(ppc = "post")

\* There is a token for each element, no other before a signal, and one more
\* from the shutdown on, until the consumer has seen `terminate`.  A consumer
\* that took the element of a push without its token is past its last wait.
TokenInv ==
  /\ ParserTokens >= Len(pq) /\ ExporterTokens >= Len(eq)
  /\ ~terminate => ParserTokens = Len(pq) /\ ExporterTokens = Len(eq)
  /\ mpc \in {"wake_exporter"} \cup Joining /\ ppc \notin {"check", "done"} =>
       ParserTokens > Len(pq)
  /\ mpc \in Joining /\ xpc \notin {"check", "done"} => ExporterTokens > Len(eq)
  /\ ppc = "post" /\ eq = <<>> => xpc \notin {"wait", "take"}

SafetyInv == TypeOK /\ ControlInv /\ TokenInv

------------------------------------------------------------------------------
(* The reports of a sequence of packets. *)

IsKept(s, n, f) ==
  f = [k \in 0..n |-> IF k = 0 THEN <<>>
                      ELSE IF IsReport(s[k]) THEN Append(f[k - 1], s[k]) ELSE f[k - 1]]

\* The recursion of Reports defines a function.
LEMMA KeptExists ==
  ASSUME NEW s
  PROVE  \A n \in Nat : \E f : IsKept(s, n, f)
<1> DEFINE N == {n \in Nat : \E f : IsKept(s, n, f)}
<1>1. 0 \in N
  <2>1. IsKept(s, 0, [k \in 0..0 |-> <<>>])
    BY DEF IsKept
  <2> QED BY <2>1
<1>2. ASSUME NEW n \in Nat, n \in N PROVE n + 1 \in N
  <2>1. PICK f : IsKept(s, n, f)
    BY <1>2
  <2>2. \A k \in 0..n : f[k] = IF k = 0 THEN <<>>
                               ELSE IF IsReport(s[k]) THEN Append(f[k - 1], s[k]) ELSE f[k - 1]
    BY <2>1 DEF IsKept
  <2> DEFINE g == [k \in 0..(n + 1) |->
                     IF k <= n THEN f[k]
                     ELSE IF IsReport(s[k]) THEN Append(f[n], s[k]) ELSE f[n]]
  <2>3. ASSUME NEW k \in 0..(n + 1)
        PROVE  g[k] = IF k = 0 THEN <<>>
                      ELSE IF IsReport(s[k]) THEN Append(g[k - 1], s[k]) ELSE g[k - 1]
    <3>1. CASE k = 0
      BY <2>2, <3>1
    <3>2. CASE k \in 1..n
      <4>1. g[k] = f[k] /\ g[k - 1] = f[k - 1]
        BY <3>2
      <4> QED BY <2>2, <3>2, <4>1
    <3>3. CASE k = n + 1
      BY <3>3
    <3> QED BY <3>1, <3>2, <3>3
  <2>4. g = [k \in 0..(n + 1) |-> g[k]]
    OBVIOUS
  <2> HIDE DEF g
  <2>5. IsKept(s, n + 1, g)
    BY <2>3, <2>4, Zenon DEF IsKept
  <2> QED BY <2>5
<1>3. \A n \in Nat : n \in N
  <2> HIDE DEF N
  <2> QED BY <1>1, <1>2, NaturalsBySteps
<1> QED BY <1>3

Kept(s) == CHOOSE f : IsKept(s, Len(s), f)

LEMMA KeptRecursion ==
  ASSUME NEW s \in Seq(Packets)
  PROVE  /\ Reports(s) = Kept(s)[Len(s)]
         /\ \A k \in 0..Len(s) :
              Kept(s)[k] = IF k = 0 THEN <<>>
                           ELSE IF IsReport(s[k]) THEN Append(Kept(s)[k - 1], s[k])
                           ELSE Kept(s)[k - 1]
<1>1. Reports(s) = Kept(s)[Len(s)]
  BY DEF Reports, Kept, IsKept
<1>2. IsKept(s, Len(s), Kept(s))
  BY KeptExists, LenProperties DEF Kept
<1> QED BY <1>1, <1>2 DEF IsKept

LEMMA ReportsOfEmpty == Reports(<<>>) = <<>>
<1> DEFINE e == <<>>
<1>1. e \in Seq(Packets) /\ Len(e) = 0 /\ 0 \in 0..Len(e)
  BY EmptySeq
<1> HIDE DEF e
<1>2. Reports(e) = Kept(e)[Len(e)]
  BY <1>1, KeptRecursion
<1>3. Kept(e)[0] = <<>>
  BY <1>1, KeptRecursion, Zenon
<1> QED BY <1>1, <1>2, <1>3 DEF e

\* What is kept depends on the part of the sequence read.
LEMMA KeptPrefix ==
  ASSUME NEW s \in Seq(Packets), NEW t \in Seq(Packets), Len(s) <= Len(t),
         \A k \in 1..Len(s) : s[k] = t[k]
  PROVE  Kept(t)[Len(s)] = Reports(s)
<1> DEFINE N == {n \in Nat : n <= Len(s) => Kept(t)[n] = Kept(s)[n]}
<1>0. Len(s) \in Nat /\ Len(t) \in Nat
  BY LenProperties
<1>1. 0 \in N
  BY <1>0, KeptRecursion
<1>2. ASSUME NEW n \in Nat, n \in N PROVE n + 1 \in N
  <2> SUFFICES ASSUME n + 1 <= Len(s) PROVE Kept(t)[n + 1] = Kept(s)[n + 1]
    OBVIOUS
  <2>1. n + 1 \in 1..Len(s) /\ n + 1 \in 0..Len(s) /\ n + 1 \in 0..Len(t) /\ n + 1 # 0
        /\ (n + 1) - 1 = n
    BY <1>0
  <2>2. Kept(t)[n] = Kept(s)[n]
    BY <1>2, <1>0
  <2>3. s[n + 1] = t[n + 1]
    BY <2>1
  <2> QED BY <2>1, <2>2, <2>3, KeptRecursion
<1>3. \A n \in Nat : n \in N
  <2> HIDE DEF N
  <2> QED BY <1>1, <1>2, NaturalsBySteps
<1> QED BY <1>0, <1>3, KeptRecursion

\* Reports follows the end of a sequence.
LEMMA ReportsOfAppend ==
  ASSUME NEW s \in Seq(Packets), NEW p \in Packets
  PROVE  Reports(Append(s, p)) = IF IsReport(p) THEN Append(Reports(s), p) ELSE Reports(s)
<1> DEFINE t == Append(s, p)
<1>1. /\ t \in Seq(Packets) /\ Len(t) = Len(s) + 1 /\ Len(s) \in Nat
      /\ \A k \in 1..Len(s) : t[k] = s[k]
      /\ t[Len(s) + 1] = p
  BY AppendProperties, LenProperties
<1> HIDE DEF t
<1>2. Reports(t) = IF IsReport(p) THEN Append(Kept(t)[Len(s)], p) ELSE Kept(t)[Len(s)]
  <2>1. Len(t) \in 0..Len(t) /\ Len(t) # 0 /\ Len(t) - 1 = Len(s)
    BY <1>1
  <2> QED BY <1>1, <2>1, KeptRecursion
<1>3. Kept(t)[Len(s)] = Reports(s)
  BY <1>1, KeptPrefix
<1> QED BY <1>2, <1>3 DEF t

LEMMA ReportsType ==
  ASSUME NEW s \in Seq(Packets)
  PROVE  Reports(s) \in Seq(Packets)
<1> DEFINE S == {x \in Seq(Packets) : Reports(x) \in Seq(Packets)}
<1>1. <<>> \in S
  <2>1. <<>> \in Seq(Packets)
    BY EmptySeq
  <2>2. Reports(<<>>) = <<>>
    BY <2>1, ReportsOfEmpty
  <2> QED BY <2>1, <2>2
<1>2. ASSUME NEW x \in Seq(Packets), NEW p \in Packets, x \in S
      PROVE  Append(x, p) \in S
  BY <1>2, ReportsOfAppend, AppendProperties
<1>3. \A x \in Seq(Packets) : x \in S
  <2> HIDE DEF S
  <2> QED BY <1>1, <1>2, SequencesBySteps
<1> QED BY <1>3

\* Reports of one packet, of a concatenation, and of what follows the head.
LEMMA ReportsOfOne ==
  ASSUME NEW p \in Packets
  PROVE  Reports(<<p>>) = IF IsReport(p) THEN <<p>> ELSE <<>>
<1>1. <<>> \in Seq(Packets) /\ Append(<<>>, p) = <<p>>
  BY EmptySeq
<1>2. Reports(Append(<<>>, p)) = IF IsReport(p) THEN Append(Reports(<<>>), p) ELSE Reports(<<>>)
  BY <1>1, ReportsOfAppend
<1> QED BY <1>1, <1>2, ReportsOfEmpty

LEMMA ReportsOfConcat ==
  ASSUME NEW s \in Seq(Packets), NEW t \in Seq(Packets)
  PROVE  Reports(s \o t) = Reports(s) \o Reports(t)
<1> DEFINE S == {x \in Seq(Packets) : Reports(s \o x) = Reports(s) \o Reports(x)}
<1>1. <<>> \in S
  <2>1. <<>> \in Seq(Packets)
    BY EmptySeq
  <2>2. s \o <<>> = s /\ Reports(s) \o <<>> = Reports(s)
    BY ReportsType, ConcatEmptySeq
  <2> QED BY <2>1, <2>2, ReportsOfEmpty
<1>2. ASSUME NEW x \in Seq(Packets), NEW p \in Packets, x \in S
      PROVE  Append(x, p) \in S
  <2>1. Append(x, p) \in Seq(Packets)
    BY AppendProperties
  <2>2. s \o Append(x, p) = Append(s \o x, p)
    BY AppendConcat
  <2>3. Reports(s \o Append(x, p))
          = IF IsReport(p) THEN Append(Reports(s) \o Reports(x), p) ELSE Reports(s) \o Reports(x)
    BY <1>2, <2>2, ReportsOfAppend, ConcatProperties
  <2>4. Reports(s) \o Append(Reports(x), p) = Append(Reports(s) \o Reports(x), p)
    <3>1. ASSUME NEW a \in Seq(Packets), NEW b \in Seq(Packets)
          PROVE  a \o Append(b, p) = Append(a \o b, p)
      BY AppendConcat
    <3>2. Reports(s) \in Seq(Packets) /\ Reports(x) \in Seq(Packets)
      BY ReportsType
    <3> QED BY <3>1, <3>2
  <2> QED BY <2>1, <2>3, <2>4, ReportsOfAppend
<1>3. \A x \in Seq(Packets) : x \in S
  <2> HIDE DEF S
  <2> QED BY <1>1, <1>2, SequencesBySteps
<1> QED BY <1>3

LEMMA ReportsOfHead ==
  ASSUME NEW s \in Seq(Packets), s # <<>>
  PROVE  Reports(s) = Reports(<<Head(s)>>) \o Reports(Tail(s))
<1>1. /\ Head(s) \in Packets /\ Tail(s) \in Seq(Packets) /\ <<Head(s)>> \in Seq(Packets)
  BY HeadTailProperties
<1>2. s = <<Head(s)>> \o Tail(s)
  BY HeadThenTail
<1> QED BY <1>1, <1>2, ReportsOfConcat

------------------------------------------------------------------------------
(* Types *)

LEMMA FirstAndRest ==
  ASSUME NEW s \in Seq(Packets), s # <<>>
  PROVE  /\ Head(s) \in Packets /\ Tail(s) \in Seq(Packets)
         /\ Len(Tail(s)) = Len(s) - 1 /\ Len(s) \in Nat \ {0}
BY HeadTailProperties, LenProperties, EmptySeq

LEMMA SafetyInit == Init => SafetyInv
<1> SUFFICES ASSUME Init PROVE SafetyInv
  OBVIOUS
<1> USE CollectorAssumption DEF CollectorAssumption, Init, PQ!Init, EQ!Init
<1>1. TypeOK
  <2>1. <<>> \in Seq(Packets)
    BY EmptySeq
  <2>2. /\ net \in Seq(Packets) /\ pq \in Seq(Packets) /\ eq \in Seq(Packets)
        /\ received \in Seq(Packets) /\ exported \in Seq(Packets)
    BY <2>1
  <2>3. arrived \in 0..MaxPackets /\ signals \in 0..MaxSignals /\ psem \in Nat /\ esem \in Nat
    OBVIOUS
  <2>4. leaked \subseteq 1..MaxPackets /\ mbuf = None /\ pbuf = None /\ xbuf = None
    OBVIOUS
  <2>5. terminate \in BOOLEAN /\ mpc = "check" /\ ppc = "check" /\ xpc = "check" /\ tpc = "check"
    OBVIOUS
  <2> HIDE DEF Init, PQ!Init, EQ!Init
  <2> QED BY <2>2, <2>3, <2>4, <2>5 DEF TypeOK, Joining, Freeing
<1>2. ControlInv
  BY DEF ControlInv, Joining, Freeing
<1>3. TokenInv
  BY EmptySeq DEF TokenInv, ParserTokens, ExporterTokens, One, Joining
<1> QED BY <1>1, <1>2, <1>3 DEF SafetyInv

LEMMA TypeStep == TypeOK /\ ControlInv /\ [Next]_vars => TypeOK'
<1>0. SUFFICES ASSUME TypeOK, ControlInv, [Next]_vars PROVE TypeOK'
  OBVIOUS
<1> TypeOK /\ ControlInv
  BY <1>0
<1> USE CollectorAssumption
    DEF CollectorAssumption, TypeOK, Joining, Freeing, mvars, pvars, xvars, queues, inputs, history
<1>1. CASE Arrive
  <2>1. PICK c \in Classes : net' = Append(net, [id |-> arrived + 1, class |-> c])
    BY <1>1 DEF Arrive
  <2>2. arrived + 1 \in 1..MaxPackets /\ arrived' = arrived + 1
    BY <1>1 DEF Arrive
  <2>3. [id |-> arrived + 1, class |-> c] \in Packets
    BY <2>2 DEF Packets
  <2>4. net' \in Seq(Packets)
    BY <2>1, <2>3, AppendProperties
  <2> QED BY <1>1, <2>2, <2>4 DEF Arrive
<1>2. CASE Signal
  BY <1>2 DEF Signal, Interrupt
<1>3. CASE MainCheck
  BY <1>3 DEF MainCheck
<1>4. CASE MainRecv
  <2>1. Head(net) \in Packets /\ Tail(net) \in Seq(Packets)
    BY <1>4, HeadTailProperties DEF MainRecv
  <2>2. received' \in Seq(Packets)
    BY <1>4, <2>1, AppendProperties DEF MainRecv
  <2> QED BY <1>4, <2>1, <2>2 DEF MainRecv
<1>5. CASE MainPut
  <2>1. pq' \in Seq(Packets) /\ psem' = psem
    BY <1>5, AppendProperties DEF MainPut, PQ!Put, ControlInv
  <2> QED BY <1>5, <2>1 DEF MainPut
<1>6. CASE MainPost
  BY <1>6 DEF MainPost, PQ!Post
<1>7. CASE MainWakeParser
  BY <1>7 DEF MainWakeParser, PQ!Post
<1>8. CASE MainWakeExporter
  BY <1>8 DEF MainWakeExporter, EQ!Post
<1>9. CASE MainJoin
  BY <1>9 DEF MainJoin
<1>10. CASE MainFreeParserQueue
  <2>1. pq' \in Seq(Packets) /\ psem' \in Nat
    <3>1. CASE pq # <<>>
      <4>1. psem > 0 /\ psem' = psem - 1 /\ pq' = Tail(pq)
        BY <1>10, <3>1 DEF MainFreeParserQueue
      <4> QED BY <3>1, <4>1, FirstAndRest
    <3>2. CASE pq = <<>>
      BY <1>10, <3>2 DEF MainFreeParserQueue
    <3> QED BY <3>1, <3>2
  <2> QED BY <1>10, <2>1 DEF MainFreeParserQueue
<1>11. CASE MainFreeExporterQueue
  <2>1. eq' \in Seq(Packets) /\ esem' \in Nat
    <3>1. CASE eq # <<>>
      <4>1. esem > 0 /\ esem' = esem - 1 /\ eq' = Tail(eq)
        BY <1>11, <3>1 DEF MainFreeExporterQueue
      <4> QED BY <3>1, <4>1, FirstAndRest
    <3>2. CASE eq = <<>>
      BY <1>11, <3>2 DEF MainFreeExporterQueue
    <3> QED BY <3>1, <3>2
  <2> QED BY <1>11, <2>1 DEF MainFreeExporterQueue
<1>12. CASE ParserCheck
  BY <1>12 DEF ParserCheck
<1>13. CASE ParserWait
  BY <1>13 DEF ParserWait, PQ!Wait
<1>14. CASE ParserTake
  <2>1. pq' \in Seq(Packets) /\ psem' = psem /\ pbuf' \in Packets \cup {None}
    <3>1. CASE pq # <<>>
      BY <1>14, <3>1, FirstAndRest DEF ParserTake, PQ!TakeOne, PQ!TakeNone
    <3>2. CASE pq = <<>>
      BY <1>14, <3>2 DEF ParserTake, PQ!TakeOne, PQ!TakeNone, PQ!qvars
    <3> QED BY <3>1, <3>2
  <2> QED BY <1>14, <2>1 DEF ParserTake
<1>15. CASE ParserParse
  <2>1. pbuf.id \in 1..MaxPackets
    BY <1>15 DEF ParserParse, ControlInv, Packets
  <2>2. ppc' \in {"put", "check"} /\ pbuf' \in Packets \cup {None} /\ leaked' \subseteq 1..MaxPackets
    <3>1. CASE pbuf.class = "report"
      BY <1>15, <3>1 DEF ParserParse
    <3>2. CASE pbuf.class # "report"
      <4>1. ppc' = "check" /\ pbuf' = None /\ leaked' \in {leaked, leaked \cup {pbuf.id}}
        BY <1>15, <3>2 DEF ParserParse
      <4> QED BY <2>1, <4>1
    <3> QED BY <3>1, <3>2
  <2>3. UNCHANGED <<mvars, xvars, tpc, queues, inputs, received, exported>>
    BY <1>15 DEF ParserParse
  <2> QED BY <2>2, <2>3
<1>16. CASE ParserPut
  <2>1. eq' \in Seq(Packets) /\ esem' = esem
    BY <1>16, AppendProperties DEF ParserPut, EQ!Put, ControlInv
  <2> QED BY <1>16, <2>1 DEF ParserPut
<1>17. CASE ParserPost
  BY <1>17 DEF ParserPost, EQ!Post
<1>18. CASE ExporterCheck
  BY <1>18 DEF ExporterCheck
<1>19. CASE ExporterWait
  BY <1>19 DEF ExporterWait, EQ!Wait
<1>20. CASE ExporterTake
  <2>1. eq' \in Seq(Packets) /\ esem' = esem /\ xbuf' \in Packets \cup {None}
    <3>1. CASE eq # <<>>
      BY <1>20, <3>1, FirstAndRest DEF ExporterTake, EQ!TakeOne, EQ!TakeNone
    <3>2. CASE eq = <<>>
      BY <1>20, <3>2 DEF ExporterTake, EQ!TakeOne, EQ!TakeNone, EQ!qvars
    <3> QED BY <3>1, <3>2
  <2> QED BY <1>20, <2>1 DEF ExporterTake
<1>21. CASE ExporterExport
  <2>1. exported' \in Seq(Packets)
    BY <1>21, AppendProperties DEF ExporterExport, ControlInv
  <2> QED BY <1>21, <2>1 DEF ExporterExport
<1>22. CASE Periodic
  BY <1>22 DEF Periodic
<1>23. CASE UNCHANGED vars
  BY <1>23 DEF vars
<1>24. CASE MainRecvNothing
  <2>1. Tail(net) \in Seq(Packets)
    BY <1>24, HeadTailProperties DEF MainRecvNothing
  <2> QED BY <1>24, <2>1 DEF MainRecvNothing
<1> QED BY <1>0, <1>1, <1>2, <1>3, <1>4, <1>5, <1>6, <1>7, <1>8, <1>9, <1>10, <1>11, <1>12, <1>13,
           <1>14, <1>15, <1>16, <1>17, <1>18, <1>19, <1>20, <1>21, <1>22, <1>23, <1>24
        DEF Next, Main, Parser, Exporter
LEMMA ControlStep == SafetyInv /\ [Next]_vars => ControlInv'
<1>0. SUFFICES ASSUME SafetyInv, [Next]_vars PROVE ControlInv'
  OBVIOUS
<1> TypeOK /\ ControlInv /\ TokenInv
  BY <1>0 DEF SafetyInv
<1> USE DEF ControlInv, Joining, Freeing, mvars, pvars, xvars, queues, inputs, history
<1>1. CASE Arrive
  BY <1>1 DEF Arrive
<1>2. CASE Signal
  BY <1>2 DEF Signal, Interrupt
<1>3. CASE MainCheck
  BY <1>3 DEF MainCheck
<1>4. CASE MainRecv
  <2>1. mbuf' \in Packets
    BY <1>4, FirstAndRest DEF MainRecv, TypeOK
  <2> QED BY <1>4, <2>1 DEF MainRecv
<1>5. CASE MainPut
  BY <1>5 DEF MainPut, PQ!Put
<1>6. CASE MainPost
  BY <1>6 DEF MainPost, PQ!Post
<1>7. CASE MainWakeParser
  BY <1>7 DEF MainWakeParser, PQ!Post
<1>8. CASE MainWakeExporter
  BY <1>8 DEF MainWakeExporter, EQ!Post
<1>9. CASE MainJoin
  BY <1>9 DEF MainJoin
<1>10. CASE MainFreeParserQueue
  BY <1>10 DEF MainFreeParserQueue
<1>11. CASE MainFreeExporterQueue
  BY <1>11 DEF MainFreeExporterQueue
<1>12. CASE ParserCheck
  BY <1>12 DEF ParserCheck
<1>13. CASE ParserWait
  BY <1>13 DEF ParserWait, PQ!Wait
<1>14. CASE ParserTake
  <2>1. pq # <<>> => Head(pq) \in Packets
    BY FirstAndRest DEF TypeOK
  <2> QED BY <1>14, <2>1 DEF ParserTake, PQ!TakeOne, PQ!TakeNone, PQ!qvars
<1>15. CASE ParserParse
  BY <1>15 DEF ParserParse, IsReport
<1>16. CASE ParserPut
  BY <1>16 DEF ParserPut, EQ!Put
<1>17. CASE ParserPost
  BY <1>17 DEF ParserPost, EQ!Post
<1>18. CASE ExporterCheck
  BY <1>18 DEF ExporterCheck
<1>19. CASE ExporterWait
  BY <1>19 DEF ExporterWait, EQ!Wait
<1>20. CASE ExporterTake
  <2>1. eq # <<>> => Head(eq) \in Packets
    BY FirstAndRest DEF TypeOK
  <2> QED BY <1>20, <2>1 DEF ExporterTake, EQ!TakeOne, EQ!TakeNone, EQ!qvars
<1>21. CASE ExporterExport
  BY <1>21 DEF ExporterExport
<1>22. CASE Periodic
  BY <1>22 DEF Periodic
<1>23. CASE UNCHANGED vars
  BY <1>23 DEF vars
<1>24. CASE MainRecvNothing
  BY <1>24 DEF MainRecvNothing
<1> QED BY <1>0, <1>1, <1>2, <1>3, <1>4, <1>5, <1>6, <1>7, <1>8, <1>9, <1>10, <1>11,
           <1>12, <1>13, <1>14, <1>15, <1>16, <1>17, <1>18, <1>19, <1>20, <1>21, <1>22,
           <1>23, <1>24
        DEF Next, Main, Parser, Exporter

LEMMA TokenStep == SafetyInv /\ [Next]_vars => TokenInv'
<1>0. SUFFICES ASSUME SafetyInv, [Next]_vars PROVE TokenInv'
  OBVIOUS
<1> TypeOK /\ ControlInv /\ TokenInv
  BY <1>0 DEF SafetyInv
<1>len. Len(pq) \in Nat /\ Len(eq) \in Nat /\ psem \in Nat /\ esem \in Nat
  BY LenProperties DEF TypeOK
<1> USE DEF TokenInv, ParserTokens, ExporterTokens, One, Joining, Freeing,
            mvars, pvars, xvars, queues, inputs, history
<1>1. CASE Arrive
  BY <1>1, <1>len DEF Arrive, ControlInv
<1>2. CASE Signal
  BY <1>2, <1>len DEF Signal, ControlInv, Interrupt
<1>3. CASE MainCheck
  BY <1>3, <1>len DEF MainCheck, ControlInv
<1>4. CASE MainRecv
  BY <1>4, <1>len DEF MainRecv, ControlInv
<1>5. CASE MainPut
  BY <1>5, <1>len DEF MainPut, ControlInv, PQ!Put
<1>6. CASE MainPost
  BY <1>6, <1>len DEF MainPost, ControlInv, PQ!Post
<1>7. CASE MainWakeParser
  BY <1>7, <1>len DEF MainWakeParser, ControlInv, PQ!Post
<1>8. CASE MainWakeExporter
  BY <1>8, <1>len DEF MainWakeExporter, ControlInv, EQ!Post
<1>9. CASE MainJoin
  BY <1>9, <1>len DEF MainJoin, ControlInv
<1>10. CASE MainFreeParserQueue
  BY <1>10, <1>len DEF MainFreeParserQueue, ControlInv
<1>11. CASE MainFreeExporterQueue
  BY <1>11, <1>len DEF MainFreeExporterQueue, ControlInv
<1>12. CASE ParserCheck
  BY <1>12, <1>len DEF ParserCheck, ControlInv
<1>13. CASE ParserWait
  BY <1>13, <1>len DEF ParserWait, ControlInv, PQ!Wait
<1>14. CASE ParserTake
  BY <1>14, <1>len DEF ParserTake, ControlInv, PQ!TakeOne, PQ!TakeNone, PQ!qvars
<1>15. CASE ParserParse
  BY <1>15, <1>len DEF ParserParse, ControlInv
<1>16. CASE ParserPut
  BY <1>16, <1>len DEF ParserPut, ControlInv, EQ!Put
<1>17. CASE ParserPost
  BY <1>17, <1>len DEF ParserPost, ControlInv, EQ!Post
<1>18. CASE ExporterCheck
  BY <1>18, <1>len DEF ExporterCheck, ControlInv
<1>19. CASE ExporterWait
  BY <1>19, <1>len DEF ExporterWait, ControlInv, EQ!Wait
<1>20. CASE ExporterTake
  BY <1>20, <1>len DEF ExporterTake, ControlInv, EQ!TakeOne, EQ!TakeNone, EQ!qvars
<1>21. CASE ExporterExport
  BY <1>21, <1>len DEF ExporterExport, ControlInv
<1>22. CASE Periodic
  BY <1>22, <1>len DEF Periodic, ControlInv
<1>23. CASE UNCHANGED vars
  BY <1>23 DEF vars
<1>24. CASE MainRecvNothing
  BY <1>24, <1>len DEF MainRecvNothing, ControlInv
<1> QED BY <1>0, <1>1, <1>2, <1>3, <1>4, <1>5, <1>6, <1>7, <1>8, <1>9, <1>10, <1>11,
           <1>12, <1>13, <1>14, <1>15, <1>16, <1>17, <1>18, <1>19, <1>20, <1>21, <1>22,
           <1>23, <1>24
        DEF Next, Main, Parser, Exporter

LEMMA SafetyStep == SafetyInv /\ [Next]_vars => SafetyInv'
BY TypeStep, ControlStep, TokenStep DEF SafetyInv

------------------------------------------------------------------------------
(* The pipeline: each step moves a report from one place to the next. *)

LEMMA HeldPacket ==
  /\ Held(None) = <<>>
  /\ \A p \in Packets : Held(p) = <<p>>
<1>1. ASSUME NEW p \in Packets PROVE p # None
  BY CollectorAssumption DEF CollectorAssumption, Packets, None
<1> QED BY <1>1 DEF Held

LEMMA HeldType ==
  ASSUME NEW p \in Packets \cup {None}
  PROVE  Held(p) \in Seq(Packets)
<1>1. CASE p = None
  <2>1. <<>> \in Seq(Packets)
    BY EmptySeq
  <2> QED BY <1>1, <2>1, HeldPacket
<1>2. CASE p \in Packets
  <2>1. <<p>> \in Seq(Packets)
    BY <1>2
  <2> QED BY <1>2, <2>1, HeldPacket
<1> QED BY <1>1, <1>2

\* What follows the exporter's hands, and what is behind the parser's.
Pipeline == exported \o Held(xbuf) \o eq \o Reports(Held(pbuf)) \o Reports(pq) \o Reports(Held(mbuf))

LEMMA PipelineTypes ==
  ASSUME TypeOK
  PROVE  /\ exported \in Seq(Packets) /\ Held(xbuf) \in Seq(Packets) /\ eq \in Seq(Packets)
         /\ Reports(Held(pbuf)) \in Seq(Packets) /\ Reports(pq) \in Seq(Packets)
         /\ Reports(Held(mbuf)) \in Seq(Packets)
         /\ exported \o Held(xbuf) \in Seq(Packets)
         /\ exported \o Held(xbuf) \o eq \in Seq(Packets)
         /\ exported \o Held(xbuf) \o eq \o Reports(Held(pbuf)) \in Seq(Packets)
         /\ exported \o Held(xbuf) \o eq \o Reports(Held(pbuf)) \o Reports(pq) \in Seq(Packets)
<1> USE DEF TypeOK
<1>1. /\ exported \in Seq(Packets) /\ Held(xbuf) \in Seq(Packets) /\ eq \in Seq(Packets)
      /\ Held(pbuf) \in Seq(Packets) /\ pq \in Seq(Packets) /\ Held(mbuf) \in Seq(Packets)
  BY HeldType
<1>2. /\ Reports(Held(pbuf)) \in Seq(Packets) /\ Reports(pq) \in Seq(Packets)
      /\ Reports(Held(mbuf)) \in Seq(Packets)
  BY <1>1, ReportsType
<1>3. exported \o Held(xbuf) \in Seq(Packets)
  BY <1>1, ConcatProperties
<1>4. exported \o Held(xbuf) \o eq \in Seq(Packets)
  BY <1>1, <1>3, ConcatProperties
<1>5. exported \o Held(xbuf) \o eq \o Reports(Held(pbuf)) \in Seq(Packets)
  BY <1>2, <1>4, ConcatProperties
<1>6. exported \o Held(xbuf) \o eq \o Reports(Held(pbuf)) \o Reports(pq) \in Seq(Packets)
  BY <1>2, <1>5, ConcatProperties
<1> QED BY <1>1, <1>2, <1>3, <1>4, <1>5, <1>6

LEMMA PipelineInit == Init => PipelineKeepsReports
<1> SUFFICES ASSUME Init PROVE Reports(received) = Pipeline
  BY DEF PipelineKeepsReports, Pipeline
<1>1. /\ received = <<>> /\ exported = <<>> /\ eq = <<>> /\ pq = <<>>
      /\ mbuf = None /\ pbuf = None /\ xbuf = None
  BY DEF Init, PQ!Init, EQ!Init
<1>2. Pipeline = <<>> \o <<>> \o <<>> \o <<>> \o <<>> \o <<>>
  BY <1>1, HeldPacket, ReportsOfEmpty DEF Pipeline
<1>3. <<>> \o <<>> = <<>>
  BY ConcatEmptySeq, EmptySeq
<1> QED BY <1>1, <1>2, <1>3, ReportsOfEmpty

LEMMA PipelineStep == SafetyInv /\ PipelineKeepsReports /\ [Next]_vars => PipelineKeepsReports'
<1>0. SUFFICES ASSUME SafetyInv, PipelineKeepsReports, [Next]_vars, mpc' \notin Freeing
               PROVE  Reports(received)' = Pipeline'
  BY DEF PipelineKeepsReports, Pipeline
<1> DEFINE b == Held(xbuf)  d == Reports(Held(pbuf))  e == Reports(pq)  f == Reports(Held(mbuf))
           ab == exported \o b  abc == ab \o eq  abcd == abc \o d  abcde == abcd \o e
<1>a. TypeOK /\ ControlInv /\ TypeOK'
  BY <1>0, TypeStep DEF SafetyInv
<1>b. mpc \notin Freeing
  BY <1>0 DEF Next, Arrive, Signal, Interrupt, Main, MainCheck, MainRecv, MainRecvNothing, MainPut, MainPost,
              MainWakeParser, MainWakeExporter, MainJoin, MainFreeParserQueue,
              MainFreeExporterQueue, Parser, ParserCheck, ParserWait, ParserTake, ParserParse,
              ParserPut, ParserPost, Exporter, ExporterCheck, ExporterWait, ExporterTake,
              ExporterExport, Periodic, Freeing, vars, mvars, inputs
<1>c. Reports(received) = abcde \o f
  BY <1>0, <1>b DEF PipelineKeepsReports
<1>d. /\ exported \in Seq(Packets) /\ b \in Seq(Packets) /\ eq \in Seq(Packets)
      /\ d \in Seq(Packets) /\ e \in Seq(Packets) /\ f \in Seq(Packets)
      /\ ab \in Seq(Packets) /\ abc \in Seq(Packets) /\ abcd \in Seq(Packets)
      /\ abcde \in Seq(Packets)
  BY <1>a, PipelineTypes, Zenon
<1>e. /\ exported' \in Seq(Packets) /\ b' \in Seq(Packets) /\ eq' \in Seq(Packets)
      /\ d' \in Seq(Packets) /\ e' \in Seq(Packets) /\ f' \in Seq(Packets)
  <2>1. ASSUME TypeOK' PROVE (TypeOK => /\ exported \in Seq(Packets) /\ b \in Seq(Packets)
                   /\ eq \in Seq(Packets) /\ d \in Seq(Packets) /\ e \in Seq(Packets)
                   /\ f \in Seq(Packets))'
    BY PipelineTypes, PTL
  <2> QED BY <1>a, <2>1
<1> HIDE DEF b, d, e, f, ab, abc, abcd, abcde
<1>f. ASSUME NEW g \in Seq(Packets), NEW u \in Seq(Packets), NEW v \in Seq(Packets)
      PROVE  (g \o u) \o v = g \o (u \o v)
  BY ConcatAssociative
<1>g. ASSUME NEW s \in Seq(Packets), NEW x \in Packets
      PROVE  Append(s, x) = s \o <<x>> /\ <<x>> \in Seq(Packets)
  BY AppendIsConcat
<1>h. received \in Seq(Packets) /\ pq \in Seq(Packets)
  BY <1>a DEF TypeOK
<1>1. CASE MainRecv
  <2>1. PICK h \in Packets : /\ h = Head(net) /\ mbuf = None /\ mbuf' = h
                             /\ received' = Append(received, h)
    BY <1>1, <1>a, FirstAndRest DEF MainRecv, ControlInv, TypeOK
  <2>2. f = <<>> /\ f' = Reports(<<h>>)
    BY <2>1, HeldPacket, ReportsOfEmpty DEF f
  <2>3. Reports(received') = Reports(received) \o f'
    <3>1. Append(received, h) = received \o <<h>> /\ <<h>> \in Seq(Packets)
      BY <1>g, <1>h
    <3>2. Reports(received \o <<h>>) = Reports(received) \o Reports(<<h>>)
      BY <1>h, <3>1, ReportsOfConcat
    <3> QED BY <2>1, <2>2, <3>1, <3>2
  <2>4. Reports(received) = abcde
    BY <1>c, <1>d, <2>2, ConcatEmptySeq
  <2>5. Pipeline' = abcde \o f'
    BY <1>1 DEF MainRecv, Pipeline, abcde, abcd, abc, ab, b, d, e, f, pvars, xvars, queues, Held
  <2> QED BY <2>3, <2>4, <2>5
<1>2. CASE MainPut
  <2>1. PICK p \in Packets : mbuf = p /\ mbuf' = None /\ pq' = Append(pq, p)
    BY <1>2, <1>a DEF MainPut, PQ!Put, ControlInv
  <2>2. f = Reports(<<p>>) /\ f' = <<>>
    BY <2>1, HeldPacket, ReportsOfEmpty DEF f
  <2>3. e' = e \o f
    <3>1. Append(pq, p) = pq \o <<p>> /\ <<p>> \in Seq(Packets)
      BY <1>g, <1>h
    <3>2. Reports(pq \o <<p>>) = Reports(pq) \o Reports(<<p>>)
      BY <1>h, <3>1, ReportsOfConcat
    <3> QED BY <2>1, <2>2, <3>1, <3>2 DEF e
  <2>4. e \o f = e' \o f'
    BY <1>e, <2>2, <2>3, ConcatEmptySeq
  <2>5. Pipeline' = abcd \o e' \o f' /\ received' = received
    BY <1>2 DEF MainPut, Pipeline, abcd, abc, ab, b, d, e, f, pvars, xvars, history, Held
  <2>6. abcd \o e \o f = abcd \o e' \o f'
    <3>1. abcd \o e \o f = abcd \o (e \o f)
      <4>1. abcd \in Seq(Packets) /\ e \in Seq(Packets) /\ f \in Seq(Packets)
        BY <1>d
      <4> QED BY <4>1, <1>f
    <3>2. abcd \o e' \o f' = abcd \o (e' \o f')
      <4>1. abcd \in Seq(Packets) /\ e' \in Seq(Packets) /\ f' \in Seq(Packets)
        BY <1>d, <1>e
      <4> QED BY <4>1, <1>f
    <3> QED BY <2>4, <3>1, <3>2
  <2> QED BY <1>c, <2>5, <2>6 DEF abcde
<1>3. CASE ParserTake /\ pq # <<>>
  <2>1. PICK p \in Packets : p = Head(pq) /\ pbuf = None /\ pbuf' = p /\ pq' = Tail(pq)
    BY <1>3, <1>a, FirstAndRest DEF ParserTake, PQ!TakeOne, PQ!TakeNone, ControlInv, TypeOK
  <2>2. d = <<>> /\ d' = Reports(<<p>>)
    BY <2>1, HeldPacket, ReportsOfEmpty DEF d
  <2>3. e = d' \o e'
    BY <1>a, <1>3, <2>1, <2>2, ReportsOfHead DEF TypeOK, e
  <2>4. d \o e = d' \o e'
    BY <1>d, <2>2, <2>3, ConcatEmptySeq
  <2>5. Pipeline' = abc \o d' \o e' \o f /\ received' = received
    BY <1>3 DEF ParserTake, Pipeline, abc, ab, b, d, e, f, mvars, xvars, history, Held
  <2>6. abc \o d \o e = abc \o d' \o e'
    <3>1. abc \o d \o e = abc \o (d \o e)
      <4>1. abc \in Seq(Packets) /\ d \in Seq(Packets) /\ e \in Seq(Packets)
        BY <1>d
      <4> QED BY <4>1, <1>f
    <3>2. abc \o d' \o e' = abc \o (d' \o e')
      <4>1. abc \in Seq(Packets) /\ d' \in Seq(Packets) /\ e' \in Seq(Packets)
        BY <1>d, <1>e
      <4> QED BY <4>1, <1>f
    <3> QED BY <2>4, <3>1, <3>2
  <2> QED BY <1>c, <2>5, <2>6 DEF abcde, abcd
<1>4. CASE ParserTake /\ pq = <<>>
  BY <1>4, <1>a, <1>c DEF ParserTake, PQ!TakeOne, PQ!TakeNone, PQ!qvars, Pipeline, ControlInv,
     abcde, abcd, abc, ab, b, d, e, f, mvars, xvars, history, Held
<1>5. CASE ParserParse
  <2>1. pbuf \in Packets
    BY <1>5, <1>a DEF ParserParse, ControlInv
  <2>2. d' = d
    <3>1. CASE IsReport(pbuf)
      BY <1>5, <3>1 DEF ParserParse, IsReport, d
    <3>2. CASE ~IsReport(pbuf)
      <4>1. d = <<>>
        BY <2>1, <3>2, HeldPacket, ReportsOfOne DEF d
      <4>2. pbuf' = None
        BY <1>5, <3>2 DEF ParserParse, IsReport
      <4> QED BY <4>1, <4>2, HeldPacket, ReportsOfEmpty DEF d
    <3> QED BY <3>1, <3>2
  <2> QED BY <1>5, <1>c, <2>2 DEF ParserParse, Pipeline, abcde, abcd, abc, ab, b, d, e, f,
             mvars, xvars, queues, Held
<1>6. CASE ParserPut
  <2>1. PICK p \in Packets : /\ pbuf = p /\ pbuf' = None /\ eq' = Append(eq, p)
                             /\ IsReport(p)
    BY <1>6, <1>a DEF ParserPut, EQ!Put, ControlInv
  <2>2. d = <<p>> /\ d' = <<>>
    BY <2>1, HeldPacket, ReportsOfOne, ReportsOfEmpty DEF d
  <2>3. eq' = eq \o d
    BY <1>d, <1>g, <2>1, <2>2
  <2>4. eq \o d = eq' \o d'
    BY <1>e, <2>2, <2>3, ConcatEmptySeq
  <2>5. Pipeline' = ab \o eq' \o d' \o e \o f /\ received' = received
    BY <1>6 DEF ParserPut, Pipeline, ab, b, d, e, f, mvars, xvars, history, Held
  <2>6. ab \o eq \o d = ab \o eq' \o d'
    <3>1. ab \o eq \o d = ab \o (eq \o d)
      <4>1. ab \in Seq(Packets) /\ eq \in Seq(Packets) /\ d \in Seq(Packets)
        BY <1>d
      <4> QED BY <4>1, <1>f
    <3>2. ab \o eq' \o d' = ab \o (eq' \o d')
      <4>1. ab \in Seq(Packets) /\ eq' \in Seq(Packets) /\ d' \in Seq(Packets)
        BY <1>d, <1>e
      <4> QED BY <4>1, <1>f
    <3> QED BY <2>4, <3>1, <3>2
  <2> QED BY <1>c, <2>5, <2>6 DEF abcde, abcd, abc
<1>7. CASE ExporterTake /\ eq # <<>>
  <2>1. PICK p \in Packets : p = Head(eq) /\ xbuf = None /\ xbuf' = p /\ eq' = Tail(eq)
    BY <1>7, <1>a, FirstAndRest DEF ExporterTake, EQ!TakeOne, EQ!TakeNone, ControlInv, TypeOK
  <2>2. b = <<>> /\ b' = <<p>>
    BY <2>1, HeldPacket DEF b
  <2>3. eq = b' \o eq'
    BY <1>a, <1>7, <2>1, <2>2, HeadThenTail DEF TypeOK
  <2>4. b \o eq = b' \o eq'
    BY <1>d, <2>2, <2>3, ConcatEmptySeq
  <2>5. Pipeline' = exported \o b' \o eq' \o d \o e \o f /\ received' = received
    BY <1>7 DEF ExporterTake, Pipeline, b, d, e, f, mvars, pvars, history, Held
  <2>6. exported \o b \o eq = exported \o b' \o eq'
    <3>1. exported \o b \o eq = exported \o (b \o eq)
      <4>1. exported \in Seq(Packets) /\ b \in Seq(Packets) /\ eq \in Seq(Packets)
        BY <1>d
      <4> QED BY <4>1, <1>f
    <3>2. exported \o b' \o eq' = exported \o (b' \o eq')
      <4>1. exported \in Seq(Packets) /\ b' \in Seq(Packets) /\ eq' \in Seq(Packets)
        BY <1>d, <1>e
      <4> QED BY <4>1, <1>f
    <3> QED BY <2>4, <3>1, <3>2
  <2> QED BY <1>c, <2>5, <2>6 DEF abcde, abcd, abc, ab
<1>8. CASE ExporterTake /\ eq = <<>>
  BY <1>8, <1>a, <1>c DEF ExporterTake, EQ!TakeOne, EQ!TakeNone, EQ!qvars, Pipeline, ControlInv,
     abcde, abcd, abc, ab, b, d, e, f, mvars, pvars, history, Held
<1>9. CASE ExporterExport
  <2>1. PICK p \in Packets : xbuf = p /\ xbuf' = None /\ exported' = Append(exported, p)
    BY <1>9, <1>a DEF ExporterExport, ControlInv
  <2>2. b = <<p>> /\ b' = <<>>
    BY <2>1, HeldPacket DEF b
  <2>3. exported' = exported \o b
    BY <1>d, <1>g, <2>1, <2>2
  <2>4. exported' \o b' = ab
    BY <1>e, <2>2, <2>3, ConcatEmptySeq DEF ab
  <2>5. Pipeline' = exported' \o b' \o eq \o d \o e \o f /\ received' = received
    BY <1>9 DEF ExporterExport, Pipeline, b, d, e, f, mvars, pvars, queues, Held
  <2> QED BY <1>c, <2>4, <2>5 DEF abcde, abcd, abc
<1>10. ASSUME UNCHANGED <<received, exported, xbuf, eq, pbuf, pq, mbuf>>
       PROVE  Reports(received)' = Pipeline'
  BY <1>10, <1>c DEF Pipeline, abcde, abcd, abc, ab, b, d, e, f, Held
<1>11. CASE \/ Arrive \/ Signal \/ MainCheck \/ MainRecvNothing \/ MainPost \/ MainWakeParser \/ MainWakeExporter
            \/ MainJoin \/ MainFreeParserQueue \/ MainFreeExporterQueue
            \/ ParserCheck \/ ParserWait \/ ParserPost \/ ExporterCheck \/ ExporterWait \/ Periodic
            \/ UNCHANGED vars
  <2> UNCHANGED <<received, exported, xbuf, eq, pbuf, pq, mbuf>>
    BY <1>11, <1>b DEF Arrive, Signal, MainCheck, MainRecvNothing, MainPost, MainWakeParser, MainWakeExporter,
       MainJoin, MainFreeParserQueue, MainFreeExporterQueue, ParserCheck, ParserWait, ParserPost,
       ExporterCheck, ExporterWait, Periodic, PQ!Post, PQ!Wait, EQ!Post, EQ!Wait, Freeing,
       vars, mvars, pvars, xvars, queues, inputs, history
  <2> QED BY <1>10
<1> QED BY <1>0, <1>1, <1>2, <1>3, <1>4, <1>5, <1>6, <1>7, <1>8, <1>9, <1>11
        DEF Next, Main, Parser, Exporter

------------------------------------------------------------------------------
(* Theorems *)

THEOREM Safe == Spec => []SafetyInv
<1>1. Init => SafetyInv
  BY SafetyInit
<1>2. SafetyInv /\ [Next]_vars => SafetyInv'
  BY SafetyStep
<1> QED BY <1>1, <1>2, PTL DEF Spec

\* Every variable of the process keeps its type: no thread is at a control point
\* its code does not have, no queue holds what was not received.
THEOREM CollectorTypes == Spec => []TypeOK
<1>1. SafetyInv => TypeOK
  BY DEF SafetyInv
<1> QED BY <1>1, Safe, PTL

\* Up to dequeue_free, what main received is what was exported, followed by what
\* the exporter, its queue, the parser, its queue and main hold: no report is
\* lost, duplicated or overtaken between recvfrom and the exporter.
THEOREM ReportsAreKeptInOrder == Spec => []PipelineKeepsReports
<1>1. Init => PipelineKeepsReports
  BY PipelineInit
<1>2. SafetyInv /\ PipelineKeepsReports /\ [Next]_vars => PipelineKeepsReports'
  BY PipelineStep
<1> QED BY <1>1, <1>2, Safe, PTL DEF Spec

\* Until a signal, a thread that is past sem_wait finds an element: dequeue_pop
\* returns NULL only to end the collector.
THEOREM NullEndsTheCollector == Spec => []EmptyPopMeansTerminate
<1>1. SafetyInv => EmptyPopMeansTerminate
  <2> SUFFICES ASSUME SafetyInv, ~terminate
               PROVE  ~(ppc = "take" /\ pq = <<>>) /\ ~(xpc = "take" /\ eq = <<>>)
    BY DEF EmptyPopMeansTerminate
  <2>1. ParserTokens = Len(pq) /\ ExporterTokens = Len(eq) /\ psem \in Nat /\ esem \in Nat
    BY DEF SafetyInv, TokenInv, TypeOK
  <2> QED BY <2>1, EmptySeq DEF ParserTokens, ExporterTokens, One
<1> QED BY <1>1, Safe, PTL

\* Once main joins, a consumer that waits has a token: the posts of the shutdown
\* are still there, or the element they were spent on is.
THEOREM JoinsEnd == Spec => []JoinsCannotBlock
<1>1. SafetyInv => JoinsCannotBlock
  <2> SUFFICES ASSUME SafetyInv, mpc \in Joining
               PROVE  (ppc = "wait" => psem > 0) /\ (xpc = "wait" => esem > 0)
    BY DEF JoinsCannotBlock
  <2>1. Len(pq) \in Nat /\ Len(eq) \in Nat /\ psem \in Nat /\ esem \in Nat
    BY LenProperties DEF SafetyInv, TypeOK
  <2>2. ppc = "wait" => ParserTokens > Len(pq)
    BY DEF SafetyInv, TokenInv
  <2>3. xpc = "wait" => ExporterTokens > Len(eq) /\ (ppc = "post" => eq # <<>>)
    BY DEF SafetyInv, TokenInv
  <2>4. eq # <<>> => Len(eq) > 0
    BY <2>1, FirstAndRest DEF SafetyInv, TypeOK
  <2> QED BY <2>1, <2>2, <2>3, <2>4 DEF ParserTokens, ExporterTokens, One, Joining
<1> QED BY <1>1, Safe, PTL

\* dequeue_free never waits for a token: there is one for each element left.
THEOREM FreeEnds == Spec => []FreeCannotBlock
<1>1. SafetyInv => FreeCannotBlock
  <2> SUFFICES ASSUME SafetyInv, mpc \in {"free_parser_queue", "free_exporter_queue"}
               PROVE  psem >= Len(pq) /\ esem >= Len(eq)
    BY DEF FreeCannotBlock
  <2>1. Len(pq) \in Nat /\ Len(eq) \in Nat /\ psem \in Nat /\ esem \in Nat
    BY LenProperties DEF SafetyInv, TypeOK
  <2>2. ppc = "done" /\ xpc = "done" /\ mpc # "post"
    BY DEF SafetyInv, ControlInv, Freeing
  <2>3. ParserTokens >= Len(pq) /\ ExporterTokens >= Len(eq)
    BY DEF SafetyInv, TokenInv
  <2> QED BY <2>1, <2>2, <2>3 DEF ParserTokens, ExporterTokens, One
<1> QED BY <1>1, Safe, PTL
==============================================================================
