------------------------------ MODULE Collector ------------------------------
(***************************************************************************)
(* The C report collector as a process of four threads                     *)
(* (report_collector_c/src/main.c, parser.c, exporter.c):                  *)
(*                                                                         *)
(*   main --parser_queue--> report_parser --exporter_queue--> exporter     *)
(*   periodic_exporter                                                     *)
(*                                                                         *)
(* main receives packets until a signal handler sets `terminate`, then     *)
(* posts both semaphores, joins the threads and frees the queues.  Every   *)
(* loop tests `terminate` only between two blocking calls.                 *)
(*                                                                         *)
(* The queues are instances of FifoQueue, which module Dequeue implements. *)
(* What the exporter does with a report is in module MetricStore, what     *)
(* the parser reads in a packet in its class here.                         *)
(***************************************************************************)
EXTENDS Naturals, Sequences, FiniteSets

CONSTANTS
  MaxPackets,      \* bound: packets that reach the socket
  MaxSignals,      \* bound: SIGTERM or SIGINT signals
  SignalTargets    \* threads the kernel may run the handler in

ThreadNames == {"main", "parser", "exporter", "periodic"}

ASSUME CollectorAssumption == /\ MaxPackets \in Nat /\ MaxSignals \in Nat
                              /\ SignalTargets \subseteq ThreadNames

(* What parser.c tells apart in a packet: a report it can export, one with   *)
(* more than MAX_INT_HOP hops (16-22 words of metadata), and one it rejects  *)
(* before allocating a flow_info (too small, no UDP or TCP, no INT headers); *)
(* and an empty datagram, which main does not push.                          *)
Classes == {"report", "toomany", "reject", "empty"}

Packets == [id : 1..MaxPackets, class : Classes]

VARIABLES
  net,           \* packets in the socket's buffer
  arrived,       \* number of packets that reached the socket
  terminate,
  signals,       \* number of signals delivered
  mpc, mbuf,     \* main: control point, buffer it is about to push
  ppc, pbuf,     \* report_parser: control point, packet
  xpc, xbuf,     \* report_exporter: control point, flow_info
  tpc,           \* periodic_exporter: control point
  pq, psem,      \* parser_queue
  eq, esem,      \* exporter_queue
  received,      \* history: the packets with something in them recvfrom returned
  exported,      \* history: the reports exported
  leaked         \* history: flow_infos lost by the parser

PQ == INSTANCE FifoQueue WITH Data <- Packets, queue <- pq, sem <- psem
EQ == INSTANCE FifoQueue WITH Data <- Packets, queue <- eq, sem <- esem

mvars == <<mpc, mbuf>>
pvars == <<ppc, pbuf>>
xvars == <<xpc, xbuf>>
queues == <<pq, psem, eq, esem>>
inputs == <<net, arrived, terminate, signals>>
history == <<received, exported, leaked>>
vars == <<mvars, pvars, xvars, tpc, queues, inputs, history>>

None == [id |-> 0, class |-> "reject"]     \* the NULL a pop may return

Init ==
  /\ net = <<>> /\ arrived = 0 /\ terminate = FALSE /\ signals = 0
  /\ mpc = "check" /\ mbuf = None
  /\ ppc = "check" /\ pbuf = None
  /\ xpc = "check" /\ xbuf = None
  /\ tpc = "check"
  /\ PQ!Init /\ EQ!Init
  /\ received = <<>> /\ exported = <<>> /\ leaked = {}

------------------------------------------------------------------------------
(* The environment *)

Arrive ==
  /\ arrived < MaxPackets
  /\ arrived' = arrived + 1
  /\ \E c \in Classes : net' = Append(net, [id |-> arrived + 1, class |-> c])
  /\ UNCHANGED <<terminate, signals, mvars, pvars, xvars, tpc, queues, history>>

\* Fault: main pushes its buffer although recvfrom failed.
InterruptPushes(t) ==
  \/ /\ t = "main" /\ mpc = "recv"
     /\ mpc' = "put" /\ UNCHANGED <<ppc, xpc, tpc>>
  \/ UNCHANGED <<mpc, ppc, xpc, tpc>>

(* sigterm_handler.  A handler that runs while its thread is blocked makes   *)
(* the call fail with EINTR (sa_flags = 0); one that runs in the gap between *)
(* the test of `terminate` and the call does not.  "recv", "wait" and        *)
(* "sleep" stand for both the gap and the call.                              *)
Interrupt(t) ==
  \/ /\ t = "main" /\ mpc = "recv"           \* recvfrom returns -1
     /\ mpc' = "check" /\ UNCHANGED <<ppc, xpc, tpc>>
  \/ /\ t = "parser" /\ ppc = "wait"         \* dequeue_pop returns NULL
     /\ ppc' = "check" /\ UNCHANGED <<mpc, xpc, tpc>>
  \/ /\ t = "exporter" /\ xpc = "wait"
     /\ xpc' = "check" /\ UNCHANGED <<mpc, ppc, tpc>>
  \/ /\ t = "periodic" /\ tpc = "sleep"      \* sleep returns early
     /\ tpc' = "send" /\ UNCHANGED <<mpc, ppc, xpc>>
  \/ UNCHANGED <<mpc, ppc, xpc, tpc>>

Alive(t) == CASE t = "main"     -> mpc \notin {"exited", "undefined"}
              [] t = "parser"   -> ppc # "done"
              [] t = "exporter" -> xpc # "done"
              [] t = "periodic" -> tpc # "done"

Signal ==
  /\ signals < MaxSignals
  /\ mpc \notin {"exited", "undefined"}
  /\ signals' = signals + 1
  /\ terminate' = TRUE
  /\ \E t \in SignalTargets : Alive(t) /\ Interrupt(t)
  /\ UNCHANGED <<net, arrived, mbuf, pbuf, xbuf, queues, history>>

------------------------------------------------------------------------------
(* main *)

MainCheck ==
  /\ mpc = "check"
  /\ mpc' = IF terminate THEN "wake_parser" ELSE "recv"
  /\ UNCHANGED <<mbuf, pvars, xvars, tpc, queues, inputs, history>>

MainRecv ==
  /\ mpc = "recv" /\ net # <<>> /\ Head(net).class # "empty"
  /\ mbuf' = Head(net) /\ net' = Tail(net)
  /\ received' = Append(received, Head(net))
  /\ mpc' = "put"
  /\ UNCHANGED <<pvars, xvars, tpc, queues, arrived, terminate, signals, exported, leaked>>

\* rx_size is 0.
MainRecvNothing ==
  /\ mpc = "recv" /\ net # <<>> /\ Head(net).class = "empty"
  /\ net' = Tail(net)
  /\ mpc' = "check"
  /\ UNCHANGED <<mbuf, pvars, xvars, tpc, queues, arrived, terminate, signals, history>>

MainPut ==
  /\ mpc = "put"
  /\ PQ!Put(mbuf)
  /\ mbuf' = None
  /\ mpc' = "post"
  /\ UNCHANGED <<pvars, xvars, tpc, eq, esem, inputs, history>>

\* Faults: main pushes without a post, or with two.
MainPostsNothing ==
  /\ mpc = "post"
  /\ mpc' = "check"
  /\ UNCHANGED <<mbuf, pvars, xvars, tpc, queues, inputs, history>>

MainPostsTwice ==
  /\ mpc = "post"
  /\ psem' = psem + 2
  /\ mpc' = "check"
  /\ UNCHANGED <<mbuf, pvars, xvars, tpc, pq, eq, esem, inputs, history>>

MainPost ==
  /\ mpc = "post"
  /\ PQ!Post
  /\ mpc' = "check"
  /\ UNCHANGED <<mbuf, pvars, xvars, tpc, eq, esem, inputs, history>>

\* Fault: main joins without waking the parser.
MainWakesNobody ==
  /\ mpc = "wake_parser"
  /\ mpc' = "wake_exporter"
  /\ UNCHANGED <<mbuf, pvars, xvars, tpc, queues, inputs, history>>

MainWakeParser ==
  /\ mpc = "wake_parser"
  /\ PQ!Post
  /\ mpc' = "wake_exporter"
  /\ UNCHANGED <<mbuf, pvars, xvars, tpc, eq, esem, inputs, history>>

\* Fault: the same semaphore is posted twice.
MainWakesParserAgain ==
  /\ mpc = "wake_exporter"
  /\ PQ!Post
  /\ mpc' = "join_parser"
  /\ UNCHANGED <<mbuf, pvars, xvars, tpc, eq, esem, inputs, history>>

MainWakeExporter ==
  /\ mpc = "wake_exporter"
  /\ EQ!Post
  /\ mpc' = "join_parser"
  /\ UNCHANGED <<mbuf, pvars, xvars, tpc, pq, psem, inputs, history>>

MainJoin ==
  /\ \/ mpc = "join_parser" /\ ppc = "done" /\ mpc' = "join_exporter"
     \/ mpc = "join_exporter" /\ xpc = "done" /\ mpc' = "join_periodic"
     \/ mpc = "join_periodic" /\ tpc = "done" /\ mpc' = "free_parser_queue"
  /\ UNCHANGED <<mbuf, pvars, xvars, tpc, queues, inputs, history>>

(* dequeue_free: while the list is not empty, pop (into an uninitialised     *)
(* `int*`) and free an uninitialised pointer.  Both are undefined: the       *)
(* process goes wrong, or by luck it goes on.                                *)
MainFreeParserQueue ==
  /\ mpc = "free_parser_queue"
  /\ \/ /\ pq # <<>> /\ psem > 0
        /\ psem' = psem - 1 /\ pq' = Tail(pq)
        /\ mpc' \in {"free_parser_queue", "undefined"}
     \/ /\ pq = <<>>
        /\ mpc' = "free_exporter_queue" /\ UNCHANGED <<pq, psem>>
  /\ UNCHANGED <<mbuf, pvars, xvars, tpc, eq, esem, inputs, history>>

MainFreeExporterQueue ==
  /\ mpc = "free_exporter_queue"
  /\ \/ /\ eq # <<>> /\ esem > 0
        /\ esem' = esem - 1 /\ eq' = Tail(eq)
        /\ mpc' \in {"free_exporter_queue", "undefined"}
     \/ /\ eq = <<>>
        /\ mpc' = "exited" /\ UNCHANGED <<eq, esem>>
  /\ UNCHANGED <<mbuf, pvars, xvars, tpc, pq, psem, inputs, history>>

Main == MainCheck \/ MainRecv \/ MainRecvNothing \/ MainPut \/ MainPost \/ MainWakeParser
          \/ MainWakeExporter \/ MainJoin
          \/ MainFreeParserQueue \/ MainFreeExporterQueue

------------------------------------------------------------------------------
(* report_parser *)

\* Fault: the parser does not test `terminate`.
ParserNeverEnds ==
  /\ ppc = "check"
  /\ ppc' = "wait"
  /\ UNCHANGED <<pbuf, mvars, xvars, tpc, queues, inputs, history>>

ParserCheck ==
  /\ ppc = "check"
  /\ ppc' = IF terminate THEN "done" ELSE "wait"
  /\ UNCHANGED <<pbuf, mvars, xvars, tpc, queues, inputs, history>>

ParserWait ==
  /\ ppc = "wait"
  /\ PQ!Wait
  /\ ppc' = "take"
  /\ UNCHANGED <<pbuf, mvars, xvars, tpc, eq, esem, inputs, history>>

\* Fault: the newest packet is taken first.
ParserTakesNewest ==
  /\ ppc = "take"
  /\ \/ /\ pq # <<>>
        /\ pbuf' = pq[Len(pq)] /\ pq' = SubSeq(pq, 1, Len(pq) - 1) /\ psem' = psem
        /\ ppc' = "parse"
     \/ PQ!TakeNone /\ pbuf' = None /\ ppc' = "check"
  /\ UNCHANGED <<mvars, xvars, tpc, eq, esem, inputs, history>>

ParserTake ==
  /\ ppc = "take"
  /\ \/ PQ!TakeOne /\ pbuf' = Head(pq) /\ ppc' = "parse"
     \/ PQ!TakeNone /\ pbuf' = None /\ ppc' = "check"
  /\ UNCHANGED <<mvars, xvars, tpc, eq, esem, inputs, history>>

\* The early `continue`s free the packet; "too many hops" forgets flow_info.
ParserParse ==
  /\ ppc = "parse"
  /\ IF pbuf.class = "report"
     THEN ppc' = "put" /\ UNCHANGED <<pbuf, leaked>>
     ELSE /\ ppc' = "check" /\ pbuf' = None
          /\ leaked' = IF pbuf.class = "toomany" THEN leaked \cup {pbuf.id} ELSE leaked
  /\ UNCHANGED <<mvars, xvars, tpc, queues, inputs, received, exported>>

ParserPut ==
  /\ ppc = "put"
  /\ EQ!Put(pbuf)
  /\ pbuf' = None
  /\ ppc' = "post"
  /\ UNCHANGED <<mvars, xvars, tpc, pq, psem, inputs, history>>

\* Fault: the parser pushes without a post.
ParserPostsNothing ==
  /\ ppc = "post"
  /\ ppc' = "check"
  /\ UNCHANGED <<pbuf, mvars, xvars, tpc, queues, inputs, history>>

ParserPost ==
  /\ ppc = "post"
  /\ EQ!Post
  /\ ppc' = "check"
  /\ UNCHANGED <<pbuf, mvars, xvars, tpc, pq, psem, inputs, history>>

Parser == ParserCheck \/ ParserWait \/ ParserTake \/ ParserParse \/ ParserPut \/ ParserPost

------------------------------------------------------------------------------
(* report_exporter and periodic_exporter *)

ExporterCheck ==
  /\ xpc = "check"
  /\ xpc' = IF terminate THEN "done" ELSE "wait"
  /\ UNCHANGED <<xbuf, mvars, pvars, tpc, queues, inputs, history>>

ExporterWait ==
  /\ xpc = "wait"
  /\ EQ!Wait
  /\ xpc' = "take"
  /\ UNCHANGED <<xbuf, mvars, pvars, tpc, pq, psem, inputs, history>>

ExporterTake ==
  /\ xpc = "take"
  /\ \/ EQ!TakeOne /\ xbuf' = Head(eq) /\ xpc' = "export"
     \/ EQ!TakeNone /\ xbuf' = None /\ xpc' = "check"
  /\ UNCHANGED <<mvars, pvars, tpc, pq, psem, inputs, history>>

ExporterExport ==
  /\ xpc = "export"
  /\ exported' = Append(exported, xbuf)
  /\ xbuf' = None
  /\ xpc' = "check"
  /\ UNCHANGED <<mvars, pvars, tpc, queues, inputs, received, leaked>>

Exporter == ExporterCheck \/ ExporterWait \/ ExporterTake \/ ExporterExport

Periodic ==
  /\ \/ tpc = "check" /\ tpc' = IF terminate THEN "done" ELSE "sleep"
     \/ tpc = "sleep" /\ tpc' = "send"
     \/ tpc = "send" /\ tpc' = "check"
  /\ UNCHANGED <<mvars, pvars, xvars, queues, inputs, history>>

------------------------------------------------------------------------------
Next == Arrive \/ Signal \/ Main \/ Parser \/ Exporter \/ Periodic

Spec == Init /\ [][Next]_vars

\* The kernel schedules every thread.  Packets and signals owe nothing.
Fairness == WF_vars(Main) /\ WF_vars(Parser) /\ WF_vars(Exporter) /\ WF_vars(Periodic)

FairSpec == Spec /\ Fairness

------------------------------------------------------------------------------
(* Properties *)

Freeing == {"free_parser_queue", "free_exporter_queue", "exited", "undefined"}
Joining == {"join_parser", "join_exporter", "join_periodic"}

\* Every variable keeps its type.
TypeOK ==
  /\ net \in Seq(Packets) /\ arrived \in 0..MaxPackets
  /\ terminate \in BOOLEAN /\ signals \in 0..MaxSignals
  /\ mpc \in {"check", "recv", "put", "post", "wake_parser", "wake_exporter"}
               \cup Joining \cup Freeing
  /\ ppc \in {"check", "wait", "take", "parse", "put", "post", "done"}
  /\ xpc \in {"check", "wait", "take", "export", "done"}
  /\ tpc \in {"check", "sleep", "send", "done"}
  /\ mbuf \in Packets \cup {None} /\ pbuf \in Packets \cup {None} /\ xbuf \in Packets \cup {None}
  /\ pq \in Seq(Packets) /\ eq \in Seq(Packets)
  /\ received \in Seq(Packets) /\ exported \in Seq(Packets)
  /\ psem \in Nat /\ esem \in Nat /\ leaked \subseteq 1..MaxPackets

Held(buf) == IF buf = None THEN <<>> ELSE <<buf>>
IsReport(p) == p.class = "report"

\* The reports of a sequence of packets.
Reports(s) ==
  LET kept[n \in 0..Len(s)] ==
        IF n = 0 THEN <<>>
        ELSE IF IsReport(s[n]) THEN Append(kept[n - 1], s[n]) ELSE kept[n - 1]
  IN kept[Len(s)]

\* End to end, up to dequeue_free: every report main received is in exactly one
\* place of the pipeline, none is duplicated, and the order of arrival is the
\* order of export, through both queues and with signals at any moment.
PipelineKeepsReports ==
  mpc \notin Freeing =>
    Reports(received) = exported \o Held(xbuf) \o eq \o Reports(Held(pbuf))
                          \o Reports(pq) \o Reports(Held(mbuf))

\* A thread that finds its queue empty with a token in hand was woken for the
\* shutdown: while the collector runs no pop returns NULL.
EmptyPopMeansTerminate ==
  /\ ppc = "take" /\ pq = <<>> => terminate
  /\ xpc = "take" /\ eq = <<>> => terminate

\* main.c 170-176: once main joins, a consumer in sem_wait has a token left, so
\* the joins cannot wait for each other, even if the token of the shutdown was
\* used to fetch an element or a signal interrupted the consumer.
JoinsCannotBlock ==
  mpc \in Joining => /\ ppc = "wait" => psem > 0
                     /\ xpc = "wait" => esem > 0

\* dequeue_free pops through the semaphore: it has a token for each element left.
FreeCannotBlock ==
  /\ mpc = "free_parser_queue" => psem >= Len(pq)
  /\ mpc \in {"free_parser_queue", "free_exporter_queue"} => esem >= Len(eq)

Ended == mpc \in {"exited", "undefined"}

\* main past its loop always ends: no join and no free blocks for ever.
ShutdownEnds == mpc = "wake_parser" ~> Ended

\* A signal ends the collector at the latest with the next packet: one handled
\* between the test of `terminate` and recvfrom leaves main in recvfrom.
SignalEndsWithNextPacket == (terminate /\ net # <<>>) ~> Ended

\* Unless the collector is told to stop, each report received is exported.
ReportsAreExported ==
  \A i \in 1..MaxPackets :
    (\E k \in DOMAIN received : received[k].id = i /\ IsReport(received[k]))
      ~> (terminate \/ \E k \in DOMAIN exported : exported[k].id = i)
==============================================================================
