------------------------------ MODULE ReportRx ------------------------------
(***************************************************************************)
(* The Python collector (report_rx.py): one thread receives reports from a *)
(* UDP socket, takes them apart and sets one Prometheus gauge per flow,    *)
(* switch and metadata; the threads of the HTTP server read the gauges at  *)
(* any time, between two sets as well; a signal handler sets a flag.       *)
(*                                                                         *)
(* A report is given by what the switches wrote, its layout on the wire by *)
(* ReportWire.  The flow id stands at fixed places of earlier headers and  *)
(* is left out, like the fields of the report header, which only the debug *)
(* output uses, and the layout of labels.                                  *)
(* The switches of int.p4app never write the metadata of bits 6 and 7, but *)
(* the collector reads them, so masks that have them are among the inputs. *)
(* Reports are assumed to fit the 512 bytes of recvfrom.                   *)
(***************************************************************************)
EXTENDS ReportWire, TLC

CONSTANTS
  Flows, SwitchIds,
  Reports,      \* the reports that may arrive
  Room,         \* reports the socket's buffer holds
  MaxReports    \* bound: reports that arrive

ASSUME ReportRxAssumption ==
  /\ Room \in Nat \ {0} /\ MaxReports \in Nat
  /\ \A r \in Reports :
       /\ r.flow \in Flows /\ r.protocol \in {"udp", "tcp"} /\ r.mask \in (SUBSET Bits) \ {{}}
       /\ r.hop_ml = WordsPerHop(r.mask)
       /\ r.hops \in Seq([Fields -> Nat]) /\ r.options \in Seq(Nat \X Nat)
       \* The occupancy has 24 bits; without the switch id bit no id is sent.
       /\ \A i \in DOMAIN r.hops :
            /\ r.hops[i]["q_occupancy"] < OccupancyRange
            /\ SwitchIdBit \in r.mask => r.hops[i]["switch_id"] \in SwitchIds

------------------------------------------------------------------------------
(* HopMetadata.from_bytes *)

\* Fault: the level 2 port ids are taken for one word.
OneWord(b) == 1

Width(b) == IF b = L2PortIdsBit THEN 2 ELSE 1

(* The words d.read has passed before instruction b. *)
WordsRead(mask) ==
  LET read[b \in 0..8] ==
        IF b = 0 THEN 0 ELSE read[b - 1] + (IF b - 1 \in mask THEN Width(b - 1) ELSE 0)
  IN read

Place(mask, b) == WordsRead(mask)[b] + 1

(* Bytes that are missing read as zero. *)
WordAt(ws, n) == IF n \in DOMAIN ws THEN ws[n] ELSE <<0, 0>>

FromBytes(ws, mask) ==
  [f \in FieldsOf(mask) |->
     LET w == WordAt(ws, Place(mask, BitOf[f])) IN
     CASE f = "l1_ingress_port_id" -> w[1]
       [] f = "l1_egress_port_id"  -> w[2]
       [] f = "q_id"               -> w[1] \div 256
       [] f = "q_occupancy"        -> (w[1] % 256) * 65536 + w[2]
       [] f = "l2_egress_port_id"  -> Whole(WordAt(ws, Place(mask, BitOf[f]) + 1))
       [] OTHER                    -> Whole(w)]

(* Report.__init__ *)

Offset(protocol) == IF protocol = "udp" THEN 2 ELSE 5

Parsed(data, flow, protocol) ==
  LET shim == data[Offset(protocol) + 1]
      hop_data_len == data[Offset(protocol) + 2].hop_ml
      ins_map == data[Offset(protocol) + 3].ins_map
      int_meta == SubSeq(data, Offset(protocol) + 4, Len(data))
  IN [flow_id |-> flow, ins_map |-> ins_map,
      hop_metadata |->
        [i \in 1..((shim.length - 3) \div hop_data_len) |->
           FromBytes(SubSeq(int_meta, (i - 1) * hop_data_len + 1, i * hop_data_len), ins_map)]]

(* FlowInfo.from_report: one list per field, empty if no hop has the field. *)
FromReport(rep) ==
  [flow_id |-> rep.flow_id, hop_cnt |-> Len(rep.hop_metadata),
   lists |-> [f \in Fields |->
      IF f \in FieldsOf(rep.ins_map)
        THEN [i \in DOMAIN rep.hop_metadata |-> rep.hop_metadata[i][f]]
        ELSE <<>>]]

FlowInfo ==
  [r \in Reports |-> FromReport(Parsed(Wire(r), r.flow, r.protocol))]

------------------------------------------------------------------------------
VARIABLES
  pc,           \* receiver's control point
  accepted,     \* history: reports the socket took, in order
  taken,        \* how many of them recvfrom returned
  kill_now,     \* killer.kill_now
  new_flow,     \* the report being exported
  hop, field,   \* the next gauge to set: a hop and an index of Metadata
  flow_table,   \* flow_table[f]: the last FlowInfo of the flow
  gauge,        \* gauge[f]: the gauges of the flow, by switch and metadata
  late          \* history: reports received after a signal

vars == <<pc, accepted, taken, kill_now, new_flow, hop, field, flow_table, gauge, late>>

(* The metadata of a hop that get a gauge, in order; the first is its number. *)
Metadata == [HopFields EXCEPT ![1] = "hop_num"]

ListOf(m) == IF m = "hop_num" THEN "switch_id" ELSE m

NoFlow == [hop_cnt |-> 0]

(* The dictionary d with an entry set. *)
With(d, k, v) == [x \in DOMAIN d \cup {k} |-> IF x = k THEN v ELSE d[x]]

Init ==
  /\ pc = "check" /\ kill_now = FALSE
  /\ accepted = <<>> /\ taken = 0 /\ late = 0
  /\ new_flow = NoFlow /\ hop = 1 /\ field = 1
  /\ flow_table = [f \in {} |-> NoFlow]
  /\ gauge = [f \in Flows |-> [k \in {} |-> 0]]

Running == pc \notin {"stopped", "died"}

(* A report reaches the socket; one that finds the buffer full is dropped,    *)
(* which changes nothing.                                                     *)
Arrive ==
  /\ Running
  /\ Len(accepted) < MaxReports /\ Len(accepted) - taken < Room
  /\ \E r \in Reports : accepted' = Append(accepted, r)
  /\ UNCHANGED <<pc, taken, kill_now, new_flow, hop, field, flow_table, gauge, late>>

(* exit_gracefully; a recvfrom that was interrupted is taken up again. *)
Signal ==
  /\ Running
  /\ kill_now' = TRUE
  /\ UNCHANGED <<pc, accepted, taken, new_flow, hop, field, flow_table, gauge, late>>

\* Fault: the loop does not look at the flag.
GoesOnAlways == TRUE

GoesOn == ~kill_now

Check ==
  /\ pc = "check"
  /\ pc' = IF GoesOn THEN "recv" ELSE "stopped"
  /\ UNCHANGED <<accepted, taken, kill_now, new_flow, hop, field, flow_table, gauge, late>>

Receive ==
  /\ pc = "recv" /\ taken < Len(accepted)
  /\ taken' = taken + 1
  /\ new_flow' = FlowInfo[accepted[taken']]
  /\ flow_table' = With(flow_table, new_flow'.flow_id, new_flow')
  /\ pc' = "export" /\ hop' = 1 /\ field' = 1
  /\ late' = IF kill_now THEN late + 1 ELSE late
  /\ UNCHANGED <<accepted, kill_now, gauge>>

ValueOf(m) == IF m = "hop_num" THEN hop - 1 ELSE new_flow.lists[m][hop]

Present(m) == new_flow.lists[ListOf(m)] # <<>>

\* Fault: the loop goes one metadata too far.
LastFieldOneMore == field = Len(Metadata) + 1

LastField == field = Len(Metadata)

Advance ==
  /\ field' = IF LastField THEN 1 ELSE field + 1
  /\ hop' = IF LastField THEN hop + 1 ELSE hop

\* Fault: an absent metadata is skipped without going on to the next one.
SkipStays == UNCHANGED <<hop, field>>

Skip == Advance

(* One turn of the export loop: FLOW_METRICS.labels(...).set(...), unless the *)
(* metadata is absent.  Without switch ids the first label raises IndexError. *)
SetGauge ==
  /\ pc = "export" /\ hop <= new_flow.hop_cnt
  /\ LET m == Metadata[field] IN
       \/ /\ Present(m) /\ Present("switch_id")
          /\ gauge' = [gauge EXCEPT ![new_flow.flow_id] =
                         With(@, <<new_flow.lists["switch_id"][hop], m>>, ValueOf(m))]
          /\ Advance /\ UNCHANGED pc
       \/ /\ ~Present(m)
          /\ Skip /\ UNCHANGED <<gauge, pc>>
       \/ /\ Present(m) /\ ~Present("switch_id")
          /\ pc' = "died"
          /\ UNCHANGED <<gauge, hop, field>>
  /\ UNCHANGED <<accepted, taken, kill_now, new_flow, flow_table, late>>

Exported ==
  /\ pc = "export" /\ hop > new_flow.hop_cnt
  /\ pc' = "check"
  /\ UNCHANGED <<accepted, taken, kill_now, new_flow, hop, field, flow_table, gauge, late>>

Receiver == Check \/ Receive \/ SetGauge \/ Exported

Next == Receiver \/ Arrive \/ Signal

Spec == Init /\ [][Next]_vars /\ WF_vars(Receiver)

------------------------------------------------------------------------------
(* Properties *)

TypeOK ==
  /\ pc \in {"check", "recv", "export", "stopped", "died"}
  /\ accepted \in Seq(Reports) /\ taken \in 0..Len(accepted) /\ Len(accepted) - taken <= Room
  /\ kill_now \in BOOLEAN
  /\ hop \in 1..new_flow.hop_cnt + 1 /\ field \in 1..Len(Metadata)
  /\ DOMAIN flow_table \subseteq Flows
  /\ \A f \in Flows : DOMAIN gauge[f] \subseteq SwitchIds \X ToSet(Metadata)

(* What report n wrote into gauges so far: for hop i everything if the export *)
(* is past it, for the hop at the cursor the metadata before the cursor.      *)
Written(n) ==
  LET r == accepted[n] IN
  IF SwitchIdBit \notin r.mask THEN {}
  ELSE {w \in (DOMAIN r.hops) \X (DOMAIN Metadata) :
          /\ ListOf(Metadata[w[2]]) \in FieldsOf(r.mask)
          /\ (n < taken \/ w[1] < hop \/ (w[1] = hop /\ w[2] < field))}

KeyOf(n, w) == <<accepted[n].hops[w[1]]["switch_id"], Metadata[w[2]]>>

Truth(n, w) ==
  IF w[2] = 1 THEN w[1] - 1 ELSE accepted[n].hops[w[1]][Metadata[w[2]]]

Writers(f, k) == {n \in 1..taken : accepted[n].flow = f /\ \E w \in Written(n) : KeyOf(n, w) = k}

Newest(S) == CHOOSE n \in S : \A m \in S : m <= n

(* The gauges tell what the switches wrote (report_rx.py:92-144, 177-205,     *)
(* 248-358), in every state a scrape can see: a gauge holds the value of the  *)
(* newest report of its flow that names its switch and was exported that far, *)
(* whatever the mask, the protocol and the options behind the INT data; so a  *)
(* scrape in the middle mixes at most two reports of a flow, and a gauge that *)
(* is older than the flow's last report is one of a switch off its route.     *)
GaugesAreNewest ==
  \A f \in Flows :
    \A k \in SwitchIds \X ToSet(Metadata) :
      LET W == Writers(f, k) IN
      /\ k \in DOMAIN gauge[f] <=> W # {}
      /\ k \in DOMAIN gauge[f] =>
           \E w \in Written(Newest(W)) : KeyOf(Newest(W), w) = k /\ gauge[f][k] = Truth(Newest(W), w)

(* A signal ends the collector with the next report at the latest             *)
(* (report_rx.py:236, 221-223): the flag is not looked at while recvfrom      *)
(* waits, but no second report is taken.                                      *)
SignalEndsWithNextReport == late <= 1

(* Every report the socket took is exported, unless the collector is told to  *)
(* end or took a report without switch ids, which ends it in the middle of    *)
(* the export (report_rx.py:266): nothing else stops it.                      *)
ReportsAreExported ==
  \A n \in 1..MaxReports :
    Len(accepted) >= n ~>
      \/ taken > n \/ (taken = n /\ pc \in {"check", "recv"})
      \/ kill_now \/ \E m \in 1..taken : SwitchIdBit \notin accepted[m].mask
==============================================================================
