----------------------------- MODULE MCCollector -----------------------------
(* Two packets of any class and two signals to any thread: enough for a       *)
(* queue with a backlog at shutdown, a push to exporter_queue after the       *)
(* exporter left, and a second signal while main joins.                       *)
EXTENDS Collector

MCSignalTargets == ThreadNames
==============================================================================
