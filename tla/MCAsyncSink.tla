----------------------------- MODULE MCAsyncSink -----------------------------
(* Instances of AsyncSink for TLC.                                         *)
EXTENDS AsyncSink

(* A blocking queue of one: the worker and a producer, or two producers,   *)
(* wait on queueCv together.  Records in batches of two where the newest   *)
(* is dropped.  An eviction that empties the queue.                        *)
MCConfigurations ==
  { [overflowPolicy |-> "Block", maxQueueSize |-> 1],
    [overflowPolicy |-> "DropNewest", maxQueueSize |-> 2],
    [overflowPolicy |-> "DropOldest", maxQueueSize |-> 1] }

(* The default policy.                                                     *)
MCDefault == { [overflowPolicy |-> "DropOldest", maxQueueSize |-> 1] }

(* The producers differ in nothing but the number of their calls.          *)
MCMaxLogs == [p \in Producers |-> 3 - p]
MCFourLogs == [p \in Producers |-> 4]
=============================================================================
