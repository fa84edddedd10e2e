---------------------------- MODULE MCTaskQueue ----------------------------
(***************************************************************************)
(* Instances of TaskQueue for TLC.                                         *)
(***************************************************************************)
EXTENDS TaskQueue

\* One task per case the queue tells apart: lane, drain order, schema.
MCTasks ==
  { [rank |-> 0, shape |-> "direct", kind |-> "mutation", schema |-> TRUE,  stamp |-> 1],
    [rank |-> 2, shape |-> "agent",  kind |-> "mutation", schema |-> FALSE, stamp |-> 2] }

\* 0 s, 1 s and 5 s of the defaults: no window, and one of a single time unit.
MCGrace == [internal |-> 0, auto |-> 1, external |-> 1]

\* The direct worker abstains for a while, or not at all.
MCConfigs == [preference: {"internal", "external"}, enabled: {TRUE}]
=============================================================================
