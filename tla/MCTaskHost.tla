----------------------------- MODULE MCTaskHost -----------------------------
(***************************************************************************)
(* Instances of TaskHost for TLC.                                          *)
(***************************************************************************)
EXTENDS TaskHost

Row1 == [rank |-> 0, shape |-> "direct", kind |-> "mutation", schema |-> TRUE,  stamp |-> 1]
Row2 == [rank |-> 1, shape |-> "agent",  kind |-> "mutation", schema |-> FALSE, stamp |-> 1]

MixedRows == {Row1, Row2}

MCGrace == [internal |-> 0, auto |-> 1, external |-> 2]

\* The direct worker is on, which the application never changes.
AutoOn == [preference: {"auto"}, enabled: {TRUE}]
=============================================================================
