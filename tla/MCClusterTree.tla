--------------------------- MODULE MCClusterTree ---------------------------
(***************************************************************************)
(* Instances of ClusterTree for TLC.                                       *)
(***************************************************************************)
EXTENDS ClusterTree

CONSTANTS c1, c2, bucket, l1, l2, h1, h2

Notes == Permutations({l1, l2})

Halved == [n \in {c1} |-> <<h1, h2>>]

R(k, p) == [kind |-> k, parent |-> p, text |-> "Cluster N", mine |-> FALSE]

\* Two clusters, a bucket and two notes.
Built == [n \in Node |->
  CASE n \in {c1, c2} -> R("cluster", None)
    [] n = bucket -> R("bucket", None)
    [] n \in {l1, l2} -> R("leaf", c1)
    [] OTHER -> None]
Trees == {Built}
=============================================================================
