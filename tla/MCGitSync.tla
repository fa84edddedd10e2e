----------------------------- MODULE MCGitSync -----------------------------
(* Instances of GitSync for TLC. *)
EXTENDS GitSync, TLC

CONSTANTS a, b, t0, t1, t2

\* Two notes in the vault, or one with room for another.
OneOrTwo == {[p \in Path |-> t0], [p \in Path |-> IF p = a THEN t0 ELSE Absent]}
=============================================================================
