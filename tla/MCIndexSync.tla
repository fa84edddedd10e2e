---------------------------- MODULE MCIndexSync ----------------------------
(* Instances of IndexSync for TLC. *)
EXTENDS IndexSync, TLC

CONSTANTS a, b, png, c1, c2, big

InboxMovesA == [p \in Path |-> IF p = a THEN b ELSE p]

\* A vault with one note, and one with an attachment beside it.
OneNote == {[p \in Path |-> IF p = a THEN c1 ELSE Absent]}
NoteAndPicture == {[p \in Path |-> IF p = a THEN c1 ELSE IF p = png THEN big ELSE Absent]}
=============================================================================
