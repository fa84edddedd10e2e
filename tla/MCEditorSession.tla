-------------------------- MODULE MCEditorSession --------------------------
(* Instances of EditorSession for TLC. *)
EXTENDS EditorSession, TLC

CONSTANTS a, b, t0, t1, t2

\* A vault with one note.
OneNote == {[p \in Path |-> IF p = a THEN t0 ELSE Absent]}
=============================================================================
