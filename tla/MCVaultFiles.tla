---------------------------- MODULE MCVaultFiles ----------------------------
(***************************************************************************)
(* Instances of VaultFiles for TLC: texts of one place, the merging of     *)
(* texts is MCLayeredDoc's.                                                *)
(***************************************************************************)
EXTENDS VaultFiles

Places == {"x"}
Words == {"k", "n", "u", "v"}
T(a) == [x |-> a]

\* Only the first of the two paths has a file.
FileAtP == [p \in Path |-> IF p = "p" THEN T("k") ELSE None]
OneEdit == {<<[old |-> "k", new |-> "n"]>>}
NewFile == {T("v")}
=============================================================================
