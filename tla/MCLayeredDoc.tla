---------------------------- MODULE MCLayeredDoc ----------------------------
(***************************************************************************)
(* Instances of LayeredDoc for TLC.  A text has two places; "k" and "l" are*)
(* its first words, agents write "n" and then "m", the user types "u", and *)
(* "v" comes from outside.                                                 *)
(***************************************************************************)
EXTENDS LayeredDoc

Places == {"x", "y"}
Words == {"k", "l", "m", "n", "u", "v"}
T(a, b) == [x |-> a, y |-> b]
R(a, b) == [old |-> a, new |-> b]

OneFile == [p \in Path |-> T("k", "l")]

\* An edit, and a follow-up of it.
Edits == {<<R("k", "n")>>, <<R("n", "m")>>}
OneEdit == {<<R("k", "n")>>}

NoTexts == {}
Outside == {T("k", "v")}
=============================================================================
