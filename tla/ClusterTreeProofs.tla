------------------------- MODULE ClusterTreeProofs -------------------------
(***************************************************************************)
(* Proofs about ClusterTree, for every set of nodes, texts and trees and   *)
(* any number of verbs: no note falls out of a tree, what the user wrote   *)
(* stays, the history is in step with the tree, and the tree hangs from    *)
(* its roots.                                                              *)
(***************************************************************************)
EXTENDS ClusterTree, FiniteSetTheorems, FunctionTheorems, SequenceTheorems,
        WellFoundedInduction, TLAPS

-----------------------------------------------------------------------------
(* Natural numbers, sequences and sets, as sequences.                      *)

\* A set of natural numbers that is not empty has a least one: the induction
\* over the numbers used below.
LEMMA LeastNumber ==
  ASSUME NEW T, T \subseteq Nat, T # {}
  PROVE  \E m \in T : \A k \in T : m <= k
  <1>1. PICK top \in T : top \in Nat
    OBVIOUS
  <1> DEFINE W == 0..top
             F == {0..m : m \in {k \in T : k <= top}}
  <1>2. IsFiniteSet(W) /\ F \subseteq SUBSET W /\ 0..top \in F
    <2>1. IsFiniteSet(W)
      BY <1>1, FS_Interval
    <2>2. F \subseteq SUBSET W
      BY <1>1
    <2>3. 0..top \in F
      BY <1>1
    <2>4. QED
      BY <2>1, <2>2, <2>3
  <1>3. IsWellFoundedOn(StrictSubsetOrdering(W), SUBSET W)
    BY <1>2, FS_FiniteSubsetsOfFinite, FS_StrictSubsetOrderingWellFounded
  <1>4. PICK D \in F : \A E \in F : <<E, D>> \notin StrictSubsetOrdering(W)
    <2> HIDE DEF W, F
    <2>1. F # {}
      BY <1>2
    <2>2. QED
      BY <1>2, <1>3, <2>1, WFMin
  <1>5. PICK m \in T : m <= top /\ D = 0..m
    BY <1>4
  <1>6. ASSUME NEW k \in T, ~(m <= k)
        PROVE  FALSE
    <2>1. k \in Nat /\ m \in Nat /\ k < m /\ k <= top
      BY <1>5, <1>6
    <2>2. 0..k \in F /\ 0..k \subseteq 0..m /\ m \in 0..m /\ m \notin 0..k
      BY <2>1
    <2>3. <<0..k, 0..m>> \in StrictSubsetOrdering(W)
      BY <1>2, <1>4, <1>5, <2>2 DEF StrictSubsetOrdering
    <2>4. QED
      BY <1>4, <1>5, <2>2, <2>3
  <1>7. QED
    BY <1>5, <1>6

\* SetToSeq lists a set without repetition.
LEMMA SetToSeqLists ==
  ASSUME NEW S, IsFiniteSet(S)
  PROVE  /\ Cardinality(S) \in Nat
         /\ SetToSeq(S) \in [1..Cardinality(S) -> S]
         /\ \A i, j \in 1..Cardinality(S) : SetToSeq(S)[i] = SetToSeq(S)[j] => i = j
         /\ \A s \in S : \E i \in 1..Cardinality(S) : SetToSeq(S)[i] = s
  <1> DEFINE k == Cardinality(S)
             f == SetToSeq(S)
  <1>1. k \in Nat /\ ExistsBijection(1..k, S)
    BY FS_CardinalityType
  <1>2. \E g \in [1..k -> S] : IsInjective(g)
    <2>1. PICK g \in Bijection(1..k, S) : TRUE
      BY <1>1 DEF ExistsBijection
    <2>2. g \in [1..k -> S] /\ \A i, j \in 1..k : g[i] = g[j] => i = j
      BY <2>1, Fun_BijectionProperties
    <2>3. QED
      BY <2>2 DEF IsInjective
  <1>3. f \in [1..k -> S] /\ IsInjective(f)
    BY <1>2 DEF SetToSeq
  <1>4. \A i, j \in 1..k : f[i] = f[j] => i = j
    BY <1>3 DEF IsInjective
  <1>5. \A s \in S : \E i \in 1..k : f[i] = s
    <2>1. IsFiniteSet(1..k) /\ Cardinality(1..k) = k
      BY <1>1, FS_Interval
    <2>2. f \in Injection(1..k, S)
      BY <1>3, <1>4, Fun_IsInj
    <2>3. f \in Surjection(1..k, S)
      <3> HIDE DEF f, k
      <3>1. Cardinality(1..k) = Cardinality(S)
        BY <2>1 DEF k
      <3>2. QED
        BY <2>2, <3>1, FS_Injection, Zenon
    <2>4. QED
      <3> HIDE DEF f, k
      <3>1. QED
        BY <2>3 DEF Surjection
  <1>6. QED
    BY <1>1, <1>3, <1>4, <1>5

-----------------------------------------------------------------------------
(* Under gives the least set that has S and, with a node, its children.    *)

Grown(t, A) == A \cup {n \in There(t) : t[n].parent \in A}
ClosedIn(t, C) == \A n \in There(t) : t[n].parent \in C => n \in C
Grows(t, S, g, k) == g = [i \in 0..k |-> IF i = 0 THEN S ELSE Grown(t, g[i - 1])]

\* However many steps down the tree, there is the sequence of what they reach.
LEMMA GrowsFar ==
  ASSUME NEW t, NEW S, NEW k \in Nat
  PROVE  \E g : Grows(t, S, g, k)
  <1> DEFINE Bad == {j \in Nat : ~\E g : Grows(t, S, g, j)}
  <1>1. SUFFICES ASSUME Bad # {}
                 PROVE  FALSE
    OBVIOUS
  <1>2. PICK m \in Bad : \A j \in Bad : m <= j
    <2> HIDE DEF Bad
    <2>1. Bad \subseteq Nat
      BY DEF Bad
    <2>2. QED
      BY <1>1, <2>1, LeastNumber
  <1>3. m \in Nat /\ ~\E g : Grows(t, S, g, m)
    BY <1>2
  <1>4. CASE m = 0
    <2> DEFINE g0 == [i \in 0..0 |-> S]
    <2>1. g0 = [i \in 0..0 |-> IF i = 0 THEN S ELSE Grown(t, g0[i - 1])]
      OBVIOUS
    <2>2. Grows(t, S, g0, m)
      BY <1>4, <2>1 DEF Grows
    <2>3. QED
      BY <1>3, <2>2
  <1>5. CASE m # 0
    <2>1. m - 1 \in Nat /\ m - 1 \notin Bad
      BY <1>2, <1>3, <1>5
    <2>2. PICK g : Grows(t, S, g, m - 1)
      BY <2>1
    <2> DEFINE h == [i \in 0..m |-> IF i < m THEN g[i] ELSE Grown(t, g[m - 1])]
    <2>3. \A i \in 0..(m - 1) : g[i] = IF i = 0 THEN S ELSE Grown(t, g[i - 1])
      BY <2>2 DEF Grows
    <2>4. \A i \in 0..m : h[i] = IF i = 0 THEN S ELSE Grown(t, h[i - 1])
      <3>1. TAKE i \in 0..m
      <3>2. CASE i < m
        <4>1. i \in 0..(m - 1) /\ h[i] = g[i] /\ (i # 0 => h[i - 1] = g[i - 1])
          BY <1>3, <3>2
        <4>2. QED
          BY <2>3, <4>1
      <3>3. CASE i = m
        <4>1. h[i] = Grown(t, g[m - 1]) /\ h[i - 1] = g[m - 1]
          BY <1>3, <1>5, <3>3
        <4>2. QED
          BY <1>5, <3>3, <4>1
      <3>4. QED
        BY <1>3, <3>2, <3>3
    <2>5. h = [i \in 0..m |-> IF i = 0 THEN S ELSE Grown(t, h[i - 1])]
      BY <2>4
    <2>6. Grows(t, S, h, m)
      BY <2>5 DEF Grows
    <2>7. QED
      BY <1>3, <2>6
  <1>6. QED
    BY <1>4, <1>5

\* Under is the last of that sequence.
LEMMA UnderGrows ==
  ASSUME NEW t, NEW S
  PROVE  \E g : Grows(t, S, g, Cardinality(Node)) /\ Under(t, S) = g[Cardinality(Node)]
  <1> DEFINE k == Cardinality(Node)
  <1>1. k \in Nat
    BY TreeConstants, FS_CardinalityType
  <1>2. \E g : Grows(t, S, g, k)
    <2> HIDE DEF k
    <2>1. QED
      BY <1>1, GrowsFar
  <1>3. QED
    BY <1>2 DEF Under, Grows, Grown

\* Induction up to k.
LEMMA StepsUp ==
  ASSUME NEW k \in Nat, NEW T, 0 \in T, \A i \in 0..(k - 1) : i \in T => i + 1 \in T
  PROVE  0..k \subseteq T
  <1> DEFINE Bad == {i \in 0..k : i \notin T}
  <1>1. SUFFICES ASSUME Bad # {}
                 PROVE  FALSE
    OBVIOUS
  <1>2. PICK m \in Bad : \A i \in Bad : m <= i
    <2> HIDE DEF Bad
    <2>1. Bad \subseteq Nat
      BY DEF Bad
    <2>2. QED
      BY <1>1, <2>1, LeastNumber
  <1>3. m \in 0..k /\ m # 0 /\ m \notin T
    BY <1>2
  <1>4. m - 1 \in 0..(k - 1) /\ m - 1 \in T /\ (m - 1) + 1 = m
    BY <1>2, <1>3
  <1>5. QED
    BY <1>3, <1>4

\* Under(t, S) is within S and the nodes of t, has S, has the children of its
\* nodes, and is within every set that has them.
LEMMA UnderLeast ==
  ASSUME NEW t \in Tree, NEW S \in SUBSET Node
  PROVE  /\ S \subseteq Under(t, S) /\ Under(t, S) \subseteq S \cup There(t)
         /\ ClosedIn(t, Under(t, S))
         /\ \A C : S \subseteq C /\ ClosedIn(t, C) => Under(t, S) \subseteq C
  <1> DEFINE k == Cardinality(Node)
  <1>1. IsFiniteSet(Node) /\ k \in Nat
    BY TreeConstants, FS_CardinalityType
  <1>2. PICK g : Grows(t, S, g, k) /\ Under(t, S) = g[k]
    BY UnderGrows
  <1> HIDE DEF k
  <1>3. g[0] = S /\ \A i \in 0..(k - 1) : g[i + 1] = Grown(t, g[i])
    BY <1>1, <1>2 DEF Grows
  <1>4. There(t) \subseteq Node
    BY DEF There
  <1>5. \A i \in 0..k : S \subseteq g[i] /\ g[i] \subseteq S \cup There(t)
    <2> DEFINE T == {i \in 0..k : S \subseteq g[i] /\ g[i] \subseteq S \cup There(t)}
    <2>1. 0 \in T
      BY <1>1, <1>3
    <2>2. ASSUME NEW i \in 0..(k - 1), i \in T
          PROVE  i + 1 \in T
      BY <1>1, <1>3, <2>2 DEF Grown
    <2>3. 0..k \subseteq T
      <3> HIDE DEF T
      <3>1. QED
        BY <1>1, <2>1, <2>2, StepsUp
    <2>4. QED
      BY <2>3
  <1>6. ASSUME NEW C, S \subseteq C, ClosedIn(t, C)
        PROVE  g[k] \subseteq C
    <2> DEFINE T == {i \in 0..k : g[i] \subseteq C}
    <2>1. 0 \in T
      BY <1>1, <1>3, <1>6
    <2>2. ASSUME NEW i \in 0..(k - 1), i \in T
          PROVE  i + 1 \in T
      BY <1>1, <1>3, <1>6, <2>2 DEF Grown, ClosedIn
    <2>3. 0..k \subseteq T
      <3> HIDE DEF T
      <3>1. QED
        BY <1>1, <2>1, <2>2, StepsUp
    <2>4. QED
      BY <1>1, <2>3
  <1>7. \A i \in 0..k : ClosedIn(t, g[i]) \/ Cardinality(g[i]) >= i
    <2> DEFINE T == {i \in 0..k : ClosedIn(t, g[i]) \/ Cardinality(g[i]) >= i}
    <2>1. \A i \in 0..k : IsFiniteSet(g[i]) /\ Cardinality(g[i]) \in Nat
      BY <1>1, <1>4, <1>5, FS_Subset, FS_CardinalityType
    <2>2. 0 \in T
      BY <1>1, <2>1
    <2>3. ASSUME NEW i \in 0..(k - 1), i \in T
          PROVE  i + 1 \in T
      <3>1. i \in 0..k /\ i + 1 \in 0..k /\ g[i + 1] = Grown(t, g[i])
        BY <1>1, <1>3
      <3>2. CASE ClosedIn(t, g[i])
        <4>1. g[i + 1] = g[i]
          BY <3>1, <3>2 DEF Grown, ClosedIn
        <4>2. QED
          BY <3>1, <3>2, <4>1
      <3>3. CASE ~ClosedIn(t, g[i])
        <4>1. PICK n \in There(t) : t[n].parent \in g[i] /\ n \notin g[i]
          BY <3>3 DEF ClosedIn
        <4>2. g[i] \cup {n} \subseteq g[i + 1]
          BY <3>1, <4>1 DEF Grown
        <4>3. Cardinality(g[i] \cup {n}) = Cardinality(g[i]) + 1
          <5> DEFINE A == g[i]
          <5>1. IsFiniteSet(A) /\ n \notin A
            BY <2>1, <3>1, <4>1
          <5> HIDE DEF A
          <5>2. Cardinality(A \cup {n}) = Cardinality(A) + 1
            BY <5>1, FS_AddElement
          <5>3. QED
            BY <5>2 DEF A
        <4>4. Cardinality(g[i] \cup {n}) <= Cardinality(g[i + 1])
          BY <2>1, <3>1, <4>2, FS_Subset
        <4>5. Cardinality(g[i]) >= i
          BY <2>3, <3>3
        <4>6. QED
          BY <1>1, <2>1, <3>1, <4>3, <4>4, <4>5
      <3>4. QED
        BY <3>2, <3>3
    <2>4. 0..k \subseteq T
      <3> HIDE DEF T
      <3>1. QED
        BY <1>1, <2>2, <2>3, StepsUp
    <2>5. QED
      BY <2>4
  <1>8. ClosedIn(t, g[k])
    <2>1. CASE Cardinality(g[k]) >= k
      <3>1. g[k] \in SUBSET Node
        BY <1>1, <1>4, <1>5
      <3>2. Cardinality(g[k]) <= Cardinality(Node) /\ Cardinality(g[k]) \in Nat
        BY <1>1, <3>1, FS_Subset, FS_CardinalityType
      <3>3. g[k] = Node
        BY <1>1, <2>1, <3>1, <3>2, FS_Subset DEF k
      <3>4. QED
        BY <1>4, <3>3 DEF ClosedIn
    <2>2. QED
      BY <1>1, <1>7, <2>1
  <1>9. QED
    BY <1>1, <1>2, <1>5, <1>6, <1>8

-----------------------------------------------------------------------------
(* What becomes of a sequence when a head is taken or an element put.      *)

\* A sequence without its head.
LEMMA TailOf ==
  ASSUME NEW S, NEW s \in Seq(S), s # <<>>
  PROVE  /\ Len(s) \in Nat /\ Len(s) > 0 /\ Head(s) = s[1] /\ s[1] \in S
         /\ Tail(s) \in Seq(S) /\ Len(Tail(s)) = Len(s) - 1
         /\ \A i \in 1..(Len(s) - 1) : Tail(s)[i] = s[i + 1]
  OBVIOUS

\* One put before.
LEMMA ConsOf ==
  ASSUME NEW S, NEW s \in Seq(S), NEW x \in S
  PROVE  /\ <<x>> \o s \in Seq(S) /\ Len(<<x>> \o s) = Len(s) + 1
         /\ (<<x>> \o s)[1] = x
         /\ \A i \in 1..Len(s) : (<<x>> \o s)[i + 1] = s[i]
  OBVIOUS

\* One put behind.
LEMMA AppendOf ==
  ASSUME NEW S, NEW s \in Seq(S), NEW x \in S
  PROVE  /\ Append(s, x) \in Seq(S) /\ Len(Append(s, x)) = Len(s) + 1
         /\ Append(s, x)[Len(s) + 1] = x
         /\ \A i \in 1..Len(s) : Append(s, x)[i] = s[i]
         /\ Last(Append(s, x)) = x /\ Front(Append(s, x)) = s /\ Append(s, x) # <<>>
  <1>1. /\ Append(s, x) \in Seq(S) /\ Len(Append(s, x)) = Len(s) + 1
        /\ Append(s, x)[Len(s) + 1] = x /\ Append(s, x) # <<>>
        /\ \A i \in 1..Len(s) : Append(s, x)[i] = s[i]
    OBVIOUS
  <1>2. Last(Append(s, x)) = x
    BY <1>1 DEF Last
  <1>3. Front(Append(s, x)) = s
    BY <1>1 DEF Front
  <1>4. QED
    BY <1>1, <1>2, <1>3

\* The last one taken.
LEMMA FrontOf ==
  ASSUME NEW S, NEW s \in Seq(S), s # <<>>
  PROVE  /\ Len(s) \in Nat /\ Len(s) > 0 /\ Last(s) = s[Len(s)] /\ s[Len(s)] \in S
         /\ Front(s) \in Seq(S) /\ Len(Front(s)) = Len(s) - 1
         /\ \A i \in 1..(Len(s) - 1) : Front(s)[i] = s[i]
  <1>1. Len(s) \in Nat /\ Len(s) > 0 /\ s[Len(s)] \in S
    OBVIOUS
  <1>2. /\ SubSeq(s, 1, Len(s) - 1) \in Seq(S) /\ Len(SubSeq(s, 1, Len(s) - 1)) = Len(s) - 1
        /\ \A i \in 1..(Len(s) - 1) : SubSeq(s, 1, Len(s) - 1)[i] = s[i]
    <2> DEFINE n == Len(s) - 1
    <2>1. n \in Int /\ 1 \in Int /\ \A i \in 1..n : s[i] \in S
      BY <1>1
    <2> HIDE DEF n
    <2>2. /\ SubSeq(s, 1, n) \in Seq(S)
          /\ Len(SubSeq(s, 1, n)) = IF 1 <= n THEN n - 1 + 1 ELSE 0
          /\ \A i \in 1..(n - 1 + 1) : SubSeq(s, 1, n)[i] = s[1 + i - 1]
      BY <2>1, SubSeqProperties
    <2>3. n \in Nat
      BY <1>1 DEF n
    <2>4. Len(SubSeq(s, 1, n)) = n
      BY <2>2, <2>3
    <2>5. \A i \in 1..n : SubSeq(s, 1, n)[i] = s[i]
      <3>1. TAKE i \in 1..n
      <3>2. i \in 1..(n - 1 + 1) /\ 1 + i - 1 = i
        BY <2>3
      <3>3. QED
        BY <2>2, <3>2
    <2>6. QED
      BY <2>2, <2>4, <2>5 DEF n
  <1>3. QED
    BY <1>1, <1>2 DEF Last, Front

\* Two in a row.
LEMMA ConcatOf ==
  ASSUME NEW S, NEW s \in Seq(S), NEW r \in Seq(S)
  PROVE  /\ s \o r \in Seq(S) /\ Len(s \o r) = Len(s) + Len(r)
         /\ \A i \in 1..Len(s) : (s \o r)[i] = s[i]
         /\ \A i \in 1..Len(r) : (s \o r)[Len(s) + i] = r[i]
  OBVIOUS

-----------------------------------------------------------------------------
(* The types.                                                              *)

MoveMap == UNION {[D -> Node \cup {None}] : D \in SUBSET Node}
Ops == {"rename", "name", "move", "merge", "merge_up", "drop", "insert", "reparent", "remove"}
AnyCall ==
  {Rename(n, x) : n \in Node, x \in Text} \cup {Name(n, x) : n \in Node, x \in Text}
  \cup {Move(n, p) : n \in Node, p \in Node \cup {None}}
  \cup {Merge(n, o) : n \in Node, o \in Node} \cup {MergeUp(n) : n \in Node}
  \cup {DropTo(n, b) : n \in Node, b \in Node} \cup {Insert(n, r) : n \in Node, r \in Row}
  \cup {Reparent(m) : m \in MoveMap} \cup {Delete(n) : n \in Node}

PicRow == Kind \X (Node \cup {None}) \X Text
Pictures == [Node -> PicRow \cup {None}]
Entries == [call : AnyCall \cup {[op |-> "split"]}, undo : Seq(AnyCall \cup {Pop}),
            before : Pictures, after : Pictures]
Items == AnyCall \cup {Pop} \cup {Record(e) : e \in Entries} \cup {Finish(r) : r \in Seq(Entries)}

TypeOK ==
  /\ tree \in Tree /\ shown \in Tree
  /\ log \in Seq(Entries) /\ redo \in Seq(Entries)
  /\ act \in [{"ui", "llm"} -> [todo : Seq(Items), doc : Tree \cup {None}]]
  /\ given \in [Node -> Text \cup {None}]
  /\ amiss \subseteq {"crossed", "overwritten", "bucket", "replayed", "deep"}

\* A call has the arguments of its kind.
LEMMA CallFields ==
  ASSUME NEW c \in AnyCall
  PROVE  /\ c.op \in Ops
         /\ c.op = "rename" => c.at \in Node /\ c.text \in Text /\ c = Rename(c.at, c.text)
         /\ c.op = "name" => c.at \in Node /\ c.text \in Text /\ c = Name(c.at, c.text)
         /\ c.op = "move" => c.at \in Node /\ c.to \in Node \cup {None} /\ c = Move(c.at, c.to)
         /\ c.op = "merge" => c.at \in Node /\ c.other \in Node /\ c = Merge(c.at, c.other)
         /\ c.op = "merge_up" => c.at \in Node /\ c = MergeUp(c.at)
         /\ c.op = "drop" => c.at \in Node /\ c.to \in Node /\ c = DropTo(c.at, c.to)
         /\ c.op = "insert" => c.at \in Node /\ c.row \in Row /\ c = Insert(c.at, c.row)
         /\ c.op = "reparent" => c.moves \in MoveMap /\ c = Reparent(c.moves)
         /\ c.op = "remove" => c.at \in Node /\ c = Delete(c.at)
  <1>1. CASE \E n \in Node, x \in Text : c = Rename(n, x)
    BY <1>1 DEF Rename, Ops
  <1>2. CASE \E n \in Node, x \in Text : c = Name(n, x)
    BY <1>2 DEF Name, Ops
  <1>3. CASE \E n \in Node, p \in Node \cup {None} : c = Move(n, p)
    BY <1>3 DEF Move, Ops
  <1>4. CASE \E n \in Node, o \in Node : c = Merge(n, o)
    BY <1>4 DEF Merge, Ops
  <1>5. CASE \E n \in Node : c = MergeUp(n)
    BY <1>5 DEF MergeUp, Ops
  <1>6. CASE \E n \in Node, b \in Node : c = DropTo(n, b)
    BY <1>6 DEF DropTo, Ops
  <1>7. CASE \E n \in Node, r \in Row : c = Insert(n, r)
    BY <1>7 DEF Insert, Ops
  <1>8. CASE \E m \in MoveMap : c = Reparent(m)
    BY <1>8 DEF Reparent, Ops
  <1>9. CASE \E n \in Node : c = Delete(n)
    BY <1>9 DEF Delete, Ops
  <1>10. QED
    BY <1>1, <1>2, <1>3, <1>4, <1>5, <1>6, <1>7, <1>8, <1>9 DEF AnyCall

\* The calls that are made are calls.
LEMMA CallTypes ==
  /\ \A n \in Node, x \in Text : Rename(n, x) \in AnyCall /\ Name(n, x) \in AnyCall
  /\ \A n \in Node, p \in Node \cup {None} : Move(n, p) \in AnyCall
  /\ \A n \in Node, o \in Node : Merge(n, o) \in AnyCall /\ DropTo(n, o) \in AnyCall
  /\ \A n \in Node : MergeUp(n) \in AnyCall /\ Delete(n) \in AnyCall
  /\ \A n \in Node, r \in Row : Insert(n, r) \in AnyCall
  /\ \A m \in MoveMap : Reparent(m) \in AnyCall
  BY DEF AnyCall

\* A call's name.
LEMMA CallOps ==
  /\ \A n, x : Rename(n, x).op = "rename" /\ Name(n, x).op = "name" /\ Move(n, x).op = "move"
               /\ Merge(n, x).op = "merge" /\ DropTo(n, x).op = "drop" /\ Insert(n, x).op = "insert"
  /\ \A n : MergeUp(n).op = "merge_up" /\ Delete(n).op = "remove" /\ Reparent(n).op = "reparent"
            /\ Record(n).op = "record" /\ Finish(n).op = "finish"
  /\ Pop.op = "pop"
  BY DEF Rename, Name, Move, Merge, DropTo, Insert, MergeUp, Delete, Reparent, Record, Finish, Pop

\* An item of a list of things to do is a call, a record, a pop or the end.
LEMMA ItemFields ==
  ASSUME NEW i \in Items
  PROVE  /\ i \in AnyCall \/ i = Pop \/ (\E e \in Entries : i = Record(e))
            \/ (\E r \in Seq(Entries) : i = Finish(r))
         /\ i.op \notin Off => i \in AnyCall
         /\ i.op = "record" => i.entry \in Entries /\ i = Record(i.entry)
         /\ i.op = "finish" => i.redo \in Seq(Entries) /\ i = Finish(i.redo)
         /\ i.op = "pop" => i = Pop
         /\ i.op \in Ops => i \in AnyCall
  <1>1. CASE i \in AnyCall
    BY <1>1, CallFields DEF Ops
  <1>2. CASE i = Pop
    BY <1>2 DEF Pop, Ops, Off
  <1>3. CASE \E e \in Entries : i = Record(e)
    BY <1>3 DEF Record, Ops, Off
  <1>4. CASE \E r \in Seq(Entries) : i = Finish(r)
    BY <1>4 DEF Finish, Ops, Off
  <1>5. QED
    BY <1>1, <1>2, <1>3, <1>4 DEF Items

-----------------------------------------------------------------------------
(* What a call makes of a tree, row by row.                                *)

\* A tree's rows.
LEMMA TreeRows ==
  ASSUME NEW t \in Tree, NEW n \in Node
  PROVE  /\ n \in There(t) <=> t[n] # None
         /\ n \in There(t) => /\ t[n] \in Row /\ t[n].kind \in Kind /\ t[n].parent \in Node \cup {None}
                              /\ t[n].text \in Text /\ t[n].mine \in BOOLEAN
  BY TreeConstants DEF Tree, Row, There

\* Nodes of a tree are nodes.
LEMMA TreeSets ==
  ASSUME NEW t \in Tree, NEW n
  PROVE  /\ There(t) \subseteq Node /\ Children(t, n) \subseteq There(t)
         /\ \A k : OfKind(t, k) \subseteq There(t)
         /\ Absorbed(t, n) \subseteq There(t) /\ Grandchildren(t, n) \subseteq There(t)
         /\ Leaves(t, n) \subseteq There(t)
         /\ n \in Node => Dropped(t, n) \subseteq There(t) \cup {n} /\ Below(t, n) \subseteq There(t) \cup {n}
  <1>1. There(t) \subseteq Node /\ \A m : Children(t, m) \subseteq There(t)
    BY DEF There, Children
  <1>2. \A k : OfKind(t, k) \subseteq There(t)
    BY DEF OfKind
  <1>3. n \in Node => Below(t, n) \subseteq There(t) \cup {n}
    BY UnderLeast DEF Below
  <1>4. QED
    BY <1>1, <1>2, <1>3 DEF Absorbed, Grandchildren, Leaves, Dropped

\* Moving nodes changes their parents and nothing else.
LEMMA OntoRows ==
  ASSUME NEW t \in Tree, NEW m \in MoveMap
  PROVE  /\ Onto(t, m) \in Tree /\ There(Onto(t, m)) = There(t)
         /\ \A n \in Node : t[n] = None => Onto(t, m)[n] = None
         /\ \A n \in There(t) : Onto(t, m)[n] =
              [kind |-> t[n].kind, parent |-> IF n \in DOMAIN m THEN m[n] ELSE t[n].parent,
               text |-> t[n].text, mine |-> t[n].mine]
  <1>1. PICK D \in SUBSET Node : m \in [D -> Node \cup {None}]
    BY DEF MoveMap
  <1>2. \A n \in Node : t[n] = None => Onto(t, m)[n] = None
    BY DEF Onto
  <1>3. ASSUME NEW n \in There(t)
        PROVE  /\ Onto(t, m)[n] = [kind |-> t[n].kind,
                     parent |-> IF n \in DOMAIN m THEN m[n] ELSE t[n].parent,
                     text |-> t[n].text, mine |-> t[n].mine]
               /\ Onto(t, m)[n] \in Row
    <2>1. n \in Node /\ t[n] # None /\ t[n] \in Row
      BY TreeRows, <1>3 DEF There
    <2>2. Onto(t, m)[n] = IF n \in DOMAIN m THEN [t[n] EXCEPT !.parent = m[n]] ELSE t[n]
      BY <2>1 DEF Onto
    <2>3. n \in DOMAIN m => m[n] \in Node \cup {None}
      BY <1>1
    <2>4. QED
      BY <2>1, <2>2, <2>3 DEF Row
  <1>4. Onto(t, m) \in Tree
    <2>1. Onto(t, m) = [n \in Node |-> Onto(t, m)[n]]
      BY DEF Onto
    <2>2. \A n \in Node : Onto(t, m)[n] \in Row \cup {None}
      BY <1>2, <1>3 DEF There
    <2>3. QED
      BY <2>1, <2>2 DEF Tree
  <1>5. There(Onto(t, m)) = There(t)
    <2>1. \A n \in There(t) : Onto(t, m)[n] # None
      BY <1>3, TreeConstants
    <2>2. QED
      BY <1>2, <2>1 DEF There
  <1>6. QED
    BY <1>2, <1>3, <1>4, <1>5

\* Removing nodes leaves the others.
LEMMA WithoutRows ==
  ASSUME NEW t \in Tree, NEW S
  PROVE  /\ Without(t, S) \in Tree /\ There(Without(t, S)) = There(t) \ S
         /\ \A n \in Node : Without(t, S)[n] = IF n \in S THEN None ELSE t[n]
  BY DEF Without, Tree, There

\* The moves that are made are moves.
LEMMA MoveTypes ==
  /\ \A S \in SUBSET Node, p \in Node \cup {None} :
       /\ ToOne(S, p) \in MoveMap /\ DOMAIN ToOne(S, p) = S
       /\ \A n \in S : ToOne(S, p)[n] = p
  /\ \A t \in Tree : \A S \in SUBSET There(t) :
       /\ Where(t, S) \in MoveMap /\ DOMAIN Where(t, S) = S
       /\ \A n \in S : Where(t, S)[n] = t[n].parent
  <1>1. ASSUME NEW S \in SUBSET Node, NEW p \in Node \cup {None}
        PROVE  /\ ToOne(S, p) \in MoveMap /\ DOMAIN ToOne(S, p) = S
               /\ \A n \in S : ToOne(S, p)[n] = p
    <2>1. ToOne(S, p) \in [S -> Node \cup {None}]
      BY DEF ToOne
    <2>2. QED
      BY <2>1 DEF ToOne, MoveMap
  <1>2. ASSUME NEW t \in Tree, NEW S \in SUBSET There(t)
        PROVE  /\ Where(t, S) \in MoveMap /\ DOMAIN Where(t, S) = S
               /\ \A n \in S : Where(t, S)[n] = t[n].parent
    <2>1. S \in SUBSET Node
      BY DEF There
    <2>2. Where(t, S) \in [S -> Node \cup {None}]
      BY <2>1, TreeRows DEF Where
    <2>3. QED
      BY <2>1, <2>2 DEF Where, MoveMap
  <1>3. QED
    BY <1>1, <1>2

\* Moves to one place are moves.
LEMMA ToOneType ==
  ASSUME NEW S \in SUBSET Node, NEW p \in Node \cup {None}
  PROVE  ToOne(S, p) \in MoveMap
  BY MoveTypes

\* What each call does.
LEMMA ApplyCases ==
  ASSUME NEW t, NEW c
  PROVE  /\ c.op = "rename" => Apply(t, c) = [t EXCEPT ![c.at].text = c.text, ![c.at].mine = TRUE]
         /\ c.op = "name" => Apply(t, c) = Named(t, c.at, c.text)
         /\ c.op = "move" => Apply(t, c) = [t EXCEPT ![c.at].parent = c.to]
         /\ c.op = "merge" =>
              Apply(t, c) = Without(Onto(t, ToOne(Children(t, c.other), c.at)), {c.other})
         /\ c.op = "merge_up" =>
              Apply(t, c) = Without(Onto(t, ToOne(Grandchildren(t, c.at), c.at)), Absorbed(t, c.at))
         /\ c.op = "drop" =>
              Apply(t, c) = Without(Onto(t, ToOne(Leaves(t, c.at), c.to)), Dropped(t, c.at))
         /\ c.op = "insert" => Apply(t, c) = [t EXCEPT ![c.at] = c.row]
         /\ c.op = "reparent" => Apply(t, c) = Onto(t, c.moves)
         /\ c.op = "remove" => Apply(t, c) = Without(t, {c.at})
  BY DEF Apply

\* The nodes a call takes away, and those it moves with where to.
Taken(t, c) ==
  IF c.op = "merge" THEN {c.other} ELSE IF c.op = "merge_up" THEN Absorbed(t, c.at)
  ELSE IF c.op = "drop" THEN Dropped(t, c.at) ELSE IF c.op = "remove" THEN {c.at} ELSE {}
Moved(t, c) ==
  IF c.op = "move" THEN ToOne({c.at}, c.to)
  ELSE IF c.op = "merge" THEN ToOne(Children(t, c.other), c.at)
  ELSE IF c.op = "merge_up" THEN ToOne(Grandchildren(t, c.at), c.at)
  ELSE IF c.op = "drop" THEN ToOne(Leaves(t, c.at), c.to)
  ELSE IF c.op = "reparent" THEN c.moves ELSE ToOne({}, None)

\* They are nodes and moves.
LEMMA MovedTypes ==
  ASSUME NEW t \in Tree, NEW c \in AnyCall
  PROVE  Moved(t, c) \in MoveMap
  <1>1. c.op \in Ops
    BY CallFields
  <1>2. CASE c.op = "move"
    <2>1. c.at \in Node /\ c.to \in Node \cup {None} /\ Moved(t, c) = ToOne({c.at}, c.to)
      BY <1>2, CallFields DEF Moved
    <2>2. QED
      BY <2>1, ToOneType
  <1>3. CASE c.op = "merge"
    <2>1. /\ c.at \in Node \cup {None} /\ Children(t, c.other) \in SUBSET Node
          /\ Moved(t, c) = ToOne(Children(t, c.other), c.at)
      BY <1>3, CallFields, TreeSets DEF Moved
    <2>2. QED
      BY <2>1, ToOneType
  <1>4. CASE c.op = "merge_up"
    <2>1. /\ c.at \in Node \cup {None} /\ Grandchildren(t, c.at) \in SUBSET Node
          /\ Moved(t, c) = ToOne(Grandchildren(t, c.at), c.at)
      BY <1>4, CallFields, TreeSets DEF Moved
    <2>2. QED
      BY <2>1, ToOneType
  <1>5. CASE c.op = "drop"
    <2>1. /\ c.to \in Node \cup {None} /\ Leaves(t, c.at) \in SUBSET Node
          /\ Moved(t, c) = ToOne(Leaves(t, c.at), c.to)
      BY <1>5, CallFields, TreeSets DEF Moved
    <2>2. QED
      BY <2>1, ToOneType
  <1>6. CASE c.op = "reparent"
    BY <1>6, CallFields DEF Moved
  <1>7. CASE c.op \notin {"move", "merge", "merge_up", "drop", "reparent"}
    <2>1. Moved(t, c) = ToOne({}, None)
      BY <1>7 DEF Moved
    <2>2. {} \in SUBSET Node /\ None \in Node \cup {None}
      OBVIOUS
    <2>3. QED
      BY <2>1, <2>2, ToOneType
  <1>8. QED
    BY <1>2, <1>3, <1>4, <1>5, <1>6, <1>7

\* A call that only moves and takes nodes away.
LEMMA Reshapes ==
  ASSUME NEW t \in Tree, NEW c \in AnyCall, Fits(t, c),
         c.op \in {"move", "merge", "merge_up", "drop", "reparent", "remove"}
  PROVE  Apply(t, c) = Without(Onto(t, Moved(t, c)), Taken(t, c))
  <1> DEFINE A == Apply(t, c)
             B == Without(Onto(t, Moved(t, c)), Taken(t, c))
  <1>0. /\ Moved(t, c) \in MoveMap
        /\ B \in Tree
    BY MovedTypes, OntoRows, WithoutRows
  <1>1. CASE c.op = "move"
    <2>1. c.at \in Node /\ c.to \in Node \cup {None} /\ t[c.at] # None /\ t[c.at] \in Row
      BY <1>1, CallFields, TreeRows DEF Fits
    <2>2. A = [t EXCEPT ![c.at].parent = c.to] /\ t = [n \in Node |-> t[n]]
      BY <1>1, ApplyCases DEF Tree
    <2>3. Taken(t, c) = {} /\ Moved(t, c) = ToOne({c.at}, c.to)
      BY <1>1 DEF Taken, Moved
    <2>4. \A n \in Node : B[n] = IF n = c.at THEN [t[n] EXCEPT !.parent = c.to] ELSE t[n]
      BY <2>1, <2>3, MoveTypes DEF Without, Onto
    <2>5. QED
      BY <2>2, <2>4 DEF Without
  <1>2. CASE c.op = "reparent"
    <2>1. A = Onto(t, Moved(t, c)) /\ Taken(t, c) = {}
      BY <1>2, ApplyCases DEF Moved, Taken
    <2>2. QED
      BY <2>1 DEF Without, Onto
  <1>3. CASE c.op = "remove"
    <2>1. A = Without(t, {c.at}) /\ Taken(t, c) = {c.at} /\ Moved(t, c) = ToOne({}, None)
      BY <1>3, ApplyCases DEF Moved, Taken
    <2>2. Onto(t, ToOne({}, None)) = t
      BY DEF Onto, ToOne, Tree
    <2>3. QED
      BY <2>1, <2>2
  <1>4. CASE c.op \in {"merge", "merge_up", "drop"}
    BY <1>4, ApplyCases DEF Moved, Taken
  <1>5. QED
    BY <1>1, <1>2, <1>3, <1>4

Shaping == {"move", "merge", "merge_up", "drop", "reparent", "remove"}

\* A tree after a call, row by row.
LEMMA ApplyRows ==
  ASSUME NEW t \in Tree, NEW c \in AnyCall, Fits(t, c)
  PROVE  /\ Apply(t, c) \in Tree
         /\ c.op = "rename" =>
              /\ t[c.at] # None
              /\ \A n \in Node : Apply(t, c)[n] = IF n # c.at THEN t[n] ELSE
                   [kind |-> t[n].kind, parent |-> t[n].parent, text |-> c.text, mine |-> TRUE]
         /\ c.op = "name" =>
              /\ t[c.at] # None
              /\ \A n \in Node : Apply(t, c)[n] = IF n # c.at \/ t[n].mine THEN t[n] ELSE
                   [kind |-> t[n].kind, parent |-> t[n].parent, text |-> c.text, mine |-> t[n].mine]
         /\ c.op = "insert" => \A n \in Node : Apply(t, c)[n] = IF n = c.at THEN c.row ELSE t[n]
         /\ c.op \in Shaping => \A n \in Node : Apply(t, c)[n] =
              IF t[n] = None \/ n \in Taken(t, c) THEN None ELSE
                [kind |-> t[n].kind,
                 parent |-> IF n \in DOMAIN Moved(t, c) THEN Moved(t, c)[n] ELSE t[n].parent,
                 text |-> t[n].text, mine |-> t[n].mine]
  <1> DEFINE A == Apply(t, c)
  <1>1. c.op \in Ops
    BY CallFields
  <1>2. t = [n \in Node |-> t[n]] /\ \A n \in Node : t[n] \in Row \cup {None}
    BY DEF Tree
  <1>3. CASE c.op = "rename"
    <2>1. c.at \in Node /\ c.text \in Text /\ t[c.at] # None /\ t[c.at] \in Row
      BY <1>3, CallFields, TreeRows DEF Fits
    <2>2. A = [t EXCEPT ![c.at].text = c.text, ![c.at].mine = TRUE]
      BY <1>3, ApplyCases
    <2>3. A[c.at] = [kind |-> t[c.at].kind, parent |-> t[c.at].parent, text |-> c.text, mine |-> TRUE]
      BY <1>2, <2>1, <2>2 DEF Row
    <2>4. \A n \in Node : n # c.at => A[n] = t[n]
      BY <1>2, <2>1, <2>2
    <2>5. A[c.at] \in Row
      BY <2>1, <2>3 DEF Row
    <2>6. A = [n \in Node |-> A[n]]
      BY <1>2, <2>1, <2>2
    <2>7. A \in Tree
      BY <1>2, <2>4, <2>5, <2>6 DEF Tree
    <2>8. QED
      BY <1>3, <2>1, <2>3, <2>4, <2>7 DEF Shaping
  <1>4. CASE c.op = "name"
    <2>1. c.at \in Node /\ c.text \in Text /\ t[c.at] # None /\ t[c.at] \in Row
      BY <1>4, CallFields, TreeRows DEF Fits
    <2>2. A = IF t[c.at].mine THEN t ELSE [t EXCEPT ![c.at].text = c.text]
      BY <1>4, ApplyCases DEF Named
    <2>3. CASE t[c.at].mine
      BY <1>4, <2>1, <2>2, <2>3 DEF Shaping
    <2>4. CASE ~t[c.at].mine
      <3>1. A[c.at] = [kind |-> t[c.at].kind, parent |-> t[c.at].parent, text |-> c.text,
                       mine |-> t[c.at].mine]
        BY <1>2, <2>1, <2>2, <2>4 DEF Row
      <3>2. \A n \in Node : n # c.at => A[n] = t[n]
        BY <1>2, <2>1, <2>2, <2>4
      <3>3. A[c.at] \in Row
        BY <2>1, <3>1 DEF Row
      <3>4. A = [n \in Node |-> A[n]]
        BY <1>2, <2>1, <2>2, <2>4
      <3>5. A \in Tree
        BY <1>2, <3>2, <3>3, <3>4 DEF Tree
      <3>6. QED
        BY <1>4, <2>1, <2>4, <3>1, <3>2, <3>5 DEF Shaping
    <2>5. QED
      BY <2>3, <2>4
  <1>5. CASE c.op = "insert"
    <2>1. c.at \in Node /\ c.row \in Row /\ A = [t EXCEPT ![c.at] = c.row]
      BY <1>5, CallFields, ApplyCases
    <2>2. \A n \in Node : A[n] = IF n = c.at THEN c.row ELSE t[n]
      BY <1>2, <2>1
    <2>3. A \in Tree
      BY <2>1 DEF Tree
    <2>4. QED
      BY <1>5, <2>2, <2>3 DEF Shaping
  <1>6. CASE c.op \in Shaping
    <2>1. A = Without(Onto(t, Moved(t, c)), Taken(t, c))
      BY <1>6, Reshapes DEF Shaping
    <2> DEFINE M == Moved(t, c)
               O == Onto(t, Moved(t, c))
    <2>2. M \in MoveMap
      BY MovedTypes
    <2>3. /\ O \in Tree /\ \A n \in Node : t[n] = None => O[n] = None
          /\ \A n \in There(t) : O[n] =
               [kind |-> t[n].kind, parent |-> IF n \in DOMAIN M THEN M[n] ELSE t[n].parent,
                text |-> t[n].text, mine |-> t[n].mine]
      BY <2>2, OntoRows
    <2>4. A \in Tree /\ \A n \in Node : A[n] = IF n \in Taken(t, c) THEN None ELSE O[n]
      <3> HIDE DEF O
      <3>1. QED
        BY <2>1, <2>3, WithoutRows DEF O
    <2>5. \A n \in Node : t[n] # None => n \in There(t)
      BY DEF There
    <2>6. QED
      BY <1>6, <2>3, <2>4, <2>5 DEF Shaping
  <1>7. QED
    BY <1>1, <1>3, <1>4, <1>5, <1>6 DEF Ops, Shaping

\* The picture of a tree.
LEMMA PictureRows ==
  ASSUME NEW t \in Tree
  PROVE  /\ Picture(t) \in Pictures
         /\ \A n \in Node : (Picture(t)[n] = None) <=> (t[n] = None)
         /\ \A n \in There(t) : Picture(t)[n] = <<t[n].kind, t[n].parent, t[n].text>>
  <1>1. \A n \in There(t) : /\ Picture(t)[n] = <<t[n].kind, t[n].parent, t[n].text>>
                            /\ Picture(t)[n] \in PicRow
    BY TreeRows DEF Picture, There, PicRow
  <1>2. \A n \in Node : t[n] = None => Picture(t)[n] = None
    BY DEF Picture
  <1>3. \A n \in Node : t[n] # None => n \in There(t)
    BY DEF There
  <1>4. None \notin PicRow
    BY TreeConstants DEF PicRow
  <1>5. Picture(t) = [n \in Node |-> Picture(t)[n]]
    BY DEF Picture
  <1>6. Picture(t) \in Pictures
    BY <1>1, <1>2, <1>3, <1>5 DEF Pictures
  <1>7. QED
    BY <1>1, <1>2, <1>3, <1>4, <1>6

\* What restores the nodes S: one insertion for each.
LEMMA RestoredIs ==
  ASSUME NEW t \in Tree, NEW S \in SUBSET There(t)
  PROVE  /\ Restored(t, S) \in Seq(AnyCall) /\ Len(Restored(t, S)) = Cardinality(S)
         /\ Cardinality(S) \in Nat /\ SetToSeq(S) \in [1..Cardinality(S) -> S]
         /\ \A i \in 1..Cardinality(S) :
              Restored(t, S)[i] = Insert(SetToSeq(S)[i], t[SetToSeq(S)[i]])
         /\ \A i, j \in 1..Cardinality(S) : SetToSeq(S)[i] = SetToSeq(S)[j] => i = j
         /\ \A n \in S : \E i \in 1..Cardinality(S) : SetToSeq(S)[i] = n
  <1>1. S \subseteq Node /\ IsFiniteSet(S)
    <2>1. S \in SUBSET Node
      BY DEF There
    <2>2. QED
      BY <2>1, TreeConstants, FS_Subset
  <1> DEFINE k == Cardinality(S)
             q == SetToSeq(S)
  <1>2. /\ k \in Nat /\ q \in [1..k -> S]
        /\ \A i, j \in 1..k : q[i] = q[j] => i = j
        /\ \A n \in S : \E i \in 1..k : q[i] = n
    BY <1>1, SetToSeqLists
  <1>3. Restored(t, S) = [i \in 1..k |-> Insert(q[i], t[q[i]])]
    BY DEF Restored
  <1> HIDE DEF k, q
  <1>4. \A i \in 1..k : Insert(q[i], t[q[i]]) \in AnyCall
    <2>1. TAKE i \in 1..k
    <2>2. q[i] \in Node /\ q[i] \in There(t)
      BY <1>1, <1>2
    <2>3. t[q[i]] \in Row
      BY <2>2, TreeRows
    <2>4. QED
      BY <2>2, <2>3, CallTypes
  <1>5. Restored(t, S) \in Seq(AnyCall) /\ Len(Restored(t, S)) = k
    BY <1>2, <1>3, <1>4
  <1>6. QED
    BY <1>2, <1>3, <1>5 DEF k, q

\* An undo is a list of calls and pops, and an entry an entry.
LEMMA UndoType ==
  ASSUME NEW t \in Tree, NEW c \in AnyCall, Fits(t, c), Logs(t, c)
  PROVE  Undo(t, c) \in Seq(AnyCall \cup {Pop}) /\ Entry(t, c) \in Entries
  <1> DEFINE U == AnyCall \cup {Pop}
  <1>1. c.op \in {"rename", "name", "move", "merge", "merge_up", "drop"}
    BY DEF Logs
  <1>2. Undo(t, c) \in Seq(U)
    <2>1. CASE c.op \in {"rename", "name", "move"}
      <3>1. c.at \in Node /\ t[c.at] # None
        BY <2>1, CallFields DEF Fits
      <3>2. t[c.at].text \in Text /\ t[c.at].parent \in Node \cup {None}
        BY <3>1, TreeRows
      <3>3. Rename(c.at, t[c.at].text) \in U /\ Move(c.at, t[c.at].parent) \in U /\ Pop \in U
        BY <3>1, <3>2, CallTypes
      <3> HIDE DEF U
      <3>4. CASE c.op = "rename"
        <4>1. Undo(t, c) = <<Rename(c.at, t[c.at].text), Pop>>
          BY <3>4 DEF Undo
        <4>2. QED
          BY <3>3, <4>1
      <3>5. CASE c.op = "name"
        <4>1. Undo(t, c) = <<Rename(c.at, t[c.at].text), Pop, Rename(c.at, t[c.at].text), Pop>>
          BY <3>5 DEF Undo
        <4>2. QED
          BY <3>3, <4>1
      <3>6. CASE c.op = "move"
        <4>1. Undo(t, c) = <<Move(c.at, t[c.at].parent), Pop>>
          BY <3>6 DEF Undo
        <4>2. QED
          BY <3>3, <4>1
      <3>7. QED
        BY <2>1, <3>4, <3>5, <3>6
    <2>2. ASSUME NEW S \in SUBSET There(t), NEW D \in SUBSET There(t),
                 Undo(t, c) = Restored(t, S) \o <<Reparent(Where(t, D))>>
          PROVE  Undo(t, c) \in Seq(U)
      <3>1. Where(t, D) \in MoveMap
        BY MoveTypes
      <3>2. Reparent(Where(t, D)) \in U
        BY <3>1, CallTypes
      <3>3. Restored(t, S) \in Seq(U)
        <4>1. Restored(t, S) \in Seq(AnyCall)
          BY RestoredIs
        <4>2. QED
          BY <4>1
      <3> HIDE DEF U
      <3>4. <<Reparent(Where(t, D))>> \in Seq(U)
        BY <3>2
      <3>5. QED
        BY <2>2, <3>3, <3>4
    <2>3. CASE c.op = "merge"
      <3>1. {c.other} \in SUBSET There(t) /\ Children(t, c.other) \in SUBSET There(t)
        BY <2>3, CallFields, TreeSets DEF Fits, There
      <3>2. Undo(t, c) = Restored(t, {c.other}) \o <<Reparent(Where(t, Children(t, c.other)))>>
        BY <2>3 DEF Undo
      <3>3. QED
        BY <2>2, <3>1, <3>2
    <2>4. CASE c.op = "merge_up"
      <3>1. Absorbed(t, c.at) \in SUBSET There(t) /\ Grandchildren(t, c.at) \in SUBSET There(t)
        BY TreeSets
      <3>2. Undo(t, c) = Restored(t, Absorbed(t, c.at))
                           \o <<Reparent(Where(t, Grandchildren(t, c.at)))>>
        BY <2>4 DEF Undo
      <3>3. QED
        BY <2>2, <3>1, <3>2
    <2>5. CASE c.op = "drop"
      <3>1. Dropped(t, c.at) \in SUBSET There(t) /\ Leaves(t, c.at) \in SUBSET There(t)
        <4>1. c.at \in Node /\ c.at \in There(t)
          BY <2>5, CallFields DEF Fits, There
        <4>2. QED
          BY <4>1, TreeSets
      <3>2. Undo(t, c) = Restored(t, Dropped(t, c.at)) \o <<Reparent(Where(t, Leaves(t, c.at)))>>
        BY <2>5 DEF Undo
      <3>3. QED
        BY <2>2, <3>1, <3>2
    <2>6. QED
      BY <1>1, <2>1, <2>3, <2>4, <2>5
  <1>3. Apply(t, c) \in Tree
    BY ApplyRows
  <1>4. Picture(t) \in Pictures /\ Picture(Apply(t, c)) \in Pictures
    BY <1>3, PictureRows
  <1>5. QED
    BY <1>2, <1>4 DEF Entry, Entries

-----------------------------------------------------------------------------
(* What each action does to what there is to do, and the types.            *)

Actors == {"ui", "llm"}

\* The list of an actor, its head and the rest.
LEMMA TodoOf ==
  ASSUME TypeOK, NEW a \in Actors
  PROVE  /\ act[a] \in [todo : Seq(Items), doc : Tree \cup {None}]
         /\ act[a].todo \in Seq(Items) /\ act[a].doc \in Tree \cup {None}
         /\ act[a].todo # <<>> =>
              /\ Next1(a) = act[a].todo[1] /\ Next1(a) \in Items
              /\ Len(act[a].todo) \in Nat /\ Len(act[a].todo) > 0
              /\ Tail(act[a].todo) \in Seq(Items) /\ Len(Tail(act[a].todo)) = Len(act[a].todo) - 1
              /\ \A i \in 1..(Len(act[a].todo) - 1) : Tail(act[a].todo)[i] = act[a].todo[i + 1]
  <1>1. act[a] \in [todo : Seq(Items), doc : Tree \cup {None}]
    BY DEF TypeOK, Actors
  <1>2. act[a].todo \in Seq(Items) /\ act[a].doc \in Tree \cup {None}
    BY <1>1
  <1> DEFINE s == act[a].todo
  <1>3. ASSUME s # <<>>
        PROVE  /\ Head(s) = s[1] /\ s[1] \in Items /\ Len(s) \in Nat /\ Len(s) > 0
               /\ Tail(s) \in Seq(Items) /\ Len(Tail(s)) = Len(s) - 1
               /\ \A i \in 1..(Len(s) - 1) : Tail(s)[i] = s[i + 1]
    <2>1. s \in Seq(Items)
      BY <1>2
    <2> HIDE DEF s
    <2>2. QED
      BY <1>3, <2>1, TailOf
  <1>4. QED
    BY <1>1, <1>2, <1>3 DEF Next1

\* A new list for one actor.
LEMMA NewTodo ==
  ASSUME TypeOK, NEW a \in Actors, NEW r \in [todo : Seq(Items), doc : Tree \cup {None}],
         act' = [act EXCEPT ![a] = r]
  PROVE  /\ act'[a] = r /\ \A b \in Actors : b # a => act'[b] = act[b]
         /\ act' \in [Actors -> [todo : Seq(Items), doc : Tree \cup {None}]]
  BY DEF TypeOK, Actors

\* With only the file's copy, or only the list, changed.
LEMMA NewParts ==
  ASSUME TypeOK, NEW a \in Actors
  PROVE  /\ \A d : [act EXCEPT ![a].doc = d] = [act EXCEPT ![a] = [todo |-> act[a].todo, doc |-> d]]
         /\ \A s : [act EXCEPT ![a].todo = s] = [act EXCEPT ![a] = [todo |-> s, doc |-> act[a].doc]]
         /\ act[a] = [todo |-> act[a].todo, doc |-> act[a].doc]
  <1>1. act[a] \in [todo : Seq(Items), doc : Tree \cup {None}]
    BY TodoOf
  <1>2. act[a] = [todo |-> act[a].todo, doc |-> act[a].doc]
    BY <1>1
  <1>3. /\ \A d : [act[a] EXCEPT !.doc = d] = [todo |-> act[a].todo, doc |-> d]
        /\ \A s : [act[a] EXCEPT !.todo = s] = [todo |-> s, doc |-> act[a].doc]
    BY <1>1
  <1>4. QED
    BY <1>2, <1>3

\* An actor's call is a call.
LEMMA CallOf ==
  ASSUME TypeOK, NEW a \in Actors, Calls(a)
  PROVE  Next1(a) \in AnyCall /\ act[a].todo # <<>>
  BY TodoOf, ItemFields DEF Calls

\* What a load does.
LEMMA LoadDoes ==
  ASSUME TypeOK, NEW a \in Actors, Load(a)
  PROVE  /\ act'[a] = [todo |-> act[a].todo, doc |-> tree]
         /\ \A b \in Actors : b # a => act'[b] = act[b]
         /\ TypeOK'
  <1> DEFINE r == [todo |-> act[a].todo, doc |-> tree]
  <1>1. r \in [todo : Seq(Items), doc : Tree \cup {None}]
    BY TodoOf DEF TypeOK
  <1>2. act' = [act EXCEPT ![a] = r]
    BY NewParts DEF Load
  <1> HIDE DEF r
  <1>3. /\ act'[a] = r /\ \A b \in Actors : b # a => act'[b] = act[b]
        /\ act' \in [Actors -> [todo : Seq(Items), doc : Tree \cup {None}]]
    BY <1>1, <1>2, NewTodo
  <1>4. TypeOK'
    BY <1>3 DEF Load, TypeOK, Actors
  <1>5. QED
    BY <1>3, <1>4 DEF r

\* What an error does.
LEMMA FailDoes ==
  ASSUME TypeOK, NEW a \in Actors, Fail(a)
  PROVE  /\ act'[a] = [todo |-> IF a = "ui" THEN <<>> ELSE Tail(act[a].todo), doc |-> None]
         /\ \A b \in Actors : b # a => act'[b] = act[b]
         /\ TypeOK'
  <1> DEFINE r == [todo |-> IF a = "ui" THEN <<>> ELSE Tail(act[a].todo), doc |-> act[a].doc]
  <1>1. r \in [todo : Seq(Items), doc : Tree \cup {None}]
    BY TodoOf, CallOf DEF Fail
  <1>2. act' = [act EXCEPT ![a] = r]
    BY NewParts DEF Fail
  <1>3. act[a].doc = None
    BY DEF Fail
  <1> HIDE DEF r
  <1>4. /\ act'[a] = r /\ \A b \in Actors : b # a => act'[b] = act[b]
        /\ act' \in [Actors -> [todo : Seq(Items), doc : Tree \cup {None}]]
    BY <1>1, <1>2, NewTodo
  <1>5. TypeOK'
    BY <1>4 DEF Fail, TypeOK, Actors
  <1>6. QED
    BY <1>3, <1>4, <1>5 DEF r

\* What a save puts in front of the rest: the record, if the call has one.
Recording(t, c) == IF Logs(t, c) THEN <<Record(Entry(t, c))>> ELSE <<>>

\* What a save does.
LEMMA SaveDoes ==
  ASSUME TypeOK, NEW a \in Actors, Save(a)
  PROVE  /\ Loaded(a) \in Tree /\ Next1(a) \in AnyCall /\ act[a].todo # <<>>
         /\ Fits(Loaded(a), Next1(a)) /\ tree' = Apply(Loaded(a), Next1(a))
         /\ act'[a] = [todo |-> Recording(Loaded(a), Next1(a)) \o Tail(act[a].todo), doc |-> None]
         /\ \A b \in Actors : b # a => act'[b] = act[b]
         /\ given' = GivenAfter(Loaded(a), Next1(a))
         /\ Logs(Loaded(a), Next1(a)) => Entry(Loaded(a), Next1(a)) \in Entries
         /\ TypeOK'
  <1> DEFINE t == Loaded(a)
             c == Next1(a)
             r == [todo |-> Recording(t, c) \o Tail(act[a].todo), doc |-> None]
  <1>1. Calls(a) /\ t # None /\ Fits(t, c)
    BY DEF Save
  <1>2. t \in Tree
    BY <1>1, TodoOf DEF Loaded, TypeOK
  <1>3. c \in AnyCall /\ act[a].todo # <<>> /\ Tail(act[a].todo) \in Seq(Items)
    BY <1>1, CallOf, TodoOf
  <1>4. Logs(t, c) => Entry(t, c) \in Entries
    <2> HIDE DEF t, c
    <2>1. QED
      BY <1>1, <1>2, <1>3, UndoType
  <1>5. r \in [todo : Seq(Items), doc : Tree \cup {None}]
    <2> DEFINE s == Tail(act[a].todo)
               e == Entry(t, c)
    <2>1. CASE Logs(t, c)
      <3>1. Record(e) \in Items /\ s \in Seq(Items)
        BY <1>3, <1>4, <2>1 DEF Items
      <3>2. Recording(t, c) = <<Record(e)>>
        BY <2>1 DEF Recording
      <3> HIDE DEF e, s
      <3>3. <<Record(e)>> \o s \in Seq(Items)
        BY <3>1
      <3>4. QED
        BY <3>2, <3>3 DEF s
    <2>2. CASE ~Logs(t, c)
      <3>1. Recording(t, c) = <<>> /\ s \in Seq(Items)
        BY <1>3, <2>2 DEF Recording
      <3> HIDE DEF e, s
      <3>2. <<>> \o s \in Seq(Items)
        BY <3>1
      <3>3. QED
        BY <3>1, <3>2 DEF s
    <2>3. QED
      BY <2>1, <2>2
  <1>6. act' = [act EXCEPT ![a] = r]
    BY DEF Save, Recording
  <1>7. tree' = Apply(t, c) /\ given' = GivenAfter(t, c)
    BY DEF Save
  <1>8. given' \in [Node -> Text \cup {None}]
    <2> HIDE DEF t, c
    <2>1. CASE c.op = "rename"
      <3>1. c.at \in Node /\ c.text \in Text /\ given' = [given EXCEPT ![c.at] = c.text]
        BY <1>3, <1>7, <2>1, CallFields DEF GivenAfter
      <3>2. QED
        BY <3>1 DEF TypeOK
    <2>2. CASE c.op = "remove"
      <3>1. given' = [given EXCEPT ![c.at] = None]
        BY <1>7, <2>2 DEF GivenAfter
      <3>2. QED
        BY <3>1 DEF TypeOK
    <2>3. CASE c.op = "insert"
      <3>1. given' = [given EXCEPT ![c.at] = IF t[c.at] = None /\ c.row = Fresh(c.row.parent)
                                             THEN None ELSE given[c.at]]
        BY <1>7, <2>3 DEF GivenAfter
      <3>2. c.at \in Node
        BY <1>3, <2>3, CallFields
      <3>3. given[c.at] \in Text \cup {None}
        BY <3>2 DEF TypeOK
      <3>4. QED
        BY <3>1, <3>2, <3>3 DEF TypeOK
    <2>4. CASE c.op \notin {"rename", "remove", "insert"}
      <3>1. given' = given
        BY <1>7, <2>4 DEF GivenAfter
      <3>2. QED
        BY <3>1 DEF TypeOK
    <2>5. QED
      BY <2>1, <2>2, <2>3, <2>4
  <1>9. tree' \in Tree
    <2> HIDE DEF t, c
    <2>1. QED
      BY <1>1, <1>2, <1>3, <1>7, ApplyRows
  <1>10. /\ act'[a] = r /\ \A b \in Actors : b # a => act'[b] = act[b]
         /\ act' \in [Actors -> [todo : Seq(Items), doc : Tree \cup {None}]]
    <2> HIDE DEF r
    <2>1. QED
      BY <1>5, <1>6, NewTodo
  <1>11. amiss' \subseteq {"crossed", "overwritten", "bucket", "replayed", "deep"}
    BY DEF Save, TypeOK, Crossing
  <1>12. UNCHANGED <<log, redo, shown>>
    BY DEF Save
  <1>13. TypeOK'
    BY <1>8, <1>9, <1>10, <1>11, <1>12 DEF TypeOK, Actors
  <1>14. QED
    BY <1>1, <1>2, <1>3, <1>4, <1>7, <1>10, <1>13

\* What appending to the history does.
LEMMA AppendDoes ==
  ASSUME TypeOK, NEW a \in Actors, AppendHistory(a)
  PROVE  /\ act[a].todo # <<>> /\ Next1(a).op = "record" /\ Next1(a).entry \in Entries
         /\ log' = Append(log, Next1(a).entry)
         /\ act'[a] = [todo |-> Tail(act[a].todo), doc |-> act[a].doc]
         /\ \A b \in Actors : b # a => act'[b] = act[b]
         /\ TypeOK'
  <1> DEFINE r == [todo |-> Tail(act[a].todo), doc |-> act[a].doc]
  <1>1. act[a].todo # <<>> /\ Next1(a).op = "record" /\ log' = Append(log, Next1(a).entry)
    BY DEF AppendHistory, Waits
  <1>2. Next1(a) \in Items /\ Next1(a).entry \in Entries
    BY <1>1, TodoOf, ItemFields
  <1>3. r \in [todo : Seq(Items), doc : Tree \cup {None}]
    BY <1>1, TodoOf
  <1>4. act' = [act EXCEPT ![a] = r]
    BY NewParts DEF AppendHistory
  <1> HIDE DEF r
  <1>5. /\ act'[a] = r /\ \A b \in Actors : b # a => act'[b] = act[b]
        /\ act' \in [Actors -> [todo : Seq(Items), doc : Tree \cup {None}]]
    BY <1>3, <1>4, NewTodo
  <1>6. log' \in Seq(Entries)
    BY <1>1, <1>2, AppendOf DEF TypeOK
  <1>7. TypeOK'
    BY <1>5, <1>6 DEF AppendHistory, TypeOK, Actors, Crossing
  <1>8. QED
    BY <1>1, <1>2, <1>5, <1>7 DEF r

\* What taking the last entry off does.
LEMMA PopDoes ==
  ASSUME TypeOK, PopHistory
  PROVE  /\ act["ui"].todo # <<>> /\ Next1("ui").op = "pop"
         /\ log' = IF log = <<>> THEN log ELSE Front(log)
         /\ act'["ui"] = [todo |-> Tail(act["ui"].todo), doc |-> act["ui"].doc]
         /\ act'["llm"] = act["llm"]
         /\ TypeOK'
  <1> DEFINE r == [todo |-> Tail(act["ui"].todo), doc |-> act["ui"].doc]
  <1>0. "ui" \in Actors /\ "llm" \in Actors
    BY DEF Actors
  <1>1. /\ act["ui"].todo # <<>> /\ Next1("ui").op = "pop"
        /\ log' = IF log = <<>> THEN log ELSE Front(log)
    BY DEF PopHistory, Waits
  <1>3. r \in [todo : Seq(Items), doc : Tree \cup {None}]
    BY <1>0, <1>1, TodoOf
  <1>4. act' = [act EXCEPT !["ui"] = r]
    BY <1>0, NewParts DEF PopHistory
  <1> HIDE DEF r
  <1>5. /\ act'["ui"] = r /\ act'["llm"] = act["llm"]
        /\ act' \in [Actors -> [todo : Seq(Items), doc : Tree \cup {None}]]
    BY <1>0, <1>3, <1>4, NewTodo
  <1>6. log' \in Seq(Entries)
    BY <1>1, FrontOf DEF TypeOK
  <1>7. TypeOK'
    BY <1>5, <1>6 DEF PopHistory, TypeOK, Actors
  <1>8. QED
    BY <1>1, <1>5, <1>7 DEF r

\* What the end of a verb does.
LEMMA FinishDoes ==
  ASSUME TypeOK, FinishVerb
  PROVE  /\ act["ui"].todo # <<>> /\ Next1("ui").op = "finish"
         /\ redo' = Next1("ui").redo
         /\ act'["ui"] = Idle /\ act'["llm"] = act["llm"]
         /\ TypeOK'
  <1>0. "ui" \in Actors /\ "llm" \in Actors
    BY DEF Actors
  <1>1. act["ui"].todo # <<>> /\ Next1("ui").op = "finish" /\ redo' = Next1("ui").redo
    BY DEF FinishVerb, Waits
  <1>2. redo' \in Seq(Entries)
    BY <1>0, <1>1, TodoOf, ItemFields
  <1>3. Idle \in [todo : Seq(Items), doc : Tree \cup {None}]
    BY DEF Idle
  <1>4. act' = [act EXCEPT !["ui"] = Idle]
    BY DEF FinishVerb
  <1>5. /\ act'["ui"] = Idle /\ act'["llm"] = act["llm"]
        /\ act' \in [Actors -> [todo : Seq(Items), doc : Tree \cup {None}]]
    BY <1>0, <1>3, <1>4, NewTodo
  <1>6. TypeOK'
    BY <1>2, <1>5 DEF FinishVerb, TypeOK, Actors
  <1>7. QED
    BY <1>1, <1>5, <1>6

\* What the end of a naming does.
LEMMA JobDoes ==
  ASSUME TypeOK, FinishJob
  PROVE  act'["llm"] = Idle /\ act'["ui"] = act["ui"] /\ TypeOK'
  <1>0. "ui" \in Actors /\ "llm" \in Actors
    BY DEF Actors
  <1>3. Idle \in [todo : Seq(Items), doc : Tree \cup {None}]
    BY DEF Idle
  <1>4. act' = [act EXCEPT !["llm"] = Idle]
    BY DEF FinishJob
  <1>5. /\ act'["llm"] = Idle /\ act'["ui"] = act["ui"]
        /\ act' \in [Actors -> [todo : Seq(Items), doc : Tree \cup {None}]]
    BY <1>0, <1>3, <1>4, NewTodo
  <1>6. TypeOK'
    BY <1>5 DEF FinishJob, TypeOK, Actors
  <1>7. QED
    BY <1>5, <1>6

\* Where a verb begins.
LEMMA BeginDoes ==
  ASSUME TypeOK, NEW s \in Seq(Items), Begin(s)
  PROVE  /\ act["ui"] = Idle /\ act'["ui"] = [todo |-> s, doc |-> None] /\ act'["llm"] = act["llm"]
         /\ tree' = tree /\ shown' = shown /\ given' = given
         /\ act' \in [Actors -> [todo : Seq(Items), doc : Tree \cup {None}]]
  <1>0. "ui" \in Actors /\ "llm" \in Actors
    BY DEF Actors
  <1>1. act["ui"] = Idle
    BY DEF Begin, UiIdle
  <1> DEFINE r == [todo |-> s, doc |-> act["ui"].doc]
  <1>2. r \in [todo : Seq(Items), doc : Tree \cup {None}] /\ r = [todo |-> s, doc |-> None]
    BY <1>1 DEF Idle
  <1>3. act' = [act EXCEPT !["ui"] = r]
    BY <1>0, NewParts DEF Begin
  <1> HIDE DEF r
  <1>4. /\ act'["ui"] = r /\ act'["llm"] = act["llm"]
        /\ act' \in [Actors -> [todo : Seq(Items), doc : Tree \cup {None}]]
    BY <1>0, <1>2, <1>3, NewTodo
  <1>5. QED
    BY <1>1, <1>2, <1>4 DEF Begin

\* The verbs that are one call, with what the sidebar asks of it.
Simple == {"rename", "move", "merge", "merge_up", "drop"}
Offered(c) ==
  /\ c.op \in Simple
  /\ c.op = "move" => /\ c.at \in There(shown) /\ c.to \in There(shown)
                      /\ c.to \notin Below(shown, c.at)
  /\ c.op = "merge" => /\ c.at \in There(shown) /\ c.other \in OfKind(shown, "cluster")
                       /\ c.at # c.other
  /\ c.op = "merge_up" => c.at \in There(shown)
  /\ c.op = "drop" => c.at \in There(shown) /\ c.to \in There(shown)

OneCall == RenameNode \/ MoveNode \/ MergeSiblings \/ MergeChildrenUp \/ DropCluster

\* What the sidebar offers.
LEMMA OneCallOffered ==
  ASSUME TypeOK, OneCall
  PROVE  \E c \in AnyCall : Edit(c) /\ Offered(c)
  <1>0. /\ There(shown) \subseteq Node
        /\ \A k : OfKind(shown, k) \subseteq There(shown)
    BY TreeSets DEF TypeOK
  <1>1. CASE RenameNode
    <2>1. PICK n \in There(shown), x \in UserText : Edit(Rename(n, x))
      BY <1>1 DEF RenameNode
    <2>2. Rename(n, x) \in AnyCall /\ Rename(n, x).op = "rename"
      BY <1>0, CallTypes, CallOps DEF Text
    <2>3. Offered(Rename(n, x))
      BY <2>2 DEF Offered, Simple
    <2>4. QED
      BY <2>1, <2>2, <2>3
  <1>2. CASE MoveNode
    <2>1. PICK n \in There(shown), p \in There(shown) :
            p \notin Below(shown, n) /\ Edit(Move(n, p))
      BY <1>0, <1>2 DEF MoveNode, Clusters
    <2>2. Move(n, p) \in AnyCall /\ Move(n, p).op = "move"
      BY <1>0, CallTypes, CallOps
    <2>3. Offered(Move(n, p))
      BY <2>1 DEF Offered, Simple, Move
    <2>4. QED
      BY <2>1, <2>2, <2>3
  <1>3. CASE MergeSiblings
    <2>1. PICK n \in There(shown), o \in Clusters : n # o /\ Edit(Merge(n, o))
      BY <1>3 DEF MergeSiblings
    <2>2. Merge(n, o) \in AnyCall
      BY <1>0, CallTypes DEF Clusters
    <2>3. Offered(Merge(n, o))
      BY <2>1 DEF Offered, Simple, Merge, Clusters
    <2>4. QED
      BY <2>1, <2>2, <2>3
  <1>4. CASE MergeChildrenUp
    <2>1. PICK n \in There(shown) : Edit(MergeUp(n))
      BY <1>0, <1>4 DEF MergeChildrenUp, Clusters
    <2>2. MergeUp(n) \in AnyCall
      BY <1>0, CallTypes
    <2>3. Offered(MergeUp(n))
      BY <2>1 DEF Offered, Simple, MergeUp
    <2>4. QED
      BY <2>1, <2>2, <2>3
  <1>5. CASE DropCluster
    <2>1. PICK n \in There(shown), b \in There(shown) : Edit(DropTo(n, b))
      BY <1>0, <1>5 DEF DropCluster, Clusters
    <2>2. DropTo(n, b) \in AnyCall
      BY <1>0, CallTypes
    <2>3. Offered(DropTo(n, b))
      BY <2>1 DEF Offered, Simple, DropTo
    <2>4. QED
      BY <2>1, <2>2, <2>3
  <1>6. QED
    BY <1>1, <1>2, <1>3, <1>4, <1>5 DEF OneCall

\* What such a verb does.
LEMMA EditDoes ==
  ASSUME TypeOK, NEW c \in AnyCall, Edit(c)
  PROVE  /\ act["ui"] = Idle /\ act'["ui"] = [todo |-> <<c, Finish(redo)>>, doc |-> None]
         /\ act'["llm"] = act["llm"]
         /\ amiss = {} /\ amiss' = Interrupts
         /\ UNCHANGED <<tree, shown, given, log, redo>>
         /\ TypeOK'
  <1> DEFINE s == <<c, Finish(redo)>>
  <1>1. s \in Seq(Items)
    <2>1. c \in Items /\ Finish(redo) \in Items
      BY DEF Items, TypeOK
    <2>2. QED
      BY <2>1
  <1>2. Begin(s) /\ amiss = {} /\ amiss' = Interrupts /\ UNCHANGED <<log, redo>>
    BY DEF Edit, Verb
  <1> HIDE DEF s
  <1>3. /\ act["ui"] = Idle /\ act'["ui"] = [todo |-> s, doc |-> None] /\ act'["llm"] = act["llm"]
        /\ tree' = tree /\ shown' = shown /\ given' = given
        /\ act' \in [Actors -> [todo : Seq(Items), doc : Tree \cup {None}]]
    BY <1>1, <1>2, BeginDoes
  <1>4. TypeOK'
    BY <1>2, <1>3 DEF TypeOK, Actors, Interrupts
  <1>5. QED
    BY <1>2, <1>3, <1>4 DEF s

\* The list of a split's calls.
SplitPlan(n, A, B) ==
  <<Insert(Halves[n][1], Fresh(n)), Insert(Halves[n][2], Fresh(n)), Reparent(SplitMoves(n, A, B)),
    Record(SplitEntry(n, A, B)), Finish(<<>>)>>
SplitWrong(n, A, B) ==
  IF A \cup B \subseteq Children(tree, n) /\ \A h \in {1, 2} : tree[Halves[n][h]] = None
  THEN {} ELSE {"deep"}

\* What a split asks.
SplitAsks(n, A, B) ==
  /\ n \in Clusters \cap DOMAIN Halves
  /\ A \in SUBSET Leaves(tree, n) /\ B \in SUBSET Leaves(tree, n)
  /\ A # {} /\ B # {} /\ A \cap B = {}

\* The parts of a split have their types.
LEMMA SplitTypes ==
  ASSUME TypeOK, NEW n, NEW A, NEW B, SplitAsks(n, A, B)
  PROVE  /\ n \in Node /\ Halves[n][1] \in Node /\ Halves[n][2] \in Node
         /\ Halves[n][1] # Halves[n][2] /\ n \in There(shown)
         /\ A \in SUBSET There(tree) /\ B \in SUBSET There(tree) /\ There(tree) \subseteq Node
         /\ Fresh(n) \in Row
         /\ SplitMoves(n, A, B) \in MoveMap /\ DOMAIN SplitMoves(n, A, B) = A \cup B
         /\ \A m \in A : SplitMoves(n, A, B)[m] = Halves[n][1]
         /\ \A m \in B : SplitMoves(n, A, B)[m] = Halves[n][2]
         /\ SplitTree(n, A, B) \in Tree
         /\ SplitEntry(n, A, B) \in Entries
  <1>1. /\ n \in There(shown) /\ n \in DOMAIN Halves
        /\ A \in SUBSET There(tree) /\ B \in SUBSET There(tree) /\ There(tree) \subseteq Node
        /\ There(shown) \subseteq Node
    BY TreeSets DEF SplitAsks, Clusters, TypeOK
  <1>2. /\ n \in Node /\ Halves[n][1] \in Node /\ Halves[n][2] \in Node
        /\ Halves[n][1] # Halves[n][2]
    BY <1>1, TreeConstants
  <1>3. Fresh(n) \in Row
    BY <1>2 DEF Fresh, Row, Kind, Text
  <1>4. /\ DOMAIN SplitMoves(n, A, B) = A \cup B
        /\ \A m \in A : SplitMoves(n, A, B)[m] = Halves[n][1]
        /\ \A m \in B : SplitMoves(n, A, B)[m] = Halves[n][2]
        /\ SplitMoves(n, A, B) \in [A \cup B -> Node \cup {None}]
    BY <1>2 DEF SplitAsks, SplitMoves
  <1>5. SplitMoves(n, A, B) \in MoveMap
    BY <1>1, <1>4 DEF MoveMap
  <1> DEFINE t1 == [tree EXCEPT ![Halves[n][1]] = Fresh(n), ![Halves[n][2]] = Fresh(n)]
  <1>6. t1 \in Tree
    BY <1>2, <1>3 DEF TypeOK, Tree
  <1>7. SplitTree(n, A, B) = Onto(t1, SplitMoves(n, A, B))
    BY DEF SplitTree
  <1>8. SplitTree(n, A, B) \in Tree
    <2> HIDE DEF t1
    <2>1. QED
      BY <1>5, <1>6, <1>7, OntoRows
  <1>9. SplitEntry(n, A, B) \in Entries
    <2>1. Picture(tree) \in Pictures /\ Picture(SplitTree(n, A, B)) \in Pictures
      BY <1>8, PictureRows DEF TypeOK
    <2>2. ToOne(A \cup B, n) \in MoveMap
      <3> DEFINE D == A \cup B
      <3>1. D \in SUBSET Node /\ n \in Node \cup {None}
        BY <1>1, <1>2
      <3> HIDE DEF D
      <3>2. ToOne(D, n) \in MoveMap
        BY <3>1, ToOneType
      <3>3. QED
        BY <3>2 DEF D
    <2>3. /\ Reparent(ToOne(A \cup B, n)) \in AnyCall
          /\ Delete(Halves[n][1]) \in AnyCall /\ Delete(Halves[n][2]) \in AnyCall
      BY <1>2, <2>2, CallTypes
    <2>4. <<Reparent(ToOne(A \cup B, n)), Delete(Halves[n][1]), Delete(Halves[n][2])>>
            \in Seq(AnyCall \cup {Pop})
      BY <2>3
    <2>5. QED
      BY <2>1, <2>4 DEF SplitEntry, Entries
  <1>10. QED
    BY <1>1, <1>2, <1>3, <1>4, <1>5, <1>8, <1>9

\* The end that leaves no redo is an item.
LEMMA FinishNothing == Finish(<<>>) \in Items
  <1>1. <<>> \in Seq(Entries)
    OBVIOUS
  <1>2. QED
    BY <1>1 DEF Items

\* What a split begins.
LEMMA SplitDoes ==
  ASSUME TypeOK, SplitCluster
  PROVE  \E n, A, B :
           /\ SplitAsks(n, A, B)
           /\ act["ui"] = Idle /\ act'["ui"] = [todo |-> SplitPlan(n, A, B), doc |-> None]
           /\ act'["llm"] = act["llm"]
           /\ amiss = {} /\ amiss' = Interrupts \cup SplitWrong(n, A, B)
           /\ UNCHANGED <<tree, shown, given, log, redo>>
           /\ TypeOK'
  <1>1. PICK n \in Clusters \cap DOMAIN Halves : \E A, B \in SUBSET Leaves(tree, n) :
          /\ A # {} /\ B # {} /\ A \cap B = {}
          /\ Verb(SplitPlan(n, A, B), SplitWrong(n, A, B))
    BY DEF SplitCluster, SplitPlan, SplitWrong
  <1>2. PICK A \in SUBSET Leaves(tree, n), B \in SUBSET Leaves(tree, n) :
          /\ A # {} /\ B # {} /\ A \cap B = {}
          /\ Verb(SplitPlan(n, A, B), SplitWrong(n, A, B))
    BY <1>1
  <1>3. SplitAsks(n, A, B)
    BY <1>2 DEF SplitAsks
  <1>4. SplitPlan(n, A, B) \in Seq(Items)
    <2>1. /\ n \in Node /\ Halves[n][1] \in Node /\ Halves[n][2] \in Node /\ Fresh(n) \in Row
          /\ SplitMoves(n, A, B) \in MoveMap /\ SplitEntry(n, A, B) \in Entries
      BY <1>3, SplitTypes
    <2>2. /\ Insert(Halves[n][1], Fresh(n)) \in AnyCall /\ Insert(Halves[n][2], Fresh(n)) \in AnyCall
          /\ Reparent(SplitMoves(n, A, B)) \in AnyCall
      BY <2>1, CallTypes
    <2>3. /\ Insert(Halves[n][1], Fresh(n)) \in Items /\ Insert(Halves[n][2], Fresh(n)) \in Items
          /\ Reparent(SplitMoves(n, A, B)) \in Items
          /\ Record(SplitEntry(n, A, B)) \in Items
      BY <2>1, <2>2 DEF Items
    <2>4. Finish(<<>>) \in Items
      BY FinishNothing
    <2>5. QED
      BY <2>3, <2>4 DEF SplitPlan
  <1> DEFINE s == SplitPlan(n, A, B)
  <1>5. /\ Begin(s) /\ amiss = {} /\ amiss' = Interrupts \cup SplitWrong(n, A, B)
        /\ UNCHANGED <<log, redo>>
    BY <1>2 DEF Verb
  <1> HIDE DEF s
  <1>6. /\ act["ui"] = Idle /\ act'["ui"] = [todo |-> s, doc |-> None] /\ act'["llm"] = act["llm"]
        /\ tree' = tree /\ shown' = shown /\ given' = given
        /\ act' \in [Actors -> [todo : Seq(Items), doc : Tree \cup {None}]]
    BY <1>4, <1>5, BeginDoes DEF s
  <1>7. TypeOK'
    BY <1>5, <1>6 DEF TypeOK, Actors, Interrupts, SplitWrong
  <1>8. QED
    BY <1>3, <1>5, <1>6, <1>7 DEF s

\* What an undo begins: the last entry's own calls.
LEMMA UndoDoes ==
  ASSUME TypeOK, UndoLast
  PROVE  /\ log # <<>> /\ Last(log) \in Entries /\ log' = Front(log)
         /\ Last(log).undo \in Seq(Items) /\ Finish(Append(redo, Last(log))) \in Items
         /\ act["ui"] = Idle
         /\ act'["ui"] = [todo |-> Last(log).undo \o <<Finish(Append(redo, Last(log)))>>, doc |-> None]
         /\ act'["llm"] = act["llm"]
         /\ amiss' = amiss \cup Interrupts
         /\ UNCHANGED <<tree, shown, given, redo>>
         /\ TypeOK'
  <1> DEFINE e == Last(log)
             f == Finish(Append(redo, e))
             s == e.undo \o <<f>>
  <1>1. log # <<>> /\ log' = Front(log) /\ Begin(s) /\ amiss' = amiss \cup Interrupts /\ redo' = redo
    BY DEF UndoLast
  <1>2. e \in Entries /\ log' \in Seq(Entries)
    BY <1>1, FrontOf DEF TypeOK
  <1>3. e.undo \in Seq(Items)
    <2>1. e.undo \in Seq(AnyCall \cup {Pop})
      BY <1>2 DEF Entries
    <2>2. AnyCall \cup {Pop} \subseteq Items
      BY DEF Items
    <2>3. QED
      BY <2>1, <2>2
  <1>4. f \in Items
    <2>1. Append(redo, e) \in Seq(Entries)
      BY <1>2 DEF TypeOK
    <2>2. QED
      BY <2>1 DEF Items
  <1>5. s \in Seq(Items)
    <2> HIDE DEF e, f
    <2>1. <<f>> \in Seq(Items)
      BY <1>4
    <2>2. QED
      BY <1>3, <2>1
  <1> HIDE DEF s
  <1>6. /\ act["ui"] = Idle /\ act'["ui"] = [todo |-> s, doc |-> None] /\ act'["llm"] = act["llm"]
        /\ tree' = tree /\ shown' = shown /\ given' = given
        /\ act' \in [Actors -> [todo : Seq(Items), doc : Tree \cup {None}]]
    BY <1>1, <1>5, BeginDoes
  <1>7. TypeOK'
    BY <1>1, <1>2, <1>6 DEF TypeOK, Actors, Interrupts
  <1>8. QED
    BY <1>1, <1>2, <1>3, <1>4, <1>6, <1>7 DEF s

\* What a redo begins: the last undone call, or nothing.
LEMMA RedoDoes ==
  ASSUME TypeOK, RedoLast
  PROVE  /\ redo # <<>> /\ Last(redo) \in Entries /\ redo' = Front(redo)
         /\ act["ui"] = Idle /\ act'["llm"] = act["llm"]
         /\ \/ Last(redo).call.op \in {"split", "name"} /\ act'["ui"] = Idle
            \/ /\ Last(redo).call.op \notin {"split", "name"} /\ Last(redo).call \in AnyCall
               /\ act'["ui"] = [todo |-> <<Last(redo).call, Finish(Front(redo))>>, doc |-> None]
         /\ amiss' = amiss \cup Interrupts
              \cup (IF Shape(Last(redo).before) = Shape(Picture(tree)) THEN {} ELSE {"replayed"})
         /\ UNCHANGED <<tree, shown, given, log>>
         /\ TypeOK'
  <1> DEFINE e == Last(redo)
             s == IF e.call.op \in {"split", "name"} THEN <<>> ELSE <<e.call, Finish(Front(redo))>>
  <1>1. /\ redo # <<>> /\ redo' = Front(redo) /\ Begin(s) /\ log' = log
        /\ amiss' = amiss \cup Interrupts
              \cup (IF Shape(e.before) = Shape(Picture(tree)) THEN {} ELSE {"replayed"})
    BY DEF RedoLast
  <1>2. e \in Entries /\ Front(redo) \in Seq(Entries)
    BY <1>1, FrontOf DEF TypeOK
  <1>3. e.call.op \notin {"split", "name"} => e.call \in AnyCall
    BY <1>2 DEF Entries
  <1>4. s \in Seq(Items)
    <2>1. e.call.op \notin {"split", "name"} => e.call \in Items /\ Finish(Front(redo)) \in Items
      BY <1>2, <1>3 DEF Items
    <2> HIDE DEF e
    <2>2. QED
      BY <2>1
  <1> HIDE DEF s
  <1>5. /\ act["ui"] = Idle /\ act'["ui"] = [todo |-> s, doc |-> None] /\ act'["llm"] = act["llm"]
        /\ tree' = tree /\ shown' = shown /\ given' = given
        /\ act' \in [Actors -> [todo : Seq(Items), doc : Tree \cup {None}]]
    BY <1>1, <1>4, BeginDoes
  <1>6. TypeOK'
    BY <1>1, <1>2, <1>5 DEF TypeOK, Actors, Interrupts
  <1>7. QED
    BY <1>1, <1>2, <1>3, <1>5, <1>6 DEF s, Idle

\* What a naming begins: a call to name each target, and the end.
LEMMA NamingDoes ==
  ASSUME TypeOK, NameClusters
  PROVE  /\ act["ui"] = Idle /\ act'["ui"] = act["ui"] /\ act["llm"] = Idle
         /\ act'["llm"].todo \in Seq(Items) /\ act'["llm"].doc = None
         /\ \A i \in 1..Len(act'["llm"].todo) :
              act'["llm"].todo[i].op = "name" \/ act'["llm"].todo[i] = Finish(<<>>)
         /\ UNCHANGED <<tree, shown, given, log, redo, amiss>>
         /\ TypeOK'
  <1>1. PICK S \in kSubset(1, Clusters), x \in ModelText :
          /\ UiIdle /\ act["llm"] = Idle
          /\ act' = [act EXCEPT !["llm"].todo =
                       [i \in 1..Cardinality(S) |-> Name(SetToSeq(S)[i], x)] \o <<Finish(<<>>)>>]
          /\ UNCHANGED <<tree, log, redo, shown, given, amiss>>
    BY DEF NameClusters
  <1>2. S \in SUBSET Node /\ IsFiniteSet(S)
    <2>1. S \subseteq Clusters
      BY DEF kSubset
    <2>2. Clusters \subseteq Node
      BY TreeSets DEF Clusters, TypeOK
    <2>3. QED
      BY <2>1, <2>2, TreeConstants, FS_Subset
  <1> DEFINE k == Cardinality(S)
             q == SetToSeq(S)
             u == [i \in 1..k |-> Name(q[i], x)]
             f == Finish(<<>>)
             s == u \o <<f>>
  <1>3. k \in Nat /\ q \in [1..k -> S]
    BY <1>2, SetToSeqLists
  <1>4. \A i \in 1..k : Name(q[i], x) \in Items /\ Name(q[i], x).op = "name"
    <2> HIDE DEF k, q
    <2>1. TAKE i \in 1..k
    <2>2. q[i] \in Node /\ x \in Text
      BY <1>2, <1>3 DEF Text
    <2>3. QED
      BY <2>2, CallTypes, CallOps DEF Items
  <1>5. f \in Items
    BY FinishNothing
  <1>6. u \in Seq(Items) /\ Len(u) = k /\ \A i \in 1..k : u[i] = Name(q[i], x)
    <2> HIDE DEF k, q
    <2>1. QED
      BY <1>3, <1>4
  <1>7. /\ s \in Seq(Items) /\ Len(s) = k + 1
        /\ \A i \in 1..(k + 1) : s[i].op = "name" \/ s[i] = f
    <2> HIDE DEF k, q, u, f
    <2>1. s \in Seq(Items) /\ Len(s) = k + 1
      BY <1>3, <1>5, <1>6
    <2>2. \A i \in 1..k : s[i] = u[i]
      BY <1>3, <1>5, <1>6
    <2>3. s[k + 1] = f
      BY <1>3, <1>5, <1>6
    <2>4. \A i \in 1..(k + 1) : i \in 1..k \/ i = k + 1
      BY <1>3
    <2>5. QED
      BY <1>4, <1>5, <1>6, <2>1, <2>2, <2>3, <2>4
  <1>8. "llm" \in Actors /\ "ui" \in Actors
    BY DEF Actors
  <1> HIDE DEF s
  <1> DEFINE r == [todo |-> s, doc |-> act["llm"].doc]
  <1>9. r \in [todo : Seq(Items), doc : Tree \cup {None}] /\ r = [todo |-> s, doc |-> None]
    BY <1>1, <1>7 DEF Idle
  <1>10. act' = [act EXCEPT !["llm"] = r]
    BY <1>1, <1>8, NewParts DEF s
  <1> HIDE DEF r
  <1>11. /\ act'["llm"] = r /\ act'["ui"] = act["ui"]
         /\ act' \in [Actors -> [todo : Seq(Items), doc : Tree \cup {None}]]
    BY <1>8, <1>9, <1>10, NewTodo
  <1>12. TypeOK'
    BY <1>1, <1>11 DEF TypeOK, Actors
  <1>13. act["ui"] = Idle /\ act["llm"] = Idle
    BY <1>1 DEF UiIdle
  <1> HIDE DEF k
  <1>14. \A i \in 1..Len(s) : s[i].op = "name" \/ s[i] = Finish(<<>>)
    BY <1>7
  <1>15. act'["llm"].todo = s /\ act'["llm"].doc = None
    BY <1>9, <1>11
  <1>16. QED
    BY <1>1, <1>7, <1>11, <1>12, <1>13, <1>14, <1>15

\* What discarding the tree does.
LEMMA DiscardDoes ==
  ASSUME TypeOK, DiscardTree
  PROVE  /\ act["ui"] = Idle
         /\ tree' = NoTree /\ shown' = NoTree /\ log' = <<>> /\ redo' = <<>>
         /\ UNCHANGED <<act, given, amiss>>
         /\ TypeOK'
  <1>1. NoTree \in Tree
    BY DEF NoTree, Tree
  <1>2. TypeOK'
    BY <1>1 DEF DiscardTree, TypeOK
  <1>3. QED
    BY <1>2 DEF DiscardTree, UiIdle

\* The steps there are.
StepOf(a) == Load(a) \/ Fail(a) \/ Save(a) \/ AppendHistory(a)

\* A step of the specification is one of these.
LEMMA NextCases ==
  ASSUME TypeOK, [Next]_vars
  PROVE  \/ \E c \in AnyCall : Edit(c) /\ Offered(c)
         \/ SplitCluster \/ UndoLast \/ RedoLast \/ NameClusters \/ DiscardTree
         \/ \E a \in Actors : StepOf(a)
         \/ PopHistory \/ FinishVerb \/ FinishJob
         \/ UNCHANGED vars
  <1>1. CASE Verbs
    <2>1. OneCall \/ SplitCluster \/ UndoLast \/ RedoLast \/ NameClusters \/ DiscardTree
      BY <1>1 DEF Verbs, OneCall
    <2>2. QED
      BY <2>1, OneCallOffered
  <1>2. CASE Steps
    BY <1>2 DEF Steps, StepOf, Actors
  <1>3. QED
    BY <1>1, <1>2 DEF Next

\* A session starts with the types.
LEMMA TypesInit ==
  ASSUME Init
  PROVE  TypeOK
  <1>1. tree \in Tree /\ shown \in Tree
    BY TreeConstants DEF Init
  <1>2. <<>> \in Seq(Entries) /\ <<>> \in Seq(Items)
    OBVIOUS
  <1>3. Idle \in [todo : Seq(Items), doc : Tree \cup {None}]
    BY <1>2 DEF Idle
  <1>4. act \in [{"ui", "llm"} -> [todo : Seq(Items), doc : Tree \cup {None}]]
    BY <1>3 DEF Init
  <1>5. QED
    BY <1>1, <1>2, <1>4 DEF Init, TypeOK

\* Every step keeps the types.
LEMMA TypesStep ==
  ASSUME TypeOK, [Next]_vars
  PROVE  TypeOK'
  <1>1. CASE \E c \in AnyCall : Edit(c) /\ Offered(c)
    BY <1>1, EditDoes
  <1>2. CASE SplitCluster
    BY <1>2, SplitDoes
  <1>3. CASE UndoLast
    BY <1>3, UndoDoes
  <1>4. CASE RedoLast
    BY <1>4, RedoDoes
  <1>5. CASE NameClusters
    BY <1>5, NamingDoes
  <1>6. CASE DiscardTree
    BY <1>6, DiscardDoes
  <1>7. ASSUME NEW a \in Actors, StepOf(a)
        PROVE  TypeOK'
    BY <1>7, LoadDoes, FailDoes, SaveDoes, AppendDoes DEF StepOf
  <1>8. CASE PopHistory
    BY <1>8, PopDoes
  <1>9. CASE FinishVerb
    BY <1>9, FinishDoes
  <1>10. CASE FinishJob
    BY <1>10, JobDoes
  <1>11. CASE UNCHANGED vars
    BY <1>11 DEF vars, TypeOK
  <1>12. QED
    BY <1>1, <1>2, <1>3, <1>4, <1>5, <1>6, <1>7, <1>8, <1>9, <1>10, <1>11, NextCases

\* What the model's variables hold stays what it is: trees, histories of
\* entries, and lists of calls and of the host's bookkeeping.
THEOREM TreeTypes == Spec => []TypeOK
  <1>1. Init => TypeOK
    BY TypesInit
  <1>2. TypeOK /\ [Next]_vars => TypeOK'
    BY TypesStep
  <1>3. QED
    BY <1>1, <1>2, PTL DEF Spec

-----------------------------------------------------------------------------
(* What is remembered for undo.                                            *)

\* What a call takes away was there, and so was what it moves, which stays; it
\* takes clusters, or the parts of a dropped one that are no leaves.
LEMMA TakenThere ==
  ASSUME NEW t \in Tree, NEW c \in AnyCall, Fits(t, c), c.op \in {"merge", "merge_up", "drop"}
  PROVE  /\ Taken(t, c) \in SUBSET There(t) /\ DOMAIN Moved(t, c) \in SUBSET There(t)
         /\ c.op # "merge" => \A n \in Taken(t, c) : t[n].kind # "leaf"
         /\ c.op = "merge" => Taken(t, c) = {c.other}
  <1>1. CASE c.op = "merge"
    <2>1. /\ c.other \in Node /\ t[c.other] # None /\ c.at \in Node \cup {None}
          /\ Taken(t, c) = {c.other} /\ Moved(t, c) = ToOne(Children(t, c.other), c.at)
      BY <1>1, CallFields DEF Fits, Taken, Moved
    <2>2. DOMAIN Moved(t, c) = Children(t, c.other)
      BY <2>1 DEF ToOne
    <2>3. QED
      BY <1>1, <2>1, <2>2, TreeSets DEF There
  <1>2. CASE c.op = "merge_up"
    <2>1. Taken(t, c) = Absorbed(t, c.at) /\ Moved(t, c) = ToOne(Grandchildren(t, c.at), c.at)
      BY <1>2 DEF Taken, Moved
    <2>2. DOMAIN Moved(t, c) = Grandchildren(t, c.at)
      BY <2>1 DEF ToOne
    <2>3. \A n \in Absorbed(t, c.at) : t[n].kind = "cluster"
      BY DEF Absorbed, OfKind
    <2>4. QED
      BY <1>2, <2>1, <2>2, <2>3, TreeSets
  <1>3. CASE c.op = "drop"
    <2>1. /\ c.at \in Node /\ t[c.at] # None
          /\ Taken(t, c) = Dropped(t, c.at) /\ Moved(t, c) = ToOne(Leaves(t, c.at), c.to)
      BY <1>3, CallFields DEF Fits, Taken, Moved
    <2>2. DOMAIN Moved(t, c) = Leaves(t, c.at)
      BY <2>1 DEF ToOne
    <2>3. Dropped(t, c.at) \subseteq There(t)
      BY <2>1, TreeSets DEF There
    <2>4. \A n \in Dropped(t, c.at) : t[n].kind # "leaf"
      BY <2>3 DEF Dropped, OfKind
    <2>5. QED
      BY <1>3, <2>1, <2>2, <2>3, <2>4, TreeSets
  <1>4. QED
    BY <1>1, <1>2, <1>3

\* The undo of a call that takes nodes away: insert them all, move all back.
LEMMA UndoOfTaking ==
  ASSUME NEW t \in Tree, NEW c \in AnyCall, Fits(t, c), c.op \in {"merge", "merge_up", "drop"}
  PROVE  Undo(t, c) = Restored(t, Taken(t, c)) \o <<Reparent(Where(t, DOMAIN Moved(t, c)))>>
  <1>1. CASE c.op = "merge"
    BY <1>1 DEF Undo, Taken, Moved, ToOne
  <1>2. CASE c.op = "merge_up"
    BY <1>2 DEF Undo, Taken, Moved, ToOne
  <1>3. CASE c.op = "drop"
    BY <1>3 DEF Undo, Taken, Moved, ToOne
  <1>4. QED
    BY <1>1, <1>2, <1>3

\* Its calls, one by one: each node taken is inserted once, as it was.
LEMMA TakingItems ==
  ASSUME NEW t \in Tree, NEW c \in AnyCall, Fits(t, c), c.op \in {"merge", "merge_up", "drop"},
         NEW k, k = Cardinality(Taken(t, c)), NEW q, q = SetToSeq(Taken(t, c))
  PROVE  /\ k \in Nat /\ Len(Undo(t, c)) = k + 1
         /\ q \in [1..k -> Taken(t, c)]
         /\ \A i \in 1..k : Undo(t, c)[i] = Insert(q[i], t[q[i]])
         /\ \A i, j \in 1..k : q[i] = q[j] => i = j
         /\ \A n \in Taken(t, c) : \E i \in 1..k : q[i] = n
         /\ Undo(t, c)[k + 1] = Reparent(Where(t, DOMAIN Moved(t, c)))
  <1> DEFINE S == Taken(t, c)
             M == Where(t, DOMAIN Moved(t, c))
             rest == Restored(t, S)
             last == <<Reparent(M)>>
  <1>1. S \in SUBSET There(t) /\ DOMAIN Moved(t, c) \in SUBSET There(t)
    BY TakenThere
  <1>2. /\ rest \in Seq(AnyCall) /\ Len(rest) = k /\ k \in Nat /\ q \in [1..k -> S]
        /\ \A i \in 1..k : rest[i] = Insert(q[i], t[q[i]])
        /\ \A i, j \in 1..k : q[i] = q[j] => i = j
        /\ \A n \in S : \E i \in 1..k : q[i] = n
    <2> HIDE DEF S
    <2>1. QED
      BY <1>1, RestoredIs DEF S
  <1>3. last \in Seq(AnyCall) /\ Len(last) = 1 /\ last[1] = Reparent(M)
    <2>1. M \in MoveMap
      BY <1>1, MoveTypes
    <2>2. Reparent(M) \in AnyCall
      BY <2>1, CallTypes
    <2>3. QED
      BY <2>2
  <1>4. Undo(t, c) = rest \o last
    BY UndoOfTaking
  <1> HIDE DEF rest, last
  <1>5. /\ Len(rest \o last) = k + 1 /\ \A i \in 1..k : (rest \o last)[i] = rest[i]
        /\ (rest \o last)[k + 1] = last[1]
    <2>1. /\ Len(rest \o last) = Len(rest) + Len(last)
          /\ \A i \in 1..Len(rest) : (rest \o last)[i] = rest[i]
          /\ \A i \in 1..Len(last) : (rest \o last)[Len(rest) + i] = last[i]
      <3>1. rest \in Seq(AnyCall) /\ last \in Seq(AnyCall)
        BY <1>2, <1>3
      <3>2. QED
        BY <3>1, ConcatOf
    <2>2. QED
      BY <1>2, <1>3, <2>1
  <1>6. QED
    BY <1>2, <1>3, <1>4, <1>5

\* An undo renames and pops, moves and pops, or inserts what was taken.
LEMMA UndoItems ==
  ASSUME NEW t \in Tree, NEW c \in AnyCall, Fits(t, c), Logs(t, c),
         NEW i \in 1..Len(Undo(t, c))
  PROVE  /\ Undo(t, c)[i].op \in {"rename", "move", "pop", "insert", "reparent"}
         /\ Undo(t, c)[i].op = "insert" =>
              /\ c.op \in {"merge", "merge_up", "drop"}
              /\ Undo(t, c)[i].at \in Taken(t, c) /\ Undo(t, c)[i].row = t[Undo(t, c)[i].at]
  <1>1. c.op \in {"rename", "name", "move", "merge", "merge_up", "drop"}
    BY DEF Logs
  <1>2. CASE c.op = "rename"
    <2>1. Undo(t, c) = <<Rename(c.at, t[c.at].text), Pop>>
      BY <1>2 DEF Undo
    <2>2. Undo(t, c)[i] = Rename(c.at, t[c.at].text) \/ Undo(t, c)[i] = Pop
      BY <2>1
    <2>3. QED
      BY <2>2, CallOps
  <1>3. CASE c.op = "name"
    <2>1. Undo(t, c) = <<Rename(c.at, t[c.at].text), Pop, Rename(c.at, t[c.at].text), Pop>>
      BY <1>3 DEF Undo
    <2>2. Undo(t, c)[i] = Rename(c.at, t[c.at].text) \/ Undo(t, c)[i] = Pop
      BY <2>1
    <2>3. QED
      BY <2>2, CallOps
  <1>4. CASE c.op = "move"
    <2>1. Undo(t, c) = <<Move(c.at, t[c.at].parent), Pop>>
      BY <1>4 DEF Undo
    <2>2. Undo(t, c)[i] = Move(c.at, t[c.at].parent) \/ Undo(t, c)[i] = Pop
      BY <2>1
    <2>3. QED
      BY <2>2, CallOps
  <1>5. CASE c.op \in {"merge", "merge_up", "drop"}
    <2> DEFINE k == Cardinality(Taken(t, c))
               q == SetToSeq(Taken(t, c))
    <2>1. /\ k \in Nat /\ Len(Undo(t, c)) = k + 1 /\ q \in [1..k -> Taken(t, c)]
          /\ \A j \in 1..k : Undo(t, c)[j] = Insert(q[j], t[q[j]])
          /\ Undo(t, c)[k + 1] = Reparent(Where(t, DOMAIN Moved(t, c)))
      BY <1>5, TakingItems
    <2> HIDE DEF k, q
    <2>2. i \in 1..k \/ i = k + 1
      BY <2>1
    <2>3. CASE i = k + 1
      BY <2>1, <2>3, CallOps
    <2>4. CASE i \in 1..k
      <3>1. Undo(t, c)[i] = Insert(q[i], t[q[i]]) /\ q[i] \in Taken(t, c)
        BY <2>1, <2>4
      <3>2. QED
        BY <1>5, <3>1 DEF Insert
    <2>5. QED
      BY <2>2, <2>3, <2>4
  <1>6. QED
    BY <1>1, <1>2, <1>3, <1>4, <1>5

-----------------------------------------------------------------------------
(* No leaf is lost.                                                        *)

\* Call c takes none of L away and puts nothing in its place; nor does what an
\* entry would undo or redo, or an item would do.
Spares(L, c) == /\ c.op = "merge" => c.other \notin L
                /\ c.op \in {"insert", "remove"} => c.at \notin L
EntrySpares(L, e) == Spares(L, e.call) /\ \A i \in 1..Len(e.undo) : Spares(L, e.undo[i])
AllSpare(L, s) == \A k \in 1..Len(s) : EntrySpares(L, s[k])
ItemSpares(L, i) == /\ Spares(L, i)
                    /\ i.op = "record" => EntrySpares(L, i.entry)
                    /\ i.op = "finish" => AllSpare(L, i.redo)
TodoSpares(L, s) == \A k \in 1..Len(s) : ItemSpares(L, s[k])

\* The leaves L of t.
Keeps(L, t) == \A n \in L : t[n] # None /\ t[n].kind = "leaf"
Holds(L, t) == t \in {None, NoTree} \/ Keeps(L, t)

\* L is the leaves of a first tree.
FirstLeaves(L) == \E t \in FirstTrees : L = OfKind(t, "leaf")

\* Whatever holds a tree has the leaves L, and nothing ahead takes one away.
LeavesStay(L) ==
  /\ Holds(L, tree) /\ Holds(L, shown) /\ AllSpare(L, log) /\ AllSpare(L, redo)
  /\ \A a \in Actors : Holds(L, act[a].doc) /\ TodoSpares(L, act[a].todo)

\* No half of a split is a leaf of a first tree.
LEMMA HalvesAreNoLeaves ==
  ASSUME NEW L, FirstLeaves(L)
  PROVE  /\ L \in SUBSET Node
         /\ \A n \in DOMAIN Halves : Halves[n][1] \notin L /\ Halves[n][2] \notin L
  <1>1. PICK t \in FirstTrees : L = OfKind(t, "leaf")
    BY DEF FirstLeaves
  <1>2. \A n \in L : n \in Node /\ t[n] # None /\ t[n].kind = "leaf"
    BY <1>1 DEF OfKind, There
  <1>3. ASSUME NEW n \in DOMAIN Halves, NEW h \in {1, 2}
        PROVE  t[Halves[n][h]] = None \/ t[Halves[n][h]].kind # "leaf"
    BY <1>1, TreeConstants
  <1>4. \A n \in DOMAIN Halves, h \in {1, 2} : Halves[n][h] \notin L
    BY <1>2, <1>3
  <1>5. QED
    BY <1>2, <1>4

\* A call that spares the leaves leaves them.
LEMMA ApplyKeeps ==
  ASSUME NEW L \in SUBSET Node, NEW t \in Tree, NEW c \in AnyCall, Fits(t, c), Keeps(L, t),
         Spares(L, c)
  PROVE  Keeps(L, Apply(t, c))
  <1>1. SUFFICES ASSUME NEW n \in L
                 PROVE  Apply(t, c)[n] # None /\ Apply(t, c)[n].kind = "leaf"
    BY DEF Keeps
  <1>2. n \in Node /\ t[n] # None /\ t[n].kind = "leaf" /\ t[n] \in Row
    BY TreeRows DEF Keeps
  <1>3. c.op \in Ops
    BY CallFields
  <1>4. CASE c.op = "rename"
    <2>1. Apply(t, c)[n] = t[n] \/ Apply(t, c)[n] =
            [kind |-> t[n].kind, parent |-> t[n].parent, text |-> c.text, mine |-> TRUE]
      BY <1>2, <1>4, ApplyRows
    <2>2. c.text \in Text
      BY <1>4, CallFields
    <2>3. [kind |-> t[n].kind, parent |-> t[n].parent, text |-> c.text, mine |-> TRUE] \in Row
      BY <1>2, <2>2 DEF Row
    <2>4. QED
      BY <1>2, <2>1, <2>3, TreeConstants
  <1>5. CASE c.op = "name"
    <2>1. Apply(t, c)[n] = t[n] \/ Apply(t, c)[n] =
            [kind |-> t[n].kind, parent |-> t[n].parent, text |-> c.text, mine |-> t[n].mine]
      BY <1>2, <1>5, ApplyRows
    <2>2. c.text \in Text
      BY <1>5, CallFields
    <2>3. [kind |-> t[n].kind, parent |-> t[n].parent, text |-> c.text, mine |-> t[n].mine] \in Row
      BY <1>2, <2>2 DEF Row
    <2>4. QED
      BY <1>2, <2>1, <2>3, TreeConstants
  <1>6. CASE c.op = "insert"
    <2>1. n # c.at
      BY <1>6 DEF Spares
    <2>2. QED
      BY <1>2, <1>6, <2>1, ApplyRows
  <1>7. CASE c.op \in Shaping
    <2>1. n \notin Taken(t, c)
      <3>1. CASE c.op \in {"merge", "merge_up", "drop"}
        BY <1>2, <3>1, TakenThere DEF Spares
      <3>2. CASE c.op = "remove"
        BY <3>2 DEF Spares, Taken
      <3>3. CASE c.op \in {"move", "reparent"}
        BY <3>3 DEF Taken
      <3>4. QED
        BY <1>7, <3>1, <3>2, <3>3 DEF Shaping
    <2> DEFINE p == IF n \in DOMAIN Moved(t, c) THEN Moved(t, c)[n] ELSE t[n].parent
               r == [kind |-> t[n].kind, parent |-> p, text |-> t[n].text, mine |-> t[n].mine]
    <2>2. Apply(t, c)[n] = r
      BY <1>2, <1>7, <2>1, ApplyRows
    <2>3. Apply(t, c) \in Tree
      BY ApplyRows
    <2>4. Moved(t, c) \in MoveMap
      BY MovedTypes
    <2>5. p \in Node \cup {None}
      BY <1>2, <2>4 DEF MoveMap, Row
    <2> HIDE DEF p
    <2>6. r \in Row
      BY <1>2, <2>5 DEF Row
    <2>7. QED
      BY <1>2, <2>2, <2>6, TreeConstants
  <1>8. QED
    BY <1>3, <1>4, <1>5, <1>6, <1>7 DEF Ops, Shaping

\* A call that fits a tree that holds the leaves leaves them.
LEMMA ApplyHolds ==
  ASSUME NEW L \in SUBSET Node, NEW t \in Tree, NEW c \in AnyCall, Fits(t, c), Holds(L, t),
         Spares(L, c)
  PROVE  Keeps(L, t) /\ Holds(L, Apply(t, c))
  <1>1. Keeps(L, t)
    BY TreeConstants DEF Fits, Holds
  <1>2. QED
    BY <1>1, ApplyKeeps DEF Holds

\* The entry of such a call spares them too.
LEMMA EntryOfSpares ==
  ASSUME NEW L \in SUBSET Node, NEW t \in Tree, NEW c \in AnyCall, Fits(t, c), Logs(t, c),
         Keeps(L, t), Spares(L, c)
  PROVE  EntrySpares(L, Entry(t, c))
  <1>1. ASSUME NEW i \in 1..Len(Undo(t, c))
        PROVE  Spares(L, Undo(t, c)[i])
    <2>1. /\ Undo(t, c)[i].op \in {"rename", "move", "pop", "insert", "reparent"}
          /\ Undo(t, c)[i].op = "insert" =>
               c.op \in {"merge", "merge_up", "drop"} /\ Undo(t, c)[i].at \in Taken(t, c)
      BY UndoItems
    <2>2. c.op \in {"merge", "merge_up", "drop"} => \A n \in Taken(t, c) : n \notin L
      BY TakenThere DEF Spares, Keeps
    <2>3. QED
      BY <2>1, <2>2 DEF Spares
  <1>2. Entry(t, c).call = c /\ Entry(t, c).undo = Undo(t, c)
    BY DEF Entry
  <1>3. QED
    BY <1>1, <1>2 DEF EntrySpares

\* Entries and items that spare L, put in a row or taken from one.
LEMMA SparingRows ==
  ASSUME NEW L
  PROVE  /\ AllSpare(L, <<>>) /\ TodoSpares(L, <<>>)
         /\ \A s \in Seq(Entries), e \in Entries :
              AllSpare(L, s) /\ EntrySpares(L, e) => AllSpare(L, Append(s, e))
         /\ \A s \in Seq(Entries) : s # <<>> /\ AllSpare(L, s) =>
              AllSpare(L, Front(s)) /\ EntrySpares(L, Last(s))
         /\ \A s \in Seq(Items) : s # <<>> /\ TodoSpares(L, s) =>
              TodoSpares(L, Tail(s)) /\ ItemSpares(L, Head(s))
         /\ \A s \in Seq(Items), r \in Seq(Items) :
              TodoSpares(L, s) /\ TodoSpares(L, r) => TodoSpares(L, s \o r)
  <1>1. AllSpare(L, <<>>) /\ TodoSpares(L, <<>>)
    BY DEF AllSpare, TodoSpares
  <1>2. ASSUME NEW s \in Seq(Entries), NEW e \in Entries, AllSpare(L, s), EntrySpares(L, e)
        PROVE  AllSpare(L, Append(s, e))
    <2>1. /\ Len(Append(s, e)) = Len(s) + 1 /\ Append(s, e)[Len(s) + 1] = e
          /\ \A i \in 1..Len(s) : Append(s, e)[i] = s[i]
      BY AppendOf
    <2>2. \A k \in 1..(Len(s) + 1) : k \in 1..Len(s) \/ k = Len(s) + 1
      OBVIOUS
    <2>3. QED
      BY <1>2, <2>1, <2>2 DEF AllSpare
  <1>3. ASSUME NEW s \in Seq(Entries), s # <<>>, AllSpare(L, s)
        PROVE  AllSpare(L, Front(s)) /\ EntrySpares(L, Last(s))
    <2>1. /\ Len(s) \in Nat /\ Len(s) > 0 /\ Last(s) = s[Len(s)] /\ Len(Front(s)) = Len(s) - 1
          /\ \A i \in 1..(Len(s) - 1) : Front(s)[i] = s[i]
      BY <1>3, FrontOf
    <2>2. Len(s) \in 1..Len(s) /\ \A k \in 1..(Len(s) - 1) : k \in 1..Len(s)
      BY <2>1
    <2>3. QED
      BY <1>3, <2>1, <2>2 DEF AllSpare
  <1>4. ASSUME NEW s \in Seq(Items), s # <<>>, TodoSpares(L, s)
        PROVE  TodoSpares(L, Tail(s)) /\ ItemSpares(L, Head(s))
    <2>1. /\ Len(s) \in Nat /\ Len(s) > 0 /\ Head(s) = s[1] /\ Len(Tail(s)) = Len(s) - 1
          /\ \A i \in 1..(Len(s) - 1) : Tail(s)[i] = s[i + 1]
      BY <1>4, TailOf
    <2>2. 1 \in 1..Len(s) /\ \A k \in 1..(Len(s) - 1) : k + 1 \in 1..Len(s)
      BY <2>1
    <2>3. QED
      BY <1>4, <2>1, <2>2 DEF TodoSpares
  <1>5. ASSUME NEW s \in Seq(Items), NEW r \in Seq(Items), TodoSpares(L, s), TodoSpares(L, r)
        PROVE  TodoSpares(L, s \o r)
    <2>1. /\ Len(s \o r) = Len(s) + Len(r)
          /\ \A i \in 1..Len(s) : (s \o r)[i] = s[i]
          /\ \A i \in 1..Len(r) : (s \o r)[Len(s) + i] = r[i]
      BY ConcatOf
    <2>2. \A k \in 1..(Len(s) + Len(r)) :
            k \in 1..Len(s) \/ (k - Len(s) \in 1..Len(r) /\ k = Len(s) + (k - Len(s)))
      OBVIOUS
    <2>3. QED
      BY <1>5, <2>1, <2>2 DEF TodoSpares
  <1>6. QED
    BY <1>1, <1>2, <1>3, <1>4, <1>5

\* A call an entry or a verb makes, as an item.
LEMMA ItemOfCall ==
  ASSUME NEW L, NEW i, i.op \notin Off \/ i.op = "pop"
  PROVE  ItemSpares(L, i) <=> Spares(L, i)
  BY DEF ItemSpares, Off

\* The record of an entry and the end of a verb.
LEMMA ItemOfEntry ==
  ASSUME NEW L
  PROVE  /\ \A e : ItemSpares(L, Record(e)) <=> EntrySpares(L, e)
         /\ \A r : ItemSpares(L, Finish(r)) <=> AllSpare(L, r)
  BY DEF ItemSpares, Spares, Record, Finish

\* A list of one or two items.
LEMMA FewSpare ==
  ASSUME NEW L
  PROVE  /\ \A i : ItemSpares(L, i) => TodoSpares(L, <<i>>)
         /\ \A i, j : ItemSpares(L, i) /\ ItemSpares(L, j) => TodoSpares(L, <<i, j>>)
  BY DEF TodoSpares

\* Saving leaves the leaves.
LEMMA SaveSpares ==
  ASSUME TypeOK, NEW L \in SUBSET Node, LeavesStay(L), NEW a \in Actors, Save(a)
  PROVE  LeavesStay(L)'
  <1> DEFINE t == Loaded(a)
             c == Next1(a)
             s == act[a].todo
  <1>1. /\ t \in Tree /\ c \in AnyCall /\ s # <<>> /\ Fits(t, c) /\ tree' = Apply(t, c)
        /\ act'[a] = [todo |-> Recording(t, c) \o Tail(s), doc |-> None]
        /\ \A b \in Actors : b # a => act'[b] = act[b]
        /\ Logs(t, c) => Entry(t, c) \in Entries
    BY SaveDoes
  <1>2. Holds(L, t)
    BY DEF Loaded, LeavesStay
  <1>3. s \in Seq(Items) /\ Tail(s) \in Seq(Items) /\ c = Head(s)
    BY <1>1, TodoOf DEF Next1
  <1>4. TodoSpares(L, s)
    BY DEF LeavesStay
  <1> HIDE DEF t, c, s
  <1>5. TodoSpares(L, Tail(s)) /\ ItemSpares(L, c)
    BY <1>1, <1>3, <1>4, SparingRows
  <1>6. Spares(L, c)
    BY <1>5 DEF ItemSpares
  <1>7. Keeps(L, t) /\ Holds(L, Apply(t, c))
    BY <1>1, <1>2, <1>6, ApplyHolds
  <1>8. TodoSpares(L, Recording(t, c) \o Tail(s))
    <2>1. CASE Logs(t, c)
      <3>1. EntrySpares(L, Entry(t, c)) /\ Record(Entry(t, c)) \in Items
        BY <1>1, <1>6, <1>7, <2>1, EntryOfSpares DEF Items
      <3> DEFINE i == Record(Entry(t, c))
      <3>2. i \in Items /\ ItemSpares(L, i)
        BY <3>1, ItemOfEntry
      <3> HIDE DEF i
      <3>3. <<i>> \in Seq(Items) /\ TodoSpares(L, <<i>>)
        BY <3>2, FewSpare
      <3>4. TodoSpares(L, <<i>> \o Tail(s))
        BY <1>3, <1>5, <3>3, SparingRows
      <3>5. QED
        BY <2>1, <3>4 DEF Recording, i
    <2>2. CASE ~Logs(t, c)
      <3>1. <<>> \in Seq(Items)
        OBVIOUS
      <3>2. TodoSpares(L, <<>> \o Tail(s))
        BY <1>3, <1>5, <3>1, SparingRows
      <3>3. QED
        BY <2>2, <3>2 DEF Recording
    <2>3. QED
      BY <2>1, <2>2
  <1>9. /\ Holds(L, tree') /\ Holds(L, shown') /\ AllSpare(L, log') /\ AllSpare(L, redo')
    BY <1>1, <1>7 DEF Save, LeavesStay
  <1>10. ASSUME NEW b \in Actors
         PROVE  Holds(L, act'[b].doc) /\ TodoSpares(L, act'[b].todo)
    <2>1. CASE b = a
      <3>1. act'[b].doc = None /\ act'[b].todo = Recording(t, c) \o Tail(s)
        BY <1>1, <2>1
      <3>2. QED
        BY <1>8, <3>1 DEF Holds
    <2>2. CASE b # a
      BY <1>1, <2>2 DEF LeavesStay
    <2>3. QED
      BY <2>1, <2>2
  <1>11. QED
    BY <1>9, <1>10 DEF LeavesStay

\* A verb of one call spares the leaves.
LEMMA EditSpares ==
  ASSUME TypeOK, NEW L \in SUBSET Node, LeavesStay(L), NEW c \in AnyCall, Edit(c), Offered(c)
  PROVE  LeavesStay(L)'
  <1>1. /\ act'["ui"] = [todo |-> <<c, Finish(redo)>>, doc |-> None] /\ act'["llm"] = act["llm"]
        /\ UNCHANGED <<tree, shown, log, redo>>
    BY EditDoes
  <1>2. Spares(L, c)
    <2>1. c.op = "merge" => c.other \in There(shown) /\ shown[c.other].kind = "cluster"
      BY DEF Offered, OfKind
    <2>2. Holds(L, shown) /\ shown \in Tree
      BY DEF LeavesStay, TypeOK
    <2>3. shown # None /\ There(NoTree) = {}
      BY <2>2, TreeConstants DEF There, NoTree
    <2>4. c.op = "merge" => c.other \notin L
      BY <2>1, <2>2, <2>3 DEF Holds, Keeps
    <2>5. QED
      BY <2>4 DEF Offered, Simple, Spares
  <1>3. ItemSpares(L, c)
    <2>1. c.op \in Simple
      BY DEF Offered
    <2>2. QED
      BY <1>2, <2>1, ItemOfCall DEF Simple, Off
  <1>4. ItemSpares(L, Finish(redo))
    BY ItemOfEntry DEF LeavesStay
  <1>5. TodoSpares(L, <<c, Finish(redo)>>)
    BY <1>3, <1>4, FewSpare
  <1>6. act'["ui"].doc = None /\ act'["ui"].todo = <<c, Finish(redo)>>
    BY <1>1
  <1>7. QED
    BY <1>1, <1>5, <1>6 DEF LeavesStay, Actors, Holds

\* A split puts in halves, and the record of it takes them away again.
LEMMA SplitSpares ==
  ASSUME TypeOK, NEW L, FirstLeaves(L), LeavesStay(L), SplitCluster
  PROVE  LeavesStay(L)'
  <1>1. PICK n, A, B :
           /\ SplitAsks(n, A, B)
           /\ act'["ui"] = [todo |-> SplitPlan(n, A, B), doc |-> None]
           /\ act'["llm"] = act["llm"]
           /\ UNCHANGED <<tree, shown, log, redo>>
    BY SplitDoes
  <1>2. Halves[n][1] \notin L /\ Halves[n][2] \notin L
    BY <1>1, HalvesAreNoLeaves DEF SplitAsks
  <1> DEFINE h1 == Halves[n][1]
             h2 == Halves[n][2]
             e == SplitEntry(n, A, B)
             i1 == Insert(h1, Fresh(n))
             i2 == Insert(h2, Fresh(n))
             i3 == Reparent(SplitMoves(n, A, B))
             i4 == Record(e)
             i5 == Finish(<<>>)
  <1>3. ItemSpares(L, i1) /\ ItemSpares(L, i2)
    BY <1>2 DEF ItemSpares, Spares, Insert
  <1>4. ItemSpares(L, i3)
    BY DEF ItemSpares, Spares, Reparent
  <1>5. EntrySpares(L, e)
    <2> DEFINE u1 == Reparent(ToOne(A \cup B, n))
               u2 == Delete(h1)
               u3 == Delete(h2)
    <2>1. e.undo = <<u1, u2, u3>> /\ Spares(L, e.call)
      BY DEF SplitEntry, Spares
    <2>2. Spares(L, u1) /\ Spares(L, u2) /\ Spares(L, u3)
      BY <1>2 DEF Spares, Reparent, Delete
    <2> HIDE DEF e, u1, u2, u3
    <2>3. \A i \in 1..Len(e.undo) : Spares(L, e.undo[i])
      BY <2>1, <2>2
    <2>4. QED
      BY <2>1, <2>3 DEF EntrySpares
  <1>6. ItemSpares(L, i4) /\ ItemSpares(L, i5)
    BY <1>5, ItemOfEntry, SparingRows
  <1>7. SplitPlan(n, A, B) = <<i1, i2, i3, i4, i5>>
    BY DEF SplitPlan
  <1> HIDE DEF i1, i2, i3, i4, i5
  <1>8. TodoSpares(L, SplitPlan(n, A, B))
    BY <1>3, <1>4, <1>6, <1>7 DEF TodoSpares
  <1>9. act'["ui"].doc = None /\ act'["ui"].todo = SplitPlan(n, A, B)
    BY <1>1
  <1>10. QED
    BY <1>1, <1>8, <1>9 DEF LeavesStay, Actors, Holds

\* Undoing and redoing do what was remembered.
LEMMA BackSpares ==
  ASSUME TypeOK, NEW L, LeavesStay(L), UndoLast \/ RedoLast
  PROVE  LeavesStay(L)'
  <1>0. AllSpare(L, log) /\ AllSpare(L, redo) /\ log \in Seq(Entries) /\ redo \in Seq(Entries)
    BY DEF LeavesStay, TypeOK
  <1>1. CASE UndoLast
    <2> DEFINE e == Last(log)
               f == Finish(Append(redo, e))
    <2>1. /\ log # <<>> /\ e \in Entries /\ log' = Front(log)
          /\ e.undo \in Seq(Items) /\ f \in Items
          /\ act'["ui"] = [todo |-> e.undo \o <<f>>, doc |-> None] /\ act'["llm"] = act["llm"]
          /\ UNCHANGED <<tree, shown, redo>>
      BY <1>1, UndoDoes
    <2>2. AllSpare(L, Front(log)) /\ EntrySpares(L, e)
      BY <1>0, <2>1, SparingRows
    <2>3. TodoSpares(L, e.undo)
      <3>1. ASSUME NEW i \in 1..Len(e.undo)
            PROVE  ItemSpares(L, e.undo[i])
        <4>1. e.undo \in Seq(AnyCall \cup {Pop})
          BY <2>1 DEF Entries
        <4>2. e.undo[i] \in AnyCall \cup {Pop}
          BY <4>1
        <4>3. e.undo[i].op \notin Off \/ e.undo[i].op = "pop"
          BY <4>2, CallFields, CallOps DEF Ops, Off
        <4>4. QED
          BY <2>2, <4>3, ItemOfCall DEF EntrySpares
      <3>2. QED
        BY <3>1 DEF TodoSpares
    <2>4. ItemSpares(L, f)
      BY <1>0, <2>1, <2>2, ItemOfEntry, SparingRows
    <2> HIDE DEF e, f
    <2>5. <<f>> \in Seq(Items) /\ TodoSpares(L, <<f>>)
      BY <2>1, <2>4, FewSpare
    <2>6. TodoSpares(L, e.undo \o <<f>>)
      BY <2>1, <2>3, <2>5, SparingRows
    <2>7. act'["ui"].doc = None /\ act'["ui"].todo = e.undo \o <<f>>
      BY <2>1
    <2>8. QED
      BY <2>1, <2>2, <2>6, <2>7 DEF LeavesStay, Actors, Holds
  <1>2. CASE RedoLast
    <2> DEFINE e == Last(redo)
    <2>1. /\ redo # <<>> /\ e \in Entries /\ redo' = Front(redo) /\ act'["llm"] = act["llm"]
          /\ \/ act'["ui"] = Idle
             \/ /\ e.call \in AnyCall
                /\ act'["ui"] = [todo |-> <<e.call, Finish(Front(redo))>>, doc |-> None]
          /\ UNCHANGED <<tree, shown, log>>
      BY <1>2, RedoDoes
    <2>2. AllSpare(L, Front(redo)) /\ EntrySpares(L, e)
      BY <1>0, <2>1, SparingRows
    <2> HIDE DEF e
    <2>3. CASE act'["ui"] = Idle
      BY <2>1, <2>2, <2>3, SparingRows DEF LeavesStay, Actors, Idle, Holds
    <2>4. CASE /\ e.call \in AnyCall
               /\ act'["ui"] = [todo |-> <<e.call, Finish(Front(redo))>>, doc |-> None]
      <3>1. ItemSpares(L, e.call)
        BY <2>2, <2>4, CallFields, ItemOfCall DEF EntrySpares, Ops, Off
      <3>2. ItemSpares(L, Finish(Front(redo)))
        BY <2>2, ItemOfEntry
      <3>3. TodoSpares(L, <<e.call, Finish(Front(redo))>>)
        BY <3>1, <3>2, FewSpare
      <3>4. act'["ui"].doc = None /\ act'["ui"].todo = <<e.call, Finish(Front(redo))>>
        BY <2>4
      <3>5. QED
        BY <2>1, <2>2, <3>3, <3>4 DEF LeavesStay, Actors, Holds
    <2>5. QED
      BY <2>1, <2>3, <2>4
  <1>3. QED
    BY <1>1, <1>2

\* The leaves of a first tree stay.
LEMMA LeavesStep ==
  ASSUME TypeOK, NEW L, FirstLeaves(L), LeavesStay(L), [Next]_vars
  PROVE  LeavesStay(L)'
  <1>0. L \in SUBSET Node
    BY HalvesAreNoLeaves
  <1>1. CASE \E c \in AnyCall : Edit(c) /\ Offered(c)
    BY <1>0, <1>1, EditSpares
  <1>2. CASE SplitCluster
    BY <1>2, SplitSpares
  <1>3. CASE UndoLast \/ RedoLast
    BY <1>3, BackSpares
  <1>4. CASE NameClusters
    <2>1. /\ act'["ui"] = act["ui"] /\ act'["llm"].doc = None
          /\ \A i \in 1..Len(act'["llm"].todo) :
               act'["llm"].todo[i].op = "name" \/ act'["llm"].todo[i] = Finish(<<>>)
          /\ UNCHANGED <<tree, shown, log, redo>>
      BY <1>4, NamingDoes
    <2>2. \A i : i.op = "name" => ItemSpares(L, i)
      BY DEF ItemSpares, Spares
    <2>3. ItemSpares(L, Finish(<<>>))
      BY ItemOfEntry, SparingRows
    <2>4. TodoSpares(L, act'["llm"].todo)
      BY <2>1, <2>2, <2>3 DEF TodoSpares
    <2>5. QED
      BY <2>1, <2>4 DEF LeavesStay, Actors, Holds
  <1>5. CASE DiscardTree
    BY <1>5, DiscardDoes, SparingRows DEF LeavesStay, Holds
  <1>6. ASSUME NEW a \in Actors, StepOf(a)
        PROVE  LeavesStay(L)'
    <2>1. CASE Load(a)
      <3>1. act'[a].todo = act[a].todo /\ act'[a].doc = tree
        <4>1. act'[a] = [todo |-> act[a].todo, doc |-> tree]
          BY <1>6, <2>1, LoadDoes
        <4>2. QED
          BY <4>1
      <3>2. \A b \in Actors : b # a => act'[b] = act[b]
        BY <1>6, <2>1, LoadDoes
      <3>3. UNCHANGED <<tree, shown, log, redo>>
        BY <2>1 DEF Load
      <3>4. QED
        BY <1>6, <3>1, <3>2, <3>3 DEF LeavesStay
    <2>2. CASE Fail(a)
      <3>1. /\ act'[a].todo = IF a = "ui" THEN <<>> ELSE Tail(act[a].todo)
            /\ act'[a].doc = None
        <4>1. act'[a] = [todo |-> IF a = "ui" THEN <<>> ELSE Tail(act[a].todo), doc |-> None]
          BY <1>6, <2>2, FailDoes
        <4>2. QED
          BY <4>1
      <3>2. \A b \in Actors : b # a => act'[b] = act[b]
        BY <1>6, <2>2, FailDoes
      <3>3. UNCHANGED <<tree, shown, log, redo>>
        BY <2>2 DEF Fail
      <3>4. act[a].todo \in Seq(Items) /\ act[a].todo # <<>> /\ TodoSpares(L, act[a].todo)
        BY <1>6, <2>2, TodoOf, CallOf DEF Fail, LeavesStay
      <3>5. TodoSpares(L, act'[a].todo)
        BY <3>1, <3>4, SparingRows
      <3>6. QED
        BY <1>6, <3>1, <3>2, <3>3, <3>5 DEF LeavesStay, Holds
    <2>3. CASE Save(a)
      BY <1>0, <1>6, <2>3, SaveSpares
    <2>4. CASE AppendHistory(a)
      <3>1. /\ act[a].todo # <<>> /\ Next1(a).op = "record" /\ Next1(a).entry \in Entries
            /\ log' = Append(log, Next1(a).entry)
            /\ act'[a] = [todo |-> Tail(act[a].todo), doc |-> act[a].doc]
            /\ \A b \in Actors : b # a => act'[b] = act[b]
        BY <1>6, <2>4, AppendDoes
      <3>2. act[a].todo \in Seq(Items) /\ TodoSpares(L, act[a].todo) /\ Next1(a) = Head(act[a].todo)
        BY <1>6, TodoOf DEF LeavesStay, Next1
      <3>3. TodoSpares(L, Tail(act[a].todo)) /\ ItemSpares(L, Next1(a))
        BY <3>1, <3>2, SparingRows
      <3>4. EntrySpares(L, Next1(a).entry)
        BY <3>1, <3>3 DEF ItemSpares
      <3>5. AllSpare(L, log')
        BY <3>1, <3>4, SparingRows DEF LeavesStay, TypeOK
      <3>6. UNCHANGED <<tree, shown, redo>>
        BY <2>4 DEF AppendHistory
      <3>7. act'[a].todo = Tail(act[a].todo) /\ act'[a].doc = act[a].doc
        BY <3>1
      <3>8. QED
        BY <1>6, <3>1, <3>3, <3>5, <3>6, <3>7 DEF LeavesStay
    <2>5. QED
      BY <1>6, <2>1, <2>2, <2>3, <2>4 DEF StepOf
  <1>7. CASE PopHistory \/ FinishVerb
    <2>1. /\ act["ui"].todo # <<>> /\ act'["llm"] = act["llm"] /\ UNCHANGED tree
          /\ \/ /\ Next1("ui").op = "pop" /\ UNCHANGED <<shown, redo>>
                /\ log' = IF log = <<>> THEN log ELSE Front(log)
                /\ act'["ui"] = [todo |-> Tail(act["ui"].todo), doc |-> act["ui"].doc]
             \/ /\ Next1("ui").op = "finish" /\ shown' = tree /\ redo' = Next1("ui").redo
                /\ act'["ui"] = Idle /\ log' = log
      BY <1>7, PopDoes, FinishDoes DEF PopHistory, FinishVerb
    <2>2. /\ act["ui"].todo \in Seq(Items) /\ TodoSpares(L, act["ui"].todo)
          /\ Next1("ui") = Head(act["ui"].todo)
      BY TodoOf DEF LeavesStay, Next1, Actors
    <2>3. TodoSpares(L, Tail(act["ui"].todo)) /\ ItemSpares(L, Next1("ui"))
      BY <2>1, <2>2, SparingRows
    <2>4. CASE /\ Next1("ui").op = "pop" /\ UNCHANGED <<shown, redo>>
               /\ log' = IF log = <<>> THEN log ELSE Front(log)
               /\ act'["ui"] = [todo |-> Tail(act["ui"].todo), doc |-> act["ui"].doc]
      <3>1. AllSpare(L, log')
        BY <2>4, SparingRows DEF LeavesStay, TypeOK
      <3>2. act'["ui"].todo = Tail(act["ui"].todo) /\ act'["ui"].doc = act["ui"].doc
        BY <2>4
      <3>3. QED
        BY <2>1, <2>3, <2>4, <3>1, <3>2 DEF LeavesStay, Actors
    <2>5. CASE /\ Next1("ui").op = "finish" /\ shown' = tree /\ redo' = Next1("ui").redo
               /\ act'["ui"] = Idle /\ log' = log
      <3>1. AllSpare(L, redo')
        BY <2>3, <2>5 DEF ItemSpares
      <3>2. act'["ui"].todo = <<>> /\ act'["ui"].doc = None /\ TodoSpares(L, <<>>)
        BY <2>5, SparingRows DEF Idle
      <3>3. QED
        BY <2>1, <2>5, <3>1, <3>2 DEF LeavesStay, Actors, Holds
    <2>6. QED
      BY <2>1, <2>4, <2>5
  <1>8. CASE FinishJob
    <2>1. act'["llm"] = Idle /\ act'["ui"] = act["ui"]
      BY <1>8, JobDoes
    <2>2. UNCHANGED <<tree, log, redo>> /\ shown' = tree
      BY <1>8 DEF FinishJob
    <2>3. QED
      BY <2>1, <2>2, SparingRows DEF LeavesStay, Actors, Holds, Idle
  <1>9. CASE UNCHANGED vars
    BY <1>9 DEF vars, LeavesStay
  <1>10. QED
    BY <1>1, <1>2, <1>3, <1>4, <1>5, <1>6, <1>7, <1>8, <1>9, NextCases

\* The leaves of some first tree stay.
NotesInv == TypeOK /\ \E L : FirstLeaves(L) /\ LeavesStay(L)

\* A session starts with the leaves of the tree it starts with.
LEMMA NotesInit ==
  ASSUME Init
  PROVE  NotesInv
  <1> DEFINE L == OfKind(tree, "leaf")
  <1>1. FirstLeaves(L)
    BY DEF FirstLeaves, Init
  <1>2. Keeps(L, tree) /\ shown = tree
    BY DEF Keeps, OfKind, There, Init
  <1> HIDE DEF L
  <1>3. \A a \in Actors : act[a].doc = None /\ act[a].todo = <<>>
    BY DEF Init, Actors, Idle
  <1>4. log = <<>> /\ redo = <<>>
    BY DEF Init
  <1>5. LeavesStay(L)
    BY <1>2, <1>3, <1>4, SparingRows DEF LeavesStay, Holds
  <1>6. TypeOK
    BY TypesInit
  <1>7. \E M : FirstLeaves(M) /\ LeavesStay(M)
    BY <1>1, <1>5
  <1>8. QED
    BY <1>6, <1>7 DEF NotesInv

\* Every step keeps them.
LEMMA NotesStep ==
  ASSUME NotesInv, [Next]_vars
  PROVE  NotesInv'
  <1>1. PICK L : FirstLeaves(L) /\ LeavesStay(L)
    BY DEF NotesInv
  <1>2. LeavesStay(L)' /\ TypeOK'
    BY <1>1, LeavesStep, TypesStep DEF NotesInv
  <1>3. FirstLeaves(L)'
    BY <1>1 DEF FirstLeaves, OfKind, There
  <1>4. QED
    BY <1>2, <1>3 DEF NotesInv

\* No note falls out of a tree.
NotesStay == tree # NoTree => \E t \in FirstTrees : OfKind(t, "leaf") \subseteq OfKind(tree, "leaf")

\* Whatever is dropped, merged, split, undone, redone or overwritten, and
\* however the model's naming falls between, every note of the tree the session
\* began with is in the file, until the tree is deleted.
LEMMA NotesInvStay ==
  ASSUME NotesInv
  PROVE  NotesStay
  <1>1. SUFFICES ASSUME tree # NoTree
                 PROVE  \E t \in FirstTrees : OfKind(t, "leaf") \subseteq OfKind(tree, "leaf")
    BY DEF NotesStay
  <1>2. PICK L : FirstLeaves(L) /\ LeavesStay(L)
    BY DEF NotesInv
  <1>3. PICK t \in FirstTrees : L = OfKind(t, "leaf")
    BY <1>2 DEF FirstLeaves
  <1>4. Keeps(L, tree) /\ L \subseteq Node
    BY <1>1, <1>2, HalvesAreNoLeaves, TreeConstants DEF LeavesStay, Holds, NotesInv, TypeOK
  <1>5. L \subseteq OfKind(tree, "leaf")
    BY <1>4 DEF Keeps, OfKind, There
  <1>6. QED
    BY <1>3, <1>5

-----------------------------------------------------------------------------
(* The order of what there is to do: what the lists look like, whatever the *)
(* tree does meanwhile.                                                     *)

\* An entry that neither inserts nor deletes when undone.
Plain(e) == \A i \in 1..Len(e.undo) : e.undo[i].op \notin {"insert", "remove"}

\* A pop takes off what the item before it put on, a plain entry.
Popped(i) == i.op \in {"rename", "move"} \/ (i.op = "record" /\ Plain(i.entry))
PopsAfter(s) == \A i \in 1..(Len(s) - 1) : s[i + 1].op = "pop" => Popped(s[i])

\* Each node is inserted once, and a list that inserts deletes nothing.
Apart(s) ==
  \A i, k \in 1..Len(s) :
    /\ s[i].op = "insert" /\ s[k].op = "insert" /\ s[i].at = s[k].at => i = k
    /\ s[i].op = "insert" => s[k].op \in {"insert", "reparent", "record", "finish"}
    /\ s[i].op = "remove" => s[k].op \in {"remove", "reparent", "record", "finish"}

EntryOk(e) ==
  /\ e.call.op \in Simple \cup {"name", "split"}
  /\ \A i \in 1..Len(e.undo) :
       e.undo[i].op \in {"rename", "move", "pop", "insert", "reparent", "remove"}
  /\ PopsAfter(e.undo) /\ (Len(e.undo) > 0 => e.undo[1].op # "pop")
  /\ Apart(e.undo)
AllOk(l) == \A k \in 1..Len(l) : EntryOk(l[k])

Taking == {"merge", "merge_up", "drop"}
UiOps == Simple \cup {"insert", "reparent", "remove", "record", "pop", "finish"}
UiItemOk(s, i) ==
  /\ s[i].op \in UiOps
  /\ s[i].op = "finish" => i = Len(s) /\ AllOk(s[i].redo)
  /\ s[i].op = "record" => EntryOk(s[i].entry) /\ \A k \in 1..(i - 1) : s[k].op \in {"insert", "reparent"}
  /\ s[i].op \in Taking => \A k \in 1..Len(s) : k # i => s[k].op = "finish"
UiOk(s) == (\A i \in 1..Len(s) : UiItemOk(s, i)) /\ PopsAfter(s) /\ Apart(s)
LlmItemOk(i) ==
  \/ i.op \in {"name", "finish"}
  \/ i.op = "record" /\ EntryOk(i.entry) /\ Plain(i.entry)
LlmOk(s) == \A i \in 1..Len(s) : LlmItemOk(s[i])

\* The lists are in order, and a pop finds a plain entry on top.
InOrder ==
  /\ AllOk(log) /\ AllOk(redo)
  /\ UiOk(act["ui"].todo) /\ LlmOk(act["llm"].todo)
  /\ Waits("ui", "pop") => log = <<>> \/ Plain(Last(log))

\* An insertion's arguments.
LEMMA InsertFields ==
  \A n, r : Insert(n, r).op = "insert" /\ Insert(n, r).at = n /\ Insert(n, r).row = r
  BY DEF Insert

\* The entry of a verb of one call, or of a naming.
LEMMA EntryOkOf ==
  ASSUME NEW t \in Tree, NEW c \in AnyCall, Fits(t, c), Logs(t, c)
  PROVE  /\ EntryOk(Entry(t, c))
         /\ c.op \in {"rename", "name", "move"} => Plain(Entry(t, c))
  <1> DEFINE u == Undo(t, c)
  <1>1. Entry(t, c).call = c /\ Entry(t, c).undo = u
    BY DEF Entry
  <1>2. c.op \in Simple \cup {"name"}
    BY DEF Logs, Simple
  <1>3. CASE c.op \in {"rename", "move"}
    <2> DEFINE b == IF c.op = "rename" THEN Rename(c.at, t[c.at].text) ELSE Move(c.at, t[c.at].parent)
    <2>1. u = <<b, Pop>>
      BY <1>3 DEF Undo
    <2>2. b.op \in {"rename", "move"} /\ Pop.op = "pop"
      BY CallOps
    <2> HIDE DEF b
    <2>3. Len(u) = 2 /\ u[1].op \in {"rename", "move"} /\ u[2].op = "pop"
      BY <2>1, <2>2
    <2> HIDE DEF u
    <2>4. PopsAfter(u) /\ Apart(u)
      BY <2>3 DEF PopsAfter, Apart, Popped
    <2>5. QED
      BY <1>1, <1>2, <2>3, <2>4 DEF EntryOk, Plain
  <1>4. CASE c.op = "name"
    <2> DEFINE b == Rename(c.at, t[c.at].text)
    <2>1. u = <<b, Pop, b, Pop>>
      BY <1>4 DEF Undo
    <2>2. b.op = "rename" /\ Pop.op = "pop"
      BY CallOps
    <2> HIDE DEF b
    <2>3. /\ Len(u) = 4 /\ u[1].op = "rename" /\ u[2].op = "pop"
          /\ u[3].op = "rename" /\ u[4].op = "pop"
      BY <2>1, <2>2
    <2> HIDE DEF u
    <2>4. PopsAfter(u) /\ Apart(u)
      BY <2>3 DEF PopsAfter, Apart, Popped
    <2>5. QED
      BY <1>1, <1>2, <2>3, <2>4 DEF EntryOk, Plain
  <1>5. CASE c.op \in {"merge", "merge_up", "drop"}
    <2> DEFINE k == Cardinality(Taken(t, c))
               q == SetToSeq(Taken(t, c))
               m == Reparent(Where(t, DOMAIN Moved(t, c)))
    <2>1. /\ k \in Nat /\ Len(u) = k + 1
          /\ \A i \in 1..k : u[i] = Insert(q[i], t[q[i]])
          /\ \A i, j \in 1..k : q[i] = q[j] => i = j
          /\ u[k + 1] = m
      BY <1>5, TakingItems
    <2>2. m.op = "reparent"
      BY CallOps
    <2> HIDE DEF k, q, m, u
    <2>3. \A i \in 1..k : u[i].op = "insert" /\ u[i].at = q[i]
      BY <2>1, InsertFields
    <2>4. \A i \in 1..Len(u) : i \in 1..k \/ (i = k + 1 /\ u[i].op = "reparent")
      BY <2>1, <2>2
    <2>5. \A i \in 1..Len(u) : u[i].op \in {"insert", "reparent"}
      BY <2>3, <2>4
    <2>6. Apart(u)
      BY <2>1, <2>3, <2>4, <2>5 DEF Apart
    <2>7. PopsAfter(u)
      BY <2>1, <2>5 DEF PopsAfter
    <2>8. Len(u) > 0 => u[1].op # "pop"
      BY <2>1, <2>5
    <2>9. QED
      BY <1>1, <1>2, <1>5, <2>5, <2>6, <2>7, <2>8 DEF EntryOk
  <1>6. QED
    BY <1>2, <1>3, <1>4, <1>5 DEF Simple

\* The entry of a split.
LEMMA SplitEntryOk ==
  ASSUME NEW n, NEW A, NEW B
  PROVE  /\ EntryOk(SplitEntry(n, A, B))
         /\ SplitEntry(n, A, B).undo =
              <<Reparent(ToOne(A \cup B, n)), Delete(Halves[n][1]), Delete(Halves[n][2])>>
  <1> DEFINE e == SplitEntry(n, A, B)
             u1 == Reparent(ToOne(A \cup B, n))
             u2 == Delete(Halves[n][1])
             u3 == Delete(Halves[n][2])
  <1>1. e.undo = <<u1, u2, u3>> /\ e.call.op = "split"
    BY DEF SplitEntry
  <1>2. u1.op = "reparent" /\ u2.op = "remove" /\ u3.op = "remove"
    BY CallOps
  <1> HIDE DEF u1, u2, u3, e
  <1>3. /\ Len(e.undo) = 3 /\ e.undo[1].op = "reparent"
        /\ e.undo[2].op = "remove" /\ e.undo[3].op = "remove"
    BY <1>1, <1>2
  <1>4. PopsAfter(e.undo) /\ Apart(e.undo)
    BY <1>3 DEF PopsAfter, Apart
  <1>5. EntryOk(e)
    BY <1>1, <1>3, <1>4 DEF EntryOk
  <1>6. QED
    BY <1>1, <1>5 DEF e, u1, u2, u3

\* A list in order stays so without its head.
LEMMA UiOkTail ==
  ASSUME NEW s \in Seq(Items), s # <<>>, UiOk(s)
  PROVE  UiOk(Tail(s))
  <1> DEFINE u == Tail(s)
  <1>1. /\ Len(s) \in Nat /\ Len(s) > 0 /\ Len(u) = Len(s) - 1
        /\ \A i \in 1..(Len(s) - 1) : u[i] = s[i + 1]
    BY TailOf
  <1> HIDE DEF u
  <1>2. ASSUME NEW i \in 1..Len(u)
        PROVE  UiItemOk(u, i)
    <2>1. i + 1 \in 1..Len(s) /\ u[i] = s[i + 1]
      BY <1>1
    <2>2. UiItemOk(s, i + 1)
      BY <2>1 DEF UiOk
    <2>3. u[i].op = "finish" => i = Len(u) /\ AllOk(u[i].redo)
      BY <1>1, <2>1, <2>2 DEF UiItemOk
    <2>4. u[i].op = "record" => /\ EntryOk(u[i].entry)
                                /\ \A k \in 1..(i - 1) : u[k].op \in {"insert", "reparent"}
      <3>1. SUFFICES ASSUME u[i].op = "record"
                     PROVE  /\ EntryOk(u[i].entry)
                            /\ \A k \in 1..(i - 1) : u[k].op \in {"insert", "reparent"}
        OBVIOUS
      <3>2. EntryOk(u[i].entry) /\ \A k \in 1..(i + 1 - 1) : s[k].op \in {"insert", "reparent"}
        BY <2>1, <2>2, <3>1 DEF UiItemOk
      <3>3. \A k \in 1..(i - 1) : k + 1 \in 1..(i + 1 - 1) /\ u[k] = s[k + 1]
        BY <1>1, <2>1
      <3>4. QED
        BY <3>2, <3>3
    <2>5. u[i].op \in Taking => \A k \in 1..Len(u) : k # i => u[k].op = "finish"
      <3>1. SUFFICES ASSUME u[i].op \in Taking, NEW k \in 1..Len(u), k # i
                     PROVE  u[k].op = "finish"
        OBVIOUS
      <3>2. k + 1 \in 1..Len(s) /\ k + 1 # i + 1 /\ u[k] = s[k + 1]
        BY <1>1, <3>1
      <3>3. QED
        BY <2>1, <2>2, <3>1, <3>2 DEF UiItemOk
    <2>6. QED
      BY <2>1, <2>2, <2>3, <2>4, <2>5 DEF UiItemOk
  <1>3. PopsAfter(u)
    <2>1. \A i \in 1..(Len(u) - 1) : i + 1 \in 1..(Len(s) - 1) /\ u[i] = s[i + 1] /\ u[i + 1] = s[(i + 1) + 1]
      BY <1>1
    <2>2. QED
      BY <2>1 DEF UiOk, PopsAfter
  <1>4. Apart(u)
    <2>1. \A i \in 1..Len(u) : i + 1 \in 1..Len(s) /\ u[i] = s[i + 1]
      BY <1>1
    <2>2. SUFFICES ASSUME NEW i \in 1..Len(u), NEW k \in 1..Len(u)
                   PROVE  /\ u[i].op = "insert" /\ u[k].op = "insert" /\ u[i].at = u[k].at => i = k
                          /\ u[i].op = "insert" => u[k].op \in {"insert", "reparent", "record", "finish"}
                          /\ u[i].op = "remove" => u[k].op \in {"remove", "reparent", "record", "finish"}
      BY DEF Apart
    <2>3. i + 1 \in 1..Len(s) /\ u[i] = s[i + 1] /\ k + 1 \in 1..Len(s) /\ u[k] = s[k + 1]
      BY <2>1
    <2>4. i + 1 = k + 1 => i = k
      BY <1>1
    <2>5. QED
      BY <2>3, <2>4 DEF UiOk, Apart
  <1>5. QED
    BY <1>2, <1>3, <1>4 DEF UiOk, u

\* With the record of the call just made in place of the call.
LEMMA UiOkRecord ==
  ASSUME NEW s \in Seq(Items), s # <<>>, UiOk(s), s[1].op \in Simple,
         NEW e \in Entries, EntryOk(e), s[1].op \in {"rename", "move"} => Plain(e)
  PROVE  UiOk(<<Record(e)>> \o Tail(s))
  <1> DEFINE r == Record(e)
             u == <<r>> \o Tail(s)
  <1>0. r \in Items /\ r.op = "record" /\ r.entry = e
    BY DEF Items, Record
  <1> HIDE DEF r
  <1>1. /\ Len(s) \in Nat /\ Len(s) > 0 /\ Len(u) = Len(s) /\ u[1] = r
        /\ \A i \in 2..Len(s) : u[i] = s[i]
    <2>1. /\ Len(s) \in Nat /\ Len(s) > 0 /\ Tail(s) \in Seq(Items) /\ Len(Tail(s)) = Len(s) - 1
          /\ \A i \in 1..(Len(s) - 1) : Tail(s)[i] = s[i + 1]
      BY TailOf
    <2> DEFINE v == Tail(s)
    <2> HIDE DEF v
    <2>2. v \in Seq(Items) /\ Len(v) = Len(s) - 1 /\ \A i \in 1..(Len(s) - 1) : v[i] = s[i + 1]
      BY <2>1 DEF v
    <2>3. /\ Len(<<r>> \o v) = Len(v) + 1 /\ (<<r>> \o v)[1] = r
          /\ \A i \in 1..Len(v) : (<<r>> \o v)[i + 1] = v[i]
      BY <1>0, <2>2, ConsOf
    <2>4. \A i \in 2..Len(s) : i - 1 \in 1..(Len(s) - 1) /\ (i - 1) + 1 = i
      BY <2>1
    <2>5. u = <<r>> \o v
      BY DEF v
    <2> HIDE DEF u
    <2>6. \A i \in 2..Len(s) : u[i] = s[i]
      <3>1. TAKE i \in 2..Len(s)
      <3>2. i - 1 \in 1..(Len(s) - 1) /\ (i - 1) + 1 = i
        BY <2>4
      <3>3. u[(i - 1) + 1] = v[i - 1] /\ v[i - 1] = s[(i - 1) + 1]
        BY <2>2, <2>3, <2>5, <3>2
      <3>4. QED
        BY <3>2, <3>3
    <2>7. Len(u) = Len(s)
      <3> DEFINE n == Len(v)
                 m == Len(s)
      <3>1. Len(u) = n + 1
        BY <2>3, <2>5
      <3>2. n = m - 1 /\ m \in Nat
        BY <2>1, <2>2
      <3> HIDE DEF n, m
      <3>3. n + 1 = m
        BY <3>2
      <3>4. QED
        BY <3>1, <3>3 DEF m
    <2>8. u[1] = r
      BY <2>3, <2>5
    <2>9. QED
      BY <2>1, <2>6, <2>7, <2>8
  <1> HIDE DEF u
  <1>2. \A i \in 2..Len(s) : u[i].op # "record"
    <2>1. SUFFICES ASSUME NEW i \in 2..Len(s), s[i].op = "record"
                   PROVE  FALSE
      BY <1>1
    <2>2. i \in 1..Len(s) /\ 1 \in 1..(i - 1)
      BY <1>1
    <2>3. s[1].op \in {"insert", "reparent"}
      BY <2>1, <2>2 DEF UiOk, UiItemOk
    <2>4. QED
      BY <2>3 DEF Simple
  <1>3. ASSUME NEW i \in 1..Len(u)
        PROVE  UiItemOk(u, i)
    <2>1. CASE i = 1
      BY <1>0, <1>1, <2>1 DEF UiItemOk, UiOps, Taking
    <2>2. CASE i # 1
      <3>1. i \in 2..Len(s) /\ i \in 1..Len(s) /\ u[i] = s[i] /\ UiItemOk(s, i)
        BY <1>1, <2>2 DEF UiOk
      <3>2. u[i].op \notin Taking
        <4>1. SUFFICES ASSUME s[i].op \in Taking
                       PROVE  FALSE
          BY <3>1
        <4>2. s[1].op = "finish"
          BY <1>1, <2>2, <3>1, <4>1 DEF UiItemOk
        <4>3. QED
          BY <4>2 DEF Simple
      <3>3. QED
        BY <1>1, <1>2, <3>1, <3>2 DEF UiItemOk
    <2>3. QED
      BY <2>1, <2>2
  <1>4. PopsAfter(u)
    <2>1. SUFFICES ASSUME NEW i \in 1..(Len(u) - 1), u[i + 1].op = "pop"
                   PROVE  Popped(u[i])
      BY DEF PopsAfter
    <2>2. i + 1 \in 2..Len(s) /\ i \in 1..(Len(s) - 1)
      BY <1>1, <2>1
    <2>3. u[i + 1] = s[i + 1] /\ Popped(s[i])
      BY <1>1, <2>1, <2>2 DEF UiOk, PopsAfter
    <2>4. CASE i = 1
      <3>1. s[1].op \in {"rename", "move"}
        BY <2>3, <2>4 DEF Popped, Simple
      <3>2. QED
        BY <1>0, <1>1, <2>4, <3>1 DEF Popped
    <2>5. CASE i # 1
      BY <1>1, <2>2, <2>3, <2>5
    <2>6. QED
      BY <2>4, <2>5
  <1>5. Apart(u)
    <2>1. \A i \in 1..Len(s) : s[i].op \notin {"insert", "remove"}
      <3>1. SUFFICES ASSUME NEW i \in 1..Len(s), s[i].op \in {"insert", "remove"}
                     PROVE  FALSE
        OBVIOUS
      <3>2. s[1].op \in {"insert", "remove", "reparent", "record", "finish"}
        BY <1>1, <3>1 DEF UiOk, Apart
      <3>3. QED
        BY <3>2 DEF Simple
    <2>2. \A i \in 1..Len(u) : u[i].op \notin {"insert", "remove"}
      BY <1>0, <1>1, <2>1
    <2>3. QED
      BY <2>2 DEF Apart
  <1>6. QED
    BY <1>3, <1>4, <1>5 DEF UiOk, u, r

\* Nothing to do, and one call of the sidebar's.
LEMMA UiOkFew ==
  /\ UiOk(<<>>)
  /\ \A c, r : c.op \in Simple /\ AllOk(r) => UiOk(<<c, Finish(r)>>)
  <1>1. UiOk(<<>>)
    BY DEF UiOk, PopsAfter, Apart
  <1>2. ASSUME NEW c, NEW r, c.op \in Simple, AllOk(r)
        PROVE  UiOk(<<c, Finish(r)>>)
    <2> DEFINE f == Finish(r)
               s == <<c, f>>
    <2>1. f.op = "finish" /\ f.redo = r
      BY DEF Finish
    <2> HIDE DEF f
    <2>2. Len(s) = 2 /\ s[1] = c /\ s[2] = f
      OBVIOUS
    <2> HIDE DEF s
    <2>3. ASSUME NEW i \in 1..Len(s)
          PROVE  UiItemOk(s, i)
      <3>1. CASE i = 1
        <4>1. \A k \in 1..Len(s) : k # 1 => s[k].op = "finish"
          BY <2>1, <2>2
        <4>2. QED
          BY <1>2, <2>2, <3>1, <4>1 DEF UiItemOk, UiOps, Simple
      <3>2. CASE i = 2
        BY <1>2, <2>1, <2>2, <3>2 DEF UiItemOk, UiOps, Taking
      <3>3. QED
        BY <2>2, <3>1, <3>2
    <2>4. PopsAfter(s) /\ Apart(s)
      BY <1>2, <2>1, <2>2 DEF PopsAfter, Apart, Simple
    <2>5. QED
      BY <2>3, <2>4 DEF UiOk, s, f
  <1>3. QED
    BY <1>1, <1>2

\* The list of a split.
LEMMA UiOkSplit ==
  ASSUME NEW n, NEW A, NEW B, Halves[n][1] # Halves[n][2]
  PROVE  UiOk(SplitPlan(n, A, B))
  <1> DEFINE e == SplitEntry(n, A, B)
             i1 == Insert(Halves[n][1], Fresh(n))
             i2 == Insert(Halves[n][2], Fresh(n))
             i3 == Reparent(SplitMoves(n, A, B))
             i4 == Record(e)
             i5 == Finish(<<>>)
             s == <<i1, i2, i3, i4, i5>>
  <1>1. /\ i1.op = "insert" /\ i2.op = "insert" /\ i1.at # i2.at /\ i3.op = "reparent"
        /\ i4.op = "record" /\ i4.entry = e /\ EntryOk(e)
        /\ i5.op = "finish" /\ i5.redo = <<>>
    BY InsertFields, SplitEntryOk DEF Reparent, Record, Finish
  <1>2. AllOk(<<>>)
    BY DEF AllOk
  <1> HIDE DEF i1, i2, i3, i4, i5, e
  <1>3. Len(s) = 5 /\ s[1] = i1 /\ s[2] = i2 /\ s[3] = i3 /\ s[4] = i4 /\ s[5] = i5
    OBVIOUS
  <1> HIDE DEF s
  <1>4. \A i \in 1..Len(s) : i = 1 \/ i = 2 \/ i = 3 \/ i = 4 \/ i = 5
    BY <1>3
  <1>5. UiItemOk(s, 1) /\ UiItemOk(s, 2) /\ UiItemOk(s, 3)
    BY <1>1, <1>3 DEF UiItemOk, UiOps, Taking
  <1>6. UiItemOk(s, 4)
    <2>1. \A k \in 1..(4 - 1) : s[k].op \in {"insert", "reparent"}
      BY <1>1, <1>3
    <2>2. QED
      BY <1>1, <1>3, <2>1 DEF UiItemOk, UiOps, Taking
  <1>7. UiItemOk(s, 5)
    BY <1>1, <1>2, <1>3 DEF UiItemOk, UiOps, Taking
  <1>8. PopsAfter(s)
    BY <1>1, <1>3 DEF PopsAfter
  <1>9. Apart(s)
    <2>1. /\ \A i \in 1..Len(s) : s[i].op \in {"insert", "reparent", "record", "finish"}
          /\ \A i \in 1..Len(s) : s[i].op = "insert" => i = 1 \/ i = 2
      BY <1>1, <1>3, <1>4
    <2>2. QED
      BY <1>1, <1>3, <2>1 DEF Apart
  <1>10. \A i \in 1..Len(s) : UiItemOk(s, i)
    BY <1>4, <1>5, <1>6, <1>7
  <1>11. QED
    BY <1>8, <1>9, <1>10 DEF UiOk, SplitPlan, s, i1, i2, i3, i4, i5, e

\* The list of an undo.
LEMMA UiOkUndo ==
  ASSUME NEW e \in Entries, EntryOk(e), NEW r \in Seq(Entries), AllOk(r)
  PROVE  UiOk(e.undo \o <<Finish(r)>>)
  <1> DEFINE v == e.undo
             k == Len(v)
             f == Finish(r)
             s == v \o <<f>>
  <1>1. f.op = "finish" /\ f.redo = r /\ f \in Items
    BY DEF Finish, Items
  <1>2. v \in Seq(Items)
    <2>1. v \in Seq(AnyCall \cup {Pop})
      BY DEF Entries
    <2>2. AnyCall \cup {Pop} \subseteq Items
      BY DEF Items
    <2>3. QED
      BY <2>1, <2>2
  <1> HIDE DEF f
  <1>3. k \in Nat /\ Len(s) = k + 1 /\ s[k + 1] = f /\ \A i \in 1..k : s[i] = v[i]
    <2>1. <<f>> \in Seq(Items) /\ Len(<<f>>) = 1 /\ <<f>>[1] = f
      BY <1>1
    <2> HIDE DEF v
    <2>2. QED
      BY <1>2, <2>1
  <1>4. /\ \A i \in 1..k : v[i].op \in {"rename", "move", "pop", "insert", "reparent", "remove"}
        /\ PopsAfter(v) /\ Apart(v)
    BY DEF EntryOk
  <1> HIDE DEF v, k, s
  <1>5. k = Len(v)
    BY DEF k
  <1>6. \A i \in 1..Len(s) : (i \in 1..k /\ s[i] = v[i]) \/ (i = k + 1 /\ s[i].op = "finish")
    BY <1>1, <1>3
  <1>7. ASSUME NEW i \in 1..Len(s)
        PROVE  UiItemOk(s, i)
    <2>1. CASE i \in 1..k
      BY <1>3, <1>4, <2>1 DEF UiItemOk, UiOps, Taking, Simple
    <2>2. CASE i = k + 1
      BY <1>1, <1>3, <2>2 DEF UiItemOk, UiOps, Taking
    <2>3. QED
      BY <1>6, <2>1, <2>2
  <1>8. PopsAfter(s)
    <2>1. SUFFICES ASSUME NEW i \in 1..(Len(s) - 1), s[i + 1].op = "pop"
                   PROVE  Popped(s[i])
      BY DEF PopsAfter
    <2>2. i \in 1..k /\ (i = k \/ (i \in 1..(k - 1) /\ i + 1 \in 1..k))
      BY <1>3
    <2>3. i # k
      BY <1>1, <1>3, <2>1
    <2>4. s[i + 1] = v[i + 1] /\ s[i] = v[i]
      BY <1>3, <2>2, <2>3
    <2>5. QED
      BY <1>4, <1>5, <2>1, <2>2, <2>3, <2>4 DEF PopsAfter
  <1>9. Apart(s)
    BY <1>4, <1>5, <1>6 DEF Apart
  <1>10. QED
    BY <1>7, <1>8, <1>9 DEF UiOk, s, v, f

\* Histories in order.
LEMMA OkRows ==
  /\ AllOk(<<>>)
  /\ \A l \in Seq(Entries), e \in Entries : AllOk(l) /\ EntryOk(e) => AllOk(Append(l, e))
  /\ \A l \in Seq(Entries) : l # <<>> /\ AllOk(l) => AllOk(Front(l)) /\ EntryOk(Last(l))
  <1>1. AllOk(<<>>)
    BY DEF AllOk
  <1>2. ASSUME NEW l \in Seq(Entries), NEW e \in Entries, AllOk(l), EntryOk(e)
        PROVE  AllOk(Append(l, e))
    <2>1. /\ Len(Append(l, e)) = Len(l) + 1 /\ Append(l, e)[Len(l) + 1] = e
          /\ \A i \in 1..Len(l) : Append(l, e)[i] = l[i]
      BY AppendOf
    <2>2. \A k \in 1..(Len(l) + 1) : k \in 1..Len(l) \/ k = Len(l) + 1
      OBVIOUS
    <2>3. QED
      BY <1>2, <2>1, <2>2 DEF AllOk
  <1>3. ASSUME NEW l \in Seq(Entries), l # <<>>, AllOk(l)
        PROVE  AllOk(Front(l)) /\ EntryOk(Last(l))
    <2>1. /\ Len(l) \in Nat /\ Len(l) > 0 /\ Last(l) = l[Len(l)] /\ Len(Front(l)) = Len(l) - 1
          /\ \A i \in 1..(Len(l) - 1) : Front(l)[i] = l[i]
      BY <1>3, FrontOf
    <2>2. Len(l) \in 1..Len(l) /\ \A k \in 1..(Len(l) - 1) : k \in 1..Len(l)
      BY <2>1
    <2>3. QED
      BY <1>3, <2>1, <2>2 DEF AllOk
  <1>4. QED
    BY <1>1, <1>2, <1>3

\* The task's list without its head, and with a record in its place.
LEMMA LlmOkTail ==
  ASSUME NEW s \in Seq(Items), s # <<>>, LlmOk(s)
  PROVE  /\ LlmOk(Tail(s)) /\ LlmItemOk(Head(s))
         /\ \A i \in Items : LlmItemOk(i) => LlmOk(<<i>> \o Tail(s))
  <1> DEFINE u == Tail(s)
  <1>1. /\ Len(s) \in Nat /\ Len(s) > 0 /\ u \in Seq(Items) /\ Len(u) = Len(s) - 1
        /\ Head(s) = s[1] /\ \A i \in 1..(Len(s) - 1) : u[i] = s[i + 1]
    BY TailOf
  <1> HIDE DEF u
  <1>2. LlmOk(u) /\ LlmItemOk(Head(s))
    <2>1. \A i \in 1..Len(u) : i + 1 \in 1..Len(s) /\ u[i] = s[i + 1]
      BY <1>1
    <2>2. 1 \in 1..Len(s)
      BY <1>1
    <2>3. QED
      BY <1>1, <2>1, <2>2 DEF LlmOk
  <1>3. ASSUME NEW i \in Items, LlmItemOk(i)
        PROVE  LlmOk(<<i>> \o u)
    <2>1. /\ Len(<<i>> \o u) = Len(u) + 1 /\ (<<i>> \o u)[1] = i
          /\ \A k \in 1..Len(u) : (<<i>> \o u)[k + 1] = u[k]
      BY <1>1, ConsOf
    <2>2. ASSUME NEW k \in 1..(Len(u) + 1)
          PROVE  LlmItemOk((<<i>> \o u)[k])
      <3>1. CASE k = 1
        BY <1>3, <2>1, <3>1
      <3>2. CASE k # 1
        <4>1. k - 1 \in 1..Len(u) /\ (k - 1) + 1 = k
          BY <1>1, <3>2
        <4>2. (<<i>> \o u)[(k - 1) + 1] = u[k - 1]
          BY <2>1, <4>1
        <4>3. QED
          BY <1>2, <4>1, <4>2 DEF LlmOk
      <3>3. QED
        BY <3>1, <3>2
    <2>3. QED
      BY <2>1, <2>2 DEF LlmOk
  <1>4. QED
    BY <1>2, <1>3 DEF u

\* A verb's beginning keeps the order.
LEMMA BeginInOrder ==
  ASSUME TypeOK, InOrder,
         (\E c \in AnyCall : Edit(c) /\ Offered(c)) \/ SplitCluster \/ UndoLast \/ RedoLast
  PROVE  InOrder'
  <1>0. log \in Seq(Entries) /\ redo \in Seq(Entries)
    BY DEF TypeOK
  <1>1. CASE \E c \in AnyCall : Edit(c) /\ Offered(c)
    <2>1. PICK c \in AnyCall : Edit(c) /\ Offered(c)
      BY <1>1
    <2> DEFINE s == <<c, Finish(redo)>>
    <2>2. /\ act'["ui"] = [todo |-> s, doc |-> None] /\ act'["llm"] = act["llm"]
          /\ UNCHANGED <<log, redo>>
      BY <2>1, EditDoes
    <2>3. c.op \in Simple
      BY <2>1 DEF Offered
    <2>4. UiOk(s)
      BY <2>3, UiOkFew DEF InOrder
    <2>5. s # <<>> /\ Head(s).op # "pop"
      BY <2>3 DEF Simple
    <2> HIDE DEF s
    <2>6. act'["ui"].todo = s
      BY <2>2
    <2>7. QED
      BY <2>2, <2>4, <2>5, <2>6 DEF InOrder, Waits, Next1
  <1>2. CASE SplitCluster
    <2>1. PICK n, A, B :
           /\ SplitAsks(n, A, B)
           /\ act'["ui"] = [todo |-> SplitPlan(n, A, B), doc |-> None]
           /\ act'["llm"] = act["llm"]
           /\ UNCHANGED <<log, redo>>
      BY <1>2, SplitDoes
    <2>2. Halves[n][1] # Halves[n][2]
      BY <2>1, SplitTypes
    <2> DEFINE s == SplitPlan(n, A, B)
    <2>3. UiOk(s)
      BY <2>2, UiOkSplit
    <2>4. s # <<>> /\ Head(s).op # "pop"
      BY DEF SplitPlan, Insert
    <2> HIDE DEF s
    <2>5. act'["ui"].todo = s
      BY <2>1 DEF s
    <2>6. QED
      BY <2>1, <2>3, <2>4, <2>5 DEF InOrder, Waits, Next1
  <1>3. CASE UndoLast
    <2> DEFINE e == Last(log)
               f == Finish(Append(redo, e))
               s == e.undo \o <<f>>
    <2>1. /\ log # <<>> /\ e \in Entries /\ log' = Front(log)
          /\ e.undo \in Seq(Items) /\ f \in Items
          /\ act'["ui"] = [todo |-> s, doc |-> None] /\ act'["llm"] = act["llm"]
          /\ redo' = redo
      BY <1>3, UndoDoes
    <2>2. AllOk(Front(log)) /\ EntryOk(e)
      BY <1>0, <2>1, OkRows DEF InOrder
    <2>3. Append(redo, e) \in Seq(Entries) /\ AllOk(Append(redo, e))
      BY <1>0, <2>1, <2>2, OkRows DEF InOrder
    <2>4. UiOk(s)
      <3> HIDE DEF e
      <3>1. QED
        BY <2>1, <2>2, <2>3, UiOkUndo
    <2>5. s # <<>> /\ Head(s).op # "pop"
      <3> DEFINE v == e.undo
      <3>1. v \in Seq(Items) /\ (Len(v) > 0 => v[1].op # "pop") /\ f.op = "finish"
        BY <2>1, <2>2 DEF EntryOk, Finish
      <3> HIDE DEF v, f
      <3>2. CASE v = <<>>
        <4>1. v \o <<f>> = <<f>>
          BY <3>2
        <4>2. QED
          BY <3>1, <4>1 DEF v
      <3>3. CASE v # <<>>
        <4>1. Len(v) > 0 /\ v \o <<f>> # <<>> /\ Head(v \o <<f>>) = v[1]
          BY <2>1, <3>1, <3>3
        <4>2. QED
          BY <3>1, <4>1 DEF v
      <3>4. QED
        BY <3>2, <3>3
    <2> HIDE DEF s
    <2>6. act'["ui"].todo = s
      BY <2>1
    <2>7. QED
      BY <2>1, <2>2, <2>4, <2>5, <2>6 DEF InOrder, Waits, Next1
  <1>4. CASE RedoLast
    <2> DEFINE e == Last(redo)
    <2>1. /\ redo # <<>> /\ e \in Entries /\ redo' = Front(redo) /\ act'["llm"] = act["llm"]
          /\ \/ act'["ui"] = Idle
             \/ /\ e.call.op \notin {"split", "name"}
                /\ act'["ui"] = [todo |-> <<e.call, Finish(Front(redo))>>, doc |-> None]
          /\ log' = log
      BY <1>4, RedoDoes
    <2>2. AllOk(Front(redo)) /\ EntryOk(e)
      BY <1>0, <2>1, OkRows DEF InOrder
    <2> DEFINE c == e.call
               s == <<c, Finish(Front(redo))>>
    <2>3. CASE act'["ui"] = Idle
      <3>1. act'["ui"].todo = <<>>
        BY <2>3 DEF Idle
      <3>2. QED
        BY <2>1, <2>2, <3>1, UiOkFew DEF InOrder, Waits
    <2>4. CASE e.call.op \notin {"split", "name"} /\ act'["ui"] = [todo |-> s, doc |-> None]
      <3>1. c.op \in Simple
        BY <2>2, <2>4 DEF EntryOk
      <3> HIDE DEF c, e
      <3>2. UiOk(s)
        BY <2>2, <3>1, UiOkFew
      <3>3. s # <<>> /\ Head(s).op # "pop"
        BY <3>1 DEF Simple
      <3> HIDE DEF s
      <3>4. act'["ui"].todo = s
        BY <2>4
      <3>5. QED
        BY <2>1, <2>2, <3>2, <3>3, <3>4 DEF InOrder, Waits, Next1
    <2>5. QED
      BY <2>1, <2>3, <2>4
  <1>5. QED
    BY <1>1, <1>2, <1>3, <1>4

\* A pop behind the head finds what the head puts on.
LEMMA PopBehind ==
  ASSUME NEW s \in Seq(Items), s # <<>>, UiOk(s), Tail(s) # <<>>, Head(Tail(s)).op = "pop"
  PROVE  Popped(Head(s))
  <1>1. /\ Len(s) \in Nat /\ Len(s) > 0 /\ Head(s) = s[1] /\ Tail(s) \in Seq(Items)
        /\ Len(Tail(s)) = Len(s) - 1 /\ \A i \in 1..(Len(s) - 1) : Tail(s)[i] = s[i + 1]
    BY TailOf
  <1>2. Len(Tail(s)) > 0 /\ Head(Tail(s)) = Tail(s)[1]
    <2> DEFINE u == Tail(s)
    <2>1. u \in Seq(Items) /\ u # <<>>
      BY <1>1
    <2> HIDE DEF u
    <2>2. Len(u) > 0 /\ Head(u) = u[1]
      BY <2>1, TailOf
    <2>3. QED
      BY <2>2 DEF u
  <1>3. 1 \in 1..(Len(s) - 1) /\ Tail(s)[1] = s[1 + 1]
    BY <1>1, <1>2
  <1>4. QED
    BY <1>1, <1>2, <1>3 DEF UiOk, PopsAfter

\* A call that is saved: the user's is one of the sidebar's or of an undo's, the
\* task's a name.
LEMMA SavedOps ==
  ASSUME TypeOK, InOrder, NEW a \in Actors, Calls(a)
  PROVE  /\ a = "ui" => Next1(a).op \in Simple \cup {"insert", "reparent", "remove"}
         /\ a = "llm" => Next1(a).op = "name"
  <1>1. act[a].todo # <<>> /\ Next1(a) = act[a].todo[1] /\ Len(act[a].todo) > 0
        /\ Len(act[a].todo) \in Nat
    BY TodoOf DEF Calls
  <1>2. 1 \in 1..Len(act[a].todo) /\ Next1(a).op \notin Off
    BY <1>1 DEF Calls
  <1>3. a = "ui" => UiItemOk(act[a].todo, 1)
    BY <1>2 DEF InOrder, UiOk
  <1>4. a = "llm" => LlmItemOk(Next1(a))
    BY <1>1, <1>2 DEF InOrder, LlmOk
  <1>5. QED
    BY <1>1, <1>2, <1>3, <1>4 DEF UiItemOk, UiOps, LlmItemOk, Off, Actors

\* A save of the user's keeps the order.
LEMMA SaveInOrderUi ==
  ASSUME TypeOK, InOrder, Save("ui")
  PROVE  InOrder'
  <1> DEFINE t == Loaded("ui")
             c == Next1("ui")
             s == act["ui"].todo
  <1>0. "ui" \in Actors /\ "llm" \in Actors
    BY DEF Actors
  <1>1. /\ t \in Tree /\ c \in AnyCall /\ s # <<>> /\ Fits(t, c)
        /\ act'["ui"] = [todo |-> Recording(t, c) \o Tail(s), doc |-> None]
        /\ act'["llm"] = act["llm"]
        /\ Logs(t, c) => Entry(t, c) \in Entries
    BY <1>0, SaveDoes
  <1>2. s \in Seq(Items) /\ Tail(s) \in Seq(Items) /\ c = Head(s) /\ c = s[1] /\ UiOk(s)
    BY <1>0, <1>1, TodoOf DEF Next1, InOrder
  <1>3. c.op \in Simple \cup {"insert", "reparent", "remove"}
    BY <1>0, SavedOps DEF Save
  <1>4. UNCHANGED <<log, redo>>
    BY DEF Save
  <1> HIDE DEF t, c, s
  <1> DEFINE u == Recording(t, c) \o Tail(s)
  <1>5. UiOk(u) /\ ~(u # <<>> /\ Head(u).op = "pop")
    <2>1. CASE Logs(t, c)
      <3> DEFINE e == Entry(t, c)
      <3>1. /\ EntryOk(e) /\ e \in Entries
            /\ c.op \in {"rename", "name", "move"} => Plain(e)
        BY <1>1, <2>1, EntryOkOf
      <3>2. c.op \in Simple /\ u = <<Record(e)>> \o Tail(s)
        BY <1>3, <2>1 DEF Logs, Recording
      <3> HIDE DEF e, u
      <3>3. UiOk(u)
        BY <1>1, <1>2, <3>1, <3>2, UiOkRecord
      <3>4. Head(u) = Record(e)
        <4>1. Record(e) \in Items
          BY <3>1 DEF Items
        <4>2. QED
          BY <1>2, <3>2, <4>1
      <3>5. QED
        BY <3>3, <3>4, CallOps
    <2>2. CASE ~Logs(t, c)
      <3>1. u = Tail(s)
        BY <1>2, <2>2 DEF Recording
      <3> HIDE DEF u
      <3>2. UiOk(u)
        BY <1>1, <1>2, <3>1, UiOkTail
      <3>3. c.op \notin Simple
        BY <2>2 DEF Logs, Simple
      <3>4. u # <<>> /\ Head(u).op = "pop" => Popped(c)
        BY <1>1, <1>2, <3>1, PopBehind
      <3>5. QED
        BY <1>3, <3>2, <3>3, <3>4 DEF Popped, Simple
    <2>3. QED
      BY <2>1, <2>2
  <1> HIDE DEF u
  <1>6. act'["ui"].todo = u
    BY <1>1 DEF u
  <1>7. QED
    BY <1>1, <1>4, <1>5, <1>6 DEF InOrder, Waits, Next1

\* A save of the task's keeps the order.
LEMMA SaveInOrderLlm ==
  ASSUME TypeOK, InOrder, Save("llm")
  PROVE  InOrder'
  <1> DEFINE t == Loaded("llm")
             c == Next1("llm")
             s == act["llm"].todo
  <1>0. "ui" \in Actors /\ "llm" \in Actors
    BY DEF Actors
  <1>1. /\ t \in Tree /\ c \in AnyCall /\ s # <<>> /\ Fits(t, c)
        /\ act'["llm"] = [todo |-> Recording(t, c) \o Tail(s), doc |-> None]
        /\ act'["ui"] = act["ui"]
        /\ Logs(t, c) => Entry(t, c) \in Entries
    BY <1>0, SaveDoes
  <1>2. s \in Seq(Items) /\ Tail(s) \in Seq(Items) /\ LlmOk(s)
    BY <1>0, <1>1, TodoOf DEF InOrder
  <1>3. c.op = "name"
    BY <1>0, SavedOps DEF Save
  <1>4. UNCHANGED <<log, redo>>
    BY DEF Save
  <1> HIDE DEF t, c, s
  <1> DEFINE u == Recording(t, c) \o Tail(s)
  <1>5. LlmOk(u)
    <2>1. CASE Logs(t, c)
      <3> DEFINE e == Entry(t, c)
      <3>1. EntryOk(e) /\ e \in Entries /\ Plain(e)
        BY <1>1, <1>3, <2>1, EntryOkOf
      <3>2. u = <<Record(e)>> \o Tail(s)
        BY <2>1 DEF Recording
      <3> HIDE DEF e, u
      <3> DEFINE i == Record(e)
      <3>3. i \in Items /\ LlmItemOk(i)
        BY <3>1 DEF Items, LlmItemOk, Record
      <3> HIDE DEF i
      <3>4. LlmOk(<<i>> \o Tail(s))
        BY <1>1, <1>2, <3>3, LlmOkTail
      <3>5. QED
        BY <3>2, <3>4 DEF i
    <2>2. CASE ~Logs(t, c)
      <3>1. u = Tail(s)
        BY <1>2, <2>2 DEF Recording
      <3>2. QED
        BY <1>1, <1>2, <3>1, LlmOkTail
    <2>3. QED
      BY <2>1, <2>2
  <1> HIDE DEF u
  <1>6. act'["llm"].todo = u
    BY <1>1 DEF u
  <1>7. QED
    BY <1>1, <1>4, <1>5, <1>6 DEF InOrder, Waits, Next1

\* Putting an entry on the history keeps the order.
LEMMA AppendInOrder ==
  ASSUME TypeOK, InOrder, NEW a \in Actors, AppendHistory(a)
  PROVE  /\ InOrder' /\ EntryOk(Next1(a).entry)
         /\ a = "llm" => Plain(Next1(a).entry)
  <1> DEFINE s == act[a].todo
             e == Next1(a).entry
  <1>1. /\ s # <<>> /\ Next1(a).op = "record" /\ e \in Entries
        /\ log' = Append(log, e)
        /\ act'[a] = [todo |-> Tail(s), doc |-> act[a].doc]
        /\ \A b \in Actors : b # a => act'[b] = act[b]
    BY AppendDoes
  <1>2. /\ s \in Seq(Items) /\ Next1(a) = Head(s) /\ Next1(a) = s[1]
        /\ Len(s) \in Nat /\ Len(s) > 0
    BY <1>1, TodoOf DEF Next1
  <1>3. redo' = redo
    BY DEF AppendHistory
  <1>4. log \in Seq(Entries)
    BY DEF TypeOK
  <1>5. Last(log') = e /\ act'[a].todo = Tail(s)
    BY <1>1, <1>4, AppendOf
  <1>6. CASE a = "ui"
    <2>1. UiOk(s) /\ UiItemOk(s, 1)
      BY <1>2, <1>6 DEF InOrder, UiOk
    <2>2. EntryOk(e)
      BY <1>1, <1>2, <2>1 DEF UiItemOk
    <2>3. AllOk(log')
      BY <1>1, <1>4, <2>2, OkRows DEF InOrder
    <2> HIDE DEF s, e
    <2>4. UiOk(Tail(s))
      BY <1>1, <1>2, <2>1, UiOkTail
    <2>5. Tail(s) # <<>> /\ Head(Tail(s)).op = "pop" => Plain(e)
      <3>1. SUFFICES ASSUME Tail(s) # <<>>, Head(Tail(s)).op = "pop"
                     PROVE  Plain(e)
        OBVIOUS
      <3>2. Popped(Next1(a))
        BY <1>1, <1>2, <2>1, <3>1, PopBehind
      <3>3. QED
        BY <1>1, <3>2 DEF Popped, e
    <2>6. act'["ui"].todo = Tail(s) /\ act'["llm"] = act["llm"]
      BY <1>1, <1>5, <1>6 DEF Actors
    <2>7. InOrder'
      BY <1>3, <1>5, <2>3, <2>4, <2>5, <2>6 DEF InOrder, Waits, Next1
    <2>8. QED
      BY <1>6, <2>2, <2>7 DEF e
  <1>7. CASE a = "llm"
    <2>1. LlmOk(s)
      BY <1>7 DEF InOrder
    <2>2. LlmItemOk(Next1(a)) /\ LlmOk(Tail(s))
      BY <1>1, <1>2, <2>1, LlmOkTail
    <2>3. EntryOk(e) /\ Plain(e)
      BY <1>1, <2>2 DEF LlmItemOk
    <2>4. AllOk(log')
      BY <1>1, <1>4, <2>3, OkRows DEF InOrder
    <2> HIDE DEF s, e
    <2>5. act'["llm"].todo = Tail(s) /\ act'["ui"] = act["ui"]
      BY <1>1, <1>5, <1>7 DEF Actors
    <2>6. InOrder'
      BY <1>3, <1>5, <2>2, <2>3, <2>4, <2>5 DEF InOrder, Waits, Next1
    <2>7. QED
      BY <2>3, <2>6 DEF e
  <1>8. QED
    BY <1>6, <1>7 DEF Actors

\* Every step keeps the order.
LEMMA InOrderStep ==
  ASSUME TypeOK, InOrder, [Next]_vars
  PROVE  InOrder'
  <1>1. CASE (\E c \in AnyCall : Edit(c) /\ Offered(c)) \/ SplitCluster \/ UndoLast \/ RedoLast
    BY <1>1, BeginInOrder
  <1>2. CASE NameClusters
    <2>1. /\ act'["ui"] = act["ui"]
          /\ \A i \in 1..Len(act'["llm"].todo) :
               act'["llm"].todo[i].op = "name" \/ act'["llm"].todo[i] = Finish(<<>>)
          /\ UNCHANGED <<log, redo>>
      BY <1>2, NamingDoes
    <2>2. Finish(<<>>).op = "finish"
      BY CallOps
    <2>3. LlmOk(act'["llm"].todo)
      BY <2>1, <2>2 DEF LlmOk, LlmItemOk
    <2>4. QED
      BY <2>1, <2>3 DEF InOrder, Waits, Next1
  <1>3. CASE DiscardTree
    BY <1>3, DiscardDoes, OkRows DEF InOrder, Waits, Next1
  <1>4. ASSUME NEW a \in Actors, StepOf(a)
        PROVE  InOrder'
    <2>1. CASE Load(a)
      <3>1. act'[a] = [todo |-> act[a].todo, doc |-> tree] /\ \A b \in Actors : b # a => act'[b] = act[b]
        BY <1>4, <2>1, LoadDoes
      <3>2. act'["ui"].todo = act["ui"].todo /\ act'["llm"].todo = act["llm"].todo
        BY <1>4, <3>1 DEF Actors
      <3>3. UNCHANGED <<log, redo>>
        BY <2>1 DEF Load
      <3>4. QED
        BY <3>2, <3>3 DEF InOrder, Waits, Next1
    <2>2. CASE Fail(a)
      <3>1. /\ act'[a] = [todo |-> IF a = "ui" THEN <<>> ELSE Tail(act[a].todo), doc |-> None]
            /\ \A b \in Actors : b # a => act'[b] = act[b]
        BY <1>4, <2>2, FailDoes
      <3>2. UNCHANGED <<log, redo>>
        BY <2>2 DEF Fail
      <3>3. CASE a = "ui"
        <4>1. act'["ui"].todo = <<>> /\ act'["llm"] = act["llm"]
          BY <3>1, <3>3 DEF Actors
        <4>2. QED
          BY <3>2, <4>1, UiOkFew DEF InOrder, Waits
      <3>4. CASE a = "llm"
        <4>1. act'["llm"].todo = Tail(act["llm"].todo) /\ act'["ui"] = act["ui"]
          <5>1. act'["llm"] = [todo |-> Tail(act["llm"].todo), doc |-> None]
            BY <3>1, <3>4
          <5>2. act'["ui"] = act["ui"]
            BY <3>1, <3>4 DEF Actors
          <5>3. QED
            BY <5>1, <5>2
        <4>2. act["llm"].todo \in Seq(Items) /\ act["llm"].todo # <<>>
          BY <1>4, <2>2, <3>4, TodoOf DEF Fail, Calls
        <4>3. LlmOk(Tail(act["llm"].todo))
          BY <4>2, LlmOkTail DEF InOrder
        <4>4. QED
          BY <3>2, <4>1, <4>3 DEF InOrder, Waits, Next1
      <3>5. QED
        BY <1>4, <3>3, <3>4 DEF Actors
    <2>3. CASE Save(a)
      BY <1>4, <2>3, SaveInOrderUi, SaveInOrderLlm DEF Actors
    <2>4. CASE AppendHistory(a)
      BY <1>4, <2>4, AppendInOrder
    <2>5. QED
      BY <1>4, <2>1, <2>2, <2>3, <2>4 DEF StepOf
  <1>5. CASE PopHistory
    <2> DEFINE s == act["ui"].todo
    <2>1. /\ s # <<>> /\ Next1("ui").op = "pop"
          /\ log' = IF log = <<>> THEN log ELSE Front(log)
          /\ act'["ui"] = [todo |-> Tail(s), doc |-> act["ui"].doc]
          /\ act'["llm"] = act["llm"]
      BY <1>5, PopDoes
    <2>2. s \in Seq(Items) /\ Next1("ui") = Head(s) /\ UiOk(s)
      BY TodoOf DEF Next1, Actors, InOrder
    <2>3. redo' = redo
      BY <1>5 DEF PopHistory
    <2>4. AllOk(log')
      BY <2>1, OkRows DEF InOrder, TypeOK
    <2> HIDE DEF s
    <2>5. UiOk(Tail(s))
      BY <2>1, <2>2, UiOkTail
    <2>6. ~(Tail(s) # <<>> /\ Head(Tail(s)).op = "pop")
      BY <2>1, <2>2, PopBehind DEF Popped
    <2>7. act'["ui"].todo = Tail(s)
      BY <2>1
    <2>8. QED
      BY <2>1, <2>3, <2>4, <2>5, <2>6, <2>7 DEF InOrder, Waits, Next1
  <1>6. CASE FinishVerb
    <2> DEFINE s == act["ui"].todo
    <2>1. /\ s # <<>> /\ Next1("ui").op = "finish" /\ redo' = Next1("ui").redo
          /\ act'["ui"] = Idle /\ act'["llm"] = act["llm"]
      BY <1>6, FinishDoes
    <2>2. Next1("ui") = s[1] /\ UiOk(s) /\ Len(s) \in Nat /\ Len(s) > 0
      BY <2>1, TodoOf DEF Actors, InOrder
    <2>3. UiItemOk(s, 1)
      BY <2>2 DEF UiOk
    <2>4. AllOk(redo')
      BY <2>1, <2>2, <2>3 DEF UiItemOk
    <2>5. act'["ui"].todo = <<>> /\ log' = log
      BY <1>6, <2>1 DEF Idle, FinishVerb
    <2>6. QED
      BY <2>1, <2>4, <2>5, UiOkFew DEF InOrder, Waits
  <1>7. CASE FinishJob
    <2>1. act'["llm"] = Idle /\ act'["ui"] = act["ui"]
      BY <1>7, JobDoes
    <2>2. act'["llm"].todo = <<>> /\ UNCHANGED <<log, redo>>
      BY <1>7, <2>1 DEF Idle, FinishJob
    <2>3. LlmOk(<<>>)
      BY DEF LlmOk
    <2>4. QED
      BY <2>1, <2>2, <2>3 DEF InOrder, Waits, Next1
  <1>8. CASE UNCHANGED vars
    BY <1>8 DEF vars, InOrder, Waits, Next1
  <1>9. QED
    BY <1>1, <1>2, <1>3, <1>4, <1>5, <1>6, <1>7, <1>8, NextCases

\* A session starts in order.
LEMMA InOrderInit ==
  ASSUME Init
  PROVE  InOrder
  <1>1. act["ui"].todo = <<>> /\ act["llm"].todo = <<>> /\ log = <<>> /\ redo = <<>>
    BY DEF Init, Idle
  <1>2. LlmOk(<<>>)
    BY DEF LlmOk
  <1>3. QED
    BY <1>1, <1>2, UiOkFew, OkRows DEF InOrder, Waits

-----------------------------------------------------------------------------
(* Who is there between the entries of the history, and what the user wrote *)
(* on a node that is not.                                                   *)

\* The nodes whose taking an entry remembers, and those its undo deletes.
TakenBy(e) == {n \in Node : \E i \in 1..Len(e.undo) : e.undo[i].op = "insert" /\ e.undo[i].at = n}
GivenBy(e) == {n \in Node : \E i \in 1..Len(e.undo) : e.undo[i].op = "remove" /\ e.undo[i].at = n}

\* With an entry, the nodes A became the nodes B.
Changes(e, A, B) ==
  TakenBy(e) \subseteq A /\ GivenBy(e) \cap A = {} /\ B = (A \ TakenBy(e)) \cup GivenBy(e)

\* P: the nodes there were before the first entry, and after each.
Chained(l, P) == \A k \in 1..Len(l) : Changes(l[k], P[k - 1], P[k])

\* The nodes a list is still to insert and to delete, and those there will be.
Coming(s) == {n \in Node : \E i \in 1..Len(s) : s[i].op = "insert" /\ s[i].at = n}
Going(s) == {n \in Node : \E i \in 1..Len(s) : s[i].op = "remove" /\ s[i].at = n}
Later(s, t) == (There(t) \ Going(s)) \cup Coming(s)

\* A list that neither inserts, deletes nor records.
Calm(s) == \A i \in 1..Len(s) : s[i].op \notin {"insert", "remove", "record"}
Unrecorded(s) == \A i \in 1..Len(s) : s[i].op # "record"

\* The history's last nodes and those there will be: the same, but for an entry
\* that is still to be recorded.
Joined(s, now, t) ==
  /\ \A i \in 1..Len(s) : s[i].op = "record" => Changes(s[i].entry, now, Later(s, t))
  /\ Unrecorded(s) => now = Later(s, t)

\* A row to be inserted has what the user wrote on its node.
Stands(g, u) == g[u.at] # None => u.row.mine /\ u.row.text = g[u.at]
EntryStands(g, e, S) ==
  \A i \in 1..Len(e.undo) : e.undo[i].op = "insert" /\ e.undo[i].at \in S => Stands(g, e.undo[i])

\* The nodes that are gone since entry j.
Gone(t, l, P, j) == {n \in Node : n \notin There(t) /\ \A m \in j..Len(l) : n \notin P[m]}
RowsStand(g, t, l, P) == \A j \in 1..Len(l) : EntryStands(g, l[j], Gone(t, l, P, j))
ComingStand(g, t, s) ==
  \A i \in 1..Len(s) : s[i].op = "insert" =>
    s[i].at \notin There(t) /\ (Stands(g, s[i]) \/ s[i].row = Fresh(s[i].row.parent))
RecordStands(g, s) == \A i \in 1..Len(s) : s[i].op = "record" => EntryStands(g, s[i].entry, Node)
TextStands(g, t) == \A n \in There(t) : g[n] # None => t[n].mine /\ t[n].text = g[n]

TextInv(l, s, t, g, P) ==
  /\ Chained(l, P) /\ Joined(s, P[Len(l)], t)
  /\ RowsStand(g, t, l, P) /\ ComingStand(g, t, s) /\ RecordStands(g, s) /\ TextStands(g, t)

\* A plain entry changes nobody's presence.
LEMMA PlainChanges ==
  ASSUME NEW e, Plain(e), NEW A
  PROVE  /\ TakenBy(e) = {} /\ GivenBy(e) = {} /\ Changes(e, A, A)
         /\ \A B : Changes(e, A, B) => B = A
         /\ \A g, S : EntryStands(g, e, S)
  <1>1. TakenBy(e) = {} /\ GivenBy(e) = {}
    BY DEF Plain, TakenBy, GivenBy
  <1>2. \A g, S : EntryStands(g, e, S)
    BY DEF Plain, EntryStands
  <1>3. QED
    BY <1>1, <1>2 DEF Changes

\* With a list that only renames, moves and takes off, the history's last nodes
\* are those there are.
LEMMA CalmIs ==
  ASSUME NEW s, Calm(s), NEW t
  PROVE  /\ Unrecorded(s) /\ Later(s, t) = There(t)
         /\ \A now : Joined(s, now, t) <=> now = There(t)
         /\ \A g : ComingStand(g, t, s) /\ RecordStands(g, s)
  <1>1. Unrecorded(s) /\ Coming(s) = {} /\ Going(s) = {}
    BY DEF Calm, Unrecorded, Coming, Going
  <1>2. Later(s, t) = There(t)
    BY <1>1 DEF Later
  <1>3. \A now : Joined(s, now, t) <=> now = There(t)
    BY <1>1, <1>2 DEF Joined, Unrecorded
  <1>4. \A g : ComingStand(g, t, s) /\ RecordStands(g, s)
    BY DEF Calm, ComingStand, RecordStands
  <1>5. QED
    BY <1>1, <1>2, <1>3, <1>4

\* One such list for another.
LEMMA CalmKeeps ==
  ASSUME NEW l, NEW s, NEW r, NEW t, NEW g, NEW P, Calm(s), Calm(r), TextInv(l, s, t, g, P)
  PROVE  TextInv(l, r, t, g, P) /\ P[Len(l)] = There(t)
  <1>1. P[Len(l)] = There(t)
    BY CalmIs DEF TextInv
  <1>2. Joined(r, P[Len(l)], t) /\ ComingStand(g, t, r) /\ RecordStands(g, r)
    BY <1>1, CalmIs
  <1>3. QED
    BY <1>1, <1>2 DEF TextInv

\* Where lists are calm.
LEMMA CalmLists ==
  /\ Calm(<<>>)
  /\ \A c, r : c.op \in Simple => Calm(<<c, Finish(r)>>)
  /\ \A s \in Seq(Items) : s # <<>> /\ Calm(s) => Calm(Tail(s))
  /\ \A s \in Seq(Items) : s # <<>> /\ UiOk(s) /\ Head(s).op \in Simple \cup {"pop", "finish"} => Calm(s)
  <1>1. Calm(<<>>)
    BY DEF Calm
  <1>2. ASSUME NEW c, NEW r, c.op \in Simple
        PROVE  Calm(<<c, Finish(r)>>)
    <2> DEFINE f == Finish(r)
    <2>1. f.op = "finish"
      BY CallOps
    <2> HIDE DEF f
    <2>2. Calm(<<c, f>>)
      BY <1>2, <2>1 DEF Calm, Simple
    <2>3. QED
      BY <2>2 DEF f
  <1>3. ASSUME NEW s \in Seq(Items), s # <<>>, Calm(s)
        PROVE  Calm(Tail(s))
    <2>1. /\ Len(s) \in Nat /\ Len(Tail(s)) = Len(s) - 1
          /\ \A i \in 1..(Len(s) - 1) : Tail(s)[i] = s[i + 1]
      BY <1>3, TailOf
    <2>2. \A i \in 1..(Len(s) - 1) : i + 1 \in 1..Len(s)
      BY <2>1
    <2>3. QED
      BY <1>3, <2>1, <2>2 DEF Calm
  <1>4. ASSUME NEW s \in Seq(Items), s # <<>>, UiOk(s), Head(s).op \in Simple \cup {"pop", "finish"}
        PROVE  Calm(s)
    <2>1. Len(s) \in Nat /\ Len(s) > 0 /\ Head(s) = s[1]
      BY <1>4, TailOf
    <2>2. SUFFICES ASSUME NEW i \in 1..Len(s), s[i].op \in {"insert", "remove", "record"}
                   PROVE  FALSE
      BY DEF Calm
    <2>3. 1 \in 1..Len(s) /\ UiItemOk(s, 1) /\ UiItemOk(s, i)
      BY <1>4, <2>1, <2>2 DEF UiOk
    <2>4. CASE s[i].op = "record"
      <3>1. i # 1
        BY <1>4, <2>1, <2>4 DEF Simple
      <3>2. 1 \in 1..(i - 1)
        BY <2>1, <3>1
      <3>3. s[1].op \in {"insert", "reparent"}
        BY <2>3, <2>4, <3>2 DEF UiItemOk
      <3>4. QED
        BY <1>4, <2>1, <3>3 DEF Simple
    <2>5. CASE s[i].op \in {"insert", "remove"}
      <3>1. s[1].op \in {"insert", "remove", "reparent", "record", "finish"}
        BY <1>4, <2>2, <2>3, <2>5 DEF UiOk, Apart
      <3>2. s[1].op = "finish"
        BY <1>4, <2>1, <3>1 DEF Simple
      <3>3. Len(s) = 1
        BY <2>3, <3>2 DEF UiItemOk
      <3>4. QED
        BY <2>2, <2>5, <3>2, <3>3
    <2>6. QED
      BY <2>2, <2>4, <2>5
  <1>5. QED
    BY <1>1, <1>2, <1>3, <1>4

\* Who is there after a call, and what of a row a call leaves.
LEMMA ThereAfter ==
  ASSUME NEW t \in Tree, NEW c \in AnyCall, Fits(t, c)
  PROVE  /\ c.op \in {"rename", "name", "move", "reparent"} => There(Apply(t, c)) = There(t)
         /\ c.op \in Taking => There(Apply(t, c)) = There(t) \ Taken(t, c)
         /\ c.op = "insert" => There(Apply(t, c)) = There(t) \cup {c.at}
         /\ c.op = "remove" => There(Apply(t, c)) = There(t) \ {c.at}
         /\ c.op \in Shaping => \A n \in There(Apply(t, c)) :
              /\ n \in There(t) /\ n \notin Taken(t, c)
              /\ Apply(t, c)[n] =
                   [kind |-> t[n].kind,
                    parent |-> IF n \in DOMAIN Moved(t, c) THEN Moved(t, c)[n] ELSE t[n].parent,
                    text |-> t[n].text, mine |-> t[n].mine]
  <1> DEFINE A == Apply(t, c)
  <1>1. A \in Tree /\ c.op \in Ops
    BY ApplyRows, CallFields
  <1>2. \A n \in Node : (n \in There(A) <=> A[n] # None) /\ (n \in There(t) <=> t[n] # None)
    BY <1>1, TreeRows
  <1>3. There(A) \subseteq Node /\ There(t) \subseteq Node
    BY DEF There
  <1>4. CASE c.op = "rename"
    <2>1. c.at \in Node /\ c.text \in Text /\ t[c.at] # None /\ t[c.at] \in Row
      BY <1>4, CallFields, TreeRows DEF Fits
    <2> DEFINE r == [kind |-> t[c.at].kind, parent |-> t[c.at].parent, text |-> c.text, mine |-> TRUE]
    <2>2. r \in Row
      BY <2>1 DEF Row
    <2>3. \A n \in Node : A[n] = IF n # c.at THEN t[n] ELSE r
      <3>1. TAKE n \in Node
      <3>2. A[n] = IF n # c.at THEN t[n] ELSE
              [kind |-> t[n].kind, parent |-> t[n].parent, text |-> c.text, mine |-> TRUE]
        BY <1>4, ApplyRows
      <3>3. QED
        BY <3>2
    <2> HIDE DEF r, A
    <2>4. r # None
      BY <2>2, TreeConstants
    <2>5. There(A) = There(t)
      BY <1>2, <1>3, <2>1, <2>3, <2>4
    <2>6. QED
      BY <1>4, <2>5 DEF A, Shaping, Taking
  <1>5. CASE c.op = "name"
    <2>1. c.at \in Node /\ c.text \in Text /\ t[c.at] # None /\ t[c.at] \in Row
      BY <1>5, CallFields, TreeRows DEF Fits
    <2> DEFINE r == [kind |-> t[c.at].kind, parent |-> t[c.at].parent, text |-> c.text, mine |-> t[c.at].mine]
    <2>2. r \in Row
      BY <2>1 DEF Row
    <2>3. \A n \in Node : A[n] = IF n # c.at \/ t[n].mine THEN t[n] ELSE r
      <3>1. TAKE n \in Node
      <3>2. A[n] = IF n # c.at \/ t[n].mine THEN t[n] ELSE
              [kind |-> t[n].kind, parent |-> t[n].parent, text |-> c.text, mine |-> t[n].mine]
        BY <1>5, ApplyRows
      <3>3. QED
        BY <3>2
    <2> HIDE DEF r, A
    <2>4. r # None
      BY <2>2, TreeConstants
    <2>5. There(A) = There(t)
      BY <1>2, <1>3, <2>1, <2>3, <2>4
    <2>6. QED
      BY <1>5, <2>5 DEF A, Shaping, Taking
  <1>6. CASE c.op = "insert"
    <2>1. c.at \in Node /\ c.row # None /\ \A n \in Node : A[n] = IF n = c.at THEN c.row ELSE t[n]
      BY <1>6, ApplyRows, CallFields, TreeConstants
    <2> HIDE DEF A
    <2>2. There(A) = There(t) \cup {c.at}
      BY <1>2, <1>3, <2>1
    <2>3. QED
      BY <1>6, <2>2 DEF A, Shaping, Taking
  <1>7. CASE c.op \in Shaping
    <2> DEFINE R(n) == [kind |-> t[n].kind,
                        parent |-> IF n \in DOMAIN Moved(t, c) THEN Moved(t, c)[n] ELSE t[n].parent,
                        text |-> t[n].text, mine |-> t[n].mine]
    <2>1. \A n \in Node : A[n] = IF t[n] = None \/ n \in Taken(t, c) THEN None ELSE R(n)
      BY <1>7, ApplyRows
    <2>2. ASSUME NEW n \in There(t)
          PROVE  R(n) # None
      <3> DEFINE p == IF n \in DOMAIN Moved(t, c) THEN Moved(t, c)[n] ELSE t[n].parent
      <3>1. n \in Node /\ t[n] \in Row
        BY <1>3, TreeRows
      <3>2. p \in Node \cup {None}
        BY <3>1, MovedTypes DEF MoveMap, Row
      <3> HIDE DEF p
      <3>3. [kind |-> t[n].kind, parent |-> p, text |-> t[n].text, mine |-> t[n].mine] \in Row
        BY <3>1, <3>2 DEF Row
      <3>4. QED
        BY <3>3, TreeConstants DEF p
    <2> HIDE DEF R, A
    <2>3. There(A) = There(t) \ Taken(t, c)
      BY <1>2, <1>3, <2>1, <2>2
    <2>4. \A n \in There(A) : n \in There(t) /\ n \notin Taken(t, c) /\ A[n] = R(n)
      BY <1>2, <1>3, <2>1, <2>3
    <2>5. c.op \in {"move", "reparent"} => Taken(t, c) = {}
      BY DEF Taken
    <2>6. c.op = "remove" => Taken(t, c) = {c.at}
      BY DEF Taken
    <2>7. QED
      BY <1>7, <2>3, <2>4, <2>5, <2>6 DEF A, R, Shaping, Taking
  <1>8. QED
    BY <1>1, <1>4, <1>5, <1>6, <1>7 DEF Ops, Shaping

\* What a call leaves of the texts.
LEMMA TextsAfter ==
  ASSUME NEW t \in Tree, NEW c \in AnyCall, Fits(t, c), NEW n \in There(Apply(t, c))
  PROVE  /\ c.op \in {"rename", "name"} => n \in There(t)
         /\ c.op = "rename" => IF n = c.at THEN Apply(t, c)[n].mine /\ Apply(t, c)[n].text = c.text
                               ELSE Apply(t, c)[n] = t[n]
         /\ c.op = "name" => (t[n].mine => Apply(t, c)[n] = t[n])
         /\ c.op = "insert" => Apply(t, c)[n] = IF n = c.at THEN c.row ELSE t[n]
         /\ c.op \in Shaping => /\ n \in There(t)
                                /\ Apply(t, c)[n].mine = t[n].mine /\ Apply(t, c)[n].text = t[n].text
  <1>1. n \in Node
    BY DEF There
  <1>2. c.op \in {"rename", "name"} => n \in There(t)
    BY ThereAfter
  <1>3. c.op = "rename" => IF n = c.at THEN Apply(t, c)[n].mine /\ Apply(t, c)[n].text = c.text
                           ELSE Apply(t, c)[n] = t[n]
    <2>1. SUFFICES ASSUME c.op = "rename"
                   PROVE  IF n = c.at THEN Apply(t, c)[n].mine /\ Apply(t, c)[n].text = c.text
                          ELSE Apply(t, c)[n] = t[n]
      OBVIOUS
    <2>2. Apply(t, c)[n] = IF n # c.at THEN t[n] ELSE
            [kind |-> t[n].kind, parent |-> t[n].parent, text |-> c.text, mine |-> TRUE]
      BY <1>1, <2>1, ApplyRows
    <2>3. QED
      BY <2>2
  <1>4. c.op = "name" => (t[n].mine => Apply(t, c)[n] = t[n])
    <2>1. SUFFICES ASSUME c.op = "name", t[n].mine
                   PROVE  Apply(t, c)[n] = t[n]
      OBVIOUS
    <2>2. Apply(t, c)[n] = IF n # c.at \/ t[n].mine THEN t[n] ELSE
              [kind |-> t[n].kind, parent |-> t[n].parent, text |-> c.text, mine |-> t[n].mine]
      BY <1>1, <2>1, ApplyRows
    <2>3. QED
      BY <2>1, <2>2
  <1>5. c.op = "insert" => Apply(t, c)[n] = IF n = c.at THEN c.row ELSE t[n]
    BY <1>1, ApplyRows
  <1>6. c.op \in Shaping => /\ n \in There(t)
                            /\ Apply(t, c)[n].mine = t[n].mine /\ Apply(t, c)[n].text = t[n].text
    <2>1. SUFFICES ASSUME c.op \in Shaping
                   PROVE  /\ n \in There(t)
                          /\ Apply(t, c)[n].mine = t[n].mine /\ Apply(t, c)[n].text = t[n].text
      OBVIOUS
    <2>2. n \in There(t) /\ Apply(t, c)[n] =
                   [kind |-> t[n].kind,
                    parent |-> IF n \in DOMAIN Moved(t, c) THEN Moved(t, c)[n] ELSE t[n].parent,
                    text |-> t[n].text, mine |-> t[n].mine]
      BY <2>1, ThereAfter
    <2>3. QED
      BY <2>2
  <1>7. QED
    BY <1>2, <1>3, <1>4, <1>5, <1>6

\* A history with one entry more.
LEMMA Longer ==
  ASSUME NEW l \in Seq(Entries), NEW P, NEW e \in Entries, NEW B, NEW t, NEW g,
         Chained(l, P), Changes(e, P[Len(l)], B), RowsStand(g, t, l, P), EntryStands(g, e, Node)
  PROVE  \E Q : /\ Chained(Append(l, e), Q) /\ Q[Len(Append(l, e))] = B
                /\ RowsStand(g, t, Append(l, e), Q)
  <1> DEFINE n == Len(l)
             h == Append(l, e)
             Q == [k \in 0..(n + 1) |-> IF k = n + 1 THEN B ELSE P[k]]
  <1>1. n \in Nat /\ Len(h) = n + 1 /\ h[n + 1] = e /\ \A i \in 1..n : h[i] = l[i]
    BY AppendOf
  <1> HIDE DEF n, h
  <1>2. Q[n + 1] = B /\ \A k \in 0..n : Q[k] = P[k]
    BY <1>1
  <1> HIDE DEF Q
  <1>3. Chained(h, Q)
    <2>1. SUFFICES ASSUME NEW k \in 1..(n + 1)
                   PROVE  Changes(h[k], Q[k - 1], Q[k])
      BY <1>1 DEF Chained
    <2>2. CASE k = n + 1
      <3>1. k - 1 = n /\ n \in 0..n
        BY <1>1, <2>2
      <3>2. QED
        BY <1>1, <1>2, <2>2, <3>1 DEF n
    <2>3. CASE k # n + 1
      <3>1. k \in 1..n /\ k - 1 \in 0..n /\ k \in 0..n
        BY <1>1, <2>3
      <3>2. QED
        BY <1>1, <1>2, <3>1 DEF Chained, n
    <2>4. QED
      BY <2>2, <2>3
  <1>4. RowsStand(g, t, h, Q)
    <2>1. SUFFICES ASSUME NEW j \in 1..(n + 1)
                   PROVE  EntryStands(g, h[j], Gone(t, h, Q, j))
      BY <1>1 DEF RowsStand
    <2>2. Gone(t, h, Q, j) \subseteq Node
      BY DEF Gone
    <2>3. CASE j = n + 1
      BY <1>1, <2>2, <2>3 DEF EntryStands
    <2>4. CASE j # n + 1
      <3>1. j \in 1..n
        BY <1>1, <2>4
      <3>2. \A m \in j..n : m \in j..(n + 1) /\ m \in 0..n
        BY <1>1
      <3>3. Gone(t, h, Q, j) \subseteq Gone(t, l, P, j)
        BY <1>1, <1>2, <3>2 DEF Gone, n
      <3>4. EntryStands(g, l[j], Gone(t, l, P, j)) /\ h[j] = l[j]
        BY <1>1, <3>1 DEF RowsStand, n
      <3>5. QED
        BY <3>3, <3>4 DEF EntryStands
    <2>5. QED
      BY <2>3, <2>4
  <1>5. \E R : Chained(h, R) /\ R[Len(h)] = B /\ RowsStand(g, t, h, R)
    BY <1>1, <1>2, <1>3, <1>4
  <1>6. QED
    BY <1>5 DEF h

\* A history without its last entry.
LEMMA Shorter ==
  ASSUME NEW l \in Seq(Entries), l # <<>>, NEW P, NEW t, NEW g,
         Chained(l, P), RowsStand(g, t, l, P), P[Len(l)] = There(t)
  PROVE  /\ Chained(Front(l), P) /\ RowsStand(g, t, Front(l), P)
         /\ Changes(Last(l), P[Len(Front(l))], There(t))
         /\ EntryStands(g, Last(l), Node \ There(t))
  <1> DEFINE n == Len(l)
             h == Front(l)
  <1>1. /\ n \in Nat /\ n > 0 /\ Last(l) = l[n] /\ Len(h) = n - 1
        /\ \A i \in 1..(n - 1) : h[i] = l[i]
    BY FrontOf
  <1>2. \A k \in 1..n : Changes(l[k], P[k - 1], P[k])
    BY DEF Chained
  <1>3. \A j \in 1..n : EntryStands(g, l[j], Gone(t, l, P, j))
    BY DEF RowsStand
  <1>4. P[n] = There(t)
    OBVIOUS
  <1>5. \A j \in 1..n : \A m \in j..n : m \in j..(n - 1) \/ m = n
    BY <1>1
  <1>6. ASSUME NEW j \in 1..n
        PROVE  {x \in Node : x \notin There(t) /\ \A m \in j..(n - 1) : x \notin P[m]} \subseteq Gone(t, l, P, j)
    BY <1>4, <1>5 DEF Gone
  <1> HIDE DEF n, h
  <1>7. Chained(h, P)
    BY <1>1, <1>2 DEF Chained
  <1>8. RowsStand(g, t, h, P)
    <2>1. SUFFICES ASSUME NEW j \in 1..(n - 1)
                   PROVE  EntryStands(g, h[j], Gone(t, h, P, j))
      BY <1>1 DEF RowsStand
    <2>2. j \in 1..n /\ h[j] = l[j]
      BY <1>1
    <2>3. Gone(t, h, P, j) \subseteq Gone(t, l, P, j)
      BY <1>1, <1>6, <2>2 DEF Gone
    <2>4. EntryStands(g, l[j], Gone(t, l, P, j))
      BY <1>3, <2>2
    <2>5. QED
      BY <2>2, <2>3, <2>4 DEF EntryStands
  <1>9. n \in 1..n
    BY <1>1
  <1>10. Changes(Last(l), P[Len(h)], There(t))
    BY <1>1, <1>2, <1>4, <1>9
  <1>11. EntryStands(g, Last(l), Node \ There(t))
    <2>1. \A x \in Node \ There(t) : \A m \in n..(n - 1) : x \notin P[m]
      BY <1>1
    <2>2. Node \ There(t) \subseteq Gone(t, l, P, n)
      BY <1>6, <1>9, <2>1
    <2>3. EntryStands(g, Last(l), Gone(t, l, P, n))
      BY <1>1, <1>3, <1>9
    <2>4. QED
      BY <2>2, <2>3 DEF EntryStands
  <1>12. QED
    BY <1>7, <1>8, <1>10, <1>11 DEF h

\* A plain entry taken off.
LEMMA TextPop ==
  ASSUME NEW l \in Seq(Entries), l # <<>>, Plain(Last(l)), NEW s, NEW r, Calm(s), Calm(r),
         NEW t, NEW g, NEW P, TextInv(l, s, t, g, P)
  PROVE  TextInv(Front(l), r, t, g, P)
  <1>1. /\ Chained(l, P) /\ RowsStand(g, t, l, P) /\ TextStands(g, t) /\ P[Len(l)] = There(t)
    BY CalmIs DEF TextInv
  <1>2. /\ Chained(Front(l), P) /\ RowsStand(g, t, Front(l), P)
        /\ Changes(Last(l), P[Len(Front(l))], There(t))
    BY <1>1, Shorter
  <1>3. P[Len(Front(l))] = There(t)
    BY <1>2, PlainChanges
  <1>4. QED
    BY <1>1, <1>2, <1>3, CalmIs DEF TextInv

\* An entry of the task's put on.
LEMMA TextPlainAppend ==
  ASSUME NEW l \in Seq(Entries), NEW e \in Entries, Plain(e), NEW s, NEW t, NEW g, NEW P,
         TextInv(l, s, t, g, P)
  PROVE  \E Q : TextInv(Append(l, e), s, t, g, Q)
  <1> DEFINE B == P[Len(l)]
  <1>1. Changes(e, B, B) /\ EntryStands(g, e, Node)
    BY PlainChanges
  <1>2. Chained(l, P) /\ RowsStand(g, t, l, P)
    BY DEF TextInv
  <1>3. PICK Q : /\ Chained(Append(l, e), Q) /\ Q[Len(Append(l, e))] = B
                 /\ RowsStand(g, t, Append(l, e), Q)
    BY <1>1, <1>2, Longer
  <1>4. TextInv(Append(l, e), s, t, g, Q)
    BY <1>3 DEF TextInv
  <1>5. QED
    BY <1>4

\* What is behind a record.
LEMMA BehindRecord ==
  ASSUME NEW s \in Seq(Items), s # <<>>, UiOk(s), Head(s).op = "record"
  PROVE  /\ Unrecorded(Tail(s)) /\ Coming(Tail(s)) = Coming(s) /\ Going(Tail(s)) = Going(s)
  <1> DEFINE u == Tail(s)
  <1>1. /\ Len(s) \in Nat /\ Len(s) > 0 /\ Head(s) = s[1] /\ Len(u) = Len(s) - 1
        /\ \A i \in 1..(Len(s) - 1) : u[i] = s[i + 1]
    BY TailOf
  <1> HIDE DEF u
  <1>2. Unrecorded(u)
    <2>1. SUFFICES ASSUME NEW i \in 1..Len(u), u[i].op = "record"
                   PROVE  FALSE
      BY DEF Unrecorded
    <2>2. i + 1 \in 1..Len(s) /\ u[i] = s[i + 1] /\ 1 \in 1..((i + 1) - 1)
      BY <1>1
    <2>3. UiItemOk(s, i + 1)
      BY <2>2 DEF UiOk
    <2>4. s[1].op \in {"insert", "reparent"}
      BY <2>1, <2>2, <2>3 DEF UiItemOk
    <2>5. QED
      BY <1>1, <2>4
  <1>3. \A i \in 1..Len(u) : i + 1 \in 1..Len(s) /\ u[i] = s[i + 1]
    BY <1>1
  <1>4. \A i \in 1..Len(s) : i = 1 \/ (i - 1 \in 1..Len(u) /\ s[i] = u[i - 1])
    <2>1. TAKE i \in 1..Len(s)
    <2>2. CASE i # 1
      <3>1. i - 1 \in 1..(Len(s) - 1) /\ (i - 1) + 1 = i
        BY <1>1, <2>2
      <3>2. u[i - 1] = s[(i - 1) + 1]
        BY <1>1, <3>1
      <3>3. QED
        BY <1>1, <3>1, <3>2
    <2>3. QED
      BY <2>2
  <1>5. Coming(u) = Coming(s)
    BY <1>1, <1>3, <1>4 DEF Coming
  <1>6. Going(u) = Going(s)
    BY <1>1, <1>3, <1>4 DEF Going
  <1>7. QED
    BY <1>2, <1>5, <1>6 DEF u

\* An entry of the user's put on.
LEMMA TextAppend ==
  ASSUME NEW l \in Seq(Entries), NEW s \in Seq(Items), s # <<>>, UiOk(s), Head(s).op = "record",
         NEW t, NEW g, NEW P, TextInv(l, s, t, g, P)
  PROVE  \E Q : TextInv(Append(l, Head(s).entry), Tail(s), t, g, Q)
  <1> DEFINE e == Head(s).entry
             B == Later(s, t)
  <1>1. Head(s) = s[1] /\ 1 \in 1..Len(s) /\ Head(s) \in Items
    BY TailOf
  <1>2. e \in Entries
    BY <1>1, ItemFields
  <1>3. Changes(e, P[Len(l)], B) /\ EntryStands(g, e, Node)
    BY <1>1 DEF TextInv, Joined, RecordStands
  <1>4. Chained(l, P) /\ RowsStand(g, t, l, P)
    BY DEF TextInv
  <1> HIDE DEF e
  <1>5. PICK Q : /\ Chained(Append(l, e), Q) /\ Q[Len(Append(l, e))] = B
                 /\ RowsStand(g, t, Append(l, e), Q)
    BY <1>2, <1>3, <1>4, Longer
  <1> DEFINE u == Tail(s)
  <1>6. Unrecorded(u) /\ Later(u, t) = B
    BY BehindRecord DEF Later
  <1>7. Joined(u, B, t) /\ RecordStands(g, u)
    BY <1>6 DEF Joined, Unrecorded, RecordStands
  <1>8. ComingStand(g, t, u)
    <2>1. \A i \in 1..Len(u) : i + 1 \in 1..Len(s) /\ u[i] = s[i + 1]
      <3>1. /\ Len(s) \in Nat /\ Len(u) = Len(s) - 1
            /\ \A i \in 1..(Len(s) - 1) : u[i] = s[i + 1]
        BY TailOf
      <3> HIDE DEF u
      <3>2. QED
        BY <3>1
    <2>2. ComingStand(g, t, s)
      BY DEF TextInv
    <2> HIDE DEF u
    <2>3. QED
      BY <2>1, <2>2 DEF ComingStand
  <1>9. TextInv(Append(l, e), u, t, g, Q)
    BY <1>5, <1>7, <1>8 DEF TextInv
  <1>10. QED
    BY <1>9 DEF e

\* Forgetting what the user wrote on a node lets every row stand that stood.
LEMMA StandsLess ==
  ASSUME NEW g, NEW h, \A n \in Node : h[n] = g[n] \/ h[n] = None
  PROVE  /\ \A u : u.at \in Node /\ Stands(g, u) => Stands(h, u)
         /\ \A e, S : S \subseteq Node /\ EntryStands(g, e, S) => EntryStands(h, e, S)
         /\ \A l, t, P : RowsStand(g, t, l, P) => RowsStand(h, t, l, P)
         /\ \A s : RecordStands(g, s) => RecordStands(h, s)
  <1>1. \A u : u.at \in Node /\ Stands(g, u) => Stands(h, u)
    BY DEF Stands
  <1>2. \A e, S : S \subseteq Node /\ EntryStands(g, e, S) => EntryStands(h, e, S)
    BY <1>1 DEF EntryStands
  <1>3. ASSUME NEW l, NEW t, NEW P, RowsStand(g, t, l, P)
        PROVE  RowsStand(h, t, l, P)
    <2>1. \A j : Gone(t, l, P, j) \subseteq Node
      BY DEF Gone
    <2>2. QED
      BY <1>2, <1>3, <2>1 DEF RowsStand
  <1>4. ASSUME NEW s, RecordStands(g, s)
        PROVE  RecordStands(h, s)
    BY <1>2, <1>4 DEF RecordStands
  <1>5. QED
    BY <1>1, <1>2, <1>3, <1>4

\* What a list is to insert and delete, by its head and the rest.
LEMMA HeadOrBehind ==
  ASSUME NEW s \in Seq(Items), s # <<>>
  PROVE  /\ Coming(s) = Coming(Tail(s)) \cup
              (IF Head(s).op = "insert" THEN {n \in Node : Head(s).at = n} ELSE {})
         /\ Going(s) = Going(Tail(s)) \cup
              (IF Head(s).op = "remove" THEN {n \in Node : Head(s).at = n} ELSE {})
         /\ Head(s) = s[1] /\ 1 \in 1..Len(s)
         /\ \A i \in 1..Len(Tail(s)) : i + 1 \in 1..Len(s) /\ Tail(s)[i] = s[i + 1] /\ i + 1 # 1
  <1> DEFINE u == Tail(s)
  <1>1. /\ Len(s) \in Nat /\ Len(s) > 0 /\ Head(s) = s[1] /\ Len(u) = Len(s) - 1
        /\ \A i \in 1..(Len(s) - 1) : u[i] = s[i + 1]
    BY TailOf
  <1> HIDE DEF u
  <1>2. \A i \in 1..Len(u) : i + 1 \in 1..Len(s) /\ u[i] = s[i + 1] /\ i + 1 # 1
    BY <1>1
  <1>3. \A i \in 1..Len(s) : i = 1 \/ (i - 1 \in 1..Len(u) /\ s[i] = u[i - 1])
    <2>1. TAKE i \in 1..Len(s)
    <2>2. CASE i # 1
      <3>1. i - 1 \in 1..(Len(s) - 1) /\ (i - 1) + 1 = i
        BY <1>1, <2>2
      <3>2. u[i - 1] = s[(i - 1) + 1]
        BY <1>1, <3>1
      <3>3. QED
        BY <1>1, <3>1, <3>2
    <2>3. QED
      BY <2>2
  <1>4. 1 \in 1..Len(s)
    BY <1>1
  <1>5. Coming(s) = Coming(u) \cup (IF s[1].op = "insert" THEN {n \in Node : s[1].at = n} ELSE {})
    BY <1>2, <1>3, <1>4 DEF Coming
  <1>6. Going(s) = Going(u) \cup (IF s[1].op = "remove" THEN {n \in Node : s[1].at = n} ELSE {})
    BY <1>2, <1>3, <1>4 DEF Going
  <1>7. QED
    BY <1>1, <1>2, <1>4, <1>5, <1>6 DEF u

\* A list that stood still does without its head, if the presence to be is the same.
LEMMA BehindHead ==
  ASSUME NEW s \in Seq(Items), s # <<>>, Head(s).op # "record",
         NEW t, NEW r, NEW now, Later(Tail(s), r) = Later(s, t), Joined(s, now, t)
  PROVE  Joined(Tail(s), now, r)
  <1> DEFINE u == Tail(s)
  <1>1. /\ Head(s) = s[1] /\ Len(s) \in Nat /\ Len(s) > 0 /\ Len(u) = Len(s) - 1
        /\ \A i \in 1..(Len(s) - 1) : u[i] = s[i + 1]
    BY TailOf
  <1>2. Later(u, r) = Later(s, t)
    OBVIOUS
  <1> HIDE DEF u
  <1>3. \A i \in 1..Len(u) : i + 1 \in 1..Len(s) /\ u[i] = s[i + 1]
    BY <1>1
  <1>4. \A i \in 1..Len(u) : u[i].op = "record" => Changes(u[i].entry, now, Later(u, r))
    BY <1>2, <1>3 DEF Joined
  <1>5. Unrecorded(u) => Unrecorded(s)
    <2>1. \A i \in 1..Len(s) : i = 1 \/ (i - 1 \in 1..Len(u) /\ s[i] = u[i - 1])
      <3>1. TAKE i \in 1..Len(s)
      <3>2. CASE i # 1
        <4>1. i - 1 \in 1..(Len(s) - 1) /\ (i - 1) + 1 = i
          BY <1>1, <3>2
        <4>2. u[i - 1] = s[(i - 1) + 1]
          BY <1>1, <4>1
        <4>3. QED
          BY <1>1, <4>1, <4>2
      <3>3. QED
        BY <3>2
    <2>2. QED
      BY <1>1, <2>1 DEF Unrecorded
  <1>6. Joined(u, now, r)
    BY <1>2, <1>4, <1>5 DEF Joined
  <1>7. QED
    BY <1>6 DEF u

\* Saving an insertion.
LEMMA TextInsert ==
  ASSUME NEW l \in Seq(Entries), NEW s \in Seq(Items), s # <<>>, UiOk(s),
         NEW t \in Tree, NEW g \in [Node -> Text \cup {None}], NEW P, TextInv(l, s, t, g, P),
         NEW c \in AnyCall, c = Head(s), c.op = "insert", Fits(t, c),
         NEW h, h = [g EXCEPT ![c.at] = IF t[c.at] = None /\ c.row = Fresh(c.row.parent)
                                        THEN None ELSE @]
  PROVE  TextInv(l, Tail(s), Apply(t, c), h, P)
  <1> DEFINE u == Tail(s)
             r == Apply(t, c)
  <1>1. c.at \in Node /\ c.row \in Row /\ There(r) = There(t) \cup {c.at} /\ r \in Tree
    BY CallFields, ThereAfter, ApplyRows
  <1>2. /\ Coming(s) = Coming(u) \cup {c.at} /\ Going(s) = Going(u)
        /\ c = s[1] /\ 1 \in 1..Len(s)
        /\ \A i \in 1..Len(u) : i + 1 \in 1..Len(s) /\ u[i] = s[i + 1] /\ i + 1 # 1
    <2>1. {n \in Node : Head(s).at = n} = {c.at}
      BY <1>1
    <2>2. QED
      BY <2>1, HeadOrBehind
  <1>3. Going(s) = {}
    BY <1>2 DEF UiOk, Apart, Going
  <1>4. Later(u, r) = Later(s, t)
    BY <1>1, <1>2, <1>3 DEF Later
  <1>5. Joined(u, P[Len(l)], r)
    BY <1>4, BehindHead DEF TextInv
  <1>6. /\ \A n \in Node : h[n] = g[n] \/ h[n] = None
        /\ \A n \in Node : n # c.at => h[n] = g[n]
        /\ t[c.at] = None /\ c.row = Fresh(c.row.parent) => h[c.at] = None
    BY <1>1
  <1>7. c.at \notin There(t) /\ (Stands(g, c) \/ c.row = Fresh(c.row.parent))
    BY <1>2 DEF TextInv, ComingStand
  <1>8. RowsStand(h, r, l, P)
    <2>1. RowsStand(h, t, l, P)
      BY <1>6, StandsLess DEF TextInv
    <2>2. \A j : Gone(r, l, P, j) \subseteq Gone(t, l, P, j)
      BY <1>1 DEF Gone
    <2>3. QED
      BY <2>1, <2>2 DEF RowsStand, EntryStands
  <1>9. s \in Seq(Items) /\ u \in Seq(Items)
    BY TailOf
  <1> HIDE DEF u, r
  <1>10. RecordStands(h, u)
    <2>1. RecordStands(h, s)
      BY <1>6, StandsLess DEF TextInv
    <2>2. QED
      BY <1>2, <2>1 DEF RecordStands
  <1>11. ComingStand(h, r, u)
    <2>1. SUFFICES ASSUME NEW i \in 1..Len(u), u[i].op = "insert"
                   PROVE  u[i].at \notin There(r) /\ (Stands(h, u[i]) \/ u[i].row = Fresh(u[i].row.parent))
      BY DEF ComingStand
    <2>2. i + 1 \in 1..Len(s) /\ u[i] = s[i + 1] /\ i + 1 # 1
      BY <1>2
    <2>3. s[i + 1].at \notin There(t) /\ (Stands(g, s[i + 1]) \/ s[i + 1].row = Fresh(s[i + 1].row.parent))
      BY <2>1, <2>2 DEF TextInv, ComingStand
    <2>4. s[i + 1].at # c.at
      BY <1>2, <2>1, <2>2 DEF UiOk, Apart
    <2>5. u[i].at \in Node
      <3>1. u[i] \in Items
        BY <1>9
      <3>2. u[i] \in AnyCall
        BY <2>1, <3>1, ItemFields DEF Ops
      <3>3. QED
        BY <2>1, <3>2, CallFields
    <2>6. h[u[i].at] = g[u[i].at]
      BY <1>6, <2>2, <2>4, <2>5
    <2>7. QED
      BY <1>1, <2>2, <2>3, <2>4, <2>6 DEF Stands
  <1>12. TextStands(h, r)
    <2>1. SUFFICES ASSUME NEW n \in There(r), h[n] # None
                   PROVE  r[n].mine /\ r[n].text = h[n]
      BY DEF TextStands
    <2>2. n \in Node /\ r[n] = IF n = c.at THEN c.row ELSE t[n]
      BY TextsAfter DEF r, There
    <2>3. CASE n = c.at
      <3>1. t[c.at] = None
        BY <1>1, <1>7 DEF There
      <3>2. Stands(g, c) /\ h[n] = g[n]
        BY <1>6, <1>7, <2>1, <2>2, <2>3, <3>1
      <3>3. QED
        BY <2>1, <2>2, <2>3, <3>2 DEF Stands
    <2>4. CASE n # c.at
      BY <1>1, <1>6, <2>1, <2>2, <2>4 DEF TextInv, TextStands
    <2>5. QED
      BY <2>3, <2>4
  <1>13. QED
    BY <1>5, <1>8, <1>10, <1>11, <1>12 DEF TextInv, u, r

\* The parts of the invariant about a list, without a head that is no insertion.
LEMMA BehindOther ==
  ASSUME NEW s \in Seq(Items), s # <<>>, NEW t, NEW r, There(r) \subseteq There(t), NEW g, NEW h,
         \A n \in Node : h[n] = g[n] \/ h[n] = None
  PROVE  /\ RecordStands(g, s) => RecordStands(h, Tail(s))
         /\ ComingStand(g, t, s) /\ (\A n \in Coming(Tail(s)) : h[n] = g[n]) => ComingStand(h, r, Tail(s))
  <1> DEFINE u == Tail(s)
  <1>1. \A i \in 1..Len(u) : i + 1 \in 1..Len(s) /\ u[i] = s[i + 1]
    BY HeadOrBehind
  <1>2. u \in Seq(Items)
    BY TailOf
  <1> HIDE DEF u
  <1>3. RecordStands(g, s) => RecordStands(h, u)
    <2>1. SUFFICES ASSUME RecordStands(g, s)
                   PROVE  RecordStands(h, u)
      OBVIOUS
    <2>2. RecordStands(h, s)
      BY <2>1, StandsLess
    <2>3. QED
      BY <1>1, <2>2 DEF RecordStands
  <1>4. ComingStand(g, t, s) /\ (\A n \in Coming(u) : h[n] = g[n]) => ComingStand(h, r, u)
    <2>1. SUFFICES ASSUME ComingStand(g, t, s), \A n \in Coming(u) : h[n] = g[n],
                          NEW i \in 1..Len(u), u[i].op = "insert"
                   PROVE  u[i].at \notin There(r) /\ (Stands(h, u[i]) \/ u[i].row = Fresh(u[i].row.parent))
      BY DEF ComingStand
    <2>2. i + 1 \in 1..Len(s) /\ u[i] = s[i + 1]
      BY <1>1
    <2>3. s[i + 1].at \notin There(t) /\ (Stands(g, s[i + 1]) \/ s[i + 1].row = Fresh(s[i + 1].row.parent))
      BY <2>1, <2>2 DEF ComingStand
    <2>4. u[i].at \in Node
      <3>1. u[i] \in Items
        BY <1>2
      <3>2. u[i] \in AnyCall
        BY <2>1, <3>1, ItemFields DEF Ops
      <3>3. QED
        BY <2>1, <3>2, CallFields
    <2>5. h[u[i].at] = g[u[i].at]
      BY <2>1, <2>4 DEF Coming
    <2>6. QED
      BY <2>2, <2>3, <2>5 DEF Stands
  <1>5. QED
    BY <1>3, <1>4 DEF u

\* Saving a move back.
LEMMA TextReparent ==
  ASSUME NEW l \in Seq(Entries), NEW s \in Seq(Items), s # <<>>,
         NEW t \in Tree, NEW g, NEW P, TextInv(l, s, t, g, P),
         NEW c \in AnyCall, c = Head(s), c.op = "reparent", Fits(t, c)
  PROVE  TextInv(l, Tail(s), Apply(t, c), g, P)
  <1> DEFINE u == Tail(s)
             r == Apply(t, c)
  <1>1. There(r) = There(t)
    BY ThereAfter
  <1>2. Coming(s) = Coming(u) /\ Going(s) = Going(u)
    BY HeadOrBehind
  <1>3. Later(u, r) = Later(s, t)
    BY <1>1, <1>2 DEF Later
  <1>4. Joined(u, P[Len(l)], r)
    BY <1>3, BehindHead DEF TextInv
  <1>5. RecordStands(g, u) /\ ComingStand(g, r, u)
    BY <1>1, BehindOther DEF TextInv
  <1> HIDE DEF u
  <1>6. RowsStand(g, r, l, P)
    <2> HIDE DEF r
    <2>1. \A j : Gone(r, l, P, j) = Gone(t, l, P, j)
      BY <1>1 DEF Gone
    <2>2. QED
      BY <2>1 DEF TextInv, RowsStand
  <1>7. TextStands(g, r)
    <2>1. SUFFICES ASSUME NEW n \in There(r), g[n] # None
                   PROVE  r[n].mine /\ r[n].text = g[n]
      BY DEF TextStands
    <2>2. n \in There(t) /\ r[n].mine = t[n].mine /\ r[n].text = t[n].text
      BY TextsAfter DEF Shaping
    <2>3. QED
      BY <2>1, <2>2 DEF TextInv, TextStands
  <1>8. TextInv(l, u, r, g, P)
    BY <1>4, <1>5, <1>6, <1>7 DEF TextInv
  <1>9. QED
    BY <1>8 DEF u

\* Saving a deletion.
LEMMA TextRemove ==
  ASSUME NEW l \in Seq(Entries), NEW s \in Seq(Items), s # <<>>, UiOk(s),
         NEW t \in Tree, NEW g \in [Node -> Text \cup {None}], NEW P, TextInv(l, s, t, g, P),
         NEW c \in AnyCall, c = Head(s), c.op = "remove", Fits(t, c),
         NEW h, h = [g EXCEPT ![c.at] = None]
  PROVE  TextInv(l, Tail(s), Apply(t, c), h, P)
  <1> DEFINE u == Tail(s)
             r == Apply(t, c)
  <1>1. c.at \in Node /\ There(r) = There(t) \ {c.at}
    BY CallFields, ThereAfter
  <1>2. Coming(s) = Coming(u) /\ Going(s) = Going(u) \cup {c.at} /\ c = s[1] /\ 1 \in 1..Len(s)
    <2>1. {n \in Node : Head(s).at = n} = {c.at}
      BY <1>1
    <2>2. QED
      BY <2>1, HeadOrBehind
  <1>3. Coming(s) = {}
    BY <1>2 DEF UiOk, Apart, Coming
  <1>4. Later(u, r) = Later(s, t)
    BY <1>1, <1>2, <1>3 DEF Later
  <1>5. Joined(u, P[Len(l)], r)
    BY <1>4, BehindHead DEF TextInv
  <1>6. /\ \A n \in Node : h[n] = g[n] \/ h[n] = None
        /\ \A n \in Node : n # c.at => h[n] = g[n]
        /\ h[c.at] = None
    BY <1>1
  <1>7. RecordStands(h, u) /\ ComingStand(h, r, u)
    <2>1. RecordStands(g, s) /\ ComingStand(g, t, s)
      BY DEF TextInv
    <2>2. There(r) \subseteq There(t) /\ \A n \in Coming(u) : h[n] = g[n]
      BY <1>1, <1>2, <1>3
    <2>3. QED
      BY <1>6, <2>1, <2>2, BehindOther
  <1> HIDE DEF u
  <1>8. RowsStand(h, r, l, P)
    <2> HIDE DEF r
    <2>1. RowsStand(h, t, l, P)
      BY <1>6, StandsLess DEF TextInv
    <2>2. \A j : Gone(r, l, P, j) \subseteq Gone(t, l, P, j) \cup {c.at}
      BY <1>1 DEF Gone
    <2>3. \A e, S, T : EntryStands(h, e, S) /\ T \subseteq S \cup {c.at} => EntryStands(h, e, T)
      BY <1>6 DEF EntryStands, Stands
    <2>4. QED
      BY <2>1, <2>2, <2>3 DEF RowsStand
  <1>9. TextStands(h, r)
    <2>1. SUFFICES ASSUME NEW n \in There(r), h[n] # None
                   PROVE  r[n].mine /\ r[n].text = h[n]
      BY DEF TextStands
    <2>2. n \in There(t) /\ n \in Node /\ r[n].mine = t[n].mine /\ r[n].text = t[n].text
      BY TextsAfter DEF Shaping, There
    <2>3. h[n] = g[n]
      BY <1>6, <2>1, <2>2
    <2>4. QED
      BY <2>1, <2>2, <2>3 DEF TextInv, TextStands
  <1>10. TextInv(l, u, r, h, P)
    BY <1>5, <1>7, <1>8, <1>9 DEF TextInv
  <1>11. QED
    BY <1>10 DEF u

\* The entry of a call tells who came and went with it, and what it would insert
\* has what the user wrote.
LEMMA EntryChanges ==
  ASSUME NEW t \in Tree, NEW c \in AnyCall, Fits(t, c), Logs(t, c)
  PROVE  /\ Changes(Entry(t, c), There(t), There(Apply(t, c)))
         /\ \A g : TextStands(g, t) => EntryStands(g, Entry(t, c), Node)
  <1> DEFINE e == Entry(t, c)
  <1>1. e.undo = Undo(t, c)
    BY DEF Entry
  <1>2. CASE c.op \in {"rename", "name", "move"}
    <2>1. Plain(e)
      BY <1>2, EntryOkOf
    <2>2. There(Apply(t, c)) = There(t)
      BY <1>2, ThereAfter
    <2> HIDE DEF e
    <2>3. Changes(e, There(t), There(t)) /\ \A g : EntryStands(g, e, Node)
      BY <2>1, PlainChanges
    <2>4. QED
      BY <2>2, <2>3 DEF e
  <1>3. CASE c.op \in Taking
    <2> DEFINE T == Taken(t, c)
               k == Cardinality(T)
               q == SetToSeq(T)
    <2>1. T \in SUBSET There(t)
      BY <1>3, TakenThere DEF Taking
    <2>2. /\ k \in Nat /\ Len(e.undo) = k + 1 /\ q \in [1..k -> T]
          /\ \A i \in 1..k : e.undo[i] = Insert(q[i], t[q[i]])
          /\ \A n \in T : \E i \in 1..k : q[i] = n
          /\ e.undo[k + 1] = Reparent(Where(t, DOMAIN Moved(t, c)))
      BY <1>1, <1>3, TakingItems DEF Taking
    <2>3. There(Apply(t, c)) = There(t) \ T
      BY <1>3, ThereAfter
    <2> DEFINE mo == Where(t, DOMAIN Moved(t, c))
    <2> HIDE DEF e, q, k, T, mo
    <2>4. e.undo[k + 1].op = "reparent"
      BY <2>2, CallOps DEF mo
    <2>5. \A i \in 1..k : e.undo[i].op = "insert" /\ e.undo[i].at = q[i] /\ e.undo[i].row = t[q[i]]
      BY <2>2, InsertFields
    <2>6. \A i \in 1..(k + 1) : i \in 1..k \/ i = k + 1
      BY <2>2
    <2>7. \A i \in 1..k : i \in 1..(k + 1)
      BY <2>2
    <2>8. There(t) \subseteq Node
      BY DEF There
    <2>9. TakenBy(e) = T
      <3>1. TakenBy(e) \subseteq T
        <4>1. SUFFICES ASSUME NEW m \in Node, NEW i \in 1..Len(e.undo),
                              e.undo[i].op = "insert", e.undo[i].at = m
                       PROVE  m \in T
          BY DEF TakenBy
        <4>2. i \in 1..k
          BY <2>2, <2>4, <2>6, <4>1
        <4>3. e.undo[i].at = q[i] /\ q[i] \in T
          BY <2>2, <2>5, <4>2
        <4>4. QED
          BY <4>1, <4>3
      <3>2. T \subseteq TakenBy(e)
        BY <2>1, <2>2, <2>5, <2>7, <2>8 DEF TakenBy
      <3>3. QED
        BY <3>1, <3>2
    <2>10. GivenBy(e) = {}
      BY <2>2, <2>4, <2>5, <2>6 DEF GivenBy
    <2>11. Changes(e, There(t), There(t) \ T)
      BY <2>1, <2>9, <2>10 DEF Changes
    <2>12. ASSUME NEW g, TextStands(g, t)
           PROVE  EntryStands(g, e, Node)
      <3>1. SUFFICES ASSUME NEW i \in 1..Len(e.undo), e.undo[i].op = "insert"
                     PROVE  Stands(g, e.undo[i])
        BY DEF EntryStands
      <3>2. i \in 1..k
        BY <2>2, <2>4, <2>6, <3>1
      <3>3. q[i] \in There(t) /\ e.undo[i].at = q[i] /\ e.undo[i].row = t[q[i]]
        BY <2>1, <2>2, <2>5, <3>2
      <3>4. QED
        BY <2>12, <3>3 DEF Stands, TextStands
    <2>13. QED
      BY <2>3, <2>11, <2>12 DEF e, T
  <1>4. QED
    BY <1>2, <1>3 DEF Logs, Taking

\* A record put before a calm list.
LEMMA RecordFirst ==
  ASSUME NEW s \in Seq(Items), Calm(s), NEW e \in Entries, NEW x, x = Record(e)
  PROVE  /\ (<<x>> \o s)[1].op = "record" /\ (<<x>> \o s)[1].entry = e /\ 1 \in 1..Len(<<x>> \o s)
         /\ \A i \in 1..Len(<<x>> \o s) : i # 1 => (<<x>> \o s)[i].op \notin {"insert", "remove", "record"}
         /\ Coming(<<x>> \o s) = {} /\ Going(<<x>> \o s) = {} /\ <<x>> \o s \in Seq(Items)
  <1> DEFINE q == <<x>> \o s
  <1>1. x.op = "record" /\ x.entry = e /\ x \in Items
    BY DEF Record, Items
  <1>2. Len(q) = Len(s) + 1 /\ q[1] = x /\ q \in Seq(Items) /\ \A i \in 1..Len(s) : q[i + 1] = s[i]
    BY <1>1, ConsOf
  <1> HIDE DEF q
  <1>3. Len(s) \in Nat
    OBVIOUS
  <1>4. ASSUME NEW i \in 1..Len(q), i # 1
        PROVE  q[i].op \notin {"insert", "remove", "record"}
    <2>1. i - 1 \in 1..Len(s) /\ (i - 1) + 1 = i
      BY <1>2, <1>3, <1>4
    <2>2. q[(i - 1) + 1] = s[i - 1]
      BY <1>2, <2>1
    <2>3. QED
      BY <2>1, <2>2 DEF Calm
  <1>5. q[1].op = "record" /\ q[1].entry = e /\ 1 \in 1..Len(q)
    BY <1>1, <1>2, <1>3
  <1>6. Coming(q) = {} /\ Going(q) = {}
    BY <1>4, <1>5 DEF Coming, Going
  <1>7. QED
    BY <1>2, <1>4, <1>5, <1>6 DEF q

\* Saving a call of the sidebar's.
LEMMA TextEdit ==
  ASSUME NEW l \in Seq(Entries), NEW s \in Seq(Items), s # <<>>, UiOk(s),
         NEW t \in Tree, NEW g \in [Node -> Text \cup {None}], NEW P, TextInv(l, s, t, g, P),
         NEW c \in AnyCall, c = Head(s), c.op \in Simple, Fits(t, c),
         NEW h, h = IF c.op = "rename" THEN [g EXCEPT ![c.at] = c.text] ELSE g
  PROVE  TextInv(l, <<Record(Entry(t, c))>> \o Tail(s), Apply(t, c), h, P)
  <1> DEFINE u == Tail(s)
             r == Apply(t, c)
             e == Entry(t, c)
             x == Record(e)
             q == <<x>> \o u
             n == Len(l)
  <1>1. Calm(s) /\ Calm(u) /\ u \in Seq(Items)
    BY CalmLists, TailOf
  <1>2. P[n] = There(t) /\ Chained(l, P) /\ RowsStand(g, t, l, P) /\ TextStands(g, t)
    BY <1>1, CalmIs DEF TextInv
  <1>3. Logs(t, c)
    BY DEF Logs, Simple
  <1>4. e \in Entries /\ Changes(e, There(t), There(r)) /\ EntryStands(g, e, Node)
    BY <1>2, <1>3, EntryChanges, UndoType
  <1>5. EntryStands(h, e, Node)
    <2>1. CASE c.op = "rename"
      <3>1. Plain(e)
        BY <1>3, <2>1, EntryOkOf
      <3> HIDE DEF e
      <3>2. QED
        BY <3>1, PlainChanges
    <2>2. CASE c.op # "rename"
      BY <1>4, <2>2
    <2>3. QED
      BY <2>1, <2>2
  <1>6. TextStands(h, r)
    <2>1. SUFFICES ASSUME NEW m \in There(r), h[m] # None
                   PROVE  r[m].mine /\ r[m].text = h[m]
      BY DEF TextStands
    <2>2. m \in Node
      BY DEF There
    <2>3. CASE c.op = "rename"
      <3>1. c.at \in Node /\ m \in There(t)
        BY <2>3, CallFields, TextsAfter
      <3>2. IF m = c.at THEN r[m].mine /\ r[m].text = c.text ELSE r[m] = t[m]
        BY <2>3, TextsAfter
      <3>3. h[m] = IF m = c.at THEN c.text ELSE g[m]
        BY <2>2, <2>3, <3>1
      <3>4. QED
        BY <1>2, <2>1, <3>1, <3>2, <3>3 DEF TextStands
    <2>4. CASE c.op # "rename"
      <3>1. c.op \in Shaping
        BY <2>4 DEF Simple, Shaping
      <3>2. m \in There(t) /\ r[m].mine = t[m].mine /\ r[m].text = t[m].text
        BY <3>1, TextsAfter
      <3>3. QED
        BY <1>2, <2>1, <2>4, <3>2 DEF TextStands
    <2>5. QED
      BY <2>3, <2>4
  <1>7. RowsStand(h, r, l, P)
    <2>1. \A m \in Node : m \notin There(t) => h[m] = g[m]
      <3>1. c.op = "rename" => c.at \in There(t)
        BY CallFields DEF Fits, There
      <3>2. QED
        BY <3>1
    <2>2. n \in Nat /\ \A j \in 1..n : n \in j..n
      OBVIOUS
    <2> HIDE DEF r, e, x, q
    <2>3. \A j \in 1..n : Gone(r, l, P, j) \subseteq Gone(t, l, P, j)
      BY <1>2, <2>2 DEF Gone
    <2>4. \A j : \A m \in Gone(t, l, P, j) : m \in Node /\ m \notin There(t)
      BY DEF Gone
    <2>5. ASSUME NEW j \in 1..n
          PROVE  EntryStands(h, l[j], Gone(r, l, P, j))
      <3>1. EntryStands(g, l[j], Gone(t, l, P, j))
        BY <1>2 DEF RowsStand
      <3>2. QED
        BY <2>1, <2>3, <2>4, <3>1 DEF EntryStands, Stands
    <2>6. QED
      BY <2>5 DEF RowsStand
  <1>14. x = Record(e)
    OBVIOUS
  <1> HIDE DEF e, u, r, x
  <1>8. /\ q[1].op = "record" /\ q[1].entry = e /\ 1 \in 1..Len(q)
        /\ \A i \in 1..Len(q) : i # 1 => q[i].op \notin {"insert", "remove", "record"}
        /\ Coming(q) = {} /\ Going(q) = {}
    <2>1. Calm(u) /\ u \in Seq(Items)
      BY <1>1
    <2>2. e \in Entries
      BY <1>4
    <2>3. QED
      BY <1>14, <2>1, <2>2, RecordFirst
  <1> HIDE DEF q
  <1>9. Later(q, r) = There(r)
    BY <1>8 DEF Later
  <1>10. Joined(q, P[n], r)
    BY <1>2, <1>4, <1>8, <1>9 DEF Joined, Unrecorded
  <1>11. RecordStands(h, q) /\ ComingStand(h, r, q)
    BY <1>5, <1>8 DEF RecordStands, ComingStand
  <1>12. TextInv(l, q, r, h, P)
    BY <1>2, <1>6, <1>7, <1>10, <1>11 DEF TextInv
  <1>13. QED
    BY <1>12 DEF q, x, e, u, r

\* The naming of a node.
LEMMA TextName ==
  ASSUME NEW l \in Seq(Entries), NEW s, NEW t \in Tree, NEW g, NEW P, TextInv(l, s, t, g, P),
         NEW c \in AnyCall, c.op = "name", Fits(t, c)
  PROVE  TextInv(l, s, Apply(t, c), g, P)
  <1> DEFINE r == Apply(t, c)
  <1>1. There(r) = There(t)
    BY ThereAfter
  <1>2. TextStands(g, r)
    <2>1. SUFFICES ASSUME NEW m \in There(r), g[m] # None
                   PROVE  r[m].mine /\ r[m].text = g[m]
      BY DEF TextStands
    <2>2. t[m].mine /\ t[m].text = g[m]
      BY <1>1, <2>1 DEF TextInv, TextStands
    <2>3. r[m] = t[m]
      BY <2>2, TextsAfter
    <2>4. QED
      BY <2>2, <2>3
  <1> HIDE DEF r
  <1>3. Later(s, r) = Later(s, t)
    BY <1>1 DEF Later
  <1>4. Joined(s, P[Len(l)], r) /\ ComingStand(g, r, s)
    BY <1>1, <1>3 DEF TextInv, Joined, ComingStand
  <1>5. RowsStand(g, r, l, P)
    <2>1. \A j : Gone(r, l, P, j) = Gone(t, l, P, j)
      BY <1>1 DEF Gone
    <2>2. QED
      BY <2>1 DEF TextInv, RowsStand
  <1>6. TextInv(l, s, r, g, P)
    BY <1>2, <1>4, <1>5 DEF TextInv
  <1>7. QED
    BY <1>6 DEF r

\* The beginning of a split with ids of its own.
LEMMA TextSplit ==
  ASSUME NEW l \in Seq(Entries), NEW t \in Tree, NEW g, NEW P, TextInv(l, <<>>, t, g, P),
         NEW n, NEW A, NEW B, Halves[n][1] \in Node, Halves[n][2] \in Node,
         t[Halves[n][1]] = None, t[Halves[n][2]] = None
  PROVE  TextInv(l, SplitPlan(n, A, B), t, g, P)
  <1> DEFINE h1 == Halves[n][1]
             h2 == Halves[n][2]
             w == Fresh(n)
             se == SplitEntry(n, A, B)
             mo == SplitMoves(n, A, B)
             m2 == ToOne(A \cup B, n)
             q == SplitPlan(n, A, B)
  <1>1. P[Len(l)] = There(t) /\ Chained(l, P) /\ RowsStand(g, t, l, P) /\ TextStands(g, t)
    BY CalmLists, CalmIs DEF TextInv
  <1>2. /\ q = <<Insert(h1, w), Insert(h2, w), Reparent(mo), Record(se), Finish(<<>>)>>
        /\ se.undo = <<Reparent(m2), Delete(h1), Delete(h2)>>
    BY SplitEntryOk DEF SplitPlan
  <1>3. w = Fresh(w.parent)
    BY DEF Fresh
  <1>4. h1 \in Node /\ h2 \in Node /\ h1 \notin There(t) /\ h2 \notin There(t)
    BY DEF There
  <1> HIDE DEF h1, h2, w, se, mo, m2, q
  <1> DEFINE f == Finish(<<>>)
  <1>5. f.op = "finish"
    BY DEF Finish
  <1>6. q = <<Insert(h1, w), Insert(h2, w), Reparent(mo), Record(se), f>>
    BY <1>2
  <1> HIDE DEF f
  <1>7. /\ Len(q) = 5 /\ q[1] = Insert(h1, w) /\ q[2] = Insert(h2, w) /\ q[3] = Reparent(mo)
        /\ q[4] = Record(se) /\ q[5] = f
    BY <1>6
  <1>8. /\ q[1].op = "insert" /\ q[1].at = h1 /\ q[1].row = w
        /\ q[2].op = "insert" /\ q[2].at = h2 /\ q[2].row = w
        /\ q[3].op = "reparent" /\ q[4].op = "record" /\ q[4].entry = se /\ q[5].op = "finish"
    BY <1>5, <1>7 DEF Insert, Reparent, Record
  <1>9. \A i \in 1..Len(q) : i = 1 \/ i = 2 \/ i = 3 \/ i = 4 \/ i = 5
    BY <1>7
  <1>10. 1 \in 1..Len(q) /\ 2 \in 1..Len(q) /\ 4 \in 1..Len(q)
    BY <1>7
  <1>11. Coming(q) = {h1, h2}
    <2>1. Coming(q) \subseteq {h1, h2}
      BY <1>8, <1>9 DEF Coming
    <2>2. h1 \in Coming(q) /\ h2 \in Coming(q)
      BY <1>4, <1>8, <1>10 DEF Coming
    <2>3. QED
      BY <2>1, <2>2
  <1>12. Going(q) = {}
    BY <1>8, <1>9 DEF Going
  <1>13. Later(q, t) = There(t) \cup {h1, h2}
    BY <1>11, <1>12 DEF Later
  <1> DEFINE z == se.undo
  <1>14. Len(z) = 3 /\ z[1] = Reparent(m2) /\ z[2] = Delete(h1) /\ z[3] = Delete(h2)
    BY <1>2
  <1> HIDE DEF z
  <1>15. /\ z[1].op = "reparent" /\ z[2].op = "remove" /\ z[2].at = h1
         /\ z[3].op = "remove" /\ z[3].at = h2
    BY <1>14 DEF Reparent, Delete
  <1>16. \A i \in 1..Len(z) : i = 1 \/ i = 2 \/ i = 3
    BY <1>14
  <1>17. 2 \in 1..Len(z) /\ 3 \in 1..Len(z)
    BY <1>14
  <1>18. TakenBy(se) = {} /\ EntryStands(g, se, Node)
    BY <1>15, <1>16 DEF TakenBy, EntryStands, z
  <1>19. GivenBy(se) = {h1, h2}
    <2>1. GivenBy(se) \subseteq {h1, h2}
      BY <1>15, <1>16 DEF GivenBy, z
    <2>2. h1 \in GivenBy(se) /\ h2 \in GivenBy(se)
      BY <1>4, <1>15, <1>17 DEF GivenBy, z
    <2>3. QED
      BY <2>1, <2>2
  <1>20. Changes(se, There(t), Later(q, t))
    BY <1>4, <1>13, <1>18, <1>19 DEF Changes
  <1>21. Joined(q, P[Len(l)], t)
    BY <1>1, <1>8, <1>9, <1>10, <1>20 DEF Joined, Unrecorded
  <1>22. ComingStand(g, t, q) /\ RecordStands(g, q)
    BY <1>3, <1>4, <1>8, <1>9, <1>18 DEF ComingStand, RecordStands
  <1>23. TextInv(l, q, t, g, P)
    BY <1>1, <1>21, <1>22 DEF TextInv
  <1>24. QED
    BY <1>23 DEF q

\* The beginning of an undo.
LEMMA TextUndo ==
  ASSUME NEW l \in Seq(Entries), l # <<>>, EntryOk(Last(l)), NEW r \in Seq(Entries),
         NEW t \in Tree, NEW g, NEW P, TextInv(l, <<>>, t, g, P)
  PROVE  TextInv(Front(l), Last(l).undo \o <<Finish(r)>>, t, g, P)
  <1> DEFINE e == Last(l)
             z == e.undo
             f == Finish(r)
             q == z \o <<f>>
             h == Front(l)
             A == P[Len(h)]
  <1>1. P[Len(l)] = There(t) /\ Chained(l, P) /\ RowsStand(g, t, l, P) /\ TextStands(g, t)
    BY CalmLists, CalmIs DEF TextInv
  <1>2. /\ Chained(h, P) /\ RowsStand(g, t, h, P) /\ Changes(e, A, There(t))
        /\ EntryStands(g, e, Node \ There(t))
    BY <1>1, Shorter
  <1>3. e \in Entries
    BY FrontOf
  <1>4. z \in Seq(Items) /\ f \in Items /\ f.op = "finish"
    <2>1. z \in Seq(AnyCall \cup {Pop})
      BY <1>3 DEF Entries
    <2>2. AnyCall \cup {Pop} \subseteq Items
      BY DEF Items
    <2> HIDE DEF z
    <2>3. z \in Seq(Items)
      BY <2>1, <2>2
    <2>4. f \in Items /\ f.op = "finish"
      BY DEF Items, Finish
    <2>5. QED
      BY <2>3, <2>4
  <1>5. \A i \in 1..Len(z) : z[i].op \in {"rename", "move", "pop", "insert", "reparent", "remove"}
    BY DEF EntryOk
  <1> HIDE DEF z, f, e, h, A
  <1>6. /\ q \in Seq(Items) /\ Len(q) = Len(z) + 1 /\ q[Len(z) + 1] = f
        /\ \A i \in 1..Len(z) : q[i] = z[i]
    <2>1. <<f>> \in Seq(Items) /\ Len(<<f>>) = 1 /\ <<f>>[1] = f
      BY <1>4
    <2>2. QED
      BY <1>4, <2>1
  <1> HIDE DEF q
  <1>7. Len(z) \in Nat
    BY <1>4
  <1>8. \A i \in 1..Len(q) : i \in 1..Len(z) \/ i = Len(z) + 1
    BY <1>6, <1>7
  <1>9. \A i \in 1..Len(z) : i \in 1..Len(q)
    BY <1>6, <1>7
  <1>10. Coming(q) = TakenBy(e)
    BY <1>4, <1>6, <1>8, <1>9 DEF Coming, TakenBy, z
  <1>11. Going(q) = GivenBy(e)
    BY <1>4, <1>6, <1>8, <1>9 DEF Going, GivenBy, z
  <1>12. \A i \in 1..Len(q) : q[i].op # "record"
    BY <1>4, <1>5, <1>6, <1>8
  <1>13. A = Later(q, t)
    BY <1>2, <1>10, <1>11 DEF Later, Changes
  <1>14. Joined(q, A, t) /\ RecordStands(g, q)
    BY <1>12, <1>13 DEF Joined, Unrecorded, RecordStands
  <1>15. ComingStand(g, t, q)
    <2>1. SUFFICES ASSUME NEW i \in 1..Len(q), q[i].op = "insert"
                   PROVE  q[i].at \notin There(t) /\ Stands(g, q[i])
      BY DEF ComingStand
    <2>2. i \in 1..Len(z) /\ q[i] = z[i]
      BY <1>4, <1>6, <1>8, <2>1
    <2>3. q[i].at \in Node
      <3>1. q[i] \in Items
        BY <1>6
      <3>2. q[i] \in AnyCall
        BY <2>1, <3>1, ItemFields DEF Ops
      <3>3. QED
        BY <2>1, <3>2, CallFields
    <2>4. q[i].at \in TakenBy(e)
      BY <2>1, <2>2, <2>3 DEF TakenBy, z
    <2>5. q[i].at \notin There(t)
      BY <1>2, <2>4 DEF Changes
    <2>6. Stands(g, z[i])
      BY <1>2, <2>1, <2>2, <2>3, <2>5 DEF EntryStands, z
    <2>7. QED
      BY <2>2, <2>5, <2>6
  <1>16. TextInv(h, q, t, g, P)
    BY <1>1, <1>2, <1>14, <1>15 DEF TextInv, A
  <1>17. QED
    BY <1>16 DEF h, q, z, e, f

-----------------------------------------------------------------------------
(* What the user wrote stays.                                              *)

Fine == amiss \subseteq {"crossed", "bucket", "replayed"}
TextMain == Fine /\ tree # NoTree => \E P : TextInv(log, act["ui"].todo, tree, given, P)

\* A save of the user's.
LEMMA TextSaveUi ==
  ASSUME TypeOK, InOrder, TextMain, Save("ui")
  PROVE  TextMain'
  <1> DEFINE t == Loaded("ui")
             c == Next1("ui")
             s == act["ui"].todo
             r == Apply(t, c)
  <1>1. SUFFICES ASSUME Fine'
                 PROVE  \E P : TextInv(log, act'["ui"].todo, tree', given', P)
    BY DEF TextMain, Save
  <1>2. tree = t /\ Fine /\ log' = log
    BY <1>1 DEF Save, Fine
  <1>3. /\ t \in Tree /\ c \in AnyCall /\ s # <<>> /\ Fits(t, c) /\ tree' = r
        /\ act'["ui"] = [todo |-> Recording(t, c) \o Tail(s), doc |-> None]
        /\ given' = GivenAfter(t, c)
    BY SaveDoes DEF Actors
  <1>4. act'["ui"].todo = Recording(t, c) \o Tail(s)
    BY <1>3
  <1>5. c.op \in Simple \cup {"insert", "reparent", "remove"}
    BY SavedOps DEF Save, Actors
  <1>6. s \in Seq(Items) /\ UiOk(s) /\ c = Head(s) /\ given \in [Node -> Text \cup {None}] /\ log \in Seq(Entries)
    BY TodoOf DEF TypeOK, Actors, InOrder, Next1
  <1>7. PICK P : TextInv(log, s, t, given, P)
    BY <1>2, <1>3 DEF TextMain, Fits
  <1>8. Tail(s) \in Seq(Items)
    BY <1>3, <1>6, TailOf
  <1>9. /\ c.op = "rename" => given' = [given EXCEPT ![c.at] = c.text]
        /\ c.op = "remove" => given' = [given EXCEPT ![c.at] = None]
        /\ c.op = "insert" => given' = [given EXCEPT ![c.at] = IF t[c.at] = None /\ c.row = Fresh(c.row.parent)
                                                              THEN None ELSE @]
        /\ c.op \notin {"rename", "remove", "insert"} => given' = given
    BY <1>3 DEF GivenAfter
  <1>10. c.op \in Simple => Recording(t, c) = <<Record(Entry(t, c))>>
    BY DEF Recording, Logs, Simple
  <1>11. c.op \notin Simple => Recording(t, c) = <<>>
    BY <1>5 DEF Recording, Logs, Simple
  <1> HIDE DEF t, c, s, r
  <1>12. c.op \notin Simple => act'["ui"].todo = Tail(s)
    BY <1>4, <1>8, <1>11
  <1> DEFINE h == given'
  <1>13. CASE c.op \in Simple
    <2>1. h = IF c.op = "rename" THEN [given EXCEPT ![c.at] = c.text] ELSE given
      BY <1>9, <1>13 DEF Simple
    <2> HIDE DEF h
    <2>2. TextInv(log, <<Record(Entry(t, c))>> \o Tail(s), Apply(t, c), h, P)
      BY <1>3, <1>6, <1>7, <1>13, <2>1, TextEdit
    <2>3. QED
      BY <1>3, <1>4, <1>10, <1>13, <2>2 DEF h, r
  <1>14. CASE c.op = "insert"
    <2>1. h = [given EXCEPT ![c.at] = IF t[c.at] = None /\ c.row = Fresh(c.row.parent) THEN None ELSE @]
      BY <1>9, <1>14
    <2> HIDE DEF h
    <2>2. TextInv(log, Tail(s), Apply(t, c), h, P)
      BY <1>3, <1>6, <1>7, <1>14, <2>1, TextInsert
    <2>3. QED
      BY <1>3, <1>12, <1>14, <2>2 DEF h, r, Simple
  <1>15. CASE c.op = "remove"
    <2>1. h = [given EXCEPT ![c.at] = None]
      BY <1>9, <1>15
    <2> HIDE DEF h
    <2>2. TextInv(log, Tail(s), Apply(t, c), h, P)
      BY <1>3, <1>6, <1>7, <1>15, <2>1, TextRemove
    <2>3. QED
      BY <1>3, <1>12, <1>15, <2>2 DEF h, r, Simple
  <1>16. CASE c.op = "reparent"
    <2>1. h = given
      BY <1>9, <1>16
    <2>2. TextInv(log, Tail(s), Apply(t, c), given, P)
      BY <1>3, <1>6, <1>7, <1>16, TextReparent
    <2>3. QED
      BY <1>3, <1>12, <1>16, <2>1, <2>2 DEF r, Simple
  <1>17. QED
    BY <1>5, <1>13, <1>14, <1>15, <1>16

\* A save of the task's.
LEMMA TextSaveLlm ==
  ASSUME TypeOK, InOrder, TextMain, Save("llm")
  PROVE  TextMain'
  <1> DEFINE t == Loaded("llm")
             c == Next1("llm")
             s == act["ui"].todo
             r == Apply(t, c)
  <1>1. SUFFICES ASSUME Fine'
                 PROVE  \E P : TextInv(log, act'["ui"].todo, tree', given', P)
    BY DEF TextMain, Save
  <1>2. tree = t /\ Fine /\ log' = log
    BY <1>1 DEF Save, Fine
  <1>3. /\ t \in Tree /\ c \in AnyCall /\ Fits(t, c) /\ tree' = r
        /\ act'["ui"] = act["ui"] /\ given' = GivenAfter(t, c)
    BY SaveDoes DEF Actors
  <1>4. c.op = "name"
    BY SavedOps DEF Save, Actors
  <1>5. given' = given
    BY <1>3, <1>4 DEF GivenAfter
  <1>6. log \in Seq(Entries)
    BY DEF TypeOK
  <1>7. PICK P : TextInv(log, s, t, given, P)
    BY <1>2, <1>3 DEF TextMain, Fits
  <1> HIDE DEF t, c, s
  <1>8. TextInv(log, s, r, given, P)
    BY <1>3, <1>4, <1>6, <1>7, TextName
  <1>9. QED
    BY <1>3, <1>5, <1>8 DEF s

\* A verb's beginning.
LEMMA TextBegin ==
  ASSUME TypeOK, InOrder, TextMain,
         (\E c \in AnyCall : Edit(c) /\ Offered(c)) \/ SplitCluster \/ UndoLast \/ RedoLast
  PROVE  TextMain'
  <1>1. CASE \E c \in AnyCall : Edit(c) /\ Offered(c)
    <2>1. PICK c \in AnyCall : Edit(c) /\ Offered(c)
      BY <1>1
    <2>2. /\ act["ui"] = Idle /\ act'["ui"] = [todo |-> <<c, Finish(redo)>>, doc |-> None]
          /\ amiss = {} /\ UNCHANGED <<tree, given, log>>
      BY <2>1, EditDoes
    <2>3. act["ui"].todo = <<>> /\ act'["ui"].todo = <<c, Finish(redo)>>
      BY <2>2 DEF Idle
    <2>4. Calm(<<>>) /\ Calm(<<c, Finish(redo)>>)
      BY <2>1, CalmLists DEF Offered
    <2>5. ASSUME NEW P, TextInv(log, <<>>, tree, given, P)
          PROVE  TextInv(log, <<c, Finish(redo)>>, tree, given, P)
      BY <2>4, <2>5, CalmKeeps
    <2>6. Fine
      BY <2>2 DEF Fine
    <2>7. QED
      BY <2>2, <2>3, <2>5, <2>6 DEF TextMain
  <1>2. CASE SplitCluster
    <2>1. PICK n, A, B :
            /\ SplitAsks(n, A, B)
            /\ act["ui"] = Idle /\ act'["ui"] = [todo |-> SplitPlan(n, A, B), doc |-> None]
            /\ amiss = {} /\ amiss' = Interrupts \cup SplitWrong(n, A, B)
            /\ UNCHANGED <<tree, given, log>>
      BY <1>2, SplitDoes
    <2>2. act["ui"].todo = <<>> /\ act'["ui"].todo = SplitPlan(n, A, B)
      BY <2>1 DEF Idle
    <2>3. SUFFICES ASSUME Fine', tree # NoTree
                   PROVE  \E P : TextInv(log, SplitPlan(n, A, B), tree, given, P)
      BY <2>1, <2>2 DEF TextMain
    <2>4. SplitWrong(n, A, B) = {}
      BY <2>1, <2>3 DEF Fine, SplitWrong
    <2>5. tree[Halves[n][1]] = None /\ tree[Halves[n][2]] = None
      BY <2>4 DEF SplitWrong
    <2>6. Halves[n][1] \in Node /\ Halves[n][2] \in Node
      BY <2>1, SplitTypes
    <2>7. tree \in Tree /\ log \in Seq(Entries)
      BY DEF TypeOK
    <2>8. Fine
      BY <2>1 DEF Fine
    <2>9. PICK P : TextInv(log, <<>>, tree, given, P)
      BY <2>2, <2>3, <2>8 DEF TextMain
    <2>10. TextInv(log, SplitPlan(n, A, B), tree, given, P)
      BY <2>5, <2>6, <2>7, <2>9, TextSplit
    <2>11. QED
      BY <2>10
  <1>3. CASE UndoLast
    <2> DEFINE r == Append(redo, Last(log))
    <2>1. /\ log # <<>> /\ log' = Front(log) /\ Last(log) \in Entries
          /\ act["ui"] = Idle
          /\ act'["ui"] = [todo |-> Last(log).undo \o <<Finish(r)>>, doc |-> None]
          /\ amiss' = amiss \cup Interrupts
          /\ UNCHANGED <<tree, given>>
      BY <1>3, UndoDoes
    <2>2. act["ui"].todo = <<>> /\ act'["ui"].todo = Last(log).undo \o <<Finish(r)>>
      BY <2>1 DEF Idle
    <2>3. SUFFICES ASSUME Fine', tree # NoTree
                   PROVE  \E P : TextInv(Front(log), Last(log).undo \o <<Finish(r)>>, tree, given, P)
      BY <2>1, <2>2 DEF TextMain
    <2>4. tree \in Tree /\ log \in Seq(Entries) /\ r \in Seq(Entries)
      BY <2>1 DEF TypeOK
    <2>5. EntryOk(Last(log))
      BY <2>1, <2>4, OkRows DEF InOrder
    <2>6. Fine
      BY <2>1, <2>3 DEF Fine
    <2>7. PICK P : TextInv(log, <<>>, tree, given, P)
      BY <2>2, <2>3, <2>6 DEF TextMain
    <2> HIDE DEF r
    <2>8. TextInv(Front(log), Last(log).undo \o <<Finish(r)>>, tree, given, P)
      BY <2>1, <2>4, <2>5, <2>7, TextUndo
    <2>9. QED
      BY <2>8
  <1>4. CASE RedoLast
    <2> DEFINE e == Last(redo)
               z == <<e.call, Finish(Front(redo))>>
    <2>1. /\ redo # <<>> /\ e \in Entries /\ act["ui"] = Idle
          /\ \/ act'["ui"] = Idle
             \/ e.call.op \notin {"split", "name"} /\ act'["ui"] = [todo |-> z, doc |-> None]
          /\ amiss \subseteq amiss'
          /\ UNCHANGED <<tree, given, log>>
      BY <1>4, RedoDoes
    <2>2. /\ act["ui"].todo = <<>>
          /\ \/ act'["ui"].todo = <<>>
             \/ e.call.op \notin {"split", "name"} /\ act'["ui"].todo = z
      BY <2>1 DEF Idle
    <2>3. EntryOk(e)
      BY <2>1, OkRows DEF InOrder, TypeOK
    <2>4. e.call.op \notin {"split", "name"} => Calm(z)
      <3>1. e.call.op \notin {"split", "name"} => e.call.op \in Simple
        BY <2>3 DEF EntryOk
      <3>2. QED
        BY <3>1, CalmLists
    <2> HIDE DEF e, z
    <2>5. Calm(act["ui"].todo) /\ Calm(act'["ui"].todo)
      BY <2>2, <2>4, CalmLists
    <2>6. ASSUME NEW P, TextInv(log, act["ui"].todo, tree, given, P)
          PROVE  TextInv(log, act'["ui"].todo, tree, given, P)
      BY <2>5, <2>6, CalmKeeps
    <2>7. Fine' => Fine
      BY <2>1 DEF Fine
    <2>8. QED
      BY <2>1, <2>6, <2>7 DEF TextMain
  <1>5. QED
    BY <1>1, <1>2, <1>3, <1>4

\* Another list that is calm, as the one before was.
LEMMA TextCalm ==
  ASSUME TextMain, amiss \subseteq amiss', UNCHANGED <<tree, given, log>>,
         Calm(act["ui"].todo), Calm(act'["ui"].todo)
  PROVE  TextMain'
  <1> DEFINE s == act["ui"].todo
             r == act'["ui"].todo
  <1>1. Calm(s) /\ Calm(r)
    OBVIOUS
  <1> HIDE DEF s, r
  <1>2. ASSUME NEW P, TextInv(log, s, tree, given, P)
        PROVE  TextInv(log, r, tree, given, P)
    BY <1>1, <1>2, CalmKeeps
  <1>3. Fine' => Fine
    BY DEF Fine
  <1>4. QED
    BY <1>2, <1>3 DEF TextMain, s, r

\* Putting an entry on the history, and taking one off.
LEMMA TextHistory ==
  ASSUME TypeOK, InOrder, TextMain, (\E a \in Actors : AppendHistory(a)) \/ PopHistory
  PROVE  TextMain'
  <1> DEFINE s == act["ui"].todo
  <1>1. log \in Seq(Entries) /\ s \in Seq(Items) /\ UiOk(s)
    BY TodoOf DEF TypeOK, Actors, InOrder
  <1>2. CASE AppendHistory("ui")
    <2>1. /\ s # <<>> /\ Head(s).op = "record" /\ log' = Append(log, Head(s).entry)
          /\ act'["ui"] = [todo |-> Tail(s), doc |-> act["ui"].doc]
      BY <1>2, AppendDoes DEF Actors, Next1
    <2>2. act'["ui"].todo = Tail(s)
      BY <2>1
    <2>3. UNCHANGED <<tree, given>> /\ amiss \subseteq amiss'
      BY <1>2 DEF AppendHistory
    <2>4. Fine' => Fine
      BY <2>3 DEF Fine
    <2> HIDE DEF s
    <2>5. ASSUME NEW P, TextInv(log, s, tree, given, P)
          PROVE  \E Q : TextInv(Append(log, Head(s).entry), Tail(s), tree, given, Q)
      BY <1>1, <2>1, <2>5, TextAppend
    <2>6. QED
      BY <2>1, <2>2, <2>3, <2>4, <2>5 DEF TextMain, s
  <1>3. CASE AppendHistory("llm")
    <2> DEFINE e == Next1("llm").entry
    <2>1. e \in Entries /\ log' = Append(log, e) /\ act'["ui"] = act["ui"] /\ Plain(e)
      BY <1>3, AppendDoes, AppendInOrder DEF Actors
    <2>2. UNCHANGED <<tree, given>> /\ amiss \subseteq amiss'
      BY <1>3 DEF AppendHistory
    <2>3. Fine' => Fine
      BY <2>2 DEF Fine
    <2> HIDE DEF s, e
    <2>4. ASSUME NEW P, TextInv(log, s, tree, given, P)
          PROVE  \E Q : TextInv(Append(log, e), s, tree, given, Q)
      BY <1>1, <2>1, <2>4, TextPlainAppend
    <2>5. QED
      BY <2>1, <2>2, <2>3, <2>4 DEF TextMain, s
  <1>4. CASE PopHistory
    <2>1. /\ s # <<>> /\ Head(s).op = "pop"
          /\ log' = IF log = <<>> THEN log ELSE Front(log)
          /\ act'["ui"] = [todo |-> Tail(s), doc |-> act["ui"].doc]
      BY <1>4, PopDoes DEF Next1
    <2>2. act'["ui"].todo = Tail(s)
      BY <2>1
    <2>3. UNCHANGED <<tree, given, amiss>>
      BY <1>4 DEF PopHistory
    <2>4. log = <<>> \/ Plain(Last(log))
      BY <1>4 DEF InOrder, PopHistory
    <2> HIDE DEF s
    <2>5. Calm(s) /\ Calm(Tail(s))
      BY <1>1, <2>1, CalmLists
    <2>6. CASE log = <<>>
      BY <2>1, <2>2, <2>3, <2>5, <2>6, TextCalm DEF s
    <2>7. CASE log # <<>>
      <3>1. ASSUME NEW P, TextInv(log, s, tree, given, P)
            PROVE  TextInv(Front(log), Tail(s), tree, given, P)
        BY <1>1, <2>4, <2>5, <2>7, <3>1, TextPop
      <3>2. Fine' => Fine
        BY <2>3 DEF Fine
      <3>3. QED
        BY <2>1, <2>2, <2>3, <2>7, <3>1, <3>2 DEF TextMain, s
    <2>8. QED
      BY <2>6, <2>7
  <1>5. QED
    BY <1>2, <1>3, <1>4 DEF Actors

\* An error, and the end of a verb.
LEMMA TextEnds ==
  ASSUME TypeOK, InOrder, TextMain, Fail("ui") \/ FinishVerb
  PROVE  TextMain'
  <1> DEFINE s == act["ui"].todo
  <1>1. s \in Seq(Items) /\ UiOk(s)
    BY TodoOf DEF Actors, InOrder
  <1>2. CASE Fail("ui")
    <2>1. act'["ui"] = [todo |-> IF "ui" = "ui" THEN <<>> ELSE Tail(act["ui"].todo), doc |-> None]
      BY <1>2, FailDoes DEF Actors
    <2>2. act'["ui"].todo = <<>>
      BY <2>1
    <2>3. UNCHANGED <<tree, given, log, amiss>>
      BY <1>2 DEF Fail
    <2>4. CASE tree = NoTree
      BY <2>3, <2>4 DEF TextMain
    <2>5. CASE tree # NoTree
      <3>1. s # <<>> /\ Head(s).op \in Simple \cup {"insert", "reparent", "remove"}
        BY <1>2, SavedOps DEF Fail, Actors, Calls, Next1
      <3>2. Head(s).op \in Simple
        BY <1>2, <2>5, <3>1 DEF Fail, Fits, Next1, Simple
      <3> HIDE DEF s
      <3>3. Calm(s) /\ Calm(<<>>)
        BY <1>1, <3>1, <3>2, CalmLists
      <3>4. QED
        BY <2>2, <2>3, <3>3, TextCalm DEF s
    <2>6. QED
      BY <2>4, <2>5
  <1>3. CASE FinishVerb
    <2>1. s # <<>> /\ Head(s).op = "finish" /\ act'["ui"] = Idle
      BY <1>3, FinishDoes DEF Next1
    <2>2. act'["ui"].todo = <<>>
      BY <2>1 DEF Idle
    <2>3. UNCHANGED <<tree, given, log, amiss>>
      BY <1>3 DEF FinishVerb
    <2> HIDE DEF s
    <2>4. Calm(s) /\ Calm(<<>>)
      BY <1>1, <2>1, CalmLists
    <2>5. QED
      BY <2>2, <2>3, <2>4, TextCalm DEF s
  <1>4. QED
    BY <1>2, <1>3

\* Every step.
LEMMA TextStep ==
  ASSUME TypeOK, InOrder, TextMain, [Next]_vars
  PROVE  TextMain'
  <1>1. ASSUME act'["ui"].todo = act["ui"].todo, UNCHANGED <<tree, given, log>>, amiss \subseteq amiss'
        PROVE  TextMain'
    <2>1. Fine' => Fine
      BY <1>1 DEF Fine
    <2>2. QED
      BY <1>1, <2>1 DEF TextMain
  <1>2. CASE DiscardTree
    BY <1>2, DiscardDoes DEF TextMain
  <1>3. CASE NameClusters
    BY <1>1, <1>3, NamingDoes
  <1>4. CASE FinishJob
    <2>1. act'["ui"] = act["ui"] /\ UNCHANGED <<tree, given, log, amiss>>
      BY <1>4, JobDoes DEF FinishJob
    <2>2. QED
      BY <1>1, <2>1
  <1>5. ASSUME NEW a \in Actors, Load(a)
        PROVE  TextMain'
    <2>1. UNCHANGED <<tree, given, log, amiss>>
      BY <1>5 DEF Load
    <2>2. act'["ui"].todo = act["ui"].todo
      BY <1>5, LoadDoes DEF Actors
    <2>3. QED
      BY <1>1, <2>1, <2>2
  <1>6. CASE Fail("llm")
    <2>1. UNCHANGED <<tree, given, log, amiss>> /\ act'["ui"] = act["ui"]
      BY <1>6, FailDoes DEF Fail, Actors
    <2>2. QED
      BY <1>1, <2>1
  <1>7. CASE UNCHANGED vars
    BY <1>1, <1>7 DEF vars
  <1>8. ASSUME NEW a \in Actors, StepOf(a)
        PROVE  TextMain'
    BY <1>5, <1>6, <1>8, TextSaveUi, TextSaveLlm, TextHistory, TextEnds DEF StepOf, Actors
  <1>9. QED
    BY <1>2, <1>3, <1>4, <1>7, <1>8, NextCases, TextBegin, TextHistory, TextEnds

\* A session starts so.
LEMMA TextInit ==
  ASSUME Init
  PROVE  TextMain
  <1>1. TypeOK
    BY TypesInit
  <1>2. log = <<>> /\ act["ui"].todo = <<>> /\ given = [n \in Node |-> None]
    BY DEF Init, Idle
  <1> DEFINE P == [k \in {0} |-> There(tree)]
             l == log
             s == act["ui"].todo
  <1>3. Len(l) = 0 /\ P[0] = There(tree) /\ Calm(s)
    BY <1>2, CalmLists
  <1> HIDE DEF P, l, s
  <1>4. Chained(l, P) /\ RowsStand(given, tree, l, P)
    BY <1>3 DEF Chained, RowsStand
  <1>5. Joined(s, P[Len(l)], tree) /\ ComingStand(given, tree, s) /\ RecordStands(given, s)
    BY <1>3, CalmIs
  <1>6. TextStands(given, tree)
    BY <1>2 DEF TextStands, There
  <1>7. TextInv(l, s, tree, given, P)
    BY <1>4, <1>5, <1>6 DEF TextInv
  <1>8. QED
    BY <1>7 DEF TextMain, l, s

\* What the user wrote on a node stays, whatever the model answers and whatever
\* is merged, dropped, split, undone and redone around it, until a save
\* overwrites another or a split takes the ids of an earlier one.
THEOREM UserTextKept == Spec => []UserTextStands
  <1>1. Init => TypeOK /\ InOrder /\ TextMain
    BY TypesInit, InOrderInit, TextInit
  <1>2. TypeOK /\ InOrder /\ TextMain /\ [Next]_vars => (TypeOK /\ InOrder /\ TextMain)'
    BY TypesStep, InOrderStep, TextStep
  <1>3. TypeOK /\ TextMain => UserTextStands
    <2>1. SUFFICES ASSUME TextMain, Fine, NEW n \in There(tree), given[n] # None
                   PROVE  tree[n].text = given[n]
      BY DEF UserTextStands, Fine
    <2>2. tree # NoTree
      <3>1. n \in Node /\ tree[n] # None
        BY <2>1 DEF There
      <3>2. QED
        BY <3>1 DEF NoTree
    <2>3. QED
      BY <2>1, <2>2 DEF TextMain, TextInv, TextStands
  <1>4. QED
    BY <1>1, <1>2, <1>3, PTL DEF Spec

-----------------------------------------------------------------------------
(* The history in step with the tree: pictures, and where a list of calls   *)
(* leads from one.                                                          *)

\* What the calls of an undo do to a picture; the bookkeeping leaves it.
Backs == {"rename", "move", "insert", "reparent", "remove"}
Ready(pic, c) == c.op \in {"rename", "move"} => pic[c.at] # None
PStep(pic, c) ==
  [n \in Node |->
    IF c.op = "rename" /\ n = c.at THEN <<pic[n][1], pic[n][2], c.text>>
    ELSE IF c.op = "move" /\ n = c.at THEN <<pic[n][1], c.to, pic[n][3]>>
    ELSE IF c.op = "insert" /\ n = c.at THEN <<c.row.kind, c.row.parent, c.row.text>>
    ELSE IF c.op = "reparent" /\ n \in DOMAIN c.moves /\ pic[n] # None THEN <<pic[n][1], c.moves[n], pic[n][3]>>
    ELSE IF c.op = "remove" /\ n = c.at THEN None ELSE pic[n]]

\* The pictures a list of things to do goes through.
Path(p, plan) ==
  /\ p \in [1..(Len(plan) + 1) -> Pictures]
  /\ \A i \in 1..Len(plan) : Ready(p[i], plan[i]) /\ p[i + 1] = PStep(p[i], plan[i])
Leads(pic, plan, goal) == \E p : Path(p, plan) /\ p[1] = pic /\ p[Len(plan) + 1] = goal

\* A row of a picture.
LEMMA PicRows ==
  ASSUME NEW pic \in Pictures, NEW n \in Node, pic[n] # None
  PROVE  /\ pic[n] = <<pic[n][1], pic[n][2], pic[n][3]>>
         /\ pic[n][1] \in Kind /\ pic[n][2] \in Node \cup {None} /\ pic[n][3] \in Text
  BY DEF Pictures, PicRow

\* A row's picture is none.
LEMMA RowNotNone ==
  ASSUME NEW k \in Kind, NEW p \in Node \cup {None}, NEW x \in Text
  PROVE  <<k, p, x>> # None /\ <<k, p, x>> \in PicRow /\ <<k, p>> # None
  <1>1. <<k, p, x>> \in PicRow
    BY DEF PicRow
  <1>2. <<k, p>> \in Kind \X (Node \cup {None})
    OBVIOUS
  <1>3. None \notin Kind \X (Node \cup {None}) /\ None \notin PicRow
    BY TreeConstants DEF PicRow
  <1>4. QED
    BY <1>1, <1>2, <1>3

\* The picture of a tree after a call of an undo.
LEMMA PStepIs ==
  ASSUME NEW t \in Tree, NEW c \in AnyCall, Fits(t, c), c.op \in Backs
  PROVE  /\ Picture(Apply(t, c)) = PStep(Picture(t), c)
         /\ Ready(Picture(t), c) /\ Picture(Apply(t, c)) \in Pictures
  <1> DEFINE r == Apply(t, c)
             a == Picture(t)
             b == Picture(r)
  <1>1. r \in Tree
    BY ApplyRows
  <1>2. a \in Pictures /\ b \in Pictures
    BY <1>1, PictureRows
  <1>3. \A n \in Node : /\ (a[n] = None) <=> (t[n] = None)
                        /\ t[n] # None => a[n] = <<t[n].kind, t[n].parent, t[n].text>>
    BY PictureRows DEF There
  <1>4. \A n \in Node : /\ (b[n] = None) <=> (r[n] = None)
                        /\ r[n] # None => b[n] = <<r[n].kind, r[n].parent, r[n].text>>
    BY <1>1, PictureRows DEF There
  <1>5. Ready(a, c)
    BY <1>3, CallFields DEF Ready, Fits
  <1>6. ASSUME NEW n \in Node
        PROVE  b[n] = PStep(a, c)[n]
    <2>1. CASE c.op = "rename"
      <3>1. c.at \in Node /\ t[c.at] # None
        BY <2>1, CallFields DEF Fits
      <3>2. r[n] = IF n # c.at THEN t[n] ELSE
              [kind |-> t[n].kind, parent |-> t[n].parent, text |-> c.text, mine |-> TRUE]
        BY <2>1, ApplyRows
      <3>3. CASE n # c.at
        BY <1>3, <1>4, <2>1, <3>2, <3>3 DEF PStep
      <3>4. CASE n = c.at
        <4>1. r[n].kind = t[n].kind /\ r[n].parent = t[n].parent /\ r[n].text = c.text
          BY <3>2, <3>4
        <4>2. n \in There(r)
          <5>1. n \in There(t)
            BY <3>1, <3>4 DEF There
          <5>2. QED
            BY <2>1, <5>1, ThereAfter
        <4>3. b[n] = <<t[n].kind, t[n].parent, c.text>>
          BY <1>4, <4>1, <4>2 DEF There
        <4>4. a[n] = <<t[n].kind, t[n].parent, t[n].text>>
          BY <1>3, <3>1, <3>4
        <4> HIDE DEF a, b
        <4>5. PStep(a, c)[n] = <<a[n][1], a[n][2], c.text>>
          BY <2>1, <3>4 DEF PStep
        <4>6. QED
          BY <4>3, <4>4, <4>5
      <3>5. QED
        BY <3>3, <3>4
    <2>2. CASE c.op = "insert"
      <3>1. r[n] = IF n = c.at THEN c.row ELSE t[n]
        BY <2>2, ApplyRows
      <3>2. c.row # None
        BY <2>2, CallFields, TreeConstants
      <3>3. QED
        BY <1>3, <1>4, <2>2, <3>1, <3>2 DEF PStep
    <2>3. CASE c.op \in {"move", "reparent", "remove"}
      <3>1. r[n] = IF t[n] = None \/ n \in Taken(t, c) THEN None ELSE
                 [kind |-> t[n].kind,
                  parent |-> IF n \in DOMAIN Moved(t, c) THEN Moved(t, c)[n] ELSE t[n].parent,
                  text |-> t[n].text, mine |-> t[n].mine]
        BY <2>3, ApplyRows DEF Shaping
      <3>2. CASE t[n] = None
        <4>1. b[n] = None /\ a[n] = None
          BY <1>3, <1>4, <3>1, <3>2
        <4>2. c.op = "move" => t[c.at] # None
          BY DEF Fits
        <4> HIDE DEF a, b
        <4>3. QED
          BY <2>3, <3>2, <4>1, <4>2 DEF PStep
      <3>3. CASE t[n] # None /\ c.op = "remove"
        <4>1. Taken(t, c) = {c.at} /\ DOMAIN Moved(t, c) = {}
          BY <3>3 DEF Taken, Moved, ToOne
        <4>2. n = c.at => r[n] = None
          BY <3>1, <4>1
        <4>3. n # c.at => r[n].kind = t[n].kind /\ r[n].parent = t[n].parent /\ r[n].text = t[n].text /\ n \in There(r)
          <5>1. n # c.at => n \in There(r)
            BY <3>3, ThereAfter DEF There
          <5>2. QED
            BY <3>1, <3>3, <4>1, <5>1
        <4>4. a[n] = <<t[n].kind, t[n].parent, t[n].text>>
          BY <1>3, <3>3
        <4>5. b[n] = IF n = c.at THEN None ELSE <<t[n].kind, t[n].parent, t[n].text>>
          BY <1>4, <4>2, <4>3 DEF There
        <4> HIDE DEF a, b
        <4>6. QED
          BY <3>3, <4>4, <4>5 DEF PStep
      <3>4. CASE t[n] # None /\ c.op \in {"move", "reparent"}
        <4>1. Taken(t, c) = {} /\ n \in There(r)
          <5>1. n \in There(t)
            BY <3>4 DEF There
          <5>2. n \in There(r)
            BY <3>4, <5>1, ThereAfter
          <5>3. QED
            BY <3>4, <5>2 DEF Taken
        <4> DEFINE q == IF n \in DOMAIN Moved(t, c) THEN Moved(t, c)[n] ELSE t[n].parent
        <4>2. r[n].kind = t[n].kind /\ r[n].parent = q /\ r[n].text = t[n].text
          BY <3>1, <3>4, <4>1
        <4>3. b[n] = <<t[n].kind, q, t[n].text>>
          BY <1>4, <4>1, <4>2 DEF There
        <4>4. a[n] = <<t[n].kind, t[n].parent, t[n].text>> /\ a[n] # None
          BY <1>3, <3>4
        <4>5. /\ c.op = "move" => q = IF n = c.at THEN c.to ELSE t[n].parent
              /\ c.op = "reparent" => q = IF n \in DOMAIN c.moves THEN c.moves[n] ELSE t[n].parent
          BY DEF Moved, ToOne
        <4> HIDE DEF a, b, q
        <4>6. QED
          BY <3>4, <4>3, <4>4, <4>5 DEF PStep
      <3>5. QED
        BY <2>3, <3>2, <3>3, <3>4
    <2>4. QED
      BY <2>1, <2>2, <2>3 DEF Backs
  <1>7. b = PStep(a, c)
    <2>1. b = [n \in Node |-> b[n]]
      BY <1>2 DEF Pictures
    <2> HIDE DEF a, b
    <2>2. QED
      BY <1>6, <2>1 DEF PStep
  <1>8. QED
    BY <1>2, <1>5, <1>7

\* The bookkeeping leaves a picture as it is.
LEMMA PStepOff ==
  ASSUME NEW pic \in Pictures, NEW x, x.op \notin Backs
  PROVE  PStep(pic, x) = pic /\ Ready(pic, x)
  BY DEF PStep, Backs, Pictures, Ready

\* Where an empty list leads.
LEMMA LeadsNowhere ==
  ASSUME NEW pic \in Pictures, NEW goal
  PROVE  Leads(pic, <<>>, goal) <=> pic = goal
  <1>1. Len(<<>>) = 0
    OBVIOUS
  <1>2. ASSUME pic = goal
        PROVE  Leads(pic, <<>>, goal)
    <2> DEFINE p == [i \in 1..1 |-> pic]
    <2>1. p \in [1..(0 + 1) -> Pictures] /\ p[1] = pic /\ p[0 + 1] = goal
      BY <1>2
    <2> HIDE DEF p
    <2>2. Path(p, <<>>)
      BY <1>1, <2>1 DEF Path
    <2>3. QED
      BY <1>1, <2>1, <2>2 DEF Leads
  <1>3. Leads(pic, <<>>, goal) => pic = goal
    BY <1>1 DEF Leads
  <1>4. QED
    BY <1>2, <1>3

\* A list leads on from what its head makes.
LEMMA LeadsOn ==
  ASSUME NEW s \in Seq(Items), s # <<>>, NEW pic, NEW goal, Leads(pic, s, goal)
  PROVE  Ready(pic, Head(s)) /\ Leads(PStep(pic, Head(s)), Tail(s), goal) /\ pic \in Pictures /\ goal \in Pictures
  <1> DEFINE u == Tail(s)
             n == Len(s)
  <1>1. /\ n \in Nat /\ n > 0 /\ Head(s) = s[1] /\ Len(u) = n - 1
        /\ \A i \in 1..(n - 1) : u[i] = s[i + 1]
    BY TailOf
  <1>2. PICK p : Path(p, s) /\ p[1] = pic /\ p[n + 1] = goal
    BY DEF Leads
  <1>3. p \in [1..(n + 1) -> Pictures] /\ \A i \in 1..n : Ready(p[i], s[i]) /\ p[i + 1] = PStep(p[i], s[i])
    BY <1>2 DEF Path
  <1> HIDE DEF u, n
  <1>4. 1 \in 1..n /\ 1 \in 1..(n + 1) /\ n + 1 \in 1..(n + 1)
    BY <1>1
  <1>5. Ready(pic, Head(s)) /\ p[2] = PStep(pic, Head(s))
    BY <1>1, <1>2, <1>3, <1>4
  <1> DEFINE q == [i \in 1..n |-> p[i + 1]]
  <1>6. \A i \in 1..n : i + 1 \in 1..(n + 1)
    BY <1>1
  <1>7. q \in [1..((n - 1) + 1) -> Pictures]
    <2>1. (n - 1) + 1 = n
      BY <1>1
    <2>2. q \in [1..n -> Pictures]
      BY <1>3, <1>6
    <2> HIDE DEF q
    <2>3. QED
      BY <2>1, <2>2
  <1>8. \A i \in 1..n : q[i] = p[i + 1]
    OBVIOUS
  <1> HIDE DEF q
  <1>9. \A i \in 1..(n - 1) : Ready(q[i], u[i]) /\ q[i + 1] = PStep(q[i], u[i])
    <2>1. TAKE i \in 1..(n - 1)
    <2>2. i \in 1..n /\ i + 1 \in 1..n
      BY <1>1
    <2>3. q[i] = p[i + 1] /\ q[i + 1] = p[(i + 1) + 1] /\ u[i] = s[i + 1]
      BY <1>1, <1>8, <2>2
    <2>4. QED
      BY <1>3, <2>2, <2>3
  <1>10. Path(q, u)
    BY <1>1, <1>7, <1>9 DEF Path
  <1>11. q[1] = PStep(pic, Head(s)) /\ q[Len(u) + 1] = goal
    <2>1. n \in 1..n /\ (n - 1) + 1 = n /\ 1 + 1 = 2
      BY <1>1
    <2>2. q[1] = p[2] /\ q[n] = p[n + 1]
      BY <1>4, <1>8, <2>1
    <2>3. QED
      BY <1>1, <1>2, <1>5, <2>1, <2>2
  <1>12. Leads(PStep(pic, Head(s)), u, goal)
    BY <1>10, <1>11 DEF Leads
  <1>13. pic \in Pictures /\ goal \in Pictures
    BY <1>2, <1>3, <1>4
  <1>14. QED
    BY <1>5, <1>12, <1>13 DEF u

\* A list with one more before.
LEMMA LeadsFrom ==
  ASSUME NEW s \in Seq(Items), NEW x \in Items, NEW pic \in Pictures, NEW goal,
         Ready(pic, x), Leads(PStep(pic, x), s, goal)
  PROVE  Leads(pic, <<x>> \o s, goal)
  <1> DEFINE q == <<x>> \o s
             n == Len(s)
             y == PStep(pic, x)
  <1>1. n \in Nat /\ Len(q) = n + 1 /\ q[1] = x /\ \A i \in 1..n : q[i + 1] = s[i]
    BY ConsOf
  <1>2. PICK p : Path(p, s) /\ p[1] = y /\ p[n + 1] = goal
    BY DEF Leads
  <1>3. p \in [1..(n + 1) -> Pictures] /\ \A i \in 1..n : Ready(p[i], s[i]) /\ p[i + 1] = PStep(p[i], s[i])
    BY <1>2 DEF Path
  <1>4. Ready(pic, x) /\ y = PStep(pic, x)
    OBVIOUS
  <1> HIDE DEF q, n, y
  <1> DEFINE r == [i \in 1..((n + 1) + 1) |-> IF i = 1 THEN pic ELSE p[i - 1]]
  <1>5. \A i \in 1..((n + 1) + 1) : i = 1 \/ i - 1 \in 1..(n + 1)
    BY <1>1
  <1>6. r \in [1..((n + 1) + 1) -> Pictures]
    BY <1>3, <1>5
  <1>7. r[1] = pic /\ \A i \in 1..(n + 1) : r[i + 1] = p[i]
    <2>1. 1 \in 1..((n + 1) + 1)
      BY <1>1
    <2>2. \A i \in 1..(n + 1) : i + 1 \in 1..((n + 1) + 1) /\ i + 1 # 1 /\ (i + 1) - 1 = i
      BY <1>1
    <2>3. QED
      BY <2>1, <2>2
  <1> HIDE DEF r
  <1>8. \A i \in 1..(n + 1) : Ready(r[i], q[i]) /\ r[i + 1] = PStep(r[i], q[i])
    <2>1. TAKE i \in 1..(n + 1)
    <2>2. CASE i = 1
      <3>1. r[1] = pic /\ q[1] = x
        BY <1>1, <1>7
      <3>2. r[2] = p[1]
        <4>1. 1 \in 1..(n + 1) /\ 1 + 1 = 2
          BY <1>1
        <4>2. QED
          BY <1>7, <4>1
      <3>3. QED
        BY <1>2, <1>4, <2>2, <3>1, <3>2
    <2>3. CASE i # 1
      <3>1. i - 1 \in 1..n /\ i - 1 \in 1..(n + 1) /\ (i - 1) + 1 = i
        BY <1>1, <2>3
      <3>2. r[(i - 1) + 1] = p[i - 1] /\ r[i + 1] = p[i] /\ q[(i - 1) + 1] = s[i - 1]
        BY <1>1, <1>7, <3>1
      <3>3. Ready(p[i - 1], s[i - 1]) /\ p[(i - 1) + 1] = PStep(p[i - 1], s[i - 1])
        BY <1>3, <3>1
      <3>4. QED
        BY <3>1, <3>2, <3>3
    <2>4. QED
      BY <2>2, <2>3
  <1>9. Path(r, q)
    BY <1>1, <1>6, <1>8 DEF Path
  <1>10. r[Len(q) + 1] = goal
    <2>1. n + 1 \in 1..(n + 1)
      BY <1>1
    <2>2. QED
      BY <1>1, <1>2, <1>7, <2>1
  <1>11. Leads(pic, q, goal)
    BY <1>7, <1>9, <1>10 DEF Leads
  <1>12. QED
    BY <1>11 DEF q

\* And with some bookkeeping behind.
LEMMA LeadsThen ==
  ASSUME NEW s \in Seq(Items), NEW x \in Items, x.op \notin Backs, NEW pic, NEW goal,
         Leads(pic, s, goal)
  PROVE  Leads(pic, Append(s, x), goal)
  <1> DEFINE q == Append(s, x)
             n == Len(s)
  <1>1. n \in Nat /\ Len(q) = n + 1 /\ q[n + 1] = x /\ \A i \in 1..n : q[i] = s[i]
    BY AppendOf
  <1>2. PICK p : Path(p, s) /\ p[1] = pic /\ p[n + 1] = goal
    BY DEF Leads
  <1>3. p \in [1..(n + 1) -> Pictures] /\ \A i \in 1..n : Ready(p[i], s[i]) /\ p[i + 1] = PStep(p[i], s[i])
    BY <1>2 DEF Path
  <1> HIDE DEF q, n
  <1>4. goal \in Pictures
    BY <1>1, <1>2, <1>3
  <1> DEFINE r == [i \in 1..((n + 1) + 1) |-> IF i = (n + 1) + 1 THEN goal ELSE p[i]]
  <1>5. \A i \in 1..((n + 1) + 1) : i = (n + 1) + 1 \/ i \in 1..(n + 1)
    BY <1>1
  <1>6. r \in [1..((n + 1) + 1) -> Pictures]
    BY <1>3, <1>4, <1>5
  <1>7. r[(n + 1) + 1] = goal /\ \A i \in 1..(n + 1) : r[i] = p[i]
    <2>1. (n + 1) + 1 \in 1..((n + 1) + 1)
      BY <1>1
    <2>2. \A i \in 1..(n + 1) : i \in 1..((n + 1) + 1) /\ i # (n + 1) + 1
      BY <1>1
    <2>3. QED
      BY <2>1, <2>2
  <1> HIDE DEF r
  <1>8. \A i \in 1..(n + 1) : Ready(r[i], q[i]) /\ r[i + 1] = PStep(r[i], q[i])
    <2>1. TAKE i \in 1..(n + 1)
    <2>2. CASE i = n + 1
      BY <1>1, <1>2, <1>4, <1>7, <2>2, PStepOff
    <2>3. CASE i # n + 1
      <3>1. i \in 1..n /\ i + 1 \in 1..(n + 1)
        BY <1>1, <2>3
      <3>2. r[i] = p[i] /\ r[i + 1] = p[i + 1] /\ q[i] = s[i]
        BY <1>1, <1>7, <3>1
      <3>3. QED
        BY <1>3, <3>1, <3>2
    <2>4. QED
      BY <2>2, <2>3
  <1>9. Path(r, q)
    BY <1>1, <1>6, <1>8 DEF Path
  <1>10. r[1] = pic /\ r[Len(q) + 1] = goal
    <2>1. 1 \in 1..(n + 1)
      BY <1>1
    <2>2. QED
      BY <1>1, <1>2, <1>7, <2>1
  <1>11. Leads(pic, q, goal)
    BY <1>9, <1>10 DEF Leads
  <1>12. QED
    BY <1>11 DEF q

\* One before one, two or three.
LEMMA ConsFew ==
  ASSUME NEW x \in Items, NEW y \in Items, NEW z \in Items, NEW w \in Items
  PROVE  <<x>> \o <<y>> = <<x, y>> /\ <<x>> \o <<y, z>> = <<x, y, z>>
         /\ <<x>> \o <<y, z, w>> = <<x, y, z, w>>
  <1>1. ASSUME NEW s \in Seq(Items), NEW q \in Seq(Items), Len(q) = Len(s) + 1, q[1] = x,
               \A i \in 1..Len(s) : q[i + 1] = s[i]
        PROVE  <<x>> \o s = q
    <2> DEFINE r == <<x>> \o s
    <2>1. r \in Seq(Items) /\ Len(r) = Len(s) + 1 /\ r[1] = x /\ \A i \in 1..Len(s) : r[i + 1] = s[i]
      BY ConsOf
    <2> HIDE DEF r
    <2>2. \A i \in 1..Len(r) : r[i] = q[i]
      <3>1. TAKE i \in 1..Len(r)
      <3>2. CASE i # 1
        <4>1. i - 1 \in 1..Len(s) /\ (i - 1) + 1 = i
          BY <2>1, <3>2
        <4>2. QED
          BY <1>1, <2>1, <4>1
      <3>3. QED
        BY <1>1, <2>1, <3>2
    <2>3. r = q
      BY <1>1, <2>1, <2>2, SeqEqual
    <2>4. QED
      BY <2>3 DEF r
  <1>2. <<x>> \o <<y>> = <<x, y>>
    <2> DEFINE s == <<y>>
               q == <<x, y>>
    <2>1. s \in Seq(Items) /\ q \in Seq(Items) /\ Len(s) = 1 /\ Len(q) = 2 /\ q[1] = x /\ q[2] = y /\ s[1] = y
      OBVIOUS
    <2> HIDE DEF s, q
    <2>2. \A i \in 1..Len(s) : i = 1 /\ i + 1 = 2
      BY <2>1
    <2>3. Len(q) = Len(s) + 1 /\ \A i \in 1..Len(s) : q[i + 1] = s[i]
      BY <2>1, <2>2
    <2>5. <<x>> \o s = q
      BY <1>1, <2>1, <2>3
    <2>4. QED
      BY <2>5 DEF s, q
  <1>3. <<x>> \o <<y, z>> = <<x, y, z>>
    <2> DEFINE s == <<y, z>>
               q == <<x, y, z>>
    <2>1. /\ s \in Seq(Items) /\ q \in Seq(Items) /\ Len(s) = 2 /\ Len(q) = 3
          /\ q[1] = x /\ q[2] = y /\ q[3] = z /\ s[1] = y /\ s[2] = z
      OBVIOUS
    <2> HIDE DEF s, q
    <2>2. \A i \in 1..Len(s) : (i = 1 /\ i + 1 = 2) \/ (i = 2 /\ i + 1 = 3)
      BY <2>1
    <2>3. Len(q) = Len(s) + 1 /\ \A i \in 1..Len(s) : q[i + 1] = s[i]
      BY <2>1, <2>2
    <2>5. <<x>> \o s = q
      BY <1>1, <2>1, <2>3
    <2>4. QED
      BY <2>5 DEF s, q
  <1>4. <<x>> \o <<y, z, w>> = <<x, y, z, w>>
    <2> DEFINE s == <<y, z, w>>
               q == <<x, y, z, w>>
    <2>1. /\ s \in Seq(Items) /\ q \in Seq(Items) /\ Len(s) = 3 /\ Len(q) = 4
          /\ q[1] = x /\ q[2] = y /\ q[3] = z /\ q[4] = w /\ s[1] = y /\ s[2] = z /\ s[3] = w
      OBVIOUS
    <2> HIDE DEF s, q
    <2>2. \A i \in 1..Len(s) : (i = 1 /\ i + 1 = 2) \/ (i = 2 /\ i + 1 = 3) \/ (i = 3 /\ i + 1 = 4)
      BY <2>1
    <2>3. Len(q) = Len(s) + 1 /\ \A i \in 1..Len(s) : q[i + 1] = s[i]
      BY <2>1, <2>2
    <2>5. <<x>> \o s = q
      BY <1>1, <2>1, <2>3
    <2>4. QED
      BY <2>5 DEF s, q
  <1>5. QED
    BY <1>2, <1>3, <1>4

\* A call and a pop.
LEMMA LeadsTwo ==
  ASSUME NEW x \in Items, NEW y \in Items, y.op \notin Backs, NEW pic \in Pictures, NEW goal \in Pictures,
         Ready(pic, x), PStep(pic, x) = goal
  PROVE  Leads(pic, <<x, y>>, goal)
  <1>1. Leads(goal, <<>>, goal)
    BY LeadsNowhere
  <1>2. PStep(goal, y) = goal /\ Ready(goal, y)
    BY PStepOff
  <1>3. Leads(goal, Append(<<>>, y), goal)
    <2>1. <<>> \in Seq(Items)
      OBVIOUS
    <2>2. QED
      BY <1>1, <2>1, LeadsThen
  <1>4. Append(<<>>, y) = <<y>> /\ <<y>> \in Seq(Items)
    OBVIOUS
  <1> DEFINE s == <<y>>
  <1>5. Leads(goal, s, goal) /\ s \in Seq(Items)
    BY <1>3, <1>4
  <1>6. <<x>> \o s = <<x, y>>
    BY ConsFew
  <1> HIDE DEF s
  <1>7. Leads(pic, <<x>> \o s, goal)
    BY <1>5, LeadsFrom
  <1>8. QED
    BY <1>6, <1>7

\* Each renaming and each move of a list is followed by a pop.
EachPopped(s) ==
  \A i \in 1..Len(s) : s[i].op \in {"rename", "move"} => i + 1 \in 1..Len(s) /\ s[i + 1].op = "pop"

\* Undoing an entry leads from the picture after it to the one before.
Undoable(e) == Leads(e.after, e.undo, e.before) /\ EachPopped(e.undo)

\* The entry of a renaming, a naming or a move.
LEMMA UndoablePlain ==
  ASSUME NEW t \in Tree, NEW c \in AnyCall, Fits(t, c), Logs(t, c), c.op \in {"rename", "name", "move"}
  PROVE  Undoable(Entry(t, c))
  <1> DEFINE n == c.at
             r == Apply(t, c)
             a == Picture(t)
             b == Picture(r)
             x == IF c.op = "move" THEN Move(n, t[n].parent) ELSE Rename(n, t[n].text)
             e == Entry(t, c)
  <1>1. n \in Node /\ t[n] # None /\ n \in There(t)
    BY CallFields DEF Fits, There
  <1>2. /\ t[n].kind \in Kind /\ t[n].parent \in Node \cup {None} /\ t[n].text \in Text
    BY <1>1, TreeRows
  <1>3. e.before = a /\ e.after = b /\ e.undo = Undo(t, c)
    BY DEF Entry
  <1>4. a \in Pictures /\ b \in Pictures
    BY ApplyRows, PictureRows
  <1>5. a[n] = <<t[n].kind, t[n].parent, t[n].text>>
    BY <1>1, PictureRows
  <1>6. /\ n \in There(r)
        /\ r[n].kind = t[n].kind
        /\ c.op # "move" => r[n].parent = t[n].parent
        /\ c.op = "move" => r[n].text = t[n].text
        /\ \A m \in Node : m # n => r[m] = t[m]
    <2>1. n \in There(r)
      BY <1>1, ThereAfter
    <2>2. CASE c.op = "rename"
      <3>1. \A m \in Node : r[m] = IF m # n THEN t[m] ELSE
              [kind |-> t[m].kind, parent |-> t[m].parent, text |-> c.text, mine |-> TRUE]
        BY <2>2, ApplyRows
      <3>2. r[n] = [kind |-> t[n].kind, parent |-> t[n].parent, text |-> c.text, mine |-> TRUE]
        BY <1>1, <3>1
      <3> HIDE DEF r
      <3>3. r[n].kind = t[n].kind /\ r[n].parent = t[n].parent
        BY <3>2
      <3>4. \A m \in Node : m # n => r[m] = t[m]
        BY <3>1
      <3>5. QED
        BY <2>1, <2>2, <3>3, <3>4
    <2>3. CASE c.op = "name"
      <3>1. \A m \in Node : r[m] = IF m # n \/ t[m].mine THEN t[m] ELSE
              [kind |-> t[m].kind, parent |-> t[m].parent, text |-> c.text, mine |-> t[m].mine]
        BY <2>3, ApplyRows
      <3>2. r[n] = IF t[n].mine THEN t[n] ELSE
              [kind |-> t[n].kind, parent |-> t[n].parent, text |-> c.text, mine |-> t[n].mine]
        BY <1>1, <3>1
      <3> HIDE DEF r
      <3>3. r[n].kind = t[n].kind /\ r[n].parent = t[n].parent
        BY <3>2
      <3>4. QED
        BY <2>1, <2>3, <3>1, <3>3
    <2>4. CASE c.op = "move"
      <3>1. \A m \in Node : r[m] = IF t[m] = None \/ m \in Taken(t, c) THEN None ELSE
                 [kind |-> t[m].kind,
                  parent |-> IF m \in DOMAIN Moved(t, c) THEN Moved(t, c)[m] ELSE t[m].parent,
                  text |-> t[m].text, mine |-> t[m].mine]
        BY <2>4, ApplyRows DEF Shaping
      <3>2. Taken(t, c) = {} /\ DOMAIN Moved(t, c) = {n}
        BY <2>4 DEF Taken, Moved, ToOne
      <3>3. \A m \in Node : m # n => r[m] = t[m]
        <4>1. TAKE m \in Node
        <4>2. CASE t[m] = None
          BY <3>1, <3>2, <4>2
        <4>3. CASE t[m] # None /\ m # n
          <5>1. t[m] \in Row
            BY <4>3, TreeRows
          <5>2. t[m] = [kind |-> t[m].kind, parent |-> t[m].parent, text |-> t[m].text, mine |-> t[m].mine]
            BY <5>1 DEF Row
          <5>3. m \notin DOMAIN Moved(t, c) /\ m \notin Taken(t, c)
            BY <3>2, <4>3
          <5>4. QED
            BY <3>1, <4>3, <5>2, <5>3
        <4>4. QED
          BY <4>2, <4>3
      <3>4. r[n].kind = t[n].kind /\ r[n].text = t[n].text
        <4>1. n \notin Taken(t, c) /\ n \in DOMAIN Moved(t, c)
          BY <3>2
        <4>2. r[n] = [kind |-> t[n].kind, parent |-> Moved(t, c)[n], text |-> t[n].text, mine |-> t[n].mine]
          BY <1>1, <3>1, <4>1
        <4> HIDE DEF r
        <4>3. QED
          BY <4>2
      <3>5. QED
        BY <2>1, <2>4, <3>3, <3>4
    <2>5. QED
      BY <2>2, <2>3, <2>4
  <1>7. b[n] = <<r[n].kind, r[n].parent, r[n].text>>
    BY <1>6, ApplyRows, PictureRows
  <1>8. \A m \in Node : m # n => b[m] = a[m]
    BY <1>6 DEF Picture
  <1>9. x \in AnyCall /\ x.at = n /\ x.op = IF c.op = "move" THEN "move" ELSE "rename"
    <2>1. Move(n, t[n].parent) \in AnyCall /\ Rename(n, t[n].text) \in AnyCall
      BY <1>1, <1>2, CallTypes
    <2>2. QED
      BY <2>1 DEF Move, Rename
  <1>10. /\ c.op = "move" => x.to = t[n].parent
         /\ c.op # "move" => x.text = t[n].text
    BY DEF Move, Rename
  <1>11. Pop.op \notin Backs /\ Pop \in Items /\ x \in Items /\ Pop.op = "pop"
    BY <1>9 DEF Pop, Backs, Items
  <1>12. a[n] # None /\ b[n] # None
    <2>1. r[n].kind \in Kind /\ r[n].parent \in Node \cup {None} /\ r[n].text \in Text
      <3>1. r \in Tree
        BY ApplyRows
      <3> HIDE DEF r
      <3>2. QED
        BY <1>1, <1>6, <3>1, TreeRows
    <2>2. QED
      BY <1>2, <1>5, <1>7, <2>1, RowNotNone
  <1>13. c.op \in {"rename", "name"} => e.undo \in {<<x, Pop>>, <<x, Pop, x, Pop>>}
    BY <1>3 DEF Undo
  <1>14. c.op = "move" => e.undo = <<x, Pop>>
    BY <1>3 DEF Undo
  <1> HIDE DEF a, b, x, r, e
  <1>15. PStep(b, x) = a
    <2>1. \A m \in Node : PStep(b, x)[m] = a[m]
      <3>1. TAKE m \in Node
      <3>2. CASE m # n
        BY <1>8, <1>9, <3>2 DEF PStep
      <3>3. CASE m = n /\ c.op = "move"
        <4>1. PStep(b, x)[n] = <<b[n][1], t[n].parent, b[n][3]>>
          BY <1>1, <1>9, <1>10, <3>3 DEF PStep
        <4>2. b[n][1] = t[n].kind /\ b[n][3] = t[n].text
          BY <1>6, <1>7, <3>3
        <4>3. QED
          BY <1>5, <3>3, <4>1, <4>2
      <3>4. CASE m = n /\ c.op # "move"
        <4>1. PStep(b, x)[n] = <<b[n][1], b[n][2], t[n].text>>
          BY <1>1, <1>9, <1>10, <3>4 DEF PStep
        <4>2. b[n][1] = t[n].kind /\ b[n][2] = t[n].parent
          BY <1>6, <1>7, <3>4
        <4>3. QED
          BY <1>5, <3>4, <4>1, <4>2
      <3>5. QED
        BY <3>2, <3>3, <3>4
    <2>2. QED
      BY <1>4, <2>1 DEF PStep, Pictures
  <1>16. Ready(b, x) /\ Ready(a, x)
    BY <1>9, <1>12 DEF Ready
  <1>17. c.op # "move" => PStep(a, x) = a
    <2>1. SUFFICES ASSUME c.op # "move"
                   PROVE  PStep(a, x) = a
      OBVIOUS
    <2>2. \A m \in Node : PStep(a, x)[m] = a[m]
      <3>1. TAKE m \in Node
      <3>2. CASE m # n
        BY <1>9, <3>2 DEF PStep
      <3>3. CASE m = n
        <4>1. PStep(a, x)[n] = <<a[n][1], a[n][2], t[n].text>>
          BY <1>1, <1>9, <1>10, <2>1 DEF PStep
        <4>2. a[n][1] = t[n].kind /\ a[n][2] = t[n].parent
          BY <1>5
        <4>3. QED
          BY <1>5, <3>3, <4>1, <4>2
      <3>4. QED
        BY <3>2, <3>3
    <2>3. QED
      BY <1>4, <2>2 DEF PStep, Pictures
  <1> DEFINE y == Pop
  <1>18. y \in Items /\ y.op \notin Backs /\ y.op = "pop"
    BY <1>11
  <1> HIDE DEF y
  <1>19. Leads(b, <<x, y>>, a)
    BY <1>4, <1>11, <1>15, <1>16, <1>18, LeadsTwo
  <1>20. c.op # "move" => Leads(b, <<x, y, x, y>>, a)
    <2>1. SUFFICES ASSUME c.op # "move"
                   PROVE  Leads(b, <<x, y, x, y>>, a)
      OBVIOUS
    <2> DEFINE s == <<x, y>>
    <2>2. Leads(a, s, a)
      BY <1>4, <1>11, <1>16, <1>17, <1>18, <2>1, LeadsTwo
    <2>3. s \in Seq(Items) /\ <<y>> \o s = <<y, x, y>> /\ <<y, x, y>> \in Seq(Items)
      <3>1. <<y>> \o s = <<y, x, y>>
        BY <1>11, <1>18, ConsFew
      <3>2. QED
        BY <1>11, <1>18, <3>1
    <2>4. PStep(a, y) = a /\ Ready(a, y)
      BY <1>4, <1>18, PStepOff
    <2> HIDE DEF s
    <2>5. Leads(a, <<y>> \o s, a)
      BY <1>4, <1>18, <2>2, <2>3, <2>4, LeadsFrom
    <2> DEFINE z == <<y, x, y>>
    <2>6. Leads(a, z, a) /\ z \in Seq(Items)
      BY <2>3, <2>5
    <2>7. <<x>> \o z = <<x, y, x, y>>
      BY <1>11, <1>18, ConsFew
    <2> HIDE DEF z
    <2>8. Leads(b, <<x>> \o z, a)
      BY <1>4, <1>11, <1>15, <1>16, <2>6, LeadsFrom
    <2>9. QED
      BY <2>7, <2>8
  <1>21. EachPopped(<<x, y>>) /\ EachPopped(<<x, y, x, y>>)
    <2>1. EachPopped(<<x, y>>)
      <3> DEFINE s == <<x, y>>
      <3>1. Len(s) = 2 /\ s[2] = y
        OBVIOUS
      <3> HIDE DEF s
      <3>2. \A i \in 1..Len(s) : (i = 1 /\ i + 1 = 2) \/ i = 2
        BY <3>1
      <3>3. 2 \in 1..Len(s)
        BY <3>1
      <3>4. EachPopped(s)
        BY <1>18, <3>1, <3>2, <3>3 DEF EachPopped
      <3>5. QED
        BY <3>4 DEF s
    <2>2. EachPopped(<<x, y, x, y>>)
      <3> DEFINE s == <<x, y, x, y>>
      <3>1. Len(s) = 4 /\ s[2] = y /\ s[4] = y
        OBVIOUS
      <3> HIDE DEF s
      <3>2. \A i \in 1..Len(s) : (i = 1 /\ i + 1 = 2) \/ i = 2 \/ (i = 3 /\ i + 1 = 4) \/ i = 4
        BY <3>1
      <3>3. 2 \in 1..Len(s) /\ 4 \in 1..Len(s)
        BY <3>1
      <3>4. EachPopped(s)
        BY <1>18, <3>1, <3>2, <3>3 DEF EachPopped
      <3>5. QED
        BY <3>4 DEF s
    <2>3. QED
      BY <2>1, <2>2
  <1>22. Leads(e.after, e.undo, e.before) /\ EachPopped(e.undo)
    <2>1. CASE c.op = "move"
      BY <1>3, <1>14, <1>19, <1>21, <2>1 DEF y
    <2>2. CASE c.op # "move"
      <3>1. e.undo = <<x, y>> \/ e.undo = <<x, y, x, y>>
        BY <1>13, <2>2 DEF y
      <3>2. Leads(b, e.undo, a) /\ EachPopped(e.undo)
        BY <1>19, <1>20, <1>21, <2>2, <3>1
      <3>3. QED
        BY <1>3, <3>2
    <2>3. QED
      BY <2>1, <2>2
  <1>23. QED
    BY <1>22 DEF Undoable, e

\* The entry of a call that takes nodes away.
LEMMA UndoableTaking ==
  ASSUME NEW t \in Tree, NEW c \in AnyCall, Fits(t, c), c.op \in Taking
  PROVE  Undoable(Entry(t, c))
  <1> DEFINE r == Apply(t, c)
             a == Picture(t)
             b == Picture(r)
             T == Taken(t, c)
             M == DOMAIN Moved(t, c)
             k == Cardinality(T)
             q == SetToSeq(T)
             z == Undo(t, c)
             mo == Where(t, M)
             e == Entry(t, c)
  <1>1. e.before = a /\ e.after = b /\ e.undo = z
    BY DEF Entry
  <1>2. r \in Tree /\ a \in Pictures /\ b \in Pictures
    BY ApplyRows, PictureRows
  <1>3. T \in SUBSET There(t) /\ M \in SUBSET There(t)
    BY TakenThere DEF Taking
  <1>4. /\ k \in Nat /\ Len(z) = k + 1 /\ q \in [1..k -> T]
        /\ \A i \in 1..k : z[i] = Insert(q[i], t[q[i]])
        /\ \A n \in T : \E i \in 1..k : q[i] = n
        /\ z[k + 1] = Reparent(mo)
    BY TakingItems DEF Taking
  <1>5. DOMAIN mo = M /\ \A n \in M : mo[n] = t[n].parent
    BY <1>3, MoveTypes
  <1>6. \A n \in There(t) : a[n] = <<t[n].kind, t[n].parent, t[n].text>> /\ a[n] # None
    BY PictureRows DEF There
  <1>7. There(t) \subseteq Node /\ \A n \in Node : n \notin There(t) => a[n] = None
    BY PictureRows DEF There
  <1>8. ASSUME NEW n \in Node, n \notin T
        PROVE  IF n \in There(t) THEN b[n] = <<t[n].kind, IF n \in M THEN Moved(t, c)[n] ELSE t[n].parent, t[n].text>>
               ELSE b[n] = None
    <2>1. r[n] = IF t[n] = None \/ n \in T THEN None ELSE
             [kind |-> t[n].kind, parent |-> IF n \in M THEN Moved(t, c)[n] ELSE t[n].parent,
              text |-> t[n].text, mine |-> t[n].mine]
      BY ApplyRows DEF Shaping, Taking
    <2>2. CASE n \in There(t)
      <3>1. n \in There(r)
        BY <1>8, <2>2, ThereAfter
      <3>2. b[n] = <<r[n].kind, r[n].parent, r[n].text>>
        BY <1>2, <3>1, PictureRows
      <3> DEFINE w == IF n \in M THEN Moved(t, c)[n] ELSE t[n].parent
      <3>3. t[n] # None
        BY <2>2 DEF There
      <3>4. r[n] = [kind |-> t[n].kind, parent |-> w, text |-> t[n].text, mine |-> t[n].mine]
        BY <1>8, <2>1, <3>3
      <3> HIDE DEF w, r
      <3>5. r[n].kind = t[n].kind /\ r[n].parent = w /\ r[n].text = t[n].text
        BY <3>4
      <3>6. QED
        BY <2>2, <3>2, <3>5 DEF w, r
    <2>3. CASE n \notin There(t)
      <3>1. r[n] = None
        BY <2>1, <2>3 DEF There
      <3>2. QED
        BY <1>2, <2>3, <3>1, PictureRows
    <2>4. QED
      BY <2>2, <2>3
  <1> DEFINE Had(i, n) == \E j \in 1..(i - 1) : q[j] = n
             p == [i \in 1..((k + 1) + 1) |->
                     IF i = (k + 1) + 1 THEN a ELSE [n \in Node |-> IF Had(i, n) THEN a[n] ELSE b[n]]]
  <1> HIDE DEF a, b, T, M, k, q, z, mo, e, r
  <1>9. \A i \in 1..(k + 1) : i \in 1..((k + 1) + 1) /\ i # (k + 1) + 1
    BY <1>4
  <1>10. \A i \in 1..(k + 1) : \A n \in Node : p[i][n] = IF Had(i, n) THEN a[n] ELSE b[n]
    BY <1>9
  <1>11. p[(k + 1) + 1] = a
    <2>1. (k + 1) + 1 \in 1..((k + 1) + 1)
      BY <1>4
    <2>2. QED
      BY <2>1
  <1>12. p \in [1..((k + 1) + 1) -> Pictures]
    <2>1. \A i : [n \in Node |-> IF Had(i, n) THEN a[n] ELSE b[n]] \in Pictures
      BY <1>2 DEF Pictures
    <2> HIDE DEF Had
    <2>2. QED
      BY <1>2, <2>1
  <1> HIDE DEF p
  <1>13. p[1] = b
    <2>1. 1 \in 1..(k + 1) /\ 1 \in 1..((k + 1) + 1) /\ p[1] \in Pictures
      BY <1>4, <1>12
    <2>2. \A n : ~Had(1, n)
      OBVIOUS
    <2>3. \A n \in Node : p[1][n] = b[n]
      BY <1>10, <2>1, <2>2
    <2>4. QED
      BY <1>2, <2>1, <2>3 DEF Pictures
  <1>14. ASSUME NEW i \in 1..k
         PROVE  Ready(p[i], z[i]) /\ p[i + 1] = PStep(p[i], z[i])
    <2>1. i \in 1..(k + 1) /\ i + 1 \in 1..(k + 1) /\ i + 1 \in 1..((k + 1) + 1) /\ p[i + 1] \in Pictures
      BY <1>4, <1>12
    <2>2. z[i].op = "insert" /\ z[i].at = q[i] /\ z[i].row = t[q[i]]
      BY <1>4, InsertFields
    <2>3. q[i] \in There(t) /\ a[q[i]] = <<t[q[i]].kind, t[q[i]].parent, t[q[i]].text>>
      BY <1>3, <1>4, <1>6
    <2>4. \A n : Had(i + 1, n) <=> (Had(i, n) \/ n = q[i])
      <3>1. \A j : j \in 1..((i + 1) - 1) <=> (j \in 1..(i - 1) \/ j = i)
        BY <1>4
      <3>2. QED
        BY <3>1
    <2> HIDE DEF Had
    <2>5. \A n \in Node : p[i + 1][n] = PStep(p[i], z[i])[n]
      <3>1. TAKE n \in Node
      <3>2. PStep(p[i], z[i])[n] = IF n = q[i] THEN a[q[i]] ELSE p[i][n]
        BY <2>2, <2>3 DEF PStep
      <3>3. p[i][n] = (IF Had(i, n) THEN a[n] ELSE b[n]) /\ p[i + 1][n] = (IF Had(i + 1, n) THEN a[n] ELSE b[n])
        BY <1>10, <2>1
      <3>4. QED
        BY <2>4, <3>2, <3>3
    <2>6. p[i + 1] = PStep(p[i], z[i])
      BY <2>1, <2>5 DEF PStep, Pictures
    <2>7. QED
      BY <2>2, <2>6 DEF Ready
  <1>15. Ready(p[k + 1], z[k + 1]) /\ p[(k + 1) + 1] = PStep(p[k + 1], z[k + 1])
    <2>1. k + 1 \in 1..(k + 1)
      BY <1>4
    <2>2. z[k + 1].op = "reparent" /\ z[k + 1].moves = mo
      BY <1>4 DEF Reparent
    <2>3. \A n \in Node : Had(k + 1, n) <=> n \in T
      <3>1. (k + 1) - 1 = k
        BY <1>4
      <3>2. QED
        BY <1>4, <3>1
    <2> HIDE DEF Had
    <2> DEFINE u == p[k + 1]
    <2>4. \A n \in Node : u[n] = IF n \in T THEN a[n] ELSE b[n]
      BY <1>10, <2>1, <2>3
    <2> HIDE DEF u
    <2>5. \A n \in Node : a[n] = PStep(u, z[k + 1])[n]
      <3>1. TAKE n \in Node
      <3>2. PStep(u, z[k + 1])[n] = IF n \in M /\ u[n] # None THEN <<u[n][1], mo[n], u[n][3]>> ELSE u[n]
        BY <1>5, <2>2 DEF PStep
      <3>3. CASE n \in T
        <4>1. n \in There(t) /\ u[n] = a[n] /\ a[n] = <<t[n].kind, t[n].parent, t[n].text>>
          BY <1>3, <1>6, <2>4, <3>3
        <4>2. n \in M => <<u[n][1], mo[n], u[n][3]>> = a[n]
          BY <1>5, <4>1
        <4>3. QED
          BY <3>2, <4>1, <4>2
      <3>4. CASE n \notin T /\ n \notin There(t)
        BY <1>7, <1>8, <2>4, <3>2, <3>4
      <3>5. CASE n \notin T /\ n \in There(t)
        <4> DEFINE w == IF n \in M THEN Moved(t, c)[n] ELSE t[n].parent
        <4>1. u[n] = <<t[n].kind, w, t[n].text>> /\ a[n] = <<t[n].kind, t[n].parent, t[n].text>>
          BY <1>6, <1>8, <2>4, <3>5
        <4>2. n \notin M => w = t[n].parent
          OBVIOUS
        <4>3. w \in Node \cup {None}
          BY <3>5, MovedTypes, TreeRows DEF MoveMap, M
        <4> HIDE DEF w
        <4>4. u[n] # None
          BY <3>5, <4>1, <4>3, RowNotNone, TreeRows
        <4>5. n \in M => mo[n] = t[n].parent
          BY <1>5
        <4>6. QED
          BY <3>2, <4>1, <4>2, <4>4, <4>5
      <3>6. QED
        BY <3>3, <3>4, <3>5
    <2>6. a = PStep(u, z[k + 1])
      BY <1>2, <2>5 DEF PStep, Pictures
    <2>7. QED
      BY <1>11, <2>2, <2>6 DEF Ready, u
  <1>16. Path(p, z)
    <2>1. \A i \in 1..(k + 1) : i \in 1..k \/ i = k + 1
      BY <1>4
    <2>2. QED
      BY <1>4, <1>12, <1>14, <1>15, <2>1 DEF Path
  <1>17. Leads(b, z, a)
    BY <1>4, <1>11, <1>13, <1>16 DEF Leads
  <1>18. EachPopped(z)
    <2>1. \A i \in 1..Len(z) : i \in 1..k \/ i = k + 1
      BY <1>4
    <2>2. \A i \in 1..Len(z) : z[i].op \in {"insert", "reparent"}
      BY <1>4, <2>1, CallOps
    <2>3. QED
      BY <2>2 DEF EachPopped
  <1>19. QED
    BY <1>1, <1>17, <1>18 DEF Undoable, e

\* The entry of any call.
LEMMA UndoableCall ==
  ASSUME NEW t \in Tree, NEW c \in AnyCall, Fits(t, c), Logs(t, c)
  PROVE  Undoable(Entry(t, c))
  BY UndoablePlain, UndoableTaking DEF Logs, Taking

\* Three calls.
LEMMA LeadsThree ==
  ASSUME NEW x \in Items, NEW y \in Items, NEW z \in Items,
         NEW p1 \in Pictures, NEW p2 \in Pictures, NEW p3 \in Pictures, NEW p4 \in Pictures,
         Ready(p1, x), p2 = PStep(p1, x), Ready(p2, y), p3 = PStep(p2, y), Ready(p3, z), p4 = PStep(p3, z)
  PROVE  Leads(p1, <<x, y, z>>, p4)
  <1>1. Leads(p4, <<>>, p4) /\ <<>> \in Seq(Items)
    BY LeadsNowhere
  <1>2. Leads(p3, <<z>>, p4)
    <2>1. <<z>> \o <<>> = <<z>>
      OBVIOUS
    <2> DEFINE s == <<>>
    <2>2. Leads(p4, s, p4) /\ s \in Seq(Items)
      BY <1>1
    <2> HIDE DEF s
    <2>3. Leads(p3, <<z>> \o s, p4)
      BY <2>2, LeadsFrom
    <2>4. QED
      BY <2>1, <2>3 DEF s
  <1>3. Leads(p2, <<y, z>>, p4)
    <2> DEFINE s == <<z>>
    <2>4. <<y>> \o s = <<y, z>>
      BY ConsFew
    <2>1. Leads(p3, s, p4) /\ s \in Seq(Items) /\ <<y>> \o s = <<y, z>>
      BY <1>2, <2>4
    <2> HIDE DEF s
    <2>2. Leads(p2, <<y>> \o s, p4)
      BY <2>1, LeadsFrom
    <2>3. QED
      BY <2>1, <2>2
  <1>4. QED
    <2> DEFINE s == <<y, z>>
    <2>4. <<x>> \o s = <<x, y, z>>
      BY ConsFew
    <2>1. Leads(p2, s, p4) /\ s \in Seq(Items) /\ <<x>> \o s = <<x, y, z>>
      BY <1>3, <2>4
    <2> HIDE DEF s
    <2>2. Leads(p1, <<x>> \o s, p4)
      BY <2>1, LeadsFrom
    <2>3. QED
      BY <2>1, <2>2

\* The pictures a and b before and after leaves A and B of n went to new
\* clusters g and h.
SplitPics(a, b, n, A, B, g, h) ==
  /\ a \in Pictures /\ b \in Pictures
  /\ g \in Node /\ h \in Node /\ g # h /\ n \in Node
  /\ A \subseteq Node /\ B \subseteq Node /\ A \cap B = {}
  /\ a[g] = None /\ a[h] = None /\ g \notin A \cup B /\ h \notin A \cup B
  /\ \A m \in A \cup B : a[m] = <<a[m][1], n, a[m][3]>> /\ a[m] # None
  /\ \A m \in Node : b[m] =
       IF m \in {g, h} THEN <<"cluster", n, "Cluster N">>
       ELSE IF m \in A THEN <<a[m][1], g, a[m][3]>>
       ELSE IF m \in B THEN <<a[m][1], h, a[m][3]>> ELSE a[m]

\* The pictures before and after a split of a cluster's own leaves into halves
\* with ids of their own.
LEMMA SplitPictures ==
  ASSUME TypeOK, NEW n, NEW A, NEW B, SplitAsks(n, A, B), SplitWrong(n, A, B) = {},
         NEW a, a = Picture(tree), NEW b, b = Picture(SplitTree(n, A, B)),
         NEW h1, h1 = Halves[n][1], NEW h2, h2 = Halves[n][2]
  PROVE  SplitPics(a, b, n, A, B, h1, h2)
  <1> DEFINE t == [tree EXCEPT ![h1] = Fresh(n), ![h2] = Fresh(n)]
             mo == SplitMoves(n, A, B)
             r == SplitTree(n, A, B)
  <1>1. /\ n \in Node /\ h1 \in Node /\ h2 \in Node /\ h1 # h2
        /\ A \in SUBSET There(tree) /\ B \in SUBSET There(tree) /\ There(tree) \subseteq Node
        /\ Fresh(n) \in Row /\ mo \in MoveMap /\ DOMAIN mo = A \cup B
        /\ \A m \in A : mo[m] = h1
        /\ \A m \in B : mo[m] = h2
        /\ r \in Tree
    <2>1. /\ n \in Node /\ Halves[n][1] \in Node /\ Halves[n][2] \in Node
          /\ Halves[n][1] # Halves[n][2]
          /\ A \in SUBSET There(tree) /\ B \in SUBSET There(tree) /\ There(tree) \subseteq Node
          /\ Fresh(n) \in Row
      BY SplitTypes
    <2>8. A \cap B = {} /\ A \cup B \subseteq Node
      BY <2>1 DEF SplitAsks
    <2>9. /\ mo \in [A \cup B -> Node \cup {None}] /\ DOMAIN mo = A \cup B
          /\ \A m \in A \cup B : mo[m] = IF m \in A THEN Halves[n][1] ELSE Halves[n][2]
      BY <2>1 DEF SplitMoves
    <2>4. mo \in MoveMap /\ DOMAIN mo = A \cup B
      <3> HIDE DEF mo
      <3>1. QED
        BY <2>8, <2>9 DEF MoveMap
    <2>5. \A m \in A : mo[m] = Halves[n][1]
      BY <2>9
    <2>6. \A m \in B : mo[m] = Halves[n][2]
      BY <2>8, <2>9
    <2>7. r \in Tree
      BY SplitTypes
    <2> HIDE DEF mo, r
    <2>2. /\ mo \in MoveMap /\ DOMAIN mo = A \cup B
          /\ \A m \in A : mo[m] = Halves[n][1]
          /\ \A m \in B : mo[m] = Halves[n][2]
          /\ r \in Tree
      BY <2>4, <2>5, <2>6, <2>7
    <2>3. QED
      BY <2>1, <2>2
  <1>2. A \cup B \subseteq Children(tree, n) /\ tree[h1] = None /\ tree[h2] = None
    BY DEF SplitWrong
  <1>3. h1 \notin A \cup B /\ h2 \notin A \cup B
    BY <1>1, <1>2 DEF There
  <1>4. A \cap B = {}
    BY DEF SplitAsks
  <1>5. tree \in Tree
    BY DEF TypeOK
  <1>6. a \in Pictures /\ b \in Pictures
    BY <1>1, <1>5, PictureRows
  <1>7. /\ a[h1] = None /\ a[h2] = None
        /\ \A m \in There(tree) : a[m] = <<tree[m].kind, tree[m].parent, tree[m].text>> /\ a[m] # None
        /\ \A m \in Node : m \notin There(tree) => a[m] = None
    BY <1>1, <1>2, <1>5, PictureRows DEF There
  <1>8. \A m \in A \cup B : a[m] = <<a[m][1], n, a[m][3]>> /\ a[m] # None
    <2>1. TAKE m \in A \cup B
    <2>2. m \in There(tree) /\ tree[m].parent = n
      BY <1>2 DEF Children
    <2>3. a[m] = <<tree[m].kind, n, tree[m].text>> /\ a[m] # None
      BY <1>7, <2>2
    <2>4. QED
      BY <2>3
  <1>9. t \in Tree /\ \A m \in Node : t[m] = IF m \in {h1, h2} THEN Fresh(n) ELSE tree[m]
    BY <1>1, <1>5 DEF Tree
  <1>10. r = Onto(t, mo)
    BY DEF SplitTree
  <1> HIDE DEF t, mo, r
  <1>11. /\ There(r) = There(t)
         /\ \A m \in There(t) : r[m] =
               [kind |-> t[m].kind, parent |-> IF m \in DOMAIN mo THEN mo[m] ELSE t[m].parent,
                text |-> t[m].text, mine |-> t[m].mine]
    BY <1>1, <1>9, <1>10, OntoRows
  <1>12. b = Picture(r)
    BY DEF r
  <1>13. \A m \in There(t) : b[m] = <<t[m].kind, IF m \in DOMAIN mo THEN mo[m] ELSE t[m].parent, t[m].text>>
    <2>1. TAKE m \in There(t)
    <2>2. b[m] = <<r[m].kind, r[m].parent, r[m].text>>
      BY <1>1, <1>11, <1>12, PictureRows
    <2> DEFINE w == IF m \in DOMAIN mo THEN mo[m] ELSE t[m].parent
    <2>3. r[m] = [kind |-> t[m].kind, parent |-> w, text |-> t[m].text, mine |-> t[m].mine]
      BY <1>11
    <2> HIDE DEF w
    <2>4. r[m].kind = t[m].kind /\ r[m].parent = w /\ r[m].text = t[m].text
      BY <2>3
    <2>5. QED
      BY <2>2, <2>4 DEF w
  <1>14. \A m \in Node : m \notin There(t) => b[m] = None
    BY <1>1, <1>11, <1>12, PictureRows DEF There
  <1>15. \A m \in Node : m \in There(t) <=> (m \in {h1, h2} \/ m \in There(tree))
    <2>1. Fresh(n) # None
      BY <1>1, TreeConstants
    <2>2. QED
      BY <1>9, <2>1 DEF There
  <1>16. ASSUME NEW m \in Node
         PROVE  b[m] =
              IF m \in {h1, h2} THEN <<"cluster", n, "Cluster N">>
              ELSE IF m \in A THEN <<a[m][1], h1, a[m][3]>>
              ELSE IF m \in B THEN <<a[m][1], h2, a[m][3]>> ELSE a[m]
    <2>1. CASE m \in {h1, h2}
      <3>4. t[m] = Fresh(n)
        BY <1>9, <2>1
      <3>5. Fresh(n).kind = "cluster" /\ Fresh(n).parent = n /\ Fresh(n).text = "Cluster N"
        BY DEF Fresh
      <3>1. t[m].kind = "cluster" /\ t[m].parent = n /\ t[m].text = "Cluster N"
        BY <3>4, <3>5
      <3>2. m \notin DOMAIN mo /\ m \in There(t)
        BY <1>1, <1>3, <1>15, <2>1
      <3>3. QED
        BY <1>13, <2>1, <3>1, <3>2
    <2>2. CASE m \notin {h1, h2} /\ m \in There(tree)
      <3>1. m \in There(t) /\ t[m] = tree[m] /\ a[m] = <<tree[m].kind, tree[m].parent, tree[m].text>>
        BY <1>7, <1>9, <1>15, <2>2
      <3>2. b[m] = <<tree[m].kind, IF m \in DOMAIN mo THEN mo[m] ELSE tree[m].parent, tree[m].text>>
        BY <1>13, <3>1
      <3>3. a[m][1] = tree[m].kind /\ a[m][3] = tree[m].text
        BY <3>1
      <3>4. CASE m \in A
        <4>1. m \in DOMAIN mo /\ mo[m] = h1
          BY <1>1, <3>4
        <4>2. QED
          BY <2>2, <3>2, <3>3, <3>4, <4>1
      <3>5. CASE m \notin A /\ m \in B
        <4>1. m \in DOMAIN mo /\ mo[m] = h2
          BY <1>1, <3>5
        <4>2. QED
          BY <2>2, <3>2, <3>3, <3>5, <4>1
      <3>6. CASE m \notin A /\ m \notin B
        <4>1. m \notin DOMAIN mo
          BY <1>1, <3>6
        <4>2. QED
          BY <2>2, <3>1, <3>2, <3>6, <4>1
      <3>7. QED
        BY <3>4, <3>5, <3>6
    <2>3. CASE m \notin {h1, h2} /\ m \notin There(tree)
      <3>1. b[m] = None /\ a[m] = None /\ m \notin A /\ m \notin B
        BY <1>1, <1>7, <1>14, <1>15, <2>3
      <3>2. QED
        BY <2>3, <3>1
    <2>4. QED
      BY <2>1, <2>2, <2>3
  <1>17. A \subseteq Node /\ B \subseteq Node
    BY <1>1
  <1>18. QED
    BY <1>1, <1>3, <1>4, <1>6, <1>7, <1>8, <1>16, <1>17 DEF SplitPics

\* The history in step with a picture of the tree: its last entry left that
\* picture, each found what the one before it left, and each can be undone.
InStep(l, pic) ==
  /\ l # <<>> => Last(l).after = pic
  /\ \A k \in 1..(Len(l) - 1) : l[k].after = l[k + 1].before
  /\ \A k \in 1..Len(l) : Undoable(l[k])

\* An entry that found the tree as the history has it goes on top.
LEMMA InStepAppend ==
  ASSUME NEW l \in Seq(Entries), NEW e \in Entries, InStep(l, e.before), Undoable(e)
  PROVE  InStep(Append(l, e), e.after)
  <1> DEFINE q == Append(l, e)
             n == Len(l)
  <1>1. /\ n \in Nat /\ q \in Seq(Entries) /\ Len(q) = n + 1 /\ q[n + 1] = e
        /\ \A i \in 1..n : q[i] = l[i]
    BY AppendOf
  <1>2. q # <<>>
    BY <1>1
  <1>3. n > 0 => Last(l) = l[n] /\ l # <<>>
    <2>1. n > 0 => l # <<>>
      OBVIOUS
    <2>2. QED
      BY <2>1, FrontOf
  <1> HIDE DEF q, n
  <1>4. Last(q).after = e.after
    BY <1>1, <1>2, FrontOf
  <1>5. \A k \in 1..(Len(q) - 1) : q[k].after = q[k + 1].before
    <2>1. TAKE k \in 1..(Len(q) - 1)
    <2>2. k \in 1..n /\ q[k] = l[k]
      BY <1>1
    <2>3. CASE k = n
      BY <1>1, <1>3, <2>2, <2>3 DEF InStep
    <2>4. CASE k # n
      <3>1. k \in 1..(n - 1) /\ k + 1 \in 1..n
        BY <1>1, <2>2, <2>4
      <3>2. q[k + 1] = l[k + 1]
        BY <1>1, <3>1
      <3>3. QED
        BY <2>2, <3>1, <3>2 DEF InStep, n
    <2>5. QED
      BY <2>3, <2>4
  <1>6. \A k \in 1..Len(q) : Undoable(q[k])
    <2>1. TAKE k \in 1..Len(q)
    <2>2. k \in 1..n \/ k = n + 1
      BY <1>1
    <2>3. QED
      BY <1>1, <2>2 DEF InStep, n
  <1>7. QED
    BY <1>4, <1>5, <1>6 DEF InStep, q

\* Without its last entry the history is in step with what that found.
LEMMA InStepFront ==
  ASSUME NEW l \in Seq(Entries), l # <<>>, NEW pic, InStep(l, pic)
  PROVE  InStep(Front(l), Last(l).before) /\ Undoable(Last(l)) /\ Last(l).after = pic
  <1> DEFINE q == Front(l)
             n == Len(l)
  <1>1. /\ n \in Nat /\ n > 0 /\ Last(l) = l[n] /\ q \in Seq(Entries) /\ Len(q) = n - 1
        /\ \A i \in 1..(n - 1) : q[i] = l[i]
    BY FrontOf
  <1>2. \A k \in 1..(n - 1) : l[k].after = l[k + 1].before
    BY DEF InStep
  <1>3. \A k \in 1..n : Undoable(l[k])
    BY DEF InStep
  <1> HIDE DEF q, n
  <1>4. q # <<>> => Last(q).after = Last(l).before
    <2>1. SUFFICES ASSUME q # <<>> PROVE Last(q).after = Last(l).before
      OBVIOUS
    <2>2. Last(q) = q[n - 1] /\ n - 1 > 0
      BY <1>1, <2>1, FrontOf
    <2>3. n - 1 \in 1..(n - 1) /\ (n - 1) + 1 = n
      BY <1>1, <2>2
    <2>4. QED
      BY <1>1, <1>2, <2>2, <2>3
  <1>5. \A k \in 1..(Len(q) - 1) : q[k].after = q[k + 1].before
    <2>1. TAKE k \in 1..(Len(q) - 1)
    <2>2. k \in 1..(n - 1) /\ k + 1 \in 1..(n - 1)
      BY <1>1
    <2>3. QED
      BY <1>1, <1>2, <2>2
  <1>6. \A k \in 1..Len(q) : Undoable(q[k])
    <2>1. TAKE k \in 1..Len(q)
    <2>2. k \in 1..(n - 1) /\ k \in 1..n
      BY <1>1
    <2>3. QED
      BY <1>1, <1>3, <2>2
  <1>7. n \in 1..n
    BY <1>1
  <1>8. QED
    BY <1>1, <1>3, <1>4, <1>5, <1>6, <1>7 DEF InStep, q

\* What is left of an undo: each renaming, move and record is followed by a pop,
\* the calls lead to one of the pictures of G, and the history is in step with
\* that one once a pop that is due has been done.
UndoOrder(s) ==
  \A i \in 1..Len(s) :
    /\ s[i].op \in Backs \cup Off
    /\ s[i].op \in {"rename", "move", "record"} => i + 1 \in 1..Len(s) /\ s[i + 1].op = "pop"
Pops(s) == s # <<>> /\ Head(s).op = "pop"
Und(l, s, pic, G) ==
  /\ UndoOrder(s) /\ (Pops(s) => l # <<>>)
  /\ \E goal \in G : Leads(pic, s, goal) /\ InStep(IF Pops(s) THEN Front(l) ELSE l, goal)

\* A verb's calls before its record: they lead to the picture the entry ends in.
Kept(l, s, pic, G) ==
  \E k \in 1..Len(s) :
    /\ s[k].op = "record" /\ Len(s) = k + 1 /\ s[k + 1].op = "finish"
    /\ s[k].entry.after \in G
    /\ InStep(Append(l, s[k].entry), s[k].entry.after) /\ Leads(pic, s, s[k].entry.after)

\* A verb that has not saved yet.
Fwd(l, s, pic) == Len(s) = 2 /\ s[1].op \in Simple /\ s[2].op = "finish" /\ InStep(l, pic)

\* The order of an undo, one item on.
LEMMA OrderOn ==
  ASSUME NEW s \in Seq(Items), s # <<>>, UndoOrder(s)
  PROVE  /\ UndoOrder(Tail(s)) /\ Head(s).op \in Backs \cup Off
         /\ Head(s).op \in {"rename", "move", "record"} => Pops(Tail(s))
  <1> DEFINE u == Tail(s)
             n == Len(s)
  <1>1. /\ n \in Nat /\ n > 0 /\ Head(s) = s[1] /\ u \in Seq(Items) /\ Len(u) = n - 1
        /\ \A i \in 1..(n - 1) : u[i] = s[i + 1]
    BY TailOf
  <1>2. \A i \in 1..n : /\ s[i].op \in Backs \cup Off
                        /\ s[i].op \in {"rename", "move", "record"} => i + 1 \in 1..n /\ s[i + 1].op = "pop"
    BY DEF UndoOrder
  <1> HIDE DEF u, n
  <1>3. 1 \in 1..n
    BY <1>1
  <1>4. UndoOrder(u)
    <2>1. ASSUME NEW i \in 1..Len(u)
          PROVE  /\ u[i].op \in Backs \cup Off
                 /\ u[i].op \in {"rename", "move", "record"} => i + 1 \in 1..Len(u) /\ u[i + 1].op = "pop"
      <3>1. i \in 1..(n - 1) /\ i + 1 \in 1..n /\ u[i] = s[i + 1]
        BY <1>1
      <3>2. SUFFICES ASSUME s[i + 1].op \in {"rename", "move", "record"}
                     PROVE  i + 1 \in 1..Len(u) /\ u[i + 1].op = "pop"
        BY <1>2, <3>1
      <3>3. (i + 1) + 1 \in 1..n /\ s[(i + 1) + 1].op = "pop"
        BY <1>2, <3>1, <3>2
      <3>4. i + 1 \in 1..(n - 1)
        BY <1>1, <3>1, <3>3
      <3>5. QED
        BY <1>1, <3>3, <3>4
    <2>2. QED
      BY <2>1 DEF UndoOrder
  <1>5. Head(s).op \in {"rename", "move", "record"} => Pops(u)
    <2>1. SUFFICES ASSUME s[1].op \in {"rename", "move", "record"} PROVE Pops(u)
      BY <1>1
    <2>2. 1 + 1 \in 1..n /\ s[1 + 1].op = "pop"
      BY <1>2, <1>3, <2>1
    <2>3. 1 \in 1..(n - 1) /\ u[1] = s[1 + 1]
      BY <1>1, <2>2
    <2>4. u # <<>>
      BY <1>1, <2>3
    <2>5. Head(u) = u[1]
      BY <1>1, <2>4, TailOf
    <2>6. QED
      BY <2>2, <2>3, <2>4, <2>5 DEF Pops
  <1>6. QED
    BY <1>1, <1>2, <1>3, <1>4, <1>5 DEF u

\* The order of an undo, with a record to come before a pop.
LEMMA OrderRecord ==
  ASSUME NEW s \in Seq(Items), Pops(s), UndoOrder(s), NEW x \in Items, x.op = "record"
  PROVE  UndoOrder(<<x>> \o s) /\ Head(<<x>> \o s) = x /\ <<x>> \o s # <<>>
         /\ <<x>> \o s \in Seq(Items)
  <1> DEFINE q == <<x>> \o s
             n == Len(s)
  <1>1. /\ n \in Nat /\ q \in Seq(Items) /\ Len(q) = n + 1 /\ q[1] = x
        /\ \A i \in 1..n : q[i + 1] = s[i]
    BY ConsOf
  <1>2. \A i \in 1..n : /\ s[i].op \in Backs \cup Off
                        /\ s[i].op \in {"rename", "move", "record"} => i + 1 \in 1..n /\ s[i + 1].op = "pop"
    BY DEF UndoOrder
  <1>3. s # <<>> /\ s[1].op = "pop" /\ n > 0
    BY TailOf DEF Pops
  <1> HIDE DEF q, n
  <1>4. q # <<>>
    BY <1>1
  <1>5. Head(q) = x
    BY <1>1, <1>4, TailOf
  <1>6. ASSUME NEW i \in 1..Len(q)
        PROVE  /\ q[i].op \in Backs \cup Off
               /\ q[i].op \in {"rename", "move", "record"} => i + 1 \in 1..Len(q) /\ q[i + 1].op = "pop"
    <2>1. CASE i = 1
      <3>1. 1 \in 1..n /\ 1 + 1 \in 1..Len(q)
        BY <1>1, <1>3
      <3>2. q[1 + 1] = s[1]
        BY <1>1, <3>1
      <3>3. QED
        BY <1>1, <1>3, <2>1, <3>1, <3>2 DEF Off
    <2>2. CASE i # 1
      <3>1. PICK j \in 1..n : i = j + 1
        <4>1. i - 1 \in 1..n /\ i = (i - 1) + 1
          BY <1>1, <2>2
        <4>2. QED
          BY <4>1
      <3>2. q[i] = s[j]
        BY <1>1, <3>1
      <3>3. SUFFICES ASSUME s[j].op \in {"rename", "move", "record"}
                     PROVE  i + 1 \in 1..Len(q) /\ q[i + 1].op = "pop"
        BY <1>2, <3>2
      <3>4. j + 1 \in 1..n /\ s[j + 1].op = "pop"
        BY <1>2, <3>3
      <3>5. q[(j + 1) + 1] = s[j + 1] /\ (j + 1) + 1 \in 1..Len(q)
        BY <1>1, <3>4
      <3>6. QED
        BY <3>1, <3>4, <3>5
    <2>3. QED
      BY <2>1, <2>2
  <1>7. UndoOrder(q)
    BY <1>6 DEF UndoOrder
  <1>8. QED
    BY <1>1, <1>4, <1>5, <1>7 DEF q

\* With nothing left to undo, history and tree are in step.
LEMMA UndNothing ==
  ASSUME NEW l, NEW pic \in Pictures, NEW G
  PROVE  Und(l, <<>>, pic, G) <=> InStep(l, pic) /\ pic \in G
  <1>1. UndoOrder(<<>>) /\ ~Pops(<<>>)
    BY DEF UndoOrder, Pops
  <1>2. \A goal : Leads(pic, <<>>, goal) <=> pic = goal
    BY LeadsNowhere
  <1>3. QED
    BY <1>1, <1>2 DEF Und

\* Where a list leads from is a picture.
LEMMA LeadsStart ==
  ASSUME NEW s \in Seq(Items), NEW pic, NEW goal, Leads(pic, s, goal)
  PROVE  pic \in Pictures /\ goal \in Pictures
  <1>1. PICK p : Path(p, s) /\ p[1] = pic /\ p[Len(s) + 1] = goal
    BY DEF Leads
  <1>2. p \in [1..(Len(s) + 1) -> Pictures]
    BY <1>1 DEF Path
  <1> DEFINE n == Len(s)
  <1>3. n \in Nat
    OBVIOUS
  <1> HIDE DEF n
  <1>4. 1 \in 1..(n + 1) /\ n + 1 \in 1..(n + 1)
    BY <1>3
  <1>5. QED
    BY <1>1, <1>2, <1>4 DEF n

\* What was put on last comes off first.
LEMMA FrontOfAppend ==
  ASSUME NEW l \in Seq(Entries), NEW e \in Entries
  PROVE  Append(l, e) \in Seq(Entries) /\ Append(l, e) # <<>> /\ Front(Append(l, e)) = l
  <1> DEFINE q == Append(l, e)
             n == Len(l)
  <1>1. /\ n \in Nat /\ q \in Seq(Entries) /\ Len(q) = n + 1
        /\ \A i \in 1..n : q[i] = l[i]
    BY AppendOf
  <1>2. q # <<>>
    BY <1>1
  <1> HIDE DEF q, n
  <1> DEFINE f == Front(q)
  <1>3. f \in Seq(Entries) /\ Len(f) = Len(q) - 1 /\ \A i \in 1..(Len(q) - 1) : f[i] = q[i]
    BY <1>1, <1>2, FrontOf
  <1> HIDE DEF f
  <1>4. Len(f) = n /\ \A i \in 1..n : f[i] = l[i]
    BY <1>1, <1>3
  <1>5. f = l
    BY <1>3, <1>4, SeqEqual DEF n
  <1>6. QED
    BY <1>1, <1>2, <1>5 DEF q, f

\* A call of an undo.
LEMMA UndSaves ==
  ASSUME NEW l \in Seq(Entries), NEW s \in Seq(Items), s # <<>>, UiOk(s),
         NEW pic, NEW G, Und(l, s, pic, G), Head(s).op \in Backs
  PROVE  /\ Ready(pic, Head(s))
         /\ Head(s).op \in {"rename", "move"} =>
              \A e \in Entries : Und(l, <<Record(e)>> \o Tail(s), PStep(pic, Head(s)), G)
         /\ Head(s).op \notin {"rename", "move"} => Und(l, Tail(s), PStep(pic, Head(s)), G)
  <1> DEFINE u == Tail(s)
             now == PStep(pic, Head(s))
  <1>1. u \in Seq(Items) /\ UndoOrder(u) /\ (Head(s).op \in {"rename", "move", "record"} => Pops(u))
    BY TailOf, OrderOn DEF Und
  <1>2. ~Pops(s)
    BY DEF Pops, Backs
  <1>3. PICK goal \in G : Leads(pic, s, goal) /\ InStep(l, goal)
    BY <1>2 DEF Und
  <1>4. Ready(pic, Head(s)) /\ Leads(now, u, goal)
    BY <1>3, LeadsOn
  <1>5. now \in Pictures
    BY <1>4, <1>1, LeadsStart
  <1> HIDE DEF u, now
  <1>6. ASSUME Head(s).op \in {"rename", "move"}, NEW e \in Entries
        PROVE  Und(l, <<Record(e)>> \o u, now, G)
    <2> DEFINE x == Record(e)
    <2>1. x \in Items /\ x.op = "record"
      BY CallOps DEF Items
    <2> HIDE DEF x
    <2>2. UndoOrder(<<x>> \o u) /\ Head(<<x>> \o u) = x
      BY <1>1, <1>6, <2>1, OrderRecord
    <2>3. ~Pops(<<x>> \o u)
      BY <2>1, <2>2 DEF Pops
    <2>4. PStep(now, x) = now /\ Ready(now, x)
      BY <1>5, <2>1, PStepOff DEF Backs
    <2>5. Leads(now, <<x>> \o u, goal)
      BY <1>1, <1>4, <1>5, <2>1, <2>4, LeadsFrom
    <2>6. QED
      BY <1>3, <2>2, <2>3, <2>5 DEF Und, x
  <1>7. ASSUME Head(s).op \notin {"rename", "move"}
        PROVE  Und(l, u, now, G)
    <2>1. ~Pops(u)
      BY <1>7, PopBehind DEF Popped, Backs, Pops, u
    <2>2. QED
      BY <1>1, <1>3, <1>4, <2>1 DEF Und
  <1>8. QED
    BY <1>4, <1>6, <1>7 DEF u, now

\* The bookkeeping of an undo.
LEMMA UndAppends ==
  ASSUME NEW l \in Seq(Entries), NEW s \in Seq(Items), s # <<>>, UiOk(s),
         NEW pic, NEW G, Und(l, s, pic, G)
  PROVE  /\ Head(s).op = "record" => Und(Append(l, Head(s).entry), Tail(s), pic, G)
         /\ Head(s).op = "pop" => l # <<>> /\ Und(Front(l), Tail(s), pic, G)
         /\ Head(s).op = "finish" => pic \in Pictures /\ Und(l, <<>>, pic, G)
  <1> DEFINE u == Tail(s)
             h == Head(s)
             l2 == IF Pops(s) THEN Front(l) ELSE l
  <1>1. u \in Seq(Items) /\ UndoOrder(u) /\ (h.op \in {"rename", "move", "record"} => Pops(u))
    BY TailOf, OrderOn DEF Und
  <1>2. h \in Items
    BY TailOf
  <1>3. PICK goal \in G : Leads(pic, s, goal) /\ InStep(l2, goal)
    BY DEF Und
  <1>4. pic \in Pictures /\ Leads(PStep(pic, h), u, goal)
    BY <1>3, LeadsOn
  <1>5. ~Pops(s) => l2 = l
    OBVIOUS
  <1>6. Pops(s) => l2 = Front(l) /\ l # <<>>
    BY DEF Und
  <1>7. Pops(s) <=> h.op = "pop"
    BY DEF Pops
  <1>8. h.op \notin Backs => PStep(pic, h) = pic
    BY <1>4, PStepOff
  <1> HIDE DEF u, h, l2
  <1>9. CASE h.op = "record"
    <2> DEFINE e == h.entry
               q == Append(l, e)
    <2>1. e \in Entries
      BY <1>2, <1>9, ItemFields
    <2>2. q \in Seq(Entries) /\ q # <<>> /\ Front(q) = l
      BY <2>1, FrontOfAppend
    <2>3. Leads(pic, u, goal) /\ InStep(l, goal) /\ Pops(u)
      BY <1>1, <1>3, <1>4, <1>5, <1>7, <1>8, <1>9 DEF Backs
    <2> HIDE DEF e, q
    <2>4. Und(q, u, pic, G)
      BY <1>1, <2>2, <2>3 DEF Und
    <2>5. QED
      BY <1>9, <2>4 DEF e, q, h, u
  <1>10. CASE h.op = "pop"
    <2>1. ~Pops(u)
      BY <1>10, PopBehind DEF Popped, Pops, u, h
    <2>2. Leads(pic, u, goal) /\ InStep(Front(l), goal) /\ l # <<>>
      BY <1>3, <1>4, <1>6, <1>7, <1>8, <1>10 DEF Backs
    <2>3. Und(Front(l), u, pic, G)
      BY <1>1, <2>1, <2>2 DEF Und
    <2>4. QED
      BY <1>10, <2>2, <2>3 DEF h, u
  <1>11. CASE h.op = "finish"
    <2>1. u = <<>>
      <3>1. h = s[1] /\ Len(s) \in Nat /\ Len(s) > 0 /\ Len(u) = Len(s) - 1
        BY TailOf DEF u, h
      <3>2. 1 \in 1..Len(s)
        BY <3>1
      <3>3. UiItemOk(s, 1)
        BY <3>2 DEF UiOk
      <3>4. 1 = Len(s)
        BY <1>11, <3>1, <3>3 DEF UiItemOk
      <3>5. Len(u) = 0
        <4> DEFINE n == Len(s)
        <4>1. n = 1 /\ Len(u) = n - 1
          BY <3>1, <3>4
        <4> HIDE DEF n
        <4>2. QED
          BY <4>1
      <3>6. QED
        BY <1>1, <3>5
    <2>2. Leads(pic, u, goal) /\ InStep(l, goal)
      BY <1>3, <1>4, <1>5, <1>7, <1>8, <1>11 DEF Backs
    <2>3. pic = goal
      BY <1>4, <2>1, <2>2, LeadsNowhere
    <2>4. Und(l, <<>>, pic, G)
      BY <1>4, <2>2, <2>3, UndNothing
    <2>5. QED
      BY <1>4, <1>11, <2>4 DEF h
  <1>12. QED
    BY <1>9, <1>10, <1>11 DEF u, h

\* A verb of several calls, before its record.
LEMMA KeptSaves ==
  ASSUME NEW l \in Seq(Entries), NEW s \in Seq(Items), UiOk(s),
         NEW pic, NEW G, Kept(l, s, pic, G), Head(s).op # "record"
  PROVE  /\ s # <<>> /\ Head(s).op \in {"insert", "reparent"} /\ Ready(pic, Head(s))
         /\ Kept(l, Tail(s), PStep(pic, Head(s)), G)
  <1> DEFINE u == Tail(s)
             n == Len(s)
             h == Head(s)
  <1>1. PICK k \in 1..n :
          /\ s[k].op = "record" /\ n = k + 1 /\ s[k + 1].op = "finish"
          /\ s[k].entry.after \in G
          /\ InStep(Append(l, s[k].entry), s[k].entry.after) /\ Leads(pic, s, s[k].entry.after)
    BY DEF Kept
  <1>2. n \in Nat /\ n > 0 /\ s # <<>>
    BY <1>1
  <1>3. /\ h = s[1] /\ u \in Seq(Items) /\ Len(u) = n - 1
        /\ \A i \in 1..(n - 1) : u[i] = s[i + 1]
    BY <1>2, TailOf
  <1>4. UiItemOk(s, k)
    BY <1>1 DEF UiOk
  <1>5. k # 1
    BY <1>1, <1>3
  <1>6. h.op \in {"insert", "reparent"}
    <2>1. 1 \in 1..(k - 1)
      BY <1>1, <1>2, <1>5
    <2>2. QED
      BY <1>1, <1>3, <1>4, <2>1 DEF UiItemOk
  <1>7. Ready(pic, h) /\ Leads(PStep(pic, h), u, s[k].entry.after)
    BY <1>1, <1>2, LeadsOn
  <1> HIDE DEF u, n, h
  <1>8. Kept(l, u, PStep(pic, h), G)
    <2> DEFINE j == k - 1
    <2>1. j \in 1..(n - 1) /\ j + 1 = k /\ n - 1 = j + 1 /\ j + 1 \in 1..(n - 1)
      BY <1>1, <1>2, <1>5
    <2> HIDE DEF j
    <2>2. u[j] = s[k] /\ u[j + 1] = s[k + 1]
      <3>1. u[j] = s[j + 1] /\ u[j + 1] = s[(j + 1) + 1]
        BY <1>3, <2>1
      <3>2. QED
        BY <2>1, <3>1
    <2>3. j \in 1..Len(u) /\ Len(u) = j + 1
      BY <1>3, <2>1
    <2>4. QED
      BY <1>1, <1>7, <2>2, <2>3 DEF Kept
  <1>9. QED
    BY <1>2, <1>6, <1>7, <1>8 DEF u, h

\* The record of a verb.
LEMMA KeptAppends ==
  ASSUME NEW l \in Seq(Entries), NEW s \in Seq(Items), UiOk(s),
         NEW pic, NEW G, Kept(l, s, pic, G), Head(s).op = "record"
  PROVE  Und(Append(l, Head(s).entry), Tail(s), pic, G)
  <1> DEFINE u == Tail(s)
             n == Len(s)
             h == Head(s)
  <1>1. PICK k \in 1..n :
          /\ s[k].op = "record" /\ n = k + 1 /\ s[k + 1].op = "finish"
          /\ s[k].entry.after \in G
          /\ InStep(Append(l, s[k].entry), s[k].entry.after) /\ Leads(pic, s, s[k].entry.after)
    BY DEF Kept
  <1>2. n \in Nat /\ n > 0 /\ s # <<>>
    BY <1>1
  <1>3. /\ h = s[1] /\ u \in Seq(Items) /\ Len(u) = n - 1
        /\ \A i \in 1..(n - 1) : u[i] = s[i + 1]
    BY <1>2, TailOf
  <1>4. UiItemOk(s, k)
    BY <1>1 DEF UiOk
  <1>5. k = 1
    <2>1. CASE k # 1
      <3>1. 1 \in 1..(k - 1)
        BY <1>1, <1>2, <2>1
      <3>2. QED
        BY <1>1, <1>3, <1>4, <3>1 DEF UiItemOk
    <2>2. QED
      BY <2>1
  <1>6. Ready(pic, h) /\ Leads(PStep(pic, h), u, s[k].entry.after) /\ pic \in Pictures
    BY <1>1, <1>2, LeadsOn
  <1> HIDE DEF u, n, h
  <1>7. Leads(pic, u, h.entry.after)
    BY <1>3, <1>5, <1>6, PStepOff DEF Backs
  <1>8. Len(u) = 1 /\ u[1].op = "finish"
    <2>1. n = 2 /\ 1 \in 1..(n - 1) /\ s[1 + 1].op = "finish"
      BY <1>1, <1>5
    <2>2. u[1] = s[1 + 1]
      BY <1>3, <2>1
    <2>3. QED
      BY <1>3, <2>1, <2>2
  <1>9. u # <<>> /\ Head(u) = u[1]
    <2>1. u # <<>>
      <3>1. Len(<<>>) # 1
        OBVIOUS
      <3>2. QED
        BY <1>8, <3>1, Zenon
    <2>2. QED
      BY <1>3, <2>1, TailOf
  <1>10. UndoOrder(u) /\ ~Pops(u)
    BY <1>8, <1>9 DEF UndoOrder, Pops, Off
  <1>11. InStep(Append(l, h.entry), h.entry.after) /\ h.entry.after \in G
    BY <1>1, <1>3, <1>5
  <1>12. Und(Append(l, h.entry), u, pic, G)
    BY <1>7, <1>10, <1>11 DEF Und
  <1>13. QED
    BY <1>12 DEF u, h

\* A verb of one call, once it has saved.
LEMMA FwdSaves ==
  ASSUME NEW l \in Seq(Entries), NEW s \in Seq(Items), NEW pic, NEW G, Fwd(l, s, pic),
         NEW e \in Entries, e.before = pic, Undoable(e), e.after \in G, e.after \in Pictures
  PROVE  Kept(l, <<Record(e)>> \o Tail(s), e.after, G)
  <1> DEFINE x == Record(e)
             u == Tail(s)
             b == e.after
  <1>1. Len(s) = 2 /\ s[2].op = "finish" /\ InStep(l, pic) /\ s # <<>>
    <2>1. Len(s) = 2 /\ s[2].op = "finish" /\ InStep(l, pic)
      BY DEF Fwd
    <2>2. s # <<>>
      <3>1. Len(<<>>) # 2
        OBVIOUS
      <3>2. QED
        BY <2>1, <3>1, Zenon
    <2>3. QED
      BY <2>1, <2>2
  <1>2. u \in Seq(Items) /\ Len(u) = 1 /\ u[1].op = "finish"
    <2>1. u \in Seq(Items) /\ Len(u) = Len(s) - 1 /\ \A i \in 1..(Len(s) - 1) : u[i] = s[i + 1]
      BY <1>1, TailOf
    <2> HIDE DEF u
    <2>2. 1 \in 1..(Len(s) - 1) /\ 1 + 1 = 2 /\ Len(s) - 1 = 1
      BY <1>1
    <2>3. u[1] = s[1 + 1]
      BY <2>1, <2>2
    <2>4. QED
      BY <1>1, <2>1, <2>2, <2>3
  <1>3. x \in Items /\ x.op = "record" /\ x.entry = e
    BY CallOps DEF Items, Record
  <1>4. InStep(Append(l, e), b)
    BY <1>1, InStepAppend
  <1> HIDE DEF x, u, b
  <1> DEFINE q == <<x>> \o u
  <1>5. q \in Seq(Items) /\ Len(q) = 1 + 1 /\ q[1] = x /\ q[1 + 1] = u[1]
    <2>1. /\ q \in Seq(Items) /\ Len(q) = Len(u) + 1 /\ q[1] = x
          /\ \A i \in 1..Len(u) : q[i + 1] = u[i]
      BY <1>2, <1>3, ConsOf
    <2>2. 1 \in 1..Len(u) /\ Len(u) + 1 = 1 + 1
      BY <1>2
    <2>3. QED
      BY <2>1, <2>2
  <1>6. Leads(b, q, b)
    <2>1. u[1] \in Items /\ u[1].op \notin Backs
      <3>1. u # <<>>
        <4>1. Len(<<>>) # 1
          OBVIOUS
        <4>2. QED
          BY <1>2, <4>1, Zenon
      <3>2. QED
        BY <1>2, <3>1, TailOf DEF Backs
    <2>2. u = <<u[1]>>
      BY <1>2
    <2> DEFINE y == u[1]
    <2>3. y \in Items /\ y.op \notin Backs
      BY <2>1
    <2>4. <<x>> \o <<y>> = <<x, y>>
      <3> HIDE DEF y
      <3>1. QED
        BY <1>3, <2>3, ConsFew
    <2>5. q = <<x, y>>
      BY <2>2, <2>4
    <2> HIDE DEF y, q
    <2>6. b \in Pictures
      BY DEF b
    <2>7. PStep(b, x) = b /\ Ready(b, x)
      BY <1>3, <2>6, PStepOff DEF Backs
    <2>8. Leads(b, <<x, y>>, b)
      BY <1>3, <2>3, <2>6, <2>7, LeadsTwo
    <2>9. QED
      BY <2>5, <2>8
  <1> HIDE DEF q
  <1>7. 1 \in 1..Len(q)
    BY <1>5
  <1>8. Kept(l, q, b, G)
    <2>1. /\ q[1].op = "record" /\ q[1 + 1].op = "finish" /\ q[1].entry = e
          /\ Len(q) = 1 + 1
      BY <1>2, <1>3, <1>5
    <2>2. q[1].entry.after = b
      BY <2>1 DEF b
    <2>3. b \in G
      BY DEF b
    <2>4. QED
      BY <1>4, <1>6, <1>7, <2>1, <2>2, <2>3 DEF Kept
  <1>9. QED
    BY <1>8 DEF q, x, u, b

\* Behind a list, one more.
LEMMA OneBehind ==
  ASSUME NEW s \in Seq(Items), NEW x \in Items
  PROVE  s \o <<x>> = Append(s, x)
  <1> DEFINE q == s \o <<x>>
             r == Append(s, x)
             n == Len(s)
  <1>1. <<x>> \in Seq(Items) /\ Len(<<x>>) = 1 /\ <<x>>[1] = x
    OBVIOUS
  <1>2. /\ q \in Seq(Items) /\ Len(q) = n + 1 /\ \A i \in 1..n : q[i] = s[i]
        /\ \A i \in 1..1 : q[n + i] = <<x>>[i]
    BY <1>1, ConcatOf
  <1>3. n \in Nat /\ r \in Seq(Items) /\ Len(r) = n + 1 /\ r[n + 1] = x /\ \A i \in 1..n : r[i] = s[i]
    BY AppendOf
  <1>4. q[n + 1] = x
    <2>1. 1 \in 1..1
      OBVIOUS
    <2>2. QED
      BY <1>1, <1>2, <2>1
  <1> HIDE DEF q, r, n
  <1>5. \A i \in 1..Len(q) : q[i] = r[i]
    <2>1. TAKE i \in 1..Len(q)
    <2>2. i \in 1..n \/ i = n + 1
      BY <1>2, <1>3
    <2>3. QED
      BY <1>2, <1>3, <1>4, <2>2
  <1>6. QED
    BY <1>2, <1>3, <1>5, SeqEqual DEF q, r

\* The beginning of an undo.
LEMMA UndoBegins ==
  ASSUME NEW l \in Seq(Entries), l # <<>>, NEW pic, NEW G, InStep(l, pic),
         NEW e, e = Last(l), EntryOk(e), e.undo \in Seq(Items), e.before \in G,
         NEW f \in Items, f.op = "finish"
  PROVE  Und(Front(l), e.undo \o <<f>>, pic, G)
  <1> DEFINE s == e.undo
             q == Append(s, f)
             n == Len(s)
  <1>1. InStep(Front(l), e.before) /\ Leads(pic, s, e.before) /\ EachPopped(s)
    BY InStepFront DEF Undoable
  <1>2. /\ n \in Nat /\ q \in Seq(Items) /\ Len(q) = n + 1 /\ q[n + 1] = f
        /\ \A i \in 1..n : q[i] = s[i]
    BY AppendOf
  <1>3. Leads(pic, q, e.before)
    <2>1. s \in Seq(Items) /\ f.op \notin Backs /\ Leads(pic, s, e.before)
      BY <1>1 DEF Backs
    <2> HIDE DEF s
    <2>2. QED
      BY <2>1, LeadsThen DEF q
  <1>4. /\ \A i \in 1..n : s[i].op \in {"rename", "move", "pop", "insert", "reparent", "remove"}
        /\ n > 0 => s[1].op # "pop"
    BY DEF EntryOk
  <1>5. \A i \in 1..n : s[i].op \in {"rename", "move"} => i + 1 \in 1..n /\ s[i + 1].op = "pop"
    BY <1>1 DEF EachPopped
  <1>6. s \o <<f>> = q
    BY OneBehind
  <1> HIDE DEF s, q, n
  <1>7. UndoOrder(q)
    <2>1. ASSUME NEW i \in 1..Len(q)
          PROVE  /\ q[i].op \in Backs \cup Off
                 /\ q[i].op \in {"rename", "move", "record"} => i + 1 \in 1..Len(q) /\ q[i + 1].op = "pop"
      <3>1. CASE i = n + 1
        BY <1>2, <3>1 DEF Off
      <3>2. CASE i # n + 1
        <4>1. i \in 1..n /\ q[i] = s[i]
          BY <1>2, <3>2
        <4>2. q[i].op \in Backs \cup Off /\ q[i].op # "record"
          BY <1>4, <4>1 DEF Backs, Off
        <4>3. SUFFICES ASSUME s[i].op \in {"rename", "move"}
                       PROVE  i + 1 \in 1..Len(q) /\ q[i + 1].op = "pop"
          BY <4>1, <4>2
        <4>4. i + 1 \in 1..n /\ s[i + 1].op = "pop"
          BY <1>5, <4>1, <4>3
        <4>5. QED
          BY <1>2, <4>4
      <3>3. QED
        BY <3>1, <3>2
    <2>2. QED
      BY <2>1 DEF UndoOrder
  <1>8. ~Pops(q)
    <2>1. SUFFICES ASSUME q # <<>> PROVE Head(q).op # "pop"
      BY DEF Pops
    <2>2. Head(q) = q[1]
      BY <1>2, <2>1, TailOf
    <2>3. CASE n = 0
      BY <1>2, <2>2, <2>3
    <2>4. CASE n > 0
      <3>1. 1 \in 1..n
        BY <1>2, <2>4
      <3>2. QED
        BY <1>2, <1>4, <2>2, <2>4, <3>1
    <2>5. QED
      BY <1>2, <2>3, <2>4
  <1>9. Und(Front(l), q, pic, G)
    BY <1>1, <1>3, <1>7, <1>8 DEF Und
  <1>10. QED
    BY <1>6, <1>9 DEF s

\* With the new clusters there, and the leaves still where they were.
Between(a, n, S) == [m \in Node |-> IF m \in S THEN <<"cluster", n, "Cluster N">> ELSE a[m]]

\* Two pictures with the same rows.
LEMMA SamePicture ==
  ASSUME NEW a \in Pictures, NEW b, DOMAIN b = Node, b = [m \in Node |-> b[m]],
         \A m \in Node : a[m] = b[m]
  PROVE  a = b
  BY DEF Pictures

\* Undoing a split.
LEMMA SplitBack ==
  ASSUME NEW a, NEW b, NEW n, NEW A, NEW B, NEW g, NEW h, SplitPics(a, b, n, A, B, g, h),
         NEW x \in Items, NEW y \in Items, NEW z \in Items,
         x.op = "reparent", DOMAIN x.moves = A \cup B, \A m \in A \cup B : x.moves[m] = n,
         y.op = "remove", y.at = g, z.op = "remove", z.at = h
  PROVE  Leads(b, <<x, y, z>>, a)
  <1> DEFINE p == Between(a, n, {g, h})
             q == Between(a, n, {h})
  <1>1. /\ a \in Pictures /\ b \in Pictures /\ g \in Node /\ h \in Node /\ g # h /\ n \in Node
        /\ A \subseteq Node /\ B \subseteq Node /\ A \cap B = {}
        /\ a[g] = None /\ a[h] = None /\ g \notin A \cup B /\ h \notin A \cup B
    BY DEF SplitPics
  <1>2. /\ \A m \in A \cup B : a[m] = <<a[m][1], n, a[m][3]>> /\ a[m] # None
        /\ \A m \in Node : b[m] =
             IF m \in {g, h} THEN <<"cluster", n, "Cluster N">>
             ELSE IF m \in A THEN <<a[m][1], g, a[m][3]>>
             ELSE IF m \in B THEN <<a[m][1], h, a[m][3]>> ELSE a[m]
    BY DEF SplitPics
  <1>3. p \in Pictures /\ \A m \in Node : p[m] = IF m \in {g, h} THEN <<"cluster", n, "Cluster N">> ELSE a[m]
    <2>1. <<"cluster", n, "Cluster N">> \in PicRow
      BY <1>1, RowNotNone DEF Kind, Text
    <2>2. QED
      BY <1>1, <2>1 DEF Between, Pictures, p
  <1>10. q \in Pictures /\ \A m \in Node : q[m] = IF m \in {h} THEN <<"cluster", n, "Cluster N">> ELSE a[m]
    <2>1. <<"cluster", n, "Cluster N">> \in PicRow
      BY <1>1, RowNotNone DEF Kind, Text
    <2>2. QED
      BY <1>1, <2>1 DEF Between, Pictures, p
  <1> HIDE DEF p, q
  <1>11. p \in Pictures /\ q \in Pictures
    BY <1>3, <1>10
  <1>4. p = PStep(b, x)
    <2> DEFINE r == PStep(b, x)
    <2>1. \A m \in Node : r[m] = IF m \in DOMAIN x.moves /\ b[m] # None THEN <<b[m][1], x.moves[m], b[m][3]>> ELSE b[m]
      BY DEF PStep
    <2>2. DOMAIN r = Node /\ r = [m \in Node |-> r[m]]
      BY DEF PStep
    <2> HIDE DEF r
    <2>3. ASSUME NEW m \in Node
          PROVE  p[m] = r[m]
      <3>1. CASE m \in A \cup B
        <4>6. m \in Node /\ m \notin {g, h}
          BY <1>1, <3>1
        <4>1. m \notin {g, h} /\ b[m][1] = a[m][1] /\ b[m][3] = a[m][3]
          <5>1. m \in A => b[m] = <<a[m][1], g, a[m][3]>>
            BY <1>2, <4>6
          <5>2. m \notin A => b[m] = <<a[m][1], h, a[m][3]>>
            BY <1>2, <3>1, <4>6
          <5>3. QED
            BY <4>6, <5>1, <5>2
        <4>2. b[m] # None
          <5>1. a[m][1] \in Kind /\ a[m][3] \in Text
            BY <1>1, <1>2, <3>1, PicRows
          <5>2. b[m] = <<a[m][1], g, a[m][3]>> \/ b[m] = <<a[m][1], h, a[m][3]>>
            BY <1>2, <3>1, <4>1
          <5>3. QED
            BY <1>1, <5>1, <5>2, RowNotNone
        <4>3. r[m] = <<a[m][1], n, a[m][3]>>
          BY <2>1, <3>1, <4>1, <4>2
        <4>4. p[m] = a[m]
          BY <1>3, <4>1
        <4>5. QED
          BY <1>2, <3>1, <4>3, <4>4
      <3>2. CASE m \notin A \cup B
        BY <1>2, <1>3, <2>1, <3>2
      <3>3. QED
        BY <3>1, <3>2
    <2>4. p = r
      BY <1>11, <2>2, <2>3, SamePicture
    <2>5. QED
      BY <2>4 DEF r
  <1>5. q = PStep(p, y)
    <2> DEFINE r == PStep(p, y)
    <2>1. \A m \in Node : r[m] = IF m = y.at THEN None ELSE p[m]
      BY DEF PStep
    <2>2. DOMAIN r = Node /\ r = [m \in Node |-> r[m]]
      BY DEF PStep
    <2> HIDE DEF r
    <2>3. \A m \in Node : q[m] = r[m]
      BY <1>1, <1>3, <1>10, <2>1
    <2>4. q = r
      BY <1>11, <2>2, <2>3, SamePicture
    <2>5. QED
      BY <2>4 DEF r
  <1>6. a = PStep(q, z)
    <2> DEFINE r == PStep(q, z)
    <2>1. \A m \in Node : r[m] = IF m = z.at THEN None ELSE q[m]
      BY DEF PStep
    <2>2. DOMAIN r = Node /\ r = [m \in Node |-> r[m]]
      BY DEF PStep
    <2> HIDE DEF r
    <2>3. \A m \in Node : a[m] = r[m]
      BY <1>1, <1>3, <1>10, <2>1
    <2>4. a = r
      BY <1>1, <2>2, <2>3, SamePicture
    <2>5. QED
      BY <2>4 DEF r
  <1>7. Ready(b, x) /\ Ready(p, y) /\ Ready(q, z)
    BY DEF Ready
  <1>8. QED
    BY <1>1, <1>3, <1>4, <1>5, <1>6, <1>7, <1>10, LeadsThree

\* Splitting.
LEMMA SplitForth ==
  ASSUME NEW a, NEW b, NEW n, NEW A, NEW B, NEW g, NEW h, SplitPics(a, b, n, A, B, g, h),
         NEW x \in Items, NEW y \in Items, NEW z \in Items,
         x.op = "insert", x.at = g, x.row = Fresh(n), y.op = "insert", y.at = h, y.row = Fresh(n),
         z.op = "reparent", DOMAIN z.moves = A \cup B,
         \A m \in A : z.moves[m] = g, \A m \in B : z.moves[m] = h
  PROVE  Leads(a, <<x, y, z>>, b)
  <1> DEFINE p == Between(a, n, {g})
             q == Between(a, n, {g, h})
  <1>1. /\ a \in Pictures /\ b \in Pictures /\ g \in Node /\ h \in Node /\ g # h /\ n \in Node
        /\ A \subseteq Node /\ B \subseteq Node /\ A \cap B = {}
        /\ a[g] = None /\ a[h] = None /\ g \notin A \cup B /\ h \notin A \cup B
    BY DEF SplitPics
  <1>2. /\ \A m \in A \cup B : a[m] = <<a[m][1], n, a[m][3]>> /\ a[m] # None
        /\ \A m \in Node : b[m] =
             IF m \in {g, h} THEN <<"cluster", n, "Cluster N">>
             ELSE IF m \in A THEN <<a[m][1], g, a[m][3]>>
             ELSE IF m \in B THEN <<a[m][1], h, a[m][3]>> ELSE a[m]
    BY DEF SplitPics
  <1>3. q \in Pictures /\ \A m \in Node : q[m] = IF m \in {g, h} THEN <<"cluster", n, "Cluster N">> ELSE a[m]
    <2>1. <<"cluster", n, "Cluster N">> \in PicRow
      BY <1>1, RowNotNone DEF Kind, Text
    <2>2. QED
      BY <1>1, <2>1 DEF Between, Pictures, p
  <1>10. p \in Pictures /\ \A m \in Node : p[m] = IF m \in {g} THEN <<"cluster", n, "Cluster N">> ELSE a[m]
    <2>1. <<"cluster", n, "Cluster N">> \in PicRow
      BY <1>1, RowNotNone DEF Kind, Text
    <2>2. QED
      BY <1>1, <2>1 DEF Between, Pictures, p
  <1> HIDE DEF p, q
  <1>11. p \in Pictures /\ q \in Pictures
    BY <1>3, <1>10
  <1>9. Fresh(n).kind = "cluster" /\ Fresh(n).parent = n /\ Fresh(n).text = "Cluster N"
    BY DEF Fresh
  <1>12. /\ x.at = g /\ x.row.kind = "cluster" /\ x.row.parent = n /\ x.row.text = "Cluster N"
         /\ y.at = h /\ y.row.kind = "cluster" /\ y.row.parent = n /\ y.row.text = "Cluster N"
    BY <1>9
  <1>4. p = PStep(a, x)
    <2> DEFINE r == PStep(a, x)
    <2>1. \A m \in Node : r[m] = IF m = x.at THEN <<x.row.kind, x.row.parent, x.row.text>> ELSE a[m]
      BY DEF PStep
    <2>2. DOMAIN r = Node /\ r = [m \in Node |-> r[m]]
      BY DEF PStep
    <2> HIDE DEF r
    <2>3. \A m \in Node : p[m] = r[m]
      BY <1>10, <1>12, <2>1
    <2>4. p = r
      BY <1>11, <2>2, <2>3, SamePicture
    <2>5. QED
      BY <2>4 DEF r
  <1>5. q = PStep(p, y)
    <2> DEFINE r == PStep(p, y)
    <2>1. \A m \in Node : r[m] = IF m = y.at THEN <<y.row.kind, y.row.parent, y.row.text>> ELSE p[m]
      BY DEF PStep
    <2>2. DOMAIN r = Node /\ r = [m \in Node |-> r[m]]
      BY DEF PStep
    <2> HIDE DEF r
    <2>3. ASSUME NEW m \in Node
          PROVE  q[m] = r[m]
      <3>1. r[m] = IF m = h THEN <<"cluster", n, "Cluster N">> ELSE p[m]
        BY <1>12, <2>1
      <3>2. CASE m = h
        BY <1>3, <3>1, <3>2
      <3>3. CASE m # h
        BY <1>3, <1>10, <3>1, <3>3
      <3>4. QED
        BY <3>2, <3>3
    <2>4. q = r
      BY <1>11, <2>2, <2>3, SamePicture
    <2>5. QED
      BY <2>4 DEF r
  <1>6. b = PStep(q, z)
    <2> DEFINE r == PStep(q, z)
    <2>1. \A m \in Node : r[m] = IF m \in DOMAIN z.moves /\ q[m] # None THEN <<q[m][1], z.moves[m], q[m][3]>> ELSE q[m]
      BY DEF PStep
    <2>2. DOMAIN r = Node /\ r = [m \in Node |-> r[m]]
      BY DEF PStep
    <2> HIDE DEF r
    <2>3. ASSUME NEW m \in Node
          PROVE  b[m] = r[m]
      <3>1. CASE m \in A \cup B
        <4>1. m \notin {g, h} /\ q[m] = a[m] /\ a[m] # None
          BY <1>1, <1>2, <1>3, <3>1
        <4>2. r[m] = <<a[m][1], z.moves[m], a[m][3]>>
          BY <2>1, <3>1, <4>1
        <4>3. CASE m \in A
          BY <1>2, <4>1, <4>2, <4>3
        <4>4. CASE m \in B /\ m \notin A
          BY <1>2, <4>1, <4>2, <4>4
        <4>5. QED
          BY <3>1, <4>3, <4>4
      <3>2. CASE m \notin A \cup B
        BY <1>2, <1>3, <2>1, <3>2
      <3>3. QED
        BY <3>1, <3>2
    <2>4. b = r
      BY <1>1, <2>2, <2>3, SamePicture
    <2>5. QED
      BY <2>4 DEF r
  <1>7. Ready(a, x) /\ Ready(p, y) /\ Ready(q, z)
    BY DEF Ready
  <1>8. QED
    BY <1>1, <1>3, <1>4, <1>5, <1>6, <1>7, <1>10, LeadsThree

\* A split's entry can be undone, and its calls lead to the picture it ends in.
LEMMA SplitLeads ==
  ASSUME TypeOK, NEW n, NEW A, NEW B, SplitAsks(n, A, B), SplitWrong(n, A, B) = {},
         NEW e, e = SplitEntry(n, A, B), NEW l \in Seq(Entries), InStep(l, e.before),
         NEW G, e.after \in G
  PROVE  Kept(l, SplitPlan(n, A, B), e.before, G)
  <1> DEFINE g == Halves[n][1]
             h == Halves[n][2]
             a == Picture(tree)
             b == Picture(SplitTree(n, A, B))
             mo == SplitMoves(n, A, B)
             mb == ToOne(A \cup B, n)
  <1>1. SplitPics(a, b, n, A, B, g, h)
    <2> HIDE DEF g, h, a, b
    <2>2. g = Halves[n][1] /\ h = Halves[n][2] /\ a = Picture(tree) /\ b = Picture(SplitTree(n, A, B))
      BY DEF g, h, a, b
    <2>3. QED
      BY <2>2, SplitPictures
  <1>2. /\ n \in Node /\ g \in Node /\ h \in Node /\ A \subseteq Node /\ B \subseteq Node /\ A \cap B = {}
    BY <1>1 DEF SplitPics
  <1>3. /\ Fresh(n) \in Row /\ e \in Entries
    BY SplitTypes
  <1>4. /\ mo \in [A \cup B -> Node \cup {None}] /\ DOMAIN mo = A \cup B
        /\ \A m \in A : mo[m] = g
        /\ \A m \in B : mo[m] = h
    <2>1. \A m \in B : m \notin A
      BY <1>2
    <2>2. QED
      BY <1>2, <2>1 DEF SplitMoves
  <1>5. /\ mb \in [A \cup B -> Node \cup {None}] /\ DOMAIN mb = A \cup B
        /\ \A m \in A \cup B : mb[m] = n
    BY <1>2 DEF ToOne
  <1> DEFINE b1 == Reparent(mb)
             b2 == Delete(g)
             b3 == Delete(h)
             f1 == Insert(g, Fresh(n))
             f2 == Insert(h, Fresh(n))
             f3 == Reparent(mo)
             rec == Record(e)
             fin == Finish(<<>>)
  <1>6. e.undo = <<b1, b2, b3>> /\ e.before = a /\ e.after = b
    BY DEF SplitEntry
  <1>7. SplitPlan(n, A, B) = <<f1, f2, f3, rec, fin>>
    BY DEF SplitPlan
  <1> HIDE DEF g, h, a, b, mo, mb
  <1>8. /\ b1.op = "reparent" /\ b1.moves = mb /\ b2.op = "remove" /\ b2.at = g /\ b3.op = "remove" /\ b3.at = h
        /\ f1.op = "insert" /\ f1.at = g /\ f1.row = Fresh(n)
        /\ f2.op = "insert" /\ f2.at = h /\ f2.row = Fresh(n)
        /\ f3.op = "reparent" /\ f3.moves = mo
        /\ rec.op = "record" /\ rec.entry = e /\ fin.op = "finish"
    BY DEF Reparent, Delete, Insert, Record, Finish
  <1>9. mo \in MoveMap /\ mb \in MoveMap
    <2>1. A \cup B \in SUBSET Node
      BY <1>2
    <2>2. QED
      BY <1>4, <1>5, <2>1 DEF MoveMap
  <1>10. /\ b1 \in Items /\ b2 \in Items /\ b3 \in Items
         /\ f1 \in Items /\ f2 \in Items /\ f3 \in Items
    <2>1. /\ b1 \in AnyCall /\ b2 \in AnyCall /\ b3 \in AnyCall
          /\ f1 \in AnyCall /\ f2 \in AnyCall /\ f3 \in AnyCall
      BY <1>2, <1>3, <1>9 DEF AnyCall
    <2> HIDE DEF b1, b2, b3, f1, f2, f3
    <2>2. QED
      BY <2>1 DEF Items
  <1>11. rec \in Items /\ fin \in Items
    BY <1>3, FinishNothing DEF Items
  <1> HIDE DEF b1, b2, b3, f1, f2, f3, rec, fin
  <1>12. Leads(b, <<b1, b2, b3>>, a)
    BY <1>1, <1>5, <1>8, <1>10, SplitBack
  <1>13. Leads(a, <<f1, f2, f3>>, b)
    BY <1>1, <1>4, <1>8, <1>10, SplitForth
  <1>14. Undoable(e)
    <2> DEFINE s == <<b1, b2, b3>>
    <2>1. \A i \in 1..Len(s) : s[i].op \notin {"rename", "move"}
      BY <1>8
    <2>2. EachPopped(s)
      <3> HIDE DEF s
      <3>1. QED
        BY <2>1 DEF EachPopped
    <2>3. QED
      BY <1>6, <1>12, <2>2 DEF Undoable
  <1>15. InStep(Append(l, e), b)
    <2>1. InStep(Append(l, e), e.after)
      BY <1>3, <1>14, InStepAppend
    <2>2. QED
      BY <1>6, <2>1
  <1> DEFINE s3 == <<f1, f2, f3>>
             s4 == Append(s3, rec)
             s5 == Append(s4, fin)
             q == <<f1, f2, f3, rec, fin>>
  <1>16. s3 \in Seq(Items) /\ s4 \in Seq(Items)
    BY <1>10, <1>11
  <1>17. s5 = q
    <2>1. Len(s3) = 3 /\ s3[1] = f1 /\ s3[2] = f2 /\ s3[3] = f3
      OBVIOUS
    <2>2. q \in Seq(Items) /\ Len(q) = 5 /\ q[1] = f1 /\ q[2] = f2 /\ q[3] = f3 /\ q[4] = rec /\ q[5] = fin
      BY <1>10, <1>11
    <2> HIDE DEF s3, q
    <2>3. Len(s4) = 4 /\ s4[4] = rec /\ \A i \in 1..3 : s4[i] = s3[i]
      <3>1. /\ Len(s4) = Len(s3) + 1 /\ s4[Len(s3) + 1] = rec
            /\ \A i \in 1..Len(s3) : s4[i] = s3[i]
        BY <1>11, <1>16, AppendOf
      <3> HIDE DEF s4
      <3>2. QED
        BY <2>1, <3>1
    <2> HIDE DEF s4
    <2>4. s5 \in Seq(Items) /\ Len(s5) = 5 /\ s5[5] = fin /\ \A i \in 1..4 : s5[i] = s4[i]
      <3>1. /\ s5 \in Seq(Items) /\ Len(s5) = Len(s4) + 1 /\ s5[Len(s4) + 1] = fin
            /\ \A i \in 1..Len(s4) : s5[i] = s4[i]
        BY <1>11, <1>16, AppendOf
      <3> HIDE DEF s5
      <3>2. QED
        BY <2>3, <3>1
    <2> HIDE DEF s5
    <2>5. \A i \in 1..5 : s5[i] = q[i]
      <3>1. \A i \in 1..5 : i = 1 \/ i = 2 \/ i = 3 \/ i = 4 \/ i = 5
        OBVIOUS
      <3>2. s5[1] = q[1] /\ s5[2] = q[2] /\ s5[3] = q[3] /\ s5[4] = q[4] /\ s5[5] = q[5]
        BY <2>1, <2>2, <2>3, <2>4
      <3>3. QED
        BY <3>1, <3>2
    <2>6. QED
      BY <2>2, <2>4, <2>5, SeqEqual
  <1>18. Leads(a, q, b)
    <2> HIDE DEF q
    <2>1. Leads(a, s4, b)
      <3> HIDE DEF s3
      <3>1. Leads(a, s3, b)
        BY <1>13 DEF s3
      <3>2. QED
        BY <1>8, <1>11, <1>16, <3>1, LeadsThen DEF Backs
    <2> HIDE DEF s4
    <2>2. Leads(a, s5, b)
      BY <1>8, <1>11, <1>16, <2>1, LeadsThen DEF Backs
    <2>3. QED
      BY <1>17, <2>2
  <1>19. Len(q) = 4 + 1 /\ q[4] = rec /\ q[4 + 1] = fin /\ 4 \in 1..Len(q)
    OBVIOUS
  <1> HIDE DEF s3, s4, s5, q
  <1>20. Kept(l, q, a, G)
    <2>1. q[4].op = "record" /\ q[4 + 1].op = "finish" /\ q[4].entry = e /\ q[4].entry.after = b
      BY <1>6, <1>8, <1>19
    <2>2. b \in G
      BY <1>6
    <2>3. QED
      BY <1>15, <1>18, <1>19, <2>1, <2>2 DEF Kept
  <1>21. QED
    BY <1>6, <1>7, <1>20 DEF q

\* Only the first thing the naming task has to do may be a record.
Rec(s) == s # <<>> /\ Head(s).op = "record"
LateOk(s) == \A i \in 2..Len(s) : s[i].op # "record"

\* The history is in step with what the lists of both writers lead to.
InPlay(l, s, lt, pic, G) ==
  \/ ~Rec(lt) /\ (Kept(l, s, pic, G) \/ Und(l, s, pic, G) \/ Fwd(l, s, pic))
  \/ s = <<>> /\ Rec(lt) /\ pic \in G /\ InStep(Append(l, Head(lt).entry), pic)
Play(G) == InPlay(log, act["ui"].todo, act["llm"].todo, Picture(tree), G)

\* The rest of such a list has none.
LEMMA LateTail ==
  ASSUME NEW s \in Seq(Items), LateOk(s), s # <<>>
  PROVE  LateOk(Tail(s)) /\ ~Rec(Tail(s))
  <1> DEFINE u == Tail(s)
             n == Len(s)
  <1>1. n \in Nat /\ n > 0 /\ u \in Seq(Items) /\ Len(u) = n - 1 /\ \A i \in 1..(n - 1) : u[i] = s[i + 1]
    BY TailOf
  <1>2. \A i \in 2..n : s[i].op # "record"
    BY DEF LateOk
  <1> HIDE DEF u, n
  <1>3. \A i \in 1..(n - 1) : u[i].op # "record"
    <2>1. TAKE i \in 1..(n - 1)
    <2>2. i + 1 \in 2..n
      BY <1>1
    <2>3. QED
      BY <1>1, <1>2, <2>2
  <1>4. LateOk(u)
    <2>1. \A i \in 2..(n - 1) : i \in 1..(n - 1)
      BY <1>1
    <2>2. QED
      BY <1>1, <1>3, <2>1 DEF LateOk
  <1>5. ~Rec(u)
    <2>1. SUFFICES ASSUME u # <<>> PROVE Head(u).op # "record"
      BY DEF Rec
    <2>2. Head(u) = u[1] /\ 1 \in 1..(n - 1)
      BY <1>1, <2>1, TailOf
    <2>3. QED
      BY <1>3, <2>2
  <1>6. QED
    BY <1>4, <1>5 DEF u

\* A record before such a rest.
LEMMA LateRecord ==
  ASSUME NEW s \in Seq(Items), LateOk(s), ~Rec(s), NEW x \in Items
  PROVE  LateOk(<<x>> \o s) /\ <<x>> \o s # <<>> /\ Head(<<x>> \o s) = x
  <1> DEFINE q == <<x>> \o s
             n == Len(s)
  <1>1. n \in Nat /\ q \in Seq(Items) /\ Len(q) = n + 1 /\ q[1] = x /\ \A i \in 1..n : q[i + 1] = s[i]
    BY ConsOf
  <1>2. \A i \in 2..n : s[i].op # "record"
    BY DEF LateOk
  <1>3. n > 0 => s[1].op # "record"
    <2>1. n > 0 => s # <<>>
      OBVIOUS
    <2>2. QED
      BY <2>1, TailOf DEF Rec
  <1> HIDE DEF q, n
  <1>4. LateOk(q)
    <2>1. ASSUME NEW i \in 2..Len(q)
          PROVE  q[i].op # "record"
      <3>1. i - 1 \in 1..n /\ i = (i - 1) + 1
        BY <1>1
      <3>2. q[i] = s[i - 1]
        BY <1>1, <3>1
      <3>3. i - 1 = 1 \/ i - 1 \in 2..n
        BY <1>1, <3>1
      <3>4. i - 1 \in 2..n => s[i - 1].op # "record"
        BY <1>2
      <3>5. i - 1 = 1 => s[i - 1].op # "record"
        <4>1. i - 1 = 1 => n > 0
          BY <1>1, <3>1
        <4>2. QED
          BY <1>3, <4>1
      <3>6. QED
        BY <3>2, <3>3, <3>4, <3>5
    <2>2. QED
      BY <2>1 DEF LateOk
  <1>5. q # <<>>
    BY <1>1
  <1>6. Head(q) = x
    BY <1>1, <1>5, TailOf
  <1>7. QED
    BY <1>4, <1>5, <1>6 DEF q

\* It stays so.
LEMMA LateStep ==
  ASSUME TypeOK, LateOk(act["llm"].todo), [Next]_vars
  PROVE  LateOk(act'["llm"].todo)
  <1>0. "llm" \in Actors /\ "ui" \in Actors /\ Actors = {"ui", "llm"}
    BY DEF Actors
  <1> DEFINE lt == act["llm"].todo
  <1>1. lt \in Seq(Items)
    BY <1>0, TodoOf
  <1>2. CASE act'["llm"] = act["llm"]
    BY <1>2
  <1>3. CASE NameClusters
    <2>1. \A i \in 1..Len(act'["llm"].todo) :
            act'["llm"].todo[i].op = "name" \/ act'["llm"].todo[i] = Finish(<<>>)
      BY <1>3, NamingDoes
    <2> DEFINE r == act'["llm"].todo
    <2>2. Finish(<<>>).op = "finish" /\ r \in Seq(Items)
      BY <1>3, CallOps, NamingDoes
    <2> HIDE DEF r
    <2>3. \A i \in 2..Len(r) : i \in 1..Len(r)
      BY <2>2
    <2>4. \A i \in 2..Len(r) : r[i].op # "record"
      BY <2>1, <2>2, <2>3 DEF r
    <2>5. QED
      BY <2>4 DEF LateOk, r
  <1>4. CASE Load("llm")
    <2>1. act'["llm"] = [todo |-> lt, doc |-> tree]
      BY <1>0, <1>4, LoadDoes
    <2>2. act'["llm"].todo = lt
      BY <2>1
    <2>3. QED
      BY <2>2
  <1>5. CASE Fail("llm") \/ AppendHistory("llm")
    <2>1. lt # <<>>
      BY <1>5 DEF Fail, AppendHistory, Calls, Waits
    <2>2. CASE Fail("llm")
      <3>1. act'["llm"] = [todo |-> IF "llm" = "ui" THEN <<>> ELSE Tail(lt), doc |-> None]
        BY <1>0, <2>2, FailDoes
      <3>2. act'["llm"].todo = Tail(lt)
        BY <3>1
      <3> HIDE DEF lt
      <3>3. QED
        BY <1>1, <2>1, <3>2, LateTail DEF lt
    <2>3. CASE AppendHistory("llm")
      <3>1. act'["llm"] = [todo |-> Tail(lt), doc |-> act["llm"].doc]
        BY <1>0, <2>3, AppendDoes
      <3>2. act'["llm"].todo = Tail(lt)
        BY <3>1
      <3> HIDE DEF lt
      <3>3. QED
        BY <1>1, <2>1, <3>2, LateTail DEF lt
    <2>4. QED
      BY <1>5, <2>2, <2>3
  <1>6. CASE Save("llm")
    <2> DEFINE t == Loaded("llm")
               c == Next1("llm")
               e == Entry(t, c)
               u == Tail(lt)
    <2>1. /\ lt # <<>> /\ act'["llm"] = [todo |-> Recording(t, c) \o u, doc |-> None]
          /\ Logs(t, c) => e \in Entries
      BY <1>0, <1>6, SaveDoes
    <2>2. act'["llm"].todo = Recording(t, c) \o u
      BY <2>1
    <2>3. Recording(t, c) = IF Logs(t, c) THEN <<Record(e)>> ELSE <<>>
      BY DEF Recording
    <2>4. LateOk(u) /\ ~Rec(u) /\ u \in Seq(Items)
      <3> HIDE DEF lt
      <3>1. QED
        BY <1>1, <2>1, LateTail, TailOf DEF lt
    <2> HIDE DEF t, c, e, u
    <2>5. CASE Logs(t, c)
      <3> DEFINE x == Record(e)
      <3>1. x \in Items
        BY <2>1, <2>5 DEF Items
      <3> HIDE DEF x
      <3>2. LateOk(<<x>> \o u)
        BY <2>4, <3>1, LateRecord
      <3>3. QED
        BY <2>2, <2>3, <2>5, <3>2 DEF x
    <2>6. CASE ~Logs(t, c)
      <3>1. <<>> \o u = u
        BY <2>4
      <3>2. QED
        BY <2>2, <2>3, <2>4, <2>6, <3>1
    <2>7. QED
      BY <2>5, <2>6
  <1>7. CASE FinishJob
    <2>1. act'["llm"].todo = <<>>
      BY <1>7, JobDoes DEF Idle
    <2>2. QED
      BY <2>1 DEF LateOk
  <1>8. ASSUME StepOf("ui")
        PROVE  act'["llm"] = act["llm"]
    BY <1>0, <1>8, LoadDoes, FailDoes, SaveDoes, AppendDoes DEF StepOf
  <1>9. CASE UNCHANGED vars
    BY <1>2, <1>9 DEF vars
  <1>10. CASE SplitCluster
    BY <1>2, <1>10, SplitDoes
  <1>11. ASSUME NEW c \in AnyCall, Edit(c)
         PROVE  act'["llm"] = act["llm"]
    BY <1>11, EditDoes
  <1>12. CASE UndoLast \/ RedoLast \/ DiscardTree \/ PopHistory \/ FinishVerb
    <2>1. act'["llm"] = act["llm"]
      BY <1>12, UndoDoes, RedoDoes, DiscardDoes, PopDoes, FinishDoes
    <2>2. QED
      BY <1>2, <2>1
  <1>13. QED
    BY <1>0, <1>2, <1>3, <1>4, <1>5, <1>6, <1>7, <1>8, <1>9, <1>10, <1>11, <1>12, NextCases DEF StepOf

\* The head of a list with one more before.
LEMMA HeadOfCons ==
  ASSUME NEW s \in Seq(Items), NEW x \in Items
  PROVE  <<x>> \o s # <<>> /\ Head(<<x>> \o s) = x
  <1> DEFINE q == <<x>> \o s
             n == Len(s)
  <1>1. n \in Nat /\ q \in Seq(Items) /\ Len(q) = n + 1 /\ q[1] = x
    BY ConsOf
  <1> HIDE DEF q, n
  <1>2. q # <<>>
    BY <1>1
  <1>3. Head(q) = q[1]
    BY <1>1, <1>2, TailOf
  <1>4. QED
    BY <1>1, <1>2, <1>3 DEF q

\* Nothing to do: history and tree are in step.
LEMMA PlayIdle ==
  ASSUME NEW l, NEW lt, NEW pic \in Pictures, NEW G, InPlay(l, <<>>, lt, pic, G)
  PROVE  pic \in G /\ (~Rec(lt) => InStep(l, pic)) /\ (Rec(lt) => InStep(Append(l, Head(lt).entry), pic))
  <1>1. Len(<<>>) = 0
    OBVIOUS
  <1>2. ~Kept(l, <<>>, pic, G)
    BY <1>1 DEF Kept
  <1>3. ~Fwd(l, <<>>, pic)
    BY <1>1 DEF Fwd
  <1>4. Und(l, <<>>, pic, G) => InStep(l, pic) /\ pic \in G
    BY UndNothing
  <1>5. QED
    BY <1>2, <1>3, <1>4 DEF InPlay

\* A save of the user's.
LEMMA PlaySaveUi ==
  ASSUME TypeOK, InOrder, NEW G, Play(G), Save("ui"), tree = Loaded("ui"),
         Fwd(log, act["ui"].todo, Picture(tree)) => Picture(tree') \in G
  PROVE  Play(G)'
  <1> DEFINE t == Loaded("ui")
             c == Next1("ui")
             s == act["ui"].todo
             lt == act["llm"].todo
             e == Entry(t, c)
             a == Picture(t)
             b == Picture(Apply(t, c))
             u == Tail(s)
  <1>1. /\ t \in Tree /\ c \in AnyCall /\ s # <<>> /\ Fits(t, c) /\ tree' = Apply(t, c)
        /\ act'["ui"] = [todo |-> Recording(t, c) \o u, doc |-> None] /\ act'["llm"] = act["llm"]
        /\ Logs(t, c) => e \in Entries
    BY SaveDoes DEF Actors
  <1>2. act'["ui"].todo = Recording(t, c) \o u /\ act'["llm"].todo = lt /\ log' = log
    <2>1. log' = log
      BY DEF Save
    <2>2. QED
      BY <1>1, <2>1
  <1>3. s \in Seq(Items) /\ UiOk(s) /\ c = Head(s) /\ log \in Seq(Entries)
    BY TodoOf DEF TypeOK, Actors, InOrder, Next1
  <1>4. u \in Seq(Items)
    BY <1>1, <1>3, TailOf
  <1>5. c.op \notin Off /\ Calls("ui")
    BY DEF Save, Calls
  <1>6. c.op \in Simple \cup {"insert", "reparent", "remove"}
    BY <1>5, SavedOps DEF Actors
  <1>7. c.op \in Simple => Logs(t, c) /\ Recording(t, c) = <<Record(e)>>
    BY DEF Recording, Logs, Simple
  <1>8. c.op \notin Simple => Recording(t, c) = <<>>
    BY <1>6 DEF Recording, Logs, Simple
  <1>9. e.before = a /\ e.after = b
    BY DEF Entry
  <1>10. a \in Pictures /\ b \in Pictures
    <2>1. Apply(t, c) \in Tree
      BY <1>1, ApplyRows
    <2>2. QED
      BY <1>1, <2>1, PictureRows
  <1>11. c.op \in Backs => b = PStep(a, c)
    BY <1>1, PStepIs
  <1>12. c.op \in Simple => Undoable(e)
    BY <1>1, <1>7, UndoableCall
  <1>13. a = Picture(tree) /\ b = Picture(tree')
    BY <1>1
  <1>14. InPlay(log, s, lt, a, G)
    BY DEF Play
  <1> HIDE DEF t, c, s, lt, e, a, b, u
  <1>15. ~Rec(lt)
    BY <1>1, <1>14 DEF InPlay
  <1>16. c.op \notin Simple => act'["ui"].todo = u
    BY <1>2, <1>4, <1>8
  <1>17. SUFFICES Kept(log, act'["ui"].todo, b, G) \/ Und(log, act'["ui"].todo, b, G)
    BY <1>2, <1>13, <1>15 DEF Play, InPlay
  <1>18. CASE Kept(log, s, a, G)
    <2>1. c.op # "record"
      BY <1>5 DEF Off
    <2>2. c.op \in {"insert", "reparent"} /\ Kept(log, u, PStep(a, c), G)
      BY <1>3, <1>18, <2>1, KeptSaves DEF u
    <2>3. c.op \notin Simple /\ c.op \in Backs
      BY <2>2 DEF Simple, Backs
    <2>4. QED
      BY <1>11, <1>16, <2>2, <2>3
  <1>19. CASE Und(log, s, a, G)
    <2>1. c.op \in Backs
      <3>1. c.op \in Backs \cup Off
        BY <1>1, <1>3, <1>19, OrderOn DEF Und
      <3>2. QED
        BY <1>5, <3>1
    <2>2. /\ c.op \in {"rename", "move"} =>
               \A x \in Entries : Und(log, <<Record(x)>> \o u, PStep(a, c), G)
          /\ c.op \notin {"rename", "move"} => Und(log, u, PStep(a, c), G)
      BY <1>1, <1>3, <1>19, <2>1, UndSaves DEF u
    <2>3. CASE c.op \in {"rename", "move"}
      <3>1. c.op \in Simple
        BY <2>3 DEF Simple
      <3>2. e \in Entries
        BY <1>1, <1>7, <3>1
      <3>3. Und(log, <<Record(e)>> \o u, b, G)
        BY <1>11, <2>1, <2>2, <2>3, <3>2
      <3>4. QED
        BY <1>2, <1>7, <3>1, <3>3
    <2>4. CASE c.op \notin {"rename", "move"}
      <3>1. c.op \notin Simple
        BY <2>1, <2>4 DEF Simple, Backs
      <3>2. QED
        BY <1>11, <1>16, <2>1, <2>2, <2>4, <3>1
    <2>5. QED
      BY <2>3, <2>4
  <1>20. CASE Fwd(log, s, a)
    <2>1. c.op \in Simple
      <3>1. c = s[1]
        BY <1>1, <1>3, TailOf
      <3>2. QED
        BY <1>20, <3>1 DEF Fwd
    <2>2. e \in Entries /\ Undoable(e)
      BY <1>1, <1>7, <1>12, <2>1
    <2>3. b \in G
      BY <1>13, <1>20 DEF s
    <2>4. Kept(log, <<Record(e)>> \o u, e.after, G)
      BY <1>3, <1>9, <1>10, <1>20, <2>2, <2>3, FwdSaves DEF u
    <2>5. QED
      BY <1>2, <1>7, <1>9, <2>1, <2>4
  <1>21. QED
    BY <1>1, <1>14, <1>15, <1>18, <1>19, <1>20 DEF InPlay

\* A save of the naming task's, with no verb under way.
LEMMA PlaySaveLlm ==
  ASSUME TypeOK, InOrder, LateOk(act["llm"].todo), NEW G, Play(G), Save("llm"), tree = Loaded("llm"),
         act["ui"].todo = <<>>, Picture(tree') \in G
  PROVE  Play(G)'
  <1> DEFINE t == Loaded("llm")
             c == Next1("llm")
             lt == act["llm"].todo
             e == Entry(t, c)
             a == Picture(t)
             b == Picture(Apply(t, c))
             u == Tail(lt)
  <1>1. /\ t \in Tree /\ c \in AnyCall /\ lt # <<>> /\ Fits(t, c) /\ tree' = Apply(t, c)
        /\ act'["llm"] = [todo |-> Recording(t, c) \o u, doc |-> None] /\ act'["ui"] = act["ui"]
        /\ Logs(t, c) => e \in Entries
    BY SaveDoes DEF Actors
  <1>2. act'["llm"].todo = Recording(t, c) \o u /\ act'["ui"].todo = <<>> /\ log' = log
    <2>1. log' = log
      BY DEF Save
    <2>2. QED
      BY <1>1, <2>1
  <1>3. lt \in Seq(Items) /\ c = Head(lt) /\ log \in Seq(Entries)
    BY TodoOf DEF TypeOK, Actors, Next1
  <1>4. c.op = "name"
    BY SavedOps DEF Save, Actors
  <1>5. ~Rec(lt)
    BY <1>3, <1>4 DEF Rec
  <1>6. e.before = a /\ e.after = b
    BY DEF Entry
  <1>7. a \in Pictures /\ b \in Pictures
    <2>1. Apply(t, c) \in Tree
      BY <1>1, ApplyRows
    <2>2. QED
      BY <1>1, <2>1, PictureRows
  <1>8. a = Picture(tree) /\ b = Picture(tree')
    BY <1>1
  <1>9. InStep(log, a)
    <2>1. InPlay(log, <<>>, lt, a, G)
      BY DEF Play
    <2> HIDE DEF a, lt
    <2>2. QED
      BY <1>5, <1>7, <2>1, PlayIdle
  <1>10. u \in Seq(Items) /\ ~Rec(u)
    <2>1. LateOk(lt)
      OBVIOUS
    <2> HIDE DEF lt
    <2>2. QED
      BY <1>1, <1>3, <2>1, LateTail, TailOf
  <1>11. Recording(t, c) = IF Logs(t, c) THEN <<Record(e)>> ELSE <<>>
    BY DEF Recording
  <1>12. Logs(t, c) => Undoable(e)
    BY <1>1, UndoableCall
  <1>13. ~Logs(t, c) => Apply(t, c) = t
    BY <1>4 DEF Logs, Apply, Named
  <1>14. b \in G
    BY <1>8
  <1>15. ~Logs(t, c) => b = a
    BY <1>13
  <1> HIDE DEF t, c, lt, e, a, b, u
  <1>16. CASE Logs(t, c)
    <2> DEFINE x == Record(e)
    <2>1. x \in Items /\ x.op = "record" /\ x.entry = e /\ e \in Entries
      BY <1>1, <1>16, CallOps DEF Items, Record
    <2>2. act'["llm"].todo = <<x>> \o u
      BY <1>2, <1>11, <1>16
    <2> HIDE DEF x
    <2>3. <<x>> \o u # <<>> /\ Head(<<x>> \o u) = x
      BY <1>10, <2>1, ConsOf, HeadOfCons
    <2>4. Rec(<<x>> \o u)
      BY <2>1, <2>3 DEF Rec
    <2>5. InStep(Append(log, e), b)
      <3>1. InStep(log, e.before) /\ Undoable(e)
        BY <1>6, <1>9, <1>12, <1>16
      <3>2. InStep(Append(log, e), e.after)
        BY <1>3, <2>1, <3>1, InStepAppend
      <3>3. QED
        BY <1>6, <3>2
    <2>6. QED
      BY <1>2, <1>8, <1>14, <2>1, <2>2, <2>3, <2>4, <2>5 DEF Play, InPlay
  <1>17. CASE ~Logs(t, c)
    <2>1. act'["llm"].todo = u
      BY <1>2, <1>10, <1>11, <1>17
    <2>2. InStep(log, b)
      BY <1>9, <1>15, <1>17
    <2>3. Und(log, <<>>, b, G)
      BY <1>7, <1>14, <2>2, UndNothing
    <2>4. QED
      BY <1>2, <1>8, <1>10, <2>1, <2>3 DEF Play, InPlay
  <1>18. QED
    BY <1>16, <1>17

\* An entry goes on the history.
LEMMA PlayAppend ==
  ASSUME TypeOK, InOrder, LateOk(act["llm"].todo), NEW G, Play(G), NEW a \in Actors, AppendHistory(a)
  PROVE  Play(G)'
  <1> DEFINE s == act["ui"].todo
             lt == act["llm"].todo
             pic == Picture(tree)
  <1>0. "ui" \in Actors /\ "llm" \in Actors /\ Actors = {"ui", "llm"}
    BY DEF Actors
  <1>1. s \in Seq(Items) /\ lt \in Seq(Items) /\ UiOk(s) /\ log \in Seq(Entries)
    BY <1>0, TodoOf DEF TypeOK, InOrder
  <1>2. tree' = tree /\ Picture(tree') = pic
    BY DEF AppendHistory
  <1>3. pic \in Pictures
    BY PictureRows DEF TypeOK
  <1>4. InPlay(log, s, lt, pic, G)
    BY DEF Play
  <1>5. CASE a = "ui"
    <2>1. /\ s # <<>> /\ Head(s).op = "record" /\ log' = Append(log, Head(s).entry)
          /\ act'["ui"] = [todo |-> Tail(s), doc |-> act["ui"].doc] /\ act'["llm"] = act["llm"]
      BY <1>0, <1>5, AppendDoes DEF Next1
    <2>2. act'["ui"].todo = Tail(s) /\ act'["llm"].todo = lt
      BY <2>1
    <2>3. Len(s) \in Nat /\ Head(s) = s[1]
      BY <1>1, <2>1, TailOf
    <2> HIDE DEF s, lt, pic
    <2>4. ~Fwd(log, s, pic)
      BY <2>1, <2>3 DEF Fwd, Simple
    <2>5. ~Rec(lt) /\ (Kept(log, s, pic, G) \/ Und(log, s, pic, G))
      BY <1>4, <2>1, <2>4 DEF InPlay
    <2>6. Und(Append(log, Head(s).entry), Tail(s), pic, G)
      BY <1>1, <2>1, <2>5, KeptAppends, UndAppends
    <2>7. QED
      BY <1>2, <2>1, <2>2, <2>5, <2>6 DEF Play, InPlay
  <1>6. CASE a = "llm"
    <2>1. /\ lt # <<>> /\ Head(lt).op = "record" /\ log' = Append(log, Head(lt).entry)
          /\ act'["llm"] = [todo |-> Tail(lt), doc |-> act["llm"].doc] /\ act'["ui"] = act["ui"]
      BY <1>0, <1>6, AppendDoes DEF Next1
    <2>2. act'["llm"].todo = Tail(lt) /\ act'["ui"].todo = s
      BY <2>1
    <2>3. LateOk(lt)
      OBVIOUS
    <2> HIDE DEF s, lt, pic
    <2>4. s = <<>> /\ pic \in G /\ InStep(Append(log, Head(lt).entry), pic)
      BY <1>4, <2>1 DEF InPlay, Rec
    <2>5. ~Rec(Tail(lt))
      BY <1>1, <2>1, <2>3, LateTail
    <2>6. Und(log', <<>>, pic, G)
      BY <1>3, <2>1, <2>4, UndNothing
    <2>7. QED
      BY <1>2, <2>2, <2>4, <2>5, <2>6 DEF Play, InPlay
  <1>7. QED
    BY <1>0, <1>5, <1>6

\* Only a verb's first call fails: those of an undo or a split find their node.
LEMMA FailsFirst ==
  ASSUME TypeOK, InOrder, NEW G, Play(G), Fail("ui"), tree # NoTree
  PROVE  Fwd(log, act["ui"].todo, Picture(tree))
  <1> DEFINE s == act["ui"].todo
             lt == act["llm"].todo
             pic == Picture(tree)
             h == Head(s)
  <1>1. s \in Seq(Items) /\ UiOk(s) /\ log \in Seq(Entries)
    BY TodoOf DEF TypeOK, InOrder, Actors
  <1>2. InPlay(log, s, lt, pic, G)
    BY DEF Play
  <1>3. s # <<>>
    BY DEF Fail, Calls
  <1>4. h = s[1] /\ h \in Items
    <2> HIDE DEF s
    <2>1. QED
      BY <1>1, <1>3, TailOf
  <1>5. Kept(log, s, pic, G) \/ Und(log, s, pic, G) \/ Fwd(log, s, pic)
    <2> HIDE DEF s, lt, pic
    <2>1. QED
      BY <1>2, <1>3 DEF InPlay
  <1>6. h.op \notin Off /\ ~Fits(tree, h)
    BY DEF Fail, Calls, Next1
  <1>7. h \in AnyCall
    BY <1>4, <1>6, ItemFields
  <1>8. h.op \in {"rename", "move"} => h.at \in Node
    BY <1>7, CallFields
  <1>9. \A m \in Node : pic[m] # None => tree[m] # None
    BY PictureRows DEF TypeOK, There
  <1>10. ~(h.op \in Backs /\ Ready(pic, h))
    <2> HIDE DEF pic, h
    <2>1. QED
      BY <1>6, <1>8, <1>9 DEF Ready, Fits, Backs
  <1> HIDE DEF s, lt, pic, h
  <1>11. ~Kept(log, s, pic, G)
    <2>1. h.op # "record"
      BY <1>6 DEF Off
    <2>2. Kept(log, s, pic, G) => h.op \in {"insert", "reparent"} /\ Ready(pic, h)
      BY <1>1, <2>1, KeptSaves DEF h
    <2>3. QED
      BY <1>10, <2>2 DEF Backs
  <1>12. ~Und(log, s, pic, G)
    <2>1. Und(log, s, pic, G) => h.op \in Backs
      BY <1>1, <1>3, <1>6, OrderOn DEF Und, h
    <2>2. Und(log, s, pic, G) => Ready(pic, h)
      BY <1>1, <1>3, <2>1, UndSaves DEF h
    <2>3. QED
      BY <1>10, <2>1, <2>2
  <1>13. QED
    BY <1>5, <1>11, <1>12 DEF s, pic

\* A pop, an error and the end of a verb.
LEMMA PlayEnds ==
  ASSUME TypeOK, InOrder, NEW G, Play(G), PopHistory \/ FinishVerb \/ Fail("ui"), tree # NoTree,
         Fwd(log, act["ui"].todo, Picture(tree)) => Picture(tree) \in G
  PROVE  Play(G)'
  <1> DEFINE s == act["ui"].todo
             lt == act["llm"].todo
             pic == Picture(tree)
             h == Head(s)
  <1>0. "ui" \in Actors /\ "llm" \in Actors /\ Actors = {"ui", "llm"}
    BY DEF Actors
  <1>1. s \in Seq(Items) /\ lt \in Seq(Items) /\ UiOk(s) /\ log \in Seq(Entries)
    BY <1>0, TodoOf DEF TypeOK, InOrder
  <1>2. pic \in Pictures
    BY PictureRows DEF TypeOK
  <1>3. InPlay(log, s, lt, pic, G)
    BY DEF Play
  <1>4. tree' = tree /\ Picture(tree') = pic
    BY DEF PopHistory, FinishVerb, Fail
  <1>5. s # <<>>
    BY DEF PopHistory, FinishVerb, Fail, Waits, Calls
  <1>6. act'["llm"].todo = lt
    BY <1>0, PopDoes, FinishDoes, FailDoes
  <1>7. h = s[1] /\ h \in Items
    <2> HIDE DEF s
    <2>1. QED
      BY <1>1, <1>5, TailOf
  <1>8. ~Rec(lt) /\ (Kept(log, s, pic, G) \/ Und(log, s, pic, G) \/ Fwd(log, s, pic))
    <2> HIDE DEF s, lt, pic
    <2>1. QED
      BY <1>3, <1>5 DEF InPlay
  <1>9. SUFFICES Und(log', act'["ui"].todo, pic, G)
    BY <1>4, <1>6, <1>8 DEF Play, InPlay
  <1>10. CASE PopHistory
    <2>1. /\ h.op = "pop" /\ log' = IF log = <<>> THEN log ELSE Front(log)
          /\ act'["ui"] = [todo |-> Tail(s), doc |-> act["ui"].doc]
      BY <1>10, PopDoes DEF Next1
    <2>2. act'["ui"].todo = Tail(s)
      BY <2>1
    <2> HIDE DEF s, lt, pic, h
    <2>3. ~Fwd(log, s, pic)
      BY <1>7, <2>1 DEF Fwd, Simple
    <2>4. ~Kept(log, s, pic, G)
      BY <1>1, <2>1, KeptSaves DEF h
    <2>5. log # <<>> /\ Und(Front(log), Tail(s), pic, G)
      BY <1>1, <1>5, <1>8, <2>1, <2>3, <2>4, UndAppends DEF h
    <2>6. QED
      BY <2>1, <2>2, <2>5
  <1>11. CASE FinishVerb
    <2>1. h.op = "finish" /\ act'["ui"] = Idle /\ log' = log
      BY <1>11, FinishDoes DEF Next1, FinishVerb
    <2>2. act'["ui"].todo = <<>>
      BY <2>1 DEF Idle
    <2> HIDE DEF s, lt, pic, h
    <2>3. ~Fwd(log, s, pic)
      BY <1>7, <2>1 DEF Fwd, Simple
    <2>4. ~Kept(log, s, pic, G)
      BY <1>1, <2>1, KeptSaves DEF h
    <2>5. Und(log, <<>>, pic, G)
      BY <1>1, <1>5, <1>8, <2>1, <2>3, <2>4, UndAppends DEF h
    <2>6. QED
      BY <2>1, <2>2, <2>5
  <1>12. CASE Fail("ui")
    <2>1. act'["ui"] = [todo |-> IF "ui" = "ui" THEN <<>> ELSE Tail(s), doc |-> None]
      BY <1>0, <1>12, FailDoes
    <2>2. act'["ui"].todo = <<>> /\ log' = log
      BY <1>12, <2>1 DEF Fail
    <2>3. Fwd(log, s, pic)
      BY <1>12, FailsFirst
    <2>4. pic \in G
      BY <2>3
    <2> HIDE DEF s, lt, pic, h
    <2>5. InStep(log, pic)
      BY <2>3 DEF Fwd
    <2>6. Und(log, <<>>, pic, G)
      BY <1>2, <2>4, <2>5, UndNothing
    <2>7. QED
      BY <2>2, <2>6
  <1>13. QED
    BY <1>10, <1>11, <1>12

\* A verb begins.
LEMMA PlayBegin ==
  ASSUME TypeOK, InOrder, NEW G, Play(G), amiss' \subseteq {"bucket", "replayed"},
         (\E c \in AnyCall : Edit(c) /\ Offered(c)) \/ SplitCluster \/ UndoLast \/ RedoLast,
         \A n, A, B : SplitCluster /\ SplitAsks(n, A, B) /\ SplitWrong(n, A, B) = {}
                        => Picture(SplitTree(n, A, B)) \in G,
         UndoLast => Last(log).before \in G
  PROVE  Play(G)'
  <1> DEFINE lt == act["llm"].todo
             pic == Picture(tree)
  <1>1. log \in Seq(Entries) /\ redo \in Seq(Entries)
    BY DEF TypeOK
  <1>2. pic \in Pictures
    BY PictureRows DEF TypeOK
  <1>3. Interrupts \subseteq amiss'
    BY EditDoes, SplitDoes, UndoDoes, RedoDoes
  <1>4. ~Rec(lt)
    BY <1>3 DEF Interrupts, Rec, Waits, Next1
  <1>5. act["ui"].todo = <<>> /\ act'["llm"].todo = lt /\ tree' = tree
    <2>1. act["ui"] = Idle /\ act'["llm"] = act["llm"] /\ tree' = tree
      BY EditDoes, SplitDoes, UndoDoes, RedoDoes
    <2>2. QED
      BY <2>1 DEF Idle
  <1>6. InStep(log, pic) /\ pic \in G
    <2>1. InPlay(log, <<>>, lt, pic, G)
      BY <1>5 DEF Play
    <2> HIDE DEF lt, pic
    <2>2. QED
      BY <1>2, <1>4, <2>1, PlayIdle
  <1> DEFINE s == act'["ui"].todo
  <1>7. SUFFICES Kept(log', s, pic, G) \/ Und(log', s, pic, G) \/ Fwd(log', s, pic)
    BY <1>4, <1>5 DEF Play, InPlay
  <1>8. ASSUME NEW c \in AnyCall, NEW r, c.op \in Simple, s = <<c, Finish(r)>>, log' = log
        PROVE  Fwd(log', s, pic)
    <2>1. Finish(r).op = "finish"
      BY DEF Finish
    <2>2. Len(s) = 2 /\ s[1] = c /\ s[2] = Finish(r)
      BY <1>8
    <2>3. QED
      BY <1>6, <1>8, <2>1, <2>2 DEF Fwd
  <1>9. CASE \E c \in AnyCall : Edit(c) /\ Offered(c)
    <2>1. PICK c \in AnyCall : Edit(c) /\ Offered(c)
      BY <1>9
    <2>2. act'["ui"] = [todo |-> <<c, Finish(redo)>>, doc |-> None] /\ log' = log
      BY <2>1, EditDoes
    <2>3. s = <<c, Finish(redo)>> /\ c.op \in Simple
      BY <2>1, <2>2 DEF Offered
    <2>4. QED
      BY <1>8, <2>2, <2>3
  <1>10. CASE SplitCluster
    <2>1. PICK n, A, B :
            /\ SplitAsks(n, A, B)
            /\ act'["ui"] = [todo |-> SplitPlan(n, A, B), doc |-> None]
            /\ amiss' = Interrupts \cup SplitWrong(n, A, B) /\ log' = log
      BY <1>10, SplitDoes
    <2>2. SplitWrong(n, A, B) = {}
      BY <2>1 DEF SplitWrong
    <2> DEFINE e == SplitEntry(n, A, B)
    <2>3. e.before = pic /\ e.after \in G
      BY <1>10, <2>1, <2>2 DEF SplitEntry
    <2>4. s = SplitPlan(n, A, B)
      BY <2>1
    <2> HIDE DEF e, pic, s
    <2>5. e = SplitEntry(n, A, B)
      BY DEF e
    <2>6. InStep(log, e.before)
      BY <1>6, <2>3
    <2>7. Kept(log, SplitPlan(n, A, B), e.before, G)
      BY <1>1, <2>1, <2>2, <2>3, <2>5, <2>6, SplitLeads
    <2>8. QED
      BY <2>1, <2>3, <2>4, <2>7
  <1>11. CASE UndoLast
    <2> DEFINE e == Last(log)
               f == Finish(Append(redo, e))
    <2>1. /\ log # <<>> /\ log' = Front(log) /\ e \in Entries /\ e.undo \in Seq(Items) /\ f \in Items
          /\ act'["ui"] = [todo |-> e.undo \o <<f>>, doc |-> None]
      BY <1>11, UndoDoes
    <2>2. s = e.undo \o <<f>> /\ f.op = "finish"
      BY <2>1 DEF Finish
    <2>3. EntryOk(e)
      BY <1>1, <2>1, OkRows DEF InOrder
    <2>4. e.before \in G
      BY <1>11
    <2> HIDE DEF e, f, pic, s
    <2>5. e = Last(log)
      BY DEF e
    <2>6. Und(Front(log), e.undo \o <<f>>, pic, G)
      BY <1>1, <1>6, <2>1, <2>2, <2>3, <2>4, <2>5, UndoBegins
    <2>7. QED
      BY <2>1, <2>2, <2>6
  <1>12. CASE RedoLast
    <2> DEFINE e == Last(redo)
    <2>1. /\ redo # <<>> /\ e \in Entries /\ log' = log
          /\ \/ act'["ui"] = Idle
             \/ /\ e.call.op \notin {"split", "name"} /\ e.call \in AnyCall
                /\ act'["ui"] = [todo |-> <<e.call, Finish(Front(redo))>>, doc |-> None]
      BY <1>12, RedoDoes
    <2>2. EntryOk(e)
      BY <1>1, <2>1, OkRows DEF InOrder
    <2>3. CASE act'["ui"] = Idle
      <3>1. s = <<>>
        BY <2>3 DEF Idle
      <3>2. Und(log, <<>>, pic, G)
        <4> HIDE DEF pic
        <4>1. QED
          BY <1>2, <1>6, UndNothing
      <3>3. QED
        BY <2>1, <3>1, <3>2
    <2>4. CASE act'["ui"] # Idle
      <3> DEFINE c == e.call
      <3>1. c \in AnyCall /\ c.op \in Simple
        BY <2>1, <2>2, <2>4 DEF EntryOk
      <3>2. s = <<c, Finish(Front(redo))>>
        BY <2>1, <2>4
      <3> HIDE DEF c, s
      <3>3. QED
        BY <1>8, <2>1, <3>1, <3>2
    <2>5. QED
      BY <2>3, <2>4
  <1>13. QED
    BY <1>9, <1>10, <1>11, <1>12

\* The naming task's other steps, and those that leave both lists.
LEMMA PlayRest ==
  ASSUME TypeOK, LateOk(act["llm"].todo), NEW G, Play(G),
         Fail("llm") \/ FinishJob \/ NameClusters \/ (\E a \in Actors : Load(a)) \/ UNCHANGED vars
  PROVE  Play(G)'
  <1> DEFINE s == act["ui"].todo
             lt == act["llm"].todo
             pic == Picture(tree)
  <1>0. "ui" \in Actors /\ "llm" \in Actors /\ Actors = {"ui", "llm"}
    BY DEF Actors
  <1>1. tree' = tree /\ log' = log
    BY DEF Fail, FinishJob, NameClusters, Load, vars
  <1>2. lt \in Seq(Items)
    BY <1>0, TodoOf
  <1>3. InPlay(log, s, lt, pic, G)
    BY DEF Play
  <1>4. ASSUME act'["ui"].todo = s, ~Rec(lt), ~Rec(act'["llm"].todo)
        PROVE  Play(G)'
    <2> HIDE DEF s, lt
    <2>1. Kept(log, s, pic, G) \/ Und(log, s, pic, G) \/ Fwd(log, s, pic)
      BY <1>3, <1>4 DEF InPlay
    <2>2. QED
      BY <1>1, <1>4, <2>1 DEF Play, InPlay
  <1>5. ASSUME act'["ui"].todo = s, act'["llm"].todo = lt
        PROVE  Play(G)'
    BY <1>1, <1>5 DEF Play
  <1>6. CASE Fail("llm")
    <2>1. /\ act'["llm"] = [todo |-> IF "llm" = "ui" THEN <<>> ELSE Tail(lt), doc |-> None]
          /\ act'["ui"] = act["ui"]
      BY <1>0, <1>6, FailDoes
    <2>2. act'["llm"].todo = Tail(lt) /\ act'["ui"].todo = s
      BY <2>1
    <2>3. lt # <<>> /\ Head(lt).op \notin Off
      BY <1>6 DEF Fail, Calls, Next1
    <2>4. ~Rec(lt)
      BY <2>3 DEF Rec, Off
    <2>5. ~Rec(Tail(lt))
      <3>1. LateOk(lt)
        OBVIOUS
      <3> HIDE DEF lt
      <3>2. QED
        BY <1>2, <2>3, <3>1, LateTail
    <2>6. QED
      BY <1>4, <2>2, <2>4, <2>5
  <1>7. CASE FinishJob
    <2>1. act'["llm"] = Idle /\ act'["ui"] = act["ui"] /\ Head(lt).op = "finish"
      BY <1>7, JobDoes DEF FinishJob, Waits, Next1
    <2>2. act'["llm"].todo = <<>> /\ act'["ui"].todo = s
      BY <2>1 DEF Idle
    <2>3. ~Rec(lt) /\ ~Rec(act'["llm"].todo)
      BY <2>1, <2>2 DEF Rec
    <2>4. QED
      BY <1>4, <2>2, <2>3
  <1>8. CASE NameClusters
    <2> DEFINE r == act'["llm"].todo
    <2>1. /\ act'["ui"] = act["ui"] /\ act["llm"] = Idle /\ r \in Seq(Items)
          /\ \A i \in 1..Len(r) : r[i].op = "name" \/ r[i] = Finish(<<>>)
      BY <1>8, NamingDoes
    <2>2. ~Rec(lt) /\ act'["ui"].todo = s
      BY <2>1 DEF Rec, Idle
    <2>3. Finish(<<>>).op = "finish"
      BY CallOps
    <2> HIDE DEF r
    <2>4. ~Rec(r)
      <3>1. SUFFICES ASSUME r # <<>> PROVE Head(r).op # "record"
        BY DEF Rec
      <3>2. Head(r) = r[1] /\ Len(r) \in Nat /\ Len(r) > 0
        BY <2>1, <3>1, TailOf
      <3>3. 1 \in 1..Len(r)
        BY <3>2
      <3>4. r[1].op = "name" \/ r[1] = Finish(<<>>)
        BY <2>1, <3>3
      <3>5. QED
        BY <2>3, <3>2, <3>4
    <2>5. QED
      BY <1>4, <2>2, <2>4 DEF r
  <1>9. ASSUME NEW a \in Actors, Load(a)
        PROVE  Play(G)'
    <2>1. /\ act'[a] = [todo |-> act[a].todo, doc |-> tree]
          /\ \A b \in Actors : b # a => act'[b] = act[b]
      BY <1>9, LoadDoes
    <2>2. act'["ui"].todo = s /\ act'["llm"].todo = lt
      BY <1>0, <2>1
    <2>3. QED
      BY <1>5, <2>2
  <1>10. CASE UNCHANGED vars
    BY <1>5, <1>10 DEF vars
  <1>11. QED
    BY <1>6, <1>7, <1>8, <1>9, <1>10

\* Nothing went wrong that the history minds.
Lined == amiss \subseteq {"bucket", "replayed"}

\* Every step, if the pictures it leads to are in G.
LEMMA PlayStep ==
  ASSUME TypeOK, InOrder, LateOk(act["llm"].todo), NEW G, Play(G), [Next]_vars, Lined',
         tree # NoTree, tree' # NoTree,
         Fwd(log, act["ui"].todo, Picture(tree)) => Picture(tree) \in G,
         Fwd(log, act["ui"].todo, Picture(tree)) /\ Save("ui") => Picture(tree') \in G,
         Save("llm") /\ act["ui"].todo = <<>> /\ tree = Loaded("llm") => Picture(tree') \in G,
         \A n, A, B : SplitCluster /\ SplitAsks(n, A, B) /\ SplitWrong(n, A, B) = {}
                        => Picture(SplitTree(n, A, B)) \in G,
         UndoLast => Last(log).before \in G
  PROVE  Play(G)'
  <1>1. amiss' \subseteq {"bucket", "replayed"}
    BY DEF Lined
  <1>2. CASE Save("ui")
    <2>1. tree = Loaded("ui")
      BY <1>1, <1>2 DEF Save
    <2>2. QED
      BY <1>2, <2>1, PlaySaveUi
  <1>3. CASE Save("llm")
    <2>1. tree = Loaded("llm") /\ Crossing("llm") = {}
      BY <1>1, <1>3 DEF Save, Crossing
    <2>2. act["ui"].todo = <<>>
      BY <2>1 DEF Crossing, UiIdle, Idle
    <2>3. QED
      BY <1>3, <2>1, <2>2, PlaySaveLlm
  <1>4. ASSUME NEW a \in Actors, AppendHistory(a)
        PROVE  Play(G)'
    BY <1>4, PlayAppend
  <1>5. CASE PopHistory \/ FinishVerb \/ Fail("ui")
    BY <1>5, PlayEnds
  <1>6. CASE Fail("llm") \/ FinishJob \/ NameClusters \/ (\E a \in Actors : Load(a)) \/ UNCHANGED vars
    BY <1>6, PlayRest
  <1>7. CASE (\E c \in AnyCall : Edit(c) /\ Offered(c)) \/ UndoLast \/ RedoLast \/ SplitCluster
    BY <1>1, <1>7, PlayBegin
  <1>8. ~DiscardTree
    BY DEF DiscardTree
  <1>9. ASSUME NEW a \in Actors, StepOf(a)
        PROVE  Play(G)'
    BY <1>2, <1>3, <1>4, <1>5, <1>6, <1>9 DEF StepOf, Actors
  <1>10. QED
    BY <1>5, <1>6, <1>7, <1>8, <1>9, NextCases

\* Nothing takes back what went wrong.
LEMMA AmissGrows ==
  ASSUME TypeOK, [Next]_vars
  PROVE  amiss \subseteq amiss'
  <1>1. ASSUME NEW c \in AnyCall, Edit(c)
        PROVE  amiss \subseteq amiss'
    BY <1>1, EditDoes
  <1>2. ASSUME SplitCluster
        PROVE  amiss \subseteq amiss'
    BY <1>2, SplitDoes
  <1>3. ASSUME UndoLast \/ RedoLast \/ NameClusters \/ DiscardTree
        PROVE  amiss \subseteq amiss'
    BY <1>3, UndoDoes, RedoDoes, NamingDoes, DiscardDoes
  <1>4. ASSUME NEW a \in Actors, StepOf(a)
        PROVE  amiss \subseteq amiss'
    <2>1. ASSUME Load(a) \/ Fail(a) \/ AppendHistory(a)
          PROVE  amiss \subseteq amiss'
      BY <2>1 DEF Load, Fail, AppendHistory
    <2>2. ASSUME Save(a)
          PROVE  amiss \subseteq amiss'
      BY <2>2 DEF Save
    <2>3. QED
      BY <1>4, <2>1, <2>2 DEF StepOf
  <1>5. ASSUME PopHistory \/ FinishVerb \/ FinishJob \/ UNCHANGED vars
        PROVE  amiss \subseteq amiss'
    BY <1>5 DEF PopHistory, FinishVerb, FinishJob, vars
  <1>6. QED
    BY <1>1, <1>2, <1>3, <1>4, <1>5, NextCases

\* A tree that was deleted does not come back.
LEMMA TreeComesOnce ==
  ASSUME TypeOK, [Next]_vars, tree' # NoTree, amiss' \subseteq {"bucket", "replayed"}
  PROVE  tree # NoTree
  <1>1. ASSUME NEW a \in Actors, Save(a)
        PROVE  tree # NoTree
    <2>1. tree = Loaded(a)
      BY <1>1 DEF Save
    <2>2. Fits(Loaded(a), Next1(a))
      BY <1>1, SaveDoes
    <2>3. QED
      BY <2>1, <2>2 DEF Fits
  <1>2. ASSUME NEW c \in AnyCall, Edit(c)
        PROVE  tree # NoTree
    BY <1>2, EditDoes
  <1>3. CASE SplitCluster
    BY <1>3, SplitDoes
  <1>4. CASE UndoLast \/ RedoLast \/ NameClusters \/ DiscardTree
    BY <1>4, UndoDoes, RedoDoes, NamingDoes, DiscardDoes
  <1>5. ASSUME NEW a \in Actors, Load(a) \/ Fail(a) \/ AppendHistory(a)
        PROVE  tree # NoTree
    BY <1>5 DEF Load, Fail, AppendHistory
  <1>6. CASE PopHistory \/ FinishVerb \/ FinishJob \/ UNCHANGED vars
    BY <1>6 DEF PopHistory, FinishVerb, FinishJob, vars
  <1>7. QED
    BY <1>1, <1>2, <1>3, <1>4, <1>5, <1>6, NextCases DEF StepOf

\* The history is in step while nothing went wrong that it minds.
StackMain == Lined /\ tree # NoTree => Play(Pictures)

\* Every step keeps it so.
LEMMA StackStep ==
  ASSUME TypeOK, InOrder, LateOk(act["llm"].todo), StackMain, [Next]_vars
  PROVE  StackMain'
  <1>1. SUFFICES ASSUME Lined', tree' # NoTree
                 PROVE  Play(Pictures)'
    BY DEF StackMain
  <1>2. amiss \subseteq amiss'
    BY AmissGrows
  <1>3. Lined
    BY <1>1, <1>2 DEF Lined
  <1>4. tree # NoTree
    BY <1>1, TreeComesOnce DEF Lined
  <1>5. Play(Pictures)
    BY <1>3, <1>4 DEF StackMain
  <1>6. Picture(tree) \in Pictures /\ Picture(tree') \in Pictures
    <2>1. TypeOK'
      BY TypesStep
    <2>2. tree \in Tree /\ tree' \in Tree
      BY <2>1 DEF TypeOK
    <2>3. QED
      BY <2>2, PictureRows
  <1>7. ASSUME NEW n, NEW A, NEW B, SplitAsks(n, A, B)
        PROVE  Picture(SplitTree(n, A, B)) \in Pictures
    BY <1>7, SplitTypes, PictureRows
  <1>8. UndoLast => Last(log).before \in Pictures
    BY UndoDoes DEF Entries
  <1>9. QED
    BY <1>1, <1>4, <1>5, <1>6, <1>7, <1>8, PlayStep

\* A session starts with an empty history.
LEMMA StackInit ==
  ASSUME Init
  PROVE  StackMain /\ LateOk(act["llm"].todo)
  <1>1. log = <<>> /\ act["ui"].todo = <<>> /\ act["llm"].todo = <<>>
    BY DEF Init, Idle
  <1>2. Picture(tree) \in Pictures
    BY TypesInit, PictureRows DEF TypeOK
  <1> DEFINE pic == Picture(tree)
  <1>3. InStep(<<>>, pic)
    BY DEF InStep
  <1> HIDE DEF pic
  <1>4. Und(<<>>, <<>>, pic, Pictures)
    BY <1>2, <1>3, UndNothing DEF pic
  <1>5. ~Rec(<<>>) /\ LateOk(<<>>)
    BY DEF Rec, LateOk
  <1>6. QED
    BY <1>1, <1>4, <1>5 DEF StackMain, Play, InPlay, pic

\* The history is in step with the tree: with no verb under way, its last entry
\* left the tree as it is, and each entry found what the one before it left.
THEOREM StackKept == Spec => []StackInStep
  <1> DEFINE Inv == TypeOK /\ InOrder /\ LateOk(act["llm"].todo) /\ StackMain
  <1>1. Init => Inv
    BY TypesInit, InOrderInit, StackInit
  <1>2. Inv /\ [Next]_vars => Inv'
    BY TypesStep, InOrderStep, LateStep, StackStep
  <1>3. Inv => StackInStep
    <2>1. SUFFICES ASSUME Inv, Lined, tree # NoTree, UiIdle, ~Waits("llm", "record")
                   PROVE  /\ log # <<>> => Last(log).after = Picture(tree)
                          /\ \A k \in 1..(Len(log) - 1) : log[k].after = log[k + 1].before
      BY DEF StackInStep, Lined
    <2> DEFINE pic == Picture(tree)
               lt == act["llm"].todo
    <2>2. InPlay(log, <<>>, lt, pic, Pictures)
      BY <2>1 DEF StackMain, Play, UiIdle, Idle
    <2>3. ~Rec(lt)
      BY <2>1 DEF Waits, Rec, Next1
    <2>4. pic \in Pictures
      BY <2>1, PictureRows DEF TypeOK
    <2> HIDE DEF pic, lt
    <2>5. InStep(log, pic)
      BY <2>2, <2>3, <2>4, PlayIdle
    <2>6. QED
      BY <2>5 DEF InStep, pic
  <1>4. QED
    BY <1>1, <1>2, <1>3, PTL DEF Spec

-----------------------------------------------------------------------------
(* A tree that hangs from its roots keeps doing so.                        *)

\* Whatever has the roots and, with a node, its children has all there is.
Hanging(t) ==
  \A C \in SUBSET Node : ClosedIn(t, C) /\ Roots(t) \subseteq C => There(t) \subseteq C

\* That is to hang from the roots.
LEMMA HangingHangs ==
  ASSUME NEW t \in Tree
  PROVE  Hanging(t) <=> Hangs(t)
  <1> DEFINE R == Roots(t)
             U == Under(t, R)
  <1>1. R \in SUBSET Node /\ R \subseteq There(t) /\ There(t) \in SUBSET Node
    BY DEF Roots, There
  <1>2. /\ R \subseteq U /\ U \subseteq R \cup There(t) /\ ClosedIn(t, U)
        /\ \A C : R \subseteq C /\ ClosedIn(t, C) => U \subseteq C
    <2> HIDE DEF R
    <2>1. QED
      BY <1>1, UnderLeast
  <1>3. Hangs(t) <=> There(t) = U
    BY DEF Hangs
  <1>4. Hanging(t) <=> \A C \in SUBSET Node : ClosedIn(t, C) /\ R \subseteq C => There(t) \subseteq C
    BY DEF Hanging
  <1> HIDE DEF R, U
  <1>5. U \subseteq There(t) /\ U \in SUBSET Node
    BY <1>1, <1>2
  <1>6. Hanging(t) => There(t) = U
    BY <1>2, <1>4, <1>5
  <1>7. There(t) = U => Hanging(t)
    BY <1>2, <1>4
  <1>8. QED
    BY <1>3, <1>6, <1>7

\* A set that is closed and has the roots has all there is.
LEMMA HangsIn ==
  ASSUME NEW t \in Tree, Hanging(t), NEW C,
         \A m \in There(t) : t[m].parent \in C \/ t[m].parent = None => m \in C
  PROVE  There(t) \subseteq C
  <1> DEFINE D == C \cap Node
  <1>1. There(t) \subseteq Node /\ D \in SUBSET Node /\ D \subseteq C
    BY DEF There
  <1>2. ClosedIn(t, D)
    BY <1>1 DEF ClosedIn
  <1>3. Roots(t) \subseteq D
    BY <1>1 DEF Roots
  <1>4. QED
    BY <1>1, <1>2, <1>3 DEF Hanging

\* And one that needs to show this for sets of nodes only.
LEMMA HangsIf ==
  ASSUME NEW t \in Tree,
         \A C \in SUBSET Node :
           (\A m \in There(t) : t[m].parent \in C \/ t[m].parent = None => m \in C)
             => There(t) \subseteq C
  PROVE  Hanging(t)
  <1>1. SUFFICES ASSUME NEW C \in SUBSET Node, ClosedIn(t, C), Roots(t) \subseteq C
                 PROVE  There(t) \subseteq C
    BY DEF Hanging
  <1>2. \A m \in There(t) : t[m].parent \in C \/ t[m].parent = None => m \in C
    BY <1>1 DEF ClosedIn, Roots
  <1>3. QED
    BY <1>2

\* No node of such a tree is its own parent.
LEMMA NoLoop ==
  ASSUME NEW t \in Tree, Hanging(t), NEW n \in There(t)
  PROVE  t[n].parent # n
  <1>1. SUFFICES ASSUME t[n].parent = n
                 PROVE  FALSE
    OBVIOUS
  <1> DEFINE C == There(t) \ {n}
  <1>2. n \in Node /\ n # None
    BY TreeConstants DEF There
  <1>3. \A m \in There(t) : t[m].parent \in C \/ t[m].parent = None => m \in C
    BY <1>1, <1>2
  <1>4. There(t) \subseteq C
    <2> HIDE DEF C
    <2>1. QED
      BY <1>3, HangsIn
  <1>5. QED
    BY <1>4

\* A tree with the same parents hangs as well.
LEMMA SameHangs ==
  ASSUME NEW t \in Tree, Hanging(t), NEW r \in Tree, There(r) = There(t),
         \A m \in There(t) : r[m].parent = t[m].parent
  PROVE  Hanging(r)
  <1>1. SUFFICES ASSUME NEW C \in SUBSET Node,
                        \A m \in There(r) : r[m].parent \in C \/ r[m].parent = None => m \in C
                 PROVE  There(r) \subseteq C
    BY HangsIf
  <1>2. \A m \in There(t) : t[m].parent \in C \/ t[m].parent = None => m \in C
    BY <1>1
  <1>3. QED
    BY <1>2, HangsIn

\* A node is moved to one that is not under it.
LEMMA MoveHangs ==
  ASSUME NEW t \in Tree, Hanging(t), NEW r \in Tree, There(r) = There(t),
         NEW a \in There(t), NEW p \in There(t), NEW B, a \in B, p \notin B,
         \A m \in There(t) : t[m].parent \in B => m \in B,
         \A m \in There(t) : r[m].parent = IF m = a THEN p ELSE t[m].parent
  PROVE  Hanging(r)
  <1>1. SUFFICES ASSUME NEW C \in SUBSET Node,
                        \A m \in There(r) : r[m].parent \in C \/ r[m].parent = None => m \in C
                 PROVE  There(r) \subseteq C
    BY HangsIf
  <1> DEFINE D == C \cup B
  <1>2. \A m \in There(t) : t[m].parent \in D \/ t[m].parent = None => m \in D
    BY <1>1
  <1>3. There(t) \subseteq D
    <2> HIDE DEF D
    <2>1. QED
      BY <1>2, HangsIn
  <1>4. p \in C
    BY <1>3
  <1>5. a \in C
    BY <1>1, <1>4
  <1>6. \A m \in There(t) : t[m].parent \in C \/ t[m].parent = None => m \in C
    BY <1>1, <1>5
  <1>7. QED
    BY <1>6, HangsIn

\* A node's children go to its sibling and it goes.
LEMMA MergeHangs ==
  ASSUME NEW t \in Tree, Hanging(t), NEW r \in Tree,
         NEW a \in There(t), NEW o \in There(t), a # o, t[a].parent = t[o].parent,
         There(r) = There(t) \ {o},
         \A m \in There(r) : r[m].parent = IF t[m].parent = o THEN a ELSE t[m].parent
  PROVE  Hanging(r)
  <1>1. SUFFICES ASSUME NEW C \in SUBSET Node,
                        \A m \in There(r) : r[m].parent \in C \/ r[m].parent = None => m \in C
                 PROVE  There(r) \subseteq C
    BY HangsIf
  <1>2. t[o].parent # o /\ a \in There(r) /\ r[a].parent = t[o].parent
    BY NoLoop
  <1>3. o # None /\ a # None
    BY TreeConstants DEF There
  <1> DEFINE D == IF a \in C THEN C \cup {o} ELSE C \ {o}
  <1>4. ASSUME NEW m \in There(t), t[m].parent \in D \/ t[m].parent = None
        PROVE  m \in D
    <2>1. CASE m = o
      <3>1. t[o].parent \in C \/ t[o].parent = None
        BY <1>2, <1>4, <2>1
      <3>2. a \in C
        BY <1>1, <1>2, <3>1
      <3>3. QED
        BY <2>1, <3>2
    <2>2. CASE m # o /\ t[m].parent = o
      <3>1. a \in C
        BY <1>3, <1>4, <2>2
      <3>2. m \in There(r) /\ r[m].parent = a
        BY <2>2
      <3>3. QED
        BY <1>1, <3>1, <3>2
    <2>3. CASE m # o /\ t[m].parent # o
      <3>1. m \in There(r) /\ r[m].parent = t[m].parent
        BY <2>3
      <3>2. t[m].parent \in C \/ t[m].parent = None
        BY <1>4, <2>3
      <3>3. m \in C
        BY <1>1, <3>1, <3>2
      <3>4. QED
        BY <2>3, <3>3
    <2>4. QED
      BY <2>1, <2>2, <2>3
  <1>5. There(t) \subseteq D
    <2> HIDE DEF D
    <2>1. QED
      BY <1>4, HangsIn
  <1>6. QED
    BY <1>5

\* Some children of a node go, and theirs move up to it.
LEMMA MergeUpHangs ==
  ASSUME NEW t \in Tree, Hanging(t), NEW r \in Tree, NEW a \in Node, NEW X,
         \A m \in X : m \in There(t) /\ t[m].parent = a,
         There(r) = There(t) \ X,
         \A m \in There(r) : r[m].parent = IF t[m].parent \in X THEN a ELSE t[m].parent
  PROVE  Hanging(r)
  <1>1. SUFFICES ASSUME NEW C \in SUBSET Node,
                        \A m \in There(r) : r[m].parent \in C \/ r[m].parent = None => m \in C
                 PROVE  There(r) \subseteq C
    BY HangsIf
  <1>2. a \notin X /\ a # None /\ None \notin X
    <2>1. None \notin X
      BY TreeConstants DEF There
    <2>2. a \notin X
      BY NoLoop
    <2>3. QED
      BY <2>1, <2>2, TreeConstants
  <1> DEFINE D == IF a \in C THEN C \cup X ELSE C \ X
  <1>3. ASSUME NEW m \in There(t), t[m].parent \in D \/ t[m].parent = None
        PROVE  m \in D
    <2>1. CASE m \in X
      BY <1>2, <1>3, <2>1
    <2>2. CASE m \notin X /\ t[m].parent \in X
      <3>1. a \in C
        BY <1>2, <1>3, <2>2
      <3>2. m \in There(r) /\ r[m].parent = a
        BY <2>2
      <3>3. m \in C
        BY <1>1, <3>1, <3>2
      <3>4. QED
        BY <2>2, <3>3
    <2>3. CASE m \notin X /\ t[m].parent \notin X
      <3>1. m \in There(r) /\ r[m].parent = t[m].parent
        BY <2>3
      <3>2. t[m].parent \in C \/ t[m].parent = None
        BY <1>3, <2>3
      <3>3. m \in C
        BY <1>1, <3>1, <3>2
      <3>4. QED
        BY <2>3, <3>3
    <2>4. QED
      BY <2>1, <2>2, <2>3
  <1>4. There(t) \subseteq D
    <2> HIDE DEF D
    <2>1. QED
      BY <1>3, HangsIn
  <1>5. QED
    BY <1>4

\* Of what is under a node some go, and the others move to one that is not.
LEMMA DropHangs ==
  ASSUME NEW t \in Tree, Hanging(t), NEW r \in Tree, NEW B, NEW p \in There(t), p \notin B,
         \A m \in There(t) : t[m].parent \in B => m \in B,
         There(r) \subseteq There(t), There(t) \subseteq There(r) \cup B,
         \A m \in There(r) : r[m].parent = IF m \in B THEN p ELSE t[m].parent
  PROVE  Hanging(r)
  <1>1. SUFFICES ASSUME NEW C \in SUBSET Node,
                        \A m \in There(r) : r[m].parent \in C \/ r[m].parent = None => m \in C
                 PROVE  There(r) \subseteq C
    BY HangsIf
  <1> DEFINE D == C \cup B
  <1>2. \A m \in There(t) : t[m].parent \in D \/ t[m].parent = None => m \in D
    BY <1>1
  <1>3. There(t) \subseteq D
    <2> HIDE DEF D
    <2>1. QED
      BY <1>2, HangsIn
  <1>4. p \in C
    BY <1>3
  <1>5. QED
    BY <1>1, <1>3, <1>4

\* A node gets two new children, and some of its own go below those.
LEMMA SplitHangs ==
  ASSUME NEW t \in Tree, Hanging(t), NEW r \in Tree, NEW n \in There(t), NEW S, NEW g, NEW h,
         g \notin There(t), h \notin There(t), There(r) = There(t) \cup {g, h},
         r[g].parent = n, r[h].parent = n,
         \A m \in S : t[m].parent = n /\ r[m].parent \in {g, h},
         \A m \in There(t) : m \notin S => r[m].parent = t[m].parent
  PROVE  Hanging(r)
  <1>1. SUFFICES ASSUME NEW C \in SUBSET Node,
                        \A m \in There(r) : r[m].parent \in C \/ r[m].parent = None => m \in C
                 PROVE  There(r) \subseteq C
    BY HangsIf
  <1>2. n # None
    BY TreeConstants DEF There
  <1>3. n \in C => g \in C /\ h \in C
    BY <1>1
  <1>4. ASSUME NEW m \in There(t), t[m].parent \in C \/ t[m].parent = None
        PROVE  m \in C
    <2>1. CASE m \in S
      BY <1>1, <1>2, <1>3, <1>4, <2>1
    <2>2. CASE m \notin S
      BY <1>1, <1>4, <2>2
    <2>3. QED
      BY <2>1, <2>2
  <1>5. There(t) \subseteq C
    BY <1>4, HangsIn
  <1>6. QED
    BY <1>3, <1>5

\* A picture of a tree that hangs, by the same sets; and what a call asks of a
\* picture so that the tree hangs afterwards.
PClosed(pic, B) == \A n \in Node : pic[n] # None /\ pic[n][2] \in B => n \in B
Hung(pic) ==
  \A C \in SUBSET Node :
    PClosed(pic, C) /\ (\A n \in Node : pic[n] # None /\ pic[n][2] = None => n \in C)
      => \A n \in Node : pic[n] # None => n \in C
Clear(pic, a, p) == \E B \in SUBSET Node : a \in B /\ p \notin B /\ PClosed(pic, B)
Proper(pic, c) ==
  /\ c.op = "move" => /\ c.at \in Node /\ pic[c.at] # None /\ c.to \in Node /\ pic[c.to] # None
                      /\ Clear(pic, c.at, c.to)
  /\ c.op = "merge" => c.at # c.other
  /\ c.op = "drop" => c.to \in Node /\ pic[c.to] # None
HungPics == {pic \in Pictures : Hung(pic)}

\* What a picture says of a tree.
LEMMA PictureSays ==
  ASSUME NEW t \in Tree
  PROVE  /\ \A n \in Node : Picture(t)[n] # None <=> n \in There(t)
         /\ \A n \in There(t) : n \in Node /\ Picture(t)[n][2] = t[n].parent
         /\ \A C : PClosed(Picture(t), C) <=> ClosedIn(t, C)
  <1> DEFINE pic == Picture(t)
  <1>1. /\ \A n \in Node : (pic[n] = None) <=> (t[n] = None)
        /\ \A n \in There(t) : pic[n] = <<t[n].kind, t[n].parent, t[n].text>>
    BY PictureRows
  <1>2. There(t) = {n \in Node : t[n] # None}
    BY DEF There
  <1> HIDE DEF pic
  <1>3. \A n \in Node : pic[n] # None <=> n \in There(t)
    BY <1>1, <1>2
  <1>4. \A n \in There(t) : n \in Node /\ pic[n][2] = t[n].parent
    BY <1>1, <1>2
  <1>5. \A C : PClosed(pic, C) <=> ClosedIn(t, C)
    BY <1>3, <1>4 DEF PClosed, ClosedIn
  <1>6. QED
    BY <1>3, <1>4, <1>5 DEF pic

\* A tree hangs from its roots if its picture does.
LEMMA HungHanging ==
  ASSUME NEW t \in Tree
  PROVE  /\ Hung(Picture(t)) <=> Hanging(t)
         /\ Picture(t) \in HungPics <=> Hangs(t)
  <1> DEFINE pic == Picture(t)
  <1>1. /\ \A n \in Node : pic[n] # None <=> n \in There(t)
        /\ \A n \in There(t) : n \in Node /\ pic[n][2] = t[n].parent
        /\ \A C : PClosed(pic, C) <=> ClosedIn(t, C)
    BY PictureSays
  <1>2. pic \in Pictures
    BY PictureRows
  <1>3. Hanging(t) <=> Hangs(t)
    BY HangingHangs
  <1> HIDE DEF pic
  <1>4. ASSUME NEW C
        PROVE  /\ (\A n \in Node : pic[n] # None /\ pic[n][2] = None => n \in C) <=> Roots(t) \subseteq C
               /\ (\A n \in Node : pic[n] # None => n \in C) <=> There(t) \subseteq C
    BY <1>1 DEF Roots
  <1>5. Hung(pic) <=> Hanging(t)
    BY <1>1, <1>4 DEF Hung, Hanging
  <1>6. QED
    BY <1>2, <1>3, <1>5 DEF HungPics, pic

\* Who is there after a call that moves and takes away, and below whom.
LEMMA ShapedRows ==
  ASSUME NEW t \in Tree, NEW c \in AnyCall, Fits(t, c), c.op \in Shaping
  PROVE  /\ Apply(t, c) \in Tree /\ There(Apply(t, c)) = There(t) \ Taken(t, c)
         /\ \A m \in There(Apply(t, c)) : Apply(t, c)[m].parent =
              IF m \in DOMAIN Moved(t, c) THEN Moved(t, c)[m] ELSE t[m].parent
  <1> DEFINE r == Apply(t, c)
             X == Taken(t, c)
             M == Moved(t, c)
  <1>1. /\ r \in Tree
        /\ \A n \in Node : r[n] = IF t[n] = None \/ n \in X THEN None ELSE
             [kind |-> t[n].kind, parent |-> IF n \in DOMAIN M THEN M[n] ELSE t[n].parent,
              text |-> t[n].text, mine |-> t[n].mine]
    BY ApplyRows
  <1>2. /\ There(r) = {n \in Node : r[n] # None} /\ There(t) = {n \in Node : t[n] # None}
    BY DEF There
  <1>3. There(r) = There(t) \ X
    <2>1. \A n \in Node : r[n] # None => r[n] \in Row
      BY <1>1, <1>2, TreeRows
    <2>2. M \in MoveMap
      BY MovedTypes
    <2>3. \A n \in There(t) : t[n].kind \in Kind /\ t[n].parent \in Node \cup {None}
                              /\ t[n].text \in Text /\ t[n].mine \in BOOLEAN /\ n \in Node
      BY <1>2, TreeRows
    <2> HIDE DEF M, X, r
    <2>4. \A n \in DOMAIN M : M[n] \in Node \cup {None}
      BY <2>2 DEF MoveMap
    <2>5. ASSUME NEW n \in There(t), n \notin X
          PROVE  r[n] # None
      <3> DEFINE q == IF n \in DOMAIN M THEN M[n] ELSE t[n].parent
      <3>1. q \in Node \cup {None}
        BY <2>3, <2>4
      <3>2. r[n] = [kind |-> t[n].kind, parent |-> q, text |-> t[n].text, mine |-> t[n].mine]
        BY <1>1, <1>2, <2>5
      <3> HIDE DEF q
      <3>3. r[n] \in Row
        BY <2>3, <3>1, <3>2 DEF Row
      <3>4. QED
        BY <3>3, TreeConstants
    <2>6. QED
      BY <1>1, <1>2, <2>5
  <1>4. \A m \in There(r) : r[m].parent = IF m \in DOMAIN M THEN M[m] ELSE t[m].parent
    <2>1. TAKE m \in There(r)
    <2>2. m \in Node /\ t[m] # None /\ m \notin X
      BY <1>2, <1>3
    <2> HIDE DEF M, X, r
    <2>3. r[m] = [kind |-> t[m].kind, parent |-> IF m \in DOMAIN M THEN M[m] ELSE t[m].parent,
                  text |-> t[m].text, mine |-> t[m].mine]
      BY <1>1, <2>2
    <2>4. QED
      BY <2>3
  <1>5. QED
    BY <1>1, <1>3, <1>4

\* A verb's call leaves a tree that hangs, and so does the model's naming.
LEMMA CallHangs ==
  ASSUME NEW t \in Tree, Hanging(t), NEW c \in AnyCall, Fits(t, c), c.op \in Simple \cup {"name"},
         Proper(Picture(t), c), c.op = "drop" => c.to \notin Below(t, c.at)
  PROVE  Hanging(Apply(t, c))
  <1> DEFINE r == Apply(t, c)
             X == Taken(t, c)
             M == Moved(t, c)
             a == c.at
  <1>1. r \in Tree
    BY ApplyRows
  <1>2. c.op \in Shaping => /\ There(r) = There(t) \ X
                            /\ \A m \in There(r) : r[m].parent = IF m \in DOMAIN M THEN M[m] ELSE t[m].parent
    BY ShapedRows
  <1>3. There(t) \subseteq Node
    BY DEF There
  <1>4. /\ c.op = "move" => a \in There(t) /\ c.to \in There(t) /\ Clear(Picture(t), a, c.to)
        /\ c.op = "merge" => a # c.other
        /\ c.op = "drop" => c.to \in There(t)
    BY PictureSays DEF Proper
  <1>5. /\ c.op \in {"rename", "name"} => a \in Node
        /\ c.op = "move" => a \in Node /\ c.to \in Node
        /\ c.op = "merge" => a \in Node /\ c.other \in Node
        /\ c.op = "merge_up" => a \in Node
        /\ c.op = "drop" => a \in Node /\ c.to \in Node
    BY <1>3, <1>4, CallFields
  <1>6. CASE c.op \in {"rename", "name"}
    <2>1. \A n \in Node : t[n] = None => r[n] = None
      <3>1. TAKE n \in Node
      <3>2. HAVE t[n] = None
      <3>3. t[a] # None
        BY <1>6, ApplyRows
      <3>4. n # a
        BY <3>2, <3>3
      <3>5. r[n] = t[n]
        <4>1. CASE c.op = "rename"
          <5>1. \A m \in Node : r[m] = IF m # c.at THEN t[m] ELSE
                  [kind |-> t[m].kind, parent |-> t[m].parent, text |-> c.text, mine |-> TRUE]
            BY <4>1, ApplyRows
          <5> HIDE DEF r
          <5>2. QED
            BY <3>4, <5>1
        <4>2. CASE c.op = "name"
          <5>1. \A m \in Node : r[m] = IF m # c.at \/ t[m].mine THEN t[m] ELSE
                  [kind |-> t[m].kind, parent |-> t[m].parent, text |-> c.text, mine |-> t[m].mine]
            BY <4>2, ApplyRows
          <5> HIDE DEF r
          <5>2. QED
            BY <3>4, <5>1
        <4>3. QED
          BY <1>6, <4>1, <4>2
      <3>6. QED
        BY <3>2, <3>5
    <2>2. ASSUME NEW n \in There(t)
          PROVE  n \in There(r) /\ r[n].parent = t[n].parent
      <3>1. n \in Node /\ t[n] # None /\ t[n] \in Row
        BY <2>2, <1>3, TreeRows
      <3>2. \/ r[n] = t[n]
            \/ r[n] = [kind |-> t[n].kind, parent |-> t[n].parent, text |-> c.text, mine |-> TRUE]
            \/ r[n] = [kind |-> t[n].kind, parent |-> t[n].parent, text |-> c.text, mine |-> t[n].mine]
        BY <1>6, <3>1, ApplyRows
      <3>3. c.text \in Text
        BY <1>6, CallFields
      <3>4. t[n].kind \in Kind /\ t[n].parent \in Node \cup {None} /\ t[n].mine \in BOOLEAN
        BY <2>2, <3>1, TreeRows
      <3> HIDE DEF r
      <3>5. r[n] \in Row /\ r[n].parent = t[n].parent
        <4>1. CASE r[n] = t[n]
          BY <3>1, <4>1
        <4>2. ASSUME NEW b \in BOOLEAN,
                     r[n] = [kind |-> t[n].kind, parent |-> t[n].parent, text |-> c.text, mine |-> b]
              PROVE  r[n] \in Row /\ r[n].parent = t[n].parent
          BY <3>3, <3>4, <4>2 DEF Row
        <4>3. QED
          BY <3>2, <3>4, <4>1, <4>2
      <3>6. QED
        BY <3>1, <3>5, TreeConstants DEF There
    <2>3. There(r) = There(t)
      BY <1>3, <2>1, <2>2 DEF There
    <2> HIDE DEF r
    <2>4. Hanging(r)
      BY <1>1, <2>2, <2>3, SameHangs
    <2>5. QED
      BY <2>4 DEF r
  <1>7. CASE c.op = "move"
    <2>1. X = {} /\ M = ToOne({a}, c.to)
      BY <1>7 DEF Taken, Moved
    <2>2. DOMAIN M = {a} /\ M[a] = c.to
      BY <1>5, <1>7, <2>1, MoveTypes
    <2>3. PICK B \in SUBSET Node : a \in B /\ c.to \notin B /\ PClosed(Picture(t), B)
      BY <1>4, <1>7 DEF Clear
    <2>4. \A m \in There(t) : t[m].parent \in B => m \in B
      BY <2>3, PictureSays DEF ClosedIn
    <2>5. c.op \in Shaping
      BY <1>7 DEF Shaping
    <2> HIDE DEF r, M, X, a
    <2>6. There(r) = There(t) /\ \A m \in There(t) : r[m].parent = IF m = a THEN c.to ELSE t[m].parent
      BY <1>2, <2>1, <2>2, <2>5
    <2>7. Hanging(r)
      BY <1>1, <1>4, <1>7, <2>3, <2>4, <2>6, MoveHangs
    <2>8. QED
      BY <2>7 DEF r
  <1>8. CASE c.op = "merge"
    <2> DEFINE o == c.other
    <2>1. X = {o} /\ M = ToOne(Children(t, o), a)
      BY <1>8 DEF Taken, Moved
    <2>2. Children(t, o) \subseteq Node
      BY <1>3 DEF Children
    <2>3. DOMAIN M = Children(t, o) /\ \A m \in Children(t, o) : M[m] = a
      BY <1>5, <1>8, <2>1, <2>2, MoveTypes
    <2>4. a \in There(t) /\ o \in There(t) /\ t[a].parent = t[o].parent /\ a # o
      BY <1>4, <1>5, <1>8 DEF Fits, There
    <2>5. c.op \in Shaping
      BY <1>8 DEF Shaping
    <2>6. \A m \in There(t) : m \in Children(t, o) <=> t[m].parent = o
      BY DEF Children
    <2> HIDE DEF r, M, X, a, o
    <2>7. There(r) = There(t) \ {o} /\ \A m \in There(r) : r[m].parent = IF t[m].parent = o THEN a ELSE t[m].parent
      BY <1>2, <2>1, <2>3, <2>5, <2>6
    <2>8. Hanging(r)
      BY <1>1, <2>4, <2>7, MergeHangs
    <2>9. QED
      BY <2>8 DEF r
  <1>9. CASE c.op = "merge_up"
    <2> DEFINE W == Grandchildren(t, a)
    <2>1. X = Absorbed(t, a) /\ M = ToOne(W, a)
      BY <1>9 DEF Taken, Moved
    <2>2. W \subseteq Node
      BY <1>3, TreeSets
    <2>3. DOMAIN M = W /\ \A m \in W : M[m] = a
      BY <1>5, <1>9, <2>1, <2>2, MoveTypes
    <2>4. \A m \in X : m \in There(t) /\ t[m].parent = a
      BY <2>1 DEF Absorbed, Children
    <2>5. \A m \in There(t) : m \in W <=> t[m].parent \in X
      BY <2>1 DEF Grandchildren, Children
    <2>6. c.op \in Shaping
      BY <1>9 DEF Shaping
    <2> HIDE DEF r, M, X, a, W
    <2>7. There(r) = There(t) \ X /\ \A m \in There(r) : r[m].parent = IF t[m].parent \in X THEN a ELSE t[m].parent
      BY <1>2, <2>3, <2>5, <2>6
    <2>8. Hanging(r)
      BY <1>1, <1>5, <1>9, <2>4, <2>7, MergeUpHangs
    <2>9. QED
      BY <2>8 DEF r
  <1>10. CASE c.op = "drop"
    <2> DEFINE B == Below(t, a)
               W == Leaves(t, a)
    <2>1. X = Dropped(t, a) /\ M = ToOne(W, c.to)
      BY <1>10 DEF Taken, Moved
    <2>2. W \subseteq Node
      BY <1>3, TreeSets
    <2>3. DOMAIN M = W /\ \A m \in W : M[m] = c.to
      BY <1>5, <1>10, <2>1, <2>2, MoveTypes
    <2>4. c.to \in There(t) /\ c.to \notin B
      BY <1>4, <1>10
    <2>5. \A m \in There(t) : t[m].parent \in B => m \in B
      <3>1. {a} \in SUBSET Node
        BY <1>5, <1>10
      <3>2. ClosedIn(t, Under(t, {a}))
        BY <3>1, UnderLeast
      <3>3. QED
        BY <3>2 DEF ClosedIn, Below
    <2>6. W = B \cap OfKind(t, "leaf") /\ X = B \ OfKind(t, "leaf")
      BY <2>1 DEF Leaves, Dropped
    <2>7. c.op \in Shaping
      BY <1>10 DEF Shaping
    <2> HIDE DEF r, M, X, a, W, B
    <2>8. There(r) \subseteq There(t) /\ There(t) \subseteq There(r) \cup B
      BY <1>2, <2>6, <2>7
    <2>9. \A m \in There(r) : r[m].parent = IF m \in B THEN c.to ELSE t[m].parent
      BY <1>2, <2>3, <2>6, <2>7
    <2>10. Hanging(r)
      BY <1>1, <2>4, <2>5, <2>8, <2>9, DropHangs
    <2>11. QED
      BY <2>10 DEF r
  <1>11. QED
    BY <1>6, <1>7, <1>8, <1>9, <1>10 DEF Simple

-----------------------------------------------------------------------------
(* What the lists hold can be done on trees that hang.                     *)

\* A verb's call before anything is saved; and every list ends a verb.
Starts(s) == Len(s) = 2 /\ s[1].op \in Simple /\ s[2].op = "finish"
Closing(s) == Len(s) > 0 => s[Len(s)].op = "finish"

\* An entry whose call can be redone on what it found, and lists of these; the
\* entry a pop is due for is left out.
EntryWell(e) == Hung(e.before) /\ Proper(e.before, e.call)
AllWell(l) == \A k \in 1..Len(l) : EntryWell(l[k])
LogWell(l, s) == \A k \in 1..Len(l) : EntryWell(l[k]) \/ (k = Len(l) /\ Pops(s))
ItemWell(s, i) ==
  /\ s[i].op = "record" => EntryWell(s[i].entry) \/ (i + 1 \in 1..Len(s) /\ s[i + 1].op = "pop")
  /\ s[i].op = "finish" => AllWell(s[i].redo)
TodoWell(s) == \A i \in 1..Len(s) : ItemWell(s, i)

\* What is left of a list.
LEMMA WellTail ==
  ASSUME NEW s \in Seq(Items), s # <<>>, TodoWell(s)
  PROVE  /\ TodoWell(Tail(s))
         /\ Head(s).op = "record" => EntryWell(Head(s).entry) \/ Pops(Tail(s))
         /\ Head(s).op = "finish" => AllWell(Head(s).redo)
  <1> DEFINE u == Tail(s)
             n == Len(s)
             h == Head(s)
  <1>1. /\ n \in Nat /\ n > 0 /\ h = s[1] /\ u \in Seq(Items) /\ Len(u) = n - 1
        /\ \A i \in 1..(n - 1) : u[i] = s[i + 1]
    BY TailOf
  <1>2. \A i \in 1..n : /\ s[i].op = "record" => EntryWell(s[i].entry) \/ (i + 1 \in 1..n /\ s[i + 1].op = "pop")
                        /\ s[i].op = "finish" => AllWell(s[i].redo)
    BY DEF TodoWell, ItemWell
  <1>3. u # <<>> => Head(u) = u[1]
    BY <1>1
  <1>4. Len(<<>>) = 0
    OBVIOUS
  <1> HIDE DEF u, n, h
  <1>5. ASSUME NEW i \in 1..(n - 1)
        PROVE  ItemWell(u, i)
    <2>1. i + 1 \in 1..n /\ u[i] = s[i + 1]
      BY <1>1
    <2>2. i + 2 \in 1..n => i + 1 \in 1..(n - 1) /\ u[i + 1] = s[i + 2]
      BY <1>1
    <2>3. (i + 1) + 1 = i + 2
      BY <1>1
    <2>4. u[i].op = "finish" => AllWell(u[i].redo)
      BY <1>2, <2>1
    <2>5. u[i].op = "record" => EntryWell(u[i].entry) \/ (i + 2 \in 1..n /\ s[i + 2].op = "pop")
      BY <1>2, <2>1, <2>3
    <2>6. QED
      BY <1>1, <2>2, <2>4, <2>5 DEF ItemWell
  <1>6. h.op = "record" => EntryWell(h.entry) \/ Pops(u)
    <2>1. 1 \in 1..n /\ 1 + 1 = 2
      BY <1>1
    <2>2. h.op = "record" => EntryWell(h.entry) \/ (2 \in 1..n /\ s[2].op = "pop")
      BY <1>1, <1>2, <2>1
    <2>3. 2 \in 1..n => Len(u) # 0 /\ u[1] = s[2]
      BY <1>1
    <2>4. QED
      BY <1>3, <1>4, <2>2, <2>3 DEF Pops
  <1>7. h.op = "finish" => AllWell(h.redo)
    <2>1. 1 \in 1..n
      BY <1>1
    <2>2. QED
      BY <1>1, <1>2, <2>1
  <1>8. TodoWell(u)
    BY <1>1, <1>5 DEF TodoWell
  <1>9. QED
    BY <1>6, <1>7, <1>8 DEF u, h

\* One item in front of a list.
LEMMA WellCons ==
  ASSUME NEW s \in Seq(Items), TodoWell(s), NEW x \in Items,
         x.op = "record" => EntryWell(x.entry) \/ Pops(s), x.op = "finish" => AllWell(x.redo)
  PROVE  TodoWell(<<x>> \o s)
  <1> DEFINE u == <<x>> \o s
             n == Len(s)
  <1>1. /\ n \in Nat /\ u \in Seq(Items) /\ Len(u) = n + 1 /\ u[1] = x
        /\ \A i \in 1..n : u[i + 1] = s[i]
    BY ConsOf
  <1>2. \A i \in 1..n : /\ s[i].op = "record" => EntryWell(s[i].entry) \/ (i + 1 \in 1..n /\ s[i + 1].op = "pop")
                        /\ s[i].op = "finish" => AllWell(s[i].redo)
    BY DEF TodoWell, ItemWell
  <1>3. Pops(s) => n > 0 /\ s[1].op = "pop"
    <2>1. s # <<>> => n > 0 /\ Head(s) = s[1]
      BY TailOf
    <2>2. QED
      BY <2>1 DEF Pops
  <1> HIDE DEF u, n
  <1>4. ItemWell(u, 1)
    <2>1. Pops(s) => 1 + 1 \in 1..(n + 1) /\ u[1 + 1] = s[1]
      BY <1>1, <1>3
    <2>2. QED
      BY <1>1, <1>3, <2>1 DEF ItemWell
  <1>5. ASSUME NEW i \in 1..n
        PROVE  ItemWell(u, i + 1)
    <2>1. u[i + 1] = s[i]
      BY <1>1
    <2>2. i + 1 \in 1..n => (i + 1) + 1 \in 1..(n + 1) /\ u[(i + 1) + 1] = s[i + 1]
      BY <1>1
    <2>3. QED
      BY <1>1, <1>2, <2>1, <2>2 DEF ItemWell
  <1>6. \A j \in 1..(n + 1) : ItemWell(u, j)
    <2>1. TAKE j \in 1..(n + 1)
    <2>2. CASE j = 1
      BY <1>4, <2>2
    <2>3. CASE j # 1
      <3>1. j - 1 \in 1..n /\ (j - 1) + 1 = j
        BY <1>1, <2>3
      <3>2. QED
        BY <1>5, <3>1
    <2>4. QED
      BY <2>2, <2>3
  <1>7. QED
    BY <1>1, <1>6 DEF TodoWell, u

\* Lists of calls that end a verb.
LEMMA WellCalls ==
  ASSUME NEW s \in Seq(Items), \A i \in 1..Len(s) : s[i].op \notin {"record", "finish"},
         NEW f \in Items, f.op = "finish", AllWell(f.redo)
  PROVE  TodoWell(s \o <<f>>) /\ Closing(s \o <<f>>)
  <1> DEFINE u == Append(s, f)
             n == Len(s)
  <1>1. s \o <<f>> = u
    BY OneBehind
  <1>2. /\ n \in Nat /\ Len(u) = n + 1 /\ u[n + 1] = f
        /\ \A i \in 1..n : u[i] = s[i]
    BY AppendOf
  <1>3. \A i \in 1..n : s[i].op \notin {"record", "finish"}
    OBVIOUS
  <1> HIDE DEF u, n
  <1>4. \A i \in 1..(n + 1) : ItemWell(u, i)
    <2>1. TAKE i \in 1..(n + 1)
    <2>2. i \in 1..n \/ i = n + 1
      BY <1>2
    <2>3. QED
      BY <1>2, <1>3, <2>2 DEF ItemWell
  <1>5. TodoWell(u)
    BY <1>2, <1>4 DEF TodoWell
  <1>6. TodoWell(u) /\ Closing(u)
    BY <1>2, <1>5 DEF Closing
  <1>7. QED
    BY <1>1, <1>6 DEF u

\* What is left of a list that ends a verb ends it.
LEMMA ClosingTail ==
  ASSUME NEW s \in Seq(Items), s # <<>>, Closing(s)
  PROVE  /\ Closing(Tail(s)) /\ (Head(s).op # "finish" => Tail(s) # <<>>)
         /\ \A x \in Items : Tail(s) # <<>> => Closing(<<x>> \o Tail(s))
  <1> DEFINE u == Tail(s)
             n == Len(s)
  <1>1. /\ n \in Nat /\ n > 0 /\ Head(s) = s[1] /\ u \in Seq(Items) /\ Len(u) = n - 1
        /\ \A i \in 1..(n - 1) : u[i] = s[i + 1]
    BY TailOf
  <1>2. s[n].op = "finish"
    BY <1>1 DEF Closing
  <1>3. u # <<>> => Len(u) > 0
    BY <1>1, TailOf
  <1>4. Len(<<>>) = 0
    OBVIOUS
  <1> HIDE DEF u, n
  <1>5. n > 1 => u[n - 1].op = "finish"
    <2>1. n > 1 => n - 1 \in 1..(n - 1) /\ (n - 1) + 1 = n
      BY <1>1
    <2>2. QED
      BY <1>1, <1>2, <2>1
  <1>6. Closing(u)
    BY <1>1, <1>5 DEF Closing
  <1>7. Head(s).op # "finish" => u # <<>>
    <2>1. Head(s).op # "finish" => n # 1
      BY <1>1, <1>2
    <2>2. n # 1 => Len(u) # 0
      BY <1>1
    <2>3. QED
      BY <1>4, <2>1, <2>2
  <1>8. ASSUME NEW x \in Items, u # <<>>
        PROVE  Closing(<<x>> \o u)
    <2> DEFINE v == <<x>> \o u
    <2>1. Len(v) = Len(u) + 1 /\ \A i \in 1..Len(u) : v[i + 1] = u[i]
      BY <1>1, ConsOf
    <2> HIDE DEF v
    <2>2. Len(v) = n /\ n - 1 \in 1..Len(u) /\ (n - 1) + 1 = n /\ n > 1
      BY <1>1, <1>3, <1>8, <2>1
    <2>3. v[n] = u[n - 1]
      BY <2>1, <2>2
    <2>4. Closing(v)
      BY <1>5, <2>2, <2>3 DEF Closing
    <2>5. QED
      BY <2>4 DEF v
  <1>9. QED
    BY <1>6, <1>7, <1>8 DEF u

\* The history and the redo stack, entry by entry.
LEMMA WellRows ==
  ASSUME NEW l \in Seq(Entries)
  PROVE  /\ AllWell(<<>>) /\ \A s : LogWell(<<>>, s)
         /\ AllWell(l) => \A s : LogWell(l, s)
         /\ \A s : LogWell(l, s) /\ ~Pops(s) => AllWell(l)
         /\ \A s : LogWell(l, s) /\ l # <<>> => AllWell(Front(l))
         /\ AllWell(l) /\ l # <<>> => AllWell(Front(l)) /\ EntryWell(Last(l))
         /\ \A e \in Entries : AllWell(l) /\ EntryWell(e) => AllWell(Append(l, e))
         /\ \A e \in Entries : \A s : AllWell(l) /\ (EntryWell(e) \/ Pops(s)) => LogWell(Append(l, e), s)
  <1> DEFINE n == Len(l)
  <1>1. n \in Nat
    OBVIOUS
  <1>2. AllWell(<<>>) /\ \A s : LogWell(<<>>, s)
    BY DEF AllWell, LogWell
  <1>3. AllWell(l) => \A s : LogWell(l, s)
    BY DEF AllWell, LogWell
  <1>4. \A s : LogWell(l, s) /\ ~Pops(s) => AllWell(l)
    BY DEF AllWell, LogWell
  <1>5. l # <<>> => /\ Last(l) = l[n] /\ n \in 1..n /\ Len(Front(l)) = n - 1
                    /\ \A i \in 1..(n - 1) : Front(l)[i] = l[i] /\ i \in 1..n /\ i # n
    BY FrontOf
  <1>6. \A e \in Entries : /\ Len(Append(l, e)) = n + 1 /\ Append(l, e)[n + 1] = e
                           /\ \A i \in 1..n : Append(l, e)[i] = l[i]
    BY AppendOf
  <1>7. \A s : LogWell(l, s) /\ l # <<>> => AllWell(Front(l))
    <2> HIDE DEF n
    <2>1. \A s : LogWell(l, s) => \A i \in 1..n : EntryWell(l[i]) \/ i = n
      BY DEF LogWell, n
    <2>2. QED
      BY <1>5, <2>1 DEF AllWell
  <1>8. AllWell(l) /\ l # <<>> => AllWell(Front(l)) /\ EntryWell(Last(l))
    <2> HIDE DEF n
    <2>1. AllWell(l) => \A i \in 1..n : EntryWell(l[i])
      BY DEF AllWell, n
    <2>2. QED
      BY <1>5, <2>1 DEF AllWell
  <1>9. ASSUME NEW e \in Entries, NEW s, AllWell(l)
        PROVE  /\ EntryWell(e) => AllWell(Append(l, e))
               /\ EntryWell(e) \/ Pops(s) => LogWell(Append(l, e), s)
    <2> DEFINE q == Append(l, e)
    <2>1. Len(q) = n + 1 /\ q[n + 1] = e /\ \A i \in 1..n : q[i] = l[i] /\ EntryWell(l[i])
      BY <1>6, <1>9 DEF AllWell
    <2>2. \A i \in 1..(n + 1) : i \in 1..n \/ i = n + 1
      BY <1>1
    <2> HIDE DEF q, n
    <2>3. EntryWell(e) => AllWell(q)
      BY <2>1, <2>2 DEF AllWell
    <2>4. EntryWell(e) \/ Pops(s) => LogWell(q, s)
      BY <2>1, <2>2 DEF LogWell
    <2>5. QED
      BY <2>3, <2>4 DEF q
  <1>10. QED
    BY <1>2, <1>3, <1>4, <1>7, <1>8, <1>9

\* What is left of a list that has begun is no verb that has not.
LEMMA BegunIsBegun ==
  ASSUME NEW s \in Seq(Items), s # <<>>, NEW l, NEW pic, NEW G,
         Kept(l, s, pic, G) \/ Und(l, s, pic, G) \/ Fwd(l, s, pic)
  PROVE  ~Starts(Tail(s))
  <1> DEFINE u == Tail(s)
             n == Len(s)
  <1>1. /\ n \in Nat /\ n > 0 /\ Len(u) = n - 1
        /\ \A i \in 1..(n - 1) : u[i] = s[i + 1]
    BY TailOf
  <1>2. Fwd(l, s, pic) => n = 2
    BY DEF Fwd
  <1>3. Und(l, s, pic, G) =>
          \A i \in 1..n : /\ s[i].op \in Backs \cup Off
                          /\ s[i].op \in {"rename", "move", "record"} => i + 1 \in 1..n /\ s[i + 1].op = "pop"
    BY DEF Und, UndoOrder
  <1>4. Kept(l, s, pic, G) => \E k \in 1..n : s[k].op = "record" /\ n = k + 1
    BY DEF Kept
  <1> HIDE DEF u, n
  <1>5. SUFFICES ASSUME Starts(u)
                 PROVE  FALSE
    BY DEF u
  <1>6. n = 3 /\ s[2].op \in Simple /\ s[3].op = "finish"
    <2>1. Len(u) = 2 /\ u[1].op \in Simple /\ u[2].op = "finish"
      BY <1>5 DEF Starts
    <2>2. n = 3
      <3>1. Len(u) = 2 /\ Len(u) = n - 1 /\ n \in Nat
        BY <1>1, <2>1
      <3> DEFINE k == Len(u)
      <3>2. k = 2 /\ k = n - 1
        BY <3>1
      <3> HIDE DEF k
      <3>3. QED
        BY <3>1, <3>2
    <2>3. u[1] = s[1 + 1] /\ u[2] = s[2 + 1]
      BY <1>1, <2>2
    <2>4. 1 + 1 = 2 /\ 2 + 1 = 3
      OBVIOUS
    <2>5. QED
      BY <2>1, <2>2, <2>3, <2>4
  <1>7. ~Fwd(l, s, pic)
    BY <1>2, <1>6
  <1>8. ~Kept(l, s, pic, G)
    <2>1. SUFFICES ASSUME Kept(l, s, pic, G)
                   PROVE  FALSE
      OBVIOUS
    <2>2. PICK k \in 1..n : s[k].op = "record" /\ n = k + 1
      BY <1>4, <2>1
    <2>3. k = 2
      BY <1>6, <2>2
    <2>4. QED
      BY <1>6, <2>2, <2>3 DEF Simple
  <1>9. ~Und(l, s, pic, G)
    <2>1. SUFFICES ASSUME Und(l, s, pic, G)
                   PROVE  FALSE
      OBVIOUS
    <2>2. 2 \in 1..n /\ 2 + 1 = 3
      BY <1>6
    <2>3. s[2].op \in Backs \cup Off /\ (s[2].op \in {"rename", "move", "record"} => s[3].op = "pop")
      BY <1>3, <2>1, <2>2
    <2>4. QED
      BY <1>6, <2>3 DEF Simple, Backs, Off
  <1>10. QED
    BY <1>7, <1>8, <1>9

\* Nor is an undo.
LEMMA UndoIsBegun ==
  ASSUME NEW s, UndoOrder(s)
  PROVE  ~Starts(s)
  <1>1. SUFFICES ASSUME Starts(s)
                 PROVE  FALSE
    OBVIOUS
  <1>2. Len(s) = 2 /\ s[1].op \in Simple /\ s[2].op = "finish" /\ 1 \in 1..2 /\ 1 + 1 = 2
    BY <1>1 DEF Starts
  <1>3. s[1].op \in Backs \cup Off /\ (s[1].op \in {"rename", "move", "record"} => s[2].op = "pop")
    BY <1>2 DEF UndoOrder
  <1>4. QED
    BY <1>2, <1>3 DEF Simple, Backs, Off

\* Pictures of one shape have the same nodes below the same.
LEMMA ShapeSays ==
  ASSUME NEW p \in Pictures, NEW q \in Pictures, Shape(p) = Shape(q), NEW n \in Node
  PROVE  /\ p[n] = None <=> q[n] = None
         /\ p[n] # None => p[n][2] = q[n][2]
  <1> DEFINE a == IF p[n] = None THEN None ELSE <<p[n][1], p[n][2]>>
             b == IF q[n] = None THEN None ELSE <<q[n][1], q[n][2]>>
  <1>1. a = b
    <2>1. Shape(p)[n] = a /\ Shape(q)[n] = b
      BY DEF Shape
    <2>2. QED
      BY <2>1
  <1>2. p[n] # None => <<p[n][1], p[n][2]>> # None
    BY PicRows, RowNotNone
  <1>3. q[n] # None => <<q[n][1], q[n][2]>> # None
    BY PicRows, RowNotNone
  <1>4. p[n] = None <=> q[n] = None
    BY <1>1, <1>2, <1>3
  <1>5. p[n] # None => <<p[n][1], p[n][2]>> = <<q[n][1], q[n][2]>>
    BY <1>1, <1>4
  <1>6. QED
    BY <1>4, <1>5

\* What a call asks is a matter of the shape.
LEMMA ProperByShape ==
  ASSUME NEW p \in Pictures, NEW q \in Pictures, Shape(p) = Shape(q), NEW c, Proper(p, c)
  PROVE  Proper(q, c)
  <1>1. \A n \in Node : /\ p[n] = None <=> q[n] = None
                        /\ p[n] # None => p[n][2] = q[n][2]
    BY ShapeSays
  <1>2. \A B : PClosed(p, B) => PClosed(q, B)
    BY <1>1 DEF PClosed
  <1>3. \A x, y : Clear(p, x, y) => Clear(q, x, y)
    BY <1>2 DEF Clear
  <1>4. QED
    BY <1>1, <1>3 DEF Proper

SameShape == Shape(Picture(shown)) = Shape(Picture(tree))

\* What the sidebar offers is proper if it shows the tree as it is.
LEMMA OfferedIsProper ==
  ASSUME TypeOK, SameShape, NEW c \in AnyCall, Offered(c)
  PROVE  Proper(Picture(tree), c)
  <1>1. shown \in Tree /\ tree \in Tree
    BY DEF TypeOK
  <1>2. Proper(Picture(shown), c)
    <2> DEFINE pic == Picture(shown)
    <2>1. /\ \A n \in Node : pic[n] # None <=> n \in There(shown)
          /\ \A n \in There(shown) : n \in Node
          /\ \A C : PClosed(pic, C) <=> ClosedIn(shown, C)
      BY <1>1, PictureSays
    <2> HIDE DEF pic
    <2>2. c.op = "move" => Clear(pic, c.at, c.to)
      <3>1. SUFFICES ASSUME c.op = "move"
                     PROVE  Clear(pic, c.at, c.to)
        OBVIOUS
      <3>2. c.at \in Node /\ c.to \notin Below(shown, c.at)
        BY <2>1, <3>1 DEF Offered
      <3> DEFINE S == {c.at}
                 B == Under(shown, S)
      <3>3. S \in SUBSET Node /\ There(shown) \subseteq Node
        BY <2>1, <3>2
      <3>4. S \subseteq B /\ B \subseteq S \cup There(shown) /\ ClosedIn(shown, B)
        <4> HIDE DEF S
        <4>1. QED
          BY <1>1, <3>3, UnderLeast
      <3>5. B = Below(shown, c.at) /\ c.at \in S
        BY DEF Below
      <3> HIDE DEF S, B
      <3>6. B \in SUBSET Node /\ c.at \in B /\ c.to \notin B /\ PClosed(pic, B)
        BY <2>1, <3>2, <3>3, <3>4, <3>5
      <3>7. QED
        BY <3>6 DEF Clear
    <2>3. /\ c.op = "move" => c.at \in There(shown) /\ c.to \in There(shown)
          /\ c.op = "merge" => c.at # c.other
          /\ c.op = "drop" => c.to \in There(shown)
      BY DEF Offered
    <2>4. Proper(pic, c)
      BY <2>1, <2>2, <2>3 DEF Proper
    <2>5. QED
      BY <2>4 DEF pic
  <1>3. Picture(shown) \in Pictures /\ Picture(tree) \in Pictures
    BY <1>1, PictureRows
  <1>4. QED
    BY <1>2, <1>3, ProperByShape DEF SameShape

\* A naming leaves the shape.
LEMMA NameKeepsShape ==
  ASSUME NEW t \in Tree, NEW c \in AnyCall, Fits(t, c), c.op = "name"
  PROVE  Shape(Picture(Apply(t, c))) = Shape(Picture(t))
  <1> DEFINE r == Apply(t, c)
             p == Picture(t)
             q == Picture(r)
  <1>1. /\ r \in Tree /\ t[c.at] # None
        /\ \A n \in Node : r[n] = IF n # c.at \/ t[n].mine THEN t[n] ELSE
             [kind |-> t[n].kind, parent |-> t[n].parent, text |-> c.text, mine |-> t[n].mine]
    BY ApplyRows
  <1>2. c.text \in Text
    BY CallFields
  <1> HIDE DEF r
  <1>3. /\ \A n \in Node : (p[n] = None) <=> (t[n] = None)
        /\ \A n \in There(t) : p[n] = <<t[n].kind, t[n].parent, t[n].text>>
    BY PictureRows
  <1>4. /\ \A n \in Node : (q[n] = None) <=> (r[n] = None)
        /\ \A n \in There(r) : q[n] = <<r[n].kind, r[n].parent, r[n].text>>
    BY <1>1, PictureRows
  <1> HIDE DEF p, q
  <1>5. ASSUME NEW n \in Node
        PROVE  /\ p[n] = None <=> q[n] = None
               /\ p[n] # None => p[n][1] = q[n][1] /\ p[n][2] = q[n][2]
    <2>1. t[n] = None => r[n] = t[n]
      BY <1>1
    <2>2. t[n] # None => r[n] # None /\ r[n].kind = t[n].kind /\ r[n].parent = t[n].parent
      <3>1. SUFFICES ASSUME t[n] # None
                     PROVE  r[n] # None /\ r[n].kind = t[n].kind /\ r[n].parent = t[n].parent
        OBVIOUS
      <3>2. n \in There(t)
        BY <3>1 DEF There
      <3>3. t[n].kind \in Kind /\ t[n].parent \in Node \cup {None} /\ t[n].mine \in BOOLEAN
        BY <3>2, TreeRows
      <3>4. CASE r[n] = t[n]
        BY <3>1, <3>4
      <3>5. CASE r[n] = [kind |-> t[n].kind, parent |-> t[n].parent, text |-> c.text, mine |-> t[n].mine]
        <4>1. r[n] \in Row /\ r[n].kind = t[n].kind /\ r[n].parent = t[n].parent
          BY <1>2, <3>3, <3>5 DEF Row
        <4>2. QED
          BY <4>1, TreeConstants
      <3>6. QED
        BY <1>1, <3>4, <3>5
    <2>3. p[n] # None => p[n] = <<t[n].kind, t[n].parent, t[n].text>>
      BY <1>3 DEF There
    <2>4. q[n] # None => q[n] = <<r[n].kind, r[n].parent, r[n].text>>
      BY <1>4 DEF There
    <2>5. p[n] = None <=> q[n] = None
      BY <1>3, <1>4, <2>1, <2>2
    <2>6. p[n] # None => /\ p[n][1] = t[n].kind /\ p[n][2] = t[n].parent
                         /\ q[n][1] = r[n].kind /\ q[n][2] = r[n].parent
      BY <2>3, <2>4, <2>5
    <2>7. QED
      BY <1>3, <2>2, <2>5, <2>6
  <1>6. Shape(p) = Shape(q)
    BY <1>5 DEF Shape
  <1>7. QED
    BY <1>6 DEF p, q, r

\* The sidebar shows the shape there is, a verb that begins can be done, and
\* what the lists hold could be done on what it was done on.
HangRest ==
  /\ Closing(act["ui"].todo)
  /\ (act["ui"].todo = <<>> \/ Starts(act["ui"].todo)) => SameShape
  /\ Starts(act["ui"].todo) => Picture(tree) \in HungPics /\ Proper(Picture(tree), act["ui"].todo[1])
  /\ LogWell(log, act["ui"].todo) /\ AllWell(redo)
  /\ TodoWell(act["ui"].todo) /\ TodoWell(act["llm"].todo)

\* The UI thread goes on with the rest of its list, or with a record before it.
LEMMA HangGoesOn ==
  ASSUME TypeOK, HangRest, act["ui"].todo # <<>>, Head(act["ui"].todo).op # "finish",
         Play(HungPics),
         \/ act'["ui"].todo = Tail(act["ui"].todo)
         \/ \E e \in Entries : /\ act'["ui"].todo = <<Record(e)>> \o Tail(act["ui"].todo)
                               /\ EntryWell(e) \/ Pops(Tail(act["ui"].todo)),
         act'["llm"].todo = act["llm"].todo, redo' = redo, LogWell(log', act'["ui"].todo)
  PROVE  HangRest'
  <1> DEFINE s == act["ui"].todo
             u == Tail(s)
             v == act'["ui"].todo
             pic == Picture(tree)
  <1>1. s \in Seq(Items) /\ Closing(s) /\ TodoWell(s) /\ AllWell(redo) /\ TodoWell(act["llm"].todo)
    BY TodoOf DEF TypeOK, HangRest, Actors
  <1>2. Kept(log, s, pic, HungPics) \/ Und(log, s, pic, HungPics) \/ Fwd(log, s, pic)
    BY DEF Play, InPlay
  <1> HIDE DEF s, pic
  <1>3. s # <<>> /\ Head(s).op # "finish"
    BY DEF s
  <1>4. ~Starts(u)
    BY <1>1, <1>2, <1>3, BegunIsBegun
  <1>5. Closing(u) /\ u # <<>> /\ \A x \in Items : Closing(<<x>> \o u)
    BY <1>1, <1>3, ClosingTail
  <1>6. TodoWell(u) /\ u \in Seq(Items)
    BY <1>1, <1>3, WellTail, TailOf
  <1> HIDE DEF u
  <1>7. Closing(v) /\ v # <<>> /\ ~Starts(v) /\ TodoWell(v)
    <2>1. CASE v = u
      BY <1>4, <1>5, <1>6, <2>1
    <2>2. ASSUME NEW e \in Entries, v = <<Record(e)>> \o u, EntryWell(e) \/ Pops(u)
          PROVE  Closing(v) /\ v # <<>> /\ ~Starts(v) /\ TodoWell(v)
      <3> DEFINE x == Record(e)
                 w == <<x>> \o u
      <3>1. x \in Items /\ x.op = "record" /\ x.entry = e
        BY DEF Items, Record
      <3> HIDE DEF x
      <3>2. TodoWell(w) /\ Closing(w)
        BY <1>5, <1>6, <2>2, <3>1, WellCons
      <3>3. w # <<>> /\ Head(w) = x /\ w[1] = x
        BY <1>6, <3>1, HeadOfCons, ConsOf
      <3> HIDE DEF w
      <3>4. ~Starts(w)
        BY <3>1, <3>3 DEF Starts, Simple
      <3>5. v = w
        BY <2>2 DEF w, x
      <3>6. QED
        BY <3>2, <3>3, <3>4, <3>5
    <2>3. v = u \/ \E e \in Entries : v = <<Record(e)>> \o u /\ (EntryWell(e) \/ Pops(u))
      BY DEF s, u
    <2>4. QED
      BY <2>1, <2>2, <2>3
  <1>8. QED
    BY <1>1, <1>7 DEF HangRest

\* A save of the user's.
LEMMA HangSaveUi ==
  ASSUME TypeOK, InOrder, HangRest, Play(HungPics), Save("ui"), tree = Loaded("ui")
  PROVE  HangRest'
  <1> DEFINE s == act["ui"].todo
             u == Tail(s)
             c == Next1("ui")
             pic == Picture(tree)
             e == Entry(tree, c)
  <1>1. "ui" \in Actors /\ "llm" \in Actors
    BY DEF Actors
  <1>2. /\ c \in AnyCall /\ s # <<>> /\ Fits(tree, c)
        /\ act'["ui"].todo = Recording(tree, c) \o u
        /\ act'["llm"] = act["llm"]
        /\ Logs(tree, c) => e \in Entries
    <2>1. /\ Loaded("ui") \in Tree /\ c \in AnyCall /\ s # <<>> /\ Fits(Loaded("ui"), c)
          /\ act'["ui"] = [todo |-> Recording(Loaded("ui"), c) \o u, doc |-> None]
          /\ \A b \in Actors : b # "ui" => act'[b] = act[b]
          /\ Logs(Loaded("ui"), c) => Entry(Loaded("ui"), c) \in Entries
      BY <1>1, SaveDoes
    <2> HIDE DEF s, u, c
    <2>2. act'["ui"].todo = Recording(Loaded("ui"), c) \o u
      BY <2>1
    <2>3. QED
      BY <1>1, <2>1, <2>2
  <1>3. c.op \notin Off /\ c = Head(s) /\ log' = log /\ redo' = redo
    BY DEF Save, Calls, Next1
  <1>4. s \in Seq(Items) /\ UiOk(s) /\ log \in Seq(Entries)
    BY <1>1, TodoOf DEF TypeOK, InOrder
  <1>5. u \in Seq(Items) /\ c = s[1]
    <2> HIDE DEF s
    <2>1. QED
      BY <1>2, <1>3, <1>4, TailOf
  <1>6. Kept(log, s, pic, HungPics) \/ Und(log, s, pic, HungPics) \/ Fwd(log, s, pic)
    BY <1>2 DEF Play, InPlay
  <1>7. Starts(s) => Hung(pic) /\ Proper(pic, c)
    BY <1>5 DEF HangRest, HungPics
  <1>8. c.op \in Simple \cup {"insert", "reparent", "remove"}
    <2>1. Calls("ui")
      BY DEF Save
    <2>2. QED
      BY <1>1, <2>1, SavedOps
  <1>9. LogWell(log, s)
    BY DEF HangRest
  <1>10. e.before = pic /\ e.call = c
    BY DEF Entry
  <1>11. Logs(tree, c) => c.op \in Simple \cup {"name"}
    BY DEF Logs, Simple
  <1> HIDE DEF pic, c, e
  <1>12. Logs(tree, c) => EntryWell(e) \/ Pops(u)
    <2>1. SUFFICES ASSUME Logs(tree, c)
                   PROVE  EntryWell(e) \/ Pops(u)
      OBVIOUS
    <2>2. c.op \in Simple
      BY <1>8, <1>11, <2>1
    <2> HIDE DEF s
    <2>3. ~Kept(log, s, pic, HungPics)
      <3>1. c.op \notin {"record", "insert", "reparent"}
        BY <2>2 DEF Simple
      <3>2. QED
        BY <1>3, <1>4, <3>1, KeptSaves
    <2>4. CASE Und(log, s, pic, HungPics)
      <3>1. UndoOrder(s)
        BY <2>4 DEF Und
      <3>2. /\ c.op \in Backs \cup Off
            /\ c.op \in {"rename", "move", "record"} => Pops(u)
        BY <1>2, <1>3, <1>4, <3>1, OrderOn
      <3>3. QED
        BY <2>2, <3>2 DEF Backs, Off, Simple
    <2>5. CASE Fwd(log, s, pic)
      <3>1. Starts(s)
        BY <2>5 DEF Fwd, Starts
      <3>2. QED
        BY <1>7, <1>10, <3>1 DEF EntryWell
    <2>6. QED
      BY <1>6, <2>3, <2>4, <2>5
  <1>13. \/ act'["ui"].todo = u
         \/ \E f \in Entries : act'["ui"].todo = <<Record(f)>> \o u /\ (EntryWell(f) \/ Pops(u))
    <2> HIDE DEF u
    <2>1. CASE Logs(tree, c)
      <3>1. Recording(tree, c) = <<Record(e)>>
        BY <2>1 DEF Recording, e
      <3>2. QED
        BY <1>2, <1>12, <2>1, <3>1
    <2>2. CASE ~Logs(tree, c)
      <3>1. Recording(tree, c) = <<>>
        BY <2>2 DEF Recording
      <3>2. act'["ui"].todo = <<>> \o u
        BY <1>2, <3>1
      <3>3. <<>> \o u = u
        BY <1>5
      <3>4. QED
        BY <3>2, <3>3
    <2>3. QED
      BY <2>1, <2>2
  <1>14. LogWell(log', act'["ui"].todo)
    <2>1. ~Pops(s)
      BY <1>3 DEF Pops, Off
    <2> HIDE DEF s
    <2>2. AllWell(log)
      BY <1>4, <1>9, <2>1, WellRows
    <2>3. QED
      BY <1>3, <1>4, <2>2, WellRows
  <1>15. Head(s).op # "finish"
    BY <1>3 DEF Off
  <1>16. QED
    BY <1>2, <1>3, <1>13, <1>14, <1>15, HangGoesOn

\* A save of the naming task's while the user rests.
LEMMA HangSaveLlm ==
  ASSUME TypeOK, InOrder, HangRest, Play(HungPics), Save("llm"), tree = Loaded("llm"),
         act["ui"].todo = <<>>
  PROVE  HangRest'
  <1> DEFINE lt == act["llm"].todo
             u == Tail(lt)
             c == Next1("llm")
             pic == Picture(tree)
             e == Entry(tree, c)
  <1>1. "ui" \in Actors /\ "llm" \in Actors
    BY DEF Actors
  <1>2. /\ tree \in Tree /\ c \in AnyCall /\ lt # <<>> /\ Fits(tree, c) /\ tree' = Apply(tree, c)
        /\ act'["llm"].todo = Recording(tree, c) \o u
        /\ act'["ui"] = act["ui"]
        /\ Logs(tree, c) => e \in Entries
    <2>1. /\ Loaded("llm") \in Tree /\ c \in AnyCall /\ lt # <<>> /\ Fits(Loaded("llm"), c)
          /\ tree' = Apply(Loaded("llm"), c)
          /\ act'["llm"] = [todo |-> Recording(Loaded("llm"), c) \o u, doc |-> None]
          /\ \A b \in Actors : b # "llm" => act'[b] = act[b]
          /\ Logs(Loaded("llm"), c) => Entry(Loaded("llm"), c) \in Entries
      BY <1>1, SaveDoes
    <2> HIDE DEF lt, u, c
    <2>2. act'["llm"].todo = Recording(Loaded("llm"), c) \o u
      BY <2>1
    <2>3. QED
      BY <1>1, <2>1, <2>2
  <1>3. UNCHANGED <<log, redo, shown>>
    BY DEF Save
  <1>4. c.op = "name"
    <2>1. Calls("llm")
      BY DEF Save
    <2>2. QED
      BY <1>1, <2>1, SavedOps
  <1>5. lt \in Seq(Items) /\ TodoWell(lt)
    BY <1>1, TodoOf DEF HangRest
  <1>6. pic \in HungPics
    <2>1. InPlay(log, <<>>, lt, pic, HungPics)
      BY DEF Play
    <2>2. pic \in Pictures
      BY <1>2, PictureRows
    <2> HIDE DEF lt, pic
    <2>3. QED
      BY <2>1, <2>2, PlayIdle
  <1>7. e.before = pic /\ e.call = c
    BY DEF Entry
  <1>8. EntryWell(e)
    BY <1>4, <1>6, <1>7 DEF EntryWell, HungPics, Proper
  <1>9. TodoWell(u) /\ u \in Seq(Items)
    <2> HIDE DEF lt
    <2>1. QED
      BY <1>2, <1>5, WellTail, TailOf
  <1>10. Shape(Picture(tree')) = Shape(Picture(tree))
    <2> HIDE DEF c
    <2>1. QED
      BY <1>2, <1>4, NameKeepsShape
  <1> HIDE DEF e, u
  <1>11. TodoWell(act'["llm"].todo)
    <2>1. CASE Logs(tree, c)
      <3> DEFINE x == Record(e)
      <3>1. x \in Items /\ x.op = "record" /\ x.entry = e
        BY <1>2, <2>1 DEF Items, Record
      <3>2. Recording(tree, c) = <<x>>
        BY <2>1 DEF Recording, e
      <3> HIDE DEF x
      <3>3. TodoWell(<<x>> \o u)
        BY <1>8, <1>9, <3>1, WellCons
      <3>4. QED
        BY <1>2, <3>2, <3>3
    <2>2. CASE ~Logs(tree, c)
      <3>1. Recording(tree, c) = <<>>
        BY <2>2 DEF Recording
      <3>2. <<>> \o u = u
        BY <1>9
      <3>3. QED
        BY <1>2, <1>9, <3>1, <3>2
    <2>3. QED
      BY <2>1, <2>2
  <1>12. act'["ui"].todo = <<>>
    BY <1>2
  <1>13. ~Starts(<<>>) /\ Closing(<<>>) /\ TodoWell(<<>>)
    BY DEF Starts, Closing, TodoWell
  <1>14. SameShape'
    BY <1>3, <1>10 DEF HangRest, SameShape
  <1>15. LogWell(log, <<>>) /\ AllWell(redo)
    BY DEF HangRest
  <1>16. QED
    BY <1>3, <1>11, <1>12, <1>13, <1>14, <1>15 DEF HangRest

\* An entry goes to the history.
LEMMA HangAppend ==
  ASSUME TypeOK, InOrder, HangRest, Play(HungPics), NEW a \in Actors, AppendHistory(a),
         a = "llm" => act["ui"].todo = <<>>
  PROVE  HangRest'
  <1> DEFINE s == act["ui"].todo
             lt == act["llm"].todo
             e == Next1(a).entry
  <1>1. "ui" \in Actors /\ "llm" \in Actors /\ Actors = {"ui", "llm"}
    BY DEF Actors
  <1>2. /\ act[a].todo # <<>> /\ Next1(a).op = "record" /\ e \in Entries
        /\ log' = Append(log, e)
        /\ act'[a].todo = Tail(act[a].todo)
        /\ \A b \in Actors : b # a => act'[b] = act[b]
    <2>1. /\ act[a].todo # <<>> /\ Next1(a).op = "record" /\ Next1(a).entry \in Entries
          /\ log' = Append(log, Next1(a).entry)
          /\ act'[a] = [todo |-> Tail(act[a].todo), doc |-> act[a].doc]
          /\ \A b \in Actors : b # a => act'[b] = act[b]
      BY AppendDoes
    <2>2. act'[a].todo = Tail(act[a].todo)
      BY <2>1
    <2>3. QED
      BY <2>1, <2>2
  <1>3. s \in Seq(Items) /\ lt \in Seq(Items) /\ log \in Seq(Entries)
    BY <1>1, TodoOf DEF TypeOK
  <1>4. UNCHANGED <<tree, redo, shown>> /\ Next1(a) = Head(act[a].todo)
    BY DEF AppendHistory, Next1
  <1>5. LogWell(log, s) /\ TodoWell(s) /\ TodoWell(lt) /\ AllWell(redo)
    BY DEF HangRest
  <1>6. CASE a = "ui"
    <2>1. /\ s # <<>> /\ Head(s).op = "record" /\ e = Head(s).entry /\ act'["ui"].todo = Tail(s)
          /\ act'["llm"] = act["llm"]
      BY <1>1, <1>2, <1>4, <1>6
    <2> DEFINE u == Tail(s)
    <2>2. EntryWell(e) \/ Pops(u)
      <3> HIDE DEF s
      <3>1. QED
        BY <1>3, <1>5, <2>1, WellTail
    <2>3. ~Pops(s) /\ Head(s).op # "finish"
      BY <2>1 DEF Pops
    <2> HIDE DEF s, u, e
    <2>4. AllWell(log)
      BY <1>3, <1>5, <2>3, WellRows
    <2>5. LogWell(Append(log, e), u)
      BY <1>2, <1>3, <2>2, <2>4, WellRows
    <2>6. LogWell(log', act'["ui"].todo)
      BY <1>2, <2>1, <2>5 DEF u
    <2>7. QED
      BY <1>4, <2>1, <2>3, <2>6, HangGoesOn DEF s
  <1>7. CASE a = "llm"
    <2>1. /\ lt # <<>> /\ Head(lt).op = "record" /\ e = Head(lt).entry /\ act'["llm"].todo = Tail(lt)
          /\ act'["ui"].todo = <<>> /\ s = <<>>
      BY <1>1, <1>2, <1>4, <1>7
    <2> DEFINE u == Tail(lt)
    <2>2. EntryWell(e)
      <3>1. LlmOk(lt)
        BY DEF InOrder
      <3> HIDE DEF lt
      <3>2. EntryWell(e) \/ Pops(u)
        BY <1>3, <1>5, <2>1, WellTail
      <3>3. LlmOk(u) /\ u \in Seq(Items)
        BY <1>3, <2>1, <3>1, LlmOkTail, TailOf
      <3> HIDE DEF u
      <3>4. ~Pops(u)
        <4>1. SUFFICES ASSUME u # <<>>
                       PROVE  Head(u).op # "pop"
          BY DEF Pops
        <4>2. LlmItemOk(Head(u))
          BY <3>3, <4>1, LlmOkTail
        <4>3. QED
          BY <4>2 DEF LlmItemOk
      <3>5. QED
        BY <3>2, <3>4
    <2>3. TodoWell(u)
      <3> HIDE DEF lt
      <3>1. QED
        BY <1>3, <1>5, <2>1, WellTail
    <2> HIDE DEF lt, u, e
    <2>4. ~Pops(s)
      BY <2>1 DEF Pops
    <2>5. AllWell(log)
      BY <1>3, <1>5, <2>4, WellRows
    <2>6. LogWell(Append(log, e), <<>>)
      BY <1>2, <1>3, <2>2, <2>5, WellRows
    <2>7. ~Starts(<<>>) /\ Closing(<<>>) /\ TodoWell(<<>>)
      BY DEF Starts, Closing, TodoWell
    <2>8. SameShape'
      BY <1>4, <2>1 DEF HangRest, SameShape
    <2>9. TodoWell(act'["llm"].todo) /\ LogWell(log', act'["ui"].todo) /\ AllWell(redo')
      BY <1>2, <1>4, <1>5, <2>1, <2>3, <2>6 DEF u
    <2>10. QED
      BY <2>1, <2>7, <2>8, <2>9 DEF HangRest
  <1>8. QED
    BY <1>1, <1>6, <1>7

\* A pop takes the entry it is due for.
LEMMA HangPop ==
  ASSUME TypeOK, InOrder, HangRest, Play(HungPics), PopHistory
  PROVE  HangRest'
  <1> DEFINE s == act["ui"].todo
             u == Tail(s)
  <1>1. s \in Seq(Items) /\ log \in Seq(Entries)
    BY TodoOf DEF TypeOK, Actors
  <1>2. /\ s # <<>> /\ Next1("ui").op = "pop"
        /\ log' = IF log = <<>> THEN log ELSE Front(log)
        /\ act'["ui"].todo = u /\ act'["llm"] = act["llm"]
    <2>1. /\ s # <<>> /\ Next1("ui").op = "pop"
          /\ log' = IF log = <<>> THEN log ELSE Front(log)
          /\ act'["ui"] = [todo |-> u, doc |-> act["ui"].doc]
          /\ act'["llm"] = act["llm"]
      BY PopDoes
    <2>2. act'["ui"].todo = u
      BY <2>1
    <2>3. QED
      BY <2>1, <2>2
  <1>3. Head(s).op # "finish" /\ redo' = redo
    BY <1>2 DEF PopHistory, Next1
  <1>4. LogWell(log, s)
    BY DEF HangRest
  <1> HIDE DEF s, u
  <1>5. LogWell(log', u)
    <2>1. CASE log = <<>>
      <3>1. log' = <<>> /\ <<>> \in Seq(Entries)
        BY <1>2, <2>1
      <3>2. LogWell(<<>>, u)
        BY <3>1, WellRows
      <3>3. QED
        BY <3>1, <3>2
    <2>2. CASE log # <<>>
      <3> DEFINE q == Front(log)
      <3>1. q \in Seq(Entries) /\ AllWell(q)
        BY <1>1, <1>4, <2>2, WellRows, FrontOf
      <3>2. log' = q
        BY <1>2, <2>2
      <3> HIDE DEF q
      <3>3. LogWell(q, u)
        BY <3>1, WellRows
      <3>4. QED
        BY <3>2, <3>3
    <2>3. QED
      BY <2>1, <2>2
  <1>6. QED
    BY <1>2, <1>3, <1>5, HangGoesOn DEF s, u

\* A verb ends.
LEMMA HangEnds ==
  ASSUME TypeOK, InOrder, HangRest, Play(HungPics), FinishVerb \/ Fail("ui"), tree # NoTree
  PROVE  HangRest'
  <1> DEFINE s == act["ui"].todo
  <1>1. s \in Seq(Items) /\ log \in Seq(Entries)
    BY TodoOf DEF TypeOK, Actors
  <1>2. LogWell(log, s) /\ TodoWell(s) /\ TodoWell(act["llm"].todo) /\ AllWell(redo)
    BY DEF HangRest
  <1>3. /\ s # <<>> /\ Head(s).op # "pop" /\ act'["ui"].todo = <<>> /\ act'["llm"] = act["llm"]
        /\ tree' = tree /\ log' = log
    <2>1. CASE FinishVerb
      <3>1. act'["ui"] = Idle /\ act'["llm"] = act["llm"] /\ Next1("ui").op = "finish" /\ s # <<>>
        BY <2>1, FinishDoes
      <3>2. QED
        BY <2>1, <3>1 DEF FinishVerb, Idle, Next1
    <2>2. CASE Fail("ui")
      <3>1. /\ act'["ui"] = [todo |-> IF "ui" = "ui" THEN <<>> ELSE Tail(s), doc |-> None]
            /\ act'["llm"] = act["llm"]
        BY <2>2, FailDoes DEF Actors
      <3>2. QED
        BY <2>2, <3>1 DEF Fail, Calls, Next1, Off
    <2>3. QED
      BY <2>1, <2>2
  <1>4. AllWell(redo')
    <2>1. CASE FinishVerb
      <3>1. redo' = Head(s).redo /\ Head(s).op = "finish"
        BY <2>1, FinishDoes DEF Next1
      <3> HIDE DEF s
      <3>2. QED
        BY <1>1, <1>2, <1>3, <3>1, WellTail
    <2>2. CASE Fail("ui")
      BY <1>2, <2>2 DEF Fail
    <2>3. QED
      BY <2>1, <2>2
  <1>5. SameShape'
    <2>1. CASE FinishVerb
      BY <2>1 DEF FinishVerb, SameShape
    <2>2. CASE Fail("ui")
      <3>1. Fwd(log, s, Picture(tree))
        BY <2>2, FailsFirst
      <3>2. Starts(s)
        BY <3>1 DEF Fwd, Starts
      <3>3. QED
        BY <2>2, <3>2 DEF HangRest, SameShape, Fail
    <2>3. QED
      BY <2>1, <2>2
  <1> HIDE DEF s
  <1>6. LogWell(log, <<>>)
    <2>1. ~Pops(s)
      BY <1>3 DEF Pops
    <2>2. AllWell(log)
      BY <1>1, <1>2, <2>1, WellRows
    <2>3. QED
      BY <1>1, <2>2, WellRows
  <1>7. ~Starts(<<>>) /\ Closing(<<>>) /\ TodoWell(<<>>)
    BY DEF Starts, Closing, TodoWell
  <1>8. QED
    BY <1>2, <1>3, <1>4, <1>5, <1>6, <1>7 DEF HangRest

\* Steps beside the user's verb.
LEMMA HangBeside ==
  ASSUME TypeOK, HangRest,
         Fail("llm") \/ FinishJob \/ NameClusters \/ (\E a \in Actors : Load(a)) \/ UNCHANGED vars
  PROVE  HangRest'
  <1>1. "ui" \in Actors /\ "llm" \in Actors /\ Actors = {"ui", "llm"}
    BY DEF Actors
  <1>2. act["llm"].todo \in Seq(Items)
    BY <1>1, TodoOf
  <1>3. UNCHANGED <<tree, log, redo>>
    BY DEF Fail, FinishJob, NameClusters, Load, vars
  <1>4. act'["ui"].todo = act["ui"].todo
    <2>1. CASE Fail("llm")
      BY <1>1, <2>1, FailDoes
    <2>2. CASE FinishJob
      BY <2>2, JobDoes
    <2>3. CASE NameClusters
      BY <2>3, NamingDoes
    <2>4. ASSUME NEW a \in Actors, Load(a)
          PROVE  act'["ui"].todo = act["ui"].todo
      <3>1. act'[a] = [todo |-> act[a].todo, doc |-> tree] /\ \A b \in Actors : b # a => act'[b] = act[b]
        BY <2>4, LoadDoes
      <3>2. QED
        BY <1>1, <3>1
    <2>5. CASE UNCHANGED vars
      BY <2>5 DEF vars
    <2>6. QED
      BY <2>1, <2>2, <2>3, <2>4, <2>5
  <1>5. SameShape => SameShape'
    <2>1. CASE FinishJob
      BY <2>1 DEF FinishJob, SameShape
    <2>2. CASE ~FinishJob
      <3>1. shown' = shown
        BY <2>2 DEF Fail, FinishJob, NameClusters, Load, vars
      <3>2. QED
        BY <1>3, <3>1 DEF SameShape
    <2>3. QED
      BY <2>1, <2>2
  <1>6. TodoWell(act["llm"].todo)
    BY DEF HangRest
  <1>7. TodoWell(act'["llm"].todo)
    <2>1. CASE Fail("llm")
      <3> DEFINE lt == act["llm"].todo
      <3>1. lt # <<>>
        BY <2>1 DEF Fail, Calls
      <3>2. act'["llm"] = [todo |-> IF "llm" = "ui" THEN <<>> ELSE Tail(lt), doc |-> None]
        BY <1>1, <2>1, FailDoes
      <3>3. act'["llm"].todo = Tail(lt)
        BY <3>2
      <3> HIDE DEF lt
      <3>4. QED
        BY <1>2, <1>6, <3>1, <3>3, WellTail DEF lt
    <2>2. CASE FinishJob
      <3>1. act'["llm"].todo = <<>>
        BY <2>2, JobDoes DEF Idle
      <3>2. QED
        BY <3>1 DEF TodoWell
    <2>3. CASE NameClusters
      <3> DEFINE q == act'["llm"].todo
      <3>1. \A i \in 1..Len(q) : q[i].op = "name" \/ q[i] = Finish(<<>>)
        BY <2>3, NamingDoes
      <3>2. AllWell(<<>>)
        BY DEF AllWell
      <3>3. Finish(<<>>).op = "finish" /\ Finish(<<>>).redo = <<>>
        BY DEF Finish
      <3> HIDE DEF q
      <3>4. TodoWell(q)
        BY <3>1, <3>2, <3>3 DEF TodoWell, ItemWell
      <3>5. QED
        BY <3>4 DEF q
    <2>4. ASSUME NEW a \in Actors, Load(a)
          PROVE  act'["llm"].todo = act["llm"].todo
      <3>1. act'[a] = [todo |-> act[a].todo, doc |-> tree] /\ \A b \in Actors : b # a => act'[b] = act[b]
        BY <2>4, LoadDoes
      <3>2. QED
        BY <1>1, <3>1
    <2>5. CASE UNCHANGED vars
      BY <1>6, <2>5 DEF vars
    <2>6. QED
      BY <1>6, <2>1, <2>2, <2>3, <2>4, <2>5
  <1>8. QED
    BY <1>3, <1>4, <1>5, <1>7 DEF HangRest

\* At rest the tree hangs, and what was done could be done again.
LEMMA HangAtRest ==
  ASSUME TypeOK, HangRest, Play(HungPics), act["ui"] = Idle
  PROVE  /\ act["ui"].todo = <<>> /\ Picture(tree) \in HungPics /\ SameShape
         /\ AllWell(log) /\ AllWell(redo) /\ TodoWell(act["llm"].todo)
         /\ ~Waits("llm", "record") => InStep(log, Picture(tree))
  <1> DEFINE pic == Picture(tree)
             lt == act["llm"].todo
  <1>1. act["ui"].todo = <<>>
    BY DEF Idle
  <1>2. pic \in Pictures
    BY PictureRows DEF TypeOK
  <1>3. InPlay(log, <<>>, lt, pic, HungPics)
    BY <1>1 DEF Play
  <1>4. ~Waits("llm", "record") => ~Rec(lt)
    BY DEF Waits, Rec, Next1
  <1>5. SameShape /\ LogWell(log, <<>>) /\ AllWell(redo) /\ TodoWell(lt)
    BY <1>1 DEF HangRest
  <1>6. ~Pops(<<>>)
    BY DEF Pops
  <1>7. AllWell(log)
    BY <1>5, <1>6, WellRows DEF TypeOK
  <1> HIDE DEF pic, lt
  <1>8. pic \in HungPics /\ (~Rec(lt) => InStep(log, pic))
    BY <1>2, <1>3, PlayIdle
  <1>9. QED
    BY <1>1, <1>4, <1>5, <1>7, <1>8 DEF pic, lt

\* A verb of one call begins, new or again.
LEMMA HangBegins ==
  ASSUME TypeOK, HangRest, Play(HungPics), act["ui"] = Idle,
         NEW c \in AnyCall, c.op \in Simple, Proper(Picture(tree), c), NEW r \in Seq(Entries), AllWell(r),
         act'["ui"].todo = <<c, Finish(r)>>, act'["llm"] = act["llm"],
         UNCHANGED <<tree, shown, log>>, AllWell(redo')
  PROVE  HangRest'
  <1> DEFINE f == Finish(r)
             q == <<c>>
             v == act'["ui"].todo
  <1>1. /\ Picture(tree) \in HungPics /\ SameShape
        /\ AllWell(log) /\ TodoWell(act["llm"].todo)
    BY HangAtRest
  <1>2. f \in Items /\ f.op = "finish" /\ f.redo = r /\ c \in Items
    BY DEF Finish, Items
  <1>3. q \in Seq(Items) /\ Len(q) = 1 /\ q[1] = c
    BY <1>2
  <1>4. c.op \notin {"record", "finish"}
    BY DEF Simple
  <1> HIDE DEF f
  <1>5. q \o <<f>> = v
    BY <1>2, ConsFew DEF f
  <1>6. v[1] = c
    BY DEF f
  <1>7. \A i \in 1..Len(q) : q[i].op \notin {"record", "finish"}
    BY <1>3, <1>4
  <1> HIDE DEF q, v
  <1>8. TodoWell(v) /\ Closing(v)
    BY <1>2, <1>3, <1>5, <1>7, WellCalls
  <1>9. LogWell(log, v)
    BY <1>1, WellRows DEF TypeOK
  <1>10. SameShape' /\ Picture(tree') = Picture(tree)
    BY <1>1 DEF SameShape
  <1>11. QED
    BY <1>1, <1>6, <1>8, <1>9, <1>10 DEF HangRest, v

\* A split begins.
LEMMA HangSplit ==
  ASSUME TypeOK, HangRest, Play(HungPics), SplitCluster
  PROVE  HangRest'
  <1>1. PICK n, A, B :
          /\ SplitAsks(n, A, B)
          /\ act["ui"] = Idle /\ act'["ui"] = [todo |-> SplitPlan(n, A, B), doc |-> None]
          /\ act'["llm"] = act["llm"]
          /\ UNCHANGED <<tree, shown, given, log, redo>>
    BY SplitDoes
  <1> DEFINE v == SplitPlan(n, A, B)
             e == SplitEntry(n, A, B)
  <1>2. /\ Picture(tree) \in HungPics /\ SameShape
        /\ AllWell(log) /\ AllWell(redo) /\ TodoWell(act["llm"].todo)
    BY <1>1, HangAtRest
  <1>3. act'["ui"].todo = v
    BY <1>1
  <1>4. EntryWell(e)
    <2>1. e.before = Picture(tree) /\ e.call.op = "split"
      BY DEF SplitEntry
    <2> HIDE DEF e
    <2>2. QED
      BY <1>2, <2>1 DEF EntryWell, HungPics, Proper
  <1> HIDE DEF e
  <1>5. /\ Len(v) = 5 /\ v[1].op = "insert" /\ v[2].op = "insert" /\ v[3].op = "reparent"
        /\ v[4].op = "record" /\ v[4].entry = e /\ v[5].op = "finish" /\ v[5].redo = <<>>
    BY DEF SplitPlan, e, Insert, Reparent, Record, Finish
  <1> HIDE DEF v
  <1>6. AllWell(<<>>)
    BY DEF AllWell
  <1>7. TodoWell(v)
    <2>1. \A i \in 1..5 : ItemWell(v, i)
      <3>1. ItemWell(v, 1) /\ ItemWell(v, 2) /\ ItemWell(v, 3)
        BY <1>5 DEF ItemWell
      <3>2. ItemWell(v, 4)
        BY <1>4, <1>5 DEF ItemWell
      <3>3. ItemWell(v, 5)
        BY <1>5, <1>6 DEF ItemWell
      <3>4. \A i \in 1..5 : i \in {1, 2, 3, 4, 5}
        OBVIOUS
      <3>5. QED
        BY <3>1, <3>2, <3>3, <3>4
    <2>2. QED
      BY <1>5, <2>1 DEF TodoWell
  <1>8. Closing(v) /\ ~Starts(v)
    BY <1>5 DEF Closing, Starts
  <1>9. LogWell(log, v)
    BY <1>2, WellRows DEF TypeOK
  <1>10. SameShape'
    BY <1>1, <1>2 DEF SameShape
  <1>11. QED
    BY <1>1, <1>2, <1>3, <1>7, <1>8, <1>9, <1>10 DEF HangRest

\* The user goes back, or forth again on the shape the verb had found.
LEMMA HangBack ==
  ASSUME TypeOK, InOrder, HangRest, Play(HungPics), UndoLast \/ RedoLast, amiss' = {}
  PROVE  HangRest'
  <1> DEFINE pic == Picture(tree)
  <1>1. act["ui"] = Idle /\ act'["llm"] = act["llm"] /\ UNCHANGED <<tree, shown>> /\ Interrupts \subseteq amiss'
    BY UndoDoes, RedoDoes
  <1>2. /\ act["ui"].todo = <<>> /\ pic \in HungPics /\ SameShape
        /\ AllWell(log) /\ AllWell(redo) /\ TodoWell(act["llm"].todo)
        /\ ~Waits("llm", "record") => InStep(log, pic)
    BY <1>1, HangAtRest
  <1>3. SameShape'
    BY <1>1, <1>2 DEF SameShape
  <1>4. log \in Seq(Entries) /\ redo \in Seq(Entries) /\ pic \in Pictures
    BY <1>2 DEF TypeOK, HungPics
  <1>5. InStep(log, pic)
    BY <1>1, <1>2 DEF Interrupts
  <1> HIDE DEF pic
  <1>6. CASE UndoLast
    <2> DEFINE e == Last(log)
               g == Append(redo, e)
               f == Finish(g)
               v == e.undo \o <<f>>
    <2>1. /\ log # <<>> /\ e \in Entries /\ log' = Front(log) /\ e.undo \in Seq(Items) /\ f \in Items
          /\ act'["ui"] = [todo |-> v, doc |-> None] /\ redo' = redo
      BY <1>6, UndoDoes
    <2>2. act'["ui"].todo = v
      BY <2>1
    <2>3. EntryWell(e) /\ AllWell(Front(log))
      BY <1>2, <1>4, <2>1, WellRows
    <2>4. EntryOk(e)
      BY <1>4, <2>1, OkRows DEF InOrder
    <2>5. Front(log) \in Seq(Entries)
      BY <1>4, <2>1, FrontOf
    <2> HIDE DEF e
    <2>6. AllWell(g)
      BY <1>2, <1>4, <2>1, <2>3, WellRows
    <2> HIDE DEF g
    <2>7. f.op = "finish" /\ f.redo = g
      BY DEF Finish
    <2> HIDE DEF f
    <2>8. \A i \in 1..Len(e.undo) : e.undo[i].op \notin {"record", "finish"}
      BY <2>4 DEF EntryOk
    <2>9. TodoWell(v) /\ Closing(v)
      BY <2>1, <2>6, <2>7, <2>8, WellCalls
    <2>10. e.before \in HungPics
      BY <2>1, <2>3 DEF EntryWell, HungPics, Entries
    <2>11. Und(Front(log), v, pic, HungPics)
      BY <1>4, <1>5, <2>1, <2>4, <2>7, <2>10, UndoBegins DEF e
    <2> HIDE DEF v
    <2>12. ~Starts(v)
      BY <2>11, UndoIsBegun DEF Und
    <2>13. LogWell(log', v)
      BY <2>1, <2>3, <2>5, WellRows
    <2>14. QED
      BY <1>1, <1>2, <1>3, <2>1, <2>2, <2>9, <2>12, <2>13 DEF HangRest
  <1>7. CASE RedoLast
    <2> DEFINE e == Last(redo)
               g == Front(redo)
               c == e.call
    <2>1. /\ redo # <<>> /\ e \in Entries /\ redo' = g /\ log' = log
          /\ \/ c.op \in {"split", "name"} /\ act'["ui"] = Idle
             \/ /\ c.op \notin {"split", "name"} /\ c \in AnyCall
                /\ act'["ui"] = [todo |-> <<c, Finish(g)>>, doc |-> None]
          /\ (IF Shape(e.before) = Shape(pic) THEN {} ELSE {"replayed"}) \subseteq amiss'
      BY <1>7, RedoDoes DEF pic
    <2>2. EntryWell(e) /\ AllWell(g) /\ g \in Seq(Entries)
      BY <1>2, <1>4, <2>1, WellRows, FrontOf
    <2>3. EntryOk(e)
      BY <1>4, <2>1, OkRows DEF InOrder
    <2>4. Shape(e.before) = Shape(pic)
      BY <2>1
    <2>5. Proper(pic, c)
      <3>1. e.before \in Pictures /\ Proper(e.before, c)
        BY <2>1, <2>2 DEF EntryWell, Entries
      <3> HIDE DEF e, c
      <3>2. QED
        BY <1>4, <2>4, <3>1, ProperByShape
    <2>6. c.op \in Simple \cup {"name", "split"}
      BY <2>3 DEF EntryOk
    <2> HIDE DEF e, g, c
    <2>7. CASE act'["ui"] = Idle
      <3>1. act'["ui"].todo = <<>>
        BY <2>7 DEF Idle
      <3>2. ~Starts(<<>>) /\ Closing(<<>>) /\ TodoWell(<<>>)
        BY DEF Starts, Closing, TodoWell
      <3>3. LogWell(log, <<>>)
        BY <1>2, <1>4, WellRows
      <3>4. QED
        BY <1>1, <1>2, <1>3, <2>1, <2>2, <3>1, <3>2, <3>3 DEF HangRest
    <2>8. CASE c.op \notin {"split", "name"} /\ c \in AnyCall
               /\ act'["ui"] = [todo |-> <<c, Finish(g)>>, doc |-> None]
      <3>1. act'["ui"].todo = <<c, Finish(g)>>
        BY <2>8
      <3>2. c.op \in Simple
        BY <2>6, <2>8
      <3>3. Proper(Picture(tree), c)
        BY <2>5 DEF pic
      <3>4. AllWell(redo')
        BY <2>1, <2>2
      <3>5. UNCHANGED <<tree, shown, log>>
        BY <1>1, <2>1
      <3>6. QED
        BY <1>1, <2>2, <2>8, <3>1, <3>2, <3>3, <3>4, <3>5, HangBegins
    <2>9. QED
      BY <2>1, <2>7, <2>8
  <1>8. QED
    BY <1>6, <1>7

\* A split leaves a tree that hangs.
LEMMA SplitLeavesHung ==
  ASSUME TypeOK, SameShape, Picture(tree) \in HungPics, NEW n, NEW A, NEW B, SplitAsks(n, A, B),
         SplitWrong(n, A, B) = {}
  PROVE  Picture(SplitTree(n, A, B)) \in HungPics
  <1>0. /\ n \in Node /\ Halves[n][1] \in Node /\ Halves[n][2] \in Node
        /\ Halves[n][1] # Halves[n][2] /\ n \in There(shown)
        /\ A \in SUBSET There(tree) /\ B \in SUBSET There(tree) /\ There(tree) \subseteq Node
        /\ Fresh(n) \in Row
        /\ SplitMoves(n, A, B) \in MoveMap /\ DOMAIN SplitMoves(n, A, B) = A \cup B
        /\ \A m \in A : SplitMoves(n, A, B)[m] = Halves[n][1]
        /\ \A m \in B : SplitMoves(n, A, B)[m] = Halves[n][2]
        /\ SplitTree(n, A, B) \in Tree
        /\ SplitEntry(n, A, B) \in Entries
    BY ONLY TypeOK, SplitAsks(n, A, B), SplitTypes
  <1> DEFINE g == Halves[n][1]
             h == Halves[n][2]
             M == SplitMoves(n, A, B)
             t1 == [tree EXCEPT ![g] = Fresh(n), ![h] = Fresh(n)]
             r == Onto(t1, M)
             S == A \cup B
  <1>1. /\ n \in Node /\ g \in Node /\ h \in Node /\ g # h /\ n \in There(shown)
        /\ A \in SUBSET There(tree) /\ B \in SUBSET There(tree) /\ There(tree) \subseteq Node
        /\ Fresh(n) \in Row /\ M \in MoveMap /\ DOMAIN M = S
        /\ \A m \in A : M[m] = g
        /\ \A m \in B : M[m] = h
        /\ r \in Tree
    <2> DEFINE w == SplitTree(n, A, B)
    <2>1. w \in Tree
      BY <1>0
    <2>2. r = w
      BY DEF SplitTree
    <2>3. r \in Tree
      <3> HIDE DEF r, w
      <3>1. QED
        BY <2>1, <2>2
    <2>4. \A m \in A : M[m] = g
      BY <1>0
    <2>5. \A m \in B : M[m] = h
      BY <1>0
    <2>6. /\ n \in Node /\ g \in Node /\ h \in Node /\ g # h /\ n \in There(shown)
          /\ A \in SUBSET There(tree) /\ B \in SUBSET There(tree) /\ There(tree) \subseteq Node
          /\ Fresh(n) \in Row /\ M \in MoveMap /\ DOMAIN M = S
      BY <1>0
    <2> HIDE DEF r, M, S, g, h
    <2>7. QED
      BY <2>3, <2>4, <2>5, <2>6
  <1>2. tree \in Tree /\ shown \in Tree
    BY DEF TypeOK
  <1>3. Hanging(tree)
    BY <1>2, HungHanging DEF HungPics
  <1>4. n \in There(tree)
    <2> DEFINE p == Picture(shown)
               q == Picture(tree)
    <2>1. p \in Pictures /\ q \in Pictures /\ Shape(p) = Shape(q)
      BY <1>2, PictureRows DEF SameShape
    <2>2. (p[n] # None <=> n \in There(shown)) /\ (q[n] # None <=> n \in There(tree))
      BY <1>1, <1>2, PictureSays
    <2> HIDE DEF p, q
    <2>3. p[n] = None <=> q[n] = None
      BY <1>1, <2>1, ShapeSays
    <2>4. QED
      BY <1>1, <2>2, <2>3
  <1>5. S \subseteq Children(tree, n) /\ tree[g] = None /\ tree[h] = None
    BY DEF SplitWrong
  <1>6. g \notin There(tree) /\ h \notin There(tree)
    BY <1>5 DEF There
  <1>7. t1 \in Tree /\ There(t1) = There(tree) \cup {g, h}
    <2>1. t1 \in Tree
      BY <1>1, <1>2 DEF Tree
    <2>2. Fresh(n) # None
      BY <1>1, TreeConstants
    <2>3. \A m \in Node : t1[m] = IF m \in {g, h} THEN Fresh(n) ELSE tree[m]
      BY <1>1, <1>2 DEF Tree
    <2> HIDE DEF t1, g, h
    <2>4. There(t1) = {m \in Node : t1[m] # None} /\ There(tree) = {m \in Node : tree[m] # None}
      BY DEF There
    <2>5. QED
      BY <1>1, <2>1, <2>2, <2>3, <2>4
  <1>8. \A m \in Node : t1[m] = IF m \in {g, h} THEN Fresh(n) ELSE tree[m]
    BY <1>1, <1>2 DEF Tree
  <1>9. Fresh(n).parent = n
    BY DEF Fresh
  <1>10. \A m \in S : m \in There(tree) /\ tree[m].parent = n
    BY <1>5 DEF Children
  <1> HIDE DEF g, h, M, t1, S
  <1>11. /\ There(r) = There(t1)
         /\ \A m \in There(t1) : r[m] =
              [kind |-> t1[m].kind, parent |-> IF m \in DOMAIN M THEN M[m] ELSE t1[m].parent,
               text |-> t1[m].text, mine |-> t1[m].mine]
    BY <1>1, <1>7, OntoRows
  <1> HIDE DEF r
  <1>12. \A m \in There(t1) : r[m].parent = IF m \in S THEN M[m] ELSE t1[m].parent
    <2>1. TAKE m \in There(t1)
    <2>2. DOMAIN M = S
      BY <1>1
    <2>3. \A x \in There(t1) : r[x] =
            [kind |-> t1[x].kind, parent |-> IF x \in DOMAIN M THEN M[x] ELSE t1[x].parent,
             text |-> t1[x].text, mine |-> t1[x].mine]
      BY <1>11
    <2>4. r[m] = [kind |-> t1[m].kind, parent |-> IF m \in DOMAIN M THEN M[m] ELSE t1[m].parent,
                  text |-> t1[m].text, mine |-> t1[m].mine]
      BY <2>3
    <2>5. r[m].parent = IF m \in DOMAIN M THEN M[m] ELSE t1[m].parent
      BY <2>4
    <2>6. QED
      BY <2>2, <2>5
  <1>13. r[g].parent = n /\ r[h].parent = n
    BY <1>1, <1>6, <1>7, <1>8, <1>9, <1>10, <1>12
  <1>14. \A m \in S : tree[m].parent = n /\ r[m].parent \in {g, h}
    <2>1. TAKE m \in S
    <2>2. m \in There(t1) /\ tree[m].parent = n
      BY <1>7, <1>10
    <2>3. M[m] \in {g, h}
      BY <1>1 DEF S
    <2>4. QED
      BY <1>12, <2>2, <2>3
  <1>15. \A m \in There(tree) : m \notin S => r[m].parent = tree[m].parent
    <2>1. TAKE m \in There(tree)
    <2>2. HAVE m \notin S
    <2>3. m \in There(t1) /\ m \notin {g, h} /\ m \in Node
      BY <1>1, <1>6, <1>7
    <2>4. t1[m] = tree[m]
      BY <1>8, <2>3
    <2>5. QED
      BY <1>12, <2>2, <2>3, <2>4
  <1>16. There(r) = There(tree) \cup {g, h}
    BY <1>7, <1>11
  <1>17. Hanging(r)
    BY <1>1, <1>2, <1>3, <1>4, <1>6, <1>13, <1>14, <1>15, <1>16, SplitHangs
  <1>18. Picture(r) \in HungPics
    BY <1>1, <1>17, HungHanging, HangingHangs
  <1>19. QED
    BY <1>18 DEF SplitTree, r, t1, M, g, h

\* So does a save, of the user's or the task's.
LEMMA SaveLeavesHung ==
  ASSUME TypeOK, InOrder, HangRest, Play(HungPics), NEW a \in Actors, Save(a), tree = Loaded(a), amiss' = {},
         \/ a = "ui" /\ Starts(act["ui"].todo)
         \/ a = "llm" /\ act["ui"] = Idle
  PROVE  Picture(tree') \in HungPics
  <1> DEFINE c == Next1(a)
             pic == Picture(tree)
  <1>1. tree \in Tree /\ c \in AnyCall /\ act[a].todo # <<>> /\ Fits(tree, c) /\ tree' = Apply(tree, c)
    BY SaveDoes
  <1>2. c.op = "drop" => c.to \notin Below(tree, c.at)
    <2>1. amiss' = amiss \cup Crossing(a) \cup (IF tree # Loaded(a) THEN {"overwritten"} ELSE {})
             \cup (IF c.op = "drop" /\ c.to \in Below(Loaded(a), c.at) THEN {"bucket"} ELSE {})
      BY DEF Save
    <2> HIDE DEF c
    <2>2. QED
      BY <2>1
  <1>3. pic \in HungPics /\ Proper(pic, c) /\ c.op \in Simple \cup {"name"}
    <2>1. CASE a = "ui" /\ Starts(act["ui"].todo)
      <3> DEFINE s == act["ui"].todo
      <3>1. s # <<>> /\ s \in Seq(Items)
        BY <1>1, <2>1, TodoOf DEF Actors
      <3>2. c = Head(s)
        BY <2>1 DEF Next1
      <3>3. pic \in HungPics /\ Proper(pic, s[1]) /\ s[1].op \in Simple
        BY <2>1 DEF HangRest, Starts
      <3> HIDE DEF s, pic, c
      <3>4. c = s[1]
        BY <3>1, <3>2, TailOf
      <3>5. QED
        BY <3>3, <3>4
    <2>2. CASE a = "llm" /\ act["ui"] = Idle
      <3>1. Calls("llm")
        BY <2>2 DEF Save
      <3>2. c.op = "name"
        BY <2>2, <3>1, SavedOps DEF Actors
      <3>3. pic \in HungPics
        BY <2>2, HangAtRest
      <3> HIDE DEF c, pic
      <3>4. QED
        BY <3>2, <3>3 DEF Proper
    <2>3. QED
      BY <2>1, <2>2
  <1>4. Hanging(tree)
    BY <1>1, <1>3, HungHanging DEF HungPics
  <1> HIDE DEF c
  <1>5. Apply(tree, c) \in Tree /\ Hanging(Apply(tree, c))
    BY <1>1, <1>2, <1>3, <1>4, CallHangs, ApplyRows
  <1>6. QED
    BY <1>1, <1>5, HungHanging, HangingHangs

\* While nothing went wrong the tree hangs, and will.
HangMain == amiss = {} /\ tree # NoTree => Play(HungPics) /\ HangRest

\* Every step keeps it so.
LEMMA HangStep ==
  ASSUME TypeOK, InOrder, LateOk(act["llm"].todo), HangMain, [Next]_vars
  PROVE  HangMain'
  <1>1. SUFFICES ASSUME amiss' = {}, tree' # NoTree
                 PROVE  Play(HungPics)' /\ HangRest'
    BY DEF HangMain
  <1>2. amiss = {} /\ Lined'
    BY <1>1, AmissGrows DEF Lined
  <1>3. tree # NoTree
    BY <1>1, TreeComesOnce
  <1>4. Play(HungPics) /\ HangRest
    BY <1>2, <1>3 DEF HangMain
  <1>5. ASSUME NEW a \in Actors, Save(a)
        PROVE  tree = Loaded(a) /\ (a = "llm" => act["ui"] = Idle /\ act["ui"].todo = <<>>)
    <2>1. tree = Loaded(a) /\ Crossing(a) = {}
      BY <1>1, <1>5 DEF Save
    <2>2. a = "llm" => act["ui"] = Idle
      BY <2>1 DEF Crossing, UiIdle
    <2>3. QED
      BY <2>1, <2>2 DEF Idle
  <1>6. ASSUME NEW a \in Actors, AppendHistory(a)
        PROVE  a = "llm" => act["ui"].todo = <<>>
    <2>1. Crossing(a) = {}
      BY <1>1, <1>6 DEF AppendHistory
    <2>2. QED
      BY <2>1 DEF Crossing, UiIdle, Idle
  <1>7. "ui" \in Actors /\ "llm" \in Actors
    BY DEF Actors
  <1>8. Fwd(log, act["ui"].todo, Picture(tree)) => Starts(act["ui"].todo)
    BY DEF Fwd, Starts
  <1>9. Play(HungPics)'
    <2>1. Fwd(log, act["ui"].todo, Picture(tree)) => Picture(tree) \in HungPics
      BY <1>4, <1>8 DEF HangRest
    <2>2. Fwd(log, act["ui"].todo, Picture(tree)) /\ Save("ui") => Picture(tree') \in HungPics
      BY <1>1, <1>4, <1>5, <1>7, <1>8, SaveLeavesHung
    <2>3. Save("llm") /\ act["ui"].todo = <<>> /\ tree = Loaded("llm") => Picture(tree') \in HungPics
      BY <1>1, <1>4, <1>5, <1>7, SaveLeavesHung
    <2>4. ASSUME NEW n, NEW A, NEW B, SplitCluster, SplitAsks(n, A, B), SplitWrong(n, A, B) = {}
          PROVE  Picture(SplitTree(n, A, B)) \in HungPics
      <3>1. act["ui"] = Idle
        BY <2>4, SplitDoes
      <3>2. Picture(tree) \in HungPics /\ SameShape
        BY <1>4, <3>1, HangAtRest
      <3>3. QED
        BY <2>4, <3>2, SplitLeavesHung
    <2>5. UndoLast => Last(log).before \in HungPics
      <3>1. SUFFICES ASSUME UndoLast
                     PROVE  Last(log).before \in HungPics
        OBVIOUS
      <3>2. act["ui"] = Idle /\ log # <<>> /\ Last(log) \in Entries /\ log \in Seq(Entries)
        BY <3>1, UndoDoes DEF TypeOK
      <3>3. AllWell(log)
        BY <1>4, <3>2, HangAtRest
      <3>4. EntryWell(Last(log))
        BY <3>2, <3>3, WellRows
      <3>5. QED
        BY <3>2, <3>4 DEF EntryWell, HungPics, Entries
    <2>6. QED
      BY <1>2, <1>3, <1>4, <1>1, <2>1, <2>2, <2>3, <2>4, <2>5, PlayStep
  <1>10. HangRest'
    <2>1. ASSUME NEW a \in Actors, StepOf(a)
          PROVE  HangRest'
      <3>1. CASE Save(a)
        BY <1>4, <1>5, <2>1, <3>1, HangSaveUi, HangSaveLlm DEF Actors
      <3>2. CASE AppendHistory(a)
        BY <1>4, <1>6, <3>2, HangAppend
      <3>3. CASE Fail(a)
        BY <1>3, <1>4, <3>3, HangEnds, HangBeside DEF Actors
      <3>4. CASE Load(a)
        BY <1>4, <3>4, HangBeside
      <3>5. QED
        BY <2>1, <3>1, <3>2, <3>3, <3>4 DEF StepOf
    <2>2. ASSUME NEW c \in AnyCall, Edit(c), Offered(c)
          PROVE  HangRest'
      <3>1. /\ act["ui"] = Idle /\ act'["ui"] = [todo |-> <<c, Finish(redo)>>, doc |-> None]
            /\ act'["llm"] = act["llm"] /\ UNCHANGED <<tree, shown, log, redo>>
        BY <2>2, EditDoes
      <3>2. act'["ui"].todo = <<c, Finish(redo)>>
        BY <3>1
      <3>3. SameShape /\ AllWell(redo)
        BY <1>4, <3>1, HangAtRest
      <3>4. Proper(Picture(tree), c)
        BY <2>2, <3>3, OfferedIsProper
      <3>5. c.op \in Simple /\ redo \in Seq(Entries) /\ AllWell(redo')
        BY <2>2, <3>1, <3>3 DEF Offered, TypeOK
      <3>6. QED
        BY <1>4, <3>1, <3>2, <3>3, <3>4, <3>5, HangBegins
    <2>3. CASE SplitCluster
      BY <1>4, <2>3, HangSplit
    <2>4. CASE UndoLast \/ RedoLast
      BY <1>1, <1>4, <2>4, HangBack
    <2>5. CASE PopHistory
      BY <1>4, <2>5, HangPop
    <2>6. CASE FinishVerb
      BY <1>3, <1>4, <2>6, HangEnds
    <2>7. CASE FinishJob \/ NameClusters \/ UNCHANGED vars
      BY <1>4, <2>7, HangBeside
    <2>8. ~DiscardTree
      BY <1>1 DEF DiscardTree
    <2>9. QED
      BY <2>1, <2>2, <2>3, <2>4, <2>5, <2>6, <2>7, <2>8, NextCases
  <1>11. QED
    BY <1>9, <1>10

\* A session starts with a tree that hangs.
LEMMA HangInit ==
  ASSUME Init
  PROVE  HangMain
  <1>1. /\ log = <<>> /\ redo = <<>> /\ act["ui"].todo = <<>> /\ act["llm"].todo = <<>>
        /\ shown = tree /\ tree \in FirstTrees
    BY DEF Init, Idle
  <1>2. tree \in Tree
    BY TypesInit DEF TypeOK
  <1>3. Hangs(tree)
    BY <1>1, TreesHang
  <1> DEFINE pic == Picture(tree)
  <1>4. pic \in HungPics /\ pic \in Pictures
    BY <1>2, <1>3, HungHanging, PictureRows
  <1>5. InStep(<<>>, pic)
    BY DEF InStep
  <1> HIDE DEF pic
  <1>6. Und(<<>>, <<>>, pic, HungPics)
    BY <1>4, <1>5, UndNothing
  <1>7. ~Rec(<<>>)
    BY DEF Rec
  <1>8. Play(HungPics)
    BY <1>1, <1>6, <1>7 DEF Play, InPlay, pic
  <1>9. ~Starts(<<>>) /\ Closing(<<>>) /\ TodoWell(<<>>) /\ AllWell(<<>>) /\ LogWell(<<>>, <<>>)
    BY DEF Starts, Closing, TodoWell, AllWell, LogWell
  <1>10. SameShape
    BY <1>1 DEF SameShape
  <1>11. QED
    BY <1>1, <1>8, <1>9, <1>10 DEF HangMain, HangRest

\* No note falls out of a tree; and at rest all its nodes hang from the root,
\* where the sidebar shows them, while nothing went wrong.
THEOREM NotesHangKept == Spec => []NotesHang
  <1> DEFINE Inv == NotesInv /\ InOrder /\ LateOk(act["llm"].todo) /\ HangMain
  <1>1. Init => Inv
    BY NotesInit, TypesInit, InOrderInit, StackInit, HangInit
  <1>2. Inv /\ [Next]_vars => Inv'
    BY NotesStep, InOrderStep, LateStep, HangStep DEF NotesInv
  <1>3. Inv => NotesHang
    <2>1. SUFFICES ASSUME Inv
                   PROVE  NotesHang
      OBVIOUS
    <2>2. TypeOK
      BY <2>1 DEF NotesInv
    <2>3. NotesInv => NotesStay
      BY NotesInvStay
    <2>4. ASSUME UiIdle, amiss = {}
          PROVE  Hangs(tree)
      <3>1. CASE tree = NoTree
        <4>1. There(NoTree) = {}
          BY DEF There, NoTree
        <4>2. NoTree \in Tree
          BY <2>2, <3>1 DEF TypeOK
        <4>3. Hanging(NoTree)
          BY <4>1 DEF Hanging
        <4>4. QED
          BY <3>1, <4>2, <4>3, HangingHangs
      <3>2. CASE tree # NoTree
        <4>1. Play(HungPics) /\ HangRest
          BY <2>1, <2>4, <3>2 DEF HangMain
        <4>2. Picture(tree) \in HungPics
          BY <2>2, <2>4, <4>1, HangAtRest DEF UiIdle
        <4>3. QED
          BY <2>2, <4>2, HungHanging DEF TypeOK
      <3>3. QED
        BY <3>1, <3>2
    <2>5. QED
      BY <2>1, <2>3, <2>4 DEF NotesHang, NotesStay
  <1>4. QED
    BY <1>1, <1>2, <1>3, PTL DEF Spec
=============================================================================
