---------------------------- MODULE ClusterTree ----------------------------
(***************************************************************************)
(* A cluster tree: one note whose frontmatter is the tree, edited in the   *)
(* sidebar with undo and redo while a spawned task lets a model name its   *)
(* clusters (core/src/trees/, app/src/clusters/sidebar/).  Every edit      *)
(* loads the file, changes the copy and saves it, with no lock across; the *)
(* session's history is appended to afterwards, under a lock of its own.   *)
(***************************************************************************)
EXTENDS SequencesExt, FiniteSets

CONSTANTS
  Node,        \* the ids of the tree's nodes, those a split may give included
  Halves,      \* for each cluster that can be split, the ids its halves get
  FirstTrees,  \* the trees a session may start with
  UserText, ModelText,  \* names and summaries, by who wrote them
  MaxSpent,    \* bounds the model: verbs beside undo and redo; a naming task
               \* counts as two
  None

Kind == {"cluster", "leaf", "bucket"}
Text == UserText \cup ModelText \cup {"Cluster N"}
Row == [kind: Kind, parent: Node \cup {None}, text: Text, mine: BOOLEAN]
Tree == [Node -> Row \cup {None}]

\* The halves have ids of their own ("split-..."), never a note's ("leaf-...").
ASSUME TreeConstants ==
  /\ IsFiniteSet(Node) /\ FirstTrees \subseteq Tree
  /\ DOMAIN Halves \subseteq Node
  /\ \A c \in DOMAIN Halves :
       /\ Halves[c] \in Node \X Node /\ Halves[c][1] # Halves[c][2]
       /\ \A t \in FirstTrees, h \in {1, 2} :
            t[Halves[c][h]] = None \/ t[Halves[c][h]].kind # "leaf"
  /\ MaxSpent \in Nat
  /\ None \notin Node /\ None \notin Row /\ None \notin Tree
  /\ None \notin Kind \X (Node \cup {None}) /\ None \notin Kind \X (Node \cup {None}) \X Text

VARIABLES
  tree,      \* the .md's frontmatter
  log,       \* Db.history of this tree
  redo,      \* State.redo_stacks of this tree
  shown,     \* State.nodes, the sidebar's copy, loaded again when marked dirty
  act,       \* what the UI thread and the naming task are about to do
  spent,     \* how much of MaxSpent is used up
  given,     \* history: the text the user gave a node
  amiss      \* history: what went wrong so far

vars == <<tree, log, redo, shown, act, spent, given, amiss>>

NoTree == [n \in Node |-> None]

-----------------------------------------------------------------------------
(* Reading a tree.                                                         *)

There(t) == {n \in Node : t[n] # None}
OfKind(t, k) == {n \in There(t) : t[n].kind = k}
Children(t, n) == {m \in There(t) : t[m].parent = n}

\* S and everything under it.
Under(t, S) ==
  LET U[i \in 0..Cardinality(Node)] ==
        IF i = 0 THEN S
        ELSE LET above == U[i - 1] IN above \cup {n \in There(t) : t[n].parent \in above}
  IN  U[Cardinality(Node)]

Below(t, n) == Under(t, {n})
Roots(t) == {n \in There(t) : t[n].parent = None}

\* A built tree's nodes all hang from its roots.
Hangs(t) == There(t) = Under(t, Roots(t))
ASSUME TreesHang == \A t \in FirstTrees : Hangs(t)

\* A walk up the parents from n comes to an end.
Ends(t, n) ==
  LET Up[i \in 0..Cardinality(Node)] ==
        IF i = 0 THEN n
        ELSE LET at == Up[i - 1] IN IF at \in There(t) THEN t[at].parent ELSE None
  IN  Up[Cardinality(Node)] \notin There(t)

\* What undo gives back; it stamps the text as the user's.
Picture(t) == [n \in Node |-> IF t[n] = None THEN None ELSE <<t[n].kind, t[n].parent, t[n].text>>]

-----------------------------------------------------------------------------
(* The calls of Db, each one load, change and save.                        *)

Rename(n, x) == [op |-> "rename", at |-> n, text |-> x]
Name(n, x) == [op |-> "name", at |-> n, text |-> x]
Move(n, p) == [op |-> "move", at |-> n, to |-> p]
Merge(n, o) == [op |-> "merge", at |-> n, other |-> o]
MergeUp(n) == [op |-> "merge_up", at |-> n]
DropTo(n, b) == [op |-> "drop", at |-> n, to |-> b]
Insert(n, r) == [op |-> "insert", at |-> n, row |-> r]
Reparent(m) == [op |-> "reparent", moves |-> m]
Delete(n) == [op |-> "remove", at |-> n]

\* append_history, pop_last_history, and the host's bookkeeping after a verb.
Record(e) == [op |-> "record", entry |-> e]
Pop == [op |-> "pop"]
Finish(r) == [op |-> "finish", redo |-> r]
Off == {"record", "pop", "finish"}

Onto(t, moves) == [n \in Node |-> IF n \in DOMAIN moves /\ t[n] # None
                                  THEN [t[n] EXCEPT !.parent = moves[n]] ELSE t[n]]
Without(t, S) == [n \in Node |-> IF n \in S THEN None ELSE t[n]]
ToOne(S, p) == [n \in S |-> p]
Where(t, S) == [n \in S |-> t[n].parent]

\* merge_children_up: the children that are clusters go, theirs move up.
Absorbed(t, n) == Children(t, n) \cap OfKind(t, "cluster")
Grandchildren(t, n) == UNION {Children(t, c) : c \in Absorbed(t, n)}

\* Mutation: not the nested ones.
Leaves_Direct(t, n) == Children(t, n) \cap OfKind(t, "leaf")

\* drop_cluster: the leaves fall to the bucket, every other node goes.
Leaves(t, n) == Below(t, n) \cap OfKind(t, "leaf")
Dropped(t, n) == Below(t, n) \ OfKind(t, "leaf")

\* Mutation: the model's text replaces the user's.
Named_Over(t, n, x) == [t EXCEPT ![n].text = x]

\* auto_set_name_summary
Named(t, n, x) == IF t[n].mine THEN t ELSE [t EXCEPT ![n].text = x]

Apply(t, c) ==
  CASE c.op = "rename" -> [t EXCEPT ![c.at].text = c.text, ![c.at].mine = TRUE]
    [] c.op = "name" -> Named(t, c.at, c.text)
    [] c.op = "move" -> [t EXCEPT ![c.at].parent = c.to]
    [] c.op = "merge" -> Without(Onto(t, ToOne(Children(t, c.other), c.at)), {c.other})
    [] c.op = "merge_up" -> Without(Onto(t, ToOne(Grandchildren(t, c.at), c.at)), Absorbed(t, c.at))
    [] c.op = "drop" -> Without(Onto(t, ToOne(Leaves(t, c.at), c.to)), Dropped(t, c.at))
    [] c.op = "insert" -> [t EXCEPT ![c.at] = c.row]
    [] c.op = "reparent" -> Onto(t, c.moves)
    [] c.op = "remove" -> Without(t, {c.at})

\* The `?`s let a call through if the file and the node are there and siblings
\* are still siblings.
Fits(t, c) ==
  /\ t # NoTree
  /\ c.op \in {"rename", "name", "move", "merge", "drop"} => t[c.at] # None
  /\ c.op = "merge" => t[c.other] # None /\ t[c.at].parent = t[c.other].parent

\* Where a call walks up the parents, on the tree it has changed, to count the
\* churn.  With a cycle on the way it never returns.
WalksFrom(t, c) ==
  (CASE c.op = "move" -> {t[c.at].parent, c.to}
     [] c.op = "reparent" -> {c.moves[n] : n \in DOMAIN c.moves}
                                \cup {t[n].parent : n \in DOMAIN c.moves \cap There(t)}
     [] c.op \in {"merge", "merge_up"} -> {c.at}
     [] c.op = "drop" -> {c.to}
     [] OTHER -> {}) \cap Node
Returns(t, c) == \A n \in WalksFrom(t, c) : Ends(Apply(t, c), n)

\* What each call remembers for undo, from the tree it loaded: apply_undo's
\* calls.  Those that have an inverse of their own use it and pop its entry.
Restored(t, S) == [i \in 1..Cardinality(S) |-> Insert(SetToSeq(S)[i], t[SetToSeq(S)[i]])]
Undo(t, c) ==
  CASE c.op = "rename" -> <<Rename(c.at, t[c.at].text), Pop>>
    [] c.op = "name" -> <<Rename(c.at, t[c.at].text), Pop, Rename(c.at, t[c.at].text), Pop>>
    [] c.op = "move" -> <<Move(c.at, t[c.at].parent), Pop>>
    [] c.op = "merge" -> Restored(t, {c.other}) \o <<Reparent(Where(t, Children(t, c.other)))>>
    [] c.op = "merge_up" -> Restored(t, Absorbed(t, c.at)) \o <<Reparent(Where(t, Grandchildren(t, c.at)))>>
    [] c.op = "drop" -> Restored(t, Dropped(t, c.at)) \o <<Reparent(Where(t, Leaves(t, c.at)))>>

Entry(t, c) ==
  [call |-> c, undo |-> Undo(t, c), before |-> Picture(t), after |-> Picture(Apply(t, c))]

Logs(t, c) ==
  \/ c.op \in {"rename", "move", "merge", "merge_up", "drop"}
  \/ c.op = "name" /\ ~t[c.at].mine

-----------------------------------------------------------------------------
(* The two writers, one step at a time.                                    *)

Idle == [todo |-> <<>>, doc |-> None]
UiIdle == act["ui"] = Idle
Next1(a) == Head(act[a].todo)
Waits(a, op) == act[a].todo # <<>> /\ Next1(a).op = op

Init ==
  /\ tree \in FirstTrees /\ shown = tree
  /\ log = <<>> /\ redo = <<>>
  /\ act = [a \in {"ui", "llm"} |-> Idle]
  /\ spent = 0
  /\ given = [n \in Node |-> None] /\ amiss = {}

\* The naming task writes in the middle of a verb of the user's.
Crossing(a) == IF a = "llm" /\ ~UiIdle THEN {"crossed"} ELSE {}

Calls(a) == act[a].todo # <<>> /\ Next1(a).op \notin Off

\* What call comes next was loaded for; with no naming under way nobody writes
\* between the UI thread's load and its save.
Loaded(a) == IF act["llm"] = Idle THEN tree ELSE act[a].doc

Load(a) ==
  /\ Calls(a) /\ Loaded(a) = None
  /\ Fits(tree, Next1(a))
  /\ act' = [act EXCEPT ![a].doc = tree]
  /\ UNCHANGED <<tree, log, redo, shown, spent, given, amiss>>

\* An error ends the verb of the user's; the task goes on to the next cluster.
Fail(a) ==
  /\ Calls(a) /\ act[a].doc = None
  /\ ~Fits(tree, Next1(a))
  /\ act' = [act EXCEPT ![a].todo = IF a = "ui" THEN <<>> ELSE Tail(@)]
  /\ UNCHANGED <<tree, log, redo, shown, spent, given, amiss>>

Fresh(p) == [kind |-> "cluster", parent |-> p, text |-> "Cluster N", mine |-> FALSE]

\* What the user has given the nodes after call c on t; a half whose split is
\* undone is gone for good, and an earlier node of its id may come back.
GivenAfter(t, c) ==
  CASE c.op = "rename" -> [given EXCEPT ![c.at] = c.text]
    [] c.op = "remove" -> [given EXCEPT ![c.at] = None]
    [] c.op = "insert" -> [given EXCEPT ![c.at] = IF t[c.at] = None /\ c.row = Fresh(c.row.parent)
                                                  THEN None ELSE @]
    [] OTHER -> given

Save(a) ==
  LET t == Loaded(a)
      c == Next1(a)
  IN  /\ Calls(a) /\ t # None /\ Fits(t, c) /\ Returns(t, c)
      /\ tree' = Apply(t, c)
      /\ act' = [act EXCEPT ![a] =
                   [todo |-> (IF Logs(t, c) THEN <<Record(Entry(t, c))>> ELSE <<>>) \o Tail(@.todo),
                    doc |-> None]]
      /\ given' = GivenAfter(t, c)
      /\ amiss' = amiss \cup Crossing(a)
                        \cup (IF tree # t THEN {"overwritten"} ELSE {})
                        \cup (IF c.op = "drop" /\ c.to \in Below(t, c.at) THEN {"bucket"} ELSE {})
      /\ UNCHANGED <<log, redo, shown, spent>>

AppendHistory(a) ==
  /\ Waits(a, "record")
  /\ log' = Append(log, Next1(a).entry)
  /\ act' = [act EXCEPT ![a].todo = Tail(@)]
  /\ amiss' = amiss \cup Crossing(a)
  /\ UNCHANGED <<tree, redo, shown, spent, given>>

\* Mutation: the reverse edit stays in the history.
PopHistory_Kept ==
  /\ Waits("ui", "pop")
  /\ act' = [act EXCEPT !["ui"].todo = Tail(@)]
  /\ UNCHANGED <<tree, log, redo, shown, spent, given, amiss>>

PopHistory ==
  /\ Waits("ui", "pop")
  /\ log' = IF log = <<>> THEN log ELSE Front(log)
  /\ act' = [act EXCEPT !["ui"].todo = Tail(@)]
  /\ UNCHANGED <<tree, redo, shown, spent, given, amiss>>

\* The frame after the verb shows the tree as it is by then.
FinishVerb ==
  /\ Waits("ui", "finish")
  /\ redo' = Next1("ui").redo
  /\ shown' = tree
  /\ act' = [act EXCEPT !["ui"] = Idle]
  /\ UNCHANGED <<tree, log, spent, given, amiss>>

\* poll_cluster_llm_job
FinishJob ==
  /\ UiIdle /\ Waits("llm", "finish")
  /\ shown' = tree
  /\ act' = [act EXCEPT !["llm"] = Idle]
  /\ UNCHANGED <<tree, log, redo, spent, given, amiss>>

-----------------------------------------------------------------------------
(* The user's verbs, offered by what the sidebar shows.                    *)

\* A verb begins; the task may have saved and not yet recorded it.
Begin(todo) ==
  /\ UiIdle
  /\ act' = [act EXCEPT !["ui"].todo = todo]
  /\ UNCHANGED <<tree, shown, given>>

Interrupts == IF Waits("llm", "record") THEN {"crossed"} ELSE {}

Spend(k) == spent + k <= MaxSpent /\ spent' = spent + k

\* Once something went amiss only undo and redo follow: a bound.
Verb(todo, wrong) ==
  /\ amiss = {} /\ Spend(1)
  /\ Begin(todo)
  /\ amiss' = amiss \cup Interrupts \cup wrong
  /\ UNCHANGED <<log, redo>>

Edit(c) == Verb(<<c, Finish(redo)>>, {})

Clusters == OfKind(shown, "cluster")

RenameNode == \E n \in There(shown) \ OfKind(shown, "leaf"), x \in UserText : Edit(Rename(n, x))

\* handle_drop, apply_move_to, promote_to_outlier_bucket
MoveNode ==
  \E n \in There(shown), p \in Clusters \cup OfKind(shown, "bucket") :
    p \notin Below(shown, n) /\ Edit(Move(n, p))

MergeSiblings ==
  \E n \in There(shown) \ OfKind(shown, "leaf"), o \in Clusters :
    n # o /\ shown[n].parent = shown[o].parent /\ Edit(Merge(n, o))

MergeChildrenUp == \E n \in Clusters : Edit(MergeUp(n))

DropCluster == \E n \in Clusters, b \in OfKind(shown, "bucket") : Edit(DropTo(n, b))

\* split_cluster puts leaves of the cluster, at any depth, into two new ones
\* whose ids follow from the cluster's, and records the whole at the end.
SplitMoves(n, A, B) == [m \in A \cup B |-> IF m \in A THEN Halves[n][1] ELSE Halves[n][2]]

SplitTree(n, A, B) ==
  Onto([tree EXCEPT ![Halves[n][1]] = Fresh(n), ![Halves[n][2]] = Fresh(n)], SplitMoves(n, A, B))

SplitEntry(n, A, B) ==
  [call |-> [op |-> "split"],
   undo |-> <<Reparent(ToOne(A \cup B, n)), Delete(Halves[n][1]), Delete(Halves[n][2])>>,
   before |-> Picture(tree), after |-> Picture(SplitTree(n, A, B))]

SplitCluster ==
  \E n \in Clusters \cap DOMAIN Halves : \E A, B \in SUBSET Leaves(tree, n) :
    /\ A # {} /\ B # {} /\ A \cap B = {}
    /\ Verb(<<Insert(Halves[n][1], Fresh(n)), Insert(Halves[n][2], Fresh(n)),
              Reparent(SplitMoves(n, A, B)), Record(SplitEntry(n, A, B)), Finish(<<>>)>>,
            IF A \cup B \subseteq Children(tree, n) /\ \A h \in {1, 2} : tree[Halves[n][h]] = None
            THEN {} ELSE {"deep"})

\* perform_undo: the entry goes to the redo stack if the undo succeeds.
UndoLast ==
  /\ log # <<>>
  /\ Begin(Last(log).undo \o <<Finish(Append(redo, Last(log)))>>)
  /\ log' = Front(log)
  /\ amiss' = amiss \cup Interrupts
  /\ UNCHANGED <<redo, spent>>

Shape(pic) == [n \in Node |-> IF pic[n] = None THEN None ELSE <<pic[n][1], pic[n][2]>>]

\* perform_redo: the forward call on the tree as it is by now; a split or a
\* naming is not supported, and its entry gone.
RedoLast ==
  /\ redo # <<>>
  /\ Begin(IF Last(redo).call.op \in {"split", "name"} THEN <<>>
           ELSE <<Last(redo).call, Finish(Front(redo))>>)
  /\ redo' = Front(redo)
  /\ amiss' = amiss \cup Interrupts
                    \cup (IF Shape(Last(redo).before) = Shape(Picture(tree)) THEN {} ELSE {"replayed"})
  /\ UNCHANGED <<log, spent>>

\* regenerate_names, summarize_subset: the targets as shown when it starts.
NameClusters ==
  \E S \in kSubset(1, Clusters), x \in ModelText :
    /\ UiIdle
    /\ act["llm"] = Idle /\ Spend(2)
    /\ act' = [act EXCEPT !["llm"].todo = [i \in 1..Cardinality(S) |-> Name(SetToSeq(S)[i], x)]
                                          \o <<Finish(<<>>)>>]
    /\ UNCHANGED <<tree, log, redo, shown, given, amiss>>

\* delete_tree: the file and the session's history.
DiscardTree ==
  /\ UiIdle /\ tree # NoTree /\ shown # NoTree
  /\ tree' = NoTree /\ log' = <<>> /\ redo' = <<>> /\ shown' = NoTree
  /\ UNCHANGED <<act, spent, given, amiss>>

Verbs ==
  \/ RenameNode \/ MoveNode \/ MergeSiblings \/ MergeChildrenUp \/ DropCluster \/ SplitCluster
  \/ UndoLast \/ RedoLast \/ NameClusters \/ DiscardTree

Steps ==
  \/ \E a \in {"ui", "llm"} : Load(a) \/ Fail(a) \/ Save(a) \/ AppendHistory(a)
  \/ PopHistory \/ FinishVerb \/ FinishJob

Next == Verbs \/ Steps

Spec == Init /\ [][Next]_vars

-----------------------------------------------------------------------------

\* No note falls out of a tree, whatever is dropped, merged, split, undone,
\* redone or overwritten; and at rest all its nodes hang from the root, where
\* the sidebar shows them, unless the bucket itself was dropped, a verb was
\* redone on another tree than it had changed, a split took the ids of an
\* earlier one, a save overwrote another, or the naming task met a verb.
NotesHang ==
  /\ tree # NoTree => \E t \in FirstTrees : OfKind(t, "leaf") \subseteq OfKind(tree, "leaf")
  /\ UiIdle /\ amiss = {} => Hangs(tree)

\* The history is in step with the tree: its last entry left the tree as it is,
\* each entry found what the one before it left, so that undo leads back
\* through every tree there was -- unless the naming task met a verb, or a split
\* took leaves from deeper down or the ids of an earlier split.
StackInStep ==
  tree # NoTree /\ UiIdle /\ ~Waits("llm", "record") /\ amiss \subseteq {"bucket", "replayed"} =>
    /\ log # <<>> => Last(log).after = Picture(tree)
    /\ \A k \in 1..(Len(log) - 1) : log[k].after = log[k + 1].before

\* What the user wrote on a node stays, whatever the model answers and whatever
\* is merged, dropped, undone and redone around it -- unless a save overwrote
\* another, or a split took the ids of an earlier one.
UserTextStands ==
  amiss \subseteq {"crossed", "bucket", "replayed"} =>
    \A n \in There(tree) : given[n] # None => tree[n].text = given[n]
=============================================================================
