-------------------------- MODULE VaultFilesProofs --------------------------
(***************************************************************************)
(* Proofs about VaultFiles, for every vault, any number of jobs and        *)
(* operations, failing writes and restarts: types, the file of a loaded    *)
(* document, the queue that follows a note wherever it goes, and what      *)
(* review promises.  The steps at one path are LayeredDocProofs'; here are *)
(* those that move a document, and what each step means between the two    *)
(* steps of a job.                                                         *)
(***************************************************************************)
EXTENDS VaultFiles, LayeredDocProofs

-----------------------------------------------------------------------------
\* Moving a document, its queue and its typing from one path to another.

\* What f maps a path to, g maps some path to, but for what is gone.
ComesFrom(f, g, gone) ==
  \A r \in Path : f[r] = gone \/ \E s \in Path : f[r] = g[s]

\* Where everything is after a move.
LEMMA MovedFacts ==
  ASSUME NEW A, NEW f \in [Path -> A], NEW p \in Path, NEW q \in Path, NEW gone \in A
  PROVE  /\ Moved(f, p, q, gone) \in [Path -> A]
         /\ ComesFrom(Moved(f, p, q, gone), f, gone)
         /\ p = q => Moved(f, p, q, gone) = f
         /\ p # q => /\ Moved(f, p, q, gone)[p] = gone /\ Moved(f, p, q, gone)[q] = f[p]
                     /\ \A r \in Path \ {p, q} : Moved(f, p, q, gone)[r] = f[r]
  <1>1. CASE p = q
    BY <1>1 DEF Moved, ComesFrom
  <1>2. CASE p # q
    <2>1. Moved(f, p, q, gone) = [f EXCEPT ![p] = gone, ![q] = f[p]]
      BY <1>2 DEF Moved
    <2>2. QED
      BY <1>2, <2>1 DEF ComesFrom
  <1>3. QED
    BY <1>1, <1>2

\* The documents after a move.
LEMMA MovedPlaces ==
  ASSUME NEW D \in [Path -> Doc \cup {None}], NEW p \in Path, NEW q \in Path
  PROVE  /\ p = q => Moved(D, p, q, None) = D
         /\ p # q => /\ Moved(D, p, q, None)[p] = None /\ Moved(D, p, q, None)[q] = D[p]
                     /\ \A r \in Path \ {p, q} : Moved(D, p, q, None)[r] = D[r]
  <1> DEFINE A == Doc \cup {None}
  <1>1. D \in [Path -> A] /\ None \in A
    OBVIOUS
  <1> HIDE DEF A
  <1>2. QED
    BY <1>1, MovedFacts

\* The queue files after a move: an empty queue leaves what the target has.
LEMMA QueueMovedFacts ==
  ASSUME NEW Q \in [Path -> Seq(Op)], NEW p \in Path, NEW q \in Path
  PROVE  /\ QueueMoved(Q, p, q) \in [Path -> Seq(Op)]
         /\ ComesFrom(QueueMoved(Q, p, q), Q, <<>>)
         /\ p = q \/ Q[p] = <<>> => QueueMoved(Q, p, q) = Q
         /\ p # q /\ Q[p] # <<>> => /\ QueueMoved(Q, p, q)[p] = <<>>
                                    /\ QueueMoved(Q, p, q)[q] = Q[p]
         /\ \A r \in Path \ {p, q} : QueueMoved(Q, p, q)[r] = Q[r]
  <1>0. <<>> \in Seq(Op)
    OBVIOUS
  <1>1. CASE p = q \/ Q[p] = <<>>
    <2>1. QueueMoved(Q, p, q) = Q
      BY <1>1 DEF QueueMoved
    <2>2. QED
      BY <1>1, <2>1 DEF ComesFrom
  <1>2. CASE p # q /\ Q[p] # <<>>
    <2>1. QueueMoved(Q, p, q) = [Q EXCEPT ![p] = <<>>, ![q] = Q[p]]
      BY <1>2 DEF QueueMoved
    <2>2. QED
      BY <1>0, <1>2, <2>1 DEF ComesFrom
  <1>3. QED
    BY <1>1, <1>2

\* What waits may move, but nothing new waits.
CalmAnywhere ==
  /\ \A i \in OpId : fate'[i] = "unborn" <=> fate[i] = "unborn"
  /\ \A p \in Path : InOrder(queued'[p])
  /\ \A p \in Path : \A op \in Waiting(p)' : \E r \in Path : op \in Waiting(r)

\* Then ids stay in the order they were minted in.
LEMMA AnywhereMinted ==
  ASSUME LTypeOK, Minted, CalmAnywhere
  PROVE  Minted'
  <1>1. ASSUME NEW p \in Path, NEW i \in Named(p)' PROVE fate'[i] # "unborn"
    <2>1. PICK op \in Waiting(p)' : i \in {op.id} \cup op.needs
      BY DEF Named
    <2>2. PICK r \in Path : op \in Waiting(r)
      BY <2>1 DEF CalmAnywhere
    <2>3. i \in Named(r)
      BY <2>1, <2>2 DEF Named
    <2>4. i \in OpId /\ fate[i] # "unborn"
      BY <2>3, WaitingType DEF Minted
    <2>5. QED
      BY <2>4 DEF CalmAnywhere
  <1>2. \A i, j \in OpId : i < j /\ fate'[j] # "unborn" => fate'[i] # "unborn"
    BY DEF CalmAnywhere, Minted
  <1>3. QED
    BY <1>1, <1>2 DEF CalmAnywhere, Minted

\* Where nothing new waits, nothing waits at two paths.
LEMMA FewerHome ==
  ASSUME OneHome, \A r \in Path : Waiting(r)' \subseteq Waiting(r)
  PROVE  OneHome'
  <1>1. \A r \in Path : IdsAt(r)' \subseteq IdsAt(r)
    BY DEF IdsAt
  <1>2. ASSUME NEW r \in Path, NEW s \in Path, r # s PROVE IdsAt(r)' \cap IdsAt(s)' = {}
    BY <1>1, <1>2 DEF OneHome
  <1>3. QED
    BY <1>2 DEF OneHome

\* Where nothing new waits.
LEMMA CalmTyped ==
  ASSUME LTypeOK, Minted, Calm
  PROVE  Minted' /\ (OneHome => OneHome')
  BY CalmSteps, FewerHome DEF Calm

\* What waits after a move waited somewhere before.
LEMMA MovedWaits ==
  ASSUME NEW p \in Path, NEW q \in Path,
         NEW D \in [Path -> Doc \cup {None}], NEW Q \in [Path -> Seq(Op)],
         docs' = Moved(D, p, q, None), queued' = QueueMoved(Q, p, q)
  PROVE  \A r \in Path : \A op \in Waiting(r)' :
           \E s \in Path : \/ op \in Members(Q[s])
                          \/ (D[s] # None /\ op \in Members(D[s].pending))
  <1>1. ComesFrom(docs', D, None)
    <2> DEFINE A == Doc \cup {None}
    <2>1. D \in [Path -> A] /\ None \in A
      OBVIOUS
    <2> HIDE DEF A
    <2>2. ComesFrom(Moved(D, p, q, None), D, None)
      BY <2>1, MovedFacts
    <2>3. QED
      BY <2>2
  <1>2. Members(<<>>) = {}
    BY DEF Members
  <1>3. ComesFrom(queued', Q, <<>>)
    BY QueueMovedFacts
  <1>4. ASSUME NEW r \in Path, NEW op \in Waiting(r)'
        PROVE  \E s \in Path : \/ op \in Members(Q[s])
                              \/ (D[s] # None /\ op \in Members(D[s].pending))
    <2>1. op \in Members(queued'[r]) \/ (docs'[r] # None /\ op \in Members(docs'[r].pending))
      BY DEF Waiting, Loaded, Members
    <2>2. CASE op \in Members(queued'[r])
      BY <1>2, <1>3, <2>2 DEF ComesFrom
    <2>3. CASE docs'[r] # None /\ op \in Members(docs'[r].pending)
      BY <1>1, <2>3 DEF ComesFrom
    <2>4. QED
      BY <2>1, <2>2, <2>3
  <1>5. QED
    BY <1>4

\* A move of the documents D and the queue files Q, which hold no operation but
\* what waits, keeps types and order.
LEMMA MovedTyped ==
  ASSUME LTypeOK, Minted, NEW p \in Path, NEW q \in Path,
         NEW D \in [Path -> Doc \cup {None}], NEW Q \in [Path -> Seq(Op)],
         \A r \in Path : InOrder(Q[r]) /\ Members(Q[r]) \subseteq Waiting(r),
         \A r \in Path : D[r] # None =>
           InOrder(D[r].pending) /\ Members(D[r].pending) \subseteq Waiting(r),
         docs' = Moved(D, p, q, None), queued' = QueueMoved(Q, p, q),
         fate' \in [OpId -> {"unborn", "queued", "landed", "rejected", "adrift"}],
         \A i \in OpId : fate'[i] = "unborn" <=> fate[i] = "unborn"
  PROVE  DocsTyped' /\ QueuesTyped' /\ Minted' /\ (OneHome => OneHome')
  <1>1. docs' \in [Path -> Doc \cup {None}] /\ ComesFrom(docs', D, None)
    <2> DEFINE A == Doc \cup {None}
    <2>1. D \in [Path -> A] /\ None \in A
      OBVIOUS
    <2> HIDE DEF A
    <2>2. Moved(D, p, q, None) \in [Path -> A] /\ ComesFrom(Moved(D, p, q, None), D, None)
      BY <2>1, MovedFacts
    <2>3. QED
      BY <2>2 DEF A
  <1>2. InOrder(<<>>) /\ Members(<<>>) = {}
    BY DEF InOrder, Members
  <1>3. queued' \in [Path -> Seq(Op)] /\ ComesFrom(queued', Q, <<>>)
    BY QueueMovedFacts
  <1>4. DocsTyped'
    BY <1>1 DEF DocsTyped, ComesFrom
  <1>5. QueuesTyped'
    BY <1>3 DEF QueuesTyped
  <1>6. \A r \in Path : InOrder(queued'[r])
    BY <1>2, <1>3 DEF ComesFrom
  <1>7. ASSUME NEW r \in Path, NEW op \in Waiting(r)' PROVE \E s \in Path : op \in Waiting(s)
    BY MovedWaits
  <1>8. CalmAnywhere
    BY <1>6, <1>7 DEF CalmAnywhere
  <1>9. ASSUME OneHome PROVE OneHome'
    <2>1. /\ p = q => docs' = D
          /\ p # q => /\ docs'[p] = None /\ docs'[q] = D[p]
                      /\ \A r \in Path \ {p, q} : docs'[r] = D[r]
      BY MovedPlaces
    <2>2. /\ p = q => queued' = Q
          /\ p # q => queued'[p] = <<>> /\ queued'[q] \in {Q[p], Q[q]}
          /\ \A r \in Path \ {p, q} : queued'[r] = Q[r]
      BY QueueMovedFacts
    <2>3. \A r \in Path : Waiting(r)' = Members(queued'[r])
                            \cup (IF docs'[r] = None THEN {} ELSE Members(docs'[r].pending))
      BY DEF Waiting, Loaded, Members
    <2>4. CASE p = q
      <3>1. \A r \in Path : Waiting(r)' \subseteq Waiting(r)
        BY <2>1, <2>2, <2>3, <2>4
      <3>2. QED
        BY <1>9, <3>1, FewerHome
    <2>5. CASE p # q
      <3>1. Waiting(p)' = {}
        BY <1>2, <2>1, <2>2, <2>3, <2>5
      <3>2. Waiting(q)' \subseteq Waiting(p) \cup Waiting(q)
        BY <2>1, <2>2, <2>3, <2>5
      <3>3. \A r \in Path \ {p, q} : Waiting(r)' \subseteq Waiting(r)
        BY <2>1, <2>2, <2>3, <2>5
      <3>4. /\ IdsAt(p)' = {} /\ IdsAt(q)' \subseteq IdsAt(p) \cup IdsAt(q)
            /\ \A r \in Path \ {p, q} : IdsAt(r)' \subseteq IdsAt(r)
        BY <3>1, <3>2, <3>3 DEF IdsAt
      <3>5. ASSUME NEW r \in Path, NEW s \in Path, r # s PROVE IdsAt(r)' \cap IdsAt(s)' = {}
        BY <1>9, <3>4, <3>5 DEF OneHome
      <3>6. QED
        BY <3>5 DEF OneHome
    <2>6. QED
      BY <2>4, <2>5
  <1>10. QED
    BY <1>4, <1>5, <1>8, <1>9, AnywhereMinted

-----------------------------------------------------------------------------
\* Accepting any operation, renames too.

\* What an accepted operation leaves, and where.
LEMMA AnyAcceptFacts ==
  ASSUME LTypeOK, Minted, NEW p \in Path, NEW i \in OpId, NEW o \in {"ok", "queue_fails", "md_fails"},
         AcceptPending(p, i, o)
  PROVE  LET d == Open(p)
             op == d.pending[PositionOf(i, d.pending)]
             after == Landed(d, op)
             q == PathAfter(p, op)
         IN  /\ d # None /\ d \in Doc /\ d.pending = Queue(p) /\ i \in Ids(Queue(p))
             /\ op \in Op /\ op.id = i /\ q \in Path /\ (q = p \/ ~Occupied(q))
             /\ op.does \in Rename => op.does.from \in Path
             /\ after \in Doc /\ after.pending = Without(i, Queue(p)) /\ after.tomb = d.tomb
             /\ \/ /\ o = "queue_fails" /\ Breaks /\ UNCHANGED <<disk, queued, typed>>
                   /\ docs' = [docs EXCEPT ![p] = after]
                \/ /\ docs' = Moved([docs EXCEPT ![p] = after], p, q, None)
                   /\ queued' = QueueMoved([queued EXCEPT ![p] = Without(i, Queue(p))], p, q)
                   /\ typed' = Moved(typed, p, q, {})
                   /\ \/ o = "ok" /\ Succeeds /\ disk' = DiskAfter(q, after, op)
                      \/ o = "md_fails" /\ Breaks /\ disk' = disk
             /\ fate' = IF o = "ok" THEN [fate EXCEPT ![i] = "landed"] ELSE fate
             /\ UNCHANGED <<saving, sweep, lost, restarts>>
  <1> DEFINE d == Open(p)
             n == PositionOf(i, d.pending)
             op == d.pending[n]
             after == Landed(d, op)
             rest == Without(i, Queue(p))
             q == PathAfter(p, op)
  <1>1. d # None /\ d \in Doc /\ d.pending = Queue(p) /\ i \in Ids(Queue(p))
    BY OpenFacts DEF AcceptPending
  <1>2. Queue(p) \in Seq(Op) /\ InOrder(Queue(p)) /\ Members(Queue(p)) \subseteq Waiting(p)
    BY <1>1, OpenFacts
  <1>3. n \in 1..Len(Queue(p)) /\ op.id = i /\ op \in Op
    BY <1>1, <1>2, PositionFacts
  <1> HIDE DEF n
  <1>4. op.does \in Deed
    BY <1>3 DEF Op, Deed
  <1>5. op.does \in Rename => op.does.from \in Path /\ op.does.to \in Path
    <2>1. \A c \in Rename : c.from \in Path /\ c.to \in Path
      BY DEF Rename
    <2>2. QED
      BY <2>1
  <1>6. q \in Path
    BY <1>5 DEF PathAfter
  <1>7. rest \in Seq(Op)
    BY <1>1, <1>2, WithoutFacts
  <1>8. d.accepted \in Text /\ d.working \in Text \cup {None} /\ d.tomb \in BOOLEAN
    BY <1>1, DocFields
  <1>9. after = [d EXCEPT !.pending = rest, !.accepted = Shown(d.accepted, op.does),
                     !.working = IF d.working = None THEN None ELSE Shown(d.working, op.does)]
    BY <1>1, <1>3 DEF Landed
  <1>10. after \in Doc /\ after.pending = rest /\ after.tomb = d.tomb
    <2> DEFINE t == Shown(d.accepted, op.does)
               w == IF d.working = None THEN None ELSE Shown(d.working, op.does)
    <2>1. t \in Text /\ w \in Text \cup {None}
      BY <1>4, <1>8, ShownType
    <2>2. after = [d EXCEPT !.pending = rest, !.accepted = t, !.working = w]
      BY <1>9
    <2> HIDE DEF t, w, after, rest, op, d
    <2>3. QED
      BY <1>1, <1>7, <2>1, <2>2 DEF Doc
  <1> HIDE DEF after, op, rest, q
  <1>11. /\ q = p \/ ~Occupied(q)
         /\ \/ o = "queue_fails" /\ Breaks /\ Store(p, after) /\ UNCHANGED <<disk, queued, typed>>
            \/ /\ docs' = Moved([docs EXCEPT ![p] = after], p, q, None)
               /\ queued' = QueueMoved([queued EXCEPT ![p] = after.pending], p, q)
               /\ typed' = Moved(typed, p, q, {})
               /\ \/ o = "ok" /\ Succeeds /\ disk' = DiskAfter(q, after, op)
                  \/ o = "md_fails" /\ Breaks /\ disk' = disk
         /\ fate' = IF o = "ok" THEN [fate EXCEPT ![i] = "landed"] ELSE fate
         /\ UNCHANGED <<saving, sweep, lost, restarts>>
    BY DEF AcceptPending, after, op, n, q
  <1>12. \/ /\ o = "queue_fails" /\ Breaks /\ UNCHANGED <<disk, queued, typed>>
            /\ docs' = [docs EXCEPT ![p] = after]
         \/ /\ docs' = Moved([docs EXCEPT ![p] = after], p, q, None)
            /\ queued' = QueueMoved([queued EXCEPT ![p] = rest], p, q)
            /\ typed' = Moved(typed, p, q, {})
            /\ \/ o = "ok" /\ Succeeds /\ disk' = DiskAfter(q, after, op)
               \/ o = "md_fails" /\ Breaks /\ disk' = disk
    BY <1>10, <1>11 DEF Store
  <1>13. QED
    BY <1>1, <1>3, <1>5, <1>6, <1>10, <1>11, <1>12 DEF after, op, n, rest, q

\* Types and order after it.
LEMMA AcceptTyped ==
  ASSUME LTypeOK, Minted, NEW p \in Path, NEW i \in OpId, NEW o \in {"ok", "queue_fails", "md_fails"},
         AcceptPending(p, i, o)
  PROVE  LTypeOK' /\ Minted' /\ (OneHome => OneHome')
  <1> DEFINE d == Open(p)
             op == d.pending[PositionOf(i, d.pending)]
             after == Landed(d, op)
             q == PathAfter(p, op)
             rest == Without(i, Queue(p))
             D == [docs EXCEPT ![p] = after]
             Q == [queued EXCEPT ![p] = rest]
  <1>1. /\ d # None /\ d \in Doc /\ i \in Ids(Queue(p)) /\ q \in Path
        /\ op.does \in Rename => op.does.from \in Path
        /\ after \in Doc /\ after.pending = rest
        /\ \/ o = "queue_fails" /\ Breaks /\ UNCHANGED <<disk, queued, typed>> /\ docs' = D
           \/ /\ docs' = Moved(D, p, q, None) /\ queued' = QueueMoved(Q, p, q)
              /\ typed' = Moved(typed, p, q, {})
              /\ \/ o = "ok" /\ Succeeds /\ disk' = DiskAfter(q, after, op)
                 \/ o = "md_fails" /\ Breaks /\ disk' = disk
        /\ fate' = IF o = "ok" THEN [fate EXCEPT ![i] = "landed"] ELSE fate
        /\ UNCHANGED <<saving, sweep, lost, restarts>>
    BY AnyAcceptFacts
  <1>2. /\ Queue(p) \in Seq(Op) /\ InOrder(Queue(p)) /\ Members(Queue(p)) \subseteq Waiting(p)
        /\ rest \in Seq(Op) /\ InOrder(rest)
        /\ Members(rest) = {x \in Members(Queue(p)) : x.id # i}
    BY <1>1, OpenFacts, WithoutFacts
  <1>3. /\ docs \in [Path -> Doc \cup {None}] /\ queued \in [Path -> Seq(Op)]
        /\ disk \in [Path -> Text \cup {None}] /\ typed \in [Path -> SUBSET Place]
        /\ fate \in [OpId -> {"unborn", "queued", "landed", "rejected", "adrift"}]
        /\ faults \in 0..MaxFaults /\ MaxFaults \in Nat
        /\ \A r \in Path : docs[r] # None => InOrder(docs[r].pending)
        /\ \A r \in Path : InOrder(queued[r])
    BY LayeredConstants DEF LTypeOK, Minted
  <1>4. after.accepted \in Text
    BY <1>1, DocFields
  <1> HIDE DEF d, op, after, q, rest
  <1>5. D \in [Path -> Doc \cup {None}] /\ Q \in [Path -> Seq(Op)]
    BY <1>1, <1>2, <1>3
  <1>6. fate' \in [OpId -> {"unborn", "queued", "landed", "rejected", "adrift"}]
    BY <1>1, <1>3
  <1>7. \A j \in OpId : fate'[j] = "unborn" <=> fate[j] = "unborn"
    <2>1. fate[i] # "unborn"
      BY <1>1, IdsAreNamed DEF Minted
    <2>2. QED
      BY <1>1, <1>3, <2>1
  <1>8. DocsTyped' /\ QueuesTyped' /\ Minted' /\ (OneHome => OneHome')
    <2>1. CASE o = "queue_fails" /\ queued' = queued /\ docs' = D
      <3>1. fate' = fate
        BY <1>1, <2>1
      <3>2. DocsTyped' /\ QueuesTyped' /\ Calm
        BY <1>1, <2>1, <3>1, TakenOut DEF d, rest
      <3>3. QED
        BY <3>2, CalmTyped
    <2>2. CASE docs' = Moved(D, p, q, None) /\ queued' = QueueMoved(Q, p, q)
      <3>1. Members(rest) \subseteq Waiting(p)
        BY <1>2
      <3>2. ASSUME NEW r \in Path
            PROVE  InOrder(Q[r]) /\ Members(Q[r]) \subseteq Waiting(r)
        <4>1. CASE r = p
          BY <1>2, <1>3, <3>1, <4>1
        <4>2. CASE r # p
          <5>1. Q[r] = queued[r] /\ Members(queued[r]) \subseteq Waiting(r)
            BY <1>3, <4>2 DEF Waiting, Members
          <5>2. QED
            BY <1>3, <5>1
        <4>3. QED
          BY <4>1, <4>2
      <3>3. ASSUME NEW r \in Path, D[r] # None
            PROVE  InOrder(D[r].pending) /\ Members(D[r].pending) \subseteq Waiting(r)
        <4>1. CASE r = p
          BY <1>1, <1>2, <1>3, <3>1, <4>1
        <4>2. CASE r # p
          <5>1. D[r] = docs[r]
            BY <1>3, <4>2
          <5>2. Members(docs[r].pending) \subseteq Waiting(r)
            BY <3>3, <5>1 DEF Waiting, Members, Loaded
          <5>3. QED
            BY <1>3, <3>3, <5>1, <5>2
        <4>3. QED
          BY <4>1, <4>2
      <3> HIDE DEF D, Q
      <3>4. /\ \A r \in Path : InOrder(Q[r]) /\ Members(Q[r]) \subseteq Waiting(r)
            /\ \A r \in Path : D[r] # None =>
                 InOrder(D[r].pending) /\ Members(D[r].pending) \subseteq Waiting(r)
        BY <3>2, <3>3
      <3>5. QED
        BY <1>1, <1>5, <1>6, <1>7, <2>2, <3>4, MovedTyped
    <2>3. QED
      BY <1>1, <2>1, <2>2
  <1>9. typed' \in [Path -> SUBSET Place]
    <2>1. {} \in SUBSET Place /\ Moved(typed, p, q, {}) \in [Path -> SUBSET Place]
      BY <1>1, <1>3, MovedFacts
    <2>2. QED
      BY <1>1, <1>3, <2>1
  <1>10. disk' \in [Path -> Text \cup {None}]
    <2>1. DiskAfter(q, after, op) \in [Path -> Text \cup {None}]
      <3>1. Written(q, after) \in [Path -> Text \cup {None}]
        BY <1>1, <1>3, <1>4 DEF Written
      <3>2. QED
        BY <3>1 DEF DiskAfter
    <2>2. QED
      BY <1>1, <1>3, <2>1
  <1>11. UserTyped' /\ DiskTyped'
    <2>1. faults' \in 0..MaxFaults
      BY <1>1, <1>3 DEF Succeeds, Breaks
    <2>2. QED
      BY <1>1, <1>9, <1>10, <2>1, TypeParts DEF UserTyped, DiskTyped
  <1>12. QED
    BY <1>8, <1>11, TypeParts DEF LTypeOK, DocsTyped, QueuesTyped, UserTyped, DiskTyped

-----------------------------------------------------------------------------
\* Types.

\* A producer stages a rename.
LEMMA RenameStaged ==
  ASSUME LTypeOK, Minted, NEW p \in Path, NEW q \in Path, StageRename(p, q)
  PROVE  Stages(p, Deed)
  <1> DEFINE c == [from |-> p, to |-> q]
             cs == <<c>>
             needs == <<{}>>
             a == Appended(Open(p), None, cs, needs)
  <1>1. c \in Deed
    BY DEF Rename, Deed
  <1> HIDE DEF c
  <1>2. StageOne(p, c)
    BY DEF StageRename, c
  <1>3. cs \in Seq(Deed) /\ Len(cs) = 1 /\ DOMAIN cs = {1}
    BY <1>1
  <1>4. needs \in [DOMAIN cs -> SUBSET Ids(Queue(p))]
    BY <1>3
  <1>5. /\ Open(p) # None /\ Fresh # {} /\ Born(cs, "queued")
        /\ Store(p, [Open(p) EXCEPT !.pending = a])
        /\ \E ok \in BOOLEAN : SaveQueue(p, a, ok)
        /\ UNCHANGED <<disk, saving, sweep, typed, lost, restarts>>
    BY <1>2 DEF StageOne
  <1>6. 1 <= Cardinality(Fresh)
    <2>1. FirstFresh \in 1..MaxOps /\ Cardinality(Fresh) = MaxOps - FirstFresh + 1 /\ MaxOps \in Nat
      BY <1>5, FreshFacts, LayeredConstants DEF OpId
    <2>2. QED
      BY <2>1
  <1> HIDE DEF cs, needs
  <1>7. \/ Succeeds /\ queued' = [queued EXCEPT ![p] = a]
        \/ Breaks /\ queued' = queued
    BY <1>5 DEF SaveQueue
  <1>8. StagesFor(p, None, cs, needs, "queued")
    BY <1>3, <1>5, <1>6, <1>7 DEF StagesFor
  <1>9. \A k \in DOMAIN cs : cs[k] \in Deed
    BY <1>3
  <1>10. QED
    BY <1>3, <1>4, <1>5, <1>7, <1>8, <1>9 DEF Stages

\* Whoever stages.
LEMMA EveryStaging ==
  ASSUME LTypeOK, Minted, NEW p \in Path,
         \/ \E s \in Session, b \in Batches : StagePending(p, s, b)
         \/ \E t \in Contents : StageContent(p, t)
         \/ \E q \in Path : StageRename(p, q)
  PROVE  Stages(p, Deed)
  <1>1. Stages(p, Replace \cup Rewrite) => Stages(p, Deed)
    BY DEF Stages, Deed
  <1>2. QED
    BY <1>1, PendingStages, ContentStages, RenameStaged

\* Types, order and places after it.
LEMMA StagesTyped ==
  ASSUME LTypeOK, Minted, NEW p \in Path, Stages(p, Deed)
  PROVE  /\ LTypeOK' /\ Minted' /\ TextsStay /\ UNCHANGED <<saving, sweep>>
         /\ OneHome => OneHome'
  <1>1. PICK s \in Session \cup {None}, lot \in {"queued", "adrift"}, cs \in Seq(Deed) :
          \E needs \in [DOMAIN cs -> SUBSET Ids(Queue(p))] :
            /\ StagesFor(p, s, cs, needs, lot)
            /\ UNCHANGED <<disk, saving, sweep, typed, lost, restarts>>
            /\ \/ /\ lot = "queued" /\ Succeeds
                  /\ queued' = [queued EXCEPT ![p] = Appended(Open(p), s, cs, needs)]
               \/ lot = "queued" /\ Breaks /\ queued' = queued
               \/ lot = "adrift" /\ Succeeds /\ queued' = queued
    BY DEF Stages
  <1>2. PICK needs \in [DOMAIN cs -> SUBSET Ids(Queue(p))] :
          /\ StagesFor(p, s, cs, needs, lot)
          /\ UNCHANGED <<disk, saving, sweep, typed, lost, restarts>>
          /\ \/ /\ lot = "queued" /\ Succeeds
                /\ queued' = [queued EXCEPT ![p] = Appended(Open(p), s, cs, needs)]
             \/ lot = "queued" /\ Breaks /\ queued' = queued
             \/ lot = "adrift" /\ Succeeds /\ queued' = queued
    BY <1>1
  <1>3. DocsTyped' /\ QueuesTyped' /\ Minted' /\ TextsStay
    BY <1>2, StagedTyped
  <1>4. faults \in 0..MaxFaults /\ MaxFaults \in Nat
    BY LayeredConstants DEF LTypeOK
  <1>5. UserTyped' /\ DiskTyped'
    BY <1>2, <1>4, TypeParts DEF UserTyped, DiskTyped, Succeeds, Breaks
  <1>6. ASSUME OneHome PROVE OneHome'
    <2> DEFINE a == Appended(Open(p), s, cs, needs)
               new == NewIds(cs)
    <2>1. /\ Ids(a) = Ids(Queue(p)) \cup new /\ \A i \in new : fate[i] = "unborn"
          /\ docs'[p] # None /\ docs'[p].pending = a
          /\ \A r \in Path : r # p => docs'[r] = docs[r] /\ queued'[r] = queued[r]
          /\ queued' = queued \/ queued'[p] = a
      BY <1>2, StagedFacts
    <2> HIDE DEF a, new
    <2>2. \A r \in Path : r # p => IdsAt(r)' = IdsAt(r)
      BY <2>1 DEF IdsAt, Waiting, Loaded
    <2>3. IdsAt(p)' \subseteq IdsAt(p) \cup new
      <3>1. IdsAt(p)' = Ids(queued'[p]) \cup Ids(a)
        BY <2>1 DEF IdsAt, Waiting, Loaded, Ids
      <3>2. Ids(Queue(p)) \subseteq IdsAt(p) /\ Ids(queued[p]) \subseteq IdsAt(p)
        BY DEF IdsAt, Waiting, Loaded, Ids, Queue
      <3>3. QED
        BY <2>1, <3>1, <3>2
    <2>4. \A r \in Path : \A i \in IdsAt(r) : fate[i] # "unborn"
      BY DEF Minted, Named, IdsAt
    <2>5. ASSUME NEW r \in Path, NEW q \in Path, r # q PROVE IdsAt(r)' \cap IdsAt(q)' = {}
      BY <1>6, <2>1, <2>2, <2>3, <2>4, <2>5 DEF OneHome
    <2>6. QED
      BY <2>5 DEF OneHome
  <1>7. LTypeOK'
    BY <1>3, <1>5, TypeParts DEF LTypeOK, DocsTyped, QueuesTyped, UserTyped, DiskTyped
  <1>8. QED
    BY <1>2, <1>3, <1>6, <1>7

\* What the others do meanwhile leaves the queues alone, or is a staging, a
\* review or a new note.
LEMMA DocumentCases ==
  ASSUME DocumentNext
  PROVE  QuietNext \/ QueueNext \/ MoveNext
  BY DEF DocumentNext, UserNext, ReviewNext, SweepNext, ProducerReview, ProducerNext,
         QuietNext, QueueNext

\* Types and order after what the others do.
LEMMA DocumentTyped ==
  ASSUME LTypeOK, Minted, DocumentNext
  PROVE  LTypeOK' /\ Minted' /\ (OneHome => OneHome')
  <1>1. CASE QuietNext
    BY <1>1, QuietStep, StayIsCalm, CalmTyped
  <1>2. CASE MoveNext
    BY <1>2, EveryStaging, StagesTyped DEF MoveNext
  <1>3. CASE QueueNext
    <2>1. ASSUME NEW p \in Path, NEW s \in Session, NEW b \in Batches, StagePending(p, s, b)
          PROVE  LTypeOK' /\ Minted' /\ (OneHome => OneHome')
      BY <2>1, EveryStaging, StagesTyped
    <2>2. ASSUME NEW p \in Path, NEW t \in Contents, StageContent(p, t)
          PROVE  LTypeOK' /\ Minted' /\ (OneHome => OneHome')
      BY <2>2, EveryStaging, StagesTyped
    <2>3. ASSUME NEW p \in Path, NEW t \in Created, Create(p, t)
          PROVE  LTypeOK' /\ Minted' /\ (OneHome => OneHome')
      BY <2>3, CreateStep, CalmTyped
    <2>4. ASSUME NEW p \in Path, NEW i \in OpId, RejectPending(p, i)
          PROVE  LTypeOK' /\ Minted' /\ (OneHome => OneHome')
      BY <2>4, RejectPendingStep, CalmTyped
    <2>5. ASSUME SweepReject
          PROVE  LTypeOK' /\ Minted' /\ (OneHome => OneHome')
      BY <2>5, SweepRejectStep, CalmTyped
    <2>6. ASSUME NEW p \in Path, NEW i \in OpId, NEW o \in {"ok", "queue_fails", "md_fails"},
                 AcceptPending(p, i, o)
          PROVE  LTypeOK' /\ Minted' /\ (OneHome => OneHome')
      BY <2>6, AcceptTyped
    <2>7. QED
      BY <1>3, <2>1, <2>2, <2>3, <2>4, <2>5, <2>6 DEF QueueNext, ReviewNext
  <1>4. QED
    BY <1>1, <1>2, <1>3, DocumentCases

\* Nobody but the UI thread begins or ends a Save or a sweep.
LEMMA OthersSpareTheUi ==
  ASSUME ProducerReview \/ ProducerNext \/ MoveNext
  PROVE  UNCHANGED <<saving, sweep>>
  BY DEF ProducerReview, ProducerNext, MoveNext, AcceptPending, RejectPending, RejectFrom,
         StagePending, StageContent, StageRename, StageOne, Create, FoldIn, Read

\* The fields of a job.
LEMMA JobFields ==
  ASSUME VTypeOK, job # None
  PROVE  job.p \in Path /\ job.q \in Path /\ job.ui \in BOOLEAN
         /\ job.k \in {"move", "trash", "restore"}
  BY DEF VTypeOK, Job

\* The vault's own part of the type invariant.
VaultTyped ==
  /\ trash \subseteq Entry /\ job \in Job \cup {None} /\ jobs \in 0..MaxJobs
  /\ astray \subseteq Path /\ buried \subseteq OpId
  /\ job # None /\ job.ui => UiIdle

\* A document step keeps every type.
LEMMA MeanwhileTyped ==
  ASSUME VTypeOK, Minted, Meanwhile(DocumentNext)
  PROVE  VTypeOK' /\ Minted' /\ (OneHome => OneHome')
  <1>1. /\ DocumentNext /\ UNCHANGED <<trash, job, jobs>>
        /\ astray' = astray \cup Refilled \cup Robbed \cup Haunted
        /\ buried' = buried \cup UNION {Ids(queued[p]) : p \in Haunted}
    BY DEF Meanwhile
  <1>2. LTypeOK /\ VaultTyped
    BY DEF VTypeOK, VaultTyped
  <1>3. LTypeOK' /\ Minted' /\ (OneHome => OneHome')
    BY <1>1, <1>2, DocumentTyped
  <1>4. Refilled \subseteq Path
    BY JobFields DEF Refilled
  <1>5. astray' \subseteq Path
    BY <1>1, <1>2, <1>4 DEF VaultTyped, Robbed, Haunted
  <1>6. \A p \in Path : Ids(queued[p]) \subseteq OpId
    BY <1>2, IdsAreNamed
  <1>7. buried' \subseteq OpId
    BY <1>1, <1>2, <1>6 DEF VaultTyped, Haunted
  <1>8. job' # None /\ job'.ui => UiIdle'
    <2>1. CASE UiFree
      BY <1>1, <2>1 DEF UiFree
    <2>2. CASE ~UiFree
      <3>1. UNCHANGED <<saving, sweep>>
        BY <1>1, <2>2, OthersSpareTheUi DEF DocumentNext
      <3>2. QED
        BY <1>1, <1>2, <3>1 DEF VaultTyped, UiIdle
    <2>3. QED
      BY <2>1, <2>2
  <1>9. QED
    BY <1>1, <1>2, <1>3, <1>5, <1>7, <1>8 DEF VTypeOK, VaultTyped

\* A file step moves no document and no queue, and begins a job that a UI
\* thread in a Save or a sweep did not ask for.
LEMMA FileTyped ==
  ASSUME VTypeOK, Minted, FileNext
  PROVE  /\ VTypeOK' /\ Minted' /\ (OneHome => OneHome') /\ QueuesStay /\ UNCHANGED <<docs, ledger>>
         /\ astray \subseteq astray' /\ buried' = buried
  <1>1. LTypeOK /\ VaultTyped /\ disk \in [Path -> Text \cup {None}]
    BY DEF VTypeOK, VaultTyped, LTypeOK
  <1>2. MaxJobs \in Nat
    BY VaultConstants
  <1>3. /\ UNCHANGED <<queued, docs, ledger, buried>>
        /\ disk' \in [Path -> Text \cup {None}] /\ trash' \subseteq Entry
        /\ jobs' \in 0..MaxJobs /\ job' \in Job \cup {None}
        /\ astray \subseteq astray' /\ astray' \subseteq Path
        /\ job' # None /\ job'.ui => UiIdle
    <2>1. ASSUME NEW p \in Path, NEW q \in Path, NEW ui \in BOOLEAN, NEW k \in {"move", "trash", "restore"},
                 Begin(k, p, q, ui)
          PROVE  /\ UNCHANGED <<queued, docs, ledger, astray, buried>>
                 /\ jobs' \in 0..MaxJobs /\ job' \in Job
                 /\ job'.ui => UiIdle
      <3>1. /\ jobs < MaxJobs /\ jobs' = jobs + 1 /\ (ui => UiIdle)
            /\ job' = [k |-> k, p |-> p, q |-> q, ui |-> ui]
            /\ UNCHANGED <<queued, docs, ledger, astray, buried>>
        BY <2>1 DEF Begin, Spend
      <3>2. job' \in Job /\ job'.ui = ui
        BY <3>1 DEF Job
      <3>3. jobs' \in 0..MaxJobs
        BY <1>1, <1>2, <3>1 DEF VaultTyped
      <3>4. QED
        BY <3>1, <3>2, <3>3
    <2>2. \A e \in trash : e.path \in Path /\ e.text \in Text
      BY <1>1 DEF VaultTyped, Entry
    <2>3. CASE \E p, q \in Path, ui \in BOOLEAN : MoveFile(p, q, ui)
      <3>1. PICK p \in Path, q \in Path, ui \in BOOLEAN : MoveFile(p, q, ui)
        BY <2>3
      <3>2. disk' = Moved(disk, p, q, None) /\ trash' = trash /\ Begin("move", p, q, ui)
        BY <3>1 DEF MoveFile
      <3>3. disk' \in [Path -> Text \cup {None}]
        <4> DEFINE A == Text \cup {None}
        <4>1. disk \in [Path -> A] /\ None \in A
          BY <1>1
        <4> HIDE DEF A
        <4>2. Moved(disk, p, q, None) \in [Path -> A]
          BY <4>1, MovedFacts
        <4>3. QED
          BY <3>2, <4>2 DEF A
      <3>4. QED
        BY <1>1, <2>1, <3>2, <3>3 DEF VaultTyped
    <2>4. CASE \E p \in Path : TrashFile(p)
      <3>1. PICK p \in Path : TrashFile(p)
        BY <2>4
      <3>2. /\ disk' = [disk EXCEPT ![p] = None] /\ Begin("trash", p, p, TRUE)
            /\ trash' = trash \cup {[path |-> p, text |-> disk[p]]} /\ disk[p] # None
        BY <3>1 DEF TrashFile
      <3>3. [path |-> p, text |-> disk[p]] \in Entry
        BY <1>1, <3>2 DEF Entry
      <3>4. QED
        BY <1>1, <2>1, <3>2, <3>3 DEF VaultTyped
    <2>5. CASE \E e \in trash : RestoreFile(e)
      <3>1. PICK e \in trash : RestoreFile(e)
        BY <2>5
      <3>2. /\ disk' = [disk EXCEPT ![e.path] = e.text] /\ trash' = trash \ {e}
            /\ Begin("restore", e.path, e.path, FALSE)
        BY <3>1 DEF RestoreFile, Restored
      <3>3. e.path \in Path /\ e.text \in Text
        BY <2>2
      <3>4. QED
        BY <1>1, <2>1, <3>2, <3>3 DEF VaultTyped
    <2>6. CASE \E e \in trash : PanelRestore(e)
      <3>1. PICK e \in trash : PanelRestore(e)
        BY <2>6
      <3>2. /\ disk' = [disk EXCEPT ![e.path] = e.text] /\ trash' = trash \ {e}
            /\ UiIdle /\ jobs < MaxJobs /\ jobs' = jobs + 1
            /\ UNCHANGED <<queued, docs, ledger, job, buried>>
            /\ astray' = astray \cup {p \in {e.path} : Apart(p, e.text)} \cup Refilled
        BY <3>1 DEF PanelRestore, Restored, Spend
      <3>3. e.path \in Path /\ e.text \in Text
        BY <2>2
      <3>4. Refilled \subseteq Path
        BY JobFields DEF Refilled
      <3>5. jobs' \in 0..MaxJobs
        BY <1>1, <1>2, <3>2 DEF VaultTyped
      <3>6. QED
        BY <1>1, <3>2, <3>3, <3>4, <3>5 DEF VaultTyped
    <2>7. CASE \E e \in trash : Purge(e)
      <3>1. UNCHANGED <<lvars, job, jobs, astray, buried>> /\ trash' \subseteq trash
        BY <2>7 DEF Purge
      <3>2. UNCHANGED <<queued, docs, ledger, buried, disk>>
        BY <3>1 DEF lvars, ledger
      <3>3. QED
        BY <1>1, <3>1, <3>2 DEF VaultTyped
    <2>8. QED
      BY <2>3, <2>4, <2>5, <2>6, <2>7 DEF FileNext
  <1>4. UNCHANGED <<docs, queued, fate, saving, sweep, typed, faults, lost, restarts>>
    BY <1>3 DEF ledger
  <1>5. DocsTyped' /\ QueuesTyped' /\ QueuesStay
    BY <1>1, <1>4, NoDocMoves
  <1>6. UserTyped' /\ DiskTyped'
    BY <1>1, <1>3, <1>4, TypeParts DEF UserTyped, DiskTyped
  <1>7. LTypeOK'
    BY <1>5, <1>6, TypeParts DEF LTypeOK, DocsTyped, QueuesTyped, UserTyped, DiskTyped
  <1>8. Minted' /\ (OneHome => OneHome')
    BY <1>1, <1>5, StayIsCalm, CalmTyped
  <1>9. UiIdle' <=> UiIdle
    BY <1>4 DEF UiIdle
  <1>10. QED
    BY <1>3, <1>5, <1>7, <1>8, <1>9 DEF VTypeOK

\* The tombstone of a document is set or lifted; its queue stays.
LEMMA MarkFacts ==
  ASSUME VTypeOK, Minted, NEW p \in Path, NEW b \in BOOLEAN,
         IF Open(p) = None THEN docs' = docs ELSE Store(p, [Open(p) EXCEPT !.tomb = b]),
         queued' = queued, fate' = fate
  PROVE  /\ DocsTyped' /\ QueuesTyped' /\ QueuesStay
         /\ \A r \in Path : r # p => docs'[r] = docs[r]
         /\ docs'[p] # None => /\ Open(p) # None /\ docs'[p].tomb = b
                               /\ docs'[p].accepted = Open(p).accepted
  <1>1. LTypeOK /\ docs \in [Path -> Doc \cup {None}]
    BY DEF VTypeOK, LTypeOK
  <1>2. CASE Open(p) = None
    <2>1. docs' = docs /\ docs[p] = None
      BY <1>2 DEF Open
    <2>2. QED
      BY <1>1, <2>1, NoDocMoves
  <1>3. CASE Open(p) # None
    <2> DEFINE d == Open(p)
               e == [d EXCEPT !.tomb = b]
    <2>1. d \in Doc /\ d # None
      BY <1>1, <1>3, OpenFacts
    <2>2. /\ e \in Doc
          /\ e = [accepted |-> d.accepted, tomb |-> b, working |-> d.working, pending |-> d.pending]
      BY <2>1, DocEdits
    <2>3. e.tomb = b /\ e.accepted = d.accepted /\ e.pending = d.pending /\ Store(p, e)
      BY <1>3, <2>2
    <2> HIDE DEF d, e
    <2>4. DocsTyped' /\ QueuesTyped' /\ QueuesStay
      BY <1>1, <2>1, <2>2, <2>3, StoreFacts DEF d
    <2>5. docs'[p] = e /\ \A r \in Path : r # p => docs'[r] = docs[r]
      BY <1>1, <2>3 DEF Store
    <2>6. QED
      BY <2>1, <2>3, <2>4, <2>5 DEF d
  <1>4. QED
    BY <1>2, <1>3

\* Ending a job keeps the types of everything else.
LEMMA EndTyped ==
  ASSUME VTypeOK, job # None, End, DocsTyped', QueuesTyped', typed' \in [Path -> SUBSET Place],
         astray' \subseteq Path, buried' \subseteq OpId
  PROVE  VTypeOK'
  <1>1. /\ job' = None
        /\ UNCHANGED <<disk, saving, sweep, faults, lost, restarts, trash, jobs>>
    BY DEF End
  <1>2. LTypeOK'
    <2>1. UserTyped' /\ DiskTyped'
      BY <1>1, TypeParts DEF UserTyped, DiskTyped, VTypeOK
    <2>2. QED
      BY <2>1, TypeParts DEF LTypeOK, DocsTyped, QueuesTyped, UserTyped, DiskTyped
  <1>3. QED
    BY <1>1, <1>2 DEF VTypeOK

\* The tombstone step.
LEMMA TrashDocTyped ==
  ASSUME VTypeOK, Minted, TrashDoc
  PROVE  VTypeOK' /\ Minted' /\ (OneHome => OneHome') /\ QueuesStay
  <1>1. /\ job # None /\ UNCHANGED <<queued, fate, typed, astray, buried>> /\ End
        /\ IF Open(job.p) = None THEN docs' = docs
           ELSE Store(job.p, [Open(job.p) EXCEPT !.tomb = TRUE])
    BY DEF TrashDoc
  <1>2. job.p \in Path
    BY <1>1, JobFields
  <1>3. DocsTyped' /\ QueuesTyped' /\ QueuesStay
    BY <1>1, <1>2, MarkFacts
  <1>4. LTypeOK
    BY DEF VTypeOK
  <1>5. VTypeOK'
    BY <1>1, <1>3, EndTyped DEF VTypeOK, LTypeOK
  <1>6. QED
    BY <1>3, <1>4, <1>5, StayIsCalm, CalmTyped

\* The restore step.
LEMMA RestoreDocTyped ==
  ASSUME VTypeOK, Minted, RestoreDoc
  PROVE  VTypeOK' /\ Minted' /\ (OneHome => OneHome') /\ QueuesStay
  <1>1. /\ job # None /\ UNCHANGED <<queued, fate, typed, buried>> /\ End
        /\ IF Open(job.p) = None THEN docs' = docs
           ELSE Store(job.p, [Open(job.p) EXCEPT !.tomb = FALSE])
        /\ astray' = astray \cup {r \in {job.p} : docs[r] # None /\ docs[r].accepted # disk[r]}
    BY DEF RestoreDoc
  <1>2. job.p \in Path
    BY <1>1, JobFields
  <1>3. DocsTyped' /\ QueuesTyped' /\ QueuesStay
    BY <1>1, <1>2, MarkFacts
  <1>4. LTypeOK /\ astray' \subseteq Path
    BY <1>1, <1>2 DEF VTypeOK
  <1>5. VTypeOK'
    BY <1>1, <1>3, <1>4, EndTyped DEF VTypeOK, LTypeOK
  <1>6. QED
    BY <1>3, <1>4, <1>5, StayIsCalm, CalmTyped

\* A restart between the two steps.
LEMMA RestartTyped ==
  ASSUME VTypeOK, Minted, RestartVault
  PROVE  VTypeOK' /\ Minted' /\ (OneHome => OneHome') /\ QueuesStay
  <1>1. Reopen /\ job' = None /\ UNCHANGED <<trash, jobs, astray, buried>> /\ LTypeOK
    BY DEF RestartVault, VTypeOK
  <1>2. LTypeOK' /\ Calm /\ QueuesStay
    BY <1>1, RestartStep
  <1>3. QED
    BY <1>1, <1>2, CalmTyped DEF VTypeOK

\* The document step of a move, when there is a document.
LEMMA MoveDocTyped ==
  ASSUME VTypeOK, Minted, MoveDoc
  PROVE  VTypeOK' /\ Minted' /\ (OneHome => OneHome') /\ (Open(job.p) = None \/ job.p = job.q => QueuesStay)
  <1> DEFINE p == job.p
             q == job.q
             d == Open(p)
             D == [docs EXCEPT ![p] = d]
  <1>1. p \in Path /\ q \in Path /\ job # None /\ fate' = fate /\ End
    BY JobFields DEF MoveDoc
  <1>2. /\ docs \in [Path -> Doc \cup {None}] /\ queued \in [Path -> Seq(Op)]
        /\ fate \in [OpId -> {"unborn", "queued", "landed", "rejected", "adrift"}]
        /\ typed \in [Path -> SUBSET Place]
        /\ LTypeOK /\ astray \subseteq Path /\ buried \subseteq OpId
        /\ \A r \in Path : docs[r] # None => InOrder(docs[r].pending)
        /\ \A r \in Path : InOrder(queued[r])
    BY DEF VTypeOK, LTypeOK, Minted
  <1>3. CASE d = None
    <2>1. UNCHANGED <<queued, docs, typed, buried>> /\ astray' \subseteq Path
      BY <1>1, <1>2, <1>3 DEF MoveDoc
    <2>2. DocsTyped' /\ QueuesTyped' /\ QueuesStay
      BY <1>1, <1>2, <2>1, NoDocMoves
    <2>3. Minted' /\ (OneHome => OneHome')
      BY <1>2, <2>2, StayIsCalm, CalmTyped
    <2>4. VTypeOK'
      BY <1>1, <1>2, <2>1, <2>2, EndTyped
    <2>5. QED
      BY <2>2, <2>3, <2>4
  <1>4. CASE d # None
    <2>1. /\ docs' = Moved(D, p, q, None) /\ queued' = QueueMoved(queued, p, q)
          /\ typed' = Moved(typed, p, q, {}) /\ buried' = buried \cup Overlaid(q)
          /\ astray' \subseteq Path
      BY <1>1, <1>2, <1>4 DEF MoveDoc
    <2>2. /\ d \in Doc /\ d.pending = Queue(p)
          /\ InOrder(Queue(p)) /\ Members(Queue(p)) \subseteq Waiting(p)
      BY <1>1, <1>2, <1>4, OpenFacts
    <2> HIDE DEF d, p, q
    <2>3. D \in [Path -> Doc \cup {None}] /\ D[p] = d /\ \A r \in Path \ {p} : D[r] = docs[r]
      BY <1>1, <1>2, <2>2
    <2> HIDE DEF D
    <2>4. \A r \in Path : InOrder(queued[r]) /\ Members(queued[r]) \subseteq Waiting(r)
      BY <1>2 DEF Waiting, Members
    <2>5. ASSUME NEW r \in Path, D[r] # None
          PROVE  InOrder(D[r].pending) /\ Members(D[r].pending) \subseteq Waiting(r)
      <3>1. CASE r = p
        BY <2>2, <2>3, <3>1
      <3>2. CASE r # p
        <4>1. D[r] = docs[r]
          BY <2>3, <3>2
        <4>2. Members(docs[r].pending) \subseteq Waiting(r)
          BY <2>5, <4>1 DEF Waiting, Members, Loaded
        <4>3. QED
          BY <1>2, <2>5, <4>1, <4>2
      <3>3. QED
        BY <3>1, <3>2
    <2>6. DocsTyped' /\ QueuesTyped' /\ Minted' /\ (OneHome => OneHome')
      <3>1. \A r \in Path : D[r] # None =>
              InOrder(D[r].pending) /\ Members(D[r].pending) \subseteq Waiting(r)
        BY <2>5
      <3>2. /\ fate' \in [OpId -> {"unborn", "queued", "landed", "rejected", "adrift"}]
            /\ \A i \in OpId : fate'[i] = "unborn" <=> fate[i] = "unborn"
        BY <1>1, <1>2
      <3>3. QED
        BY <1>1, <1>2, <2>1, <2>3, <2>4, <3>1, <3>2, MovedTyped
    <2>7. typed' \in [Path -> SUBSET Place]
      <3>1. {} \in SUBSET Place /\ Moved(typed, p, q, {}) \in [Path -> SUBSET Place]
        BY <1>1, <1>2, MovedFacts
      <3>2. QED
        BY <2>1, <3>1
    <2>8. buried' \subseteq OpId
      <3>1. Overlaid(q) \subseteq OpId
        BY <1>1, <1>2, IdsAreNamed DEF Overlaid
      <3>2. QED
        BY <1>2, <2>1, <3>1
    <2>9. VTypeOK'
      BY <1>1, <2>1, <2>6, <2>7, <2>8, EndTyped
    <2>10. ASSUME p = q PROVE QueuesStay
      <3>1. docs' = D /\ queued' = queued
        BY <2>1, <2>10 DEF Moved, QueueMoved
      <3>2. Store(p, d)
        BY <3>1 DEF Store, D
      <3>3. QED
        BY <1>1, <1>2, <1>4, <2>2, <3>1, <3>2, StoreFacts DEF d
    <2>11. QED
      BY <1>4, <2>6, <2>9, <2>10 DEF d, p, q
  <1>5. QED
    BY <1>3, <1>4

\* Types and order are kept.
LEMMA TypedStep ==
  ASSUME VTypeOK, Minted, [VNext]_vvars
  PROVE  VTypeOK' /\ Minted' /\ (OneHome => OneHome')
  <1>1. CASE FileNext
    BY <1>1, FileTyped
  <1>2. CASE RecordNext
    BY <1>2, MoveDocTyped, TrashDocTyped, RestoreDocTyped DEF RecordNext
  <1>3. CASE Meanwhile(DocumentNext)
    BY <1>3, MeanwhileTyped
  <1>4. CASE RestartVault
    BY <1>4, RestartTyped
  <1>5. CASE UNCHANGED vvars
    <2>1. UNCHANGED <<lvars, trash, job, jobs, astray, buried>>
      BY <1>5 DEF vvars
    <2>2. UNCHANGED <<disk, queued, docs, saving, sweep, fate, typed, faults, lost, restarts>>
      BY <2>1 DEF lvars
    <2>3. LTypeOK' <=> LTypeOK
      BY <2>2 DEF LTypeOK
    <2>4. (Minted' <=> Minted) /\ (OneHome' <=> OneHome)
      BY <2>2 DEF Minted, Named, Waiting, Loaded, OneHome, IdsAt
    <2>5. UiIdle' <=> UiIdle
      BY <2>2 DEF UiIdle
    <2>6. QED
      BY <2>1, <2>3, <2>4, <2>5 DEF VTypeOK
  <1>6. QED
    BY <1>1, <1>2, <1>3, <1>4, <1>5 DEF VNext

\* At the start nothing moves.
LEMMA TypedInit ==
  ASSUME VInit
  PROVE  VTypeOK /\ Minted /\ OneHome
  <1>0. OneHome
    <2>1. \A p \in Path : queued[p] = <<>> /\ docs[p] = None
      BY DEF VInit, LInit
    <2>2. \A p \in Path : Waiting(p) = {}
      BY <2>1 DEF Waiting, Loaded
    <2>3. QED
      BY <2>2 DEF OneHome, IdsAt
  <1>1. LTypeOK /\ Minted
    BY TextInit DEF VInit, TextInv
  <1>2. MaxJobs \in Nat
    BY VaultConstants
  <1>3. QED
    BY <1>0, <1>1, <1>2 DEF VInit, VTypeOK

-----------------------------------------------------------------------------
\* The file of a document.

\* What a document step does to the file of a path: it writes the accepted text,
\* or leaves the file and what the document says of it, or a deleted note came
\* where no file is, or the file is taken away.
FileKept(p) ==
  docs'[p] # None =>
    \/ ~docs'[p].tomb /\ disk'[p] = docs'[p].accepted
    \/ /\ disk'[p] = disk[p] /\ Open(p) # None /\ docs'[p].tomb = Open(p).tomb
       /\ docs'[p].tomb \/ docs'[p].accepted = Open(p).accepted
    \/ Open(p) = None /\ docs'[p].tomb /\ disk'[p] = disk[p]
    \/ p \in Robbed

\* Steps that change no text.
LEMMA TextsKept ==
  ASSUME TextsStay
  PROVE  \A p \in Path : FileKept(p)
  BY DEF TextsStay, FileKept

\* A whole text is written.
LEMMA CommitKept ==
  ASSUME LTypeOK, Minted, NEW p \in Path, NEW t \in Text, NEW ok \in BOOLEAN,
         CommitText(p, t, ok), faults' = 0
  PROVE  faults = 0 /\ \A r \in Path : FileKept(r)
  <1> DEFINE d == Open(p)
             e == Committed(d, t)
  <1>1. d # None /\ d \in Doc
    BY OpenFacts DEF CommitText
  <1>2. e.accepted = t /\ e.tomb = FALSE
    <2> DEFINE w == IF d.working = None THEN None ELSE Merge(d.accepted, d.working, t)
    <2>1. e = [d EXCEPT !.accepted = t, !.tomb = FALSE, !.working = w]
      BY DEF Committed
    <2> HIDE DEF w, e
    <2>2. QED
      BY <1>1, <2>1 DEF Doc
  <1> HIDE DEF e
  <1>3. /\ disk \in [Path -> Text \cup {None}] /\ docs \in [Path -> Doc \cup {None}]
        /\ faults \in Nat
    BY LayeredConstants DEF LTypeOK
  <1>4. CASE Changes(d, t)
    <2>1. /\ Store(p, e)
          /\ \/ ok /\ Succeeds /\ disk' = Written(p, e)
             \/ Breaks /\ disk' = disk
      BY <1>4 DEF CommitText, e
    <2>2. ~Breaks
      BY <1>3 DEF Breaks
    <2>3. disk' = [disk EXCEPT ![p] = t] /\ faults = 0
      BY <1>2, <2>1, <2>2 DEF Written, Succeeds
    <2>4. docs' = [docs EXCEPT ![p] = e]
      BY <2>1 DEF Store
    <2>5. docs'[p] = e /\ disk'[p] = t
      BY <1>3, <2>3, <2>4
    <2>6. FileKept(p)
      BY <1>2, <2>5 DEF FileKept
    <2>7. ASSUME NEW r \in Path, r # p PROVE FileKept(r)
      <3>1. docs'[r] = docs[r] /\ disk'[r] = disk[r]
        BY <1>3, <2>3, <2>4, <2>7
      <3>2. QED
        BY <3>1 DEF FileKept, Open
    <2>8. QED
      BY <2>3, <2>6, <2>7
  <1>5. CASE ~Changes(d, t)
    <2>1. Store(p, d) /\ disk' = disk /\ faults' = faults
      BY <1>5 DEF CommitText, Succeeds
    <2>2. TextsStay
      BY <1>1, <2>1, KeepsTexts
    <2>3. QED
      BY <2>1, <2>2, TextsKept
  <1>6. QED
    BY <1>4, <1>5

\* What the others do that leaves the queues alone.
StillNext ==
  \/ UserNext \/ SweepStale \/ SweepCheck
  \/ \E p \in Path : \/ Read(p) \/ SweepBegin(p)
                     \/ \E t \in Folds : FoldIn(p, t)

\* That, a staging, a review, or a new note.
LEMMA FileCases ==
  ASSUME DocumentNext
  PROVE  StillNext \/ QueueNext \/ MoveNext
  BY DEF DocumentNext, UserNext, ReviewNext, SweepNext, ProducerReview, ProducerNext,
         StillNext, QueueNext

\* These keep the files.
LEMMA StillKept ==
  ASSUME LTypeOK, Minted, StillNext, faults' = 0
  PROVE  faults = 0 /\ \A r \in Path : FileKept(r)
  <1>1. ASSUME NEW p \in Path, Discard(p) \/ SaveBegin(p) \/ Read(p) \/ SweepBegin(p)
        PROVE  TextsStay /\ UNCHANGED faults
    BY <1>1, DiscardStep, SaveBeginStep, ReadStep, SweepBeginStep
       DEF Discard, SaveBegin, Read, SweepBegin
  <1>2. ASSUME NEW p \in Path, NEW x \in Place, NEW w \in Typed, Type(p, x, w)
        PROVE  TextsStay /\ UNCHANGED faults
    BY <1>2, TypeStep DEF Type
  <1>3. ASSUME SaveRecheck \/ SaveClear \/ SweepStale \/ SweepCheck
        PROVE  TextsStay /\ UNCHANGED faults
    BY <1>3, SaveRecheckStep, SaveClearStep, SweepStaleStep, SweepCheckStep
       DEF SaveRecheck, SaveClear, SweepStale, SweepCheck
  <1>4. ASSUME NEW p \in Path, EnsureOnDisk(p)
        PROVE  faults = 0 /\ \A r \in Path : FileKept(r)
    <2>1. /\ Open(p) # None /\ ~Open(p).tomb /\ disk' = Written(p, Open(p))
          /\ docs' = docs /\ faults' = faults
      BY <1>4 DEF EnsureOnDisk
    <2>2. disk' = [disk EXCEPT ![p] = Open(p).accepted]
      BY <2>1 DEF Written
    <2>3. disk \in [Path -> Text \cup {None}]
      BY DEF LTypeOK
    <2>4. \A r \in Path : FileKept(r)
      BY <2>1, <2>2, <2>3 DEF FileKept, Open
    <2>5. QED
      BY <2>1, <2>4
  <1>5. ASSUME SaveCommit
        PROVE  faults = 0 /\ \A r \in Path : FileKept(r)
    <2>1. saving # None
      BY <1>5 DEF SaveCommit
    <2>2. saving.path \in Path /\ saving.text \in Text
      BY <2>1, SavingFields
    <2>3. CASE Open(saving.path) = None
      <3>1. UNCHANGED <<docs, disk, faults>>
        BY <1>5, <2>3 DEF SaveCommit
      <3>2. QED
        BY <3>1 DEF FileKept, Open
    <2>4. CASE Open(saving.path) # None
      <3>1. PICK ok \in BOOLEAN : CommitText(saving.path, saving.text, ok)
        BY <1>5, <2>4 DEF SaveCommit
      <3>2. QED
        BY <2>2, <3>1, CommitKept
    <2>5. QED
      BY <2>3, <2>4
  <1>6. ASSUME NEW p \in Path, NEW t \in Folds, FoldIn(p, t)
        PROVE  faults = 0 /\ \A r \in Path : FileKept(r)
    BY <1>6, CommitKept, LayeredConstants DEF FoldIn
  <1>7. TextsStay /\ UNCHANGED faults => faults = 0 /\ \A r \in Path : FileKept(r)
    BY TextsKept
  <1>8. QED
    BY <1>1, <1>2, <1>3, <1>4, <1>5, <1>6, <1>7 DEF StillNext, UserNext

\* An operation lands, where it was staged or elsewhere.
LEMMA AcceptKept ==
  ASSUME LTypeOK, Minted, NEW p \in Path, NEW i \in OpId, NEW o \in {"ok", "queue_fails", "md_fails"},
         AcceptPending(p, i, o), faults' = 0
  PROVE  faults = 0 /\ \A r \in Path : FileKept(r)
  <1> DEFINE d == Open(p)
             op == d.pending[PositionOf(i, d.pending)]
             after == Landed(d, op)
             q == PathAfter(p, op)
             D == [docs EXCEPT ![p] = after]
  <1>1. /\ d # None /\ q \in Path /\ (q = p \/ ~Occupied(q))
        /\ op.does \in Rename => op.does.from \in Path
        /\ after \in Doc /\ after.tomb = d.tomb
        /\ \/ Breaks
           \/ /\ docs' = Moved(D, p, q, None)
              /\ Succeeds /\ disk' = DiskAfter(q, after, op)
    BY AnyAcceptFacts
  <1>2. /\ disk \in [Path -> Text \cup {None}] /\ docs \in [Path -> Doc \cup {None}]
        /\ faults \in Nat
    BY LayeredConstants DEF LTypeOK
  <1>3. faults = 0 /\ docs' = Moved(D, p, q, None) /\ disk' = DiskAfter(q, after, op)
    BY <1>1, <1>2 DEF Breaks, Succeeds
  <1> DEFINE from == op.does.from
             taken == op.does \in Rename /\ from # q
  <1>4. /\ taken => from \in Path
        /\ disk' = IF taken THEN [Written(q, after) EXCEPT ![from] = None] ELSE Written(q, after)
    BY <1>1, <1>3 DEF DiskAfter
  <1>5. taken => from # q
    OBVIOUS
  <1> HIDE DEF d, op, after, q, from, taken
  <1>6. after.accepted \in Text /\ after.tomb \in BOOLEAN /\ after # None
    BY <1>1, DocFields
  <1>7. /\ Written(q, after) \in [Path -> Text \cup {None}]
        /\ Written(q, after)[q] = IF after.tomb THEN disk[q] ELSE after.accepted
        /\ \A r \in Path \ {q} : Written(q, after)[r] = disk[r]
    BY <1>1, <1>2, <1>6 DEF Written
  <1>8. /\ disk'[q] = IF after.tomb THEN disk[q] ELSE after.accepted
        /\ \A r \in Path \ {q} : disk'[r] = IF taken /\ r = from THEN None ELSE disk[r]
    BY <1>1, <1>4, <1>5, <1>7
  <1>9. /\ docs'[q] = after
        /\ p # q => docs'[p] = None
        /\ \A r \in Path \ {p, q} : docs'[r] = docs[r]
    <2>1. D \in [Path -> Doc \cup {None}] /\ D[p] = after /\ \A r \in Path \ {p} : D[r] = docs[r]
      BY <1>1, <1>2
    <2> HIDE DEF D
    <2>2. /\ p = q => docs' = D
          /\ p # q => /\ docs'[p] = None /\ docs'[q] = D[p]
                      /\ \A r \in Path \ {p, q} : docs'[r] = D[r]
      BY <1>1, <1>3, <2>1, MovedPlaces
    <2>3. QED
      BY <2>1, <2>2
  <1>10. FileKept(q)
    <2>1. CASE ~after.tomb
      BY <1>8, <1>9, <2>1 DEF FileKept
    <2>2. CASE after.tomb /\ q = p
      BY <1>1, <1>8, <1>9, <2>2 DEF FileKept, d
    <2>3. CASE after.tomb /\ q # p
      <3>1. Open(q) = None
        BY <1>1, <2>3 DEF Occupied, Open
      <3>2. QED
        BY <1>8, <1>9, <2>3, <3>1 DEF FileKept
    <2>4. QED
      BY <1>6, <2>1, <2>2, <2>3
  <1>11. ASSUME NEW r \in Path, r # q, docs'[r] # None PROVE FileKept(r)
    <2>1. docs'[r] = docs[r]
      BY <1>9, <1>11
    <2>2. Open(r) = docs[r]
      BY <1>11, <2>1 DEF Open
    <2>3. CASE disk'[r] = disk[r]
      BY <1>11, <2>1, <2>2, <2>3 DEF FileKept
    <2>4. CASE disk'[r] # disk[r]
      <3>1. disk'[r] = None /\ disk[r] # None
        BY <1>8, <1>11, <2>4
      <3>2. r \in Robbed
        BY <1>11, <3>1 DEF Robbed
      <3>3. QED
        BY <3>2 DEF FileKept
    <2>5. QED
      BY <2>3, <2>4
  <1>12. \A r \in Path : FileKept(r)
    BY <1>10, <1>11 DEF FileKept
  <1>13. QED
    BY <1>3, <1>12

\* Every document step keeps the files.
LEMMA DocumentKept ==
  ASSUME LTypeOK, Minted, DocumentNext, faults' = 0
  PROVE  faults = 0 /\ \A r \in Path : FileKept(r)
  <1>0. faults \in Nat
    BY LayeredConstants DEF LTypeOK
  <1>1. CASE StillNext
    BY <1>1, StillKept
  <1>2. ASSUME NEW p \in Path, Stages(p, Deed)
        PROVE  faults = 0 /\ \A r \in Path : FileKept(r)
    <2>1. Succeeds \/ Breaks
      BY <1>2 DEF Stages
    <2>2. TextsStay
      BY <1>2, StagesTyped
    <2>3. QED
      BY <1>0, <2>1, <2>2, TextsKept DEF Succeeds, Breaks
  <1>3. CASE MoveNext
    BY <1>2, <1>3, EveryStaging DEF MoveNext
  <1>4. CASE QueueNext
    <2>1. ASSUME NEW p \in Path, NEW s \in Session, NEW b \in Batches, StagePending(p, s, b)
          PROVE  faults = 0 /\ \A r \in Path : FileKept(r)
      BY <1>2, <2>1, EveryStaging
    <2>2. ASSUME NEW p \in Path, NEW t \in Contents, StageContent(p, t)
          PROVE  faults = 0 /\ \A r \in Path : FileKept(r)
      BY <1>2, <2>2, EveryStaging
    <2>3. ASSUME NEW p \in Path, NEW t \in Created, Create(p, t)
          PROVE  faults = 0 /\ \A r \in Path : FileKept(r)
      <3> DEFINE e == [accepted |-> t, tomb |-> FALSE, working |-> None, pending |-> <<>>]
      <3>1. docs' = [docs EXCEPT ![p] = e] /\ disk' = [disk EXCEPT ![p] = t] /\ faults' = faults
        BY <2>3 DEF Create, Store
      <3>2. e.tomb = FALSE /\ e.accepted = t
        OBVIOUS
      <3> HIDE DEF e
      <3>3. /\ docs'[p] = e /\ disk'[p] = t
            /\ \A r \in Path \ {p} : docs'[r] = docs[r] /\ disk'[r] = disk[r]
        BY <3>1 DEF LTypeOK
      <3>4. QED
        BY <3>1, <3>2, <3>3 DEF FileKept, Open
    <2>4. ASSUME NEW p \in Path, NEW i \in OpId, RejectFrom(p, i)
          PROVE  faults = 0 /\ \A r \in Path : FileKept(r)
      <3>1. Succeeds \/ Breaks
        BY <2>4 DEF RejectFrom, SaveQueue
      <3>2. TextsStay
        BY <2>4, RejectFromFacts
      <3>3. QED
        BY <1>0, <3>1, <3>2, TextsKept DEF Succeeds, Breaks
    <2>5. ASSUME SweepReject
          PROVE  faults = 0 /\ \A r \in Path : FileKept(r)
      BY <2>4, <2>5, SweepFields DEF SweepReject
    <2>6. ASSUME NEW p \in Path, NEW i \in OpId, NEW o \in {"ok", "queue_fails", "md_fails"},
                 AcceptPending(p, i, o)
          PROVE  faults = 0 /\ \A r \in Path : FileKept(r)
      BY <2>6, AcceptKept
    <2>7. QED
      BY <1>4, <2>1, <2>2, <2>3, <2>4, <2>5, <2>6 DEF QueueNext, ReviewNext, RejectPending
  <1>5. QED
    BY <1>1, <1>3, <1>4, FileCases

-----------------------------------------------------------------------------
\* The file of a document, between the two steps of a job and after them.

\* Where nothing opens there is neither document nor file.
LEMMA NothingToOpen ==
  ASSUME LTypeOK, NEW p \in Path, Open(p) = None
  PROVE  docs[p] = None /\ disk[p] = None
  <1>1. docs[p] = None
    BY DEF Open
  <1>2. ASSUME disk[p] # None PROVE FALSE
    <2>1. disk[p] \in Text /\ queued[p] \in Seq(Op)
      BY <1>2 DEF LTypeOK
    <2>2. Open(p) = [accepted |-> disk[p], tomb |-> FALSE, working |-> None, pending |-> queued[p]]
      BY <1>1, <1>2 DEF Open
    <2>3. Open(p) \in Doc
      BY <2>1, <2>2 DEF Doc
    <2>4. QED
      BY <2>3, DocFields
  <1>3. QED
    BY <1>1, <1>2

\* Not between the two steps of a job that concerns it.
Settled(p) == disk[p] = IF docs[p].tomb THEN None ELSE docs[p].accepted

\* The target of the job that is between its steps.
Target == IF job.k = "move" THEN job.q ELSE job.p

\* FileOf, case by case.
LEMMA FileOfCases ==
  ASSUME VTypeOK, NEW p \in Path
  PROVE  /\ job = None => (FileOf(p) <=> Settled(p))
         /\ job # None /\ job.k \in {"move", "trash"} /\ p = job.p =>
              (FileOf(p) <=> ~docs[p].tomb /\ (job.k = "move" => docs[p].accepted = disk[job.q]))
         /\ job # None /\ ~(job.k \in {"move", "trash"} /\ p = job.p) /\ p = Target => FileOf(p)
         /\ job # None /\ p # job.p /\ p # Target => (FileOf(p) <=> Settled(p))
  BY JobFields DEF FileOf, Settled, Target

\* Where a document step keeps a settled file, it stays settled.
LEMMA SettledStays ==
  ASSUME LTypeOK, NEW p \in Path, docs[p] # None => Settled(p), docs'[p] # None,
         docs' \in [Path -> Doc \cup {None}], FileKept(p), p \notin Robbed
  PROVE  disk'[p] = IF docs'[p].tomb THEN None ELSE docs'[p].accepted
  <1>1. disk[p] \in Text \cup {None} /\ docs[p] \in Doc \cup {None}
    BY DEF LTypeOK
  <1>2. docs'[p] \in Doc /\ docs'[p].tomb \in BOOLEAN
    BY DocFields
  <1>3. CASE ~docs'[p].tomb /\ disk'[p] = docs'[p].accepted
    BY <1>2, <1>3
  <1>4. CASE /\ disk'[p] = disk[p] /\ Open(p) # None /\ docs'[p].tomb = Open(p).tomb
             /\ docs'[p].tomb \/ docs'[p].accepted = Open(p).accepted
    <2>1. CASE docs[p] # None
      BY <1>2, <1>4, <2>1 DEF Open, Settled
    <2>2. CASE docs[p] = None
      <3>1. disk[p] # None
        BY <1>4, <2>2 DEF Open
      <3>2. Open(p) = [accepted |-> disk[p], tomb |-> FALSE, working |-> None, pending |-> queued[p]]
        BY <2>2, <3>1 DEF Open
      <3>3. Open(p).tomb = FALSE /\ Open(p).accepted = disk[p]
        BY <3>2
      <3>4. QED
        BY <1>4, <3>3
    <2>3. QED
      BY <2>1, <2>2
  <1>5. CASE Open(p) = None /\ docs'[p].tomb /\ disk'[p] = disk[p]
    <2>1. docs[p] = None /\ disk[p] = None
      BY <1>5, NothingToOpen
    <2>2. QED
      BY <1>5, <2>1
  <1>6. QED
    BY <1>3, <1>4, <1>5 DEF FileKept

\* Document steps between the two steps of a job.
LEMMA MeanwhileFiles ==
  ASSUME VTypeOK, Minted, FilesHeld, Meanwhile(DocumentNext)
  PROVE  FilesHeld'
  <1> SUFFICES ASSUME faults' = 0 PROVE FilesHeld'
    BY DEF FilesHeld
  <1>1. /\ DocumentNext /\ UNCHANGED <<trash, job, jobs>> /\ LTypeOK
        /\ astray' = astray \cup Refilled \cup Robbed \cup Haunted
    BY DEF Meanwhile, VTypeOK
  <1>2. VTypeOK' /\ docs' \in [Path -> Doc \cup {None}]
    BY MeanwhileTyped DEF VTypeOK, LTypeOK
  <1>3. faults = 0 /\ \A r \in Path : FileKept(r)
    BY <1>1, DocumentKept
  <1>4. ASSUME job # None, job.k \in {"move", "trash"}, job.p \notin astray'
        PROVE  /\ disk'[job.p] = disk[job.p] /\ disk'[job.q] = disk[job.q] /\ disk[job.p] = None
               /\ Open(job.p) # None \/ docs'[job.p] = None
    <2>1. job.p \notin Refilled /\ job.p \notin astray
      BY <1>1, <1>4
    <2>2. /\ ~\E r \in {job.p, job.q} : disk'[r] # disk[r]
          /\ ~(Open(job.p) = None /\ docs'[job.p] # None)
      BY <1>4, <2>1 DEF Refilled
    <2>3. disk[job.p] = None
      BY <1>3, <1>4, <2>1 DEF FilesHeld
    <2>4. QED
      BY <2>2, <2>3
  <1>5. ASSUME NEW p \in Path, p \notin astray', docs'[p] # None
        PROVE  FileOf(p)'
    <2>1. p \notin astray /\ p \notin Robbed /\ FileKept(p)
      BY <1>1, <1>3, <1>5
    <2>2. docs[p] # None => FileOf(p)
      BY <1>3, <2>1 DEF FilesHeld, Loaded
    <2>3. CASE job # None /\ job.k \in {"move", "trash"} /\ p = job.p
      <3>1. /\ disk'[p] = None /\ disk[p] = None /\ disk'[job.q] = disk[job.q] /\ Open(p) # None
        BY <1>4, <1>5, <2>3
      <3>2. docs[p] # None /\ Open(p) = docs[p]
        BY <3>1 DEF Open
      <3>3. ~docs[p].tomb /\ (job.k = "move" => docs[p].accepted = disk[job.q])
        BY <2>2, <2>3, <3>2, FileOfCases
      <3>4. docs'[p].accepted # None
        BY <1>2, <1>5, DocFields, LayeredConstants
      <3>5. ~docs'[p].tomb /\ docs'[p].accepted = docs[p].accepted
        BY <2>1, <3>1, <3>2, <3>3, <3>4, <1>5 DEF FileKept
      <3>6. QED
        BY <1>1, <2>3, <3>1, <3>3, <3>5 DEF FileOf
    <2>4. CASE job # None /\ ~(job.k \in {"move", "trash"} /\ p = job.p) /\ p = Target
      BY <1>1, <2>4 DEF FileOf, Target
    <2>5. CASE job = None \/ (p # job.p /\ p # Target)
      <3>1. docs[p] # None => Settled(p)
        BY <2>2, <2>5, FileOfCases
      <3>2. disk'[p] = IF docs'[p].tomb THEN None ELSE docs'[p].accepted
        BY <1>1, <1>2, <1>5, <2>1, <3>1, SettledStays
      <3>3. QED
        BY <1>1, <2>5, <3>2 DEF FileOf, Target
    <2>6. job # None => job.k \in {"move", "trash", "restore"}
      BY JobFields
    <2>7. QED
      BY <2>3, <2>4, <2>5, <2>6 DEF Target
  <1>6. QED
    BY <1>1, <1>4, <1>5 DEF FilesHeld, Loaded

\* A job begins: the file is gone from where its document is, and the document
\* knows what was there.
LEMMA BeginFiles ==
  ASSUME VTypeOK, FilesHeld, NEW p \in Path, NEW q \in Path, NEW ui \in BOOLEAN,
         \/ MoveFile(p, q, ui)
         \/ TrashFile(p) /\ q = p /\ ui = TRUE
         \/ \E e \in trash : RestoreFile(e) /\ p = e.path /\ q = p /\ ui = FALSE
  PROVE  FilesHeld'
  <1> SUFFICES ASSUME faults' = 0 PROVE FilesHeld'
    BY DEF FilesHeld
  <1>1. PICK k \in {"move", "trash", "restore"} : Begin(k, p, q, ui) /\
          \/ /\ k = "move" /\ p # q /\ disk[p] # None /\ disk' = Moved(disk, p, q, None)
          \/ /\ k = "trash" /\ q = p /\ disk[p] # None /\ disk' = [disk EXCEPT ![p] = None]
          \/ /\ k = "restore" /\ q = p /\ \E e \in trash : disk' = [disk EXCEPT ![p] = e.text]
    BY DEF MoveFile, TrashFile, RestoreFile, Restored
  <1>2. /\ job = None /\ docs' = docs /\ astray' = astray /\ faults = 0
        /\ job' = [k |-> k, p |-> p, q |-> q, ui |-> ui]
    BY <1>1 DEF Begin, ledger
  <1>3. job' # None /\ job'.k = k /\ job'.p = p /\ job'.q = q
    <2>1. job' \in Job
      BY <1>2 DEF Job
    <2>2. QED
      BY <1>2, <2>1, VaultConstants
  <1>4. disk \in [Path -> Text \cup {None}] /\ docs \in [Path -> Doc \cup {None}]
    BY DEF VTypeOK, LTypeOK
  <1>5. \A r \in Path \ astray : docs[r] # None => Settled(r)
    BY <1>2, FileOfCases DEF FilesHeld, Loaded
  <1>6. /\ k = "move" => /\ disk'[p] = None /\ disk'[q] = disk[p]
                         /\ \A r \in Path \ {p, q} : disk'[r] = disk[r]
        /\ k # "move" => \A r \in Path \ {p} : disk'[r] = disk[r]
        /\ k = "trash" => disk'[p] = None
    <2>1. CASE k = "move"
      <3> DEFINE A == Text \cup {None}
      <3>1. disk \in [Path -> A] /\ None \in A
        BY <1>4
      <3> HIDE DEF A
      <3>2. /\ Moved(disk, p, q, None)[p] = None /\ Moved(disk, p, q, None)[q] = disk[p]
            /\ \A r \in Path \ {p, q} : Moved(disk, p, q, None)[r] = disk[r]
        BY <1>1, <2>1, <3>1, MovedFacts
      <3>3. QED
        BY <1>1, <2>1, <3>2
    <2>2. CASE k # "move"
      BY <1>1, <1>4, <2>2
    <2>3. QED
      BY <2>1, <2>2
  <1>7. ASSUME NEW r \in Path, r \notin astray, docs[r] # None PROVE FileOf(r)'
    <2>1. Settled(r)
      BY <1>5, <1>7
    <2>2. CASE r = p /\ k \in {"move", "trash"}
      <3>1. disk[p] # None
        BY <1>1, <2>2
      <3>2. ~docs[p].tomb /\ docs[p].accepted = disk[p]
        BY <2>1, <2>2, <3>1 DEF Settled
      <3>3. QED
        BY <1>2, <1>3, <1>6, <2>2, <3>2 DEF FileOf
    <2>3. CASE r = (IF k = "move" THEN q ELSE p) /\ ~(r = p /\ k \in {"move", "trash"})
      BY <1>3, <2>3 DEF FileOf
    <2>4. CASE r # p /\ (k = "move" => r # q)
      <3>1. disk'[r] = disk[r]
        BY <1>6, <2>4
      <3>2. QED
        BY <1>2, <1>3, <2>1, <2>4, <3>1 DEF FileOf, Settled
    <2>5. QED
      BY <2>2, <2>3, <2>4
  <1>8. job'.k \in {"move", "trash"} => disk'[job'.p] = None
    BY <1>3, <1>6
  <1>9. QED
    BY <1>2, <1>7, <1>8 DEF FilesHeld, Loaded

\* The Trash panel brings a file back, or empties the trash.
LEMMA PanelFiles ==
  ASSUME VTypeOK, FilesHeld, NEW e \in trash, PanelRestore(e) \/ Purge(e)
  PROVE  FilesHeld'
  <1> SUFFICES ASSUME faults' = 0 PROVE FilesHeld'
    BY DEF FilesHeld
  <1>1. CASE Purge(e)
    <2>1. UNCHANGED <<lvars, job, astray>>
      BY <1>1 DEF Purge
    <2>2. UNCHANGED <<disk, docs, faults, job, astray>>
      BY <2>1 DEF lvars
    <2>3. FilesHeld' <=> FilesHeld
      BY <2>2 DEF FilesHeld, FileOf, Loaded
    <2>4. QED
      BY <2>3
  <1>2. CASE PanelRestore(e)
    <2>1. /\ disk[e.path] = None /\ disk' = [disk EXCEPT ![e.path] = e.text]
          /\ docs' = docs /\ job' = job /\ faults = 0
          /\ astray' = astray \cup {p \in {e.path} : Apart(p, e.text)} \cup Refilled
      BY <1>2 DEF PanelRestore, Restored, ledger
    <2>2. e.path \in Path /\ e.text \in Text /\ e.text # None
      BY LayeredConstants DEF VTypeOK, Entry
    <2>3. disk \in [Path -> Text \cup {None}]
      BY DEF VTypeOK, LTypeOK
    <2>4. disk'[e.path] = e.text /\ \A r \in Path \ {e.path} : disk'[r] = disk[r]
      BY <2>1, <2>2, <2>3
    <2>5. ASSUME job # None, job.k \in {"move", "trash"}, job.p \notin astray'
          PROVE  /\ disk'[job.p] = disk[job.p] /\ disk'[job.q] = disk[job.q]
                 /\ disk[job.p] = None /\ job.p # e.path
      <3>1. job.p \notin Refilled /\ job.p \notin astray
        BY <2>1, <2>5
      <3>2. ~\E r \in {job.p, job.q} : disk'[r] # disk[r]
        BY <2>5, <3>1 DEF Refilled
      <3>3. disk[job.p] = None
        BY <2>1, <2>5, <3>1 DEF FilesHeld
      <3>4. QED
        BY <2>1, <2>2, <2>4, <3>2, <3>3
    <2>6. ASSUME NEW r \in Path, r \notin astray', docs[r] # None PROVE FileOf(r)'
      <3>1. r = e.path => ~Apart(r, e.text)
        BY <2>1, <2>6 DEF FilesHeld, Loaded
      <3>2. FileOf(r)
        BY <2>1, <2>6 DEF FilesHeld, Loaded
      <3>3. CASE job # None /\ job.k \in {"move", "trash"} /\ r = job.p
        BY <2>1, <2>5, <2>6, <3>2, <3>3 DEF FileOf
      <3>4. CASE job # None /\ ~(job.k \in {"move", "trash"} /\ r = job.p) /\ r = Target
        BY <2>1, <3>4 DEF FileOf, Target
      <3>5. CASE job = None \/ (r # job.p /\ r # Target)
        <4>1. Settled(r)
          BY <3>2, <3>5, FileOfCases
        <4>2. disk'[r] = IF docs[r].tomb THEN None ELSE docs[r].accepted
          BY <2>2, <2>4, <2>6, <3>1, <4>1 DEF Apart, Settled
        <4>3. QED
          BY <2>1, <3>5, <4>2 DEF FileOf, Target
      <3>6. job # None => job.k \in {"move", "trash", "restore"}
        BY JobFields
      <3>7. QED
        BY <3>3, <3>4, <3>5, <3>6 DEF Target
    <2>7. QED
      BY <2>1, <2>5, <2>6 DEF FilesHeld, Loaded
  <1>3. QED
    BY <1>1, <1>2

\* The document step ends the job: document and file agree again.
LEMMA RecordFiles ==
  ASSUME VTypeOK, Minted, FilesHeld, RecordNext
  PROVE  FilesHeld'
  <1> SUFFICES ASSUME faults' = 0 PROVE FilesHeld'
    BY DEF FilesHeld
  <1> DEFINE p == job.p
             q == job.q
  <1>1. job # None /\ job' = None /\ disk' = disk /\ faults = 0
    BY DEF RecordNext, MoveDoc, TrashDoc, RestoreDoc, End
  <1>2. p \in Path /\ q \in Path /\ LTypeOK
    BY <1>1, JobFields DEF VTypeOK
  <1>3. disk \in [Path -> Text \cup {None}] /\ docs \in [Path -> Doc \cup {None}]
    BY DEF VTypeOK, LTypeOK
  <1>4. \A r \in Path \ astray : docs[r] # None => FileOf(r)
    BY <1>1 DEF FilesHeld, Loaded
  <1>5. SUFFICES ASSUME NEW r \in Path, r \notin astray', docs'[r] # None
                 PROVE  disk[r] = IF docs'[r].tomb THEN None ELSE docs'[r].accepted
    BY <1>1 DEF FilesHeld, Loaded, FileOf
  <1>6. CASE TrashDoc
    <2>1. /\ job.k = "trash" /\ astray' = astray /\ queued' = queued /\ fate' = fate
          /\ IF Open(p) = None THEN docs' = docs ELSE Store(p, [Open(p) EXCEPT !.tomb = TRUE])
      BY <1>6 DEF TrashDoc
    <2>2. /\ \A s \in Path : s # p => docs'[s] = docs[s]
          /\ docs'[p] # None => docs'[p].tomb = TRUE
      BY <1>2, <2>1, MarkFacts
    <2>3. CASE r = p
      <3>1. disk[p] = None
        BY <1>1, <1>5, <2>1, <2>3 DEF FilesHeld
      <3>2. QED
        BY <1>5, <2>2, <2>3, <3>1
    <2>4. CASE r # p
      <3>1. docs'[r] = docs[r] /\ FileOf(r)
        BY <1>4, <1>5, <2>1, <2>2, <2>4
      <3>2. QED
        BY <1>1, <2>1, <2>4, <3>1, FileOfCases DEF Target, Settled
    <2>5. QED
      BY <2>3, <2>4
  <1>7. CASE RestoreDoc
    <2>1. /\ job.k = "restore" /\ queued' = queued /\ fate' = fate
          /\ IF Open(p) = None THEN docs' = docs ELSE Store(p, [Open(p) EXCEPT !.tomb = FALSE])
          /\ astray' = astray \cup {s \in {p} : docs[s] # None /\ docs[s].accepted # disk[s]}
      BY <1>7 DEF RestoreDoc
    <2>2. /\ \A s \in Path : s # p => docs'[s] = docs[s]
          /\ docs'[p] # None => /\ Open(p) # None /\ docs'[p].tomb = FALSE
                                /\ docs'[p].accepted = Open(p).accepted
      BY <1>2, <2>1, MarkFacts
    <2>3. CASE r = p
      <3>1. docs[p] # None => docs[p].accepted = disk[p]
        BY <1>5, <2>1, <2>3
      <3>2. Open(p).accepted = disk[p]
        BY <1>5, <2>2, <2>3, <3>1 DEF Open
      <3>3. QED
        BY <1>5, <2>2, <2>3, <3>2
    <2>4. CASE r # p
      <3>1. docs'[r] = docs[r] /\ FileOf(r)
        BY <1>4, <1>5, <2>1, <2>2, <2>4
      <3>2. QED
        BY <1>1, <2>1, <2>4, <3>1, FileOfCases DEF Target, Settled
    <2>5. QED
      BY <2>3, <2>4
  <1>8. CASE MoveDoc /\ Open(p) = None
    <2>1. /\ job.k = "move" /\ docs' = docs
          /\ astray' = astray \cup {s \in {q} : p \in astray \/ docs[s] # None}
      BY <1>8 DEF MoveDoc
    <2>2. docs[p] = None
      BY <1>2, <1>8, NothingToOpen
    <2>3. r # p /\ r # q /\ FileOf(r)
      BY <1>4, <1>5, <2>1, <2>2
    <2>4. QED
      BY <1>1, <2>1, <2>3, FileOfCases DEF Target, Settled
  <1>9. CASE MoveDoc /\ Open(p) # None
    <2> DEFINE d == Open(p)
               D == [docs EXCEPT ![p] = d]
    <2>1. /\ job.k = "move" /\ docs' = Moved(D, p, q, None)
          /\ astray' = astray \cup {s \in {q} : p \in astray \/ queued[s] # <<>>}
      BY <1>9 DEF MoveDoc
    <2>2. d \in Doc
      BY <1>2, <1>9, OpenFacts
    <2>3. D \in [Path -> Doc \cup {None}] /\ D[p] = d /\ \A s \in Path \ {p} : D[s] = docs[s]
      BY <1>2, <1>3, <2>2
    <2> HIDE DEF D, p, q
    <2>4. /\ p = q => docs' = D
          /\ p # q => /\ docs'[p] = None /\ docs'[q] = D[p]
                      /\ \A s \in Path \ {p, q} : docs'[s] = D[s]
      BY <1>2, <2>1, <2>3, MovedPlaces
    <2>5. docs'[q] = d /\ (p # q => docs'[p] = None) /\ \A s \in Path \ {p, q} : docs'[s] = docs[s]
      BY <1>2, <2>3, <2>4
    <2>6. CASE r = q
      <3>1. p \notin astray
        BY <1>5, <2>1, <2>6
      <3>2. disk[p] = None
        BY <1>1, <2>1, <3>1 DEF FilesHeld, p
      <3>3. docs[p] # None /\ d = docs[p]
        BY <1>9, <3>2 DEF Open, p
      <3>4. ~docs[p].tomb /\ docs[p].accepted = disk[q]
        BY <1>1, <1>2, <1>4, <2>1, <3>1, <3>3, FileOfCases DEF p, q
      <3>5. QED
        BY <2>5, <2>6, <3>3, <3>4
    <2>7. CASE r # q
      <3>1. r # p /\ docs'[r] = docs[r] /\ FileOf(r)
        BY <1>4, <1>5, <2>1, <2>5, <2>7
      <3>2. QED
        BY <1>1, <2>1, <2>7, <3>1, FileOfCases DEF Target, Settled, p, q
    <2>8. QED
      BY <2>6, <2>7
  <1>10. QED
    BY <1>6, <1>7, <1>8, <1>9 DEF RecordNext

\* Every step keeps the files.
LEMMA FilesStep ==
  ASSUME VTypeOK, Minted, FilesHeld, [VNext]_vvars
  PROVE  FilesHeld'
  <1>1. CASE FileNext
    <2>1. \A e \in trash : e.path \in Path
      BY DEF VTypeOK, Entry
    <2>2. QED
      BY <1>1, <2>1, BeginFiles, PanelFiles DEF FileNext
  <1>2. CASE RecordNext
    BY <1>2, RecordFiles
  <1>3. CASE Meanwhile(DocumentNext)
    BY <1>3, MeanwhileFiles
  <1>4. CASE RestartVault
    <2>1. (\A p \in Path : docs'[p] = None) /\ job' = None
      BY <1>4 DEF RestartVault, Reopen, RestartWith
    <2>2. QED
      BY <2>1 DEF FilesHeld, Loaded
  <1>5. CASE UNCHANGED vvars
    <2>1. UNCHANGED <<disk, docs, faults, job, astray>>
      BY <1>5 DEF vvars, lvars
    <2>2. FilesHeld' <=> FilesHeld
      BY <2>1 DEF FilesHeld, FileOf, Loaded
    <2>3. QED
      BY <2>2
  <1>6. QED
    BY <1>1, <1>2, <1>3, <1>4, <1>5 DEF VNext

\* At the start no document is loaded.
LEMMA FilesInit ==
  ASSUME VInit
  PROVE  FilesHeld
  <1>1. (\A p \in Path : docs[p] = None) /\ job = None
    BY DEF VInit, LInit
  <1>2. QED
    BY <1>1 DEF FilesHeld, Loaded

\* Types, order and places, always.
LEMMA VaultAlwaysTyped ==
  VSpec => [](VTypeOK /\ Minted /\ OneHome)
  <1>1. VInit => VTypeOK /\ Minted /\ OneHome
    BY TypedInit
  <1>2. VTypeOK /\ Minted /\ OneHome /\ [VNext]_vvars => (VTypeOK /\ Minted /\ OneHome)'
    BY TypedStep
  <1>3. QED
    BY <1>1, <1>2, PTL DEF VSpec

-----------------------------------------------------------------------------
\* Types, whatever is moved, deleted, restored, staged and reviewed meanwhile;
\* and no Save and no sweep goes on while the UI thread waits for the indexer.
THEOREM VaultTypes ==
  VSpec => []VTypeOK
  BY VaultAlwaysTyped, PTL

\* The file of a loaded document is there and is its accepted text, and a
\* deleted note has none, wherever notes were moved to, between any two jobs of
\* the indexer -- but for the paths that went astray.
THEOREM FilesFollowDocuments ==
  VSpec => []FilesFollow
  <1>1. VInit => FilesHeld
    BY FilesInit
  <1>2. VTypeOK /\ Minted /\ FilesHeld /\ [VNext]_vvars => FilesHeld'
    BY FilesStep
  <1>3. VSpec => []FilesHeld
    BY <1>1, <1>2, VaultAlwaysTyped, PTL DEF VSpec
  <1>4. FilesHeld => FilesFollow
    BY DEF FilesHeld, FilesFollow, FileOf
  <1>5. QED
    BY <1>3, <1>4, PTL

-----------------------------------------------------------------------------
\* The queue of a document.

\* A loaded document's queue is its queue file, but for what is adrift.
Alike(p) ==
  Loaded(p) => \/ queued[p] = docs[p].pending
               \/ \E i \in Ids(queued[p]) \cup Ids(docs[p].pending) : fate[i] = "adrift"
QueuesAlike == faults = 0 => \A p \in Path \ astray : Alike(p)

\* That, and where the operations are that still wait.
VaultQueues == LiveFiled /\ QueuesAlike

\* What waits in a file waits in the queue.
LEMMA QueuesAreFollowed ==
  ASSUME LTypeOK, VaultQueues
  PROVE  QueuesFollow
  <1> SUFFICES ASSUME faults = 0 PROVE QueuesFollow
    BY DEF QueuesFollow
  <1>1. \A p \in Path \ astray : Loaded(p) =>
          \/ queued[p] = docs[p].pending
          \/ \E i \in Ids(queued[p]) \cup Ids(docs[p].pending) : fate[i] = "adrift"
    BY DEF VaultQueues, QueuesAlike, Alike
  <1>2. ASSUME NEW i \in OpId, i \notin buried, fate[i] = "queued"
        PROVE  \E p \in Path : i \in Ids(Queue(p))
    <2>1. /\ \E p \in Path : i \in Ids(queued[p])
          /\ \A p \in Path : Loaded(p) => (i \in Ids(queued[p]) <=> i \in Ids(docs[p].pending))
      BY <1>2 DEF VaultQueues, LiveFiled, Live
    <2>2. QED
      BY <2>1 DEF Queue, Loaded
  <1>3. QED
    BY <1>1, <1>2 DEF QueuesFollow

\* A path whose document and queue file stay, while no operation there is given
\* another fate.
LEMMA AlikeStays ==
  ASSUME LTypeOK, NEW p \in Path, Alike(p), docs'[p] = docs[p], queued'[p] = queued[p],
         \A i \in IdsAt(p) : fate[i] = "adrift" => fate'[i] = "adrift"
  PROVE  Alike(p)'
  <1>1. /\ Ids(queued[p]) \subseteq IdsAt(p)
        /\ Loaded(p) => Ids(docs[p].pending) \subseteq IdsAt(p)
    BY DEF IdsAt, Waiting, Ids
  <1>2. QED
    BY <1>1 DEF Alike, Loaded

\* Steps that leave the queues alone.
LEMMA StayQueues ==
  ASSUME LTypeOK, VaultQueues, QueuesStay, faults' = 0 => faults = 0,
         astray \subseteq astray', buried \subseteq buried'
  PROVE  VaultQueues'
  <1> SUFFICES ASSUME faults' = 0 PROVE VaultQueues'
    BY DEF VaultQueues, LiveFiled, QueuesAlike
  <1>1. /\ faults = 0 /\ queued' = queued /\ fate' = fate
        /\ \A p \in Path : docs'[p] # None => docs'[p].pending = Queue(p)
    BY DEF QueuesStay
  <1>2. ASSUME NEW p \in Path, p \notin astray' PROVE Alike(p)'
    <2>1. Alike(p)
      BY <1>1, <1>2 DEF VaultQueues, QueuesAlike
    <2>2. SUFFICES ASSUME docs'[p] # None PROVE Alike(p)'
      BY DEF Alike, Loaded
    <2>3. docs'[p].pending = Queue(p) /\ queued'[p] = queued[p]
      BY <1>1, <2>2
    <2>4. CASE docs[p] = None
      BY <2>3, <2>4 DEF Alike, Queue
    <2>5. CASE docs[p] # None
      BY <1>1, <2>1, <2>3, <2>5 DEF Alike, Queue, Loaded
    <2>6. QED
      BY <2>4, <2>5
  <1>3. ASSUME NEW i \in OpId, Live(i)'
        PROVE  /\ \E p \in Path : i \in Ids(queued'[p])
               /\ \A p \in Path : docs'[p] # None =>
                    (i \in Ids(queued'[p]) <=> i \in Ids(docs'[p].pending))
    <2>1. Live(i)
      BY <1>1, <1>3 DEF Live
    <2>2. /\ \E p \in Path : i \in Ids(queued[p])
          /\ \A p \in Path : Loaded(p) => (i \in Ids(queued[p]) <=> i \in Ids(docs[p].pending))
      BY <1>1, <2>1 DEF VaultQueues, LiveFiled
    <2>3. QED
      BY <1>1, <2>2 DEF Queue, Loaded
  <1>4. QED
    BY <1>2, <1>3 DEF VaultQueues, LiveFiled, QueuesAlike, Loaded

\* A staging: what it brings is in both, or adrift.
LEMMA StagesQueues ==
  ASSUME LTypeOK, Minted, VaultQueues, NEW p \in Path, Stages(p, Deed),
         astray \subseteq astray', buried \subseteq buried'
  PROVE  VaultQueues'
  <1> SUFFICES ASSUME faults' = 0 PROVE VaultQueues'
    BY DEF VaultQueues, LiveFiled, QueuesAlike
  <1>1. PICK s \in Session \cup {None}, lot \in {"queued", "adrift"}, cs \in Seq(Deed) :
          \E needs \in [DOMAIN cs -> SUBSET Ids(Queue(p))] :
            /\ StagesFor(p, s, cs, needs, lot)
            /\ \/ /\ lot = "queued" /\ Succeeds
                  /\ queued' = [queued EXCEPT ![p] = Appended(Open(p), s, cs, needs)]
               \/ lot = "queued" /\ Breaks /\ queued' = queued
               \/ lot = "adrift" /\ Succeeds /\ queued' = queued
    BY DEF Stages
  <1>2. PICK needs \in [DOMAIN cs -> SUBSET Ids(Queue(p))] :
          /\ StagesFor(p, s, cs, needs, lot)
          /\ \/ /\ lot = "queued" /\ Succeeds
                /\ queued' = [queued EXCEPT ![p] = Appended(Open(p), s, cs, needs)]
             \/ lot = "queued" /\ Breaks /\ queued' = queued
             \/ lot = "adrift" /\ Succeeds /\ queued' = queued
    BY <1>1
  <1> DEFINE a == Appended(Open(p), s, cs, needs)
             new == NewIds(cs)
  <1>3. faults \in Nat /\ queued \in [Path -> Seq(Op)]
    BY LayeredConstants DEF LTypeOK
  <1>4. /\ faults = 0
        /\ \/ lot = "queued" /\ queued' = [queued EXCEPT ![p] = a]
           \/ lot = "adrift" /\ queued' = queued
    BY <1>2, <1>3 DEF Succeeds, Breaks
  <1>5. /\ Ids(a) = Ids(Queue(p)) \cup new
        /\ new \subseteq OpId /\ \A i \in new : fate[i] = "unborn"
        /\ fate' = [i \in OpId |-> IF i \in new THEN lot ELSE fate[i]]
        /\ docs'[p] # None /\ docs'[p].pending = a
        /\ \A r \in Path : r # p => docs'[r] = docs[r] /\ queued'[r] = queued[r]
    BY <1>2, StagedFacts
  <1>6. \A r \in Path : \A i \in IdsAt(r) : i \in OpId /\ fate[i] # "unborn"
    BY WaitingType DEF Minted, Named, IdsAt
  <1>7. new = {} => a = Queue(p)
    <2>1. Open(p) # None /\ Open(p).pending = Queue(p) /\ Queue(p) \in Seq(Op)
      BY <1>2, OpenFacts DEF StagesFor
    <2>2. new = {} => cs = <<>>
      BY DEF NewIds
    <2>3. cs = <<>> => a = Queue(p) \o <<>>
      BY <2>1 DEF Appended
    <2>4. QED
      BY <2>1, <2>2, <2>3
  <1> HIDE DEF a, new
  <1>8. queued'[p] = a \/ (lot = "adrift" /\ queued'[p] = queued[p])
    BY <1>3, <1>4
  <1>9. ASSUME NEW r \in Path, r \notin astray' PROVE Alike(r)'
    <2>1. Alike(r)
      BY <1>4, <1>9 DEF VaultQueues, QueuesAlike
    <2>2. \A i \in IdsAt(r) : fate[i] = "adrift" => fate'[i] = "adrift"
      BY <1>5, <1>6
    <2>3. CASE r # p
      BY <1>5, <2>1, <2>2, <2>3, AlikeStays
    <2>4. CASE r = p /\ queued'[p] = a
      BY <1>5, <2>4 DEF Alike
    <2>5. CASE r = p /\ lot = "adrift" /\ queued'[p] = queued[p] /\ new # {}
      <3>1. PICK i \in new : TRUE
        BY <2>5
      <3>2. i \in Ids(a) /\ fate'[i] = "adrift"
        BY <1>5, <2>5, <3>1
      <3>3. QED
        BY <1>5, <2>5, <3>2 DEF Alike
    <2>6. CASE r = p /\ lot = "adrift" /\ queued'[p] = queued[p] /\ new = {}
      <3>1. docs'[p].pending = Queue(p) /\ fate' = fate
        BY <1>3, <1>5, <1>7, <2>6 DEF LTypeOK
      <3>2. CASE docs[p] = None
        BY <1>5, <2>6, <3>1, <3>2 DEF Alike, Queue
      <3>3. CASE docs[p] # None
        BY <1>5, <2>1, <2>6, <3>1, <3>3 DEF Alike, Queue, Loaded
      <3>4. QED
        BY <3>2, <3>3
    <2>7. QED
      BY <1>8, <2>3, <2>4, <2>5, <2>6
  <1>10. ASSUME NEW i \in OpId, Live(i)'
         PROVE  /\ \E r \in Path : i \in Ids(queued'[r])
                /\ \A r \in Path : docs'[r] # None =>
                     (i \in Ids(queued'[r]) <=> i \in Ids(docs'[r].pending))
    <2>1. \A r \in Path : /\ Ids(queued[r]) \subseteq IdsAt(r)
                          /\ docs[r] # None => Ids(docs[r].pending) \subseteq IdsAt(r)
      BY DEF IdsAt, Waiting, Loaded, Ids
    <2>2. CASE i \in new
      <3>1. lot = "queued" /\ queued'[p] = a
        BY <1>5, <1>8, <1>10, <2>2 DEF Live
      <3>2. i \in Ids(a) /\ \A r \in Path : i \notin IdsAt(r)
        BY <1>5, <1>6, <2>2
      <3>3. QED
        BY <1>5, <2>1, <3>1, <3>2
    <2>3. CASE i \notin new
      <3>1. Live(i)
        BY <1>5, <1>10, <2>3 DEF Live
      <3>2. /\ \E r \in Path : i \in Ids(queued[r])
            /\ \A r \in Path : docs[r] # None =>
                 (i \in Ids(queued[r]) <=> i \in Ids(docs[r].pending))
        BY <1>4, <3>1 DEF VaultQueues, LiveFiled, Loaded
      <3>3. i \in Ids(queued[p]) <=> i \in Ids(Queue(p))
        BY <3>2 DEF Queue
      <3>4. i \in Ids(a) <=> i \in Ids(queued[p])
        BY <1>5, <2>3, <3>3
      <3>5. QED
        BY <1>5, <1>8, <3>2, <3>4
    <2>4. QED
      BY <2>2, <2>3
  <1>11. QED
    BY <1>9, <1>10 DEF VaultQueues, LiveFiled, QueuesAlike, Loaded

\* An operation is decided where it waits.
LEMMA TakenQueues ==
  ASSUME LTypeOK, Minted, OneHome, VaultQueues, NEW p \in Path, Open(p) # None,
         NEW i \in Ids(Queue(p)), NEW e \in Doc, e.pending = Without(i, Queue(p)),
         docs' = [docs EXCEPT ![p] = e],
         queued' = [queued EXCEPT ![p] = Without(i, Queue(p))],
         NEW v \in {"landed", "rejected"}, fate' = [fate EXCEPT ![i] = v],
         faults = 0, astray \subseteq astray', buried \subseteq buried'
  PROVE  VaultQueues'
  <1> DEFINE rest == Without(i, Queue(p))
  <1>1. /\ docs \in [Path -> Doc \cup {None}] /\ queued \in [Path -> Seq(Op)]
        /\ fate \in [OpId -> {"unborn", "queued", "landed", "rejected", "adrift"}]
    BY DEF LTypeOK
  <1>2. Ids(rest) = Ids(Queue(p)) \ {i}
    BY OpenFacts, WithoutFacts
  <1>3. e.pending = rest /\ e # None
    BY DocFields DEF rest
  <1>4. /\ docs'[p] = e /\ queued'[p] = rest
        /\ \A r \in Path : r # p => docs'[r] = docs[r] /\ queued'[r] = queued[r]
    BY <1>1 DEF rest
  <1> HIDE DEF rest
  <1>5. i \in OpId /\ i \in IdsAt(p)
    BY IdsAreNamed DEF IdsAt, Waiting, Queue, Ids, Loaded
  <1>6. fate'[i] = v /\ \A j \in OpId : j # i => fate'[j] = fate[j]
    BY <1>1, <1>5
  <1>7. ASSUME NEW r \in Path, r \notin astray' PROVE Alike(r)'
    <2>1. CASE r = p
      BY <1>3, <1>4, <2>1 DEF Alike
    <2>2. CASE r # p
      <3>1. Alike(r)
        BY <1>7 DEF VaultQueues, QueuesAlike
      <3>2. \A j \in IdsAt(r) : j \in OpId /\ j # i
        BY <1>5, <2>2, WaitingType DEF OneHome, IdsAt, Named
      <3>3. \A j \in IdsAt(r) : fate[j] = "adrift" => fate'[j] = "adrift"
        BY <1>6, <3>2
      <3>4. QED
        BY <1>4, <2>2, <3>1, <3>3, AlikeStays
    <2>3. QED
      BY <2>1, <2>2
  <1>8. ASSUME NEW j \in OpId, Live(j)'
        PROVE  /\ \E r \in Path : j \in Ids(queued'[r])
               /\ \A r \in Path : docs'[r] # None =>
                    (j \in Ids(queued'[r]) <=> j \in Ids(docs'[r].pending))
    <2>1. j # i /\ Live(j)
      BY <1>6, <1>8 DEF Live
    <2>2. /\ \E r \in Path : j \in Ids(queued[r])
          /\ \A r \in Path : docs[r] # None =>
               (j \in Ids(queued[r]) <=> j \in Ids(docs[r].pending))
      BY <2>1 DEF VaultQueues, LiveFiled, Loaded
    <2>3. j \in Ids(queued[p]) <=> j \in Ids(rest)
      BY <1>2, <2>1, <2>2 DEF Queue
    <2>4. QED
      BY <1>3, <1>4, <2>2, <2>3
  <1>9. QED
    BY <1>7, <1>8 DEF VaultQueues, LiveFiled, QueuesAlike, Loaded

\* An accepted rename takes the queue along, to a path where no document is: what
\* an old queue file there holds is buried.
LEMMA LandedElsewhereQueues ==
  ASSUME LTypeOK, Minted, OneHome, VaultQueues, NEW p \in Path, Open(p) # None,
         NEW q \in Path, q # p, Open(q) = None,
         NEW i \in Ids(Queue(p)), NEW e \in Doc, e.pending = Without(i, Queue(p)),
         docs' = Moved([docs EXCEPT ![p] = e], p, q, None),
         queued' = QueueMoved([queued EXCEPT ![p] = Without(i, Queue(p))], p, q),
         fate' = [fate EXCEPT ![i] = "landed"],
         faults = 0, astray \cup Haunted \subseteq astray',
         buried \cup UNION {Ids(queued[r]) : r \in Haunted} \subseteq buried'
  PROVE  VaultQueues'
  <1> DEFINE rest == Without(i, Queue(p))
             D == [docs EXCEPT ![p] = e]
             Q == [queued EXCEPT ![p] = rest]
  <1>1. /\ docs \in [Path -> Doc \cup {None}] /\ queued \in [Path -> Seq(Op)]
        /\ fate \in [OpId -> {"unborn", "queued", "landed", "rejected", "adrift"}]
    BY DEF LTypeOK
  <1>2. Ids(rest) = Ids(Queue(p)) \ {i} /\ rest \in Seq(Op)
    BY OpenFacts, WithoutFacts
  <1>3. e.pending = rest /\ e # None
    BY DocFields DEF rest
  <1> HIDE DEF rest
  <1>4. /\ docs'[p] = None /\ docs'[q] = e
        /\ \A r \in Path : r \notin {p, q} => docs'[r] = docs[r]
    <2>1. D \in [Path -> Doc \cup {None}] /\ D[p] = e /\ \A r \in Path \ {p} : D[r] = docs[r]
      BY <1>1
    <2>2. docs' = Moved(D, p, q, None)
      OBVIOUS
    <2> HIDE DEF D
    <2>3. /\ Moved(D, p, q, None)[p] = None /\ Moved(D, p, q, None)[q] = D[p]
          /\ \A r \in Path \ {p, q} : Moved(D, p, q, None)[r] = D[r]
      BY <2>1, MovedPlaces
    <2>4. QED
      BY <2>1, <2>2, <2>3
  <1>5. /\ queued'[p] = <<>>
        /\ queued'[q] = IF rest = <<>> THEN queued[q] ELSE rest
        /\ \A r \in Path : r \notin {p, q} => queued'[r] = queued[r]
    <2>1. Q \in [Path -> Seq(Op)] /\ Q[p] = rest /\ \A r \in Path \ {p} : Q[r] = queued[r]
      BY <1>1, <1>2
    <2>2. queued' = QueueMoved(Q, p, q)
      BY DEF rest
    <2> HIDE DEF Q
    <2>3. Q[p] = <<>> => QueueMoved(Q, p, q) = Q
      BY <2>1, QueueMovedFacts
    <2>4. Q[p] # <<>> => QueueMoved(Q, p, q)[p] = <<>> /\ QueueMoved(Q, p, q)[q] = Q[p]
      BY <2>1, QueueMovedFacts
    <2>5. \A r \in Path \ {p, q} : QueueMoved(Q, p, q)[r] = Q[r]
      BY <2>1, QueueMovedFacts
    <2>6. QED
      BY <2>1, <2>2, <2>3, <2>4, <2>5
  <1>6. i \in OpId /\ i \in IdsAt(p)
    BY IdsAreNamed DEF IdsAt, Waiting, Queue, Ids, Loaded
  <1>7. fate'[i] = "landed" /\ \A j \in OpId : j # i => fate'[j] = fate[j]
    BY <1>1, <1>6
  <1>8. queued[q] # <<>> => q \in astray' /\ Ids(queued[q]) \subseteq buried'
    <2>1. queued[q] # <<>> => q \in Haunted
      BY <1>3, <1>4 DEF Haunted
    <2>2. QED
      BY <2>1
  <1>9. ASSUME NEW r \in Path, r \notin astray' PROVE Alike(r)'
    <2>1. CASE r = p
      BY <1>4, <2>1 DEF Alike, Loaded
    <2>2. CASE r = q
      BY <1>3, <1>4, <1>5, <1>8, <1>9, <2>2 DEF Alike
    <2>3. CASE r # p /\ r # q
      <3>1. Alike(r)
        BY <1>9 DEF VaultQueues, QueuesAlike
      <3>2. \A j \in IdsAt(r) : j \in OpId /\ j # i
        BY <1>6, <2>3, WaitingType DEF OneHome, IdsAt, Named
      <3>3. \A j \in IdsAt(r) : fate[j] = "adrift" => fate'[j] = "adrift"
        BY <1>7, <3>2
      <3>4. QED
        BY <1>4, <1>5, <2>3, <3>1, <3>3, AlikeStays
    <2>4. QED
      BY <2>1, <2>2, <2>3
  <1>10. ASSUME NEW j \in OpId, Live(j)'
         PROVE  /\ \E r \in Path : j \in Ids(queued'[r])
                /\ \A r \in Path : docs'[r] # None =>
                     (j \in Ids(queued'[r]) <=> j \in Ids(docs'[r].pending))
    <2>1. j # i /\ Live(j)
      BY <1>7, <1>10 DEF Live
    <2>2. /\ \E r \in Path : j \in Ids(queued[r])
          /\ \A r \in Path : docs[r] # None =>
               (j \in Ids(queued[r]) <=> j \in Ids(docs[r].pending))
      BY <2>1 DEF VaultQueues, LiveFiled, Loaded
    <2>3. j \notin Ids(queued[q])
      <3>1. j \notin buried'
        BY <1>10 DEF Live
      <3>2. queued[q] = <<>> => Ids(queued[q]) = {}
        BY DEF Ids
      <3>3. QED
        BY <1>8, <3>1, <3>2
    <2>4. j \in Ids(queued[p]) <=> j \in Ids(rest)
      BY <1>2, <2>1, <2>2 DEF Queue
    <2>5. rest = <<>> => Ids(rest) = {}
      BY DEF Ids
    <2>6. j \in Ids(queued'[q]) <=> j \in Ids(rest)
      BY <1>5, <2>3, <2>5
    <2>7. \E r \in Path : j \in Ids(queued'[r])
      <3>1. PICK r \in Path : j \in Ids(queued[r])
        BY <2>2
      <3>2. CASE r = p
        BY <2>4, <2>6, <3>1, <3>2
      <3>3. CASE r # p
        BY <1>5, <2>3, <3>1, <3>3
      <3>4. QED
        BY <3>2, <3>3
    <2>8. ASSUME NEW r \in Path, docs'[r] # None
          PROVE  j \in Ids(queued'[r]) <=> j \in Ids(docs'[r].pending)
      <3>1. CASE r = q
        BY <1>3, <1>4, <2>6, <3>1
      <3>2. CASE r # q
        BY <1>4, <1>5, <2>2, <2>8, <3>2
      <3>3. QED
        BY <3>1, <3>2
    <2>9. QED
      BY <2>7, <2>8
  <1>11. QED
    BY <1>9, <1>10 DEF VaultQueues, LiveFiled, QueuesAlike, Loaded

\* A new note, perhaps over a queue that an old one left: it is adrift.
LEMMA CreateQueues ==
  ASSUME LTypeOK, VaultQueues, NEW p \in Path, NEW t \in Created, Create(p, t),
         astray \cup Haunted \subseteq astray', buried \subseteq buried'
  PROVE  VaultQueues'
  <1> SUFFICES ASSUME faults' = 0 PROVE VaultQueues'
    BY DEF VaultQueues, LiveFiled, QueuesAlike
  <1> DEFINE e == [accepted |-> t, tomb |-> FALSE, working |-> None, pending |-> <<>>]
  <1>1. /\ Open(p) = None /\ docs' = [docs EXCEPT ![p] = e] /\ faults = 0 /\ queued' = queued
        /\ fate' = [i \in OpId |-> IF fate[i] = "queued" /\ i \in Ids(queued[p])
                                   THEN "adrift" ELSE fate[i]]
    BY DEF Create, Store
  <1>2. e.pending = <<>> /\ e # None
    <2>1. t \in Text /\ <<>> \in Seq(Op)
      BY LayeredConstants
    <2>2. e \in Doc
      BY <2>1 DEF Doc
    <2>3. QED
      BY <2>2, LayeredConstants
  <1>3. docs \in [Path -> Doc \cup {None}]
    BY DEF LTypeOK
  <1> HIDE DEF e
  <1>4. docs'[p] = e /\ \A r \in Path : r # p => docs'[r] = docs[r]
    BY <1>1, <1>3
  <1>5. queued[p] # <<>> => p \in astray'
    BY <1>1, <1>2, <1>4 DEF Haunted
  <1>6. ASSUME NEW r \in Path, r \notin astray' PROVE Alike(r)'
    <2>1. CASE r = p
      BY <1>1, <1>2, <1>4, <1>5, <1>6, <2>1 DEF Alike
    <2>2. CASE r # p
      <3>1. Alike(r)
        BY <1>1, <1>6 DEF VaultQueues, QueuesAlike
      <3>2. \A j \in IdsAt(r) : fate[j] = "adrift" => fate'[j] = "adrift"
        BY <1>1, WaitingType DEF IdsAt, Named
      <3>3. QED
        BY <1>1, <1>4, <2>2, <3>1, <3>2, AlikeStays
    <2>3. QED
      BY <2>1, <2>2
  <1>7. ASSUME NEW j \in OpId, Live(j)'
        PROVE  /\ \E r \in Path : j \in Ids(queued'[r])
               /\ \A r \in Path : docs'[r] # None =>
                    (j \in Ids(queued'[r]) <=> j \in Ids(docs'[r].pending))
    <2>1. j \notin Ids(queued[p]) /\ Live(j)
      BY <1>1, <1>7 DEF Live
    <2>2. /\ \E r \in Path : j \in Ids(queued[r])
          /\ \A r \in Path : docs[r] # None =>
               (j \in Ids(queued[r]) <=> j \in Ids(docs[r].pending))
      BY <1>1, <2>1 DEF VaultQueues, LiveFiled, Loaded
    <2>3. Ids(<<>>) = {}
      BY DEF Ids
    <2>4. QED
      BY <1>1, <1>2, <1>4, <2>1, <2>2, <2>3
  <1>8. QED
    BY <1>6, <1>7 DEF VaultQueues, LiveFiled, QueuesAlike, Loaded

\* The document step of a move takes the queue along: what the target's document
\* and queue file held is buried.
LEMMA MoveDocQueues ==
  ASSUME VTypeOK, Minted, VaultQueues, MoveDoc
  PROVE  VaultQueues'
  <1> DEFINE p == job.p
             q == job.q
             d == Open(p)
             D == [docs EXCEPT ![p] = d]
  <1>1. p \in Path /\ q \in Path /\ fate' = fate /\ faults' = faults /\ LTypeOK
    BY JobFields DEF MoveDoc, End, VTypeOK
  <1>2. astray \subseteq astray' /\ buried \subseteq buried'
    BY DEF MoveDoc
  <1>3. CASE d = None \/ p = q
    <2>1. QueuesStay
      BY <1>3, MoveDocTyped
    <2>2. QED
      BY <1>1, <1>2, <2>1, StayQueues
  <1>4. CASE d # None /\ p # q /\ faults' = 0
    <2>1. /\ docs' = Moved(D, p, q, None) /\ queued' = QueueMoved(queued, p, q)
          /\ buried' = buried \cup Ids(Queue(q))
          /\ astray' = astray \cup {r \in {q} : p \in astray \/ queued[r] # <<>>}
      BY <1>4 DEF MoveDoc, Overlaid
    <2>2. d \in Doc /\ d.pending = Queue(p)
      BY <1>1, <1>4, OpenFacts
    <2>3. docs \in [Path -> Doc \cup {None}] /\ queued \in [Path -> Seq(Op)] /\ faults = 0
      BY <1>1, <1>4 DEF LTypeOK
    <2> HIDE DEF p, q, d
    <2>4. D \in [Path -> Doc \cup {None}] /\ D[p] = d /\ \A r \in Path \ {p} : D[r] = docs[r]
      BY <1>1, <2>2, <2>3
    <2> HIDE DEF D
    <2>5. /\ docs'[p] = None /\ docs'[q] = d
          /\ \A r \in Path : r \notin {p, q} => docs'[r] = docs[r]
      <3>1. /\ docs'[p] = None /\ docs'[q] = D[p]
            /\ \A r \in Path \ {p, q} : docs'[r] = D[r]
        BY <1>1, <1>4, <2>1, <2>4, MovedPlaces
      <3>2. QED
        BY <2>4, <3>1
    <2>6. /\ queued'[p] = <<>>
          /\ queued'[q] = IF queued[p] = <<>> THEN queued[q] ELSE queued[p]
          /\ \A r \in Path : r \notin {p, q} => queued'[r] = queued[r]
      <3>1. queued[p] = <<>> => QueueMoved(queued, p, q) = queued
        BY <1>1, <2>3, QueueMovedFacts
      <3>2. queued[p] # <<>> => QueueMoved(queued, p, q)[p] = <<>> /\ QueueMoved(queued, p, q)[q] = queued[p]
        BY <1>1, <1>4, <2>3, QueueMovedFacts
      <3>3. \A r \in Path \ {p, q} : QueueMoved(queued, p, q)[r] = queued[r]
        BY <1>1, <2>3, QueueMovedFacts
      <3>4. QED
        BY <2>1, <3>1, <3>2, <3>3
    <2>7. d # None
      BY <1>4
    <2>8. ASSUME NEW r \in Path, r \notin astray' PROVE Alike(r)'
      <3>1. Alike(r)
        BY <1>2, <2>3, <2>8 DEF VaultQueues, QueuesAlike
      <3>2. CASE r = p
        BY <2>5, <3>2 DEF Alike, Loaded
      <3>3. CASE r = q
        <4>1. p \notin astray /\ queued[q] = <<>>
          BY <2>1, <2>8, <3>3
        <4>2. queued'[q] = queued[p] /\ docs'[q].pending = Queue(p)
          BY <2>2, <2>5, <2>6, <4>1
        <4>3. Alike(p)
          BY <1>1, <2>3, <4>1 DEF VaultQueues, QueuesAlike
        <4>4. CASE docs[p] = None
          BY <3>3, <4>2, <4>4 DEF Alike, Queue
        <4>5. CASE docs[p] # None
          BY <1>1, <3>3, <4>2, <4>3, <4>5 DEF Alike, Queue, Loaded
        <4>6. QED
          BY <4>4, <4>5
      <3>4. CASE r # p /\ r # q
        BY <1>1, <2>5, <2>6, <3>1, <3>4, AlikeStays
      <3>5. QED
        BY <3>2, <3>3, <3>4
    <2>9. ASSUME NEW j \in OpId, Live(j)'
          PROVE  /\ \E r \in Path : j \in Ids(queued'[r])
                 /\ \A r \in Path : docs'[r] # None =>
                      (j \in Ids(queued'[r]) <=> j \in Ids(docs'[r].pending))
      <3>1. Live(j) /\ j \notin Ids(Queue(q))
        BY <1>1, <2>1, <2>9 DEF Live
      <3>2. /\ \E r \in Path : j \in Ids(queued[r])
            /\ \A r \in Path : docs[r] # None =>
                 (j \in Ids(queued[r]) <=> j \in Ids(docs[r].pending))
        BY <2>3, <3>1 DEF VaultQueues, LiveFiled, Loaded
      <3>3. j \notin Ids(queued[q])
        BY <1>1, <3>1, <3>2 DEF Queue
      <3>4. j \in Ids(queued[p]) <=> j \in Ids(Queue(p))
        BY <1>1, <3>2 DEF Queue
      <3>5. queued[p] = <<>> => Ids(queued[p]) = {}
        BY DEF Ids
      <3>6. j \in Ids(queued'[q]) <=> j \in Ids(Queue(p))
        BY <2>6, <3>3, <3>4, <3>5
      <3>7. \E r \in Path : j \in Ids(queued'[r])
        <4>1. PICK r \in Path : j \in Ids(queued[r])
          BY <3>2
        <4>2. CASE r = p
          BY <1>1, <3>4, <3>6, <4>1, <4>2
        <4>3. CASE r # p
          BY <2>6, <3>3, <4>1, <4>3
        <4>4. QED
          BY <4>2, <4>3
      <3>8. ASSUME NEW r \in Path, docs'[r] # None
            PROVE  j \in Ids(queued'[r]) <=> j \in Ids(docs'[r].pending)
        <4>1. CASE r = q
          BY <2>2, <2>5, <3>6, <4>1
        <4>2. CASE r # q
          BY <2>5, <2>6, <3>2, <3>8, <4>2
        <4>3. QED
          BY <4>1, <4>2
      <3>9. QED
        BY <3>7, <3>8
    <2>10. QED
      BY <2>8, <2>9 DEF VaultQueues, LiveFiled, QueuesAlike, Loaded
  <1>5. CASE faults' # 0
    BY <1>5 DEF VaultQueues, LiveFiled, QueuesAlike
  <1>6. QED
    BY <1>3, <1>4, <1>5

\* A rejection takes the operation out of memory and of the file.
LEMMA RejectQueues ==
  ASSUME LTypeOK, Minted, OneHome, VaultQueues, NEW p \in Path, NEW i \in OpId, RejectFrom(p, i),
         astray \subseteq astray', buried \subseteq buried'
  PROVE  VaultQueues'
  <1> SUFFICES ASSUME faults' = 0 PROVE VaultQueues'
    BY DEF VaultQueues, LiveFiled, QueuesAlike
  <1> DEFINE d == Open(p)
             rest == Without(i, Queue(p))
             e == [d EXCEPT !.pending = rest]
  <1>1. d # None /\ d \in Doc /\ d.pending = Queue(p) /\ i \in Ids(Queue(p))
    BY OpenFacts DEF RejectFrom
  <1>2. PICK ok \in BOOLEAN : SaveQueue(p, rest, ok)
    BY <1>1 DEF RejectFrom
  <1>3. docs' = [docs EXCEPT ![p] = e] /\ fate' = [fate EXCEPT ![i] = "rejected"]
    BY <1>1 DEF RejectFrom, Store
  <1>4. rest \in Seq(Op)
    BY <1>1, OpenFacts, WithoutFacts
  <1>5. e \in Doc /\ e.pending = rest
    <2>1. /\ e \in Doc
          /\ e = [accepted |-> d.accepted, tomb |-> d.tomb,
                  working |-> d.working, pending |-> rest]
      BY <1>1, <1>4, DocEdits
    <2> HIDE DEF e
    <2>2. QED
      BY <2>1
  <1> HIDE DEF e
  <1>6. faults = 0 /\ queued' = [queued EXCEPT ![p] = rest]
    <2>1. faults \in Nat
      BY LayeredConstants DEF LTypeOK
    <2>2. QED
      BY <1>2, <2>1 DEF SaveQueue, Succeeds, Breaks
  <1>7. QED
    BY <1>1, <1>3, <1>5, <1>6, TakenQueues

\* A landed operation leaves its queue, where it was or where it moved it to.
LEMMA AcceptQueues ==
  ASSUME LTypeOK, Minted, OneHome, VaultQueues, NEW p \in Path, NEW i \in OpId,
         NEW o \in {"ok", "queue_fails", "md_fails"}, AcceptPending(p, i, o),
         astray \cup Haunted \subseteq astray',
         buried \cup UNION {Ids(queued[r]) : r \in Haunted} \subseteq buried'
  PROVE  VaultQueues'
  <1> SUFFICES ASSUME faults' = 0 PROVE VaultQueues'
    BY DEF VaultQueues, LiveFiled, QueuesAlike
  <1> DEFINE d == Open(p)
             op == d.pending[PositionOf(i, d.pending)]
             after == Landed(d, op)
             q == PathAfter(p, op)
  <1>1. /\ d # None /\ i \in Ids(Queue(p))
        /\ q \in Path /\ (q = p \/ ~Occupied(q))
        /\ after \in Doc /\ after.pending = Without(i, Queue(p))
        /\ \/ /\ o = "queue_fails" /\ Breaks /\ UNCHANGED <<disk, queued, typed>>
              /\ docs' = [docs EXCEPT ![p] = after]
           \/ /\ docs' = Moved([docs EXCEPT ![p] = after], p, q, None)
              /\ queued' = QueueMoved([queued EXCEPT ![p] = Without(i, Queue(p))], p, q)
              /\ typed' = Moved(typed, p, q, {})
              /\ \/ o = "ok" /\ Succeeds /\ disk' = DiskAfter(q, after, op)
                 \/ o = "md_fails" /\ Breaks /\ disk' = disk
        /\ fate' = IF o = "ok" THEN [fate EXCEPT ![i] = "landed"] ELSE fate
    BY AnyAcceptFacts
  <1> HIDE DEF after, q, op
  <1>2. /\ docs' = Moved([docs EXCEPT ![p] = after], p, q, None)
        /\ queued' = QueueMoved([queued EXCEPT ![p] = Without(i, Queue(p))], p, q)
        /\ fate' = [fate EXCEPT ![i] = "landed"] /\ faults = 0
    <2>1. faults \in Nat
      BY LayeredConstants DEF LTypeOK
    <2>2. ~Breaks
      BY <2>1 DEF Breaks
    <2>3. QED
      BY <1>1, <2>2 DEF Succeeds
  <1>3. CASE q = p
    <2>1. /\ docs' = [docs EXCEPT ![p] = after]
          /\ queued' = [queued EXCEPT ![p] = Without(i, Queue(p))]
      BY <1>2, <1>3 DEF Moved, QueueMoved
    <2>2. QED
      BY <1>1, <1>2, <2>1, TakenQueues
  <1>4. CASE q # p
    <2>1. Open(q) = None
      BY <1>1, <1>4 DEF Occupied, Open
    <2>2. QED
      BY <1>1, <1>2, <1>4, <2>1, LandedElsewhereQueues
  <1>5. QED
    BY <1>3, <1>4

\* The queues after what the others do.
LEMMA MeanwhileQueues ==
  ASSUME VTypeOK, Minted, OneHome, VaultQueues, Meanwhile(DocumentNext)
  PROVE  VaultQueues'
  <1>1. /\ DocumentNext /\ LTypeOK
        /\ astray \cup Haunted \subseteq astray'
        /\ buried \cup UNION {Ids(queued[r]) : r \in Haunted} \subseteq buried'
    BY DEF Meanwhile, VTypeOK
  <1>2. astray \subseteq astray' /\ buried \subseteq buried'
    BY <1>1
  <1>3. CASE QuietNext
    BY <1>1, <1>2, <1>3, QuietStep, StayQueues
  <1>4. ASSUME NEW p \in Path, Stages(p, Deed) PROVE VaultQueues'
    BY <1>1, <1>2, <1>4, StagesQueues
  <1>5. CASE MoveNext
    BY <1>1, <1>4, <1>5, EveryStaging DEF MoveNext
  <1>6. CASE QueueNext
    <2>1. ASSUME NEW p \in Path, NEW s \in Session, NEW b \in Batches, StagePending(p, s, b)
          PROVE  VaultQueues'
      BY <1>1, <1>4, <2>1, EveryStaging
    <2>2. ASSUME NEW p \in Path, NEW t \in Contents, StageContent(p, t)
          PROVE  VaultQueues'
      BY <1>1, <1>4, <2>2, EveryStaging
    <2>3. ASSUME NEW p \in Path, NEW t \in Created, Create(p, t)
          PROVE  VaultQueues'
      BY <1>1, <1>2, <2>3, CreateQueues
    <2>4. ASSUME NEW p \in Path, NEW i \in OpId, RejectFrom(p, i)
          PROVE  VaultQueues'
      BY <1>1, <1>2, <2>4, RejectQueues
    <2>5. ASSUME SweepReject
          PROVE  VaultQueues'
      BY <1>1, <2>4, <2>5, SweepFields DEF SweepReject
    <2>6. ASSUME NEW p \in Path, NEW i \in OpId, NEW o \in {"ok", "queue_fails", "md_fails"},
                 AcceptPending(p, i, o)
          PROVE  VaultQueues'
      BY <1>1, <2>6, AcceptQueues
    <2>7. QED
      BY <1>6, <2>1, <2>2, <2>3, <2>4, <2>5, <2>6 DEF QueueNext, ReviewNext, RejectPending
  <1>7. QED
    BY <1>1, <1>3, <1>5, <1>6, DocumentCases

\* The queues after any step.
LEMMA QueuesStep ==
  ASSUME VTypeOK, Minted, OneHome, VaultQueues, [VNext]_vvars
  PROVE  VaultQueues'
  <1>1. LTypeOK
    BY DEF VTypeOK
  <1>2. ASSUME QueuesStay, faults' = faults, astray \subseteq astray', buried \subseteq buried'
        PROVE  VaultQueues'
    BY <1>1, <1>2, StayQueues
  <1>3. CASE FileNext
    <2>1. QueuesStay /\ UNCHANGED <<docs, ledger>> /\ astray \subseteq astray' /\ buried' = buried
      BY <1>3, FileTyped
    <2>2. QED
      BY <1>2, <2>1 DEF ledger
  <1>4. CASE TrashDoc
    <2>1. QueuesStay
      BY <1>4, TrashDocTyped
    <2>2. UNCHANGED <<faults, astray, buried>>
      BY <1>4 DEF TrashDoc, End
    <2>3. QED
      BY <1>2, <2>1, <2>2
  <1>5. CASE RestoreDoc
    <2>1. QueuesStay
      BY <1>5, RestoreDocTyped
    <2>2. UNCHANGED <<faults, buried>> /\ astray \subseteq astray'
      BY <1>5 DEF RestoreDoc, End
    <2>3. QED
      BY <1>2, <2>1, <2>2
  <1>6. CASE MoveDoc
    BY <1>6, MoveDocQueues
  <1>7. CASE Meanwhile(DocumentNext)
    BY <1>7, MeanwhileQueues
  <1>8. CASE RestartVault
    <2>1. QueuesStay
      BY <1>8, RestartTyped
    <2>2. UNCHANGED <<faults, astray, buried>>
      BY <1>8 DEF RestartVault, Reopen, RestartWith
    <2>3. QED
      BY <1>2, <2>1, <2>2
  <1>9. CASE UNCHANGED vvars
    <2>1. UNCHANGED <<queued, docs, fate, faults, astray, buried>>
      BY <1>9 DEF vvars, lvars
    <2>2. VaultQueues' <=> VaultQueues
      BY <2>1 DEF VaultQueues, LiveFiled, QueuesAlike, Live, Alike, Loaded
    <2>3. QED
      BY <2>2
  <1>10. QED
    BY <1>3, <1>4, <1>5, <1>6, <1>7, <1>8, <1>9 DEF VNext, RecordNext

\* At the start nothing is loaded and nothing was staged.
LEMMA QueuesInit ==
  ASSUME VInit
  PROVE  VaultQueues
  <1>1. (\A p \in Path : docs[p] = None) /\ (\A i \in OpId : fate[i] = "unborn")
    BY DEF VInit, LInit
  <1>2. QED
    BY <1>1 DEF VaultQueues, LiveFiled, QueuesAlike, Live, Alike, Loaded

\* The queues, always.
LEMMA VaultAlwaysQueued ==
  VSpec => []VaultQueues
  <1>1. VInit => VaultQueues
    BY QueuesInit
  <1>2. VTypeOK /\ Minted /\ OneHome /\ VaultQueues /\ [VNext]_vvars => VaultQueues'
    BY QueuesStep
  <1>3. QED
    BY <1>1, <1>2, VaultAlwaysTyped, PTL DEF VSpec

\* No proposal is forgotten by the moves, deletions and restores around it: the
\* queue of a loaded document is its queue file, and an operation nobody decided
\* waits at some path, but for those that are adrift or were buried.
THEOREM QueuesFollowDocuments ==
  VSpec => []QueuesFollow
  <1>1. VTypeOK /\ VaultQueues => QueuesFollow
    BY QueuesAreFollowed DEF VTypeOK
  <1>2. QED
    BY <1>1, VaultAlwaysTyped, VaultAlwaysQueued, PTL

\* Files and queues, between the two steps of a job too: what a job has moved
\* and not recorded yet is where its document step looks for it.
THEOREM VaultInvariant ==
  VSpec => []VaultInv
  <1>1. VInit => FilesHeld
    BY FilesInit
  <1>2. VTypeOK /\ Minted /\ FilesHeld /\ [VNext]_vvars => FilesHeld'
    BY FilesStep
  <1>3. VSpec => []FilesHeld
    BY <1>1, <1>2, VaultAlwaysTyped, PTL DEF VSpec
  <1>4. VaultQueues => LiveFiled
    BY DEF VaultQueues
  <1>5. VTypeOK /\ Minted /\ OneHome /\ FilesHeld /\ LiveFiled /\ FilesFollow /\ QueuesFollow => VaultInv
    BY DEF VaultInv
  <1>6. QED
    BY <1>3, <1>4, <1>5, VaultAlwaysTyped, VaultAlwaysQueued, FilesFollowDocuments,
       QueuesFollowDocuments, PTL

-----------------------------------------------------------------------------
\* Each proposal is decided once.

\* What a step may make of an operation: it is staged, given up, or decided
\* where a queue has it, and what was decided stays.
Decides(i) ==
  \/ fate'[i] = fate[i]
  \/ fate[i] = "unborn" /\ fate'[i] \in {"queued", "adrift"}
  \/ fate[i] = "queued" /\ fate'[i] = "adrift"
  \/ fate[i] \in {"queued", "adrift"} /\ fate'[i] \in {"landed", "rejected"} /\ i \in Kept
DecidedOnce == [][faults' = 0 => \A i \in OpId : Decides(i)]_vvars

\* What a step owes to it: no queue holds what is decided.
DecidesWell == Undecided' /\ (faults' = 0 => faults = 0 /\ \A i \in OpId : Decides(i))

\* Where nothing new waits and nobody decides.
LEMMA NobodyDecides ==
  ASSUME LTypeOK, Undecided, faults' = 0 => faults = 0,
         \A r \in Path : \A op \in Waiting(r)' : \E s \in Path : op \in Waiting(s),
         \A i \in OpId : fate'[i] = fate[i] \/ (fate[i] = "queued" /\ fate'[i] = "adrift")
  PROVE  DecidesWell
  <1>1. ASSUME faults' = 0, NEW r \in Path, NEW op \in Waiting(r)'
        PROVE  fate'[op.id] \in {"queued", "adrift"}
    <2>1. PICK s \in Path : op \in Waiting(s)
      BY <1>1
    <2>2. op.id \in OpId
      BY <2>1, WaitingType DEF Named
    <2>3. fate[op.id] \in {"queued", "adrift"}
      BY <1>1, <2>1 DEF Undecided
    <2>4. QED
      BY <2>2, <2>3
  <1>2. Undecided'
    BY <1>1 DEF Undecided
  <1>3. QED
    BY <1>2 DEF DecidesWell, Decides

\* Steps that keep the queues.
LEMMA StayDecides ==
  ASSUME LTypeOK, Minted, Undecided, QueuesStay, faults' = 0 => faults = 0
  PROVE  DecidesWell
  <1>1. Calm /\ fate' = fate
    BY StayIsCalm DEF QueuesStay
  <1>2. QED
    BY <1>1, NobodyDecides DEF Calm

\* What is staged is new.
LEMMA StagesDecides ==
  ASSUME LTypeOK, Minted, Undecided, NEW p \in Path, Stages(p, Deed)
  PROVE  DecidesWell
  <1>1. PICK s \in Session \cup {None}, lot \in {"queued", "adrift"}, cs \in Seq(Deed) :
          \E needs \in [DOMAIN cs -> SUBSET Ids(Queue(p))] :
            StagesFor(p, s, cs, needs, lot) /\ (Succeeds \/ Breaks)
    BY DEF Stages
  <1>2. PICK needs \in [DOMAIN cs -> SUBSET Ids(Queue(p))] :
          StagesFor(p, s, cs, needs, lot) /\ (Succeeds \/ Breaks)
    BY <1>1
  <1> DEFINE a == Appended(Open(p), s, cs, needs)
             new == NewIds(cs)
  <1>3. /\ Ids(a) = Ids(Queue(p)) \cup new
        /\ new \subseteq OpId /\ \A i \in new : fate[i] = "unborn"
        /\ fate' = [i \in OpId |-> IF i \in new THEN lot ELSE fate[i]]
        /\ docs'[p] # None /\ docs'[p].pending = a
        /\ \A r \in Path : r # p => docs'[r] = docs[r] /\ queued'[r] = queued[r]
        /\ queued' = queued \/ queued'[p] = a
    BY <1>2, StagedFacts
  <1>4. faults' = 0 => faults = 0
    <2>1. faults \in Nat
      BY LayeredConstants DEF LTypeOK
    <2>2. QED
      BY <1>2, <2>1 DEF Succeeds, Breaks
  <1> HIDE DEF a, new
  <1>5. \A r \in Path : r # p => IdsAt(r)' = IdsAt(r)
    BY <1>3 DEF IdsAt, Waiting, Loaded
  <1>6. IdsAt(p)' \subseteq IdsAt(p) \cup new
    <2>1. IdsAt(p)' = Ids(queued'[p]) \cup Ids(a)
      BY <1>3 DEF IdsAt, Waiting, Loaded, Ids
    <2>2. Ids(Queue(p)) \subseteq IdsAt(p) /\ Ids(queued[p]) \subseteq IdsAt(p)
      BY DEF IdsAt, Waiting, Loaded, Ids, Queue
    <2>3. QED
      BY <1>3, <2>1, <2>2
  <1>7. ASSUME faults' = 0, NEW r \in Path, NEW op \in Waiting(r)'
        PROVE  fate'[op.id] \in {"queued", "adrift"}
    <2>1. op.id \in IdsAt(r)'
      BY DEF IdsAt
    <2>2. op.id \in IdsAt(r) \cup new
      BY <1>5, <1>6, <2>1
    <2>3. \A i \in IdsAt(r) : i \in OpId /\ fate[i] \in {"queued", "adrift"}
      BY <1>4, <1>7, WaitingType DEF IdsAt, Undecided, Named
    <2>4. QED
      BY <1>3, <2>2, <2>3
  <1>8. Undecided'
    BY <1>7 DEF Undecided
  <1>9. QED
    BY <1>3, <1>4, <1>8 DEF DecidesWell, Decides

\* An operation is decided where it waits, and waits nowhere then.
LEMMA TakenDecides ==
  ASSUME LTypeOK, Minted, Undecided, faults = 0,
         NEW p \in Path, NEW i \in Ids(Queue(p)), i \in IdsAt(p),
         NEW v \in {"landed", "rejected"}, fate' = [fate EXCEPT ![i] = v],
         \A r \in Path : \A op \in Waiting(r)' : op.id # i /\ \E s \in Path : op \in Waiting(s)
  PROVE  DecidesWell
  <1>1. i \in OpId /\ fate[i] \in {"queued", "adrift"}
    BY WaitingType DEF IdsAt, Named, Undecided
  <1>2. fate'[i] = v /\ \A j \in OpId : j # i => fate'[j] = fate[j]
    BY <1>1 DEF LTypeOK
  <1>3. ASSUME NEW r \in Path, NEW op \in Waiting(r)'
        PROVE  fate'[op.id] \in {"queued", "adrift"}
    <2>1. PICK s \in Path : op \in Waiting(s)
      OBVIOUS
    <2>2. op.id \in OpId /\ fate[op.id] \in {"queued", "adrift"} /\ op.id # i
      BY <2>1, WaitingType DEF Named, Undecided
    <2>3. QED
      BY <1>2, <2>2
  <1>4. Undecided'
    BY <1>3 DEF Undecided
  <1>5. i \in Kept
    BY <1>1 DEF Kept
  <1>6. QED
    BY <1>1, <1>2, <1>4, <1>5 DEF DecidesWell, Decides

\* Without an operation at its path, nobody names it.
LEMMA NowhereElse ==
  ASSUME LTypeOK, Minted, OneHome, NEW p \in Path, Open(p) # None,
         NEW i \in Ids(Queue(p)), NEW e \in Doc, e.pending = Without(i, Queue(p)),
         NEW D, D = [docs EXCEPT ![p] = e],
         NEW Q, Q = [queued EXCEPT ![p] = Without(i, Queue(p))]
  PROVE  /\ D \in [Path -> Doc \cup {None}] /\ Q \in [Path -> Seq(Op)] /\ i \in IdsAt(p)
         /\ \A s \in Path : \A op \in Members(Q[s]) : op.id # i /\ op \in Waiting(s)
         /\ \A s \in Path : D[s] # None =>
              \A op \in Members(D[s].pending) : op.id # i /\ op \in Waiting(s)
  <1> DEFINE rest == Without(i, Queue(p))
  <1>1. /\ Queue(p) \in Seq(Op) /\ InOrder(Queue(p)) /\ Members(Queue(p)) \subseteq Waiting(p)
        /\ rest \in Seq(Op)
        /\ Members(rest) = {x \in Members(Queue(p)) : x.id # i}
    BY OpenFacts, WithoutFacts
  <1>2. i \in IdsAt(p)
    BY DEF IdsAt, Waiting, Queue, Ids, Loaded
  <1>3. docs \in [Path -> Doc \cup {None}] /\ queued \in [Path -> Seq(Op)]
    BY DEF LTypeOK
  <1>4. e.pending = rest
    OBVIOUS
  <1> HIDE DEF rest
  <1>5. /\ D[p] = e /\ Q[p] = rest
        /\ \A r \in Path : r # p => D[r] = docs[r] /\ Q[r] = queued[r]
    BY <1>3 DEF rest
  <1>6. D \in [Path -> Doc \cup {None}] /\ Q \in [Path -> Seq(Op)]
    BY <1>1, <1>3 DEF rest
  <1>7. ASSUME NEW s \in Path, s # p, NEW op \in Waiting(s) PROVE op.id # i
    BY <1>2, <1>7 DEF OneHome, IdsAt
  <1>8. ASSUME NEW s \in Path, NEW op \in Members(Q[s]) PROVE op.id # i /\ op \in Waiting(s)
    <2>1. CASE s = p
      BY <1>1, <1>5, <1>8, <2>1
    <2>2. CASE s # p
      <3>1. op \in Waiting(s)
        BY <1>5, <1>8, <2>2 DEF Waiting, Members
      <3>2. QED
        BY <1>7, <2>2, <3>1
    <2>3. QED
      BY <2>1, <2>2
  <1>9. ASSUME NEW s \in Path, D[s] # None, NEW op \in Members(D[s].pending)
        PROVE  op.id # i /\ op \in Waiting(s)
    <2>1. CASE s = p
      BY <1>1, <1>4, <1>5, <1>9, <2>1
    <2>2. CASE s # p
      <3>1. op \in Waiting(s)
        BY <1>5, <1>9, <2>2 DEF Waiting, Members, Loaded
      <3>2. QED
        BY <1>7, <2>2, <3>1
    <2>3. QED
      BY <2>1, <2>2
  <1>10. QED
    BY <1>2, <1>6, <1>8, <1>9

\* A rejection.
LEMMA RejectDecides ==
  ASSUME LTypeOK, Minted, OneHome, Undecided, NEW p \in Path, NEW i \in OpId, RejectFrom(p, i)
  PROVE  DecidesWell
  <1> SUFFICES ASSUME faults' = 0 PROVE DecidesWell
    BY DEF DecidesWell, Undecided
  <1> DEFINE d == Open(p)
             rest == Without(i, Queue(p))
             e == [d EXCEPT !.pending = rest]
             D == [docs EXCEPT ![p] = e]
             Q == [queued EXCEPT ![p] = rest]
  <1>1. d # None /\ d \in Doc /\ d.pending = Queue(p) /\ i \in Ids(Queue(p))
    BY OpenFacts DEF RejectFrom
  <1>2. PICK ok \in BOOLEAN : SaveQueue(p, rest, ok)
    BY <1>1 DEF RejectFrom
  <1>3. docs' = D /\ fate' = [fate EXCEPT ![i] = "rejected"]
    BY <1>1 DEF RejectFrom, Store
  <1>4. rest \in Seq(Op)
    BY <1>1, OpenFacts, WithoutFacts
  <1>5. e \in Doc /\ e.pending = rest
    <2>1. /\ e \in Doc
          /\ e = [accepted |-> d.accepted, tomb |-> d.tomb,
                  working |-> d.working, pending |-> rest]
      BY <1>1, <1>4, DocEdits
    <2> HIDE DEF e
    <2>2. QED
      BY <2>1
  <1> HIDE DEF e
  <1>6. faults = 0 /\ queued' = Q
    <2>1. faults \in Nat
      BY LayeredConstants DEF LTypeOK
    <2>2. QED
      BY <1>2, <2>1 DEF SaveQueue, Succeeds, Breaks
  <1>7. /\ i \in IdsAt(p)
        /\ \A s \in Path : \A op \in Members(Q[s]) : op.id # i /\ op \in Waiting(s)
        /\ \A s \in Path : D[s] # None =>
             \A op \in Members(D[s].pending) : op.id # i /\ op \in Waiting(s)
    BY <1>1, <1>5, NowhereElse
  <1> HIDE DEF D, Q
  <1>8. ASSUME NEW r \in Path, NEW op \in Waiting(r)'
        PROVE  op.id # i /\ \E s \in Path : op \in Waiting(s)
    <2>1. op \in Members(Q[r]) \/ (D[r] # None /\ op \in Members(D[r].pending))
      BY <1>3, <1>6 DEF Waiting, Members, Loaded
    <2>2. op.id # i /\ op \in Waiting(r)
      BY <1>7, <2>1
    <2>3. QED
      BY <2>2
  <1>9. QED
    BY <1>1, <1>3, <1>6, <1>7, <1>8, TakenDecides

\* An accept, whether or not the operation moves the note.
LEMMA AcceptDecides ==
  ASSUME LTypeOK, Minted, OneHome, Undecided, NEW p \in Path, NEW i \in OpId,
         NEW o \in {"ok", "queue_fails", "md_fails"}, AcceptPending(p, i, o)
  PROVE  DecidesWell
  <1> SUFFICES ASSUME faults' = 0 PROVE DecidesWell
    BY DEF DecidesWell, Undecided
  <1> DEFINE d == Open(p)
             op0 == d.pending[PositionOf(i, d.pending)]
             after == Landed(d, op0)
             q == PathAfter(p, op0)
             D == [docs EXCEPT ![p] = after]
             Q == [queued EXCEPT ![p] = Without(i, Queue(p))]
  <1>1. /\ d # None /\ i \in Ids(Queue(p)) /\ q \in Path
        /\ after \in Doc /\ after.pending = Without(i, Queue(p))
        /\ \/ o = "queue_fails" /\ Breaks
           \/ /\ docs' = Moved(D, p, q, None) /\ queued' = QueueMoved(Q, p, q)
              /\ \/ o = "ok" /\ Succeeds
                 \/ o = "md_fails" /\ Breaks
        /\ fate' = IF o = "ok" THEN [fate EXCEPT ![i] = "landed"] ELSE fate
    BY AnyAcceptFacts
  <1> HIDE DEF after, q, op0
  <1>2. /\ docs' = Moved(D, p, q, None) /\ queued' = QueueMoved(Q, p, q)
        /\ fate' = [fate EXCEPT ![i] = "landed"] /\ faults = 0
    <2>1. faults \in Nat
      BY LayeredConstants DEF LTypeOK
    <2>2. ~Breaks
      BY <2>1 DEF Breaks
    <2>3. QED
      BY <1>1, <2>2 DEF Succeeds
  <1>3. /\ D \in [Path -> Doc \cup {None}] /\ Q \in [Path -> Seq(Op)] /\ i \in IdsAt(p)
        /\ \A s \in Path : \A op \in Members(Q[s]) : op.id # i /\ op \in Waiting(s)
        /\ \A s \in Path : D[s] # None =>
             \A op \in Members(D[s].pending) : op.id # i /\ op \in Waiting(s)
    BY <1>1, NowhereElse
  <1> HIDE DEF D, Q
  <1>4. \A r \in Path : \A op \in Waiting(r)' :
          \E s \in Path : \/ op \in Members(Q[s])
                          \/ (D[s] # None /\ op \in Members(D[s].pending))
    BY <1>1, <1>2, <1>3, MovedWaits
  <1>5. \A r \in Path : \A op \in Waiting(r)' : op.id # i /\ \E s \in Path : op \in Waiting(s)
    BY <1>3, <1>4
  <1>6. QED
    BY <1>1, <1>2, <1>3, <1>5, TakenDecides

\* A document that is moved takes its operations along.
LEMMA MoveDocDecides ==
  ASSUME VTypeOK, Minted, Undecided, MoveDoc
  PROVE  DecidesWell
  <1> DEFINE p == job.p
             q == job.q
             d == Open(p)
             D == [docs EXCEPT ![p] = d]
  <1>1. p \in Path /\ q \in Path /\ fate' = fate /\ faults' = faults /\ LTypeOK
    BY JobFields DEF MoveDoc, End, VTypeOK
  <1>2. CASE d = None
    BY <1>1, <1>2, MoveDocTyped, StayDecides
  <1>3. CASE d # None
    <2>1. docs' = Moved(D, p, q, None) /\ queued' = QueueMoved(queued, p, q)
      BY <1>3 DEF MoveDoc
    <2>2. d \in Doc /\ d.pending = Queue(p) /\ Members(Queue(p)) \subseteq Waiting(p)
      BY <1>1, <1>3, OpenFacts
    <2>3. docs \in [Path -> Doc \cup {None}] /\ queued \in [Path -> Seq(Op)]
      BY <1>1 DEF LTypeOK
    <2> HIDE DEF p, q, d
    <2>4. D \in [Path -> Doc \cup {None}] /\ D[p] = d /\ \A r \in Path \ {p} : D[r] = docs[r]
      BY <1>1, <2>2, <2>3
    <2> HIDE DEF D
    <2>5. \A r \in Path : \A op \in Waiting(r)' :
            \E s \in Path : \/ op \in Members(queued[s])
                            \/ (D[s] # None /\ op \in Members(D[s].pending))
      BY <1>1, <2>1, <2>3, <2>4, MovedWaits
    <2>6. \A s \in Path : Members(queued[s]) \subseteq Waiting(s)
      BY DEF Waiting, Members
    <2>7. ASSUME NEW s \in Path, D[s] # None PROVE Members(D[s].pending) \subseteq Waiting(s)
      <3>1. CASE s = p
        BY <2>2, <2>4, <3>1
      <3>2. CASE s # p
        <4>1. D[s] = docs[s]
          BY <2>4, <3>2
        <4>2. QED
          BY <2>7, <4>1 DEF Waiting, Members, Loaded
      <3>3. QED
        BY <3>1, <3>2
    <2>8. \A r \in Path : \A op \in Waiting(r)' : \E s \in Path : op \in Waiting(s)
      BY <2>5, <2>6, <2>7
    <2>9. QED
      BY <1>1, <2>8, NobodyDecides
  <1>4. QED
    BY <1>2, <1>3

\* What the others do meanwhile.
LEMMA DocumentDecides ==
  ASSUME LTypeOK, Minted, OneHome, Undecided, DocumentNext
  PROVE  DecidesWell
  <1>1. CASE QuietNext
    BY <1>1, QuietStep, StayDecides
  <1>2. CASE MoveNext
    BY <1>2, EveryStaging, StagesDecides DEF MoveNext
  <1>3. CASE QueueNext
    <2>1. ASSUME NEW p \in Path, NEW s \in Session, NEW b \in Batches, StagePending(p, s, b)
          PROVE  DecidesWell
      BY <2>1, EveryStaging, StagesDecides
    <2>2. ASSUME NEW p \in Path, NEW t \in Contents, StageContent(p, t)
          PROVE  DecidesWell
      BY <2>2, EveryStaging, StagesDecides
    <2>3. ASSUME NEW p \in Path, NEW t \in Created, Create(p, t)
          PROVE  DecidesWell
      <3>1. Calm
        BY <2>3, CreateStep
      <3>2. faults' = faults /\
              fate' = [i \in OpId |-> IF fate[i] = "queued" /\ i \in Ids(queued[p])
                                      THEN "adrift" ELSE fate[i]]
        BY <2>3 DEF Create
      <3>3. QED
        BY <3>1, <3>2, NobodyDecides DEF Calm
    <2>4. ASSUME NEW p \in Path, NEW i \in OpId, RejectFrom(p, i)
          PROVE  DecidesWell
      BY <2>4, RejectDecides
    <2>5. ASSUME SweepReject
          PROVE  DecidesWell
      BY <2>4, <2>5, SweepFields DEF SweepReject
    <2>6. ASSUME NEW p \in Path, NEW i \in OpId, NEW o \in {"ok", "queue_fails", "md_fails"},
                 AcceptPending(p, i, o)
          PROVE  DecidesWell
      BY <2>6, AcceptDecides
    <2>7. QED
      BY <1>3, <2>1, <2>2, <2>3, <2>4, <2>5, <2>6 DEF QueueNext, ReviewNext, RejectPending
  <1>4. QED
    BY <1>1, <1>2, <1>3, DocumentCases

\* Any step.
LEMMA DecidesStep ==
  ASSUME VTypeOK, Minted, OneHome, Undecided, [VNext]_vvars
  PROVE  DecidesWell
  <1>1. LTypeOK
    BY DEF VTypeOK
  <1>2. ASSUME QueuesStay, faults' = faults PROVE DecidesWell
    BY <1>1, <1>2, StayDecides
  <1>3. CASE FileNext
    BY <1>2, <1>3, FileTyped DEF ledger
  <1>4. CASE TrashDoc
    <2>1. QueuesStay
      BY <1>4, TrashDocTyped
    <2>2. QED
      BY <1>2, <1>4, <2>1 DEF TrashDoc, End
  <1>5. CASE RestoreDoc
    <2>1. QueuesStay
      BY <1>5, RestoreDocTyped
    <2>2. QED
      BY <1>2, <1>5, <2>1 DEF RestoreDoc, End
  <1>6. CASE MoveDoc
    BY <1>6, MoveDocDecides
  <1>7. CASE Meanwhile(DocumentNext)
    BY <1>1, <1>7, DocumentDecides DEF Meanwhile
  <1>8. CASE RestartVault
    <2>1. QueuesStay
      BY <1>8, RestartTyped
    <2>2. QED
      BY <1>2, <1>8, <2>1 DEF RestartVault, Reopen, RestartWith
  <1>9. CASE UNCHANGED vvars
    <2>1. UNCHANGED <<queued, docs, fate, faults>>
      BY <1>9 DEF vvars, lvars
    <2>2. Undecided' <=> Undecided
      BY <2>1 DEF Undecided, Waiting, Loaded
    <2>3. QED
      BY <2>1, <2>2 DEF DecidesWell, Decides
  <1>10. QED
    BY <1>3, <1>4, <1>5, <1>6, <1>7, <1>8, <1>9 DEF VNext, RecordNext

\* Each proposal is decided at most once: while writes succeed, what was accepted
\* or rejected waits nowhere any more, so no review, sweep or restart can decide
\* it again, wherever its note and its queue file were moved, deleted and brought
\* back to meanwhile.
THEOREM ProposalsAreDecidedOnce ==
  VSpec => []Undecided /\ DecidedOnce
  <1>1. VInit => Undecided
    <2> SUFFICES ASSUME VInit PROVE Undecided
      OBVIOUS
    <2>1. \A p \in Path : docs[p] = None /\ queued[p] = <<>>
      BY DEF VInit, LInit
    <2>2. \A p \in Path : Waiting(p) = {}
      BY <2>1 DEF Waiting, Loaded
    <2>3. QED
      BY <2>2 DEF Undecided
  <1>2. VTypeOK /\ Minted /\ OneHome /\ Undecided /\ [VNext]_vvars => Undecided'
    BY DecidesStep DEF DecidesWell
  <1>3. VSpec => []Undecided
    BY <1>1, <1>2, VaultAlwaysTyped, PTL DEF VSpec
  <1>4. VTypeOK /\ Minted /\ OneHome /\ Undecided /\ [VNext]_vvars
          => [faults' = 0 => \A i \in OpId : Decides(i)]_vvars
    BY DecidesStep DEF DecidesWell
  <1>5. QED
    BY <1>3, <1>4, VaultAlwaysTyped, PTL DEF VSpec, DecidedOnce

-----------------------------------------------------------------------------
\* VaultFiles implements ReviewPromise.

\* What was buried stays buried.
LEMMA BuriedGrows ==
  ASSUME VTypeOK, Minted, [VNext]_vvars
  PROVE  buried \subseteq buried'
  <1>1. CASE FileNext
    <2>1. buried' = buried
      BY <1>1, FileTyped
    <2>2. QED
      BY <2>1
  <1>2. CASE RecordNext
    BY <1>2 DEF RecordNext, MoveDoc, TrashDoc, RestoreDoc
  <1>3. CASE Meanwhile(DocumentNext)
    BY <1>3 DEF Meanwhile
  <1>4. CASE RestartVault
    BY <1>4 DEF RestartVault
  <1>5. CASE UNCHANGED vvars
    BY <1>5 DEF vvars
  <1>6. QED
    BY <1>1, <1>2, <1>3, <1>4, <1>5 DEF VNext

\* What the state says of an operation, and what review says of it.
Fates == {"unborn", "queued", "landed", "rejected", "adrift"}
Reviewed(f, b) ==
  CASE f = "unborn"          -> "unborn"
    [] f = "landed"          -> "accepted"
    [] f = "rejected"        -> "rejected"
    [] f = "queued" /\ ~b    -> "waiting"
    [] OTHER                 -> "loose"

\* The one follows from the other.
LEMMA ReviewedFacts ==
  ASSUME NEW f \in Fates, NEW b \in BOOLEAN
  PROVE  /\ Reviewed(f, b) \in {"unborn", "accepted", "rejected", "waiting", "loose"}
         /\ Reviewed(f, b) = "unborn" <=> f = "unborn"
         /\ Reviewed(f, b) = "accepted" <=> f = "landed"
         /\ Reviewed(f, b) = "rejected" <=> f = "rejected"
         /\ Reviewed(f, b) = "waiting" <=> f = "queued" /\ ~b
         /\ f = "adrift" => Reviewed(f, b) = "loose"
         /\ f = "queued" /\ b => Reviewed(f, b) = "loose"
  BY DEF Reviewed, Fates

\* Review's word for it, before a step and after it.
LEMMA ReviewIs ==
  ASSUME NEW i \in OpId
  PROVE  /\ ReviewOf(i) = Reviewed(fate[i], i \in buried)
         /\ ReviewOf(i)' = Reviewed(fate'[i], i \in buried')
  BY DEF ReviewOf, Reviewed, Live

\* While writes succeed, the queues keep what waits and nothing that is unborn
\* or decided.
KeptSays ==
  faults = 0 =>
    \A i \in OpId : /\ fate[i] = "queued" /\ i \notin buried => i \in Kept
                    /\ fate[i] \in {"unborn", "landed", "rejected"} => i \notin Kept

\* It follows from the invariants.
LEMMA KeptIsSaid ==
  ASSUME LTypeOK, Minted, Undecided, QueuesFollow
  PROVE  KeptSays
  <1> SUFFICES ASSUME faults = 0, NEW i \in OpId
               PROVE  /\ fate[i] = "queued" /\ i \notin buried => i \in Kept
                      /\ fate[i] \in {"unborn", "landed", "rejected"} => i \notin Kept
    BY DEF KeptSays
  <1>1. fate[i] = "queued" /\ i \notin buried => i \in Kept
    BY DEF QueuesFollow, Kept
  <1>2. ASSUME i \in Kept PROVE fate[i] \in {"queued", "adrift"}
    <2>1. PICK p \in Path : i \in Ids(Queue(p))
      BY <1>2 DEF Kept
    <2>2. PICK op \in Waiting(p) : op.id = i
      BY <2>1 DEF Ids, Queue, Waiting, Loaded
    <2>3. QED
      BY <2>2 DEF Undecided
  <1>3. QED
    BY <1>1, <1>2

\* What a step makes of one operation is a step of the promise.
LEMMA OpPromised ==
  ASSUME LTypeOK, LTypeOK', KeptSays, KeptSays', buried \subseteq buried', faults = 0, faults' = 0,
         NEW i \in OpId, Decides(i)
  PROVE  \/ ReviewOf(i) = "unborn" /\ ReviewOf(i)' = "waiting" /\ i \in Kept'
         \/ ReviewOf(i) = "unborn" /\ ReviewOf(i)' = "loose"
         \/ ReviewOf(i) = "waiting" /\ ReviewOf(i)' = "loose"
         \/ /\ ReviewOf(i) \in {"waiting", "loose"} /\ i \in Kept
            /\ ReviewOf(i)' \in {"accepted", "rejected"} /\ i \notin Kept'
         \/ /\ ReviewOf(i)' = ReviewOf(i)
            /\ ReviewOf(i) # "loose" => (i \in Kept' <=> i \in Kept)
  <1> DEFINE f == fate[i]
             g == fate'[i]
             b == i \in buried
             c == i \in buried'
             k == i \in Kept
             l == i \in Kept'
             x == Reviewed(f, b)
             y == Reviewed(g, c)
  <1>1. f \in Fates /\ g \in Fates /\ b \in BOOLEAN /\ c \in BOOLEAN /\ (b => c)
    BY DEF LTypeOK, Fates
  <1>2. ReviewOf(i) = x /\ ReviewOf(i)' = y
    BY ReviewIs
  <1>3. /\ f = "queued" /\ ~b => k
        /\ f \in {"unborn", "landed", "rejected"} => ~k
        /\ g = "queued" /\ ~c => l
        /\ g \in {"unborn", "landed", "rejected"} => ~l
    BY DEF KeptSays
  <1>4. \/ g = f
        \/ f = "unborn" /\ g \in {"queued", "adrift"}
        \/ f = "queued" /\ g = "adrift"
        \/ f \in {"queued", "adrift"} /\ g \in {"landed", "rejected"} /\ k
    BY DEF Decides
  <1> HIDE DEF f, g, b, c, k, l
  <1>5. /\ x \in {"unborn", "accepted", "rejected", "waiting", "loose"}
        /\ (x = "unborn" <=> f = "unborn") /\ (x = "waiting" <=> f = "queued" /\ ~b)
        /\ (x = "accepted" <=> f = "landed") /\ (x = "rejected" <=> f = "rejected")
    BY <1>1, ReviewedFacts
  <1>6. /\ y \in {"unborn", "accepted", "rejected", "waiting", "loose"}
        /\ (y = "unborn" <=> g = "unborn") /\ (y = "waiting" <=> g = "queued" /\ ~c)
        /\ (y = "accepted" <=> g = "landed") /\ (y = "rejected" <=> g = "rejected")
    BY <1>1, ReviewedFacts
  <1> HIDE DEF x, y
  <1>7. \/ x = "unborn" /\ y = "waiting" /\ l
        \/ x = "unborn" /\ y = "loose"
        \/ x = "waiting" /\ y = "loose"
        \/ x \in {"waiting", "loose"} /\ k /\ y \in {"accepted", "rejected"} /\ ~l
        \/ y = x /\ (x # "loose" => (l <=> k))
    <2>1. CASE g = f
      BY <1>1, <1>3, <1>5, <1>6, <2>1 DEF Fates
    <2>2. CASE f = "unborn" /\ g \in {"queued", "adrift"}
      BY <1>1, <1>3, <1>5, <1>6, <2>2
    <2>3. CASE f = "queued" /\ g = "adrift"
      BY <1>1, <1>3, <1>5, <1>6, <2>3
    <2>4. CASE f \in {"queued", "adrift"} /\ g \in {"landed", "rejected"} /\ k
      BY <1>1, <1>3, <1>5, <1>6, <2>4
    <2>5. QED
      BY <1>4, <2>1, <2>2, <2>3, <2>4
  <1>8. QED
    BY <1>2, <1>7 DEF k, l

\* A step maps to a step of the promise.
LEMMA StepPromised ==
  ASSUME VTypeOK, Minted, OneHome, Undecided, KeptSays, VTypeOK', KeptSays', [VNext]_vvars
  PROVE  [Promise!RNext]_(Promise!rvars)
  <1>1. LTypeOK /\ LTypeOK' /\ DecidesWell /\ buried \subseteq buried'
    BY DecidesStep, BuriedGrows DEF VTypeOK
  <1>2. \A i \in OpId : fate[i] \in Fates /\ fate'[i] \in Fates
    BY <1>1 DEF LTypeOK, Fates
  <1>3. ASSUME NEW i \in OpId
        PROVE  ReviewOf(i)' \in Promise!Review
    <2> DEFINE g == fate'[i]
               c == i \in buried'
    <2>1. ReviewOf(i)' = Reviewed(g, c)
      BY ReviewIs
    <2>2. Reviewed(g, c) \in {"unborn", "accepted", "rejected", "waiting", "loose"}
      <3>1. g \in Fates /\ c \in BOOLEAN
        BY <1>2
      <3> HIDE DEF g, c
      <3>2. QED
        BY <3>1, ReviewedFacts
    <2> HIDE DEF g, c
    <2>3. QED
      BY <2>1, <2>2 DEF Promise!Review, Promise!Verdict
  <1>4. faults \in Nat /\ faults' \in Nat
    BY <1>1, LayeredConstants DEF LTypeOK
  <1>5. (faults > 0) => (faults' > 0)
    BY <1>1, <1>4 DEF DecidesWell
  <1>6. ASSUME ~(faults' > 0), NEW i \in OpId
        PROVE  Promise!Stage(i) \/ Promise!LetGo(i) \/ Promise!Decide(i) \/ Promise!Rest(i)
    <2>1. faults = 0 /\ faults' = 0 /\ Decides(i)
      BY <1>1, <1>4, <1>6 DEF DecidesWell
    <2>2. \/ ReviewOf(i) = "unborn" /\ ReviewOf(i)' = "waiting" /\ i \in Kept'
          \/ ReviewOf(i) = "unborn" /\ ReviewOf(i)' = "loose"
          \/ ReviewOf(i) = "waiting" /\ ReviewOf(i)' = "loose"
          \/ /\ ReviewOf(i) \in {"waiting", "loose"} /\ i \in Kept
             /\ ReviewOf(i)' \in {"accepted", "rejected"} /\ i \notin Kept'
          \/ /\ ReviewOf(i)' = ReviewOf(i)
             /\ ReviewOf(i) # "loose" => (i \in Kept' <=> i \in Kept)
      BY <1>1, <2>1, OpPromised
    <2>3. QED
      BY <2>2 DEF Promise!Stage, Promise!LetGo, Promise!Decide, Promise!Rest, Promise!Verdict
  <1>7. QED
    BY <1>3, <1>5, <1>6 DEF Promise!RNext

\* The vault keeps what review promises: a staged proposal is kept in a queue
\* until somebody accepts or rejects it, is decided once, and is in no queue
\* afterwards, for any number of moves, deletions, restorations, renames and
\* restarts, until a write fails.
THEOREM VaultKeepsReview ==
  VSpec => KeepsReview
  <1>1. VInit => Promise!RInit
    <2> SUFFICES ASSUME VInit PROVE Promise!RInit
      OBVIOUS
    <2>1. /\ \A p \in Path : docs[p] = None /\ queued[p] = <<>>
          /\ \A i \in OpId : fate[i] = "unborn"
          /\ faults = 0
      BY DEF VInit, LInit
    <2>2. \A p \in Path : Ids(Queue(p)) = {}
      BY <2>1 DEF Queue, Ids
    <2>3. Kept = {}
      BY <2>2 DEF Kept
    <2>4. ASSUME NEW i \in OpId PROVE ReviewOf(i) = "unborn"
      <3>1. ReviewOf(i) = Reviewed(fate[i], i \in buried) /\ fate[i] = "unborn"
        BY <2>1, ReviewIs
      <3>2. QED
        BY <3>1 DEF Reviewed
    <2>5. QED
      BY <2>1, <2>3, <2>4 DEF Promise!RInit
  <1>2. VTypeOK /\ Minted /\ Undecided /\ QueuesFollow => KeptSays
    BY KeptIsSaid DEF VTypeOK
  <1>3. (/\ VTypeOK /\ Minted /\ OneHome /\ Undecided /\ KeptSays
         /\ VTypeOK' /\ KeptSays' /\ [VNext]_vvars) => [Promise!RNext]_(Promise!rvars)
    BY StepPromised
  <1>4. QED
    BY <1>1, <1>2, <1>3, VaultAlwaysTyped, ProposalsAreDecidedOnce, QueuesFollowDocuments, PTL
       DEF VSpec, KeepsReview, Promise!RSpec
=============================================================================
