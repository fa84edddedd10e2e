-------------------------- MODULE LayeredDocProofs --------------------------
(***************************************************************************)
(* Proofs about LayeredDoc, for every set of paths, texts, edits and       *)
(* sessions, and any number of operations, restarts, vanishing files and   *)
(* failing writes: the file is the accepted text, the queue file is the    *)
(* queue, no operation is forgotten, and the user's typing survives what   *)
(* others do to the text under it.                                         *)
(***************************************************************************)
EXTENDS LayeredDoc, SequenceTheorems, FiniteSetTheorems, WellFoundedInduction, TLAPS

-----------------------------------------------------------------------------
\* Sequences and least elements.

\* A function on 1..n is a sequence.
LEMMA FunctionIsSeq ==
  ASSUME NEW S, NEW n \in Nat, NEW f \in [1..n -> S]
  PROVE  f \in Seq(S) /\ Len(f) = n
  OBVIOUS

\* A nonempty set of numbers has a least one.
LEMMA HasLeast ==
  ASSUME NEW T \in SUBSET Nat, T # {}
  PROVE  \E m \in T : \A n \in T : m <= n
  <1> DEFINE R == OpToRel(<, Nat)
  <1>1. IsWellFoundedOn(R, Nat)
    BY NatLessThanWellFounded
  <1>2. \A x, y \in Nat : <<y, x>> \in R <=> y < x
    BY DEF OpToRel
  <1> HIDE DEF R
  <1>3. PICK m \in T : \A n \in T : ~(<<n, m>> \in R)
    BY <1>1, WFMin
  <1>4. \A n \in T : ~(n < m)
    BY <1>2, <1>3
  <1>5. QED
    BY <1>4

\* What RemoveAt(s, i) is: those after i move down by one.
LEMMA RemoveFacts ==
  ASSUME NEW S, NEW s \in Seq(S), NEW i \in 1..Len(s)
  PROVE  /\ RemoveAt(s, i) \in Seq(S) /\ Len(RemoveAt(s, i)) = Len(s) - 1
         /\ \A j \in 1..(Len(s) - 1) : RemoveAt(s, i)[j] = s[IF j < i THEN j ELSE j + 1]
  <1> DEFINE a == SubSeq(s, 1, i - 1)
             b == SubSeq(s, i + 1, Len(s))
  <1>1. a \in Seq(S) /\ Len(a) = i - 1 /\ \A j \in 1..(i - 1) : a[j] = s[j]
    BY SubSeqProperties
  <1>2. b \in Seq(S) /\ Len(b) = Len(s) - i /\ \A j \in 1..(Len(s) - i) : b[j] = s[i + j]
    BY SubSeqProperties
  <1>3. RemoveAt(s, i) = a \o b
    BY DEF RemoveAt
  <1> HIDE DEF a, b
  <1>4. /\ a \o b \in Seq(S) /\ Len(a \o b) = Len(a) + Len(b)
        /\ \A j \in 1..(Len(a) + Len(b)) : (a \o b)[j] = IF j <= Len(a) THEN a[j] ELSE b[j - Len(a)]
    BY <1>1, <1>2, ConcatProperties
  <1>5. Len(a) + Len(b) = Len(s) - 1
    BY <1>1, <1>2
  <1>6. \A j \in 1..(Len(s) - 1) : (a \o b)[j] = s[IF j < i THEN j ELSE j + 1]
    <2> DEFINE c == a \o b
    <2>1. \A j \in 1..(Len(s) - 1) : c[j] = IF j <= i - 1 THEN a[j] ELSE b[j - (i - 1)]
      BY <1>1, <1>4, <1>5
    <2> HIDE DEF c
    <2>2. \A j \in 1..(Len(s) - 1) : j < i => c[j] = s[j]
      BY <1>1, <2>1
    <2>3. \A j \in 1..(Len(s) - 1) : ~(j < i) => c[j] = s[j + 1]
      <3> SUFFICES ASSUME NEW j \in 1..(Len(s) - 1), ~(j < i)
                   PROVE  c[j] = s[j + 1]
        OBVIOUS
      <3>1. j - (i - 1) \in 1..(Len(s) - i) /\ i + (j - (i - 1)) = j + 1
        OBVIOUS
      <3>2. c[j] = b[j - (i - 1)]
        BY <2>1
      <3>3. b[j - (i - 1)] = s[j + 1]
        BY <1>2, <3>1
      <3>4. QED
        BY <3>2, <3>3
    <2>4. \A j \in 1..(Len(s) - 1) : c[j] = s[IF j < i THEN j ELSE j + 1]
      BY <2>2, <2>3
    <2>5. QED
      BY <2>4 DEF c
  <1>7. QED
    BY <1>3, <1>4, <1>5, <1>6

-----------------------------------------------------------------------------
\* Queues.

\* Edits, whole rewrites and renames are told apart.
LEMMA KindsApart ==
  /\ Replace \cap Rewrite = {} /\ Replace \cap Rename = {} /\ Rewrite \cap Rename = {}
  BY DEF Replace, Rewrite, Rename

\* An operation of a queue is found under its id.
LEMMA PositionFacts ==
  ASSUME NEW s \in Seq(Op), NEW i \in Ids(s)
  PROVE  /\ PositionOf(i, s) \in 1..Len(s) /\ s[PositionOf(i, s)].id = i
         /\ s[PositionOf(i, s)] \in Op
  <1>1. \E k \in DOMAIN s : s[k].id = i
    BY DEF Ids
  <1>2. PositionOf(i, s) \in DOMAIN s /\ s[PositionOf(i, s)].id = i
    BY <1>1 DEF PositionOf
  <1>3. QED
    BY <1>2

\* The set of a queue's operations.
Members(s) == {s[k] : k \in DOMAIN s}

\* A queue in order without one of its operations: the others, in order.
LEMMA WithoutFacts ==
  ASSUME NEW s \in Seq(Op), InOrder(s), NEW i \in Ids(s)
  PROVE  /\ Without(i, s) \in Seq(Op) /\ InOrder(Without(i, s))
         /\ Members(Without(i, s)) = {op \in Members(s) : op.id # i}
         /\ Ids(Without(i, s)) = Ids(s) \ {i}
  <1> DEFINE n == PositionOf(i, s)
             w == Without(i, s)
             at(j) == IF j < n THEN j ELSE j + 1
  <1>1. n \in 1..Len(s) /\ s[n].id = i /\ Len(s) \in Nat /\ DOMAIN s = 1..Len(s)
    BY PositionFacts
  <1>2. w = RemoveAt(s, n)
    BY DEF Without
  <1> HIDE DEF n, w
  <1>3. w \in Seq(Op) /\ Len(w) = Len(s) - 1 /\ \A j \in 1..(Len(s) - 1) : w[j] = s[at(j)]
    BY <1>1, <1>2, RemoveFacts
  <1>4. DOMAIN w = 1..(Len(s) - 1)
    BY <1>1, <1>3
  <1>5. \A j, k \in 1..Len(s) : j < k => s[j].id < s[k].id
    BY <1>1 DEF InOrder
  <1>6. \A k \in 1..Len(s) : s[k].id \in Nat
    <2>1. \A k \in 1..Len(s) : s[k] \in Op
      BY ElementOfSeq
    <2>2. QED
      BY <2>1, LayeredConstants DEF Op, OpId
  <1>7. \A k \in 1..Len(s) : s[k].id = i => k = n
    BY <1>1, <1>5, <1>6
  <1>8. \A j \in 1..(Len(s) - 1) : at(j) \in 1..Len(s) /\ at(j) # n
    BY <1>1
  <1>9. \A k \in 1..Len(s) : k # n => \E j \in 1..(Len(s) - 1) : at(j) = k
    <2>1. \A k \in 1..Len(s) : k < n => k \in 1..(Len(s) - 1) /\ at(k) = k
      BY <1>1
    <2>2. \A k \in 1..Len(s) : k > n => k - 1 \in 1..(Len(s) - 1) /\ at(k - 1) = k
      BY <1>1
    <2>3. \A k \in 1..Len(s) : k # n => k < n \/ k > n
      BY <1>1
    <2> HIDE DEF at
    <2>4. QED
      BY <2>1, <2>2, <2>3
  <1>10. \A j, k \in 1..(Len(s) - 1) : j < k => at(j) < at(k)
    BY <1>1
  <1> HIDE DEF at
  <1>11. InOrder(w)
    BY <1>3, <1>4, <1>5, <1>8, <1>10 DEF InOrder
  <1>12. Members(w) = {op \in Members(s) : op.id # i}
    <2>1. ASSUME NEW j \in 1..(Len(s) - 1)
          PROVE  w[j] \in Members(s) /\ w[j].id # i
      BY <1>1, <1>3, <1>7, <1>8 DEF Members
    <2>2. ASSUME NEW k \in 1..Len(s), s[k].id # i
          PROVE  \E j \in 1..(Len(s) - 1) : w[j] = s[k]
      BY <1>1, <1>3, <1>9, <2>2
    <2>3. Members(w) = {w[j] : j \in 1..(Len(s) - 1)} /\ Members(s) = {s[k] : k \in 1..Len(s)}
      BY <1>1, <1>4 DEF Members
    <2>4. ASSUME NEW op \in Members(s), op.id # i PROVE op \in Members(w)
      BY <2>2, <2>3, <2>4
    <2>5. QED
      BY <2>1, <2>3, <2>4
  <1>13. Ids(w) = Ids(s) \ {i}
    <2>1. Ids(w) = {op.id : op \in Members(w)} /\ Ids(s) = {op.id : op \in Members(s)}
      BY DEF Ids, Members
    <2>2. QED
      BY <1>12, <2>1
  <1>14. QED
    BY <1>3, <1>11, <1>12, <1>13 DEF w

-----------------------------------------------------------------------------
\* Types of texts and documents.

Deed == Replace \cup Rewrite \cup Rename

\* A text an operation is applied to is a text.
LEMMA ShownType ==
  ASSUME NEW t \in Text, NEW c \in Deed
  PROVE  Shown(t, c) \in Text
  <1>1. CASE ~HasEffect(t, c)
    BY <1>1 DEF Shown
  <1>2. CASE HasEffect(t, c) /\ c \in Rewrite
    BY <1>2 DEF Shown, Rewrite
  <1>3. CASE HasEffect(t, c) /\ c \notin Rewrite
    <2>1. c \in Replace /\ c.new \in Word
      BY <1>3 DEF HasEffect, Replace
    <2>2. Shown(t, c) = [x \in Place |-> IF t[x] = c.old THEN c.new ELSE t[x]]
      BY <1>3 DEF Shown
    <2>3. QED
      BY <2>1, <2>2 DEF Text
  <1>4. QED
    BY <1>1, <1>2, <1>3

\* So is one merged from three.
LEMMA MergeType ==
  ASSUME NEW base \in Text, NEW ours \in Text, NEW theirs \in Text
  PROVE  Merge(base, ours, theirs) \in Text
  BY DEF Merge, Text

\* A document's fields, and documents with one of them changed.
LEMMA DocFields ==
  ASSUME NEW d \in Doc
  PROVE  /\ d.accepted \in Text /\ d.tomb \in BOOLEAN
         /\ d.working \in Text \cup {None} /\ d.pending \in Seq(Op)
         /\ d = [accepted |-> d.accepted, tomb |-> d.tomb, working |-> d.working,
                 pending |-> d.pending]
         /\ d # None
  BY LayeredConstants DEF Doc

\* Documents with one field changed.
LEMMA DocEdits ==
  ASSUME NEW d \in Doc
  PROVE  /\ \A w \in Text \cup {None} :
              /\ [d EXCEPT !.working = w] \in Doc
              /\ [d EXCEPT !.working = w] = [accepted |-> d.accepted, tomb |-> d.tomb,
                                             working |-> w, pending |-> d.pending]
         /\ \A s \in Seq(Op) :
              /\ [d EXCEPT !.pending = s] \in Doc
              /\ [d EXCEPT !.pending = s] = [accepted |-> d.accepted, tomb |-> d.tomb,
                                             working |-> d.working, pending |-> s]
         /\ \A b \in BOOLEAN :
              /\ [d EXCEPT !.tomb = b] \in Doc
              /\ [d EXCEPT !.tomb = b] = [accepted |-> d.accepted, tomb |-> b,
                                          working |-> d.working, pending |-> d.pending]
  BY DEF Doc

\* The parts of the type invariant.
DocsTyped ==
  /\ docs \in [Path -> Doc \cup {None}]
  /\ \A p \in Path : docs[p] # None => InOrder(docs[p].pending)
QueuesTyped ==
  /\ queued \in [Path -> Seq(Op)]
  /\ fate \in [OpId -> {"unborn", "queued", "landed", "rejected", "adrift"}]
UserTyped ==
  /\ saving \in Saving \cup {None}
  /\ sweep \in Sweep \cup {None}
  /\ typed \in [Path -> SUBSET Place]
DiskTyped ==
  /\ disk \in [Path -> Text \cup {None}]
  /\ faults \in 0..MaxFaults /\ lost \in 0..MaxLost
  /\ restarts \in 0..MaxRestarts

\* The type invariant is its parts.
LEMMA TypeParts ==
  LTypeOK <=> DocsTyped /\ QueuesTyped /\ UserTyped /\ DiskTyped
  BY DEF LTypeOK, DocsTyped, QueuesTyped, UserTyped, DiskTyped

-----------------------------------------------------------------------------
\* What a step does to the queues and to the texts.

\* No queue changes: documents are loaded with the queue of their file, and
\* keep it.
QueuesStay ==
  /\ queued' = queued /\ fate' = fate
  /\ \A p \in Path : docs'[p] # None => docs'[p].pending = Queue(p)

\* No file and no accepted text changes.
TextsStay ==
  /\ disk' = disk
  /\ \A p \in Path : docs'[p] # None =>
       /\ Open(p) # None
       /\ docs'[p].accepted = Open(p).accepted /\ docs'[p].tomb = Open(p).tomb

\* No typing, no accepted text and no working text changes.
WorkingStays ==
  /\ typed' = typed
  /\ \A p \in Path : docs[p] # None =>
       /\ docs'[p] # None
       /\ docs'[p].accepted = docs[p].accepted /\ docs'[p].working = docs[p].working
  /\ \A p \in Path : docs[p] = None => docs'[p] = None \/ docs'[p].working = None

\* Nothing new waits for review.
Calm ==
  /\ \A i \in OpId : fate'[i] = "unborn" <=> fate[i] = "unborn"
  /\ \A p \in Path : InOrder(queued'[p])
  /\ \A p \in Path : Waiting(p)' \subseteq Waiting(p)

\* A document that can be opened, and its queue.
LEMMA OpenFacts ==
  ASSUME LTypeOK, Minted, NEW p \in Path, Open(p) # None
  PROVE  /\ Open(p) \in Doc /\ Open(p).pending = Queue(p)
         /\ InOrder(Queue(p)) /\ Queue(p) \in Seq(Op)
         /\ Members(Queue(p)) \subseteq Waiting(p)
         /\ docs[p] = None => disk[p] \in Text /\ queued[p] \in Seq(Op)
  <1>1. /\ docs[p] \in Doc \cup {None} /\ disk[p] \in Text \cup {None}
        /\ queued[p] \in Seq(Op) /\ InOrder(queued[p])
        /\ docs[p] # None => InOrder(docs[p].pending)
    BY DEF LTypeOK, Minted
  <1>2. CASE docs[p] # None
    <2>1. Open(p) = docs[p] /\ Queue(p) = docs[p].pending /\ docs[p] \in Doc
      BY <1>1, <1>2 DEF Open, Queue
    <2>2. docs[p].pending \in Seq(Op)
      BY <2>1, DocFields
    <2>3. Members(docs[p].pending) \subseteq Waiting(p)
      BY <1>2 DEF Members, Waiting, Loaded
    <2>4. QED
      BY <1>1, <1>2, <2>1, <2>2, <2>3
  <1>3. CASE docs[p] = None
    <2>1. disk[p] \in Text
      BY <1>1, <1>3 DEF Open
    <2>2. Open(p) = [accepted |-> disk[p], tomb |-> FALSE, working |-> None, pending |-> queued[p]]
      BY <1>3, <2>1, LayeredConstants DEF Open
    <2>3. Open(p) \in Doc /\ Open(p).pending = queued[p]
      BY <1>1, <2>1, <2>2 DEF Doc
    <2>4. Queue(p) = queued[p] /\ Members(queued[p]) \subseteq Waiting(p)
      BY <1>3 DEF Queue, Members, Waiting
    <2>5. QED
      BY <1>1, <2>1, <2>3, <2>4
  <1>4. QED
    BY <1>2, <1>3

\* Loading a document, or changing it but for its queue.
LEMMA StoreFacts ==
  ASSUME LTypeOK, Minted, NEW p \in Path, Open(p) # None,
         NEW d \in Doc, d.pending = Open(p).pending, Store(p, d),
         queued' = queued, fate' = fate
  PROVE  DocsTyped' /\ QueuesTyped' /\ QueuesStay
  <1>1. docs \in [Path -> Doc \cup {None}] /\ docs' = [docs EXCEPT ![p] = d]
    BY DEF LTypeOK, Store
  <1>2. /\ docs' \in [Path -> Doc \cup {None}] /\ docs'[p] = d
        /\ \A r \in Path : r # p => docs'[r] = docs[r]
    BY <1>1
  <1>3. \A r \in Path : docs'[r] # None => docs'[r].pending = Queue(r)
    <2>1. d.pending = Queue(p)
      BY OpenFacts
    <2>2. ASSUME NEW r \in Path, r # p, docs'[r] # None
          PROVE  docs'[r].pending = Queue(r)
      BY <1>2, <2>2 DEF Queue
    <2>3. QED
      BY <1>2, <2>1, <2>2
  <1>4. \A r \in Path : docs'[r] # None => InOrder(docs'[r].pending)
    <2>1. \A r \in Path : InOrder(Queue(r))
      BY DEF LTypeOK, Minted, Queue
    <2>2. QED
      BY <1>3, <2>1
  <1>5. QED
    BY <1>2, <1>3, <1>4 DEF DocsTyped, QueuesTyped, QueuesStay, LTypeOK

\* Where no queue changes, nothing new waits.
LEMMA StayIsCalm ==
  ASSUME LTypeOK, Minted, QueuesStay
  PROVE  Calm
  <1>1. \A p \in Path : InOrder(queued'[p])
    BY DEF QueuesStay, Minted
  <1>2. ASSUME NEW p \in Path
        PROVE  Waiting(p)' \subseteq Waiting(p)
    <2>1. CASE docs'[p] = None
      BY <2>1 DEF Waiting, Loaded, QueuesStay
    <2>2. CASE docs'[p] # None
      <3>1. docs'[p].pending = Queue(p) /\ queued' = queued
        BY <2>2 DEF QueuesStay
      <3>2. Waiting(p)' = Members(queued[p]) \cup Members(Queue(p))
        BY <2>2, <3>1 DEF Waiting, Loaded, Members
      <3>3. Members(queued[p]) \subseteq Waiting(p) /\ Members(Queue(p)) \subseteq Waiting(p)
        BY DEF Waiting, Members, Queue, Loaded
      <3>4. QED
        BY <3>2, <3>3
    <2>3. QED
      BY <2>1, <2>2
  <1>3. QED
    BY <1>1, <1>2 DEF Calm, QueuesStay

\* What waits are operations.
LEMMA WaitingType ==
  ASSUME LTypeOK, NEW p \in Path
  PROVE  Waiting(p) \subseteq Op /\ Named(p) \subseteq OpId
  <1>1. queued[p] \in Seq(Op)
    BY DEF LTypeOK
  <1>2. Loaded(p) => docs[p].pending \in Seq(Op)
    BY DocFields DEF LTypeOK, Loaded
  <1>3. \A k \in DOMAIN queued[p] : queued[p][k] \in Op
    BY <1>1
  <1>4. Loaded(p) => \A k \in DOMAIN docs[p].pending : docs[p].pending[k] \in Op
    BY <1>2
  <1>5. Waiting(p) \subseteq Op
    BY <1>3, <1>4 DEF Waiting
  <1>6. \A op \in Op : op.id \in OpId /\ op.needs \subseteq OpId
    BY DEF Op
  <1>7. QED
    BY <1>5, <1>6 DEF Named

\* Such steps keep the order of the ids, and the documents apart.
LEMMA CalmSteps ==
  ASSUME LTypeOK, Minted, Calm
  PROVE  Minted' /\ (Separate => Separate')
  <1>1. \A p \in Path : Named(p)' \subseteq Named(p)
    BY DEF Calm, Named
  <1>2. \A p \in Path : \A i \in Named(p)' : fate'[i] # "unborn"
    BY <1>1, WaitingType DEF Calm, Minted
  <1>3. \A i, j \in OpId : i < j /\ fate'[j] # "unborn" => fate'[i] # "unborn"
    BY DEF Calm, Minted
  <1>4. QED
    BY <1>1, <1>2, <1>3 DEF Calm, Minted, Separate

-----------------------------------------------------------------------------
\* The user's steps, and those of others that leave the queues alone.

\* A document as it is stored by a step that keeps its texts.
LEMMA KeepsTexts ==
  ASSUME LTypeOK, NEW p \in Path, Open(p) # None, NEW d \in Doc,
         d.accepted = Open(p).accepted, d.tomb = Open(p).tomb, Store(p, d), disk' = disk
  PROVE  TextsStay
  <1>1. docs \in [Path -> Doc \cup {None}] /\ docs' = [docs EXCEPT ![p] = d]
    BY DEF LTypeOK, Store
  <1>2. docs'[p] = d /\ \A r \in Path : r # p => docs'[r] = docs[r]
    BY <1>1
  <1>3. ASSUME NEW r \in Path, r # p, docs'[r] # None
        PROVE  Open(r) = docs'[r]
    BY <1>2, <1>3 DEF Open
  <1>4. QED
    BY <1>2, <1>3 DEF TextsStay

\* A document is loaded.
LEMMA ReadStep ==
  ASSUME LTypeOK, Minted, NEW p \in Path, Read(p)
  PROVE  LTypeOK' /\ QueuesStay /\ TextsStay
  <1> USE DEF Read
  <1>1. Open(p) \in Doc /\ Open(p) # None
    BY OpenFacts
  <1>2. DocsTyped' /\ QueuesTyped' /\ QueuesStay
    BY <1>1, StoreFacts
  <1>3. TextsStay
    BY <1>1, KeepsTexts
  <1>4. UserTyped' /\ DiskTyped'
    BY TypeParts DEF UserTyped, DiskTyped
  <1>5. QED
    BY <1>2, <1>3, <1>4, TypeParts DEF LTypeOK, DocsTyped, QueuesTyped, UserTyped, DiskTyped

\* The user types.
LEMMA TypeStep ==
  ASSUME LTypeOK, Minted, NEW p \in Path, NEW x \in Place, NEW w \in Typed, Type(p, x, w)
  PROVE  LTypeOK' /\ QueuesStay /\ TextsStay
  <1> DEFINE d == Open(p)
             shown == IF d.working = None THEN d.accepted ELSE d.working
             t == [shown EXCEPT ![x] = w]
  <1>1. d \in Doc /\ d # None
    BY OpenFacts DEF Type
  <1>2. shown \in Text /\ w \in Word
    BY <1>1, DocFields, LayeredConstants
  <1>3. t \in Text
    BY <1>2 DEF Text
  <1>4. /\ Store(p, [d EXCEPT !.working = t]) /\ typed' = [typed EXCEPT ![p] = @ \cup {x}]
        /\ UNCHANGED <<disk, queued, saving, sweep, fate, faults, lost, restarts>>
    BY DEF Type
  <1> HIDE DEF t, shown
  <1>5. /\ [d EXCEPT !.working = t] \in Doc
        /\ [d EXCEPT !.working = t] = [accepted |-> d.accepted, tomb |-> d.tomb,
                                       working |-> t, pending |-> d.pending]
    BY <1>1, <1>3, DocEdits
  <1>6. DocsTyped' /\ QueuesTyped' /\ QueuesStay
    BY <1>1, <1>4, <1>5, StoreFacts
  <1>7. TextsStay
    BY <1>1, <1>4, <1>5, KeepsTexts
  <1>8. UserTyped' /\ DiskTyped'
    BY <1>4, TypeParts DEF UserTyped, DiskTyped
  <1>9. QED
    BY <1>6, <1>7, <1>8, TypeParts DEF LTypeOK, DocsTyped, QueuesTyped, UserTyped, DiskTyped

\* The user drops what is unsaved.
LEMMA DiscardStep ==
  ASSUME LTypeOK, Minted, NEW p \in Path, Discard(p)
  PROVE  LTypeOK' /\ QueuesStay /\ TextsStay
  <1> DEFINE d == Open(p)
  <1>1. d \in Doc /\ d # None
    BY OpenFacts DEF Discard
  <1>2. /\ Store(p, [d EXCEPT !.working = None]) /\ typed' = [typed EXCEPT ![p] = {}]
        /\ UNCHANGED <<disk, queued, saving, sweep, fate, faults, lost, restarts>>
    BY DEF Discard
  <1>3. /\ [d EXCEPT !.working = None] \in Doc
        /\ [d EXCEPT !.working = None] = [accepted |-> d.accepted, tomb |-> d.tomb,
                                       working |-> None, pending |-> d.pending]
    BY <1>1, DocEdits
  <1>4. DocsTyped' /\ QueuesTyped' /\ QueuesStay
    BY <1>1, <1>2, <1>3, StoreFacts
  <1>5. TextsStay
    BY <1>1, <1>2, <1>3, KeepsTexts
  <1>6. UserTyped' /\ DiskTyped'
    BY <1>2, TypeParts DEF UserTyped, DiskTyped
  <1>7. QED
    BY <1>4, <1>5, <1>6, TypeParts DEF LTypeOK, DocsTyped, QueuesTyped, UserTyped, DiskTyped

\* A Save begins.
LEMMA SaveBeginStep ==
  ASSUME LTypeOK, Minted, NEW p \in Path, SaveBegin(p)
  PROVE  LTypeOK' /\ QueuesStay /\ TextsStay
  <1> DEFINE d == Open(p)
  <1>1. d \in Doc /\ d # None
    BY OpenFacts DEF SaveBegin
  <1>2. /\ Store(p, d)
        /\ saving' = IF d.working = None THEN None
                     ELSE [path |-> p, at |-> "recheck", text |-> d.working,
                           base |-> d.accepted]
        /\ UNCHANGED <<disk, queued, sweep, fate, typed, faults, lost, restarts>>
    BY DEF SaveBegin
  <1>3. DocsTyped' /\ QueuesTyped' /\ QueuesStay
    BY <1>1, <1>2, StoreFacts
  <1>4. TextsStay
    BY <1>1, <1>2, KeepsTexts
  <1>5. d.working = None \/ (d.working \in Text /\ d.accepted \in Text)
    BY <1>1, DocFields
  <1> HIDE DEF d
  <1>6. saving' \in Saving \cup {None}
    BY <1>2, <1>5 DEF Saving
  <1>7. UserTyped' /\ DiskTyped'
    BY <1>2, <1>6, TypeParts DEF UserTyped, DiskTyped
  <1>8. QED
    BY <1>3, <1>4, <1>7, TypeParts DEF LTypeOK, DocsTyped, QueuesTyped, UserTyped, DiskTyped

\* What a Save remembers.
LEMMA SavingFields ==
  ASSUME LTypeOK, saving # None
  PROVE  /\ saving \in Saving /\ saving.path \in Path
         /\ saving.at \in {"recheck", "commit", "clear"}
         /\ saving.text \in Text /\ saving.base \in Text
         /\ \A t \in Text, a \in {"recheck", "commit", "clear"} :
              /\ [saving EXCEPT !.at = a] \in Saving
              /\ [saving EXCEPT !.at = a].text = saving.text
              /\ [saving EXCEPT !.at = a, !.text = t] \in Saving
              /\ [saving EXCEPT !.at = a, !.text = t].text = t
              /\ [saving EXCEPT !.at = a, !.text = t].at = a
  BY DEF LTypeOK, Saving

\* A step that stores nothing.
LEMMA NoDocMoves ==
  ASSUME LTypeOK, Minted, UNCHANGED <<docs, queued, fate>>
  PROVE  DocsTyped' /\ QueuesTyped' /\ QueuesStay /\ (disk' = disk => TextsStay)
  BY TypeParts DEF DocsTyped, QueuesTyped, QueuesStay, TextsStay, Queue, Open, LTypeOK

\* A Save looks again at accepted, and merges.
LEMMA SaveRecheckStep ==
  ASSUME LTypeOK, Minted, SaveRecheck
  PROVE  LTypeOK' /\ QueuesStay /\ TextsStay
  <1> DEFINE p == saving.path
             d == Open(p)
             t == IF d.accepted = saving.base THEN saving.text
                  ELSE Merge(saving.base, saving.text, d.accepted)
  <1>1. saving # None /\ UNCHANGED <<disk, queued, sweep, fate, typed, faults, lost, restarts>>
    BY DEF SaveRecheck
  <1>2. p \in Path /\ saving.text \in Text /\ saving.base \in Text
    BY <1>1, SavingFields
  <1>3. CASE d = None
    <2>1. saving' = None /\ UNCHANGED docs
      BY <1>3 DEF SaveRecheck
    <2>2. DocsTyped' /\ QueuesTyped' /\ QueuesStay /\ TextsStay
      BY <1>1, <2>1, NoDocMoves
    <2>3. UserTyped' /\ DiskTyped'
      BY <1>1, <2>1, TypeParts DEF UserTyped, DiskTyped
    <2>4. QED
      BY <2>2, <2>3, TypeParts DEF LTypeOK, DocsTyped, QueuesTyped, UserTyped, DiskTyped
  <1>4. CASE d # None
    <2>1. d \in Doc
      BY <1>2, <1>4, OpenFacts
    <2>2. Store(p, d) /\ saving' = [saving EXCEPT !.at = "commit", !.text = t]
      BY <1>4 DEF SaveRecheck
    <2>3. t \in Text
      BY <1>2, <2>1, DocFields, MergeType
    <2>4. DocsTyped' /\ QueuesTyped' /\ QueuesStay /\ TextsStay
      BY <1>1, <1>2, <1>4, <2>1, <2>2, StoreFacts, KeepsTexts
    <2> HIDE DEF t
    <2>5. saving' \in Saving
      BY <1>1, <2>2, <2>3, SavingFields
    <2>6. UserTyped' /\ DiskTyped'
      BY <1>1, <2>5, TypeParts DEF UserTyped, DiskTyped
    <2>7. QED
      BY <2>4, <2>6, TypeParts DEF LTypeOK, DocsTyped, QueuesTyped, UserTyped, DiskTyped
  <1>5. QED
    BY <1>3, <1>4

\* A Save ends.
LEMMA SaveClearStep ==
  ASSUME LTypeOK, Minted, SaveClear
  PROVE  LTypeOK' /\ QueuesStay /\ TextsStay
  <1> DEFINE p == saving.path
             d == Open(p)
  <1>1. saving # None /\ saving' = None /\ UNCHANGED <<disk, queued, sweep, fate, faults, lost, restarts>>
    BY DEF SaveClear
  <1>2. p \in Path
    BY <1>1, SavingFields
  <1>3. CASE d = None
    <2>1. UNCHANGED <<docs, typed>>
      BY <1>3 DEF SaveClear
    <2>2. DocsTyped' /\ QueuesTyped' /\ QueuesStay /\ TextsStay
      BY <1>1, <2>1, NoDocMoves
    <2>3. UserTyped' /\ DiskTyped'
      BY <1>1, <2>1, TypeParts DEF UserTyped, DiskTyped
    <2>4. QED
      BY <2>2, <2>3, TypeParts DEF LTypeOK, DocsTyped, QueuesTyped, UserTyped, DiskTyped
  <1>4. CASE d # None
    <2>1. d \in Doc
      BY <1>2, <1>4, OpenFacts
    <2>2. Store(p, [d EXCEPT !.working = None]) /\ typed' = [typed EXCEPT ![p] = {}]
      BY <1>4 DEF SaveClear
    <2>3. /\ [d EXCEPT !.working = None] \in Doc
          /\ [d EXCEPT !.working = None] = [accepted |-> d.accepted, tomb |-> d.tomb,
                                       working |-> None, pending |-> d.pending]
      BY <2>1, DocEdits
    <2>4. DocsTyped' /\ QueuesTyped' /\ QueuesStay
      BY <1>1, <1>2, <1>4, <2>2, <2>3, StoreFacts
    <2>5. TextsStay
      BY <1>1, <1>2, <1>4, <2>2, <2>3, KeepsTexts
    <2>6. UserTyped' /\ DiskTyped'
      BY <1>1, <2>2, TypeParts DEF UserTyped, DiskTyped
    <2>7. QED
      BY <2>4, <2>5, <2>6, TypeParts DEF LTypeOK, DocsTyped, QueuesTyped, UserTyped, DiskTyped
  <1>5. QED
    BY <1>3, <1>4

\* A document that can be opened is on disk.
LEMMA OpenOnDisk ==
  ASSUME LTypeOK, DiskIsAccepted, faults = 0, NEW p \in Path, Open(p) # None, ~Open(p).tomb
  PROVE  disk[p] = Open(p).accepted \/ (lost > 0 /\ disk[p] = None)
  <1>1. CASE docs[p] # None
    BY <1>1 DEF DiskIsAccepted, Loaded, Open
  <1>2. CASE docs[p] = None
    BY <1>2 DEF Open
  <1>3. QED
    BY <1>1, <1>2

\* Where neither files nor accepted texts change, they stay equal.
LEMMA TextsStayOnDisk ==
  ASSUME LTypeOK, DiskIsAccepted, TextsStay, faults' = 0 => faults = 0, lost > 0 => lost' > 0
  PROVE  DiskIsAccepted'
  <1> SUFFICES ASSUME faults' = 0, NEW p \in Path, docs'[p] # None, ~docs'[p].tomb
               PROVE  disk'[p] = docs'[p].accepted \/ (lost' > 0 /\ disk'[p] = None)
    BY DEF DiskIsAccepted, Loaded
  <1>1. /\ Open(p) # None /\ disk' = disk
        /\ docs'[p].accepted = Open(p).accepted /\ docs'[p].tomb = Open(p).tomb
    BY DEF TextsStay
  <1>2. disk[p] = Open(p).accepted \/ (lost > 0 /\ disk[p] = None)
    BY <1>1, OpenOnDisk
  <1>3. QED
    BY <1>1, <1>2

\* Committing a text: the file is the new accepted text unless the write failed.
LEMMA CommitTextFacts ==
  ASSUME LTypeOK, Minted, NEW p \in Path, NEW t \in Text, NEW ok \in BOOLEAN,
         CommitText(p, t, ok), UNCHANGED <<queued, fate, lost, restarts>>
  PROVE  /\ DocsTyped' /\ QueuesTyped' /\ DiskTyped' /\ QueuesStay
         /\ DiskIsAccepted => DiskIsAccepted'
  <1> DEFINE d == Open(p)
             e == Committed(d, t)
  <1>1. d # None /\ d \in Doc
    BY OpenFacts DEF CommitText
  <1>2. d.accepted \in Text /\ d.working \in Text \cup {None} /\ d.tomb \in BOOLEAN
    BY <1>1, DocFields
  <1>3. /\ e \in Doc /\ e.pending = d.pending
        /\ e.accepted = t /\ e.tomb = FALSE
    <2> DEFINE w == IF d.working = None THEN None ELSE Merge(d.accepted, d.working, t)
    <2>1. w \in Text \cup {None}
      BY <1>2, MergeType
    <2>2. e = [d EXCEPT !.accepted = t, !.tomb = FALSE, !.working = w]
      BY DEF Committed
    <2> HIDE DEF w, e
    <2>3. QED
      BY <1>1, <2>1, <2>2 DEF Doc
  <1> HIDE DEF e
  <1>4. /\ disk \in [Path -> Text \cup {None}] /\ docs \in [Path -> Doc \cup {None}]
        /\ faults \in 0..MaxFaults /\ lost \in 0..MaxLost /\ restarts \in 0..MaxRestarts
        /\ MaxFaults \in Nat /\ MaxLost \in Nat
    BY LayeredConstants DEF LTypeOK
  <1>5. CASE Changes(d, t)
    <2>1. /\ Store(p, e)
          /\ \/ ok /\ Succeeds /\ disk' = Written(p, e)
             \/ Breaks /\ disk' = disk
      BY <1>5 DEF CommitText, e
    <2>2. DocsTyped' /\ QueuesTyped' /\ QueuesStay
      BY <1>1, <1>3, <2>1, StoreFacts
    <2>3. Written(p, e) = [disk EXCEPT ![p] = t]
      BY <1>3 DEF Written
    <2>4. DiskTyped'
      BY <1>4, <2>1, <2>3 DEF DiskTyped, Succeeds, Breaks
    <2>5. ASSUME DiskIsAccepted, faults' = 0, NEW r \in Path, docs'[r] # None, ~docs'[r].tomb
          PROVE  disk'[r] = docs'[r].accepted \/ (lost' > 0 /\ disk'[r] = None)
      <3>1. faults = 0 /\ disk' = [disk EXCEPT ![p] = t]
        BY <1>4, <2>1, <2>3, <2>5 DEF Succeeds, Breaks
      <3>2. docs' = [docs EXCEPT ![p] = e]
        BY <2>1 DEF Store
      <3>3. CASE r = p
        BY <1>3, <1>4, <3>1, <3>2, <3>3
      <3>4. CASE r # p
        <4>1. docs'[r] = docs[r] /\ disk'[r] = disk[r]
          BY <1>4, <3>1, <3>2, <3>4
        <4>2. QED
          BY <2>5, <3>1, <4>1 DEF DiskIsAccepted, Loaded
      <3>5. QED
        BY <3>3, <3>4
    <2>6. DiskIsAccepted => DiskIsAccepted'
      BY <2>5 DEF DiskIsAccepted, Loaded
    <2>7. QED
      BY <2>2, <2>4, <2>6
  <1>6. CASE ~Changes(d, t)
    <2>1. Store(p, d) /\ disk' = disk /\ faults' = faults
      BY <1>6 DEF CommitText, Succeeds
    <2>2. DocsTyped' /\ QueuesTyped' /\ QueuesStay
      BY <1>1, <2>1, StoreFacts
    <2>3. DiskTyped'
      BY <1>4, <2>1 DEF DiskTyped
    <2>4. TextsStay
      BY <1>1, <2>1, KeepsTexts
    <2>5. DiskIsAccepted => DiskIsAccepted'
      BY <1>4, <2>1, <2>4, TextsStayOnDisk
    <2>6. QED
      BY <2>2, <2>3, <2>5
  <1>7. QED
    BY <1>5, <1>6

\* A Save writes its text, or finds that the note is gone.
LEMMA SaveCommitStep ==
  ASSUME LTypeOK, Minted, SaveCommit
  PROVE  LTypeOK' /\ QueuesStay /\ (DiskIsAccepted => DiskIsAccepted')
  <1>1. saving # None /\ UNCHANGED <<queued, sweep, fate, typed, lost, restarts>>
    BY DEF SaveCommit
  <1>2. saving.path \in Path /\ saving.text \in Text
    BY <1>1, SavingFields
  <1>3. CASE Open(saving.path) = None
    <2>1. saving' = None /\ UNCHANGED <<docs, disk, faults>>
      BY <1>3 DEF SaveCommit
    <2>2. DocsTyped' /\ QueuesTyped' /\ QueuesStay /\ TextsStay
      BY <1>1, <2>1, NoDocMoves
    <2>3. UserTyped' /\ DiskTyped'
      BY <1>1, <2>1, TypeParts DEF UserTyped, DiskTyped
    <2>4. DiskIsAccepted => DiskIsAccepted'
      BY <1>1, <2>1 DEF DiskIsAccepted, Loaded
    <2>5. QED
      BY <2>2, <2>3, <2>4, TypeParts DEF LTypeOK, DocsTyped, QueuesTyped, UserTyped, DiskTyped
  <1>4. CASE Open(saving.path) # None
    <2>1. PICK ok \in BOOLEAN :
            /\ CommitText(saving.path, saving.text, ok)
            /\ saving' = IF ok THEN [saving EXCEPT !.at = "clear"] ELSE None
      BY <1>4 DEF SaveCommit
    <2>2. /\ DocsTyped' /\ QueuesTyped' /\ DiskTyped' /\ QueuesStay
          /\ DiskIsAccepted => DiskIsAccepted'
      BY <1>1, <1>2, <2>1, CommitTextFacts
    <2>3. [saving EXCEPT !.at = "clear"] \in Saving
      BY <1>1, SavingFields
    <2>4. UserTyped'
      BY <1>1, <2>1, <2>3, TypeParts DEF UserTyped
    <2>5. QED
      BY <2>2, <2>4, TypeParts DEF LTypeOK, DocsTyped, QueuesTyped, UserTyped, DiskTyped
  <1>5. QED
    BY <1>3, <1>4

\* Somebody else writes the whole text.
LEMMA FoldInStep ==
  ASSUME LTypeOK, Minted, NEW p \in Path, NEW t \in Folds, FoldIn(p, t)
  PROVE  LTypeOK' /\ QueuesStay /\ (DiskIsAccepted => DiskIsAccepted')
  <1>1. PICK ok \in BOOLEAN : CommitText(p, t, ok)
    BY DEF FoldIn
  <1>2. t \in Text /\ UNCHANGED <<queued, saving, sweep, fate, typed, lost, restarts>>
    BY LayeredConstants DEF FoldIn
  <1>3. /\ DocsTyped' /\ QueuesTyped' /\ DiskTyped' /\ QueuesStay
        /\ DiskIsAccepted => DiskIsAccepted'
    BY <1>1, <1>2, CommitTextFacts
  <1>4. UserTyped'
    BY <1>2, TypeParts DEF UserTyped
  <1>5. QED
    BY <1>3, <1>4, TypeParts DEF LTypeOK, DocsTyped, QueuesTyped, UserTyped, DiskTyped

\* A deleted document has no file to answer for.
LEMMA TombstoneStep ==
  ASSUME LTypeOK, Minted, NEW p \in Path, Tombstone(p)
  PROVE  LTypeOK' /\ QueuesStay /\ (DiskIsAccepted => DiskIsAccepted')
  <1> DEFINE d == Open(p)
             e == [d EXCEPT !.tomb = TRUE]
  <1>1. d \in Doc /\ d # None
    BY OpenFacts DEF Tombstone
  <1>2. Store(p, e) /\ UNCHANGED <<disk, queued, saving, sweep, fate, typed, faults, lost, restarts>>
    BY DEF Tombstone
  <1>3. e \in Doc /\ e.pending = d.pending /\ e.tomb = TRUE
    <2>1. /\ e \in Doc
          /\ e = [accepted |-> d.accepted, tomb |-> TRUE, working |-> d.working,
                  pending |-> d.pending]
      BY <1>1, DocEdits
    <2> HIDE DEF e
    <2>2. QED
      BY <2>1
  <1> HIDE DEF e
  <1>4. DocsTyped' /\ QueuesTyped' /\ QueuesStay
    BY <1>1, <1>2, <1>3, StoreFacts
  <1>5. UserTyped' /\ DiskTyped'
    BY <1>2, TypeParts DEF UserTyped, DiskTyped
  <1>6. docs' = [docs EXCEPT ![p] = e] /\ docs \in [Path -> Doc \cup {None}]
    BY <1>2 DEF Store, LTypeOK
  <1>7. \A r \in Path : docs'[r] = docs[r] \/ docs'[r].tomb = TRUE
    BY <1>3, <1>6
  <1>8. DiskIsAccepted => DiskIsAccepted'
    BY <1>2, <1>7 DEF DiskIsAccepted, Loaded
  <1>9. QED
    BY <1>4, <1>5, <1>8, TypeParts DEF LTypeOK, DocsTyped, QueuesTyped, UserTyped, DiskTyped

\* A missing file is written again.
LEMMA EnsureOnDiskStep ==
  ASSUME LTypeOK, Minted, NEW p \in Path, EnsureOnDisk(p)
  PROVE  LTypeOK' /\ QueuesStay /\ (DiskIsAccepted => DiskIsAccepted')
  <1> DEFINE d == Open(p)
  <1>1. d \in Doc /\ d # None /\ ~d.tomb /\ disk[p] = None
    BY OpenFacts DEF EnsureOnDisk
  <1>2. disk' = [disk EXCEPT ![p] = d.accepted]
    BY <1>1 DEF EnsureOnDisk, Written
  <1>3. UNCHANGED <<queued, docs, saving, sweep, fate, typed, faults, lost, restarts>>
    BY DEF EnsureOnDisk
  <1>4. docs[p] = d /\ d.accepted \in Text
    BY <1>1, DocFields DEF Open
  <1>5. disk \in [Path -> Text \cup {None}]
    BY DEF LTypeOK
  <1> HIDE DEF d
  <1>6. DocsTyped' /\ QueuesTyped' /\ QueuesStay
    BY <1>3, NoDocMoves
  <1>7. UserTyped' /\ DiskTyped'
    BY <1>2, <1>3, <1>4, <1>5, TypeParts DEF UserTyped, DiskTyped
  <1>8. DiskIsAccepted => DiskIsAccepted'
    BY <1>2, <1>3, <1>4, <1>5 DEF DiskIsAccepted, Loaded
  <1>9. QED
    BY <1>6, <1>7, <1>8, TypeParts DEF LTypeOK, DocsTyped, QueuesTyped, UserTyped, DiskTyped

\* A file is taken away from outside.
LEMMA FileVanishesStep ==
  ASSUME LTypeOK, Minted, NEW p \in Path, FileVanishes(p)
  PROVE  LTypeOK' /\ QueuesStay /\ (DiskIsAccepted => DiskIsAccepted')
  <1>1. /\ disk' = [disk EXCEPT ![p] = None] /\ lost' = lost + 1 /\ lost < MaxLost
        /\ UNCHANGED <<queued, docs, saving, sweep, fate, typed, faults, restarts>>
    BY DEF FileVanishes
  <1>2. disk \in [Path -> Text \cup {None}] /\ lost \in 0..MaxLost /\ MaxLost \in Nat
    BY LayeredConstants DEF LTypeOK
  <1>3. DocsTyped' /\ QueuesTyped' /\ QueuesStay
    BY <1>1, NoDocMoves
  <1>4. UserTyped' /\ DiskTyped'
    BY <1>1, <1>2, TypeParts DEF UserTyped, DiskTyped
  <1>5. DiskIsAccepted => DiskIsAccepted'
    BY <1>1, <1>2 DEF DiskIsAccepted, Loaded
  <1>6. QED
    BY <1>3, <1>4, <1>5, TypeParts DEF LTypeOK, DocsTyped, QueuesTyped, UserTyped, DiskTyped

\* What a sweep remembers.
LEMMA SweepFields ==
  ASSUME LTypeOK, sweep # None
  PROVE  /\ sweep \in Sweep /\ sweep.path \in Path /\ sweep.left \in Seq(OpId)
         /\ Len(sweep.left) > 0 /\ Head(sweep.left) \in OpId
         /\ [sweep EXCEPT !.doomed = TRUE] \in Sweep
         /\ NextSwept => sweep' \in Sweep \cup {None}
  <1>1. sweep \in Sweep
    BY DEF LTypeOK
  <1>2. /\ sweep.path \in Path /\ sweep.left \in Seq(OpId) /\ sweep.left # <<>>
        /\ [sweep EXCEPT !.doomed = TRUE] \in Sweep
        /\ \A l \in Seq(OpId) \ {<<>>} : [sweep EXCEPT !.left = l, !.doomed = FALSE] \in Sweep
    BY <1>1 DEF Sweep
  <1>3. Len(sweep.left) > 0 /\ Head(sweep.left) \in OpId
    <2>1. Head(sweep.left) \in OpId /\ Len(sweep.left) \in Nat /\ Len(sweep.left) # 0
      BY <1>2, HeadTailProperties, LenProperties, EmptySeq
    <2>2. QED
      BY <2>1
  <1>4. NextSwept => sweep' \in Sweep \cup {None}
    <2> SUFFICES ASSUME NextSwept, Len(sweep.left) # 1
                 PROVE  sweep' \in Sweep
      BY DEF NextSwept
    <2> DEFINE l == Tail(sweep.left)
    <2>1. l \in Seq(OpId) /\ Len(l) = Len(sweep.left) - 1 /\ Len(sweep.left) \in Nat
      BY <1>2, HeadTailProperties, LenProperties
    <2>2. sweep' = [sweep EXCEPT !.left = l, !.doomed = FALSE]
      BY DEF NextSwept
    <2> HIDE DEF l
    <2>3. l # <<>>
      <3>1. Len(l) # 0
        BY <1>3, <2>1
      <3>2. QED
        BY <3>1, EmptySeq
    <2>4. QED
      BY <1>2, <2>1, <2>2, <2>3
  <1>5. QED
    BY <1>1, <1>2, <1>3, <1>4

\* A sweep lists the ids of a queue.
LEMMA SweepBeginStep ==
  ASSUME LTypeOK, Minted, NEW p \in Path, SweepBegin(p)
  PROVE  LTypeOK' /\ QueuesStay /\ TextsStay
  <1> DEFINE d == Open(p)
             left == [k \in DOMAIN d.pending |-> d.pending[k].id]
  <1>1. d \in Doc /\ d # None /\ d.pending \in Seq(Op) /\ d.pending # <<>>
    BY OpenFacts, DocFields DEF SweepBegin
  <1>2. /\ Store(p, d) /\ sweep' = [path |-> p, doomed |-> FALSE, left |-> left]
        /\ UNCHANGED <<disk, queued, saving, fate, typed, faults, lost, restarts>>
    BY DEF SweepBegin
  <1>3. left \in Seq(OpId) /\ left # <<>>
    <2>1. /\ DOMAIN d.pending = 1..Len(d.pending) /\ Len(d.pending) \in Nat /\ Len(d.pending) # 0
          /\ \A k \in DOMAIN d.pending : d.pending[k] \in Op
      BY <1>1
    <2>2. \A op \in Op : op.id \in OpId
      BY DEF Op
    <2>3. left \in [1..Len(d.pending) -> OpId]
      BY <2>1, <2>2
    <2> HIDE DEF left
    <2>4. left \in Seq(OpId) /\ Len(left) = Len(d.pending)
      BY <2>1, <2>3, FunctionIsSeq
    <2>5. QED
      BY <2>1, <2>4
  <1> HIDE DEF left, d
  <1>4. sweep' \in Sweep
    BY <1>2, <1>3 DEF Sweep
  <1>5. DocsTyped' /\ QueuesTyped' /\ QueuesStay /\ TextsStay
    BY <1>1, <1>2, StoreFacts, KeepsTexts DEF d
  <1>6. UserTyped' /\ DiskTyped'
    BY <1>2, <1>4, TypeParts DEF UserTyped, DiskTyped
  <1>7. QED
    BY <1>5, <1>6, TypeParts DEF LTypeOK, DocsTyped, QueuesTyped, UserTyped, DiskTyped

\* A sweep ends at an operation that is gone.
LEMMA SweepStaleStep ==
  ASSUME LTypeOK, Minted, SweepStale
  PROVE  LTypeOK' /\ QueuesStay /\ TextsStay
  <1>1. sweep' = None /\ UNCHANGED <<disk, queued, docs, saving, fate, typed, faults, lost, restarts>>
    BY DEF SweepStale
  <1>2. DocsTyped' /\ QueuesTyped' /\ QueuesStay /\ TextsStay
    BY <1>1, NoDocMoves
  <1>3. UserTyped' /\ DiskTyped'
    BY <1>1, TypeParts DEF UserTyped, DiskTyped
  <1>4. QED
    BY <1>2, <1>3, TypeParts DEF LTypeOK, DocsTyped, QueuesTyped, UserTyped, DiskTyped

\* A sweep looks at the next operation.
LEMMA SweepCheckStep ==
  ASSUME LTypeOK, Minted, SweepCheck
  PROVE  LTypeOK' /\ QueuesStay /\ TextsStay
  <1> DEFINE d == Open(sweep.path)
  <1>1. /\ sweep # None /\ d # None /\ Store(sweep.path, d)
        /\ NextSwept \/ sweep' = [sweep EXCEPT !.doomed = TRUE]
        /\ UNCHANGED <<disk, queued, saving, fate, typed, faults, lost, restarts>>
    BY DEF SweepCheck
  <1>2. sweep.path \in Path /\ sweep' \in Sweep \cup {None}
    BY <1>1, SweepFields
  <1>3. d \in Doc
    BY <1>1, <1>2, OpenFacts
  <1>4. DocsTyped' /\ QueuesTyped' /\ QueuesStay /\ TextsStay
    BY <1>1, <1>2, <1>3, StoreFacts, KeepsTexts
  <1>5. UserTyped' /\ DiskTyped'
    BY <1>1, <1>2, TypeParts DEF UserTyped, DiskTyped
  <1>6. QED
    BY <1>4, <1>5, TypeParts DEF LTypeOK, DocsTyped, QueuesTyped, UserTyped, DiskTyped

\* A restart: documents are forgotten, or read again without their queues.
LEMMA RestartStep ==
  ASSUME LTypeOK, Minted, Reopen \/ RestartApp
  PROVE  LTypeOK' /\ Calm /\ (Reopen => QueuesStay) /\ (DiskIsAccepted => DiskIsAccepted')
  <1>1. /\ restarts < MaxRestarts /\ restarts' = restarts + 1
        /\ saving' = None /\ sweep' = None /\ typed' = [p \in Path |-> {}]
        /\ UNCHANGED <<disk, queued, fate, faults, lost>>
    BY DEF Reopen, RestartApp, RestartWith
  <1>2. disk \in [Path -> Text \cup {None}] /\ restarts \in 0..MaxRestarts /\ MaxRestarts \in Nat
    BY LayeredConstants DEF LTypeOK
  <1>3. UserTyped' /\ DiskTyped' /\ QueuesTyped'
    BY <1>1, <1>2, TypeParts DEF UserTyped, DiskTyped, QueuesTyped
  <1>4. CASE Reopen
    <2>1. docs' = [p \in Path |-> None]
      BY <1>4 DEF Reopen, RestartWith
    <2>2. DocsTyped' /\ QueuesStay
      BY <1>1, <2>1 DEF DocsTyped, QueuesStay
    <2>3. DiskIsAccepted'
      BY <2>1 DEF DiskIsAccepted, Loaded
    <2>4. QED
      BY <1>3, <2>2, <2>3, StayIsCalm, TypeParts
         DEF LTypeOK, DocsTyped, QueuesTyped, UserTyped, DiskTyped
  <1>5. CASE RestartApp /\ ~Reopen
    <2>1. docs' = [p \in Path |-> Seeded(p)]
      BY <1>5 DEF RestartApp, RestartWith
    <2>2. ASSUME NEW p \in Path
          PROVE  \/ Seeded(p) = None
                 \/ /\ Seeded(p) \in Doc /\ Seeded(p).pending = <<>>
                    /\ Seeded(p).accepted = disk[p]
      <3>1. CASE disk[p] = None
        BY <3>1 DEF Seeded
      <3>2. CASE disk[p] # None
        <4>1. Seeded(p) = [accepted |-> disk[p], tomb |-> FALSE, working |-> None, pending |-> <<>>]
          BY <3>2 DEF Seeded
        <4>2. disk[p] \in Text
          BY <1>2, <3>2
        <4>3. <<>> \in Seq(Op)
          OBVIOUS
        <4>4. Seeded(p) \in Doc
          BY <4>1, <4>2, <4>3 DEF Doc
        <4>5. QED
          BY <4>1, <4>4
      <3>3. QED
        BY <3>1, <3>2
    <2>3. \A p \in Path : docs'[p] # None =>
            docs'[p] \in Doc /\ docs'[p].pending = <<>> /\ docs'[p].accepted = disk[p]
      BY <2>1, <2>2
    <2>4. DocsTyped'
      <3>1. docs' \in [Path -> Doc \cup {None}]
        BY <2>1, <2>2
      <3>2. \A p \in Path : docs'[p] # None => InOrder(docs'[p].pending)
        BY <2>3 DEF InOrder
      <3>3. QED
        BY <3>1, <3>2 DEF DocsTyped
    <2>5. \A p \in Path : Waiting(p)' \subseteq Waiting(p)
      BY <1>1, <2>3 DEF Waiting, Loaded
    <2>6. Calm
      BY <1>1, <2>5 DEF Calm, Minted
    <2>7. DiskIsAccepted'
      BY <1>1, <2>3 DEF DiskIsAccepted, Loaded
    <2>8. QED
      BY <1>3, <1>5, <2>4, <2>6, <2>7, TypeParts
         DEF LTypeOK, DocsTyped, QueuesTyped, UserTyped, DiskTyped
  <1>6. QED
    BY <1>4, <1>5

-----------------------------------------------------------------------------
\* Operations leave the queue.

\* What the queues promise while writes succeed.
QueuesHeld == QueueOnDisk /\ Filed /\ Undecided

\* Where no queue changes, the queues hold what they held.
LEMMA StayHeld ==
  ASSUME LTypeOK, Minted, QueuesStay, QueuesHeld, faults' = 0 => faults = 0
  PROVE  QueuesHeld'
  <1> SUFFICES ASSUME faults' = 0 PROVE QueuesHeld'
    BY DEF QueuesHeld, QueueOnDisk, Filed, Undecided
  <1>1. faults = 0 /\ queued' = queued /\ fate' = fate
    BY DEF QueuesStay
  <1>2. QueueOnDisk'
    <2> SUFFICES ASSUME NEW p \in Path, docs'[p] # None
                 PROVE  \/ queued[p] = docs'[p].pending
                        \/ \E i \in Ids(queued[p]) \cup Ids(docs'[p].pending) : fate[i] = "adrift"
      BY <1>1 DEF QueueOnDisk, Loaded
    <2>1. docs'[p].pending = Queue(p)
      BY DEF QueuesStay
    <2>2. QED
      BY <1>1, <2>1 DEF Queue, QueuesHeld, QueueOnDisk, Loaded
  <1>3. Filed'
    <2> SUFFICES ASSUME NEW i \in OpId, fate[i] = "queued"
                 PROVE  \E p \in Path : /\ i \in Ids(queued[p])
                                        /\ docs'[p] # None => i \in Ids(docs'[p].pending)
      BY <1>1 DEF Filed, Loaded
    <2>1. PICK p \in Path : i \in Ids(queued[p]) /\ (docs[p] # None => i \in Ids(docs[p].pending))
      BY <1>1 DEF QueuesHeld, Filed, Loaded
    <2>2. i \in Ids(Queue(p))
      BY <2>1 DEF Queue
    <2>3. QED
      BY <2>1, <2>2 DEF QueuesStay
  <1>4. Undecided'
    BY <1>1, StayIsCalm DEF Calm, QueuesHeld, Undecided
  <1>5. QED
    BY <1>2, <1>3, <1>4 DEF QueuesHeld

\* The ids of a queue, and whose they are.
LEMMA IdsAreNamed ==
  ASSUME LTypeOK, NEW p \in Path
  PROVE  /\ Ids(Queue(p)) \subseteq Named(p) /\ Ids(queued[p]) \subseteq Named(p)
         /\ docs[p] # None => Ids(docs[p].pending) \subseteq Named(p)
         /\ Named(p) \subseteq OpId
         /\ \A op \in Members(Queue(p)) : op \in Op /\ op \in Waiting(p) /\ op.needs \subseteq Named(p)
  BY WaitingType DEF Ids, Queue, Named, Waiting, Loaded, Members

\* An operation is taken out of the queue of p; its file may be saved.
LEMMA TakenOut ==
  ASSUME LTypeOK, Minted, NEW p \in Path, Open(p) # None,
         NEW i \in Ids(Queue(p)), NEW e \in Doc, e.pending = Without(i, Queue(p)),
         docs' = [docs EXCEPT ![p] = e],
         \/ queued' = queued
         \/ queued' = [queued EXCEPT ![p] = Without(i, Queue(p))],
         NEW v \in {"landed", "rejected"},
         fate' = fate \/ fate' = [fate EXCEPT ![i] = v]
  PROVE  DocsTyped' /\ QueuesTyped' /\ Calm
  <1> DEFINE rest == Without(i, Queue(p))
  <1>1. /\ docs \in [Path -> Doc \cup {None}] /\ queued \in [Path -> Seq(Op)]
        /\ fate \in [OpId -> {"unborn", "queued", "landed", "rejected", "adrift"}]
        /\ \A r \in Path : docs[r] # None => InOrder(docs[r].pending)
        /\ \A r \in Path : InOrder(queued[r])
    BY DEF LTypeOK, Minted
  <1>2. Queue(p) \in Seq(Op) /\ InOrder(Queue(p)) /\ Members(Queue(p)) \subseteq Waiting(p)
    BY OpenFacts
  <1>3. /\ rest \in Seq(Op) /\ InOrder(rest)
        /\ Members(rest) = {op \in Members(Queue(p)) : op.id # i}
    BY <1>2, WithoutFacts
  <1> HIDE DEF rest
  <1>4. i \in OpId /\ fate[i] # "unborn"
    BY IdsAreNamed DEF Minted
  <1>5. e.pending = rest /\ e # None
    BY DocFields DEF rest
  <1>6. queued' = queued \/ queued' = [queued EXCEPT ![p] = rest]
    BY DEF rest
  <1>7. DocsTyped'
    BY <1>1, <1>3, <1>5 DEF DocsTyped
  <1>8. QueuesTyped'
    BY <1>1, <1>3, <1>6 DEF QueuesTyped
  <1>9. \A r \in Path : InOrder(queued'[r])
    BY <1>1, <1>3, <1>6
  <1>10. \A j \in OpId : fate'[j] = "unborn" <=> fate[j] = "unborn"
    BY <1>1, <1>4
  <1>11. ASSUME NEW r \in Path PROVE Waiting(r)' \subseteq Waiting(r)
    <2>1. CASE r = p
      <3>1. docs'[p] = e /\ (queued'[p] = queued[p] \/ queued'[p] = rest)
        BY <1>1, <1>6
      <3>2. Waiting(p)' = Members(queued'[p]) \cup Members(rest)
        BY <1>5, <3>1 DEF Waiting, Loaded, Members
      <3>3. Members(queued[p]) \subseteq Waiting(p) /\ Members(rest) \subseteq Waiting(p)
        BY <1>2, <1>3 DEF Waiting, Members
      <3>4. QED
        BY <2>1, <3>1, <3>2, <3>3
    <2>2. CASE r # p
      <3>1. docs'[r] = docs[r] /\ queued'[r] = queued[r]
        BY <1>1, <1>6, <2>2
      <3>2. QED
        BY <3>1 DEF Waiting, Loaded
    <2>3. QED
      BY <2>1, <2>2
  <1>12. QED
    BY <1>7, <1>8, <1>9, <1>10, <1>11 DEF Calm

\* It is accepted or rejected, and the file is saved.
LEMMA TakenOutHeld ==
  ASSUME LTypeOK, Minted, Separate, QueuesHeld, NEW p \in Path, Open(p) # None,
         NEW i \in Ids(Queue(p)), NEW e \in Doc, e.pending = Without(i, Queue(p)),
         docs' = [docs EXCEPT ![p] = e],
         queued' = [queued EXCEPT ![p] = Without(i, Queue(p))],
         NEW v \in {"landed", "rejected"}, fate' = [fate EXCEPT ![i] = v],
         faults = 0
  PROVE  QueuesHeld'
  <1> DEFINE rest == Without(i, Queue(p))
  <1>1. /\ docs \in [Path -> Doc \cup {None}] /\ queued \in [Path -> Seq(Op)]
        /\ fate \in [OpId -> {"unborn", "queued", "landed", "rejected", "adrift"}]
    BY DEF LTypeOK
  <1>2. Queue(p) \in Seq(Op) /\ InOrder(Queue(p)) /\ Members(Queue(p)) \subseteq Waiting(p)
    BY OpenFacts
  <1>3. /\ Ids(rest) = Ids(Queue(p)) \ {i}
        /\ Members(rest) = {op \in Members(Queue(p)) : op.id # i}
    BY <1>2, WithoutFacts
  <1>4. e.pending = rest /\ e # None
    BY DocFields DEF rest
  <1>5. /\ docs'[p] = e /\ queued'[p] = rest
        /\ \A r \in Path : r # p => docs'[r] = docs[r] /\ queued'[r] = queued[r]
    BY <1>1 DEF rest
  <1>6. i \in OpId /\ \A r \in Path : r # p => i \notin Named(r)
    BY IdsAreNamed DEF Separate
  <1>7. \A j \in OpId : j # i => fate'[j] = fate[j]
    BY <1>1, <1>6
  <1> HIDE DEF rest
  <1>8. QueueOnDisk'
    <2> SUFFICES ASSUME NEW r \in Path, r # p, docs[r] # None
                 PROVE  \/ queued[r] = docs[r].pending
                        \/ \E j \in Ids(queued[r]) \cup Ids(docs[r].pending) : fate'[j] = "adrift"
      BY <1>4, <1>5 DEF QueueOnDisk, Loaded
    <2>1. \A j \in Ids(queued[r]) \cup Ids(docs[r].pending) : fate'[j] = fate[j]
      BY <1>6, <1>7, IdsAreNamed
    <2>2. QED
      BY <2>1 DEF QueuesHeld, QueueOnDisk, Loaded
  <1>9. Filed'
    <2> SUFFICES ASSUME NEW j \in OpId, fate'[j] = "queued"
                 PROVE  \E r \in Path : /\ j \in Ids(queued'[r])
                                        /\ docs'[r] # None => j \in Ids(docs'[r].pending)
      BY DEF Filed, Loaded
    <2>1. j # i /\ fate[j] = "queued"
      BY <1>1, <1>6, <1>7
    <2>2. PICK r \in Path : j \in Ids(queued[r]) /\ (docs[r] # None => j \in Ids(docs[r].pending))
      BY <2>1 DEF QueuesHeld, Filed, Loaded
    <2>3. CASE r = p
      <3>1. j \in Ids(Queue(p))
        BY <2>2, <2>3 DEF Queue
      <3>2. j \in Ids(rest)
        BY <1>3, <2>1, <3>1
      <3>3. QED
        BY <1>4, <1>5, <3>2
    <2>4. CASE r # p
      BY <1>5, <2>2, <2>4
    <2>5. QED
      BY <2>3, <2>4
  <1>10. Undecided'
    <2> SUFFICES ASSUME NEW r \in Path, NEW op \in Waiting(r)'
                 PROVE  fate'[op.id] \in {"queued", "adrift"}
      BY DEF Undecided
    <2>1. CASE r = p
      <3>1. Waiting(p)' = Members(rest)
        BY <1>4, <1>5 DEF Waiting, Loaded, Members
      <3>2. op \in Waiting(p) /\ op.id # i
        BY <1>2, <1>3, <2>1, <3>1
      <3>3. op.id \in OpId
        BY <3>2, WaitingType DEF Op
      <3>4. QED
        BY <1>7, <3>2, <3>3 DEF QueuesHeld, Undecided
    <2>2. CASE r # p
      <3>1. op \in Waiting(r)
        BY <1>5, <2>2 DEF Waiting, Loaded
      <3>2. op.id \in Named(r) /\ op.id \in OpId
        BY <3>1, WaitingType DEF Named, Op
      <3>3. QED
        BY <1>6, <1>7, <2>2, <3>1, <3>2 DEF QueuesHeld, Undecided
    <2>3. QED
      BY <2>1, <2>2
  <1>11. QED
    BY <1>8, <1>9, <1>10 DEF QueuesHeld

\* When a write has failed nothing is promised.
LEMMA FaultsExcuse ==
  ASSUME faults' # 0
  PROVE  QueuesHeld' /\ DiskIsAccepted'
  BY DEF QueuesHeld, QueueOnDisk, Filed, Undecided, DiskIsAccepted

\* A rejected operation leaves the queue and its file.
LEMMA RejectFromFacts ==
  ASSUME LTypeOK, Minted, NEW p \in Path, NEW i \in OpId, RejectFrom(p, i)
  PROVE  /\ DocsTyped' /\ QueuesTyped' /\ DiskTyped' /\ Calm /\ TextsStay
         /\ Separate /\ QueuesHeld => QueuesHeld'
  <1> DEFINE d == Open(p)
             rest == Without(i, Queue(p))
             e == [d EXCEPT !.pending = rest]
  <1>1. d # None /\ d \in Doc /\ d.pending = Queue(p) /\ i \in Ids(Queue(p))
    BY OpenFacts DEF RejectFrom
  <1>2. PICK ok \in BOOLEAN : SaveQueue(p, rest, ok)
    BY <1>1 DEF RejectFrom
  <1>3. /\ docs' = [docs EXCEPT ![p] = e] /\ fate' = [fate EXCEPT ![i] = "rejected"]
        /\ UNCHANGED <<disk, saving, typed, lost, restarts>>
    BY <1>1 DEF RejectFrom, Store
  <1>4. rest \in Seq(Op)
    BY <1>1, OpenFacts, WithoutFacts
  <1>5. e \in Doc /\ e.pending = rest /\ e.accepted = d.accepted /\ e.tomb = d.tomb
    <2>1. /\ e \in Doc
          /\ e = [accepted |-> d.accepted, tomb |-> d.tomb,
                  working |-> d.working, pending |-> rest]
      BY <1>1, <1>4, DocEdits
    <2> HIDE DEF e
    <2>2. QED
      BY <2>1
  <1> HIDE DEF e
  <1>6. DocsTyped' /\ QueuesTyped' /\ Calm
    BY <1>1, <1>2, <1>3, <1>5, TakenOut DEF SaveQueue
  <1>7. TextsStay
    BY <1>1, <1>3, <1>5, KeepsTexts DEF Store
  <1>8. /\ faults \in 0..MaxFaults /\ MaxFaults \in Nat
        /\ \/ Succeeds /\ queued' = [queued EXCEPT ![p] = rest]
           \/ Breaks
    BY <1>2, LayeredConstants DEF SaveQueue, LTypeOK
  <1>9. DiskTyped'
    BY <1>3, <1>8, TypeParts DEF DiskTyped, Succeeds, Breaks
  <1>10. ASSUME Separate, QueuesHeld PROVE QueuesHeld'
    <2>1. CASE faults' # 0
      BY <2>1, FaultsExcuse
    <2>2. CASE faults' = 0
      <3>1. faults = 0 /\ queued' = [queued EXCEPT ![p] = rest]
        BY <1>8, <2>2 DEF Succeeds, Breaks
      <3>2. QED
        BY <1>1, <1>3, <1>5, <1>10, <3>1, TakenOutHeld
    <2>3. QED
      BY <2>1, <2>2
  <1>11. QED
    BY <1>6, <1>7, <1>9, <1>10

\* A review rejects an operation.
LEMMA RejectPendingStep ==
  ASSUME LTypeOK, Minted, NEW p \in Path, NEW i \in OpId, RejectPending(p, i)
  PROVE  LTypeOK' /\ Calm /\ TextsStay /\ (Separate /\ QueuesHeld => QueuesHeld')
  <1>1. RejectFrom(p, i) /\ UNCHANGED <<saving, sweep, typed>>
    BY DEF RejectPending, RejectFrom
  <1>2. UserTyped'
    BY <1>1, TypeParts DEF UserTyped
  <1>3. QED
    BY <1>1, <1>2, RejectFromFacts, TypeParts
       DEF LTypeOK, DocsTyped, QueuesTyped, UserTyped, DiskTyped

\* A sweep rejects an operation.
LEMMA SweepRejectStep ==
  ASSUME LTypeOK, Minted, SweepReject
  PROVE  LTypeOK' /\ Calm /\ TextsStay /\ (Separate /\ QueuesHeld => QueuesHeld')
  <1>1. /\ sweep # None /\ RejectFrom(sweep.path, Head(sweep.left)) /\ NextSwept
        /\ UNCHANGED <<saving, typed>>
    BY DEF SweepReject, RejectFrom
  <1>2. sweep.path \in Path /\ Head(sweep.left) \in OpId /\ sweep' \in Sweep \cup {None}
    BY <1>1, SweepFields
  <1>3. UserTyped'
    BY <1>1, <1>2, TypeParts DEF UserTyped
  <1>4. /\ DocsTyped' /\ QueuesTyped' /\ DiskTyped' /\ Calm /\ TextsStay
        /\ Separate /\ QueuesHeld => QueuesHeld'
    BY <1>1, <1>2, RejectFromFacts
  <1>5. QED
    BY <1>3, <1>4, TypeParts DEF LTypeOK, DocsTyped, QueuesTyped, UserTyped, DiskTyped

\* Without renames an operation lands where it was staged.
LEMMA AcceptFacts ==
  ASSUME LTypeOK, Minted, Separate, NEW p \in Path, NEW i \in OpId, NEW o \in {"ok", "queue_fails", "md_fails"},
         AcceptPending(p, i, o)
  PROVE  LET d == Open(p)
             op == d.pending[PositionOf(i, d.pending)]
             after == Landed(d, op)
         IN  /\ d # None /\ d \in Doc /\ d.pending = Queue(p) /\ i \in Ids(Queue(p))
             /\ op \in Op /\ op.id = i /\ op \in Members(Queue(p)) /\ op.does \notin Rename
             /\ after \in Doc /\ after.pending = Without(i, Queue(p)) /\ after.tomb = d.tomb
             /\ after.accepted = Shown(d.accepted, op.does)
             /\ after.working = IF d.working = None THEN None ELSE Shown(d.working, op.does)
             /\ docs' = [docs EXCEPT ![p] = after]
             /\ \/ o = "queue_fails" /\ UNCHANGED <<disk, queued, typed>>
                \/ /\ o = "md_fails" /\ disk' = disk
                   /\ typed' = typed /\ queued' = [queued EXCEPT ![p] = Without(i, Queue(p))]
                \/ /\ o = "ok" /\ disk' = Written(p, after)
                   /\ typed' = typed /\ queued' = [queued EXCEPT ![p] = Without(i, Queue(p))]
             /\ IF o = "ok" THEN Succeeds ELSE Breaks
             /\ fate' = IF o = "ok" THEN [fate EXCEPT ![i] = "landed"] ELSE fate
             /\ ~Blocked(d, op)
             /\ UNCHANGED <<saving, sweep, lost, restarts>>
  <1> DEFINE d == Open(p)
             n == PositionOf(i, d.pending)
             op == d.pending[n]
             after == Landed(d, op)
             rest == Without(i, Queue(p))
  <1>1. d # None /\ d \in Doc /\ d.pending = Queue(p) /\ i \in Ids(Queue(p))
    BY OpenFacts DEF AcceptPending
  <1>2. Queue(p) \in Seq(Op) /\ InOrder(Queue(p)) /\ Members(Queue(p)) \subseteq Waiting(p)
    BY <1>1, OpenFacts
  <1>3. n \in 1..Len(Queue(p)) /\ op.id = i /\ op \in Op
    BY <1>1, <1>2, PositionFacts
  <1>4. op \in Members(Queue(p))
    BY <1>1, <1>2, <1>3 DEF Members
  <1>5. op.does \notin Rename /\ op.does \in Deed
    BY <1>2, <1>3, <1>4 DEF Separate, Op, Deed
  <1> HIDE DEF n
  <1>6. rest \in Seq(Op)
    BY <1>1, <1>2, WithoutFacts
  <1>7. d.accepted \in Text /\ d.working \in Text \cup {None} /\ d.tomb \in BOOLEAN
    BY <1>1, DocFields
  <1>8. after = [d EXCEPT !.pending = rest, !.accepted = Shown(d.accepted, op.does),
                     !.working = IF d.working = None THEN None ELSE Shown(d.working, op.does)]
    BY <1>1, <1>3 DEF Landed
  <1>9. /\ after \in Doc /\ after.pending = rest /\ after.tomb = d.tomb
        /\ after.accepted = Shown(d.accepted, op.does)
        /\ after.working = IF d.working = None THEN None ELSE Shown(d.working, op.does)
    <2> DEFINE t == Shown(d.accepted, op.does)
               w == IF d.working = None THEN None ELSE Shown(d.working, op.does)
    <2>1. t \in Text /\ w \in Text \cup {None}
      BY <1>5, <1>7, ShownType
    <2>2. after = [d EXCEPT !.pending = rest, !.accepted = t, !.working = w]
      BY <1>8
    <2> HIDE DEF t, w, after, rest, op, d
    <2>3. after \in Doc /\ after.pending = rest /\ after.tomb = d.tomb
          /\ after.accepted = t /\ after.working = w
      BY <1>1, <1>6, <2>1, <2>2 DEF Doc
    <2>4. QED
      BY <2>3 DEF t, w
  <1> HIDE DEF after, op, rest
  <1>10. PathAfter(p, op) = p
    BY <1>5 DEF PathAfter
  <1>11. DiskAfter(p, after, op) = Written(p, after)
    BY <1>5 DEF DiskAfter
  <1>12. /\ \A f : Moved(f, p, p, None) = f /\ Moved(f, p, p, {}) = f
         /\ \A q0 : QueueMoved(q0, p, p) = q0
    BY DEF Moved, QueueMoved
  <1>13. /\ \/ o = "queue_fails" /\ Breaks /\ Store(p, after) /\ UNCHANGED <<disk, queued, typed>>
            \/ /\ o \in {"md_fails", "ok"}
               /\ docs' = [docs EXCEPT ![p] = after]
               /\ queued' = [queued EXCEPT ![p] = after.pending]
               /\ typed' = typed
               /\ \/ o = "ok" /\ Succeeds /\ disk' = Written(p, after)
                  \/ o = "md_fails" /\ Breaks /\ disk' = disk
         /\ ~Blocked(d, op)
         /\ fate' = IF o = "ok" THEN [fate EXCEPT ![i] = "landed"] ELSE fate
         /\ UNCHANGED <<saving, sweep, lost, restarts>>
    BY <1>10, <1>11, <1>12 DEF AcceptPending, after, op, n
  <1>14. docs' = [docs EXCEPT ![p] = after]
    BY <1>13 DEF Store
  <1>15. (IF o = "ok" THEN Succeeds ELSE Breaks)
    BY <1>13
  <1>16. QED
    BY <1>1, <1>3, <1>4, <1>5, <1>9, <1>13, <1>14, <1>15 DEF after, op, n, rest

\* A review accepts an operation: one that fails half way is excused.
LEMMA AcceptStep ==
  ASSUME LTypeOK, Minted, Separate, NEW p \in Path, NEW i \in OpId, NEW o \in {"ok", "queue_fails", "md_fails"},
         AcceptPending(p, i, o)
  PROVE  LTypeOK' /\ Calm /\ (QueuesHeld => QueuesHeld') /\ (DiskIsAccepted => DiskIsAccepted')
  <1> DEFINE d == Open(p)
             op == d.pending[PositionOf(i, d.pending)]
             e == Landed(d, op)
             rest == Without(i, Queue(p))
  <1>1. /\ d # None /\ i \in Ids(Queue(p))
        /\ e \in Doc /\ e.pending = rest
        /\ docs' = [docs EXCEPT ![p] = e]
        /\ \/ o = "queue_fails" /\ UNCHANGED <<disk, queued, typed>>
           \/ /\ o = "md_fails" /\ disk' = disk
              /\ typed' = typed /\ queued' = [queued EXCEPT ![p] = rest]
           \/ /\ o = "ok" /\ disk' = Written(p, e)
              /\ typed' = typed /\ queued' = [queued EXCEPT ![p] = rest]
        /\ IF o = "ok" THEN Succeeds ELSE Breaks
        /\ fate' = IF o = "ok" THEN [fate EXCEPT ![i] = "landed"] ELSE fate
        /\ UNCHANGED <<saving, sweep, lost, restarts>>
    BY AcceptFacts
  <1> HIDE DEF e, op, d
  <1>2. DocsTyped' /\ QueuesTyped' /\ Calm
    <2>1. queued' = queued \/ queued' = [queued EXCEPT ![p] = rest]
      BY <1>1
    <2>2. fate' = fate \/ fate' = [fate EXCEPT ![i] = "landed"]
      BY <1>1
    <2>3. QED
      BY <1>1, <2>1, <2>2, TakenOut DEF d
  <1> HIDE DEF rest
  <1>3. UserTyped'
    BY <1>1, TypeParts DEF UserTyped
  <1>4. /\ faults \in 0..MaxFaults /\ MaxFaults \in Nat
        /\ disk \in [Path -> Text \cup {None}] /\ docs \in [Path -> Doc \cup {None}]
    BY LayeredConstants DEF LTypeOK
  <1>5. e.accepted \in Text /\ e.tomb \in BOOLEAN
    BY <1>1, DocFields
  <1>6. Written(p, e) = IF e.tomb THEN disk ELSE [disk EXCEPT ![p] = e.accepted]
    BY DEF Written
  <1>7. DiskTyped'
    <2>1. disk' \in [Path -> Text \cup {None}]
      BY <1>1, <1>4, <1>5, <1>6
    <2>2. faults' \in 0..MaxFaults
      BY <1>1, <1>4 DEF Succeeds, Breaks
    <2>3. QED
      BY <1>1, <2>1, <2>2, TypeParts DEF DiskTyped
  <1>8. CASE faults' # 0
    BY <1>2, <1>3, <1>7, <1>8, FaultsExcuse, TypeParts
       DEF LTypeOK, DocsTyped, QueuesTyped, UserTyped, DiskTyped
  <1>9. CASE faults' = 0
    <2>1. o = "ok" /\ faults = 0
      BY <1>1, <1>4, <1>9 DEF Succeeds, Breaks
    <2>2. QueuesHeld => QueuesHeld'
      BY <1>1, <2>1, TakenOutHeld DEF d, rest
    <2>3. DiskIsAccepted => DiskIsAccepted'
      <3> SUFFICES ASSUME DiskIsAccepted, NEW r \in Path, docs'[r] # None, ~docs'[r].tomb
                   PROVE  disk'[r] = docs'[r].accepted \/ (lost' > 0 /\ disk'[r] = None)
        BY DEF DiskIsAccepted, Loaded
      <3>1. CASE r = p
        <4>1. docs'[p] = e /\ disk' = [disk EXCEPT ![p] = e.accepted]
          BY <1>1, <1>4, <1>6, <2>1, <3>1
        <4>2. QED
          BY <1>4, <3>1, <4>1
      <3>2. CASE r # p
        <4>1. docs'[r] = docs[r] /\ disk'[r] = disk[r] /\ lost' = lost
          BY <1>1, <1>4, <1>6, <2>1, <3>2
        <4>2. QED
          BY <2>1, <4>1 DEF DiskIsAccepted, Loaded
      <3>3. QED
        BY <3>1, <3>2
    <2>4. QED
      BY <1>2, <1>3, <1>7, <2>2, <2>3, TypeParts
         DEF LTypeOK, DocsTyped, QueuesTyped, UserTyped, DiskTyped
  <1>10. QED
    BY <1>8, <1>9

-----------------------------------------------------------------------------
\* New notes.

\* A note is created, perhaps over a queue that an old one left.
LEMMA CreateStep ==
  ASSUME LTypeOK, Minted, NEW p \in Path, NEW t \in Created, Create(p, t)
  PROVE  /\ LTypeOK' /\ Calm
         /\ Separate /\ QueuesHeld => QueuesHeld'
         /\ DiskIsAccepted => DiskIsAccepted'
  <1> DEFINE e == [accepted |-> t, tomb |-> FALSE, working |-> None, pending |-> <<>>]
  <1>1. /\ Open(p) = None /\ docs' = [docs EXCEPT ![p] = e]
        /\ disk' = [disk EXCEPT ![p] = t]
        /\ fate' = [i \in OpId |-> IF fate[i] = "queued" /\ i \in Ids(queued[p])
                                   THEN "adrift" ELSE fate[i]]
        /\ UNCHANGED <<queued, saving, sweep, typed, faults, lost, restarts>>
    BY DEF Create, Store
  <1>2. t \in Text
    BY LayeredConstants
  <1>3. e \in Doc /\ e.accepted = t /\ e.pending = <<>> /\ e # None
    <2>1. <<>> \in Seq(Op)
      OBVIOUS
    <2>2. e \in Doc
      BY <1>2, <2>1 DEF Doc
    <2>3. QED
      BY <2>2, LayeredConstants
  <1> HIDE DEF e
  <1>4. docs[p] = None
    <2>1. docs[p] # None => Open(p) = docs[p]
      BY DEF Open
    <2>2. QED
      BY <1>1, <2>1
  <1>5. /\ docs \in [Path -> Doc \cup {None}] /\ disk \in [Path -> Text \cup {None}]
        /\ fate \in [OpId -> {"unborn", "queued", "landed", "rejected", "adrift"}]
        /\ queued \in [Path -> Seq(Op)]
    BY DEF LTypeOK
  <1>6. /\ docs'[p] = e /\ disk'[p] = t /\ queued' = queued
        /\ \A r \in Path : r # p => docs'[r] = docs[r] /\ disk'[r] = disk[r]
    BY <1>1, <1>5
  <1>7. DocsTyped' /\ QueuesTyped' /\ UserTyped' /\ DiskTyped'
    <2>1. InOrder(<<>>)
      BY DEF InOrder
    <2>2. DocsTyped'
      BY <1>1, <1>3, <1>5, <1>6, <2>1, TypeParts DEF DocsTyped
    <2>3. QueuesTyped'
      BY <1>1, <1>5 DEF QueuesTyped
    <2>4. UserTyped' /\ DiskTyped'
      BY <1>1, <1>2, <1>5, TypeParts DEF UserTyped, DiskTyped
    <2>5. QED
      BY <2>2, <2>3, <2>4
  <1>8. \A r \in Path : Waiting(r)' \subseteq Waiting(r)
    <2>1. Waiting(p)' \subseteq Waiting(p)
      BY <1>3, <1>6 DEF Waiting, Loaded
    <2>2. \A r \in Path : r # p => Waiting(r)' = Waiting(r)
      BY <1>6 DEF Waiting, Loaded
    <2>3. QED
      BY <2>1, <2>2
  <1>9. Calm
    BY <1>1, <1>6, <1>8 DEF Calm, Minted
  <1>10. DiskIsAccepted => DiskIsAccepted'
    BY <1>1, <1>3, <1>6 DEF DiskIsAccepted, Loaded
  <1>11. ASSUME Separate, QueuesHeld, faults = 0 PROVE QueuesHeld'
    <2>1. \A r \in Path : r # p => \A i \in Named(r) : fate'[i] = fate[i]
      BY <1>1, <1>11, IdsAreNamed DEF Separate
    <2>2. \A op \in Waiting(p) : op.id \in OpId /\ fate[op.id] \in {"queued", "adrift"}
      BY <1>11, WaitingType DEF QueuesHeld, Undecided, Op
    <2>3. \A i \in Ids(queued[p]) : i \in OpId /\ fate[i] \in {"queued", "adrift"}
      BY <2>2 DEF Ids, Waiting
    <2>4. \A i \in Ids(queued[p]) : fate'[i] = "adrift"
      BY <1>1, <2>3
    <2>5. QueueOnDisk'
      <3> SUFFICES ASSUME NEW r \in Path, docs'[r] # None
                   PROVE  \/ queued[r] = docs'[r].pending
                          \/ \E i \in Ids(queued[r]) \cup Ids(docs'[r].pending) : fate'[i] = "adrift"
        BY <1>6 DEF QueueOnDisk, Loaded
      <3>1. CASE r = p /\ queued[p] # <<>>
        <4>1. 1 \in DOMAIN queued[p]
          BY <1>5, <3>1, EmptySeq
        <4>2. queued[p][1].id \in Ids(queued[p])
          BY <4>1 DEF Ids
        <4>3. QED
          BY <2>4, <3>1, <4>2
      <3>2. CASE r = p /\ queued[p] = <<>>
        BY <1>3, <1>6, <3>2
      <3>3. CASE r # p
        <4>1. docs'[r] = docs[r]
          BY <1>6, <3>3
        <4>2. \A i \in Ids(queued[r]) \cup Ids(docs[r].pending) : fate'[i] = fate[i]
          BY <2>1, <3>3, <4>1, IdsAreNamed
        <4>3. QED
          BY <1>11, <4>1, <4>2 DEF QueuesHeld, QueueOnDisk, Loaded
      <3>4. QED
        BY <3>1, <3>2, <3>3
    <2>6. Filed'
      <3> SUFFICES ASSUME NEW i \in OpId, fate'[i] = "queued"
                   PROVE  \E r \in Path : /\ i \in Ids(queued[r])
                                          /\ docs'[r] # None => i \in Ids(docs'[r].pending)
        BY <1>6 DEF Filed, Loaded
      <3>1. fate[i] = "queued"
        BY <1>1
      <3>2. PICK r \in Path : i \in Ids(queued[r]) /\ (docs[r] # None => i \in Ids(docs[r].pending))
        BY <1>11, <3>1 DEF QueuesHeld, Filed, Loaded
      <3>3. r # p
        BY <2>4, <3>2
      <3>4. QED
        BY <1>6, <3>2, <3>3
    <2>7. Undecided'
      <3> SUFFICES ASSUME NEW r \in Path, NEW op \in Waiting(r)'
                   PROVE  fate'[op.id] \in {"queued", "adrift"}
        BY DEF Undecided
      <3>1. op \in Waiting(r) /\ op.id \in OpId
        BY <1>8, WaitingType DEF Op
      <3>2. fate[op.id] \in {"queued", "adrift"}
        BY <1>11, <3>1 DEF QueuesHeld, Undecided
      <3>3. QED
        BY <1>1, <3>1, <3>2
    <2>8. QED
      BY <2>5, <2>6, <2>7 DEF QueuesHeld
  <1>12. Separate /\ QueuesHeld => QueuesHeld'
    BY <1>1, <1>11, FaultsExcuse
  <1>13. QED
    BY <1>7, <1>9, <1>10, <1>12, TypeParts
       DEF LTypeOK, DocsTyped, QueuesTyped, UserTyped, DiskTyped

-----------------------------------------------------------------------------
\* Staging.

\* The ids that are left are the last ones.
LEMMA FreshFacts ==
  ASSUME LTypeOK, Minted, Fresh # {}
  PROVE  /\ FirstFresh \in OpId /\ Cardinality(Fresh) = MaxOps - FirstFresh + 1
         /\ \A i \in OpId : fate[i] = "unborn" <=> FirstFresh <= i
  <1>1. MaxOps \in Nat /\ Fresh \in SUBSET Nat
    BY LayeredConstants DEF Fresh, OpId
  <1>2. \E i \in Fresh : \A j \in Fresh : i <= j
    BY <1>1, HasLeast
  <1>3. FirstFresh \in Fresh /\ \A j \in Fresh : FirstFresh <= j
    BY <1>2 DEF FirstFresh
  <1>4. \A i \in OpId : fate[i] = "unborn" <=> FirstFresh <= i
    <2>1. \A i \in OpId : fate[i] = "unborn" => FirstFresh <= i
      BY <1>3 DEF Fresh
    <2>2. ASSUME NEW i \in OpId, FirstFresh <= i PROVE fate[i] = "unborn"
      <3>1. FirstFresh \in OpId /\ fate[FirstFresh] = "unborn"
        BY <1>3 DEF Fresh
      <3>2. i = FirstFresh \/ FirstFresh < i
        BY <2>2, <3>1, <1>1 DEF OpId
      <3>3. QED
        BY <3>1, <3>2 DEF Minted
    <2>3. QED
      BY <2>1, <2>2
  <1>5. Fresh = FirstFresh..MaxOps
    <2>1. Fresh = {i \in OpId : FirstFresh <= i} /\ FirstFresh \in OpId
      BY <1>3, <1>4 DEF Fresh
    <2>2. QED
      BY <1>1, <2>1 DEF OpId
  <1>6. Cardinality(Fresh) = MaxOps - FirstFresh + 1
    <2>1. FirstFresh \in Int /\ MaxOps \in Int /\ FirstFresh <= MaxOps
      BY <1>1, <1>3 DEF Fresh, OpId
    <2> DEFINE m == FirstFresh
    <2> HIDE DEF m
    <2>2. Cardinality(m..MaxOps) = IF m > MaxOps THEN 0 ELSE MaxOps - m + 1
      BY <2>1, FS_Interval DEF m
    <2>3. QED
      BY <1>5, <2>1, <2>2 DEF m
  <1>7. QED
    BY <1>3, <1>4, <1>6 DEF Fresh

\* The operation that the k-th change becomes.
NewOp(s, cs, needs, k) ==
  [id |-> FirstFresh + k - 1, does |-> cs[k], session |-> s, needs |-> needs[k]]

\* What is appended to a queue: operations with the next ids, in order.
LEMMA AppendedFacts ==
  ASSUME LTypeOK, Minted, Fresh # {}, NEW d \in Doc, InOrder(d.pending),
         \A op \in Members(d.pending) : fate[op.id] # "unborn",
         NEW s \in Session \cup {None}, NEW cs \in Seq(Deed),
         NEW needs \in [DOMAIN cs -> SUBSET OpId], Len(cs) <= Cardinality(Fresh)
  PROVE  /\ Appended(d, s, cs, needs) \in Seq(Op) /\ InOrder(Appended(d, s, cs, needs))
         /\ \A k \in DOMAIN cs : /\ FirstFresh + k - 1 \in OpId
                                 /\ fate[FirstFresh + k - 1] = "unborn"
         /\ Members(Appended(d, s, cs, needs)) =
              Members(d.pending) \cup {NewOp(s, cs, needs, k) : k \in DOMAIN cs}
  <1> DEFINE a == d.pending
             b == [k \in DOMAIN cs |-> NewOp(s, cs, needs, k)]
             n == Len(a)
  <1>1. a \in Seq(Op) /\ n \in Nat /\ DOMAIN a = 1..n
    BY DocFields
  <1>2. Len(cs) \in Nat /\ DOMAIN cs = 1..Len(cs) /\ \A k \in DOMAIN cs : cs[k] \in Deed
    OBVIOUS
  <1>3. /\ FirstFresh \in 1..MaxOps /\ MaxOps \in Nat
        /\ Cardinality(Fresh) = MaxOps - FirstFresh + 1
        /\ \A i \in OpId : fate[i] = "unborn" <=> FirstFresh <= i
    BY FreshFacts, LayeredConstants DEF OpId
  <1>4. \A k \in 1..Len(cs) : FirstFresh + k - 1 \in 1..MaxOps /\ FirstFresh <= FirstFresh + k - 1
    BY <1>2, <1>3
  <1>5. \A k \in DOMAIN cs : /\ FirstFresh + k - 1 \in OpId
                             /\ fate[FirstFresh + k - 1] = "unborn"
    BY <1>2, <1>3, <1>4 DEF OpId
  <1>6. \A k \in DOMAIN cs : NewOp(s, cs, needs, k) \in Op
    BY <1>2, <1>5 DEF NewOp, Op, Deed
  <1>7. b \in Seq(Op) /\ Len(b) = Len(cs)
    <2>1. b \in [1..Len(cs) -> Op]
      BY <1>2, <1>6
    <2> HIDE DEF b
    <2>2. QED
      BY <1>2, <2>1, FunctionIsSeq
  <1>8. Appended(d, s, cs, needs) = a \o b
    BY DEF Appended, NewOp
  <1>9. \A k \in 1..Len(cs) : b[k] = NewOp(s, cs, needs, k) /\ b[k].id = FirstFresh + k - 1
    BY <1>2 DEF NewOp
  <1> HIDE DEF a, b, n
  <1>10. /\ a \o b \in Seq(Op) /\ Len(a \o b) = n + Len(cs)
         /\ \A k \in 1..(n + Len(cs)) : (a \o b)[k] = IF k <= n THEN a[k] ELSE b[k - n]
    <2>1. /\ a \o b \in Seq(Op) /\ Len(a \o b) = Len(a) + Len(b)
          /\ \A k \in 1..(Len(a) + Len(b)) :
               (a \o b)[k] = IF k <= Len(a) THEN a[k] ELSE b[k - Len(a)]
      BY <1>1, <1>7, ConcatProperties
    <2>2. Len(a) = n /\ Len(b) = Len(cs)
      BY <1>7 DEF n
    <2>3. QED
      BY <2>1, <2>2
  <1>11. DOMAIN (a \o b) = 1..(n + Len(cs))
    BY <1>10
  <1>12. \A k \in 1..n : (a \o b)[k] = a[k]
    BY <1>1, <1>2, <1>10
  <1>13. \A k \in 1..Len(cs) : n + k \in 1..(n + Len(cs)) /\ (a \o b)[n + k] = b[k]
    BY <1>1, <1>2, <1>10
  <1>14. \A k \in 1..(n + Len(cs)) : k \in 1..n \/ \E m \in 1..Len(cs) : k = n + m
    <2> SUFFICES ASSUME NEW k \in 1..(n + Len(cs)), k \notin 1..n
                 PROVE  \E m \in 1..Len(cs) : k = n + m
      OBVIOUS
    <2>1. k - n \in 1..Len(cs) /\ k = n + (k - n)
      BY <1>1, <1>2
    <2>2. QED
      BY <2>1
  <1>15. Members(a \o b) = Members(a) \cup {NewOp(s, cs, needs, k) : k \in DOMAIN cs}
    <2>1. ASSUME NEW k \in DOMAIN (a \o b)
          PROVE  (a \o b)[k] \in Members(a) \cup {NewOp(s, cs, needs, m) : m \in DOMAIN cs}
      <3>1. CASE k \in 1..n
        BY <1>1, <1>12, <3>1 DEF Members
      <3>2. CASE k \notin 1..n
        <4>1. PICK m \in 1..Len(cs) : k = n + m
          BY <1>11, <1>14, <3>2
        <4>2. (a \o b)[k] = NewOp(s, cs, needs, m)
          BY <1>9, <1>13, <4>1
        <4>3. QED
          BY <1>2, <4>2
      <3>3. QED
        BY <3>1, <3>2
    <2>2. Members(a) \subseteq Members(a \o b)
      <3>1. \A k \in 1..n : k \in DOMAIN (a \o b) /\ (a \o b)[k] = a[k]
        BY <1>1, <1>2, <1>11, <1>12
      <3>2. QED
        BY <1>1, <3>1 DEF Members
    <2>3. ASSUME NEW k \in DOMAIN cs PROVE NewOp(s, cs, needs, k) \in Members(a \o b)
      <3>1. n + k \in DOMAIN (a \o b) /\ (a \o b)[n + k] = NewOp(s, cs, needs, k)
        BY <1>2, <1>9, <1>11, <1>13
      <3>2. QED
        BY <3>1 DEF Members
    <2>4. QED
      BY <2>1, <2>2, <2>3 DEF Members
  <1>16. InOrder(a \o b)
    <2> DEFINE c == a \o b
    <2>1. \A k \in 1..n : a[k] \in Op /\ a[k] \in Members(a) /\ a[k].id \in OpId
      <3>1. \A k \in 1..n : a[k] \in Op
        BY <1>1
      <3>2. \A k \in 1..n : a[k] \in Members(a)
        BY <1>1 DEF Members
      <3>3. \A op \in Op : op.id \in OpId
        BY DEF Op
      <3>4. QED
        BY <3>1, <3>2, <3>3
    <2>2. \A k \in 1..n : a[k].id < FirstFresh /\ a[k].id \in Nat
      BY <1>3, <2>1 DEF a, OpId
    <2>3. \A j, k \in 1..n : j < k => a[j].id < a[k].id
      BY <1>1 DEF InOrder, a
    <2>4. \A k \in 1..Len(cs) : c[n + k].id = FirstFresh + k - 1
      BY <1>9, <1>13
    <2>5. \A k \in 1..n : c[k].id = a[k].id
      BY <1>12
    <2>6. \A k \in 1..(n + Len(cs)) : \/ k \in 1..n
                                      \/ c[k].id = FirstFresh + (k - n) - 1
      <3> SUFFICES ASSUME NEW k \in 1..(n + Len(cs)), k \notin 1..n
                   PROVE  c[k].id = FirstFresh + (k - n) - 1
        OBVIOUS
      <3>1. PICK m \in 1..Len(cs) : k = n + m
        BY <1>14
      <3>2. c[k].id = FirstFresh + m - 1
        BY <2>4, <3>1
      <3> HIDE DEF c
      <3>3. k - n = m
        BY <1>1, <1>2, <3>1
      <3>4. QED
        BY <3>2, <3>3
    <2>7. DOMAIN c = 1..(n + Len(cs))
      BY <1>11
    <2> HIDE DEF c
    <2>8. \A j, k \in 1..(n + Len(cs)) : j < k => c[j].id < c[k].id
      <3> SUFFICES ASSUME NEW j \in 1..(n + Len(cs)), NEW k \in 1..(n + Len(cs)), j < k
                   PROVE  c[j].id < c[k].id
        OBVIOUS
      <3>1. CASE k \in 1..n
        BY <1>1, <2>3, <2>5, <3>1
      <3>2. CASE k \notin 1..n /\ j \in 1..n
        <4>1. c[k].id = FirstFresh + (k - n) - 1 /\ c[j].id = a[j].id
          BY <2>5, <2>6, <3>2
        <4>2. k - n >= 1 /\ a[j].id < FirstFresh /\ a[j].id \in Nat
          BY <1>1, <1>2, <2>2, <3>2
        <4>3. QED
          BY <1>1, <1>3, <4>1, <4>2
      <3>3. CASE k \notin 1..n /\ j \notin 1..n
        <4>1. c[k].id = FirstFresh + (k - n) - 1 /\ c[j].id = FirstFresh + (j - n) - 1
          BY <2>6, <3>3
        <4>2. QED
          BY <1>1, <1>2, <1>3, <4>1
      <3>4. QED
        BY <3>1, <3>2, <3>3
    <2>9. QED
      BY <2>7, <2>8 DEF InOrder, c
  <1>17. QED
    BY <1>5, <1>8, <1>10, <1>15, <1>16 DEF a

\* The ids and the operations a staging brings.
NewIds(cs) == {FirstFresh + k - 1 : k \in DOMAIN cs}
NewOps(s, cs, needs) == {NewOp(s, cs, needs, k) : k \in DOMAIN cs}

\* What a staging does to the documents and their queues.
StagesFor(p, s, cs, needs, lot) ==
  /\ Open(p) # None /\ Fresh # {} /\ Len(cs) <= Cardinality(Fresh)
  /\ Store(p, [Open(p) EXCEPT !.pending = Appended(Open(p), s, cs, needs)])
  /\ Born(cs, lot)
  /\ \/ queued' = queued
     \/ queued' = [queued EXCEPT ![p] = Appended(Open(p), s, cs, needs)]

\* The state after a staging.
LEMMA StagedFacts ==
  ASSUME LTypeOK, Minted, NEW p \in Path, NEW s \in Session \cup {None},
         NEW cs \in Seq(Deed), NEW needs \in [DOMAIN cs -> SUBSET Ids(Queue(p))],
         NEW lot \in {"queued", "adrift"}, StagesFor(p, s, cs, needs, lot)
  PROVE  LET a == Appended(Open(p), s, cs, needs)
             new == NewIds(cs)
             ops == NewOps(s, cs, needs)
         IN  /\ a \in Seq(Op) /\ InOrder(a) /\ Members(a) = Members(Queue(p)) \cup ops
             /\ Ids(a) = Ids(Queue(p)) \cup new
             /\ ops \subseteq Op /\ new \subseteq OpId /\ \A i \in new : fate[i] = "unborn"
             /\ \A op \in ops : op.id \in new /\ op.needs \subseteq Ids(Queue(p)) /\
                                \E k \in DOMAIN cs : op.does = cs[k]
             /\ fate' = [i \in OpId |-> IF i \in new THEN lot ELSE fate[i]]
             /\ \A i \in OpId : fate'[i] = "unborn" => fate[i] = "unborn"
             /\ \A i, j \in OpId : i < j /\ fate'[j] # "unborn" => fate'[i] # "unborn"
             /\ docs'[p] # None /\ docs'[p] \in Doc /\ docs'[p].pending = a
             /\ docs' = [docs EXCEPT ![p] = docs'[p]]
             /\ docs'[p].accepted = Open(p).accepted /\ docs'[p].tomb = Open(p).tomb
             /\ docs'[p].working = Open(p).working
             /\ \A r \in Path : r # p => docs'[r] = docs[r] /\ queued'[r] = queued[r]
             /\ queued' = queued \/ (queued' = [queued EXCEPT ![p] = a] /\ queued'[p] = a)
  <1> DEFINE d == Open(p)
             a == Appended(d, s, cs, needs)
             e == [d EXCEPT !.pending = a]
             new == NewIds(cs)
             ops == NewOps(s, cs, needs)
  <1>1. d # None /\ d \in Doc /\ d.pending = Queue(p) /\ InOrder(Queue(p))
        /\ Queue(p) \in Seq(Op) /\ Members(Queue(p)) \subseteq Waiting(p)
    BY OpenFacts DEF StagesFor
  <1>2. Ids(Queue(p)) \subseteq OpId
    BY IdsAreNamed
  <1>3. \A op \in Members(d.pending) : fate[op.id] # "unborn"
    BY <1>1, IdsAreNamed DEF Minted, Named
  <1>4. needs \in [DOMAIN cs -> SUBSET OpId]
    BY <1>2
  <1>5. /\ a \in Seq(Op) /\ InOrder(a)
        /\ \A k \in DOMAIN cs : FirstFresh + k - 1 \in OpId /\ fate[FirstFresh + k - 1] = "unborn"
        /\ Members(a) = Members(Queue(p)) \cup ops
    <2>1. Fresh # {} /\ Len(cs) <= Cardinality(Fresh) /\ InOrder(d.pending)
      BY <1>1 DEF StagesFor
    <2> HIDE DEF d
    <2>2. /\ a \in Seq(Op) /\ InOrder(a)
          /\ \A k \in DOMAIN cs : FirstFresh + k - 1 \in OpId /\ fate[FirstFresh + k - 1] = "unborn"
          /\ Members(a) = Members(d.pending) \cup {NewOp(s, cs, needs, k) : k \in DOMAIN cs}
      BY <1>1, <1>3, <1>4, <2>1, AppendedFacts
    <2>3. QED
      BY <1>1, <2>2 DEF NewOps
  <1>6. /\ Store(p, e) /\ Born(cs, lot)
        /\ queued' = queued \/ queued' = [queued EXCEPT ![p] = a]
    BY DEF StagesFor
  <1>7. \A op \in ops : op.id \in new /\ op.needs \subseteq Ids(Queue(p))
                        /\ \E k \in DOMAIN cs : op.does = cs[k]
    BY DEF NewOp, NewOps, NewIds
  <1>8. new \subseteq OpId /\ \A i \in new : fate[i] = "unborn"
    BY <1>5 DEF NewIds
  <1>9. ops \subseteq Op
    <2>1. \A k \in DOMAIN cs : cs[k] \in Deed
      OBVIOUS
    <2>2. QED
      BY <1>4, <1>5, <2>1 DEF NewOp, NewOps, Op, Deed
  <1>10. Ids(a) = Ids(Queue(p)) \cup new
    <2>1. \A q : Ids(q) = {op.id : op \in Members(q)}
      BY DEF Ids, Members
    <2>2. {op.id : op \in ops} = new
      <3>1. \A k \in DOMAIN cs : NewOp(s, cs, needs, k).id = FirstFresh + k - 1
        BY DEF NewOp
      <3>2. QED
        BY <3>1 DEF NewOps, NewIds
    <2> HIDE DEF a
    <2>3. QED
      BY <1>5, <2>1, <2>2
  <1> HIDE DEF a
  <1>11. /\ e \in Doc /\ e.pending = a /\ e.accepted = d.accepted /\ e.tomb = d.tomb
         /\ e.working = d.working
    <2>1. /\ e \in Doc
          /\ e = [accepted |-> d.accepted, tomb |-> d.tomb,
                  working |-> d.working, pending |-> a]
      BY <1>1, <1>5, DocEdits
    <2> HIDE DEF e
    <2>2. QED
      BY <2>1
  <1> HIDE DEF e
  <1>12. /\ docs \in [Path -> Doc \cup {None}] /\ queued \in [Path -> Seq(Op)]
         /\ docs' = [docs EXCEPT ![p] = e]
    BY <1>6 DEF LTypeOK, Store
  <1>13. /\ docs'[p] = e /\ e # None
         /\ \A r \in Path : r # p => docs'[r] = docs[r] /\ queued'[r] = queued[r]
         /\ queued' = queued \/ (queued' = [queued EXCEPT ![p] = a] /\ queued'[p] = a)
    BY <1>6, <1>11, <1>12, DocFields
  <1>14. fate' = [i \in OpId |-> IF i \in new THEN lot ELSE fate[i]]
    BY <1>6 DEF Born, NewIds
  <1>15. \A i \in OpId : fate'[i] = "unborn" => fate[i] = "unborn"
    BY <1>14
  <1>16. \A i, j \in OpId : i < j /\ fate'[j] # "unborn" => fate'[i] # "unborn"
    <2> SUFFICES ASSUME NEW i \in OpId, NEW j \in OpId, i < j, fate'[j] # "unborn",
                        fate'[i] = "unborn"
                 PROVE  FALSE
      OBVIOUS
    <2>1. i \notin new /\ fate[i] = "unborn"
      BY <1>14
    <2>2. fate[j] = "unborn"
      BY <2>1 DEF Minted
    <2>3. j \in new
      BY <1>14, <2>2
    <2>4. PICK k \in DOMAIN cs : j = FirstFresh + k - 1
      BY <2>3 DEF NewIds
    <2>5. FirstFresh \in OpId /\ FirstFresh <= i
      BY <2>1, FreshFacts DEF StagesFor
    <2>6. DOMAIN cs = 1..Len(cs) /\ Len(cs) \in Nat /\ OpId = 1..MaxOps /\ MaxOps \in Nat
      BY LayeredConstants DEF OpId
    <2>7. i - FirstFresh + 1 \in DOMAIN cs /\ i = FirstFresh + (i - FirstFresh + 1) - 1
      BY <2>4, <2>5, <2>6
    <2>8. i \in new
      BY <2>7 DEF NewIds
    <2>9. QED
      BY <2>1, <2>8
  <1>17. QED
    BY <1>5, <1>7, <1>8, <1>9, <1>10, <1>11, <1>12, <1>13, <1>14, <1>15, <1>16 DEF a

\* A staging keeps types, order and the documents apart.
LEMMA StagedTyped ==
  ASSUME LTypeOK, Minted, NEW p \in Path, NEW s \in Session \cup {None},
         NEW cs \in Seq(Deed), NEW needs \in [DOMAIN cs -> SUBSET Ids(Queue(p))],
         NEW lot \in {"queued", "adrift"}, StagesFor(p, s, cs, needs, lot)
  PROVE  /\ DocsTyped' /\ QueuesTyped' /\ Minted'
         /\ disk' = disk => TextsStay
         /\ typed' = typed => WorkingStays
         /\ Separate /\ (\A k \in DOMAIN cs : cs[k] \notin Rename) => Separate'
  <1> DEFINE a == Appended(Open(p), s, cs, needs)
             new == NewIds(cs)
             ops == NewOps(s, cs, needs)
  <1>1. /\ a \in Seq(Op) /\ InOrder(a) /\ Members(a) = Members(Queue(p)) \cup ops
        /\ Ids(a) = Ids(Queue(p)) \cup new
        /\ ops \subseteq Op /\ new \subseteq OpId /\ \A i \in new : fate[i] = "unborn"
        /\ \A op \in ops : op.id \in new /\ op.needs \subseteq Ids(Queue(p)) /\
                           \E k \in DOMAIN cs : op.does = cs[k]
        /\ fate' = [i \in OpId |-> IF i \in new THEN lot ELSE fate[i]]
        /\ \A i \in OpId : fate'[i] = "unborn" => fate[i] = "unborn"
        /\ \A i, j \in OpId : i < j /\ fate'[j] # "unborn" => fate'[i] # "unborn"
        /\ docs'[p] # None /\ docs'[p] \in Doc /\ docs'[p].pending = a
        /\ docs' = [docs EXCEPT ![p] = docs'[p]]
        /\ docs'[p].accepted = Open(p).accepted /\ docs'[p].tomb = Open(p).tomb
        /\ docs'[p].working = Open(p).working
        /\ \A r \in Path : r # p => docs'[r] = docs[r] /\ queued'[r] = queued[r]
        /\ queued' = queued \/ (queued' = [queued EXCEPT ![p] = a] /\ queued'[p] = a)
    BY StagedFacts
  <1> HIDE DEF a
  <1>2. /\ docs \in [Path -> Doc \cup {None}] /\ queued \in [Path -> Seq(Op)]
        /\ fate \in [OpId -> {"unborn", "queued", "landed", "rejected", "adrift"}]
        /\ \A r \in Path : docs[r] # None => InOrder(docs[r].pending)
        /\ \A r \in Path : InOrder(queued[r])
    BY DEF LTypeOK, Minted
  <1>3. DocsTyped'
    <2>1. docs' \in [Path -> Doc \cup {None}]
      BY <1>1, <1>2
    <2>2. \A r \in Path : docs'[r] # None => InOrder(docs'[r].pending)
      BY <1>1, <1>2
    <2>3. QED
      BY <2>1, <2>2 DEF DocsTyped
  <1>4. QueuesTyped'
    BY <1>1, <1>2 DEF QueuesTyped
  <1>5. /\ Waiting(p)' \subseteq Waiting(p) \cup ops
        /\ \A r \in Path : r # p => Waiting(r)' = Waiting(r)
    <2>1. Waiting(p)' = Members(queued'[p]) \cup Members(a)
      BY <1>1 DEF Waiting, Loaded, Members
    <2>2. Members(queued[p]) \subseteq Waiting(p) /\ Members(Queue(p)) \subseteq Waiting(p)
      BY DEF Waiting, Members, Queue, Loaded
    <2>3. queued'[p] = queued[p] \/ queued'[p] = a
      BY <1>1
    <2>4. \A r \in Path : r # p => Waiting(r)' = Waiting(r)
      BY <1>1 DEF Waiting, Loaded
    <2>5. QED
      BY <1>1, <2>1, <2>2, <2>3, <2>4
  <1>6. /\ Named(p)' \subseteq Named(p) \cup new
        /\ \A r \in Path : r # p => Named(r)' = Named(r)
    <2>1. Ids(Queue(p)) \subseteq Named(p)
      BY IdsAreNamed
    <2>2. \A op \in ops : {op.id} \cup op.needs \subseteq Named(p) \cup new
      BY <1>1, <2>1
    <2>3. \A op \in Waiting(p) : {op.id} \cup op.needs \subseteq Named(p)
      BY DEF Named
    <2>4. QED
      BY <1>5, <2>2, <2>3 DEF Named
  <1>7. \A r \in Path : Named(r) \subseteq OpId
    BY IdsAreNamed
  <1>8. \A i \in new : fate'[i] # "unborn"
    BY <1>1
  <1>9. Minted'
    <2>1. \A r \in Path : \A i \in Named(r)' : fate'[i] # "unborn"
      BY <1>1, <1>6, <1>7, <1>8 DEF Minted
    <2>2. \A r \in Path : InOrder(queued'[r])
      BY <1>1, <1>2
    <2>3. QED
      BY <1>1, <2>1, <2>2 DEF Minted
  <1>10. disk' = disk => TextsStay
    <2>1. Open(p) # None
      BY DEF StagesFor
    <2>2. \A r \in Path : r # p /\ docs'[r] # None => Open(r) = docs'[r]
      BY <1>1 DEF Open
    <2>3. QED
      BY <1>1, <2>1, <2>2 DEF TextsStay
  <1>11. ASSUME Separate, \A k \in DOMAIN cs : cs[k] \notin Rename PROVE Separate'
    <2>1. \A r \in Path : Named(r) \cap new = {}
      BY <1>1 DEF Minted
    <2>2. \A q, r \in Path : q # r => Named(q)' \cap Named(r)' = {}
      BY <1>6, <1>11, <2>1 DEF Separate
    <2>3. \A r \in Path : \A op \in Waiting(r)' : op.does \notin Rename
      BY <1>1, <1>5, <1>11 DEF Separate
    <2>4. QED
      BY <2>2, <2>3 DEF Separate
  <1>12. typed' = typed => WorkingStays
    <2>1. docs[p] # None => Open(p) = docs[p]
      BY DEF Open
    <2>2. docs[p] = None => Open(p).working = None
      BY DEF Open, StagesFor
    <2>3. QED
      BY <1>1, <2>1, <2>2 DEF WorkingStays
  <1>13. QED
    BY <1>3, <1>4, <1>9, <1>10, <1>11, <1>12

\* What a staging leaves the queues with: saved when it succeeded, and adrift
\* when it ended with an error.
LEMMA StagedHeld ==
  ASSUME LTypeOK, Minted, NEW p \in Path, NEW s \in Session \cup {None},
         NEW cs \in Seq(Deed), NEW needs \in [DOMAIN cs -> SUBSET Ids(Queue(p))],
         NEW lot \in {"queued", "adrift"}, StagesFor(p, s, cs, needs, lot),
         Separate, QueuesHeld, faults = 0,
         IF lot = "queued" THEN queued' = [queued EXCEPT ![p] = Appended(Open(p), s, cs, needs)]
                           ELSE queued' = queued
  PROVE  QueuesHeld'
  <1> DEFINE a == Appended(Open(p), s, cs, needs)
             new == NewIds(cs)
             ops == NewOps(s, cs, needs)
  <1>1. /\ a \in Seq(Op) /\ InOrder(a) /\ Members(a) = Members(Queue(p)) \cup ops
        /\ Ids(a) = Ids(Queue(p)) \cup new
        /\ ops \subseteq Op /\ new \subseteq OpId /\ \A i \in new : fate[i] = "unborn"
        /\ \A op \in ops : op.id \in new /\ op.needs \subseteq Ids(Queue(p)) /\
                           \E k \in DOMAIN cs : op.does = cs[k]
        /\ fate' = [i \in OpId |-> IF i \in new THEN lot ELSE fate[i]]
        /\ \A i \in OpId : fate'[i] = "unborn" => fate[i] = "unborn"
        /\ \A i, j \in OpId : i < j /\ fate'[j] # "unborn" => fate'[i] # "unborn"
        /\ docs'[p] # None /\ docs'[p] \in Doc /\ docs'[p].pending = a
        /\ docs' = [docs EXCEPT ![p] = docs'[p]]
        /\ docs'[p].accepted = Open(p).accepted /\ docs'[p].tomb = Open(p).tomb
        /\ \A r \in Path : r # p => docs'[r] = docs[r] /\ queued'[r] = queued[r]
        /\ queued' = queued \/ (queued' = [queued EXCEPT ![p] = a] /\ queued'[p] = a)
    BY StagedFacts
  <1>2. IF lot = "queued" THEN queued' = [queued EXCEPT ![p] = a] ELSE queued' = queued
    OBVIOUS
  <1>3. cs = <<>> => a = Queue(p)
    <2> SUFFICES ASSUME cs = <<>> PROVE a = Queue(p)
      OBVIOUS
    <2>1. Open(p).pending = Queue(p) /\ Queue(p) \in Seq(Op)
      BY OpenFacts DEF StagesFor
    <2>2. [k \in DOMAIN cs |-> NewOp(s, cs, needs, k)] = <<>>
      OBVIOUS
    <2>3. a = Queue(p) \o <<>>
      BY <2>1, <2>2 DEF Appended, NewOp
    <2>4. QED
      BY <2>1, <2>3, ConcatEmptySeq
  <1> HIDE DEF a
  <1>4. queued \in [Path -> Seq(Op)]
    BY DEF LTypeOK
  <1>5. queued'[p] = IF lot = "queued" THEN a ELSE queued[p]
    BY <1>2, <1>4
  <1>6. \A r \in Path : Named(r) \subseteq OpId /\ Named(r) \cap new = {}
    BY <1>1, IdsAreNamed DEF Minted
  <1>7. \A i \in OpId : i \notin new => fate'[i] = fate[i]
    BY <1>1
  <1>8. \A r \in Path : \A i \in Named(r) : fate'[i] = fate[i]
    BY <1>6, <1>7
  <1>9. \A r \in Path : /\ Ids(queued[r]) \subseteq Named(r)
                        /\ docs[r] # None => Ids(docs[r].pending) \subseteq Named(r)
    BY IdsAreNamed
  <1>10. QueueOnDisk'
    <2> SUFFICES ASSUME NEW r \in Path, docs'[r] # None
                 PROVE  \/ queued'[r] = docs'[r].pending
                        \/ \E i \in Ids(queued'[r]) \cup Ids(docs'[r].pending) : fate'[i] = "adrift"
      BY DEF QueueOnDisk, Loaded
    <2>1. CASE r = p /\ lot = "queued"
      BY <1>1, <1>5, <2>1
    <2>2. CASE r = p /\ lot # "queued" /\ cs # <<>>
      <3>1. 1 \in DOMAIN cs
        BY <2>2, EmptySeq
      <3>2. FirstFresh + 1 - 1 \in new
        BY <3>1 DEF NewIds
      <3>3. \A i \in new : fate'[i] = "adrift" /\ i \in Ids(docs'[p].pending)
        BY <1>1, <2>2
      <3>4. QED
        BY <2>2, <3>2, <3>3
    <2>3. CASE r = p /\ lot # "queued" /\ cs = <<>>
      <3>1. docs'[p].pending = Queue(p) /\ queued'[p] = queued[p]
        BY <1>1, <1>3, <1>5, <2>3
      <3>2. CASE docs[p] = None
        BY <2>3, <3>1, <3>2 DEF Queue
      <3>3. CASE docs[p] # None
        <4>1. docs'[p].pending = docs[p].pending
          BY <3>1, <3>3 DEF Queue
        <4>2. \/ queued[p] = docs[p].pending
              \/ \E i \in Ids(queued[p]) \cup Ids(docs[p].pending) : fate[i] = "adrift"
          BY <3>3 DEF QueuesHeld, QueueOnDisk, Loaded
        <4>3. \A i \in Ids(queued[p]) \cup Ids(docs[p].pending) : fate'[i] = fate[i]
          BY <1>8, <1>9, <3>3
        <4>4. QED
          BY <2>3, <3>1, <4>1, <4>2, <4>3
      <3>4. QED
        BY <3>2, <3>3
    <2>4. CASE r # p
      <3>1. docs'[r] = docs[r] /\ queued'[r] = queued[r]
        BY <1>1, <2>4
      <3>2. \/ queued[r] = docs[r].pending
            \/ \E i \in Ids(queued[r]) \cup Ids(docs[r].pending) : fate[i] = "adrift"
        BY <3>1 DEF QueuesHeld, QueueOnDisk, Loaded
      <3>3. \A i \in Ids(queued[r]) \cup Ids(docs[r].pending) : fate'[i] = fate[i]
        BY <1>8, <1>9, <3>1
      <3>4. QED
        BY <3>1, <3>2, <3>3
    <2>5. QED
      BY <2>1, <2>2, <2>3, <2>4
  <1>11. Filed'
    <2> SUFFICES ASSUME NEW i \in OpId, fate'[i] = "queued"
                 PROVE  \E r \in Path : /\ i \in Ids(queued'[r])
                                        /\ docs'[r] # None => i \in Ids(docs'[r].pending)
      BY DEF Filed, Loaded
    <2>1. CASE i \in new
      <3>1. lot = "queued"
        BY <1>1, <2>1
      <3>2. QED
        BY <1>1, <1>5, <2>1, <3>1
    <2>2. CASE i \notin new
      <3>1. fate[i] = "queued"
        BY <1>7, <2>2
      <3>2. PICK r \in Path : i \in Ids(queued[r]) /\ (docs[r] # None => i \in Ids(docs[r].pending))
        BY <3>1 DEF QueuesHeld, Filed, Loaded
      <3>3. CASE r = p
        <4>1. i \in Ids(Queue(p))
          BY <3>2, <3>3 DEF Queue
        <4>2. i \in Ids(a)
          BY <1>1, <4>1
        <4>3. i \in Ids(queued'[p])
          BY <1>5, <3>2, <3>3, <4>2
        <4>4. QED
          BY <1>1, <4>2, <4>3
      <3>4. CASE r # p
        BY <1>1, <3>2, <3>4
      <3>5. QED
        BY <3>3, <3>4
    <2>3. QED
      BY <2>1, <2>2
  <1>12. Undecided'
    <2> SUFFICES ASSUME NEW r \in Path, NEW op \in Waiting(r)'
                 PROVE  fate'[op.id] \in {"queued", "adrift"}
      BY DEF Undecided
    <2>1. \A q \in Path : \A o \in Waiting(q) : fate'[o.id] \in {"queued", "adrift"}
      <3>1. \A q \in Path : \A o \in Waiting(q) : o.id \in Named(q)
        BY DEF Named
      <3>2. QED
        BY <1>8, <3>1 DEF QueuesHeld, Undecided
    <2>2. \A o \in ops : fate'[o.id] = lot
      BY <1>1
    <2>3. Waiting(r)' \subseteq Waiting(r) \cup ops
      <3>1. CASE r = p
        <4>1. Waiting(p)' = Members(queued'[p]) \cup Members(a)
          BY <1>1 DEF Waiting, Loaded, Members
        <4>2. Members(queued[p]) \subseteq Waiting(p) /\ Members(Queue(p)) \subseteq Waiting(p)
          BY DEF Waiting, Members, Queue, Loaded
        <4>3. queued'[p] = queued[p] \/ queued'[p] = a
          BY <1>5
        <4>4. QED
          BY <1>1, <3>1, <4>1, <4>2, <4>3
      <3>2. CASE r # p
        BY <1>1, <3>2 DEF Waiting, Loaded
      <3>3. QED
        BY <3>1, <3>2
    <2>4. QED
      BY <2>1, <2>2, <2>3
  <1>13. QED
    BY <1>10, <1>11, <1>12 DEF QueuesHeld

\* What of a batch is staged: some of its first edits.
LEMMA ReachedFacts ==
  ASSUME NEW p \in Path, NEW d, NEW s, NEW batch \in Batches
  PROVE  /\ Staged(d, s, batch) \in Seq(Replace \cup Rewrite)
         /\ \A k \in DOMAIN Staged(d, s, batch) : Staged(d, s, batch)[k] \in Replace \cup Rewrite
  <1> DEFINE bad == {k \in DOMAIN batch : ~Anchored(d, s, batch[k])}
             S == Replace \cup Rewrite
  <1>1. batch \in Seq(S)
    <2>1. CASE batch \in Seq(Replace)
      <3>1. Len(batch) \in Nat /\ batch \in [1..Len(batch) -> Replace]
        BY <2>1
      <3>2. batch \in [1..Len(batch) -> S]
        BY <3>1
      <3> HIDE DEF S
      <3>3. QED
        BY <3>1, <3>2, FunctionIsSeq
    <2>2. CASE batch \in {<<c>> : c \in Rewrite}
      <3>1. PICK c \in Rewrite : batch = <<c>>
        BY <2>2
      <3>2. c \in S
        OBVIOUS
      <3> HIDE DEF S
      <3>3. QED
        BY <3>1, <3>2
    <2>3. QED
      BY <2>1, <2>2, LayeredConstants
  <1> HIDE DEF S
  <1>2. Reached(d, s, batch) \in Seq(S)
    <2>1. CASE bad = {}
      BY <1>1, <2>1 DEF Reached
    <2>2. CASE bad # {}
      <3>1. bad \in SUBSET Nat /\ DOMAIN batch = 1..Len(batch) /\ Len(batch) \in Nat
        BY <1>1
      <3>2. \E k \in bad : \A j \in bad : k <= j
        BY <2>2, <3>1, HasLeast
      <3> DEFINE m == CHOOSE k \in bad : \A j \in bad : k <= j
      <3>3. m \in bad
        BY <3>2
      <3>4. Reached(d, s, batch) = SubSeq(batch, 1, m - 1)
        BY <2>2 DEF Reached
      <3>5. m \in 1..Len(batch)
        BY <3>1, <3>3
      <3> HIDE DEF m
      <3>6. \A i \in 1..(m - 1) : batch[i] \in S
        BY <1>1, <3>1, <3>5
      <3>7. SubSeq(batch, 1, m - 1) \in Seq(S)
        BY <1>1, <3>1, <3>5, SubSeqProperties
      <3>8. QED
        BY <3>4, <3>7
    <2>3. QED
      BY <2>1, <2>2
  <1>3. <<>> \in Seq(S)
    OBVIOUS
  <1>4. Staged(d, s, batch) \in Seq(S)
    BY <1>2, <1>3 DEF Staged
  <1>5. \A cs \in Seq(S) : \A k \in DOMAIN cs : cs[k] \in S
    OBVIOUS
  <1>6. QED
    BY <1>4, <1>5 DEF S

\* A producer's step: types, order, separation and the queues.
LEMMA StagedStep ==
  ASSUME LTypeOK, Minted, NEW p \in Path, NEW s \in Session \cup {None},
         NEW cs \in Seq(Deed), NEW needs \in [DOMAIN cs -> SUBSET Ids(Queue(p))],
         NEW lot \in {"queued", "adrift"}, StagesFor(p, s, cs, needs, lot),
         \A k \in DOMAIN cs : cs[k] \notin Rename,
         UNCHANGED <<disk, saving, sweep, typed, lost, restarts>>,
         \/ /\ lot = "queued" /\ Succeeds
            /\ queued' = [queued EXCEPT ![p] = Appended(Open(p), s, cs, needs)]
         \/ lot = "queued" /\ Breaks /\ queued' = queued
         \/ lot = "adrift" /\ Succeeds /\ queued' = queued
  PROVE  /\ LTypeOK' /\ Minted' /\ (Separate => Separate') /\ TextsStay
         /\ WorkingStays
         /\ Separate /\ QueuesHeld => QueuesHeld'
  <1>1. /\ DocsTyped' /\ QueuesTyped' /\ Minted' /\ TextsStay /\ (Separate => Separate')
        /\ WorkingStays
    BY StagedTyped
  <1>2. faults \in 0..MaxFaults /\ MaxFaults \in Nat
    BY LayeredConstants DEF LTypeOK
  <1>3. UserTyped' /\ DiskTyped'
    BY <1>2, TypeParts DEF UserTyped, DiskTyped, Succeeds, Breaks
  <1>4. ASSUME Separate, QueuesHeld PROVE QueuesHeld'
    <2>1. CASE faults' # 0
      BY <2>1, FaultsExcuse
    <2>2. CASE faults' = 0
      <3>1. faults = 0 /\ ~Breaks
        BY <1>2, <2>2 DEF Succeeds, Breaks
      <3>2. IF lot = "queued" THEN queued' = [queued EXCEPT ![p] = Appended(Open(p), s, cs, needs)]
                              ELSE queued' = queued
        BY <3>1
      <3>3. QED
        BY <1>4, <3>1, <3>2, StagedHeld
    <2>3. QED
      BY <2>1, <2>2
  <1>5. QED
    BY <1>1, <1>3, <1>4, TypeParts DEF LTypeOK, DocsTyped, QueuesTyped, UserTyped, DiskTyped

\* Somebody stages operations of some kinds at p, and saves its queue; a batch
\* that ended with an error is not saved.
Stages(p, kinds) ==
  \E s \in Session \cup {None}, lot \in {"queued", "adrift"}, cs \in Seq(Deed) :
    \E needs \in [DOMAIN cs -> SUBSET Ids(Queue(p))] :
      /\ \A k \in DOMAIN cs : cs[k] \in kinds
      /\ StagesFor(p, s, cs, needs, lot)
      /\ UNCHANGED <<disk, saving, sweep, typed, lost, restarts>>
      /\ \/ /\ lot = "queued" /\ Succeeds
            /\ queued' = [queued EXCEPT ![p] = Appended(Open(p), s, cs, needs)]
         \/ lot = "queued" /\ Breaks /\ queued' = queued
         \/ lot = "adrift" /\ Succeeds /\ queued' = queued

\* Edits that are staged are no renames.
LEMMA StagesStep ==
  ASSUME LTypeOK, Minted, NEW p \in Path, Stages(p, Replace \cup Rewrite)
  PROVE  /\ LTypeOK' /\ Minted' /\ (Separate => Separate') /\ TextsStay
         /\ WorkingStays
         /\ Separate /\ QueuesHeld => QueuesHeld'
  <1>1. PICK s \in Session \cup {None}, lot \in {"queued", "adrift"}, cs \in Seq(Deed) :
          \E needs \in [DOMAIN cs -> SUBSET Ids(Queue(p))] :
            /\ \A k \in DOMAIN cs : cs[k] \in Replace \cup Rewrite
            /\ StagesFor(p, s, cs, needs, lot)
            /\ UNCHANGED <<disk, saving, sweep, typed, lost, restarts>>
            /\ \/ /\ lot = "queued" /\ Succeeds
                  /\ queued' = [queued EXCEPT ![p] = Appended(Open(p), s, cs, needs)]
               \/ lot = "queued" /\ Breaks /\ queued' = queued
               \/ lot = "adrift" /\ Succeeds /\ queued' = queued
    BY DEF Stages
  <1>2. PICK needs \in [DOMAIN cs -> SUBSET Ids(Queue(p))] :
          /\ \A k \in DOMAIN cs : cs[k] \in Replace \cup Rewrite
          /\ StagesFor(p, s, cs, needs, lot)
          /\ UNCHANGED <<disk, saving, sweep, typed, lost, restarts>>
          /\ \/ /\ lot = "queued" /\ Succeeds
                /\ queued' = [queued EXCEPT ![p] = Appended(Open(p), s, cs, needs)]
             \/ lot = "queued" /\ Breaks /\ queued' = queued
             \/ lot = "adrift" /\ Succeeds /\ queued' = queued
    BY <1>1
  <1>3. \A k \in DOMAIN cs : cs[k] \notin Rename
    BY <1>2, KindsApart
  <1>4. QED
    BY <1>2, <1>3, StagedStep

\* An agent stages a batch, all of it or its first edits.
LEMMA PendingStages ==
  ASSUME LTypeOK, Minted, NEW p \in Path, NEW s \in Session, NEW batch \in Batches,
         StagePending(p, s, batch)
  PROVE  Stages(p, Replace \cup Rewrite)
  <1> DEFINE d == Open(p)
             cs == Staged(d, s, batch)
             needs == [k \in DOMAIN cs |-> Needs(d, s, cs[k])]
             lot == IF Reached(d, s, batch) = batch THEN "queued" ELSE "adrift"
  <1>1. /\ d # None /\ Fresh # {} /\ Len(cs) <= Cardinality(Fresh)
        /\ Store(p, [d EXCEPT !.pending = Appended(d, s, cs, needs)])
        /\ Born(cs, lot)
        /\ IF lot = "queued" THEN \E ok \in BOOLEAN : SaveQueue(p, Appended(d, s, cs, needs), ok)
                             ELSE Succeeds /\ queued' = queued
        /\ UNCHANGED <<disk, saving, sweep, typed, lost, restarts>>
    BY DEF StagePending
  <1>2. cs \in Seq(Replace \cup Rewrite) /\ \A k \in DOMAIN cs : cs[k] \in Replace \cup Rewrite
    BY ReachedFacts
  <1>3. d.pending = Queue(p) /\ Queue(p) \in Seq(Op)
    BY <1>1, OpenFacts
  <1>4. \A c : Needs(d, s, c) \subseteq Ids(Queue(p))
    BY <1>3 DEF Needs, Ids
  <1>5. needs \in [DOMAIN cs -> SUBSET Ids(Queue(p))]
    BY <1>4
  <1>6. lot \in {"queued", "adrift"}
    OBVIOUS
  <1> HIDE DEF cs, needs, lot, d
  <1>7. cs \in Seq(Deed)
    <2>1. Len(cs) \in Nat /\ cs \in [1..Len(cs) -> Replace \cup Rewrite]
      BY <1>2
    <2>2. cs \in [1..Len(cs) -> Deed]
      BY <2>1 DEF Deed
    <2>3. QED
      BY <2>1, <2>2, FunctionIsSeq
  <1>8. \A k \in DOMAIN cs : cs[k] \in Replace \cup Rewrite
    BY <1>2
  <1>9. \/ /\ lot = "queued" /\ Succeeds
           /\ queued' = [queued EXCEPT ![p] = Appended(d, s, cs, needs)]
        \/ lot = "queued" /\ Breaks /\ queued' = queued
        \/ lot = "adrift" /\ Succeeds /\ queued' = queued
    BY <1>1, <1>6 DEF SaveQueue
  <1>10. StagesFor(p, s, cs, needs, lot)
    BY <1>1, <1>9 DEF StagesFor, d
  <1>11. QED
    BY <1>1, <1>5, <1>6, <1>7, <1>8, <1>9, <1>10 DEF Stages, d

\* A producer stages a whole text.
LEMMA ContentStages ==
  ASSUME LTypeOK, Minted, NEW p \in Path, NEW t \in Contents, StageContent(p, t)
  PROVE  Stages(p, Replace \cup Rewrite)
  <1> DEFINE c == [text |-> t]
             cs == <<c>>
             needs == <<{}>>
             a == Appended(Open(p), None, cs, needs)
  <1>1. c \in Rewrite
    BY LayeredConstants DEF Rewrite
  <1> HIDE DEF c
  <1>2. StageOne(p, c)
    BY DEF StageContent, c
  <1>3. c \in Deed
    BY <1>1 DEF Deed
  <1>4. cs \in Seq(Deed) /\ Len(cs) = 1 /\ DOMAIN cs = {1} /\ cs[1] = c
    BY <1>3
  <1>5. needs \in [DOMAIN cs -> SUBSET Ids(Queue(p))]
    BY <1>4
  <1>6. /\ Open(p) # None /\ Fresh # {} /\ Born(cs, "queued")
        /\ Store(p, [Open(p) EXCEPT !.pending = a])
        /\ \E ok \in BOOLEAN : SaveQueue(p, a, ok)
        /\ UNCHANGED <<disk, saving, sweep, typed, lost, restarts>>
    BY <1>2 DEF StageOne
  <1>7. 1 <= Cardinality(Fresh)
    <2>1. FirstFresh \in 1..MaxOps /\ Cardinality(Fresh) = MaxOps - FirstFresh + 1 /\ MaxOps \in Nat
      BY <1>6, FreshFacts, LayeredConstants DEF OpId
    <2>2. QED
      BY <2>1
  <1> HIDE DEF cs, needs
  <1>8. \/ Succeeds /\ queued' = [queued EXCEPT ![p] = a]
        \/ Breaks /\ queued' = queued
    BY <1>6 DEF SaveQueue
  <1>9. StagesFor(p, None, cs, needs, "queued")
    BY <1>4, <1>6, <1>7, <1>8 DEF StagesFor
  <1>10. \A k \in DOMAIN cs : cs[k] \in Replace \cup Rewrite
    BY <1>1, <1>4
  <1>11. QED
    BY <1>4, <1>5, <1>6, <1>8, <1>9, <1>10 DEF Stages

-----------------------------------------------------------------------------
\* Every step.

\* The steps that leave the queues alone.
QuietNext ==
  \/ UserNext \/ SweepStale \/ SweepCheck
  \/ \E p \in Path : \/ Read(p) \/ Tombstone(p) \/ FileVanishes(p) \/ SweepBegin(p)
                     \/ \E t \in Folds : FoldIn(p, t)

\* These keep the files equal to the accepted texts.
LEMMA QuietStep ==
  ASSUME LTypeOK, Minted, QuietNext
  PROVE  /\ LTypeOK' /\ QueuesStay /\ (faults' = 0 => faults = 0)
         /\ DiskIsAccepted => DiskIsAccepted'
  <1>0. faults \in Nat
    BY LayeredConstants DEF LTypeOK
  <1>1. ASSUME NEW p \in Path, Discard(p) \/ SaveBegin(p) \/ Read(p) \/ SweepBegin(p)
        PROVE  LTypeOK' /\ QueuesStay /\ TextsStay /\ UNCHANGED <<faults, lost>>
    BY <1>1, DiscardStep, SaveBeginStep, ReadStep, SweepBeginStep
       DEF Discard, SaveBegin, Read, SweepBegin
  <1>2. ASSUME NEW p \in Path, NEW x \in Place, NEW w \in Typed, Type(p, x, w)
        PROVE  LTypeOK' /\ QueuesStay /\ TextsStay /\ UNCHANGED <<faults, lost>>
    BY <1>2, TypeStep DEF Type
  <1>3. ASSUME SaveRecheck \/ SaveClear \/ SweepStale \/ SweepCheck
        PROVE  LTypeOK' /\ QueuesStay /\ TextsStay /\ UNCHANGED <<faults, lost>>
    BY <1>3, SaveRecheckStep, SaveClearStep, SweepStaleStep, SweepCheckStep
       DEF SaveRecheck, SaveClear, SweepStale, SweepCheck
  <1>4. ASSUME NEW p \in Path, EnsureOnDisk(p) \/ Tombstone(p) \/ FileVanishes(p)
        PROVE  /\ LTypeOK' /\ QueuesStay /\ (DiskIsAccepted => DiskIsAccepted')
               /\ UNCHANGED faults
    BY <1>4, EnsureOnDiskStep, TombstoneStep, FileVanishesStep
       DEF EnsureOnDisk, Tombstone, FileVanishes
  <1>5. ASSUME SaveCommit
        PROVE  /\ LTypeOK' /\ QueuesStay /\ (DiskIsAccepted => DiskIsAccepted')
               /\ faults' = 0 => faults = 0
    <2>1. UNCHANGED faults \/ Succeeds \/ Breaks
      BY <1>5 DEF SaveCommit, CommitText
    <2>2. QED
      BY <1>0, <1>5, <2>1, SaveCommitStep DEF Succeeds, Breaks
  <1>6. ASSUME NEW p \in Path, NEW t \in Folds, FoldIn(p, t)
        PROVE  /\ LTypeOK' /\ QueuesStay /\ (DiskIsAccepted => DiskIsAccepted')
               /\ faults' = 0 => faults = 0
    <2>1. Succeeds \/ Breaks
      BY <1>6 DEF FoldIn, CommitText
    <2>2. QED
      BY <1>0, <1>6, <2>1, FoldInStep DEF Succeeds, Breaks
  <1>7. TextsStay /\ UNCHANGED <<faults, lost>> => (DiskIsAccepted => DiskIsAccepted')
    BY TextsStayOnDisk
  <1>8. QED
    BY <1>1, <1>2, <1>3, <1>4, <1>5, <1>6, <1>7 DEF QuietNext, UserNext

\* The steps that change a queue.
QueueNext ==
  \/ ReviewNext \/ SweepReject
  \/ \E p \in Path : \/ \E s \in Session, b \in Batches : StagePending(p, s, b)
                     \/ \E t \in Contents : StageContent(p, t)
                     \/ \E t \in Created : Create(p, t)

\* These keep the files and the queues.
LEMMA QueueStep ==
  ASSUME LTypeOK, Minted, Separate, QueueNext
  PROVE  /\ LTypeOK' /\ Minted' /\ Separate'
         /\ QueuesHeld => QueuesHeld'
         /\ DiskIsAccepted => DiskIsAccepted'
  <1>0. faults \in Nat
    BY LayeredConstants DEF LTypeOK
  <1>1. ASSUME NEW p \in Path, NEW s \in Session, NEW b \in Batches, StagePending(p, s, b)
        PROVE  /\ LTypeOK' /\ Minted' /\ Separate' /\ (QueuesHeld => QueuesHeld')
               /\ DiskIsAccepted => DiskIsAccepted'
    <2>1. (Succeeds \/ Breaks) /\ lost' = lost
      BY <1>1 DEF StagePending, SaveQueue
    <2>2. /\ LTypeOK' /\ Minted' /\ Separate' /\ TextsStay
          /\ QueuesHeld => QueuesHeld'
      BY <1>1, PendingStages, StagesStep
    <2>3. DiskIsAccepted => DiskIsAccepted'
      BY <1>0, <2>1, <2>2, TextsStayOnDisk DEF Succeeds, Breaks
    <2>4. QED
      BY <2>2, <2>3
  <1>2. ASSUME NEW p \in Path, NEW t \in Contents, StageContent(p, t)
        PROVE  /\ LTypeOK' /\ Minted' /\ Separate' /\ (QueuesHeld => QueuesHeld')
               /\ DiskIsAccepted => DiskIsAccepted'
    <2>1. (Succeeds \/ Breaks) /\ lost' = lost
      BY <1>2 DEF StageContent, StageOne, SaveQueue
    <2>2. /\ LTypeOK' /\ Minted' /\ Separate' /\ TextsStay
          /\ QueuesHeld => QueuesHeld'
      BY <1>2, ContentStages, StagesStep
    <2>3. DiskIsAccepted => DiskIsAccepted'
      BY <1>0, <2>1, <2>2, TextsStayOnDisk DEF Succeeds, Breaks
    <2>4. QED
      BY <2>2, <2>3
  <1>3. ASSUME NEW p \in Path, NEW t \in Created, Create(p, t)
        PROVE  /\ LTypeOK' /\ Minted' /\ Separate' /\ (QueuesHeld => QueuesHeld')
               /\ DiskIsAccepted => DiskIsAccepted'
    BY <1>3, CreateStep, CalmSteps
  <1>4. ASSUME NEW p \in Path, NEW i \in OpId, RejectPending(p, i)
        PROVE  /\ LTypeOK' /\ Minted' /\ Separate' /\ (QueuesHeld => QueuesHeld')
               /\ DiskIsAccepted => DiskIsAccepted'
    <2>1. (Succeeds \/ Breaks) /\ lost' = lost
      BY <1>4 DEF RejectPending, RejectFrom, SaveQueue
    <2>2. LTypeOK' /\ Calm /\ TextsStay /\ (QueuesHeld => QueuesHeld')
      BY <1>4, RejectPendingStep
    <2>3. DiskIsAccepted => DiskIsAccepted'
      BY <1>0, <2>1, <2>2, TextsStayOnDisk DEF Succeeds, Breaks
    <2>4. QED
      BY <2>2, <2>3, CalmSteps
  <1>5. ASSUME SweepReject
        PROVE  /\ LTypeOK' /\ Minted' /\ Separate' /\ (QueuesHeld => QueuesHeld')
               /\ DiskIsAccepted => DiskIsAccepted'
    <2>1. (Succeeds \/ Breaks) /\ lost' = lost
      BY <1>5 DEF SweepReject, RejectFrom, SaveQueue
    <2>2. LTypeOK' /\ Calm /\ TextsStay /\ (QueuesHeld => QueuesHeld')
      BY <1>5, SweepRejectStep
    <2>3. DiskIsAccepted => DiskIsAccepted'
      BY <1>0, <2>1, <2>2, TextsStayOnDisk DEF Succeeds, Breaks
    <2>4. QED
      BY <2>2, <2>3, CalmSteps
  <1>6. ASSUME NEW p \in Path, NEW i \in OpId, NEW o \in {"ok", "queue_fails", "md_fails"},
               AcceptPending(p, i, o)
        PROVE  /\ LTypeOK' /\ Minted' /\ Separate' /\ (QueuesHeld => QueuesHeld')
               /\ DiskIsAccepted => DiskIsAccepted'
    <2>2. LTypeOK' /\ Calm /\ (QueuesHeld => QueuesHeld') /\ (DiskIsAccepted => DiskIsAccepted')
      BY <1>6, AcceptStep
    <2>3. QED
      BY <2>2, CalmSteps
  <1>7. QED
    BY <1>1, <1>2, <1>3, <1>4, <1>5, <1>6 DEF QueueNext, ReviewNext

\* There are no others.
LEMMA NextIsQuietOrQueue ==
  ASSUME LNext
  PROVE  QuietNext \/ QueueNext
  BY DEF LNext, QuietNext, QueueNext, OtherNext, ProducerNext, SweepNext

\* What holds whatever restarts.
TextInv == LTypeOK /\ Minted /\ Separate /\ DiskIsAccepted

\* At the start nothing waits and nothing is loaded.
LEMMA TextInit ==
  ASSUME LInit
  PROVE  TextInv /\ QueuesHeld
  <1>1. LTypeOK
    <2>1. <<>> \in Seq(Op)
      OBVIOUS
    <2>2. QED
      BY <2>1, LayeredConstants DEF LInit, LTypeOK
  <1>2. \A p \in Path : Waiting(p) = {} /\ InOrder(queued[p]) /\ docs[p] = None
    BY DEF LInit, Waiting, Loaded, InOrder
  <1>3. QED
    BY <1>1, <1>2
       DEF TextInv, QueuesHeld, Minted, Separate, DiskIsAccepted, QueueOnDisk, Filed,
           Undecided, Loaded, Named, LInit

\* Every step and every restart keeps the texts, and those of ReopenSpec the queues.
LEMMA TextStep ==
  ASSUME TextInv, [LNext \/ Reopen \/ RestartApp]_lvars
  PROVE  TextInv' /\ (QueuesHeld /\ [Resumed]_lvars => QueuesHeld')
  <1>1. LTypeOK /\ Minted /\ Separate /\ DiskIsAccepted
    BY DEF TextInv
  <1>2. CASE QuietNext
    BY <1>1, <1>2, QuietStep, StayIsCalm, CalmSteps, StayHeld DEF TextInv
  <1>3. CASE QueueNext
    BY <1>1, <1>3, QueueStep DEF TextInv
  <1>4. CASE Reopen \/ RestartApp
    <2>1. faults' = faults
      BY <1>4 DEF Reopen, RestartApp, RestartWith
    <2>2. TextInv' /\ (Reopen /\ QueuesHeld => QueuesHeld')
      BY <1>1, <1>4, <2>1, RestartStep, CalmSteps, StayHeld DEF TextInv
    <2>3. CASE Reopen
      BY <2>2, <2>3
    <2>4. CASE ~Reopen
      <3>1. ASSUME [Resumed]_lvars PROVE LNext \/ UNCHANGED lvars
        BY <2>4, <3>1 DEF Resumed
      <3>2. restarts \in Nat /\ restarts' = restarts + 1
        BY <1>1, <1>4, LayeredConstants DEF Reopen, RestartApp, RestartWith, LTypeOK
      <3>3. ~UNCHANGED lvars
        BY <3>2 DEF lvars
      <3>4. QED
        BY <1>1, <2>2, <3>1, <3>3, NextIsQuietOrQueue, QuietStep, QueueStep, StayHeld
    <2>5. QED
      BY <2>3, <2>4
  <1>5. CASE UNCHANGED lvars
    <2>1. UNCHANGED <<disk, queued, docs, saving, sweep, fate, typed, faults, lost, restarts>>
      BY <1>5 DEF lvars
    <2>2. TextInv'
      <3>1. QueuesStay
        BY <1>1, <2>1, NoDocMoves
      <3>2. LTypeOK'
        BY <1>1, <2>1 DEF LTypeOK
      <3>3. Minted' /\ Separate'
        BY <1>1, <3>1, StayIsCalm, CalmSteps
      <3>4. DiskIsAccepted'
        BY <1>1, <2>1 DEF DiskIsAccepted, Loaded
      <3>5. QED
        BY <3>2, <3>3, <3>4 DEF TextInv
    <2>3. QueuesHeld => QueuesHeld'
      BY <2>1 DEF QueuesHeld, QueueOnDisk, Filed, Undecided, Loaded, Waiting
    <2>4. QED
      BY <2>2, <2>3
  <1>6. QED
    BY <1>2, <1>3, <1>4, <1>5, NextIsQuietOrQueue

-----------------------------------------------------------------------------
\* The theorems about files and queues.

\* What is in a queue file, and in memory where that is loaded, is in a queue.
LEMMA FiledIsKept ==
  ASSUME LTypeOK, Filed
  PROVE  OpsKept
  BY DEF Filed, OpsKept, Queue, Loaded

\* Only a review that succeeds lands an operation.
LEMMA LandingIsAccept ==
  ASSUME LTypeOK, Minted, NEW i \in OpId, fate[i] = "queued", fate'[i] = "landed", [Resumed]_lvars
  PROVE  \E p \in Path : AcceptPending(p, i, "ok")
  <1>1. fate \in [OpId -> {"unborn", "queued", "landed", "rejected", "adrift"}]
    BY DEF LTypeOK
  <1>2. fate' # fate
    OBVIOUS
  <1>3. ASSUME NEW lot \in {"queued", "adrift"}, NEW cs, Born(cs, lot) PROVE FALSE
    BY <1>1, <1>3 DEF Born
  <1>4. ~QuietNext /\ ~Reopen /\ ~UNCHANGED lvars
    BY <1>2, QuietStep DEF QueuesStay, Reopen, RestartWith, lvars
  <1>5. QueueNext
    BY <1>4, NextIsQuietOrQueue DEF Resumed
  <1>6. ASSUME NEW p \in Path, NEW s \in Session, NEW b \in Batches PROVE ~StagePending(p, s, b)
    BY <1>3 DEF StagePending
  <1>7. ASSUME NEW p \in Path, NEW t \in Contents PROVE ~StageContent(p, t)
    BY <1>3 DEF StageContent, StageOne
  <1>8. ASSUME NEW p \in Path, NEW t \in Created PROVE ~Create(p, t)
    BY <1>1 DEF Create
  <1>9. ASSUME NEW p \in Path, NEW j \in OpId, RejectFrom(p, j) PROVE FALSE
    BY <1>1, <1>9 DEF RejectFrom
  <1>10. ~SweepReject
    BY <1>9, SweepFields DEF SweepReject
  <1>11. PICK p \in Path, j \in OpId, o \in {"ok", "queue_fails", "md_fails"} : AcceptPending(p, j, o)
    BY <1>5, <1>6, <1>7, <1>8, <1>9, <1>10 DEF QueueNext, ReviewNext, RejectPending
  <1>12. o = "ok" /\ j = i
    BY <1>1, <1>11 DEF AcceptPending
  <1>13. QED
    BY <1>11, <1>12

\* What an operation that lands rests on does not wait any more.
LEMMA DependenciesStep ==
  ASSUME TextInv, QueuesHeld, [Resumed]_lvars, NEW p \in Path, NEW i \in OpId,
         faults' = 0, fate[i] = "queued", fate'[i] = "landed", i \in Ids(Queue(p)),
         NEW n \in Queue(p)[PositionOf(i, Queue(p))].needs
  PROVE  fate[n] # "queued"
  <1>1. LTypeOK /\ Minted /\ Separate
    BY DEF TextInv
  <1>2. PICK r \in Path : AcceptPending(r, i, "ok")
    BY <1>1, LandingIsAccept
  <1> DEFINE op == Open(r).pending[PositionOf(i, Open(r).pending)]
  <1>3. /\ Open(r).pending = Queue(r) /\ i \in Ids(Queue(r)) /\ ~Blocked(Open(r), op)
        /\ op \in Members(Queue(r)) /\ Succeeds
    BY <1>1, <1>2, AcceptFacts
  <1>4. r = p
    BY <1>1, <1>3, IdsAreNamed DEF Separate
  <1>5. n \in op.needs /\ n \notin Ids(Queue(p))
    BY <1>3, <1>4 DEF Blocked
  <1>6. n \in Named(p) /\ n \in OpId
    BY <1>1, <1>3, <1>4, <1>5, IdsAreNamed
  <1>7. faults = 0
    BY <1>3 DEF Succeeds
  <1>8. SUFFICES ASSUME fate[n] = "queued" PROVE FALSE
    OBVIOUS
  <1>9. PICK q \in Path : n \in Ids(Queue(q))
    BY <1>1, <1>6, <1>7, <1>8, FiledIsKept DEF QueuesHeld, OpsKept
  <1>10. q = p
    BY <1>1, <1>6, <1>9, IdsAreNamed DEF Separate
  <1>11. QED
    BY <1>5, <1>9, <1>10

\* While writes succeed the file of a loaded document is its accepted text,
\* whichever way the program restarts.
THEOREM FileIsAccepted ==
  /\ ReopenSpec => []DiskIsAccepted
  /\ AppRestartSpec => []DiskIsAccepted
  <1>1. LInit => TextInv
    BY TextInit
  <1>2. TextInv /\ [Resumed]_lvars => TextInv'
    BY TextStep DEF Resumed
  <1>3. TextInv /\ [Restarted]_lvars => TextInv'
    BY TextStep DEF Restarted
  <1>4. TextInv => DiskIsAccepted
    BY DEF TextInv
  <1>5. QED
    BY <1>1, <1>2, <1>3, <1>4, PTL DEF ReopenSpec, AppRestartSpec

\* The part of the invariant that speaks of files and queues.
LEMMA QueuesInvariant ==
  ReopenSpec => [](TextInv /\ QueuesHeld)
  <1>1. LInit => TextInv /\ QueuesHeld
    BY TextInit
  <1>2. TextInv /\ QueuesHeld /\ [Resumed]_lvars => (TextInv /\ QueuesHeld)'
    <2> SUFFICES ASSUME TextInv, QueuesHeld, [Resumed]_lvars PROVE TextInv' /\ QueuesHeld'
      OBVIOUS
    <2>1. [LNext \/ Reopen \/ RestartApp]_lvars
      BY DEF Resumed
    <2>2. QED
      BY <2>1, TextStep
  <1>3. QED
    BY <1>1, <1>2, PTL DEF ReopenSpec

\* The queue file is the queue, but for what is adrift.
THEOREM QueueFileIsQueue ==
  ReopenSpec => []QueueOnDisk
  <1>1. QueuesHeld => QueueOnDisk
    BY DEF QueuesHeld
  <1>2. QED
    BY <1>1, QueuesInvariant, PTL

\* No operation that waits for review is forgotten, whatever is staged, reviewed,
\* swept, created over, and whenever the program stops.
THEOREM OperationsAreKept ==
  ReopenSpec => []OpsKept
  <1>1. TextInv /\ QueuesHeld => OpsKept
    BY FiledIsKept DEF TextInv, QueuesHeld
  <1>2. QED
    BY <1>1, QueuesInvariant, PTL

\* Edits land after those they rest on.
THEOREM DependenciesLandFirst ==
  ReopenSpec => DependenciesFirst
  <1>1. TextInv /\ QueuesHeld /\ [Resumed]_lvars =>
          [\A p \in Path, i \in OpId :
             /\ faults' = 0
             /\ fate[i] = "queued" /\ fate'[i] = "landed"
             /\ i \in Ids(Queue(p))
             => \A d \in Queue(p)[PositionOf(i, Queue(p))].needs : fate[d] # "queued"]_lvars
    BY DependenciesStep
  <1>2. QED
    BY <1>1, QueuesInvariant, PTL DEF ReopenSpec, DependenciesFirst

-----------------------------------------------------------------------------
\* The user's text.

\* What a step must leave alone for TypingSurvives.
Survives(p) ==
  \A x \in typed[p] \cap typed'[p] :
    /\ Loaded(p) /\ docs'[p] # None
    /\ \/ docs'[p].accepted # docs[p].accepted
       \/ docs'[p].pending # docs[p].pending
    /\ docs'[p].accepted[x] = docs[p].accepted[x]
    => \/ docs'[p].working # None /\ docs'[p].working[x] = docs[p].working[x]
       \/ \E k \in DOMAIN docs[p].pending :
            /\ docs[p].pending[k].id \notin Ids(docs'[p].pending)
            /\ TakesWord(docs[p].pending[k].does, docs[p].working[x])

\* Where no text changes the user's is as it was.
LEMMA WorkingStaysKeeps ==
  ASSUME LTypeOK, WorkingStays
  PROVE  /\ TypedIsWorking => TypedIsWorking'
         /\ WorkingIsAcceptedPlusTyped => WorkingIsAcceptedPlusTyped'
         /\ TypedIsWorking => \A p \in Path : Survives(p)
  <1>1. TypedIsWorking => TypedIsWorking'
    BY DEF TypedIsWorking, WorkingStays, Loaded
  <1>2. WorkingIsAcceptedPlusTyped => WorkingIsAcceptedPlusTyped'
    BY DEF WorkingIsAcceptedPlusTyped, WorkingStays, Loaded
  <1>3. ASSUME TypedIsWorking, NEW p \in Path PROVE Survives(p)
    <2>1. SUFFICES ASSUME NEW x \in typed[p], docs[p] # None
                   PROVE  /\ docs'[p].working # None
                          /\ docs'[p].working[x] = docs[p].working[x]
      BY DEF Survives, Loaded
    <2>2. docs[p].working # None
      BY <1>3, <2>1 DEF TypedIsWorking
    <2>3. QED
      BY <2>1, <2>2 DEF WorkingStays
  <1>4. QED
    BY <1>1, <1>2, <1>3

\* A document that is stored with the texts it was opened with.
LEMMA KeepsWorking ==
  ASSUME LTypeOK, NEW p \in Path, Open(p) # None, NEW d \in Doc,
         d.accepted = Open(p).accepted, d.working = Open(p).working,
         Store(p, d), typed' = typed
  PROVE  WorkingStays
  <1>1. docs \in [Path -> Doc \cup {None}] /\ docs' = [docs EXCEPT ![p] = d]
    BY DEF LTypeOK, Store
  <1>2. docs'[p] = d /\ d # None /\ \A r \in Path : r # p => docs'[r] = docs[r]
    BY <1>1, DocFields
  <1>3. docs[p] # None => Open(p) = docs[p]
    BY DEF Open
  <1>4. docs[p] = None => Open(p).working = None
    BY DEF Open
  <1>5. QED
    BY <1>2, <1>3, <1>4 DEF WorkingStays

\* A step at one path that changes its document and its typing.
LEMMA OnePath ==
  ASSUME LTypeOK, NEW p \in Path, NEW d \in Doc, NEW T \in SUBSET Place,
         Store(p, d), typed' = [typed EXCEPT ![p] = T]
  PROVE  /\ docs'[p] = d /\ typed'[p] = T /\ d # None
         /\ (T # {} => d.working # None) => (TypedIsWorking => TypedIsWorking')
         /\ (d.working # None => \A x \in Place \ T : d.working[x] = d.accepted[x])
              => (WorkingIsAcceptedPlusTyped => WorkingIsAcceptedPlusTyped')
         /\ Survives(p) => \A r \in Path : Survives(r)
  <1>1. /\ docs \in [Path -> Doc \cup {None}] /\ docs' = [docs EXCEPT ![p] = d]
        /\ typed \in [Path -> SUBSET Place]
    BY DEF LTypeOK, Store
  <1>2. /\ docs'[p] = d /\ d # None /\ typed'[p] = T
        /\ \A r \in Path : r # p => docs'[r] = docs[r] /\ typed'[r] = typed[r]
    BY <1>1, DocFields
  <1>3. (T # {} => d.working # None) => (TypedIsWorking => TypedIsWorking')
    BY <1>2 DEF TypedIsWorking, Loaded
  <1>4. (d.working # None => \A x \in Place \ T : d.working[x] = d.accepted[x])
          => (WorkingIsAcceptedPlusTyped => WorkingIsAcceptedPlusTyped')
    BY <1>2 DEF WorkingIsAcceptedPlusTyped, Loaded
  <1>5. \A r \in Path : r # p => Survives(r)
    BY <1>2 DEF Survives
  <1>6. QED
    BY <1>2, <1>3, <1>4, <1>5

\* The working text a document is opened with.
LEMMA OpenWorking ==
  ASSUME LTypeOK, NEW p \in Path, Open(p) # None
  PROVE  /\ WorkingIsAcceptedPlusTyped /\ Open(p).working # None =>
              \A x \in Place \ typed[p] : Open(p).working[x] = Open(p).accepted[x]
         /\ TypedIsWorking /\ typed[p] # {} => Open(p).working # None
         /\ docs[p] # None => Open(p) = docs[p]
  BY DEF WorkingIsAcceptedPlusTyped, TypedIsWorking, Loaded, Open

\* Typing shows as typing.
LEMMA TypeWorks ==
  ASSUME LTypeOK, Minted, NEW p \in Path, NEW x \in Place, NEW w \in Typed, Type(p, x, w)
  PROVE  /\ TypedIsWorking => TypedIsWorking'
         /\ WorkingIsAcceptedPlusTyped => WorkingIsAcceptedPlusTyped'
         /\ \A r \in Path : Survives(r)
  <1> DEFINE d == Open(p)
             shown == IF d.working = None THEN d.accepted ELSE d.working
             t == [shown EXCEPT ![x] = w]
             e == [d EXCEPT !.working = t]
             T == typed[p] \cup {x}
  <1>1. d \in Doc /\ d # None
    BY OpenFacts DEF Type
  <1>2. shown \in Text /\ w \in Word
    BY <1>1, DocFields, LayeredConstants
  <1>3. t \in Text
    BY <1>2 DEF Text
  <1>4. Store(p, e) /\ typed' = [typed EXCEPT ![p] = T]
    BY DEF Type
  <1>5. T \in SUBSET Place /\ typed[p] \subseteq T
    BY DEF LTypeOK
  <1>6. \A y \in Place : y # x => t[y] = shown[y]
    BY <1>2 DEF Text
  <1> HIDE DEF t
  <1>7. e \in Doc /\ e.accepted = d.accepted /\ e.pending = d.pending /\ e.working = t
    <2>1. /\ e \in Doc
          /\ e = [accepted |-> d.accepted, tomb |-> d.tomb,
                  working |-> t, pending |-> d.pending]
      BY <1>1, <1>3, DocEdits
    <2> HIDE DEF e
    <2>2. QED
      BY <2>1
  <1> HIDE DEF e
  <1>8. t # None
    BY <1>3, LayeredConstants
  <1>9. WorkingIsAcceptedPlusTyped => \A y \in Place \ T : e.working[y] = e.accepted[y]
    BY <1>1, <1>6, <1>7, OpenWorking
  <1> HIDE DEF T
  <1>10. docs'[p] = e /\ typed'[p] = T
    BY <1>4, <1>5, <1>7, OnePath
  <1>11. Survives(p)
    BY <1>1, <1>7, <1>10, OpenWorking DEF Survives, Loaded
  <1>12. QED
    BY <1>4, <1>5, <1>7, <1>8, <1>9, <1>11, OnePath

\* The user's text is dropped.
LEMMA DropWorks ==
  ASSUME LTypeOK, Minted, NEW p \in Path, Open(p) # None,
         Store(p, [Open(p) EXCEPT !.working = None]), typed' = [typed EXCEPT ![p] = {}]
  PROVE  /\ TypedIsWorking => TypedIsWorking'
         /\ WorkingIsAcceptedPlusTyped => WorkingIsAcceptedPlusTyped'
         /\ \A r \in Path : Survives(r)
  <1> DEFINE d == Open(p)
             e == [d EXCEPT !.working = None]
  <1>1. d \in Doc
    BY OpenFacts
  <1>2. e \in Doc /\ e.working = None
    <2>1. /\ e \in Doc
          /\ e = [accepted |-> d.accepted, tomb |-> d.tomb,
                  working |-> None, pending |-> d.pending]
      BY <1>1, DocEdits
    <2> HIDE DEF e
    <2>2. QED
      BY <2>1
  <1> HIDE DEF e
  <1>3. Store(p, e) /\ typed' = [typed EXCEPT ![p] = {}]
    BY DEF e
  <1>4. typed'[p] = {}
    BY <1>2, <1>3, OnePath
  <1>5. Survives(p)
    BY <1>4 DEF Survives
  <1>6. QED
    BY <1>2, <1>3, <1>5, OnePath

\* A new accepted text: what the user typed is merged into it.
LEMMA CommitWorks ==
  ASSUME LTypeOK, Minted, NEW p \in Path, NEW t \in Text, NEW ok \in BOOLEAN,
         CommitText(p, t, ok), typed' = typed
  PROVE  /\ TypedIsWorking => TypedIsWorking'
         /\ WorkingIsAcceptedPlusTyped => WorkingIsAcceptedPlusTyped'
         /\ TypedIsWorking => \A r \in Path : Survives(r)
  <1> DEFINE d == Open(p)
             e == Committed(d, t)
             w == IF d.working = None THEN None ELSE Merge(d.accepted, d.working, t)
  <1>1. d # None /\ d \in Doc
    BY OpenFacts DEF CommitText
  <1>2. d.accepted \in Text /\ d.working \in Text \cup {None} /\ d.tomb \in BOOLEAN
    BY <1>1, DocFields
  <1>3. CASE ~Changes(d, t)
    <2>1. Store(p, d)
      BY <1>3 DEF CommitText
    <2>2. WorkingStays
      BY <1>1, <2>1, KeepsWorking
    <2>3. QED
      BY <2>2, WorkingStaysKeeps
  <1>4. CASE Changes(d, t)
    <2>1. Store(p, e)
      BY <1>4 DEF CommitText
    <2>2. w \in Text \cup {None}
      BY <1>2, MergeType
    <2>3. d.working # None =>
            /\ w # None
            /\ \A x \in Place : w[x] = IF t[x] # d.accepted[x] THEN t[x] ELSE d.working[x]
      <3> SUFFICES ASSUME d.working # None
                   PROVE  /\ w # None
                          /\ \A x \in Place : w[x] = IF t[x] # d.accepted[x] THEN t[x] ELSE d.working[x]
        OBVIOUS
      <3>1. w = Merge(d.accepted, d.working, t) /\ d.working \in Text
        BY <1>2
      <3>2. w \in Text
        BY <1>2, <3>1, MergeType
      <3>3. w # None
        BY <3>2, LayeredConstants
      <3>4. \A x \in Place : w[x] = IF t[x] # d.accepted[x] THEN t[x] ELSE d.working[x]
        BY <3>1 DEF Merge
      <3>5. QED
        BY <3>3, <3>4
    <2>4. e = [d EXCEPT !.accepted = t, !.tomb = FALSE, !.working = w]
      BY DEF Committed
    <2>5. d.working = None => w = None
      OBVIOUS
    <2> HIDE DEF w, e
    <2>6. e \in Doc /\ e.accepted = t /\ e.working = w
      BY <1>1, <2>2, <2>4 DEF Doc
    <2> DEFINE T == typed[p]
    <2>7. typed \in [Path -> SUBSET Place] /\ typed' = [typed EXCEPT ![p] = T]
      BY DEF LTypeOK
    <2>8. T \in SUBSET Place
      BY <2>7
    <2>9. TypedIsWorking => (T # {} => e.working # None)
      BY <1>1, <2>3, <2>6, OpenWorking
    <2>10. WorkingIsAcceptedPlusTyped =>
             (e.working # None => \A x \in Place \ T : e.working[x] = e.accepted[x])
      BY <1>1, <2>3, <2>5, <2>6, OpenWorking
    <2>11. docs'[p] = e
      BY <2>1, <2>6, <2>7, <2>8, OnePath
    <2>12. TypedIsWorking => Survives(p)
      BY <1>1, <2>3, <2>6, <2>8, <2>11, OpenWorking DEF Survives, Loaded, TypedIsWorking
    <2> HIDE DEF T
    <2>13. /\ (T # {} => e.working # None) => (TypedIsWorking => TypedIsWorking')
           /\ (e.working # None => \A x \in Place \ T : e.working[x] = e.accepted[x])
                => (WorkingIsAcceptedPlusTyped => WorkingIsAcceptedPlusTyped')
           /\ Survives(p) => \A r \in Path : Survives(r)
      BY <2>1, <2>6, <2>7, <2>8, OnePath
    <2>14. TypedIsWorking => TypedIsWorking'
      BY <2>9, <2>13
    <2>15. WorkingIsAcceptedPlusTyped => WorkingIsAcceptedPlusTyped'
      BY <2>10, <2>13
    <2>16. QED
      BY <2>12, <2>13, <2>14, <2>15
  <1>5. QED
    BY <1>3, <1>4

\* An anchor that resolves is at one place.
LEMMA ResolvesFacts ==
  ASSUME NEW t \in Text, NEW w
  PROVE  Resolves(t, w) <=> \E z \in Place : t[z] = w /\ \A x \in Place : t[x] = w => x = z
  <1> DEFINE S == {x \in Place : t[x] = w}
  <1>1. IsFiniteSet(S)
    BY LayeredConstants, FS_Subset
  <1>2. Cardinality(S) = 1 <=> \E z : S = {z}
    BY <1>1, FS_Singleton
  <1>3. (\E z : S = {z}) <=> \E z \in Place : t[z] = w /\ \A x \in Place : t[x] = w => x = z
    OBVIOUS
  <1>4. QED
    BY <1>2, <1>3 DEF Resolves

\* What an edit does to a text, place by place.
LEMMA ReplaceFacts ==
  ASSUME NEW t \in Text, NEW c \in Replace
  PROVE  \A x \in Place :
           Shown(t, c)[x] = IF Resolves(t, c.old) /\ t[x] = c.old THEN c.new ELSE t[x]
  BY KindsApart DEF Shown, HasEffect

\* An operation that lands on accepted and on working keeps them equal where the
\* user has not typed.
LEMMA LandsAlike ==
  ASSUME NEW a \in Text, NEW w \in Text, NEW c \in Replace \cup Rewrite,
         c \in Replace => Once(a, c.old) /\ Once(w, c.old),
         NEW T, \A x \in Place \ T : w[x] = a[x]
  PROVE  \A x \in Place \ T : Shown(w, c)[x] = Shown(a, c)[x]
  <1>1. CASE c \in Rewrite
    BY <1>1, KindsApart DEF Shown, HasEffect
  <1>2. CASE c \in Replace
    <2> SUFFICES ASSUME NEW x \in Place \ T PROVE Shown(w, c)[x] = Shown(a, c)[x]
      OBVIOUS
    <2>1. w[x] = a[x]
      OBVIOUS
    <2>2. a[x] = c.old => Resolves(a, c.old) /\ Resolves(w, c.old)
      BY <1>2, <2>1, ResolvesFacts DEF Once
    <2>3. QED
      BY <1>2, <2>1, <2>2, ReplaceFacts
  <1>3. QED
    BY <1>1, <1>2

\* An edit leaves every word alone but its anchor.
LEMMA LandsElsewhere ==
  ASSUME NEW w \in Text, NEW c \in Replace \cup Rewrite, NEW x \in Place, ~TakesWord(c, w[x])
  PROVE  Shown(w, c)[x] = w[x]
  BY ReplaceFacts DEF TakesWord

\* An operation that lands under the user's text.
LEMMA AcceptWorks ==
  ASSUME LTypeOK, Minted, Separate, NEW p \in Path, NEW i \in OpId,
         NEW o \in {"ok", "queue_fails", "md_fails"}, AcceptPending(p, i, o)
  PROVE  /\ TypedIsWorking => TypedIsWorking'
         /\ Unambiguous /\ WorkingIsAcceptedPlusTyped => WorkingIsAcceptedPlusTyped'
         /\ TypedIsWorking => \A r \in Path : Survives(r)
  <1> DEFINE d == Open(p)
             op == d.pending[PositionOf(i, d.pending)]
             e == Landed(d, op)
             c == op.does
             n == PositionOf(i, d.pending)
  <1>0. n \in DOMAIN d.pending /\ d.pending[n] = op /\ op.id = i /\ i \notin Ids(e.pending)
    <2>1. /\ d # None /\ d.pending = Queue(p) /\ i \in Ids(Queue(p))
          /\ e.pending = Without(i, Queue(p))
      BY AcceptFacts
    <2>2. Queue(p) \in Seq(Op) /\ InOrder(Queue(p))
      BY <2>1, OpenFacts
    <2> HIDE DEF d, e
    <2>3. n \in 1..Len(d.pending) /\ d.pending[n].id = i
      BY <2>1, <2>2, PositionFacts
    <2>4. Ids(e.pending) = Ids(Queue(p)) \ {i}
      BY <2>1, <2>2, WithoutFacts
    <2>5. QED
      BY <2>1, <2>2, <2>3, <2>4
  <1>1. /\ d # None /\ d \in Doc /\ op \in Op /\ op \in Members(Queue(p)) /\ c \notin Rename
        /\ e \in Doc /\ e.accepted = Shown(d.accepted, c)
        /\ e.working = IF d.working = None THEN None ELSE Shown(d.working, c)
        /\ docs' = [docs EXCEPT ![p] = e] /\ typed' = typed
    BY AcceptFacts
  <1>2. op \in Waiting(p)
    BY <1>1, OpenFacts
  <1>3. c \in Replace \cup Rewrite /\ c \in Deed
    BY <1>1 DEF Op, Deed
  <1> HIDE DEF e, c, op, n
  <1>4. d.accepted \in Text /\ d.working \in Text \cup {None}
    BY <1>1, DocFields
  <1>5. d.working # None => d.working \in Text /\ e.working = Shown(d.working, c) /\ e.working # None
    <2>1. d.working \in Text => Shown(d.working, c) \in Text
      BY <1>3, ShownType
    <2>2. None \notin Text
      BY LayeredConstants
    <2> HIDE DEF d
    <2>3. QED
      BY <1>1, <1>4, <2>1, <2>2
  <1>6. d.working # None => Loaded(p) /\ docs[p] = d
    BY <1>1 DEF Open, Loaded
  <1> DEFINE T == typed[p]
  <1>7. T \in SUBSET Place /\ typed' = [typed EXCEPT ![p] = T]
    BY <1>1 DEF LTypeOK
  <1>8. Store(p, e)
    BY <1>1 DEF Store
  <1>9. TypedIsWorking /\ T # {} => d.working # None
    BY <1>1, OpenWorking
  <1>10. WorkingIsAcceptedPlusTyped /\ d.working # None =>
           \A x \in Place \ T : d.working[x] = d.accepted[x]
    BY <1>1, OpenWorking
  <1>11. Unambiguous /\ d.working # None /\ c \in Replace =>
           Once(d.accepted, c.old) /\ Once(d.working, c.old)
    BY <1>2, <1>6 DEF Unambiguous, c
  <1>12. d.pending[n].does = c
    BY <1>0 DEF c
  <1> HIDE DEF T
  <1>13. docs'[p] = e /\ typed'[p] = T
    BY <1>1, <1>7, <1>8, OnePath
  <1>14. /\ (T # {} => e.working # None) => (TypedIsWorking => TypedIsWorking')
         /\ (e.working # None => \A x \in Place \ T : e.working[x] = e.accepted[x])
              => (WorkingIsAcceptedPlusTyped => WorkingIsAcceptedPlusTyped')
         /\ Survives(p) => \A r \in Path : Survives(r)
    BY <1>1, <1>7, <1>8, OnePath
  <1> HIDE DEF d
  <1>15. TypedIsWorking => TypedIsWorking'
    BY <1>5, <1>9, <1>14
  <1>16. ASSUME Unambiguous, WorkingIsAcceptedPlusTyped PROVE WorkingIsAcceptedPlusTyped'
    <2>1. ASSUME e.working # None PROVE \A x \in Place \ T : e.working[x] = e.accepted[x]
      <3>1. d.working # None
        BY <1>1, <2>1
      <3>2. \A x \in Place \ T : Shown(d.working, c)[x] = Shown(d.accepted, c)[x]
        BY <1>3, <1>4, <1>5, <1>10, <1>11, <1>16, <3>1, LandsAlike
      <3>3. QED
        BY <1>1, <1>5, <3>1, <3>2
    <2>2. QED
      BY <1>14, <1>16, <2>1
  <1>17. ASSUME TypedIsWorking PROVE \A r \in Path : Survives(r)
    <2> SUFFICES ASSUME NEW x \in T, docs[p] # None, ~TakesWord(c, d.working[x])
                 PROVE  e.working # None /\ e.working[x] = d.working[x]
      <3>1. docs[p] # None => docs[p] = d
        BY <1>1, OpenWorking DEF d
      <3>2. ASSUME NEW x \in T, docs[p] # None
            PROVE  \/ e.working # None /\ e.working[x] = d.working[x]
                   \/ \E k \in DOMAIN docs[p].pending :
                        /\ docs[p].pending[k].id \notin Ids(e.pending)
                        /\ TakesWord(docs[p].pending[k].does, docs[p].working[x])
        BY <1>0, <1>12, <3>1, <3>2
      <3>3. Survives(p)
        BY <1>13, <3>1, <3>2 DEF Survives, Loaded, T
      <3>4. QED
        BY <1>14, <3>3
    <2>1. d.working # None
      BY <1>9, <1>17
    <2>2. x \in Place /\ d.working \in Text
      BY <1>5, <1>7, <2>1
    <2>3. Shown(d.working, c)[x] = d.working[x]
      BY <1>3, <2>2, LandsElsewhere
    <2>4. QED
      BY <1>5, <2>1, <2>3
  <1>18. QED
    BY <1>15, <1>16, <1>17

\* Steps that store a document with the texts it was opened with.
LEMMA QuietWorks ==
  ASSUME LTypeOK, Minted, NEW p \in Path,
         \/ Read(p) \/ SaveBegin(p) \/ SweepBegin(p) \/ Tombstone(p)
         \/ EnsureOnDisk(p) \/ FileVanishes(p)
         \/ \E s \in Session, b \in Batches : StagePending(p, s, b)
         \/ \E t \in Contents : StageContent(p, t)
         \/ \E i \in OpId : RejectFrom(p, i)
  PROVE  WorkingStays
  <1>1. CASE Read(p) \/ SaveBegin(p) \/ SweepBegin(p)
    <2>1. Open(p) # None /\ Store(p, Open(p)) /\ typed' = typed
      BY <1>1 DEF Read, SaveBegin, SweepBegin
    <2>2. Open(p) \in Doc
      BY <2>1, OpenFacts
    <2>3. QED
      BY <2>1, <2>2, KeepsWorking
  <1>2. CASE Tombstone(p)
    <2> DEFINE d == Open(p)
               e == [d EXCEPT !.tomb = TRUE]
    <2>1. d # None /\ d \in Doc /\ Store(p, e) /\ typed' = typed
      BY <1>2, OpenFacts DEF Tombstone
    <2>2. /\ e \in Doc
          /\ e = [accepted |-> d.accepted, tomb |-> TRUE, working |-> d.working,
                  pending |-> d.pending]
      BY <2>1, DocEdits
    <2> HIDE DEF e
    <2>3. QED
      BY <2>1, <2>2, KeepsWorking
  <1>3. CASE EnsureOnDisk(p) \/ FileVanishes(p)
    BY <1>3 DEF EnsureOnDisk, FileVanishes, WorkingStays
  <1>4. ASSUME Open(p) # None, NEW q \in Seq(Op), Store(p, [Open(p) EXCEPT !.pending = q]),
               typed' = typed
        PROVE  WorkingStays
    <2> DEFINE d == Open(p)
               e == [d EXCEPT !.pending = q]
    <2>1. d \in Doc
      BY <1>4, OpenFacts
    <2>2. /\ e \in Doc
          /\ e = [accepted |-> d.accepted, tomb |-> d.tomb, working |-> d.working,
                  pending |-> q]
      BY <2>1, DocEdits
    <2> HIDE DEF e
    <2>3. e.accepted = d.accepted /\ e.working = d.working /\ Store(p, e)
      BY <1>4, <2>2 DEF e
    <2>4. QED
      BY <1>4, <2>2, <2>3, KeepsWorking
  <1>5. CASE \E s \in Session, b \in Batches : StagePending(p, s, b)
    BY <1>5, PendingStages, StagesStep
  <1>6. CASE \E t \in Contents : StageContent(p, t)
    BY <1>6, ContentStages, StagesStep
  <1>7. CASE \E i \in OpId : RejectFrom(p, i)
    <2>1. PICK i \in OpId : RejectFrom(p, i)
      BY <1>7
    <2>2. /\ Open(p) # None /\ i \in Ids(Open(p).pending) /\ typed' = typed
          /\ Store(p, [Open(p) EXCEPT !.pending = Without(i, Open(p).pending)])
      BY <2>1 DEF RejectFrom
    <2>3. Without(i, Open(p).pending) \in Seq(Op)
      BY <2>2, OpenFacts, WithoutFacts
    <2>4. QED
      BY <1>4, <2>2, <2>3
  <1>8. QED
    BY <1>1, <1>2, <1>3, <1>5, <1>6, <1>7

\* What the user's steps, everyone else's and a restart do to the user's text.
Lives ==
  /\ TypedIsWorking => TypedIsWorking'
  /\ Unambiguous /\ WorkingIsAcceptedPlusTyped => WorkingIsAcceptedPlusTyped'
  /\ TypedIsWorking => \A p \in Path : Survives(p)

\* Every step keeps the user's text.
LEMMA WorkingStep ==
  ASSUME TextInv, [Resumed \/ RestartApp]_lvars
  PROVE  Lives
  <1>0. LTypeOK /\ Minted /\ Separate
    BY DEF TextInv
  <1>1. CASE WorkingStays
    BY <1>0, <1>1, WorkingStaysKeeps DEF Lives
  <1>2. ASSUME NEW p \in Path, NEW x \in Place, NEW w \in Typed, Type(p, x, w) PROVE Lives
    BY <1>0, <1>2, TypeWorks DEF Lives
  <1>3. ASSUME NEW p \in Path, Discard(p) PROVE Lives
    BY <1>0, <1>3, DropWorks DEF Lives, Discard
  <1>4. ASSUME SaveRecheck PROVE Lives
    <2>1. saving.path \in Path /\ typed' = typed
      BY <1>0, <1>4, SavingFields DEF SaveRecheck
    <2>2. CASE Open(saving.path) = None
      <3>1. docs' = docs
        BY <1>4, <2>2 DEF SaveRecheck
      <3>2. QED
        BY <1>1, <2>1, <3>1 DEF WorkingStays
    <2>3. CASE Open(saving.path) # None
      <3>1. Store(saving.path, Open(saving.path)) /\ Open(saving.path) \in Doc
        BY <1>0, <1>4, <2>1, <2>3, OpenFacts DEF SaveRecheck
      <3>2. QED
        BY <1>0, <1>1, <2>1, <2>3, <3>1, KeepsWorking
    <2>4. QED
      BY <2>2, <2>3
  <1>5. ASSUME SaveCommit PROVE Lives
    <2>1. saving.path \in Path /\ saving.text \in Text /\ typed' = typed
      BY <1>0, <1>5, SavingFields DEF SaveCommit
    <2>2. CASE Open(saving.path) = None
      <3>1. docs' = docs
        BY <1>5, <2>2 DEF SaveCommit
      <3>2. QED
        BY <1>1, <2>1, <3>1 DEF WorkingStays
    <2>3. CASE Open(saving.path) # None
      <3>1. PICK ok \in BOOLEAN : CommitText(saving.path, saving.text, ok)
        BY <1>5, <2>3 DEF SaveCommit
      <3>2. QED
        BY <1>0, <2>1, <3>1, CommitWorks DEF Lives
    <2>4. QED
      BY <2>2, <2>3
  <1>6. ASSUME SaveClear PROVE Lives
    <2>1. saving.path \in Path
      BY <1>0, <1>6, SavingFields DEF SaveClear
    <2>2. CASE Open(saving.path) = None
      <3>1. docs' = docs /\ typed' = typed
        BY <1>6, <2>2 DEF SaveClear
      <3>2. QED
        BY <1>1, <3>1 DEF WorkingStays
    <2>3. CASE Open(saving.path) # None
      BY <1>0, <1>6, <2>1, <2>3, DropWorks DEF SaveClear, Lives
    <2>4. QED
      BY <2>2, <2>3
  <1>7. ASSUME NEW p \in Path, NEW t \in Folds, FoldIn(p, t) PROVE Lives
    <2>1. t \in Text /\ typed' = typed
      BY <1>7, LayeredConstants DEF FoldIn
    <2>2. PICK ok \in BOOLEAN : CommitText(p, t, ok)
      BY <1>7 DEF FoldIn
    <2>3. QED
      BY <1>0, <2>1, <2>2, CommitWorks DEF Lives
  <1>8. ASSUME NEW p \in Path, NEW i \in OpId, NEW o \in {"ok", "queue_fails", "md_fails"},
               AcceptPending(p, i, o)
        PROVE  Lives
    BY <1>0, <1>8, AcceptWorks DEF Lives
  <1>9. ASSUME NEW p \in Path, NEW t \in Created, Create(p, t) PROVE Lives
    <2> DEFINE e == [accepted |-> t, tomb |-> FALSE, working |-> None, pending |-> <<>>]
    <2>1. docs' = [docs EXCEPT ![p] = e] /\ typed' = typed /\ Open(p) = None
      BY <1>9 DEF Create, Store
    <2>2. docs[p] = None
      BY <2>1 DEF Open
    <2>3. docs \in [Path -> Doc \cup {None}] /\ e.working = None
      BY <1>0 DEF LTypeOK
    <2> HIDE DEF e
    <2>4. docs'[p] = e /\ \A r \in Path : r # p => docs'[r] = docs[r]
      BY <2>1, <2>3
    <2>5. WorkingStays
      BY <2>1, <2>2, <2>3, <2>4 DEF WorkingStays
    <2>6. QED
      BY <1>1, <2>5
  <1>10. ASSUME Reopen \/ RestartApp PROVE Lives
    <2>1. /\ typed' = [p \in Path |-> {}]
          /\ \A p \in Path : docs'[p] = None \/ docs'[p] = Seeded(p)
      BY <1>10 DEF Reopen, RestartApp, RestartWith
    <2>2. \A p \in Path : docs'[p] # None => docs'[p].working = None
      <3>1. \A p \in Path : Seeded(p) # None => Seeded(p).working = None
        BY DEF Seeded
      <3>2. QED
        BY <2>1, <3>1
    <2>3. TypedIsWorking' /\ \A p \in Path : Survives(p)
      BY <2>1 DEF TypedIsWorking, Survives
    <2>4. WorkingIsAcceptedPlusTyped'
      BY <2>2 DEF WorkingIsAcceptedPlusTyped, Loaded
    <2>5. QED
      BY <2>3, <2>4 DEF Lives
  <1>11. ASSUME SweepStale PROVE Lives
    BY <1>1, <1>11 DEF SweepStale, WorkingStays
  <1>12. ASSUME SweepCheck PROVE Lives
    <2>1. /\ sweep # None /\ Open(sweep.path) # None /\ Store(sweep.path, Open(sweep.path))
          /\ typed' = typed
      BY <1>12 DEF SweepCheck
    <2>2. sweep.path \in Path /\ Open(sweep.path) \in Doc
      BY <1>0, <2>1, SweepFields, OpenFacts
    <2>3. QED
      BY <1>0, <1>1, <2>1, <2>2, KeepsWorking
  <1>13. ASSUME SweepReject PROVE Lives
    <2>1. sweep # None /\ RejectFrom(sweep.path, Head(sweep.left))
      BY <1>13 DEF SweepReject
    <2>2. sweep.path \in Path /\ Head(sweep.left) \in OpId
      BY <1>0, <2>1, SweepFields
    <2>3. QED
      BY <1>0, <1>1, <2>1, <2>2, QuietWorks
  <1>14. CASE UNCHANGED lvars
    BY <1>1, <1>14 DEF lvars, WorkingStays
  <1>15. ASSUME NEW p \in Path,
                \/ Read(p) \/ SaveBegin(p) \/ SweepBegin(p) \/ Tombstone(p)
                \/ EnsureOnDisk(p) \/ FileVanishes(p)
                \/ \E s \in Session, b \in Batches : StagePending(p, s, b)
                \/ \E t \in Contents : StageContent(p, t)
                \/ \E i \in OpId : RejectPending(p, i)
         PROVE  Lives
    <2>1. WorkingStays
      BY <1>0, <1>15, QuietWorks DEF RejectPending
    <2>2. QED
      BY <1>1, <2>1
  <1>16. CASE LNext
    BY <1>2, <1>3, <1>4, <1>5, <1>6, <1>7, <1>8, <1>9, <1>11, <1>12, <1>13, <1>15, <1>16
       DEF LNext, UserNext, ReviewNext, OtherNext, ProducerNext, SweepNext
  <1>17. QED
    BY <1>10, <1>14, <1>16 DEF Resumed

-----------------------------------------------------------------------------
\* The theorems about the user's text.

\* The whole invariant.
LEMMA LayeredIsInvariant ==
  ReopenSpec => [](TextInv /\ QueuesHeld /\ TypedIsWorking)
  <1>1. LInit => TypedIsWorking
    BY DEF LInit, TypedIsWorking
  <1>2. TextInv /\ TypedIsWorking /\ [Resumed]_lvars => TypedIsWorking'
    BY WorkingStep DEF Lives
  <1>3. QED
    BY <1>1, <1>2, QueuesInvariant, PTL DEF ReopenSpec

\* The inductive invariant, with the types of all variables.
THEOREM LayeredInvariant ==
  ReopenSpec => []LayeredInv
  <1>1. TextInv /\ QueuesHeld /\ TypedIsWorking => LayeredInv
    BY DEF TextInv, QueuesHeld, LayeredInv
  <1>2. QED
    BY <1>1, LayeredIsInvariant, PTL

\* As long as no waiting anchor is ambiguous, the working text differs from the
\* accepted one only where the user typed.
THEOREM WorkingFollowsAccepted ==
  ReopenSpec /\ []Unambiguous => []WorkingIsAcceptedPlusTyped
  <1>1. LInit => WorkingIsAcceptedPlusTyped
    BY DEF LInit, WorkingIsAcceptedPlusTyped, Loaded
  <1>2. /\ TextInv /\ Unambiguous /\ WorkingIsAcceptedPlusTyped /\ [Resumed]_lvars
        => WorkingIsAcceptedPlusTyped'
    BY WorkingStep DEF Lives
  <1>3. QED
    BY <1>1, <1>2, QueuesInvariant, PTL DEF ReopenSpec

\* Whichever way the program restarts, nothing but an operation that lands on it
\* replaces what the user typed where accepted stays as it is.
THEOREM TypingStays ==
  /\ ReopenSpec => TypingSurvives
  /\ AppRestartSpec => TypingSurvives
  <1> DEFINE Stays ==
        \A p \in Path : \A x \in typed[p] \cap typed'[p] :
          /\ Loaded(p) /\ docs'[p] # None
          /\ \/ docs'[p].accepted # docs[p].accepted
             \/ docs'[p].pending # docs[p].pending
          /\ docs'[p].accepted[x] = docs[p].accepted[x]
          => \/ docs'[p].working # None /\ docs'[p].working[x] = docs[p].working[x]
             \/ \E k \in DOMAIN docs[p].pending :
                  /\ docs[p].pending[k].id \notin Ids(docs'[p].pending)
                  /\ TakesWord(docs[p].pending[k].does, docs[p].working[x])
  <1>1. LInit => TextInv /\ TypedIsWorking
    BY TextInit DEF LInit, TypedIsWorking
  <1>2. TextInv /\ TypedIsWorking /\ [Resumed]_lvars => (TextInv /\ TypedIsWorking)' /\ [Stays]_lvars
    <2> SUFFICES ASSUME TextInv, TypedIsWorking, [Resumed]_lvars
                 PROVE  TextInv' /\ TypedIsWorking' /\ Stays
      OBVIOUS
    <2>1. [LNext \/ Reopen \/ RestartApp]_lvars /\ [Resumed \/ RestartApp]_lvars
      BY DEF Resumed
    <2>2. QED
      BY <2>1, TextStep, WorkingStep DEF Lives, Survives
  <1>3. TextInv /\ TypedIsWorking /\ [Restarted]_lvars => (TextInv /\ TypedIsWorking)' /\ [Stays]_lvars
    <2> SUFFICES ASSUME TextInv, TypedIsWorking, [Restarted]_lvars
                 PROVE  TextInv' /\ TypedIsWorking' /\ Stays
      OBVIOUS
    <2>1. [LNext \/ Reopen \/ RestartApp]_lvars /\ [Resumed \/ RestartApp]_lvars
      BY DEF Restarted, Resumed
    <2>2. QED
      BY <2>1, TextStep, WorkingStep DEF Lives, Survives
  <1>4. QED
    BY <1>1, <1>2, <1>3, PTL DEF ReopenSpec, AppRestartSpec, TypingSurvives
=============================================================================
