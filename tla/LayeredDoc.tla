----------------------------- MODULE LayeredDoc -----------------------------
(***************************************************************************)
(* core::editing::LayeredDoc (core/src/editing): each open document keeps  *)
(* the accepted text, which the .md file is to equal, the user's unsaved   *)
(* working text on top of it, and the queue of proposed operations that    *)
(* wait for review, which the .pending file is to equal.  Every verb takes *)
(* one mutex and so is one action, except a Save (commit_working), which   *)
(* takes it four times: other threads run between its four steps.          *)
(*                                                                         *)
(* A text is a function from places to words.  What the code does by byte  *)
(* spans and a three-way merge is done here place by place; an anchor is a *)
(* word, and resolves when it occurs exactly once.  The callers are        *)
(* unconstrained, but for the user's, who all run on the UI thread.        *)
(***************************************************************************)
EXTENDS Integers, Sequences, FiniteSets, SequencesExt

CONSTANTS
  Path,        \* vault paths; a path is the id of the document there
  Place, Word, \* the shape of texts
  Session,     \* agent sessions
  Batches,     \* what agents stage: edits with anchors, or one whole rewrite
  Contents,    \* the whole texts producers stage
  Created,     \* the texts new files hold
  Folds,       \* the whole texts others save or bring in from outside
  Typed,       \* the words the user types
  FirstText,   \* what each path holds at the start: a text, or None
  MaxOps,      \* how many operations are staged (bounds the model)
  MaxFaults,   \* how many writes to disk fail (bounds the model)
  MaxLost,     \* how often a file vanishes under hiker (bounds the model)
  MaxMishaps,  \* how many of these two there are in all (bounds the model)
  MaxRestarts, \* how often the program restarts (bounds the model)
  None

Text == [Place -> Word]
OpId == 1..MaxOps                         \* in the order they are minted

\* What a proposed operation does: replace the one occurrence of a word,
\* rewrite the whole document, or move it.
Replace == [old: Word, new: Word]
Rewrite == [text: Text]
Rename  == [from: Path, to: Path]
Op == [id: OpId, does: Replace \cup Rewrite \cup Rename,
       session: Session \cup {None}, needs: SUBSET OpId]
Doc == [accepted: Text, tomb: BOOLEAN, working: Text \cup {None},
        pending: Seq(Op)]
Saving == [path: Path, at: {"recheck", "commit", "clear"},
           text: Text, base: Text]
Sweep == [path: Path, left: Seq(OpId) \ {<<>>}, doomed: BOOLEAN]

ASSUME LayeredConstants ==
  /\ IsFiniteSet(Place)
  /\ Batches \subseteq Seq(Replace) \cup {<<c>> : c \in Rewrite}
  /\ Contents \cup Created \cup Folds \subseteq Text
  /\ Typed \subseteq Word
  /\ FirstText \in [Path -> Text \cup {None}]
  /\ MaxOps \in Nat /\ MaxFaults \in Nat /\ MaxLost \in Nat /\ MaxMishaps \in Nat
  /\ MaxRestarts \in Nat
  /\ None \notin Path \cup Word \cup Session \cup Text \cup Doc \cup Saving \cup Sweep

VARIABLES
  disk,     \* the .md files
  queued,   \* the .pending files; none is an empty queue
  docs,     \* Inner.docs, the loaded documents
  saving,   \* the Save the UI thread is in
  sweep,    \* the auto-reject of drifted operations it is in
  fate,     \* history: what became of each operation
  typed,    \* history: where the user typed since the last save or discard
  faults, lost, restarts

lvars == <<disk, queued, docs, saving, sweep, fate, typed, faults, lost, restarts>>

InOrder(pending) ==
  \A j, k \in DOMAIN pending : j < k => pending[j].id < pending[k].id

LTypeOK ==
  /\ disk \in [Path -> Text \cup {None}]
  /\ queued \in [Path -> Seq(Op)]
  /\ docs \in [Path -> Doc \cup {None}]
  /\ \A p \in Path : docs[p] # None => InOrder(docs[p].pending)
  /\ saving \in Saving \cup {None}
  /\ sweep \in Sweep \cup {None}
  /\ fate \in [OpId -> {"unborn", "queued", "landed", "rejected", "adrift"}]
  /\ typed \in [Path -> SUBSET Place]
  /\ faults \in 0..MaxFaults /\ lost \in 0..MaxLost
  /\ restarts \in 0..MaxRestarts

LInit ==
  /\ disk = FirstText
  /\ queued = [p \in Path |-> <<>>]
  /\ docs = [p \in Path |-> None]
  /\ saving = None /\ sweep = None
  /\ fate = [i \in OpId |-> "unborn"]
  /\ typed = [p \in Path |-> {}]
  /\ faults = 0 /\ lost = 0 /\ restarts = 0

-----------------------------------------------------------------------------
(* Texts and operations.                                                   *)

\* Mutation: the incoming text wins wholesale.
Merge_Theirs(base, ours, theirs) == theirs

Merge(base, ours, theirs) ==
  [x \in Place |-> IF theirs[x] # base[x] THEN theirs[x] ELSE ours[x]]

Resolves(t, w) == Cardinality({x \in Place : t[x] = w}) = 1

\* op_spans has none: a rename, or an anchor that has drifted.
HasEffect(t, c) == c \in Rewrite \/ (c \in Replace /\ Resolves(t, c.old))

TakesWord(c, w) == c \in Rewrite \/ (c \in Replace /\ c.old = w)

Shown(t, c) ==
  IF ~HasEffect(t, c) THEN t
  ELSE IF c \in Rewrite THEN c.text
  ELSE [x \in Place |-> IF t[x] = c.old THEN c.new ELSE t[x]]

\* fold_session_text: no session means every operation.
SessionText(t, pending, s) ==
  FoldLeft(LAMBDA u, op : IF s \in {None, op.session} THEN Shown(u, op.does) ELSE u,
           t, pending)

Ids(pending) == {pending[k].id : k \in DOMAIN pending}
PositionOf(i, pending) == CHOOSE k \in DOMAIN pending : pending[k].id = i

Without(i, pending) == RemoveAt(pending, PositionOf(i, pending))

Fresh == {i \in OpId : fate[i] = "unborn"}

-----------------------------------------------------------------------------
(* Loading and writing.                                                    *)

\* Mutation: a document is loaded without its queue.
Open_NoQueue(p) ==
  IF docs[p] # None THEN docs[p]
  ELSE IF disk[p] = None THEN None
  ELSE [accepted |-> disk[p], tomb |-> FALSE, working |-> None, pending |-> <<>>]

\* ensure_loaded: a document is read from disk with its queue the first time a
\* verb touches it; None when there is no file.
Open(p) ==
  IF docs[p] # None THEN docs[p]
  ELSE IF disk[p] = None THEN None
  ELSE [accepted |-> disk[p], tomb |-> FALSE, working |-> None,
        pending |-> queued[p]]

Store(p, d) == docs' = [docs EXCEPT ![p] = d]

Written(p, d) == IF d.tomb THEN disk ELSE [disk EXCEPT ![p] = d.accepted]

Succeeds == faults' = faults
Breaks == faults < MaxFaults /\ faults + lost < MaxMishaps /\ faults' = faults + 1

\* A document's queue, wherever it is.
Queue(p) == IF docs[p] # None THEN docs[p].pending ELSE queued[p]

\* Reading a document only loads it.
Read(p) ==
  /\ Open(p) # None
  /\ Store(p, Open(p))
  /\ UNCHANGED <<disk, queued, saving, sweep, fate, typed, faults, lost, restarts>>

-----------------------------------------------------------------------------
(* The user's working text.  All of it, and every review, is UI thread.    *)

UiIdle == saving = None /\ sweep = None

Type(p, x, w) ==
  LET d == Open(p)
      shown == IF d.working = None THEN d.accepted ELSE d.working
  IN  /\ UiIdle /\ d # None /\ shown[x] # w
      /\ Store(p, [d EXCEPT !.working = [shown EXCEPT ![x] = w]])
      /\ typed' = [typed EXCEPT ![p] = @ \cup {x}]
      /\ UNCHANGED <<disk, queued, saving, sweep, fate, faults, lost, restarts>>

Discard(p) ==
  /\ UiIdle /\ Open(p) # None
  /\ Store(p, [Open(p) EXCEPT !.working = None])
  /\ typed' = [typed EXCEPT ![p] = {}]
  /\ UNCHANGED <<disk, queued, saving, sweep, fate, faults, lost, restarts>>

\* commit_working, first lock: a clean buffer has nothing to save.
SaveBegin(p) ==
  LET d == Open(p)
  IN  /\ UiIdle /\ d # None
      /\ Store(p, d)
      /\ saving' = IF d.working = None THEN None
                   ELSE [path |-> p, at |-> "recheck", text |-> d.working,
                         base |-> d.accepted]
      /\ UNCHANGED <<disk, queued, sweep, fate, typed, faults, lost, restarts>>

\* Second lock: merge when accepted has moved.
SaveRecheck ==
  LET p == saving.path
      d == Open(p)
  IN  /\ saving # None /\ saving.at = "recheck"
      /\ IF d = None THEN saving' = None /\ UNCHANGED docs
         ELSE /\ Store(p, d)
              /\ saving' = [saving EXCEPT !.at = "commit", !.text =
                   IF d.accepted = saving.base THEN @
                   ELSE Merge(saving.base, @, d.accepted)]
      /\ UNCHANGED <<disk, queued, sweep, fate, typed, faults, lost, restarts>>

-----------------------------------------------------------------------------
(* commit_text_edit.                                                       *)

Changes(d, t) == d.accepted # t \/ d.tomb

\* A tombstoned document is resurrected, and the change is mirrored on working.
Committed(d, t) ==
  [d EXCEPT !.accepted = t, !.tomb = FALSE,
            !.working = IF @ = None THEN None ELSE Merge(d.accepted, @, t)]

\* Mutation: the new text stays in memory.
CommitText_MemoryOnly(p, t, ok) ==
  /\ Open(p) # None /\ Succeeds /\ disk' = disk
  /\ Store(p, Committed(Open(p), t))

\* When the write fails, memory has moved and the file has not.
CommitText(p, t, ok) ==
  LET d == Open(p)
  IN  /\ d # None
      /\ IF Changes(d, t)
         THEN /\ Store(p, Committed(d, t))
              /\ IF ok THEN Succeeds /\ disk' = Written(p, Committed(d, t))
                       ELSE Breaks /\ disk' = disk
         ELSE ok /\ Succeeds /\ Store(p, d) /\ disk' = disk

\* Third lock of a Save.
SaveCommit ==
  /\ saving # None /\ saving.at = "commit"
  /\ IF Open(saving.path) = None
     THEN saving' = None /\ UNCHANGED <<docs, disk, faults>>
     ELSE \E ok \in BOOLEAN :
            /\ CommitText(saving.path, saving.text, ok)
            /\ saving' = IF ok THEN [saving EXCEPT !.at = "clear"] ELSE None
  /\ UNCHANGED <<queued, sweep, fate, typed, lost, restarts>>

\* Fourth lock.
SaveClear ==
  LET p == saving.path
      d == Open(p)
  IN  /\ saving # None /\ saving.at = "clear"
      /\ IF d = None THEN UNCHANGED <<docs, typed>>
         ELSE /\ Store(p, [d EXCEPT !.working = None])
              /\ typed' = [typed EXCEPT ![p] = {}]
      /\ saving' = None
      /\ UNCHANGED <<disk, queued, sweep, fate, faults, lost, restarts>>

\* apply_user_text and apply_external_edit, from any thread.
FoldIn(p, t) ==
  /\ \E ok \in BOOLEAN : CommitText(p, t, ok)
  /\ UNCHANGED <<queued, saving, sweep, fate, typed, lost, restarts>>

-----------------------------------------------------------------------------
(* Staging.                                                                *)

Anchored(d, s, c) ==
  \/ c \in Rewrite
  \/ Resolves(d.accepted, c.old)
  \/ Resolves(SessionText(d.accepted, d.pending, s), c.old)

\* An anchor that is not in accepted was found in what the session staged
\* before, and a whole rewrite is of the session's text: it needs those.
Needs(d, s, c) ==
  IF c \in Replace /\ Resolves(d.accepted, c.old) THEN {}
  ELSE {op.id : op \in {d.pending[k] : k \in
         {j \in DOMAIN d.pending : d.pending[j].session = s}}}

\* The first edit whose anchor is nowhere ends the call with an error: what was
\* staged before it stays in memory, unsaved, and is adrift.  A rewrite that
\* changes nothing is no operation.
Reached(d, s, batch) ==
  LET bad == {k \in DOMAIN batch : ~Anchored(d, s, batch[k])}
  IN  IF bad = {} THEN batch
      ELSE SubSeq(batch, 1, (CHOOSE k \in bad : \A j \in bad : k <= j) - 1)

Staged(d, s, batch) ==
  IF batch = <<[text |-> SessionText(d.accepted, d.pending, s)]>> THEN <<>>
  ELSE Reached(d, s, batch)

FirstFresh == CHOOSE i \in Fresh : \A j \in Fresh : i <= j

\* Mint ids for the changes cs, and queue them.
Appended(d, s, cs, needs) ==
  d.pending \o [k \in DOMAIN cs |->
    [id |-> FirstFresh + k - 1, does |-> cs[k], session |-> s, needs |-> needs[k]]]

Born(cs, lot) ==
  fate' = [i \in OpId |-> IF \E k \in DOMAIN cs : i = FirstFresh + k - 1
                          THEN lot ELSE fate[i]]

\* save_pending
SaveQueue(p, pending, ok) ==
  IF ok THEN Succeeds /\ queued' = [queued EXCEPT ![p] = pending]
  ELSE Breaks /\ queued' = queued

StagePending(p, s, batch) ==
  LET d == Open(p)
      cs == Staged(d, s, batch)
      pending == Appended(d, s, cs, [k \in DOMAIN cs |-> Needs(d, s, cs[k])])
  IN  /\ d # None /\ Fresh # {} /\ Len(cs) <= Cardinality(Fresh)
      /\ Store(p, [d EXCEPT !.pending = pending])
      /\ Born(cs, IF Reached(d, s, batch) = batch THEN "queued" ELSE "adrift")
      /\ IF Reached(d, s, batch) = batch
         THEN \E ok \in BOOLEAN : SaveQueue(p, pending, ok)
         ELSE Succeeds /\ queued' = queued
      /\ UNCHANGED <<disk, saving, sweep, typed, lost, restarts>>

\* stage_content_op and stage_pending_renames: no session, no needs.
StageOne(p, c) ==
  LET d == Open(p)
      pending == Appended(d, None, <<c>>, <<{}>>)
  IN  /\ d # None /\ Fresh # {}
      /\ Store(p, [d EXCEPT !.pending = pending])
      /\ Born(<<c>>, "queued")
      /\ \E ok \in BOOLEAN : SaveQueue(p, pending, ok)
      /\ UNCHANGED <<disk, saving, sweep, typed, lost, restarts>>

StageContent(p, t) ==
  /\ Open(p) # None /\ Open(p).accepted # t
  /\ StageOne(p, [text |-> t])

StageRename(p, q) == p # q /\ StageOne(p, [from |-> p, to |-> q])

-----------------------------------------------------------------------------
(* Review.  An edit is accepted from the UI; whole rewrites and renames    *)
(* are also accepted by the producer that staged them.                     *)

\* Mutation: predecessors are not looked at.
Blocked_Never(d, op) == FALSE

Blocked(d, op) == op.needs \cap Ids(d.pending) # {}

Occupied(q) == disk[q] # None \/ docs[q] # None

\* Mutation: the operation is applied to accepted only.
Landed_NotReplayed(d, op) ==
  [d EXCEPT !.pending = Without(op.id, @), !.accepted = Shown(@, op.does)]

\* A drifted operation leaves the queue and changes nothing.
Landed(d, op) ==
  [d EXCEPT !.pending = Without(op.id, @),
            !.accepted = Shown(@, op.does),
            !.working = IF @ = None THEN None ELSE Shown(@, op.does)]

\* Where the document is after op.
PathAfter(p, op) == IF op.does \in Rename THEN op.does.to ELSE p

\* Mutation: the queue stays where it was.
QueueMoved_Not(q0, p, q) == q0

\* move_doc_files moves a queue that is there and leaves the target's otherwise.
QueueMoved(q0, p, q) ==
  IF p = q \/ q0[p] = <<>> THEN q0
  ELSE [q0 EXCEPT ![p] = <<>>, ![q] = q0[p]]

Moved(f, p, q, gone) == IF p = q THEN f ELSE [f EXCEPT ![p] = gone, ![q] = f[p]]

\* The old file that is removed is the one the operation was staged at.
DiskAfter(q, d, op) ==
  IF op.does \in Rename /\ op.does.from # q
  THEN [Written(q, d) EXCEPT ![op.does.from] = None]
  ELSE Written(q, d)

\* outcome: which write of the three fails, if any.
AcceptPending(p, i, outcome) ==
  LET d == Open(p)
      op == d.pending[PositionOf(i, d.pending)]
      after == Landed(d, op)
      q == PathAfter(p, op)
      saved == [queued EXCEPT ![p] = after.pending]
  IN  /\ d # None /\ i \in Ids(d.pending)
      /\ op.does \in Replace => UiIdle
      /\ ~Blocked(d, op)
      /\ q = p \/ ~Occupied(q)
      /\ outcome = "md_fails" => ~d.tomb
      /\ fate' = IF outcome = "ok" THEN [fate EXCEPT ![i] = "landed"] ELSE fate
      /\ \/ /\ outcome = "queue_fails" /\ Breaks
            /\ Store(p, after) /\ UNCHANGED <<disk, queued, typed>>
         \/ /\ outcome \in {"md_fails", "ok"}
            /\ docs' = Moved([docs EXCEPT ![p] = after], p, q, None)
            /\ queued' = QueueMoved(saved, p, q)
            /\ typed' = Moved(typed, p, q, {})
            /\ \/ outcome = "ok" /\ Succeeds /\ disk' = DiskAfter(q, after, op)
               \/ outcome = "md_fails" /\ Breaks /\ disk' = disk
      /\ UNCHANGED <<saving, sweep, lost, restarts>>

\* Mutation: the queue file is not rewritten.
RejectFrom_MemoryOnly(p, i) ==
  LET d == Open(p)
  IN  /\ d # None /\ i \in Ids(d.pending)
      /\ Store(p, [d EXCEPT !.pending = Without(i, @)])
      /\ fate' = [fate EXCEPT ![i] = "rejected"]
      /\ UNCHANGED <<disk, queued, saving, typed, faults, lost, restarts>>

RejectFrom(p, i) ==
  LET d == Open(p)
      pending == Without(i, d.pending)
  IN  /\ d # None /\ i \in Ids(d.pending)
      /\ Store(p, [d EXCEPT !.pending = pending])
      /\ fate' = [fate EXCEPT ![i] = "rejected"]
      /\ \E ok \in BOOLEAN : SaveQueue(p, pending, ok)
      /\ UNCHANGED <<disk, saving, typed, lost, restarts>>

RejectPending(p, i) == RejectFrom(p, i) /\ UNCHANGED sweep

\* op_drifted: the anchor is looked for in accepted with what the session
\* queued before the operation.
Drifted(d, k) ==
  /\ d.pending[k].does \in Replace
  /\ ~Resolves(SessionText(d.accepted, SubSeq(d.pending, 1, k - 1), d.pending[k].session),
               d.pending[k].does.old)

\* auto_reject_drifted, after a save: the ids are listed, then each operation
\* is checked under one lock and rejected under the next.
SweepBegin(p) ==
  LET d == Open(p)
  IN  /\ UiIdle /\ d # None /\ d.pending # <<>>
      /\ Store(p, d)
      /\ sweep' = [path |-> p, doomed |-> FALSE,
                   left |-> [k \in DOMAIN d.pending |-> d.pending[k].id]]
      /\ UNCHANGED <<disk, queued, saving, fate, typed, faults, lost, restarts>>

NextSwept ==
  sweep' = IF Len(sweep.left) = 1 THEN None
           ELSE [sweep EXCEPT !.left = Tail(@), !.doomed = FALSE]

\* An operation that was taken out of the queue meanwhile ends the sweep.
SweepStale ==
  /\ sweep # None
  /\ Open(sweep.path) # None =>
       Head(sweep.left) \notin Ids(Open(sweep.path).pending)
  /\ sweep' = None
  /\ UNCHANGED <<disk, queued, docs, saving, fate, typed, faults, lost, restarts>>

SweepCheck ==
  LET d == Open(sweep.path)
      i == Head(sweep.left)
  IN  /\ sweep # None /\ ~sweep.doomed /\ d # None /\ i \in Ids(d.pending)
      /\ Store(sweep.path, d)
      /\ IF Drifted(d, PositionOf(i, d.pending))
         THEN sweep' = [sweep EXCEPT !.doomed = TRUE] ELSE NextSwept
      /\ UNCHANGED <<disk, queued, saving, fate, typed, faults, lost, restarts>>

SweepReject ==
  /\ sweep # None /\ sweep.doomed
  /\ RejectFrom(sweep.path, Head(sweep.left))
  /\ NextSwept

-----------------------------------------------------------------------------
(* Lifecycle.                                                              *)

\* create_document, through doc_id_or_seed: nothing is known at p yet.  The
\* queue file of a note that was there stays, and is not read: what it holds is
\* adrift.
Create(p, t) ==
  /\ Open(p) = None
  /\ Store(p, [accepted |-> t, tomb |-> FALSE, working |-> None, pending |-> <<>>])
  /\ disk' = [disk EXCEPT ![p] = t]
  /\ fate' = [i \in OpId |-> IF fate[i] = "queued" /\ i \in Ids(queued[p])
                             THEN "adrift" ELSE fate[i]]
  /\ UNCHANGED <<queued, saving, sweep, typed, faults, lost, restarts>>

Tombstone(p) ==
  /\ Open(p) # None
  /\ Store(p, [Open(p) EXCEPT !.tomb = TRUE])
  /\ UNCHANGED <<disk, queued, saving, sweep, fate, typed, faults, lost, restarts>>

EnsureOnDisk(p) ==
  LET d == Open(p)
  IN  /\ UiIdle /\ d # None /\ ~d.tomb /\ disk[p] = None
      /\ disk' = Written(p, d)
      /\ UNCHANGED <<queued, docs, saving, sweep, fate, typed, faults, lost, restarts>>

\* Another program, or the indexer's move to trash, takes the file away.
FileVanishes(p) ==
  /\ disk[p] # None /\ lost < MaxLost /\ faults + lost < MaxMishaps
  /\ disk' = [disk EXCEPT ![p] = None]
  /\ lost' = lost + 1
  /\ UNCHANGED <<queued, docs, saving, sweep, fate, typed, faults, restarts>>

\* A crash or a quit: memory is gone.  The application then seeds every file it
\* finds with an empty queue (op_writes::bootstrap).
Seeded(p) ==
  IF disk[p] = None THEN None
  ELSE [accepted |-> disk[p], tomb |-> FALSE, working |-> None, pending |-> <<>>]

RestartWith(cache) ==
  /\ restarts < MaxRestarts
  /\ restarts' = restarts + 1
  /\ docs' = cache
  /\ saving' = None /\ sweep' = None
  /\ typed' = [p \in Path |-> {}]
  /\ UNCHANGED <<disk, queued, fate, faults, lost>>

RestartApp == RestartWith([p \in Path |-> Seeded(p)])

\* Any other program that opens the vault loads lazily.
Reopen == RestartWith([p \in Path |-> None])

-----------------------------------------------------------------------------
UserNext ==
  \/ \E p \in Path : Discard(p) \/ SaveBegin(p) \/ EnsureOnDisk(p)
  \/ \E p \in Path, x \in Place, w \in Typed : Type(p, x, w)
  \/ SaveRecheck \/ SaveCommit \/ SaveClear

ReviewNext ==
  \E p \in Path, i \in OpId :
    \/ \E o \in {"ok", "queue_fails", "md_fails"} : AcceptPending(p, i, o)
    \/ RejectPending(p, i)

ProducerNext ==
  \/ \E p \in Path, s \in Session, b \in Batches : StagePending(p, s, b)
  \/ \E p \in Path, t \in Contents : StageContent(p, t)
  \/ \E p \in Path, t \in Created : Create(p, t)
  \/ \E p \in Path, t \in Folds : FoldIn(p, t)
  \/ \E p \in Path : Read(p)

OtherNext ==
  \/ ProducerNext
  \/ \E p \in Path : Tombstone(p) \/ FileVanishes(p)

\* Not in LNext: VaultFiles, where notes move, takes it.
MoveNext == \E p, q \in Path : StageRename(p, q)

SweepNext == (\E p \in Path : SweepBegin(p)) \/ SweepStale \/ SweepCheck \/ SweepReject

LNext == UserNext \/ ReviewNext \/ OtherNext \/ SweepNext

Resumed == LNext \/ Reopen
Restarted == LNext \/ RestartApp

LSpec == LInit /\ [][LNext]_lvars
ReopenSpec == LInit /\ [][Resumed]_lvars
AppRestartSpec == LInit /\ [][Restarted]_lvars

-----------------------------------------------------------------------------
(* Safety.                                                                 *)

Loaded(p) == docs[p] # None

\* While writes succeed, the file of a loaded document that is not deleted is
\* the accepted text, whatever Saves, folds, reviews and moves interleave; or it
\* was taken away from outside.  (DocState: accepted "equals the .md byte for
\* byte".)
DiskIsAccepted ==
  faults = 0 =>
    \A p \in Path : Loaded(p) /\ ~docs[p].tomb =>
      disk[p] = docs[p].accepted \/ (lost > 0 /\ disk[p] = None)

\* While writes succeed, the .pending file of a loaded document is its queue
\* (every staging and review saves it), but for operations that are adrift: a
\* batch that ended with an error has left them in memory only, or a new note
\* has left them in an old one's file.
QueueOnDisk ==
  faults = 0 =>
    \A p \in Path : Loaded(p) =>
      \/ queued[p] = docs[p].pending
      \/ \E i \in Ids(queued[p]) \cup Ids(docs[p].pending) : fate[i] = "adrift"

\* While writes succeed, an operation whose staging succeeded waits for review
\* until it was accepted or rejected, across restarts: it is in some document's
\* queue, unless a new note came over it.
OpsKept ==
  faults = 0 =>
    \A i \in OpId : fate[i] = "queued" => \E p \in Path : i \in Ids(Queue(p))

\* The unsaved text is the accepted text plus what the user typed: a document
\* differs from accepted only where the user typed, whatever is folded in,
\* reviewed, or saved meanwhile (accept_pending: "`working` stays equal to
\* accepted + the user's ops").
WorkingIsAcceptedPlusTyped ==
  \A p \in Path : Loaded(p) /\ docs[p].working # None =>
    \A x \in Place \ typed[p] : docs[p].working[x] = docs[p].accepted[x]

\* Unsaved typing survives every fold, save and review, wherever accepted does
\* not move: the only other thing that replaces the user's word is an operation
\* that leaves the queue and is a whole rewrite, which takes all unsaved text with
\* it, or whose anchor is that very word (commit_text_edit's merge, accept_pending's
\* replay on `working`).  docs/patch-review.md:70 makes neither exception:
\* "unsaved typing is never discarded".
TypingSurvives ==
  [][\A p \in Path : \A x \in typed[p] \cap typed'[p] :
       /\ Loaded(p) /\ docs'[p] # None
       /\ \/ docs'[p].accepted # docs[p].accepted
          \/ docs'[p].pending # docs[p].pending
       /\ docs'[p].accepted[x] = docs[p].accepted[x]
       => \/ docs'[p].working # None /\ docs'[p].working[x] = docs[p].working[x]
          \/ \E k \in DOMAIN docs[p].pending :
               /\ docs[p].pending[k].id \notin Ids(docs'[p].pending)
               /\ TakesWord(docs[p].pending[k].does, docs[p].working[x])]_lvars

\* An edit that rests on others waits for them: while writes succeed it never
\* lands before they are decided, in whatever order the review goes and across
\* restarts (accept_pending looks at the queue, not at what became of the
\* operation).
DependenciesFirst ==
  [][\A p \in Path, i \in OpId :
       /\ faults' = 0
       /\ fate[i] = "queued" /\ fate'[i] = "landed"
       /\ i \in Ids(Queue(p))
       => \A d \in Queue(p)[PositionOf(i, Queue(p))].needs : fate[d] # "queued"]_lvars

-----------------------------------------------------------------------------
(* The invariant the proofs are built on.                                  *)

\* The operations that wait at a path, in memory or in its queue file, and the
\* ids these speak of.
Waiting(p) ==
  {queued[p][k] : k \in DOMAIN queued[p]}
    \cup (IF Loaded(p) THEN {docs[p].pending[k] : k \in DOMAIN docs[p].pending} ELSE {})
Named(p) == UNION {{op.id} \cup op.needs : op \in Waiting(p)}

\* Ids are minted in order, and queued in order.
Minted ==
  /\ \A i, j \in OpId : i < j /\ fate[j] # "unborn" => fate[i] # "unborn"
  /\ \A p \in Path : InOrder(queued[p])
  /\ \A p \in Path : \A i \in Named(p) : fate[i] # "unborn"

\* No document's operations speak of another's, and none is a rename.
Separate ==
  /\ \A p, q \in Path : p # q => Named(p) \cap Named(q) = {}
  /\ \A p \in Path : \A op \in Waiting(p) : op.does \notin Rename

\* What waits for review is in a queue file, and in memory where that is loaded.
Filed ==
  faults = 0 =>
    \A i \in OpId : fate[i] = "queued" =>
      \E p \in Path : /\ i \in Ids(queued[p])
                      /\ Loaded(p) => i \in Ids(docs[p].pending)

\* What is still in a queue was neither accepted nor rejected.
Undecided ==
  faults = 0 =>
    \A p \in Path : \A op \in Waiting(p) : fate[op.id] \in {"queued", "adrift"}

\* Where the user typed there is a working text.
TypedIsWorking ==
  \A p \in Path : typed[p] # {} => Loaded(p) /\ docs[p].working # None

LayeredInv ==
  /\ LTypeOK /\ Minted /\ Separate /\ DiskIsAccepted
  /\ QueueOnDisk /\ Filed /\ Undecided /\ TypedIsWorking

\* What the theorems about the user's text ask of the edits that wait where the
\* user has unsaved text: an anchor occurs at most once in accepted and in
\* working (the code takes an ambiguous one for drifted, in one of the two texts
\* and perhaps not in the other).
Once(t, w) == \A x, y \in Place : t[x] = w /\ t[y] = w => x = y
Unambiguous ==
  \A p \in Path : Loaded(p) /\ docs[p].working # None =>
    \A op \in Waiting(p) : op.does \in Replace =>
      Once(docs[p].accepted, op.does.old) /\ Once(docs[p].working, op.does.old)
=============================================================================
