----------------------------- MODULE VaultFiles -----------------------------
(***************************************************************************)
(* Notes that move, go to the trash and come back while their documents    *)
(* are open.  The indexer task moves the file first and records it in the  *)
(* layered document afterwards (core/src/indexer/jobs.rs, vault.rs,        *)
(* trash.rs, editing/writes.rs, editing/lifecycle.rs); the Trash panel     *)
(* moves the file only (app/src/trash/mod.rs).  Everybody who reads and    *)
(* writes documents (LayeredDoc) runs between the two steps, but the UI    *)
(* thread when it is what asked, because it blocks on the reply.           *)
(***************************************************************************)
EXTENDS LayeredDoc

CONSTANT
  MaxJobs    \* how often files are moved, deleted or restored (bounds the model)


VARIABLES
  trash,     \* the trash: what a deleted file held, and where it was
  job,       \* the indexer's job between its file step and its document step
  jobs,      \* how many there were
  astray,    \* history: paths whose file, document and queue were left apart
  buried     \* history: operations whose queue another one took the place of

vvars == <<lvars, trash, job, jobs, astray, buried>>
ledger == <<saving, sweep, fate, typed, faults, lost, restarts>>

Job == [k: {"move", "trash", "restore"}, p: Path, q: Path, ui: BOOLEAN]
Entry == [path: Path, text: Text]

ASSUME VaultConstants == MaxJobs \in Nat /\ None \notin Job

VInit ==
  /\ LInit
  /\ trash = {} /\ job = None /\ jobs = 0 /\ astray = {} /\ buried = {}

\* Between the two steps somebody writes where the indexer has moved a file
\* from or to, or a deleted note is renamed to where it was: the document step
\* takes their document for the file's.
Refilled ==
  IF /\ job # None /\ job.k \in {"move", "trash"}
     /\ \/ \E r \in {job.p, job.q} : disk'[r] # disk[r]
        \/ Open(job.p) = None /\ docs'[job.p] # None
  THEN {job.p, job.q} ELSE {}

-----------------------------------------------------------------------------
(* The file step.                                                          *)

UiFree == job # None => ~job.ui

Spend == jobs < MaxJobs /\ jobs' = jobs + 1

Begin(k, p, q, ui) ==
  /\ job = None /\ Spend
  /\ ui => UiIdle
  /\ job' = [k |-> k, p |-> p, q |-> q, ui |-> ui]
  /\ UNCHANGED <<queued, docs, ledger, astray, buried>>

\* vault::move_note, for the user or for an inbox rule.
MoveFile(p, q, ui) ==
  /\ p # q /\ disk[p] # None /\ disk[q] = None
  /\ Begin("move", p, q, ui)
  /\ disk' = Moved(disk, p, q, None)
  /\ UNCHANGED trash

\* vault::delete_note
TrashFile(p) ==
  /\ disk[p] # None
  /\ Begin("trash", p, p, TRUE)
  /\ disk' = [disk EXCEPT ![p] = None]
  /\ trash' = trash \cup {[path |-> p, text |-> disk[p]]}

\* vault::restore_note
Restored(e) ==
  /\ disk[e.path] = None
  /\ disk' = [disk EXCEPT ![e.path] = e.text]
  /\ trash' = trash \ {e}

\* IndexJob::RestoreFromTrash
RestoreFile(e) == Restored(e) /\ Begin("restore", e.path, e.path, FALSE)

Apart(p, t) == docs[p] # None /\ (docs[p].tomb \/ docs[p].accepted # t)

\* The Trash panel restores the file and tells no document; a cached one may
\* still be deleted, or hold another text than this entry.
PanelRestore(e) ==
  /\ UiIdle /\ UiFree /\ Spend
  /\ Restored(e)
  /\ UNCHANGED <<queued, docs, ledger, job, buried>>
  /\ astray' = astray \cup {p \in {e.path} : Apart(p, e.text)} \cup Refilled

\* Trash::permanent_delete, which leaves the note's queue behind.
Purge(e) ==
  /\ UiIdle /\ UiFree
  /\ trash' = trash \ {e}
  /\ UNCHANGED <<lvars, job, jobs, astray, buried>>

-----------------------------------------------------------------------------
(* The document step, each under the document's lock.                      *)

End == job' = None /\ UNCHANGED <<disk, saving, sweep, faults, lost, restarts, trash, jobs>>

\* What the document at p loses when another note's comes to its path.
Overlaid(p) == Ids(Queue(p))

\* rename_document.  A note nobody has loaded has no document to rename, and
\* its queue file stays; what the target's path has kept of a note deleted
\* there is overwritten, or taken for the moved note's.
MoveDoc ==
  LET p == job.p
      q == job.q
  IN  /\ job # None /\ job.k = "move"
      /\ IF Open(p) = None
         THEN /\ astray' = astray \cup {r \in {q} : p \in astray \/ docs[r] # None}
              /\ UNCHANGED <<queued, docs, typed, buried>>
         ELSE /\ docs' = Moved([docs EXCEPT ![p] = Open(p)], p, q, None)
              /\ queued' = QueueMoved(queued, p, q)
              /\ typed' = Moved(typed, p, q, {})
              /\ buried' = buried \cup Overlaid(q)
              /\ astray' = astray \cup {r \in {q} : p \in astray \/ queued[r] # <<>>}
      /\ UNCHANGED fate
      /\ End

\* Mutation: the tombstone is not recorded.
TrashDoc_Untold ==
  /\ job # None /\ job.k = "trash"
  /\ UNCHANGED <<docs, queued, fate, typed, astray, buried>> /\ End

\* tombstone_document
TrashDoc ==
  LET p == job.p
  IN  /\ job # None /\ job.k = "trash"
      /\ IF Open(p) = None THEN docs' = docs
         ELSE Store(p, [Open(p) EXCEPT !.tomb = TRUE])
      /\ UNCHANGED <<queued, fate, typed, astray, buried>>
      /\ End

\* restore_document: what is cached of the note is live again, as it was.
RestoreDoc ==
  LET p == job.p
  IN  /\ job # None /\ job.k = "restore"
      /\ IF Open(p) = None THEN docs' = docs
         ELSE Store(p, [Open(p) EXCEPT !.tomb = FALSE])
      /\ astray' = astray \cup {r \in {p} : docs[r] # None /\ docs[r].accepted # disk[r]}
      /\ UNCHANGED <<queued, fate, typed, buried>>
      /\ End

-----------------------------------------------------------------------------
(* The others meanwhile.                                                   *)

\* An accepted rename removes the file at the path it was staged at.
Robbed == {p \in Path : disk[p] # None /\ disk'[p] = None /\ docs'[p] # None}

\* A note is created, or renamed, to where a deleted one left its queue.
Haunted == {p \in Path : Open(p) = None /\ docs'[p] # None /\ queued[p] # <<>>}

Meanwhile(A) ==
  /\ A
  /\ astray' = astray \cup Refilled \cup Robbed \cup Haunted
  /\ buried' = buried \cup UNION {Ids(queued[p]) : p \in Haunted}
  /\ UNCHANGED <<trash, job, jobs>>

\* What producers do without the UI thread.
ProducerReview ==
  \E p \in Path, i \in OpId :
    \/ /\ Open(p) # None
       /\ \A op \in {Open(p).pending[k] : k \in DOMAIN Open(p).pending} :
            op.id = i => op.does \notin Replace
       /\ AcceptPending(p, i, "ok")
    \/ RejectPending(p, i)

DocumentNext ==
  \/ UiFree /\ (UserNext \/ ReviewNext \/ SweepNext)
  \/ ProducerReview \/ ProducerNext \/ MoveNext

\* A crash or quit, between the steps too; the vault is opened again without the
\* application's seeding.
RestartVault ==
  /\ Reopen
  /\ job' = None
  /\ UNCHANGED <<trash, jobs, astray, buried>>

FileNext ==
  \/ \E p, q \in Path, ui \in BOOLEAN : MoveFile(p, q, ui)
  \/ \E p \in Path : TrashFile(p)
  \/ \E e \in trash : RestoreFile(e) \/ PanelRestore(e) \/ Purge(e)

RecordNext == MoveDoc \/ TrashDoc \/ RestoreDoc

VNext == FileNext \/ RecordNext \/ Meanwhile(DocumentNext) \/ RestartVault

VSpec == VInit /\ [][VNext]_vvars

-----------------------------------------------------------------------------
\* Every variable has its type, and the UI thread is in no Save and no sweep
\* while it waits for the indexer.
VTypeOK ==
  /\ LTypeOK
  /\ trash \subseteq Entry /\ job \in Job \cup {None} /\ jobs \in 0..MaxJobs
  /\ astray \subseteq Path /\ buried \subseteq OpId
  /\ job # None /\ job.ui => UiIdle

\* Between the indexer's jobs a live document's file is there and is its
\* accepted text, and a deleted note has none, wherever notes were moved,
\* deleted and restored to meanwhile -- but for the paths that went astray:
\* somebody wrote the file between the two steps, the Trash panel or an older
\* trash entry brought it back under a document that remembers otherwise, or an
\* accepted rename removed it.
FilesFollow ==
  faults = 0 /\ job = None =>
    \A p \in Path \ astray : Loaded(p) =>
      IF docs[p].tomb THEN disk[p] = None
      ELSE disk[p] = docs[p].accepted

\* No proposal is forgotten by the moves, deletions and restores around it: the
\* queue of a loaded document is its queue file, wherever the note went, but for
\* operations that are adrift, and an operation nobody decided waits at some
\* path, but for one whose queue a note coming to a deleted note's path took the
\* place of.
QueuesFollow ==
  faults = 0 =>
    /\ \A p \in Path \ astray : Loaded(p) =>
         \/ queued[p] = docs[p].pending
         \/ \E i \in Ids(queued[p]) \cup Ids(docs[p].pending) : fate[i] = "adrift"
    /\ \A i \in OpId \ buried : fate[i] = "queued" => \E p \in Path : i \in Ids(Queue(p))

-----------------------------------------------------------------------------
(* What review promises.                                                   *)

\* Neither decided nor given up.
Live(i) == fate[i] = "queued" /\ i \notin buried

ReviewOf(i) ==
  CASE fate[i] = "unborn"   -> "unborn"
    [] fate[i] = "landed"   -> "accepted"
    [] fate[i] = "rejected" -> "rejected"
    [] Live(i)              -> "waiting"
    [] OTHER                -> "loose"

\* What the queues hold, those of loaded documents and the others' files.
Kept == {i \in OpId : \E p \in Path : i \in Ids(Queue(p))}

Promise == INSTANCE ReviewPromise WITH
  review <- [i \in OpId |-> ReviewOf(i)],
  kept <- Kept,
  broken <- faults > 0

\* Review keeps its promise, wherever notes and their queue files are moved,
\* deleted and restored meanwhile: a staged proposal is kept until it is decided,
\* is decided once (accept_pending, reject_pending), and is in no queue after
\* that, nor comes back into one when the vault is opened again.
KeepsReview == Promise!RSpec

-----------------------------------------------------------------------------
(* The invariant the proofs are built on.                                  *)

\* The file of a loaded document between the two steps of a job: the one that
\* was moved or deleted is not where the document is, and what the move's
\* target or a restored note has cached will be replaced or looked at.
FileOf(p) ==
  IF job # None /\ job.k \in {"move", "trash"} /\ p = job.p
  THEN ~docs[p].tomb /\ (job.k = "move" => docs[p].accepted = disk[job.q])
  ELSE IF job # None /\ p = (IF job.k = "move" THEN job.q ELSE job.p) THEN TRUE
  ELSE disk[p] = IF docs[p].tomb THEN None ELSE docs[p].accepted

FilesHeld ==
  faults = 0 =>
    /\ \A p \in Path \ astray : Loaded(p) => FileOf(p)
    /\ job # None /\ job.k \in {"move", "trash"} /\ job.p \notin astray => disk[job.p] = None

\* An operation that is neither decided nor given up is in a queue file; and at
\* a loaded document, be it astray, in memory and in the file or in neither.
LiveFiled ==
  faults = 0 =>
    \A i \in OpId : Live(i) =>
      /\ \E p \in Path : i \in Ids(queued[p])
      /\ \A p \in Path : Loaded(p) => (i \in Ids(queued[p]) <=> i \in Ids(docs[p].pending))

\* An operation waits at one path only.
IdsAt(p) == {op.id : op \in Waiting(p)}
OneHome == \A p, q \in Path : p # q => IdsAt(p) \cap IdsAt(q) = {}

VaultInv ==
  /\ VTypeOK /\ Minted /\ OneHome
  /\ FilesHeld /\ LiveFiled /\ FilesFollow /\ QueuesFollow
=============================================================================
