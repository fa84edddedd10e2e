----------------------------- MODULE IndexSync -----------------------------
(***************************************************************************)
(* How the search index follows the vault: the watcher's bridge thread     *)
(* (core/src/watcher.rs), the router, the bounded job queue and the one    *)
(* indexer task (core/src/indexer/), and the file verbs that write, move   *)
(* or delete a note through that task (core/src/ops/file.rs).              *)
(*                                                                         *)
(* A change on disk becomes a raw event; the bridge drops it when its path *)
(* is suppressed and broadcasts it otherwise; the router turns it into a   *)
(* job; the task re-reads the file, embeds it, and stores the row.  The    *)
(* verbs suppress the event of their own write and enqueue the job         *)
(* themselves.  What is lost between these is the subject of the module.   *)
(***************************************************************************)
EXTENDS Naturals, Sequences, FiniteSets, Functions

CONSTANTS
    Path,           \* vault-relative paths
    Indexable,      \* those whose extension the indexer takes
    Good,           \* contents the indexer can embed
    Bad,            \* contents it refuses: too large, not UTF-8
    Version,        \* embedder versions: the first, and those loaded later
    JobCap,         \* capacity of the job queue (256 in the code)
    EventCap,       \* capacity of the watcher's broadcast (1024)
    RouterSpawned,  \* does the host run the router's future?
    InboxTo,        \* where an [inbox] rule moves a new file; itself: no rule
    Rules,          \* is a rules engine attached?
    Vaults,         \* bound: what the vault may hold when it is opened
    Requests,       \* bound: what the host asks of the pipeline
    MaxSteps,       \* bound: writes to the vault and requests made of the task
    MaxCrashes,     \* bound: restarts
    Absent, NoPath

ASSUME IndexSyncAssumption ==
    /\ Indexable \subseteq Path /\ NoPath \notin Path
    /\ Absent \notin Good \cup Bad \cup Version /\ Good \cap Bad = {}
    /\ JobCap \in Nat \ {0} /\ EventCap \in Nat \ {0}
    /\ RouterSpawned \in BOOLEAN /\ Rules \in BOOLEAN /\ InboxTo \in [Path -> Path]
    /\ Vaults \subseteq [Path -> Good \cup Bad \cup {Absent}]
    /\ MaxSteps \in Nat /\ MaxCrashes \in Nat
    /\ Version # {}

VARIABLES
    disk,       \* the vault's files
    raw,        \* debounced events on their way to the bridge thread
    live,       \* suppressed paths whose 2 s have not passed
    bcast,      \* the broadcast, as the router's receiver sees it
    lagged,     \* the receiver has missed an event
    hand,       \* the job the router is sending
    jobs,       \* the task's mpsc queue
    cur,        \* what the task is doing
    scan,       \* what a full scan still has to process, inline
    index,      \* the notes table
    ver,        \* the version of the loaded embedder
    pending,    \* the set behind the Queued marker
    up,         \* has the embedder the task waits for at start been loaded?
    trash,      \* the vault's trash: what was deleted, and from where
    app,        \* the file verb the host is running
    lost,       \* history: stale paths whose event was dropped or whose job gave up
    leaked,     \* history: paths put in `pending' with no job to take them out
    steps, crashes

vars == <<disk, raw, live, bcast, lagged, hand, jobs, cur, scan, index, ver,
          pending, up, trash, app, lost, leaked, steps, crashes>>
pipe == <<live, bcast, lagged, hand>>     \* the watcher's and router's side
task == <<jobs, cur, scan, index, ver, up, trash>>   \* the indexer task's side

Content == Good \cup Bad
Row == [hash : Content \cup {Absent}, ver : Version \cup {Absent}, skipped : BOOLEAN]
NoRow == [hash |-> Absent, ver |-> Absent, skipped |-> FALSE]
HasRow(p) == index[p] # NoRow

Event(k, p, q) == [k |-> k, p |-> p, q |-> q]
Job(k, p, q, force) == [k |-> k, p |-> p, q |-> q, force |-> force]
NoJob == Job("none", NoPath, NoPath, FALSE)
UpsertOf(p) == Job("upsert", p, NoPath, FALSE)
FullScan(force) == Job("scan", NoPath, NoPath, force)

NoApp == [at |-> "idle", job |-> NoJob]
Idle == [op |-> "idle", p |-> NoPath, force |-> FALSE, tracked |-> FALSE,
         val |-> Absent, todo |-> {}, reply |-> FALSE]
NoScan == [del |-> {}, up |-> {}, force |-> FALSE]

\* What the index should hold of p: nothing, a skip mark, or the very text.
FreshIn(d, ix, v, p) ==
    CASE p \notin Indexable \/ d[p] = Absent -> ix[p] = NoRow
      [] p \in Indexable /\ d[p] \in Bad     -> ix[p].skipped
      [] OTHER -> ix[p] = [hash |-> d[p], ver |-> v, skipped |-> FALSE]
Fresh(p) == FreshIn(disk, index, ver, p)

Init ==
    /\ disk \in Vaults
    /\ index = [p \in Path |-> NoRow]
    /\ raw = <<>> /\ live = {} /\ bcast = <<>> /\ lagged = FALSE /\ hand = NoJob
    /\ jobs = <<FullScan(FALSE)>> /\ cur = Idle /\ scan = NoScan
    /\ ver = CHOOSE v \in Version : TRUE
    /\ up = "loading" /\ trash = {}
    /\ pending = {} /\ app = NoApp /\ lost = {} /\ leaked = {}
    /\ steps = 0 /\ crashes = 0

Spend == steps < MaxSteps /\ steps' = steps + 1

-----------------------------------------------------------------------------
(* Everything else that writes the vault: other programs, git, and the     *)
(* editor's own Save, which neither suppresses nor enqueues.  The kernel   *)
(* may have no room for an event and report an overflow in its place.      *)

Raise(e) == \E x \in {e, Event("overflow", NoPath, NoPath)} : raw' = Append(raw, x)

Write(p, c) ==
    /\ Spend /\ disk[p] # c
    /\ disk' = [disk EXCEPT ![p] = c]
    /\ Raise(Event(IF disk[p] = Absent THEN "created" ELSE "modified", p, NoPath))
    /\ UNCHANGED <<pipe, task, pending, app, lost, leaked, crashes>>

Remove(p) ==
    /\ Spend /\ disk[p] # Absent
    /\ disk' = [disk EXCEPT ![p] = Absent]
    /\ Raise(Event("deleted", p, NoPath))
    /\ UNCHANGED <<pipe, task, pending, app, lost, leaked, crashes>>

Renamed(d, p, q) == [d EXCEPT ![q] = d[p], ![p] = Absent]

Rename(p, q) ==
    /\ Spend /\ p # q /\ disk[p] # Absent
    /\ disk' = Renamed(disk, p, q)
    /\ Raise(Event("renamed", p, q))
    /\ UNCHANGED <<pipe, task, pending, app, lost, leaked, crashes>>

-----------------------------------------------------------------------------
(* The bridge thread and the router.                                       *)

Touched(e) == {e.p, e.q} \ {NoPath}

\* A suppressed event is dropped.  Should its path not be indexed as it
\* stands (or be about to be stored from an older read), nothing is left that
\* will make the task look at it again: history calls it lost.
DropSuppressed(e) ==
    /\ Touched(e) \cap live # {}
    /\ lost' = lost \cup {p \in Touched(e) : \/ ~Fresh(p)
                                             \/ cur.op = "store" /\ cur.p = p}
    /\ UNCHANGED <<bcast, lagged>>

\* tokio's broadcast overwrites the oldest event a slow receiver has not read.
Broadcast(e) ==
    /\ Touched(e) \cap live = {}
    /\ bcast' = Append(IF Len(bcast) = EventCap THEN Tail(bcast) ELSE bcast, e)
    /\ lagged' = (lagged \/ Len(bcast) = EventCap)
    /\ UNCHANGED lost

DispatchOne ==
    /\ raw # <<>>
    /\ raw' = Tail(raw)
    /\ DropSuppressed(Head(raw)) \/ Broadcast(Head(raw))
    /\ UNCHANGED <<disk, live, hand, task, pending, app, leaked, steps, crashes>>

\* evict_expired: SUPPRESS_TTL after the last registration.
Expire(p) ==
    /\ p \in live
    /\ live' = live \ {p}
    /\ UNCHANGED <<disk, raw, bcast, lagged, hand, task, pending, app, lost, leaked,
                   steps, crashes>>

\* The job an event is translated into; an extension nobody indexes has none.
JobOf(e) ==
    CASE e.k = "overflow" -> FullScan(FALSE)
      [] e.k = "renamed" /\ Touched(e) \cap Indexable # {} -> Job("rename", e.p, e.q, FALSE)
      [] e.k = "created" /\ e.p \in Indexable  -> Job("created", e.p, NoPath, FALSE)
      [] e.k = "modified" /\ e.p \in Indexable -> UpsertOf(e.p)
      [] e.k = "deleted" /\ e.p \in Indexable  -> Job("delete", e.p, NoPath, FALSE)
      [] OTHER -> NoJob

\* IndexJobTx.send marks the path before it waits for room.
Tracked(j) == IF j.k \in {"upsert", "created"} THEN {j.p} ELSE {}

\* Mutant: a lagging receiver only logs.
RouterRecv_Bug ==
    /\ RouterSpawned /\ hand = NoJob
    /\ bcast # <<>>
    /\ lagged' = FALSE
    /\ bcast' = Tail(bcast) /\ hand' = JobOf(Head(bcast))
    /\ pending' = pending \cup Tracked(hand')
    /\ UNCHANGED <<disk, raw, live, task, app, lost, leaked, steps, crashes>>

RouterRecv ==
    /\ RouterSpawned /\ hand = NoJob
    /\ \/ /\ lagged
          /\ lagged' = FALSE /\ hand' = FullScan(FALSE)
          /\ UNCHANGED <<bcast, pending>>
       \/ /\ ~lagged /\ bcast # <<>>
          /\ bcast' = Tail(bcast) /\ hand' = JobOf(Head(bcast))
          /\ pending' = pending \cup Tracked(hand')
          /\ UNCHANGED lagged
    /\ UNCHANGED <<disk, raw, live, task, app, lost, leaked, steps, crashes>>

\* Mutant: the queue takes one job too many.
HasRoom_Bug == Len(jobs) <= JobCap

HasRoom == Len(jobs) < JobCap

RouterSend ==
    /\ hand # NoJob /\ HasRoom
    /\ jobs' = Append(jobs, hand) /\ hand' = NoJob
    /\ UNCHANGED <<disk, raw, live, bcast, lagged, cur, scan, index, ver, up, trash,
                   pending, app, lost, leaked, steps, crashes>>

-----------------------------------------------------------------------------
(* The host's file verbs: suppress, act or ask the task to, suppress again. *)

Request(name, j, s, d, r) ==
    /\ name \in Requests
    /\ app = NoApp /\ Spend
    /\ live' = live \cup s /\ disk' = d /\ raw' = r
    /\ pending' = pending \cup Tracked(j)
    /\ app' = [at |-> "send", job |-> j]
    /\ UNCHANGED <<bcast, lagged, hand, task, lost, leaked, crashes>>

CreateAt(p, c) ==
    /\ disk[p] = Absent
    /\ Request("create", UpsertOf(p), {p}, [disk EXCEPT ![p] = c],
               Append(raw, Event("created", p, NoPath)))

MoveNote(p, q) == p # q /\ Request("move", Job("move", p, q, FALSE), {p, q}, disk, raw)

DeleteNote(p) == Request("trash", Job("trash", p, NoPath, FALSE), {p}, disk, raw)

RestoreNote(p, c) ==
    <<p, c>> \in trash /\ Request("trash", Job("restore", p, c, FALSE), {p}, disk, raw)

\* The Trash panel brings the file back and asks the task for nothing.
PanelRestore(p, c) ==
    /\ "trash" \in Requests /\ app = NoApp /\ Spend
    /\ <<p, c>> \in trash /\ disk[p] = Absent
    /\ disk' = [disk EXCEPT ![p] = c] /\ trash' = trash \ {<<p, c>>}
    /\ raw' = Append(raw, Event("created", p, NoPath))
    /\ live' = live \cup {p}
    /\ UNCHANGED <<bcast, lagged, hand, jobs, cur, scan, index, ver, up, pending, app,
                   lost, leaked, crashes>>

ReloadEmbedder == Request("reload", Job("reload", NoPath, NoPath, FALSE), {}, disk, raw)

DateSweep == Request("sweep", Job("sweep", NoPath, NoPath, FALSE), {}, disk, raw)

ReindexAll == Request("reindex", FullScan(TRUE), {}, disk, raw)

Awaited == {"move", "trash", "restore"}     \* the verbs that wait for the task's reply

AppSend ==
    /\ app.at = "send" /\ HasRoom
    /\ jobs' = Append(jobs, app.job)
    /\ app' = IF app.job.k \in Awaited THEN [app EXCEPT !.at = "wait"] ELSE NoApp
    /\ UNCHANGED <<disk, raw, pipe, cur, scan, index, ver, up, trash, pending, lost,
                   leaked, steps, crashes>>

AppResume ==
    /\ app.at = "replied"
    /\ live' = live \cup ({app.job.p, app.job.q} \cap Path)
    /\ app' = NoApp
    /\ UNCHANGED <<disk, raw, bcast, lagged, hand, task, pending, lost, leaked,
                   steps, crashes>>

-----------------------------------------------------------------------------
(* The indexer task.  Only one job is in progress; the disk, the queue and *)
(* the suppressions move under it between its awaits.                      *)

\* Mutant: the reply is dropped.
Replied_Bug == app

Replied == IF app.at = "wait" THEN [app EXCEPT !.at = "replied"] ELSE app

Upserting(p, force, tracked) ==
    [Idle EXCEPT !.op = "read", !.p = p, !.force = force, !.tracked = tracked]

\* A job that ends without a successor has lost what it leaves stale.
Forget(ps) == lost' = lost \cup {p \in ps : ~FreshIn(disk', index', ver, p)}

\* process_delete asks nobody whether the file is there; when the store fails
\* the row stays, and the error is only reported.
DeleteRow(p) ==
    /\ index' \in {index, [index EXCEPT ![p] = NoRow]}
    /\ Forget({p})

\* rekey_note_in_tx: the row moves whatever the file now says; a row already
\* there is a key conflict and the transaction fails.
Conflict(p, q) == HasRow(p) /\ HasRow(q)
Rekeyed(p, q) == IF HasRow(p) THEN [index EXCEPT ![q] = index[p], ![p] = NoRow] ELSE index

\* vault::move_note: refuses, or renames file and row, or (row conflict)
\* renames the file back.
MoveRefused(p, q) == p = q \/ disk[p] = Absent \/ disk[q] # Absent \/ Conflict(p, q)
MoveOnDisk(p, q) ==
    /\ disk' = Renamed(disk, p, q)
    /\ index' = Rekeyed(p, q)
    /\ raw' = Append(raw, Event("renamed", p, q))
    /\ Forget({p, q})

\* on_note_moved's sweep of the notes that may link to the moved one.
Sweeping(p, reply) ==
    [Idle EXCEPT !.op = "links", !.todo = Path \ {p}, !.reply = reply]

TakeUpsert(j) ==
    /\ j.k = "upsert"
    /\ cur' = Upserting(j.p, j.force, TRUE)
    /\ pending' = pending \cup {j.p}
    /\ UNCHANGED <<disk, raw, live, index, ver, scan, app, lost, leaked>>

\* run_inbox_rules, then the upsert at the path it leaves the file at.  The
\* original path stays in `pending'.
TakeCreated(j) ==
    /\ j.k = "created"
    /\ LET to == InboxTo[j.p]
           p  == IF MoveRefused(j.p, to) THEN j.p ELSE to
       IN  /\ IF p = j.p
              THEN UNCHANGED <<disk, raw, live, index, lost, leaked>>
              ELSE /\ MoveOnDisk(j.p, p)
                   /\ live' = live \cup {j.p, p}
                   /\ leaked' = leaked \cup {j.p}
           /\ cur' = Upserting(p, FALSE, TRUE)
           /\ pending' = pending \cup {p}
    /\ UNCHANGED <<ver, scan, app>>

TakeDelete(j) ==
    /\ j.k = "delete"
    /\ UNCHANGED <<disk, raw, live, cur, ver, scan, pending, app, leaked>>
    /\ DeleteRow(j.p)

\* A row that is there moves and its referrers are swept; one that is not is
\* read at the new path; a conflict, like any error of the store, is reported
\* and nothing else is done.
TakeRename(j) ==
    /\ j.k = "rename"
    /\ UNCHANGED <<disk, raw, live, ver, scan, pending, app, leaked>>
    /\ \/ HasRow(j.p) /\ ~HasRow(j.q)
          /\ index' = Rekeyed(j.p, j.q) /\ cur' = Sweeping(j.q, FALSE) /\ Forget({j.p, j.q})
       \/ ~HasRow(j.p) /\ cur' = Upserting(j.q, FALSE, FALSE) /\ UNCHANGED <<index, lost>>
       \/ UNCHANGED <<index, cur>> /\ Forget({j.p, j.q})

TakeMove(j) ==
    /\ j.k = "move"
    /\ IF MoveRefused(j.p, j.q)
       THEN app' = Replied /\ UNCHANGED <<disk, raw, index, cur, lost>>
       ELSE MoveOnDisk(j.p, j.q) /\ cur' = Sweeping(j.q, TRUE) /\ UNCHANGED app
    /\ UNCHANGED <<live, ver, scan, pending, leaked>>

TakeTrash(j) ==
    /\ j.k = "trash"
    /\ IF disk[j.p] = Absent
       THEN UNCHANGED <<disk, raw, index, trash>>
       ELSE /\ disk' = [disk EXCEPT ![j.p] = Absent]
            /\ raw' = Append(raw, Event("deleted", j.p, NoPath))
            /\ index' = [index EXCEPT ![j.p] = NoRow]
            /\ trash' = trash \cup {<<j.p, disk[j.p]>>}
    /\ app' = Replied
    /\ UNCHANGED <<live, cur, ver, scan, pending, lost, leaked>>

\* handle_restore_from_trash: the file comes back unless its path is taken,
\* and is ingested inline before the reply.
TakeRestore(j) ==
    /\ j.k = "restore"
    /\ IF disk[j.p] # Absent
       THEN app' = Replied /\ UNCHANGED <<disk, raw, cur, trash>>
       ELSE /\ disk' = [disk EXCEPT ![j.p] = j.q]
            /\ raw' = Append(raw, Event("created", j.p, NoPath))
            /\ trash' = trash \ {<<j.p, j.q>>}
            /\ cur' = [Upserting(j.p, FALSE, FALSE) EXCEPT !.reply = TRUE]
            /\ UNCHANGED app
    /\ UNCHANGED <<live, index, ver, scan, pending, lost, leaked>>

\* run_full_scan looks at the disk once, and takes a file its walk cannot reach
\* for one that is gone; its jobs are processed inline.  It fails as a whole
\* when the store cannot list its rows.
TakeScan(j) ==
    /\ j.k = "scan"
    /\ \/ scan' = NoScan
       \/ \E seen \in SUBSET {p \in Indexable : disk[p] # Absent} :
             scan' = [del |-> {p \in Path : HasRow(p)} \ seen, up |-> seen, force |-> j.force]
    /\ lost' = {p \in Path : IF p \in scan'.del \cup scan'.up THEN p \in lost ELSE ~Fresh(p)}
    /\ pending' = pending \cup scan'.up
    /\ UNCHANGED <<disk, raw, live, cur, index, ver, app, leaked>>

\* ReloadCtx::run: the new model; a new dimension blanks every row's version;
\* then a forced scan through the task's own queue.
TakeReload(j) ==
    /\ j.k = "reload"
    /\ \/ ver' \in Version \ {ver} /\ cur' = [Idle EXCEPT !.op = "sendscan"]
          /\ index' \in {index, [p \in Path |-> IF HasRow(p) THEN [index[p] EXCEPT !.ver = Absent]
                                                ELSE NoRow]}
       \/ UNCHANGED <<ver, cur, index>>     \* same id, or the load failed
    /\ UNCHANGED <<disk, raw, live, scan, pending, app, lost, leaked>>

\* A firing's accept writes the note; its re-index is tried, never awaited,
\* and the path suppressed only if the queue had room.  (A freed place may
\* already be promised to a waiting sender: room is then refused early.)
RuleWrite(q, c, queue) ==
    /\ Rules /\ Spend /\ disk[q] \in Good
    /\ disk' = [disk EXCEPT ![q] = c]
    /\ raw' = Append(raw, Event("modified", q, NoPath))
    /\ pending' = (pending \ {cur.p}) \cup {q}
    /\ \/ /\ Len(queue) < JobCap
          /\ jobs' = Append(queue, UpsertOf(q))
          /\ live' = live \cup {q} /\ leaked' = leaked \ {cur.p}
       \/ /\ jobs' = queue
          /\ leaked' = (leaked \ {cur.p}) \cup {q}
          /\ UNCHANGED live

TakeSweep(j) ==
    /\ j.k = "sweep"
    /\ \/ UNCHANGED <<disk, raw, live, pending, leaked, steps>> /\ jobs' = Tail(jobs)
       \/ \E q \in Indexable, c \in Good : RuleWrite(q, c, Tail(jobs))
    /\ UNCHANGED <<cur, index, ver, scan, app, lost>>

TakeJob ==
    /\ up = "ready" /\ cur = Idle /\ scan.del = {} /\ scan.up = {} /\ jobs # <<>>
    /\ LET j == Head(jobs) IN
       \/ /\ \/ TakeUpsert(j) \/ TakeCreated(j) \/ TakeDelete(j) \/ TakeRename(j)
             \/ TakeMove(j) \/ TakeScan(j) \/ TakeReload(j)
          /\ jobs' = Tail(jobs) /\ UNCHANGED <<trash, steps>>
       \/ /\ TakeTrash(j) \/ TakeRestore(j)
          /\ jobs' = Tail(jobs) /\ UNCHANGED steps
       \/ TakeSweep(j) /\ UNCHANGED trash
    /\ UNCHANGED <<bcast, lagged, hand, up, crashes>>

\* load_and_resolve: jobs wait in the queue until the model is there.
LoadModel ==
    /\ up = "loading" /\ up' \in {"ready", "failed"}
    /\ UNCHANGED <<disk, raw, pipe, jobs, cur, scan, index, ver, trash, pending, app,
                   lost, leaked, steps, crashes>>

\* Mutant: the task just returns when the model does not load.
DrainOnFailure_Bug == FALSE

\* drain_pending_on_failure: every job is answered and none is done.
DrainOnFailure ==
    /\ up = "failed" /\ jobs # <<>>
    /\ jobs' = Tail(jobs)
    /\ app' = IF Head(jobs).k \in Awaited THEN Replied ELSE app
    /\ leaked' = leaked \cup Tracked(Head(jobs))
    /\ UNCHANGED <<disk, raw, pipe, cur, scan, index, ver, up, trash, pending, lost,
                   steps, crashes>>

ScanStep ==
    /\ cur = Idle
    /\ UNCHANGED <<disk, raw, pipe, jobs, ver, up, trash, app, leaked, steps, crashes>>
    /\ \/ \E p \in scan.del :
             /\ scan' = [scan EXCEPT !.del = @ \ {p}]
             /\ DeleteRow(p)
             /\ UNCHANGED <<cur, pending>>
       \/ \E p \in scan.up :
             /\ scan.del = {}
             /\ scan' = [scan EXCEPT !.up = @ \ {p}]
             /\ cur' = Upserting(p, scan.force, TRUE)
             /\ pending' = pending \cup {p}
             /\ UNCHANGED <<index, lost>>

\* Mutant: an outcome that forgets the Queued marker.
Untrack_Bug == {}

\* What every terminal outcome of a tracked upsert does.
Untrack == IF cur.tracked THEN {cur.p} ELSE {}
Done ==
    /\ cur' = Idle
    /\ app' = IF cur.reply THEN Replied ELSE app
    /\ pending' = pending \ Untrack /\ leaked' = leaked \ Untrack

\* process_upsert up to its embed: a missing file deletes the row, a refused
\* one is marked (upsert_skipped keeps the hash and version of the row it
\* marks), an unchanged one is left alone -- even when it is a skip mark.
Read ==
    /\ cur.op = "read"
    /\ LET p == cur.p
           c == disk[p]
           unchanged == ~cur.force /\ index[p].hash = c /\ index[p].ver = ver
       IN  CASE p \notin Indexable -> Done /\ UNCHANGED <<index, lost>>
             [] p \in Indexable /\ c = Absent ->
                    index' = [index EXCEPT ![p] = NoRow] /\ lost' = lost \ {p} /\ Done
             [] p \in Indexable /\ c \in Bad ->
                    index' = [index EXCEPT ![p].skipped = TRUE] /\ lost' = lost \ {p} /\ Done
             [] p \in Indexable /\ c \in Good /\ unchanged ->
                    /\ lost' = IF index[p].skipped THEN lost \cup {p} ELSE lost \ {p}
                    /\ Done /\ UNCHANGED index
             [] OTHER -> /\ cur' = [cur EXCEPT !.op = "store", !.val = c]
                         /\ lost' = lost \ {p}
                         /\ UNCHANGED <<index, pending, leaked, app>>
    /\ UNCHANGED <<disk, raw, pipe, jobs, ver, scan, up, trash, steps, crashes>>

Stored == [index EXCEPT ![cur.p] = [hash |-> cur.val, ver |-> ver, skipped |-> FALSE]]

\* The row that was read is stored, whatever the file has become; then the
\* rules fire on what changed (a tracked upsert only).
Store ==
    /\ cur.op = "store"
    /\ index' = Stored
    /\ \/ Done /\ UNCHANGED <<disk, raw, live, jobs, steps>>
       \/ /\ cur.tracked /\ cur' = Idle
          /\ \E q \in Indexable, c \in Good : RuleWrite(q, c, jobs)
          /\ UNCHANGED app
    /\ UNCHANGED <<bcast, lagged, hand, ver, scan, up, trash, lost, crashes>>

\* An error of process_upsert -- the file cannot be read, the model refuses the
\* text, the store fails before or after the row is written -- ends the job as
\* an outcome does: marker removed, reply given, but no rule pass, and no retry.
UpsertFails ==
    /\ UNCHANGED <<disk, raw, pipe, jobs, ver, scan, up, trash, steps, crashes>>
    /\ \/ cur.op = "read" /\ cur.p \in Indexable /\ UNCHANGED index
       \/ cur.op = "store" /\ index' \in {index, Stored}
    /\ Done /\ Forget({cur.p})

\* rewrite_wikilink_bodies and its siblings: each note that named the moved one
\* is written between two suppressions, then sent to the task's own queue.
Rewrite(r, c) ==
    /\ cur.op = "links" /\ r \in cur.todo \cap Indexable /\ disk[r] \in Good
    /\ Spend
    /\ disk' = [disk EXCEPT ![r] = c]
    /\ raw' = Append(raw, Event("modified", r, NoPath))
    /\ live' = live \cup {r}
    /\ cur' = [cur EXCEPT !.op = "sendlink", !.p = r, !.todo = @ \ {r}]
    /\ pending' = pending \cup {r}
    /\ UNCHANGED <<bcast, lagged, hand, jobs, scan, index, ver, up, trash, app, lost,
                   leaked, crashes>>

LinksDone ==
    /\ cur.op = "links"
    /\ cur' = Idle
    /\ app' = IF cur.reply THEN Replied ELSE app
    /\ UNCHANGED <<disk, raw, pipe, jobs, scan, index, ver, up, trash, pending, lost,
                   leaked, steps, crashes>>

\* The task awaits room in the queue only it takes jobs from.
SelfBlocked == cur.op \in {"sendlink", "sendscan"} /\ ~HasRoom

SelfSend ==
    /\ cur.op \in {"sendlink", "sendscan"} /\ HasRoom
    /\ \/ /\ cur.op = "sendlink"
          /\ jobs' = Append(jobs, UpsertOf(cur.p))
          /\ cur' = [cur EXCEPT !.op = "links", !.p = NoPath]
       \/ /\ cur.op = "sendscan"
          /\ jobs' = Append(jobs, FullScan(TRUE))
          /\ cur' = Idle
    /\ UNCHANGED <<disk, raw, pipe, scan, index, ver, up, trash, pending, app, lost,
                   leaked, steps, crashes>>

\* The process ends; the vault and the index are what it finds again, and the
\* host queues a scan before anything else.
Restart ==
    /\ crashes < MaxCrashes /\ crashes' = crashes + 1
    /\ raw' = <<>> /\ live' = {} /\ bcast' = <<>> /\ lagged' = FALSE /\ hand' = NoJob
    /\ jobs' = <<FullScan(FALSE)>> /\ cur' = Idle /\ scan' = NoScan
    /\ pending' = {} /\ app' = NoApp /\ lost' = Path /\ leaked' = {}
    /\ up' = "loading"
    /\ UNCHANGED <<disk, index, ver, trash, steps>>

-----------------------------------------------------------------------------
Environment ==
    \/ \E p \in Path, c \in Content : Write(p, c) \/ CreateAt(p, c) \/ RestoreNote(p, c) \/ PanelRestore(p, c)
    \/ \E p, q \in Path : Rename(p, q) \/ MoveNote(p, q)
    \/ \E p \in Path : Remove(p) \/ DeleteNote(p) \/ Expire(p)
    \/ ReloadEmbedder \/ DateSweep \/ ReindexAll \/ Restart

Pipeline == DispatchOne \/ RouterRecv \/ RouterSend \/ AppSend \/ AppResume

Indexer ==
    \/ LoadModel \/ DrainOnFailure \/ TakeJob \/ ScanStep \/ Read \/ Store \/ UpsertFails
    \/ LinksDone \/ SelfSend
    \/ \E r \in Path, c \in Good : Rewrite(r, c)

Next == Environment \/ Pipeline \/ Indexer

Fairness ==
    /\ WF_vars(DispatchOne) /\ WF_vars(RouterRecv) /\ WF_vars(RouterSend)
    /\ WF_vars(AppSend) /\ WF_vars(AppResume) /\ WF_vars(Indexer)

Spec == Init /\ [][Next]_vars
FairSpec == Spec /\ Fairness

-----------------------------------------------------------------------------
JobKinds == {"none", "upsert", "created", "delete", "rename", "move", "trash",
             "restore", "scan", "reload", "sweep"}
Jobs == [k : JobKinds, p : Path \cup {NoPath}, q : Path \cup Content \cup {NoPath}, force : BOOLEAN]
Events == [k : {"created", "modified", "deleted", "renamed", "overflow"},
           p : Path \cup {NoPath}, q : Path \cup {NoPath}]

\* Every variable keeps its type, and neither queue outgrows its capacity.
TypeOK ==
    /\ disk \in [Path -> Content \cup {Absent}] /\ index \in [Path -> Row]
    /\ raw \in Seq(Events) /\ bcast \in Seq(Events) /\ Len(bcast) <= EventCap
    /\ jobs \in Seq(Jobs) /\ Len(jobs) <= JobCap /\ hand \in Jobs
    /\ live \subseteq Path /\ pending \subseteq Path /\ lost \subseteq Path
    /\ leaked \subseteq Path /\ lagged \in BOOLEAN /\ ver \in Version
    /\ cur \in [op : {"idle", "read", "store", "links", "sendlink", "sendscan"},
                p : Path \cup {NoPath}, force : BOOLEAN, tracked : BOOLEAN,
                val : Content \cup {Absent}, todo : SUBSET Path, reply : BOOLEAN]
    /\ scan \in [del : SUBSET Path, up : SUBSET Path, force : BOOLEAN]
    /\ up \in {"loading", "ready", "failed"} /\ trash \subseteq Path \X Content
    /\ app \in [at : {"idle", "send", "wait", "replied"}, job : Jobs]

\* Nothing on its way: no event, no job, no verb, the task waiting for work.
Quiet ==
    /\ raw = <<>> /\ hand = NoJob /\ jobs = <<>> /\ cur = Idle
    /\ scan.del = {} /\ scan.up = {} /\ app = NoApp
    /\ RouterSpawned => bcast = <<>> /\ ~lagged

\* An event, or a job, makes the task look at p again.  A rename looks at its
\* new name; of its old name it knows only that nothing is there now.
NamesIt(x, p) ==
    x.p = p /\ (x.k = "renamed" \/ x.k = "rename" => disk[p] = Absent)

EventLooksAt(e, p) ==
    \/ e.k = "overflow"
    \/ NamesIt(e, p)
    \/ e.k = "renamed" /\ e.q = p

\* The broadcast holds, or has overwritten, an event that concerns p.
Unread(p) == lagged \/ \E e \in Range(bcast) : EventLooksAt(e, p)

\* Once everything has drained, a path of which the index does not say what
\* the disk says is one whose last event a suppression dropped or whose last job
\* gave up on it (in the ways `lost' records, and in no other), or one whose event
\* is still in the broadcast: which is empty by then, if the host runs the router
\* at all.
StaleIsLostOrUnread ==
    Quiet /\ up = "ready" => \A p \in Path : Fresh(p) \/ p \in lost \/ Unread(p)

\* What app/src/bootstrap.rs:609 has the router for, "so file events drive
\* re-indexing": what has drained is indexed, but for what was given up on.
QuietMeansIndexed ==
    Quiet /\ up = "ready" => \A p \in Path : Fresh(p) \/ p \in lost

InFlight ==
    {cur.p} \cup scan.up \cup Tracked(hand) \cup Tracked(app.job)
    \cup UNION {Tracked(jobs[i]) : i \in DOMAIN jobs}

\* The Queued marker goes out: a path stays in `pending' only while a job for
\* it is on its way -- but for the three leaks, an inbox move's original path,
\* a rule's refused re-index, and the jobs drained when no model loads.
PendingIsInFlight == pending \subseteq InFlight \cup leaked

\* A verb's caller is waiting for a reply exactly as long as its job is queued
\* or in progress: no job is dropped with its reply, and none replies early.
AwaitedIsQueued ==
    app.at = "wait" <=> \/ \E i \in DOMAIN jobs : jobs[i].k \in Awaited
                        \/ cur.reply

-----------------------------------------------------------------------------
(* The invariant the proofs are built on.                                  *)

\* Events and jobs name what their kind needs.
EventOK(e) ==
    /\ e \in Events
    /\ e.k # "overflow" => e.p \in Path
    /\ e.k = "overflow" => e.p = NoPath
    /\ e.k = "renamed" => e.q \in Path /\ e.p # e.q
    /\ e.k # "renamed" => e.q = NoPath

JobOK(j) ==
    /\ j \in Jobs
    /\ j.k \notin {"none", "scan", "reload", "sweep"} => j.p \in Path
    /\ j.k \in {"rename", "move"} => j.q \in Path /\ j.p # j.q
    /\ j.k = "restore" => j.q \in Content
    /\ j.k = "none" => j = NoJob

FlowOK ==
    /\ \A e \in Range(raw) \cup Range(bcast) : EventOK(e)
    /\ \A j \in Range(jobs) : JobOK(j) /\ j.k # "none"
    /\ JobOK(hand) /\ hand.k \notin Awaited
    /\ JobOK(app.job) /\ (app.at = "send" => app.job.k # "none")
    /\ app.at \in {"wait", "replied"} => app.job.k \in Awaited

\* What the task is doing, by the name of it.
CurOK ==
    /\ cur.op \in {"read", "store", "sendlink"} => cur.p \in Path
    /\ cur.op = "store" => cur.p \in Indexable /\ cur.val \in Good
    /\ cur.tracked => cur.op \in {"read", "store"} /\ ~cur.reply
    /\ cur.reply => cur.op \in {"read", "store", "links", "sendlink"}
    /\ scan.up \subseteq Indexable

JobLooksAt(j, p) ==
    \/ j.k = "scan"
    \/ j.k \in {"upsert", "created", "delete", "rename"} /\ NamesIt(j, p)
    \/ j.k = "rename" /\ j.q = p

\* What is stored next is what the file says, or it is stored already.
Settled(p) == IF cur.op = "store" /\ cur.p = p THEN cur.val = disk[p] ELSE Fresh(p)

Awaits(p) ==
    \/ lagged \/ \E e \in Range(raw) \cup Range(bcast) : EventLooksAt(e, p)
    \/ \E j \in Range(jobs) \cup {hand} : JobLooksAt(j, p)
    \/ cur.op = "read" /\ cur.p = p
    \/ cur.op = "sendscan" \/ p \in scan.up \cup scan.del

\* Nothing is forgotten: each note is indexed as it is, or recorded as lost, or
\* something on its way will look at it; what is no note has no row.
NothingForgotten ==
    /\ \A p \in Path \ Indexable : Fresh(p) \/ p \in lost
    /\ up # "failed" => \A p \in Indexable : Settled(p) \/ p \in lost \/ Awaits(p)

\* A Queued marker belongs to a job, or to the tracked work in progress.
Marked ==
    {x \in {cur.p} : cur.tracked \/ cur.op = "sendlink"} \cup scan.up
    \cup Tracked(hand) \cup Tracked(app.job) \cup UNION {Tracked(j) : j \in Range(jobs)}

\* One reply is owed, by one job or by the work in progress.
OneReplyOwed ==
    /\ AwaitedIsQueued
    /\ \A i, k \in DOMAIN jobs : jobs[i].k \in Awaited /\ jobs[k].k \in Awaited => i = k
    /\ cur.reply => \A i \in DOMAIN jobs : jobs[i].k \notin Awaited

SyncInv ==
    /\ TypeOK /\ FlowOK /\ CurOK
    /\ pending \subseteq Marked \cup leaked
    /\ OneReplyOwed
    /\ NothingForgotten

\* When the vault and the host fall silent the pipeline drains, or the task
\* has blocked itself by sending to the full queue only it empties.
SettlesOrSelfBlocks == <>[](Quiet \/ SelfBlocked)
=============================================================================
