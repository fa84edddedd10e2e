# A TLA+ model of hiker's core

hiker is a note-taking application over a directory of Markdown files: a Rust
core (`core/`), a desktop UI (`app/`), an MCP server through which agents read
and edit notes (`mcp-server/`), and satellites (git, canvas, code
intelligence). This directory models the parts in which order, failure and
concurrency decide whether the user's text and the tasks' outcomes survive:

- the **task queue** with everybody who calls it (section 3);
- the **layered document**, through which every edit of a note goes, and what
  happens to it when its note is moved, deleted and restored (4);
- the **index pipeline** from a change on disk to the search index, and the
  file verbs that go through it (5);
- the **editor session**: open buffers, autosave, crash and recovery (6);
- **git sync**: the debounced task, the source-control panel, the user's own
  git and the peers (7);
- **cluster trees**: the sidebar's verbs, undo and redo beside a naming task
  (8).

TLC checks the models on small instances; TLAPS proves, for all instances, what
matters most of each of them: every safety property the runs check is stated by
a theorem (section 9).

Run inside this directory, for example

    tlc -workers 2 -config TaskQueue.cfg MCTaskQueue
    tlc -workers 2 -config LayeredText.cfg MCLayeredDoc
    tlc -workers 2 -config VaultFiles.cfg MCVaultFiles
    tlc -workers 2 -config IndexSync.cfg MCIndexSync
    tlc -workers 2 -config EditorSession.cfg MCEditorSession
    tlc -workers 2 -config GitSync.cfg MCGitSync
    tlc -workers 2 -config ClusterTree.cfg MCClusterTree
    tlapm TaskQueueProofs.tla
    tlapm TaskHostProofs.tla
    tlapm LayeredDocProofs.tla
    tlapm VaultFilesProofs.tla
    tlapm IndexSyncProofs.tla
    tlapm EditorSessionProofs.tla
    tlapm GitSyncProofs.tla
    tlapm ClusterTreeProofs.tla

## 1. Inventory

| Component | State | Operations | Interacts with | Hard because | What makes it correct |
|---|---|---|---|---|---|
| Task queue `core/src/tasks/queue.rs` | `slots` (row: state, lease, sender, timestamps), configuration; all under one tokio mutex; nothing is persisted | submit, submit_self_managed, cancel, checkout_direct, checkout_mcp, submit_result, fail, heartbeat, tick_maintenance, set_cfg | producers through one-shot handles; workers through leases and stop signals | a lease holder comes back at any time, after expiry, cancel or re-lease | one outcome per task, told to the producer; no task lost, none run twice at once; a cancel reaches the right worker |
| Direct worker `core/src/tasks/handlers.rs` | its place in the loop, the task in hand | poll, checkout, chat with retry, record outcome | queue, LLM client | holds a task across an await of any length | every checkout ends in a report or a cancel |
| MCP task tools `mcp-server/src/handler/dispatch/tasks.rs` | none; the client's belief | task_checkout, task_submit, task_fail, task_heartbeat | queue | clients vanish | a dead client's task comes back |
| Layered document `core/src/editing/` | per note: accepted text, tombstone, unsaved working text, queue of proposed operations; `.md` and `.pending` files | load, type, discard, save (four critical sections), fold in, stage, accept, reject, auto-reject, create, tombstone, forget, rename, restore | UI thread, agents through `ops/op_writes.rs`, git sync, indexer, rules | multi-step verbs between which other threads run; disk writes that fail; text that moves under queued operations | the file is the accepted text; typing survives; nobody's change is undone; proposals wait until they are decided, across restarts |
| Operation verbs `core/src/ops/op_writes.rs` | none | bootstrap, staging for agents, flips, auto-reject | layered document | compose several locked calls | as above |
| Three-way merge `core/src/merge.rs` | none | three_way_merge, multi_span_delta | layered document, git sync | overlapping edits | both sides' disjoint changes survive |
| Indexer `core/src/indexer/` | bounded job channel, pending set, embedder, SQLite rows, the full scan under way | upsert, created, delete, rename, move, trash, restore, full scan, embedder reload, date sweep | watcher, store, layered document, rules, task queue, file verbs | its file moves take several steps outside the document's lock; it sends jobs to itself; it waits for a model at start | the index converges to the files; a note marked "queued" is in flight; a verb that waits is answered |
| Watcher and router `core/src/watcher.rs`, `route_watcher_events` in `core/src/indexer/mod.rs` | suppression map with a time window, debouncer, broadcast of bounded capacity | suppress, translate, overflow, lag | indexer, every writer | self-writes and others' writes within one window; a slow receiver | no outside edit is missed for ever |
| Git sync `app/src/git_sync/`, `app/src/source_control/`, `hiker-git/` | repository, `known_sha`, the Notify's permit, the panel's cached status | commit a save burst, reconcile, fold, commit a rename; stage, unstage, discard, commit, pull, push, sync, finalize | layered document, libgit2 under one lock, terminal git, remote | reads a file outside the document's lock; HEAD moves under it; a merge stays open across many steps | nothing the peer or the user wrote is lost; a merge that ends is recorded |
| Trash, snapshots, restore `core/src/trash.rs`, `snapshot.rs`, `vault.rs` | trash entries, snapshot files | delete, restore, prune | indexer, layered document | several files per step | delete and restore are inverse |
| Editor buffers `app/src/buffer.rs`, `editor_pane.rs`, `panels/buffer/editor_binding.rs` | text, `loaded_text`, `loaded_hash`, generation; the mutation in flight | open, bind, type, save, close, discard, rename, reload, mutate | layered document (mirrors the text into it each frame), watcher, autosave, mutation workers | the buffer and the document each hold the text and overwrite each other | what the user typed and did not save is held somewhere |
| Autosave `core/src/autosave.rs` | index and sidecar files; up to any number of tasks on the blocking pool | tick, write, clear, recover | buffers, crash | tasks are not ordered; crash between two writes | recovery brings back the unsaved text |
| Rules, inbox `core/src/rules.rs`, `inbox.rs` | rule set | rewrite on ingest, move new files, date sweep | indexer, layered document | rewriting triggers ingestion | rules reach a fixpoint |
| Cluster trees `core/src/trees/`, `app/src/clusters/sidebar/` | the tree in a note's frontmatter, the session's history, the sidebar's copy and redo stacks | rename, move, merge, merge up, drop, split, undo, redo, name by a model, discard | naming task, UI thread, layered document (as the file) | load, change and save without a lock; an inverse is computed before and applied later | no note falls out of the tree; undo leads back; the user's names stand |
| Links, trails, boards, cluster algorithms | derived SQLite rows, generated notes | rewrite referrers on a move, rebuild | indexer | partial rewrites | derived tables follow the notes |
| Store, search, embeddings, chunker, queries, pm, kinds, wikilinks, suggest, config | SQLite, in-memory caches | sequential reads and writes | everything | little interleaving of their own | results match their inputs |
| MCP server (other tools) `mcp-server/src` | sessions, audit log | note tools | op_writes | agents run concurrently with the user | goes through the layered document |
| Application UI `app/src`, widgets, canvas, theme, projects, llm | view state | rendering, input | all | one UI thread plus pollers | view of the above |
| code intelligence, cli, lite, tools, site | separate programs | | | | |

How they meet: a producer (a panel, the cluster builder) submits a task and
waits on its handle; the direct worker or an MCP client leases it, calls a
model and reports; the outcome typically becomes an operation *staged* on a
layered document; the user reviews it, and an accept writes the `.md`; the
watcher reports the write and the indexer reads it again.

## 2. Plan

1. *(done)* `TaskQueue`, the queue alone; `TaskPromise`, what it promises;
   `TaskHost`, the queue among its callers; `TaskQueueProofs`.
2. *(done)* `LayeredDoc`, the document with its files, the four-step Save,
   staging, review, failures and restarts.
3. *(done)* `IndexSync`: watcher, router, job channel and indexer task, with
   the file verbs, trash, restore, rules, the full scan and restarts; does the
   index converge?
4. *(done)* `EditorSession`: buffers over the layered document, autosave,
   crash and recovery.
5. *(done)* `GitSync`: the reconcile task and the source-control verbs against
   a terminal, peers and an open merge.
6. *(done)* `VaultFiles`: the indexer's file jobs and the Trash panel over
   `LayeredDoc`.
7. *(done)* `ClusterTree`: the load, change and save of the tree by the UI
   thread and the naming task, with undo and redo.
8. *(done)* `ReviewPromise`, an abstract specification of review, which
   `VaultFiles` refines. *(left)* `forget` and folder moves.
9. *(done)* Proofs of the safety invariants of `TaskHost`, `LayeredDoc`,
   `VaultFiles`, `IndexSync`, `EditorSession`, `GitSync` and `ClusterTree`, a
   module each; and that `TaskQueue` refines `TaskPromise` and `VaultFiles`
   `ReviewPromise`.

## 3. The task queue

### Modules

`TaskQueue` has the variables `slots` (`QueueState.slots`, with absent ids as
the record `NoSlot`), `handle` (what the producer's end of the one-shot channel
has seen), `stop` (the workers' current `StopSignal`) and `cfg`. Every public
operation that changes state is one action of the same name, because the code
takes the queue's mutex once per call. A `SystemTime` is kept as the time left
to it (`lease.left`, `grace`) or past it (`age`), and `TimePasses` moves all of
them. The drain order is `Outranks`/`Best`; where the code's scan of its map
decides between ties, the model chooses freely. The output schema is a bit of
the task and the report says whether the value fits it.

`TaskPromise` says what the queue promises about each task, without leases,
workers or time: it opens once, settles at most once, and a producer that
still waits is answered in the very step that settles it. `TaskQueue!Promise`
is the instance with the refinement mapping, `KeepsPromise` the property.

`TaskHost` adds the callers. A direct worker goes idle, polling, calling,
retrying, deliver or giveup (`DirectWorker::run`, `drive_one_task`,
`record_outcome`); between any two of its steps everybody else moves. MCP
clients take, report, heartbeat and vanish. The indexer has one load in
progress. `AppNext` has no tick and no `SetCfg`, because the application calls
neither (its settings panel writes the file only); `TickedNext` adds both, as
the documents have it.

### Runs

| cfg | what it shows |
|---|---|
| `TaskQueue` | `RowsConsistent`, `NobodyLeftWaiting`, `SelfManagedStaysPut`, `LiveLeaseNotStopped`, `FirstOutcomeWins` and the refinement `KeepsPromise`, with callers that may call anything at any time (the type invariant is proved, `TypeCorrect`) |
| `HostApp` | as the application is wired: `LeaseHasWorker`, `OneRunner`, `HolderSettles`; `CancelFreesWorker` although model calls may hang; `DirectTasksSettle` if they return and the worker is enabled |
| `HostUnticked` ✗ | `ExpiredLeaseEnds`: `docs/task-queue.md:193` has a lease that runs out return its task to the queue; nothing ticks, so the row stays with a client that is gone |

✗ marks a run whose one property states what a document or comment says and
that TLC finds violated by what the code does. More disagreements that the
model's definitions show, without a run of their own, are in the last section.

`HolderSettles` and `OneRunner` are invariants of the application only because
nothing there requeues a row. With the tick wired they fail, as a report is
matched by the id of its task and not by its lease; this is the price of the
at-least-once delivery that the tick would bring, and the reason why `HostApp`
runs `AppLoops`.

**Bounds.** `TaskQueue`: two ordinary ids and one self-managed, one direct
worker, two task descriptions that differ in rank, lane, schema and stamp, one
lease length, lease 2 for the self-managed row, grace 0 or 1, retention 1. Two
ordinary rows are what it takes to confuse one row's signal, sender or rank
with another's; one time unit is enough to be on either side of each deadline,
and `age` is cut off one unit past the retention, where the code's comparison
no longer changes. `HostApp` has two ordinary rows and a self-managed one, one
worker, which is on (the application never turns it off while it runs), and one
client, which may vanish. `HostUnticked` has one task,
two clients, of which one may vanish with the lease, and the worker, so that
there is somebody to take the task over. In the other runs what is left out is named in the cfg by an empty set.

**Fairness.** `WF` of the clock, of each worker's own loop (a tokio task that
is always scheduled again: it polls every 250 ms), and, where the run says so,
of model calls that return (`ChatFair`) and of the load's end.
`ClientFair` is an assumption about clients, not about the code: they poll,
they report, and they do not miss every single deadline (`SF` of reporting
while the lease is live). Nothing is assumed of producers, users and
settings. `HostApp` assumes `LoopFair` only, so that model calls may
hang; `DirectTasksSettle` takes `ChatFair` and an enabled worker as its
hypotheses, and counts a direct task that an MCP client has taken as served:
one that vanishes with it keeps it, as no tick runs. `HostUnticked` assumes all
of the above, that is `AppServes`, and no tick, which nothing schedules: even so
an expired lease does not end.
Deadlock is not checked: with every id used and nobody calling, the system
rightly stops.

## 4. The layered document

### Modules

`LayeredDoc` keeps `disk` (the `.md` files), `queued` (the `.pending` files),
`docs` (the loaded documents, `Inner.docs`), the Save and the auto-reject sweep
the UI thread is in, and history variables: `fate` (what became of each
operation) and `typed` (where the user typed since the last save or discard).
An operation is `adrift` when it waits in one place and not in the other: a
batch that ended with an error leaves its first edits in memory only, and a
note created where another one was leaves that one's queue file unread.

A text is a function from places to words. Edits are anchored by a word, which
resolves when it occurs exactly once (`resolve_anchor`); the byte-wise
three-way merge is done place by place. What this keeps is which party's word
stands where, whether an anchor is missing or ambiguous, and which places
differ; what it drops is the choice of hunks, overlapping spans and the
conflict presentation. Document ids are paths, as in the code.

| Code | Actions |
|---|---|
| `ensure_loaded` | `Open`, inside every verb |
| `commit_working` | `SaveBegin`, `SaveRecheck`, `SaveCommit`, `SaveClear`: one per critical section |
| `commit_text_edit` with its early return, resurrection, mirror on `working` and `.md` write | `CommitText`, used by `SaveCommit` and `FoldIn` (`apply_user_text`, `apply_user_edit`, `apply_external_edit`) |
| `apply_working_edit`, `replace_working`, `discard_working` | `Type`, `Discard` |
| `stage_pending` | `StagePending` with `Reached`, `Staged`, `Needs` |
| `stage_content_op`, `stage_pending_renames` | `StageContent`, `StageRename` |
| `accept_pending` | `AcceptPending` with `Blocked`, `Occupied`, `Landed`, `QueueMoved`, `DiskAfter`; `outcome` says which write fails |
| `reject_pending` | `RejectPending` |
| `accept_batch`, `reject_batch`, `flip_op_status` | sequences of those two, each of which takes the lock anew |
| `auto_reject_drifted` after a save | `SweepBegin`, then per operation `SweepCheck`, `SweepReject` or `SweepStale`; a check and its reject are under different locks |
| `create_document`, `tombstone_document`, `ensure_on_disk` | `Create`, `Tombstone`, `EnsureOnDisk` |
| start of the application, `bootstrap` | `RestartApp`; a program that opens the vault without seeding is `Reopen` |

`VaultFiles` extends it with the notes' files and the trash. A move, deletion
or restoration is a job of the indexer task: it changes the file first and the
document afterwards, under its lock, and everybody else runs in between, but
the UI thread when it is what asked (it blocks on the reply). A move an inbox
rule makes, or a restoration, does not block it.

| Code | Actions of `VaultFiles` |
|---|---|
| `vault::move_note`, `delete_note`, `restore_note`, called by the indexer's jobs | `MoveFile`, `TrashFile`, `RestoreFile` |
| `rename_document`, `tombstone_document`, `restore_document`, called after it | `MoveDoc`, `TrashDoc`, `RestoreDoc` |
| `trash::apply` of the Trash panel, `permanent_delete` | `PanelRestore` (the file only), `Purge` |
| quit or crash, between the two steps too | `RestartVault` |
| everything of `LayeredDoc` meanwhile | `Meanwhile(DocumentNext)` |

The user's actions and the review of anchored edits run on the UI thread, so
they wait while a Save or a sweep is in progress (`UiIdle`); folds, staging and
the accepts of producers do not. A failing write is one of at most `MaxFaults`
and leaves memory and disk as the code's `?` does.

### Runs

| cfg | what it shows |
|---|---|
| `LayeredText` | `DiskIsAccepted`, `QueueOnDisk`, `OpsKept`, `WorkingIsAcceptedPlusTyped`, `TypingSurvives`, `DependenciesFirst`: one note under typing, saves, folds, staging, review, sweeps, deletion, a failing write, a vanishing file and a restart that loads lazily |
| `VaultFiles` | `FilesFollow`, `QueuesFollow`: a live document's file is there and is its accepted text, a deleted one's is not, and no proposal is forgotten, wherever notes were moved, deleted and restored to; `KeepsReview`: the vault implements `ReviewPromise` |
| `LayeredSeed` ✗ | the application's restart forgets the queue: `bootstrap` caches each document with an empty one (`docs/op-log.md:160`) |

**Bounds.** Two places, so that one party's change and another's can be
disjoint or collide; six words, one per party and step, so that every word
tells who wrote it; three operations (an edit, its follow-up and another edit)
where dependencies matter; one text that a new file, a whole rewrite and an
outside change hold; one write failure or one file that vanishes (with one of
each, 5.2 million states, the run passes too, in more than its time); one
restart. Whole-note
rewrites are staged, folded and accepted like edits. The run stays within one
condition: the words are chosen so that drift never makes an anchor ambiguous
(else `WorkingIsAcceptedPlusTyped` fails). It is the definition `Unambiguous`,
the hypothesis under which that property is proved for every instance (section
9); the last section says what the code does outside it. `TypingSurvives` needs
no condition and names what does replace the user's word where accepted stays
as it is: an operation that lands or is rejected and is a whole rewrite, or
whose anchor is that very word. The user types one word here that no anchor
names, so that TLC meets the first of the two only; the theorem covers both.
That a batch is one edit here is a bound only, which the proofs do without.
`DiskIsAccepted`, `QueueOnDisk`, `OpsKept` and `DependenciesFirst` are stated
while writes succeed; the last
section says what a failing one does. `LayeredText`
restarts as a program that does not seed the vault (`LayeredSeed` does).
There is no liveness here: nothing in the code decides, saves or accepts by
itself.

`VaultFiles` has texts of one place (the merging of texts is `LayeredText`'s),
two paths, one operation, two jobs and one restart: a note's queue, file and
document part company when a second note comes to its path, which takes two
jobs. Its type invariant, `VTypeOK`, is proved (section 9). The restart is a lazy
one, as the seeding of the application loses the queue by itself
(`LayeredSeed`). Two history variables name the causes for which the
properties make an exception, each an outcome the code permits: `astray` has
the paths whose file was written between the two steps, or taken by a deleted
note that somebody renames; which the Trash panel or an older trash entry
brought back under a document that remembers another text; whose file an
accepted rename removed; to which an unloaded or astray note was moved; or
where a note was created over an old queue file. `buried` has the operations whose queue another
note's took the place of.

`ReviewPromise` says what review owes to each proposal, without documents,
files and paths: from `Stage` it is kept in a queue until `Decide` accepts or
rejects it, which happens once and takes it out of the queues for good; but
that a batch which ends half-way, or another note's queue (`buried`), may set
it `loose`. `broken` says that a write has failed and ends the promise.
`VaultFiles` maps `fate` and `buried` to the first two and the queues in memory
and on disk to `kept`. With the queue file left as it was by a rejection,
for example, a restart would bring a rejected proposal back.

## 5. The index pipeline

`IndexSync` follows a change on disk to the row of the `notes` table.

| Code | Definitions |
|---|---|
| other programs, git, the editor's Save | `Write`, `Remove`, `Rename`; the kernel may report an overflow instead |
| bridge thread of `watcher.rs`, suppression and its 2 s | `DispatchOne` with `DropSuppressed`, `Expire` |
| broadcast of capacity `EventCap`, lagging receiver | `Broadcast`, `lagged`, `RouterRecv` |
| `route_watcher_events` | `RouterRecv`, `JobOf`, `RouterSend`, with `HasRoom` of the bounded queue |
| file verbs of `ops/file.rs` and the UI's requests | `CreateAt`, `MoveNote`, `DeleteNote`, `RestoreNote`, `PanelRestore`, `ReloadEmbedder`, `DateSweep`, `ReindexAll`, and the call's own progress `AppSend`, `AppResume` |
| the indexer task's loop | `TakeJob` (one `Take...` per job), `Read`, `Store`, `LinksDone`, `Done`, `ScanStep` |
| the model's load at start, and its failure | `LoadModel`, `DrainOnFailure` |
| an error of `process_upsert`, which `handle_upsert` logs | `UpsertFails` |
| rules, inbox, link rewriting | `RuleWrite`, `Rewrite`, `SelfSend` |
| start of the application | `Restart` |

A row is the hash it was made from, the embedder version and the skip mark; a
text is a content the indexer can embed or one it refuses. Reading a file,
storing its row, and sending the follow-up jobs are separate steps, because
everybody else writes between them. Three history variables say what the code
itself gives up: `lost` collects the paths the pipeline loses sight of, each
time at the definition that does it, `leaked` those left in the Queued marker.

| cfg | what it shows |
|---|---|
| `IndexSync` | `StaleIsLostOrUnread`: a path that a drained pipeline has not indexed as it is on disk is one whose event was dropped or whose last job gave up on it (`lost`), or one whose event nobody has received; `PendingIsInFlight`: a queued marker goes out, but for `leaked`; `AwaitedIsQueued`: a verb's caller waits exactly as long as its job lives; `SettlesOrSelfBlocks`: the pipeline drains, or the task has blocked itself |
| `IndexUnrouted` ✗ | `QuietMeansIndexed`, that no event is left unread, as the application wires the router: its future is bound and never polled, so no outside change is ever indexed (`app/src/bootstrap.rs:609`) |

`StaleIsLostOrUnread` has exceptions because the code has. `lost` grows

- where an event is suppressed although its path is not indexed as it stands;
- where an upsert fails: the file cannot be read, the model refuses the text, or
  the store fails. The marker goes, the error is logged, and nothing tries
  again;
- where the store refuses a delete, a re-key or a scan's step, and where a
  re-key takes over a row whose content is not the disk's;
- at a Delete processed while the file exists again;
- where a skip mark keeps a hash it no longer stands for;
- where a full scan's walk cannot reach a file, and, between a start and the
  scan that it queues, everywhere.

A path leaves `lost` when a later job gets it right. That lag, overflow, a full
queue, a restart, a model that does not load or a job overtaken by a write lose
nothing beyond these is what the run and the theorem show.

**Bounds.** Two indexable paths and one that is not, so that a move can change
what a file is; two contents and one the indexer refuses; both queues of
capacity 1, so that they are full at once and everybody who sends has to wait
or lag; two versions of the embedder, one rule that moves a new file, two
steps of the outside world and one restart. Each hazard listed at these
definitions needs at most two outside steps; the theorem has no such bound.

**Fairness.** `WF` of the bridge thread, the router's two steps, the caller's
two steps and the indexer task. All are threads or tokio tasks that loop for
ever; what they wait for is in the guards. The expiry of a suppression, the
outside world and restarts are not fair. Deadlock is not checked: a drained
pipeline rests.

## 6. The editor session

`EditorSession` has a note's text in the five places where the application
keeps it: the file, the document's accepted and working text, the buffer
(`text`, and `loaded` for `loaded_hash`), and the autosave sidecar with its
entry in the index.

| Code | Definitions |
|---|---|
| `try_ensure_vault_buffer_loaded`, tab close | `OpenBuffer`, `CloseBuffer` |
| `editor_binding.rs`: bind, reverse and forward step of a frame | `Frame` with `Bound`; `Mirrored` in `Type` |
| typing, Save, Discard | `Type`, `Save`, `Discard` |
| `files/rename.rs` | `Rename`: file, document, buffer and sidecar key as the code moves them |
| watcher events of the UI, `maybe_reload_clean_buffer` | `Write`, `Reload` |
| mutations | `Submit`, `Answered` |
| `autosave_tick`, the tasks on the blocking pool | `Tick` with `Gather`; `DoCall`, one store call of one task |
| crash, start, `recover`, `apply_restore` | `Crash` with `HalfDone` (between the sidecar's write and the index's), `Restart` with `Stale`, `Restore` |

`unsaved` remembers what the user typed and has not saved, `gathered` what the
last tick set out to do, `late` the paths for which an older task still has a
call to make; `raw`, `apart` and `lost` collect the causes that the
properties name.

| cfg | what it shows |
|---|---|
| `EditorSession` | `UnsavedIsHeld`: unsaved text is in the buffer, the working text or a sidecar that recovery will accept; `StoreMirrorsTick`: the store ends up with what the last tick wanted; `CleanIsOnDisk`: a buffer that reads clean shows the file; `SidecarsSettle`: at rest the sidecars are exactly the dirty buffers |
| `EditorRecovery` ✗ | the recovered text is put into the buffer and replaced by the next frame (`app/src/widgets/modal.rs:401`) |

**Bounds.** Two paths, since a rename needs a second one; three texts, so that
saved, typed and foreign text differ; two autosave tasks at once, the least
that can overtake each other; five steps and one crash. Six steps, and two
crashes, were run without liveness.

**Fairness.** `WF` of the tick (frames go on and the 5 s pass), of each blocking
task's next call, and of restoring the next recovered entry at start. Nothing
is assumed of the user. Deadlock is not checked: the user may rest.

## 7. Git sync

`GitSync` keeps the repository as the code sees it (a commit is its tree and
the commits it descends from), the working tree, the layered documents'
accepted text, `known_sha`, the Notify's permit and the task's place in its
loop.

| Code | Definitions |
|---|---|
| notification of a save, rename commits | `Save`, `RenameNote` |
| `spawn_commit_task`: wait, debounce, one pass | `Wake`, `Burst` (integrated), `Check`, `FoldRead`, `FoldWrite`, `AdoptHead` (manual), `Rest` |
| the pass's errors, which are logged or dropped | `BurstFails`, `FoldFails`, `ReconcileFails`; a rename's commit that fails, in `RenameNote` |
| `source_control/`: stage, unstage, discard, commit, pull, push, sync, finalize, refresh | `Stage`, `Unstage`, `Discard`, `CommitStaged`, `Pull`, `Push`, `FinalizeMerge`, `Refresh` |
| `hiker-git/src/repo.rs` | `WriteCommit`, `StageAll`, `FastForward`, `MergeClean`, `MergeConflicted`, `Refuses`, `Diverged` |
| other programs, the terminal, peers | `Write`, `UserCommit`, `UserCheckout`, `PeerPush` |

The backend runs under one lock, so each verb is one step; the reconcile takes
it anew for the check and for every file, reads the file outside it and folds
later, which is why it is four actions. What libgit2 decides (which paths
conflict, when a merge refuses a dirty tree, what a checkout writes) is
external and modelled at the granularity of one hunk per file.

| cfg | what it shows |
|---|---|
| `GitSync` | `SavedIsKept`: saved text is on disk until a commit has it; `UnfoldedIsSeen`: in manual mode an outside change stays visible to the next reconcile; `EndedMergeIsRecorded`: a merge ends in HEAD's history or as no change; `SavesAreCommitted`: in integrated mode every save reaches a commit, unless the last pass's commit failed and no save comes after it |

The exceptions are again the code's own and are collected where they happen:
`given` (a discard, another program's write, a fast-forward's forced checkout,
a fold of a stale read) and `missed` (a commit, rename, pull or moved HEAD that
sets `known_sha` past a change nobody folded, a fold that fails, or a file that
came back to what a known commit has). `pass.failed` says that the last pass's
commit failed: another git holds `.git/index.lock`, say. The task has used up
the Notify's permit by then (`app/src/git_sync/mod.rs:420`) and only logs the
error (`:449`), so that what it should have committed waits for the next save's
pass, which commits everything. That it does is what `SavesAreCommitted` says.

**Bounds.** Two paths, one or both in the vault at first; three texts, of which
peers and other programs write two, so that a conflict and a clean merge both
happen and they may bring what the user has saved; both modes; five steps of user, peers and other programs. A
conflicted merge that is resolved, staged and finalised takes four of them.
With six, the first 26 million states, breadth first, met the safety properties;
the theorems have no such bound.

**Fairness.** `WF` of the spawned task's own steps (`Pass`): tokio goes on
running it, and its debounce ends. Nothing is assumed of the user. Deadlock is
not checked: the vault may rest.

## 8. Cluster trees

A cluster tree is one note whose frontmatter is the tree. `ClusterTree` has
the file (`tree`), the session's history (`log`), the sidebar's redo stack and
its copy of the nodes, and what each of the two writers is about to do: the UI
thread in a verb, and the spawned task that lets a model name clusters. A verb
is a list of the database's calls, in the order in which the code makes them.
Every call loads the file, changes the copy and saves it (`Db::mutate`) with
no lock across, and appends to the history afterwards under a lock of its own:
`Load`, `Save` and `AppendHistory` are separate steps, so that the task runs
between any two of them. While no naming is under way the UI thread is the only
writer, and its load and save are one step.

| Code | Definitions |
|---|---|
| `Db::mutate`: `load`, the change, `save` | `Load`, `Save` with `Apply`, `Fits` (the `?`s), `Returns` (the churn's walk up the parents); `Fail` |
| `rename`, `auto_set_name_summary`, `move_node`, `merge_siblings`, `merge_children_up`, `drop_cluster`, `insert_single_node`, `reparent_many`, `delete_node` | the cases of `Apply`, with `Named`, `Leaves`, `Dropped`, `Absorbed` |
| `append_history`, `pop_last_history` | `AppendHistory`, `PopHistory`, with `Entry` and `Logs` |
| verbs of the sidebar, with what its menus offer | `RenameNode`, `MoveNode`, `MergeSiblings`, `MergeChildrenUp`, `DropCluster`, `SplitCluster` |
| `perform_undo`, `apply_undo`, `restore_node_row` | `UndoLast`, `Undo`, `Restored` |
| `perform_redo`, `apply_redo` | `RedoLast` |
| `regenerate_names`, `summarize_subset`, `poll_cluster_llm_job` | `NameClusters`, `FinishJob` |
| `delete_tree` | `DiscardTree` |

A node's name and summary are one text, with one mark that the user wrote it.
Which leaves a split puts where is left open, but that both halves get some.

| cfg | what it shows |
|---|---|
| `ClusterTree` | `NotesHang`: no note falls out of the tree, and at rest every node hangs from a root; `StackInStep`: the history's entries fit together and the last one left the tree as it is; `UserTextStands`: what the user wrote on a node stays, whatever the model answers and whatever is done and undone around it |

Each property makes an exception for what `amiss` says went wrong, and only
for those of its causes under which it fails: a save that overwrote another
writer's (`overwritten`), a naming that met a verb's steps (`crossed`), the
bucket dropped into itself (`bucket`), a redo on a tree other than the one the
verb had changed (`replayed`), and a split that took leaves from deeper down or
the ids of an earlier split (`deep`). That no note is lost is said without any
exception, that all nodes hang from a root with each of them; `StackInStep`
stands `bucket` and `replayed`, and `UserTextStands` stands `crossed` as well.
That these do no harm there is part of what the run shows; the last section
says what the others do.

What the user wrote on a node (`given`) is forgotten where the node goes for
good: an undone split deletes the two halves, and a split that is done again
after it makes new ones. The trees a session starts with hang from their roots
(`TreesHang`), as the builder makes them.

**Bounds.** Two clusters, a bucket and two notes, and the ids of the two halves
of one split: the least in which every verb applies, a merge and a drop have
something to move, and a split can be repeated. Undo and redo are not bounded;
verbs are, by `MaxSpent` = 3, of which a naming takes two; and once
something is amiss only undo and redo follow. So three verbs with
any undo and redo between them are explored, and one beside a naming task.
There is no liveness: the user may rest, which is why deadlock is not checked
either.

## 9. Proofs

Every theorem holds for all values of the constants that meet the module's
`ASSUME`: any number of paths, workers, tasks, words, operations, steps,
restarts and crashes. An invariant of a run is seldom inductive as it stands;
the strengthening is defined at the end of the component's module (`IInv`,
`HostInv` and `AppInv`, `LayeredInv`, `VaultInv`, `SyncInv`, `SessionInv`,
`GitInv`), where
TLC has been run on it as an invariant of the component's instance before it
was proved. `ClusterTree`'s (`NotesInv`, `InOrder`, `TextMain`, `StackMain`,
`HangMain`) speak of what the lists of pending calls lead to and stand in its
proof module; the parts that TLC can evaluate were run on the instance with two
verbs in full, and with three and more by simulation. Each proof module first has facts about the data (records,
sequences, functions), then what the operators of the model return, then one
lemma per action, and the theorems last.

### The queue and its callers

`TaskQueueProofs` proves, for every set of ids, tasks, kinds, workers, lease
lengths, grace windows and retention that meet `QueueConstants`:

- `TypeCorrect`: `Spec => []TypeOK`;
- `Consistent`: `Spec => []RowsConsistent`;
- `Answered`: `Spec => []NobodyLeftWaiting`;
- `SelfManaged`: `Spec => []SelfManagedStaysPut`;
- `SignalsReach`: `Spec => []LiveLeaseNotStopped`;
- `QueueInvariant`: `Spec => []IInv`, from which they follow.

and, of the steps and of what the queue promises its callers:

- `FirstOutcome`: `Spec => FirstOutcomeWins`, a settled row keeps its state and
  detail until it is removed;
- `QueueKeepsPromise`: `Spec => KeepsPromise`, the queue implements
  `TaskPromise`.

The four safety invariants are not inductive one by one.
`NobodyLeftWaiting` needs to know that a row with a sender is unsettled and
that a self-managed row has none (`RowsConsistent`): otherwise a tick, which
fails an orphaned row and answers nobody, or the removal of a row could strand
a producer. `SelfManagedStaysPut` needs the worker kind of every lease;
`LiveLeaseNotStopped` needs that no two leases share a signal. Their
conjunction with the type invariant is `IInv`, on which TLC was run in the
instance of `TaskQueue.cfg`. The proof restates all but the signals as a
predicate of one row and its handle (`RowInv`), proves one lemma per kind of
step on a single row (settle, lease, heartbeat, requeue/orphan/remove, ageing),
lifts a step that changes one row to the whole table (`OneRow`), and treats
the signals apart (`SignalsKept`): a step that neither leases a row nor fires a
signal keeps them. `NextInv` then has one step per action.

The refinement goes row by row as well. `Moves` lists what one step may do to a
row and its handle: open it, settle it (answering whoever waits), remove it,
lose its producer, or keep its outcome. `NextMoves` shows, action by action,
that every step of the queue makes only such moves on every row, and needs
`IInv` for it; `MovePromised` maps each move, under `IInv` before and after the
step, to the step of `TaskPromise` it stands for. `FirstOutcome` follows from
`NextMoves` directly: a settled row has no producer waiting, so only removal
and keeping are left.

`TaskHostProofs` proves that everything done at the host is a step of the
queue or leaves it alone (`HostRunsQueue`), so that all of the above holds with
the callers as they are, and then

- `WorkersKeepLeases`: `AppSpec` and `TickedSpec` keep `LeaseHasWorker`;
- `WorkedOnOnce`: `AppSpec => []OneRunner`;
- `HoldersSettle`: `AppSpec => []HolderSettles`.

`LeaseHasWorker` is inductive only together with the queue's own invariant
(each lease has a signal of its own) and with the place of each worker telling
whether it holds a job. `OneRunner` says nothing of queued rows a worker
still has in its hand; `AppInv` adds that, without a tick, a row that is not
settled has no author and that whoever works on it is its lease's holder. The
tick breaks this, as section 3 says, and the theorem is not stated with it.

### The layered document

`LayeredDocProofs` proves of a program that opens the vault and reopens it any
number of times:

- `FileIsAccepted`: `DiskIsAccepted`, also with the application's own restart
  (`AppRestartSpec`);
- `QueueFileIsQueue`: `QueueOnDisk`;
- `OperationsAreKept`: `OpsKept`;
- `DependenciesLandFirst`: `DependenciesFirst`;
- `WorkingFollowsAccepted`: `WorkingIsAcceptedPlusTyped`, if `Unambiguous`
  holds throughout;
- `TypingStays`: `TypingSurvives`, whole rewrites and both kinds of restart
  included;
- `LayeredInvariant`: `LayeredInv`.

`QueueOnDisk` needs that ids are minted in order and that each is named at one
path only (`Minted`, `Separate`): an operation that left one queue would
otherwise be missing from another's file. `OpsKept` needs its stronger form
`Filed` (a waiting operation is in the *file* of its path, and in memory where
that is loaded), or a reopening would lose it; `DependenciesFirst` follows from
it, because an accept looks for the predecessors in one document's queue.
`Undecided` is the converse, that nothing decided still waits. `Separate` also
says that no rename waits: `LSpec` has none, `VaultFiles` does.

`WorkingFollowsAccepted` is false without its hypothesis, and what the code
does there is listed in section 11. `Unambiguous`: where there is unsaved text,
the anchor of a waiting edit occurs at most once in accepted and in working. TLC
found it true, and `LayeredInv` with it, in every state of `LayeredText`'s
instance, so the theorem covers that run and is not empty. `TypingStays` has no
hypothesis: what may replace the user's word is part of `TypingSurvives`, and
the proof goes through every step that changes working text.

### Notes that move

`VaultFilesProofs`, which extends `LayeredDocProofs`, proves of `VSpec`:

- `VaultTypes`: `VTypeOK`;
- `FilesFollowDocuments`: `FilesFollow`;
- `QueuesFollowDocuments`: `QueuesFollow`;
- `ProposalsAreDecidedOnce`: `Undecided` always, and `DecidedOnce`, by which a
  step may stage an operation, give it up or decide it, and leaves what was
  decided;
- `VaultKeepsReview`: `KeepsReview`, the vault implements `ReviewPromise`;
- `VaultInvariant`: `VaultInv`.

`FilesFollow` speaks of the time between two jobs. Its strengthening
`FilesHeld` says of a job under way what its document step relies on (`FileOf`):
the note's old path has no file and its document, not yet moved, has the text
that now lies at the new one; what the target or a restored path has cached is
about to be replaced. Each step of everybody else must keep this or have its
paths in `astray`, which is where each exception of the property comes from.
The steps that keep the files of all documents are told apart from the others
by `FileKept`.

`QueuesFollow` needs more than the queue's being the file's: at a path that is
astray they may differ, and yet an undecided operation must be in both or in
neither (`LiveFiled`), or a move of that note, which takes the queue file along,
would lose it. It also needs that an operation waits at one path only
(`OneHome`, the part of `Separate` that renames leave true): otherwise a
decision at one path would leave the operation at another, which is also what
`ProposalsAreDecidedOnce` rests on. The lemmas of `LayeredDocProofs` about
accepts assume that no rename waits; `AnyAcceptFacts` and `MovedPlaces` replace
them. `VaultKeepsReview` puts the two together: `Undecided`, `QueuesFollow` and
the order of ids say of every state what the queues keep (`KeptSays`), and
`DecidedOnce` of every step what becomes of an operation, by which each step is
one of the promise's (`OpPromised`). `DecidedOnce` is no property of a run; TLC
was run on it, and on `VaultInv`, in the instance of `VaultFiles`.

### The index pipeline

`IndexSyncProofs` proves of `Spec`, which needs no fairness:

- `PipelineKeepsType`: `TypeOK`, the two capacities included;
- `MarkersGoOut`: `PendingIsInFlight`;
- `RepliesAreOwed`: `AwaitedIsQueued`;
- `StaleIsAccounted`: `StaleIsLostOrUnread`;
- `SyncInvariant`: `SyncInv`.

`StaleIsLostOrUnread` speaks of a drained pipeline; its strengthening
`NothingForgotten` of one under way. Each path is indexed as it stands
(`Settled`), or is in `lost`, or something on its way will look at it
(`Awaits`): an event, the receiver's lag, a job, the read in progress, a scan.
Every step that consumes such a promise must keep it in another form, and this
is where each of the hazards of the component is an obligation of its own. A
step that fails consumes it and keeps it in no form; its path is then in
`lost`. The theorem holds whether the router runs or not, since it counts an
event that nobody has received; in the application nobody ever does
(`RouterSpawned` is false there), which is what `IndexUnrouted` shows.

### The editor session

`EditorSessionProofs` proves of `Spec`:

- `SessionKeepsType`: `TypeOK`;
- `CleanMeansSaved`: `CleanIsOnDisk`;
- `StoreMirrors`: `StoreMirrorsTick`;
- `UnsavedIsKept`: `UnsavedIsHeld`;
- `SessionInvariant`: `SessionInv`.

`CleanIsOnDisk` needs that the cached accepted text is the file's
(`CachedIsDisk`) and `UnsavedIsHeld` where exactly the text is (`AllHeld`): in
the working text, or, only where there is none, in a dirty buffer the host
filled, since a frame would replace that by the working text. For
`StoreMirrorsTick` with any number of tasks under way, the newest call that is
owed for a path is what the last tick wanted (`NewestIsGathered`).

### Git sync

`GitSyncProofs` proves of `Spec`, in both modes:

- `GitKeepsType`: `TypeOK`;
- `SavedTextIsKept`: `SavedIsKept`;
- `UnfoldedChangesAreSeen`: `UnfoldedIsSeen`;
- `EndedMergesAreRecorded`: `EndedMergeIsRecorded`;
- `GitInvariant`: `GitInv`.

`SavedIsKept` needs that what was saved last differs from HEAD's text while no
merge is in progress (`SavedIsUncommitted`), so that a checkout or a merge
which keeps a dirty tree keeps it. `UnfoldedIsSeen` needs what the reconcile
under way has already done with (`PassFolds`): between its check and its last
fold other programs write and HEAD moves. Passes that fail are steps like any
other in all of these. `EndedMergeIsRecorded` needs that a
commit descends from older ones only.

### Cluster trees

`ClusterTreeProofs` proves of `Spec`, for any nodes, texts, first trees and
number of verbs:

- `TreeTypes`: `TypeOK`, which is defined there;
- `NotesHangKept`: `NotesHang`;
- `UserTextKept`: `UserTextStands`;
- `StackKept`: `StackInStep`.

The difficulty is that an undo does what was computed when its verb was done,
call by call, while the naming task may save in between; and that a history of
any length may be undone, redone and undone again. None of the properties is
inductive, because none says what the entries of the history, the redo stack and
the pending calls will do.

That no note is lost (`NotesInv`) needs the least: a set `L`, the leaves of a
first tree, that every tree somebody holds contains and that no call in any
list merges away, deletes or puts a row over. It holds with everything in
`amiss`.

For the others `InOrder` says how the lists go: every undo is one of those
`Undo` computes, a pop comes only after a call that recorded an entry, and which
calls stand before which. On it rest two arguments.

*Who is there.* `TextMain` has a sequence `P` of sets of nodes, one for each
place between two entries: an entry leads from one to the next by the nodes it
took and those it gave, and what the pending calls still insert and delete leads
from the last to the tree. A node that is gone since some entry was recorded is
restored by that entry's undo, and its row there has the user's text.

*Where it leads.* A `Picture` is what an entry keeps of a tree. `Play(G)` says
that the pending calls of an undo lead from the tree's picture through pictures
in `G` to that on which the entry before ends, with a pop for each entry that
those calls record; of a redo, that one verb and its end are left; and otherwise
that the last entry ends on the picture of the tree, or will when the naming
task has recorded its own. With all pictures for `G` this is `StackMain`, from
which `StackInStep` follows. The heart of it is that the undo each verb records
leads back (`Undoable`), which `UndoableCall` and, of a split, `SplitBack` show.

That all nodes hang from a root is not a matter of the last entry but of every
tree on the way, some of which exist only between the calls of an undo.
`HangMain` takes for `G` the pictures that hang (`HungPics`) and adds
(`HangRest`) that what the sidebar offers is what the tree allows, since both
have the same shape at rest, and that each entry begins where its verb could be
done. That a tree hangs is a least fixed point, computed in the model by
iteration (`Under`); `UnderLeast` shows it to be the least closed set, which takes
an induction over the number of the iteration, done by way of the least
counterexample (`LeastNumber`). From there on, hanging is proved by
giving closed sets.

### What proving changed

A proof that did not go through was, where the model was at fault, a finding
about the model, and TLC then showed it on a wider instance than the run's:

- `EditorSession`: `UnsavedIsHeld` no longer counts the file as a place where
  unsaved text is held, which it had not to. A Save ends a file's being `apart`
  only where it writes what the buffer shows; and a note without a document
  that is renamed to where another's working text is cached gets that text into
  its buffer (`lost`).
- `GitSync`: a pull that brings what the user has saved has committed it
  (`saved`); `Inbound` has such a text now.
- `LayeredDoc`: a batch may end half-way, and a note may be created over an old
  queue file; the operations concerned are `adrift`, and `QueueOnDisk` excepts
  them. An operation is removed from a queue by its position, as in the code.
- `VaultFiles`: `FilesFollow` failed on a wider instance when, between the trash
  step of a note and its tombstone, another deleted note was renamed to its path
  or the Trash panel restored one there; `Refilled` now has these. `QueuesFollow`
  excepts, as `QueueOnDisk` does, what is adrift. An exception for a queue that
  a move carried off turned out not to be needed and was removed.
- `ClusterTree`: a node that an undone split deletes and a later split makes
  anew no longer counts as having the user's text. `NotesHang` held with a
  naming that meets an undo (`crossed`) in the run's instance only: the undo
  then pops the naming's entry and leaves its own; undoing that may move a
  cluster back under the half of a split, and undoing the split after it leaves
  the cluster under a node that is gone. It takes a verb more than the run has;
  `amiss = {}` excepts it now.

### Assumptions

Only the `ASSUME`s of the modules, which TLC evaluates in every run. They type
the constants, keep `None`, `Absent` and the like out of the sets they stand
beside, and make `Place` finite, a capacity at least 1, a self-managed lease
and the retention positive (the code clamps the retention to at least one
second and uses 3600 s for the lease), a client no worker and the call to clear
a sidecar no text. A cluster tree's halves have ids that no note has (the code
makes them from `split-` and a note's from `leaf-`), and the trees a session
starts with hang from their roots.

### Only model-checked

Every liveness property (`CancelFreesWorker`, `DirectTasksSettle`,
`SettlesOrSelfBlocks`, `SidecarsSettle`, `SavesAreCommitted`), which is out of
the prover's reach, and the four ✗ runs, which are counterexamples.

## 10. Not modelled

The components marked `not_modelled` in `PROJECT.json`, each with its reason.
Of the modelled ones:

- *Task queue*: broadcast events and snapshots for the UI, the audit log, the
  text of prompts and schemas, the clock's wall time.
- *Layered document*: disposable history snapshots, the choice of merge hunks,
  and `forget`, whose one caller never finds anything to forget (below).
- *Trash*: folders, orphaned entries and the manifest's own writing.
- *Index pipeline*: the debouncer's normalisation, ignore rules and symlinks,
  `MoveFolder` and `TouchAccess`, chunks, vectors and derived tables, which
  rule fires on what. Failures of the store in a move, deletion or restoration
  that somebody waits for: they are rolled back or reported to the caller.
- *Editor session*: a keystroke in the very frame of a reload or of a
  mutation's answer, failing autosave writes, tab state, force-save and the
  drift dialog, undo, previews and old versions, several tabs on one buffer.
- *Cluster trees*: how a tree is built and a split's groups are found, its
  recursion into the halves, the churn counter's value (only the walk that
  counts it), policies, expansion state, the redo stack's cap, several sessions
  on one tree, and rollups, folder renames and reclustering's own history entry,
  which nothing calls.
- *Git sync*: hunks, submodules, network failures, the amended variant of the
  automatic commit, deletions by peers, a pull during a merge (libgit2 refuses
  it), unstaging or discarding a conflicted path. A verb of the panel that
  fails, at once or half-way: the user is told. A Save or a rename that cannot
  write or move its file, and libgit2's cached index after a failed staging.

## 11. Where the code departs from its documents

Beside the four ✗ runs above, modelling met the following. Each can be read
off the definition that is named.

*Task queue*

- The application runs no `TickMaintenance` (`HostUnticked`): a vanished
  client's row stays leased for ever, and a settled one is never removed
  (`core/src/tasks/queue.rs:556`).
- `SubmitResult`, `Fail`, `Heartbeat`: a report is accepted after the lease
  expired, until a tick requeues the row; `docs/task-queue.md:341` says it is
  rejected as stale.
- `TickMaintenance`: it would requeue an in-process worker's row as well;
  `docs/task-queue.md:198` says those workers do not time out. `Maintained`
  keeps `lastWorker`, while `core/src/tasks/types.rs:265` has it populated only
  when somebody handles the row.
- `SetCfg`: nothing calls it, while `core/src/tasks/handlers.rs:82` expects the
  user's toggle to reach the running worker.
- `CheckoutMcp`: with preference `internal` it takes a direct task from under
  an idle worker; `docs/task-queue.md:316` says it does not see the task.
- `AcceptPending`: the operation leaves the queue file before the `.md` is
  written, so a failing write, or a crash between the two, loses it
  (`docs/op-log.md:160`); the text reaches the file at once and not on the next
  Save (`docs/op-log.md:252`).
- `Landed`: a whole rewrite that is accepted replaces the user's unsaved text
  too, while `docs/patch-review.md:70` says that the user's uncommitted
  `working` edits survive both accept and reject, "so unsaved typing is never
  discarded"; `TypingSurvives` names it. And an operation that has drifted on
  the accepted text may still be applied to the unsaved text
  (`core/src/editing/pending.rs:459`).
- `Drifted`: an operation whose anchor is in the accepted text counts as
  drifted when an earlier queued operation of its session hides the anchor
  (`docs/op-log.md:202`), and `SweepReject` then drops it.
- `Create`: a queue file that a deleted note left behind is neither read nor
  removed when a note is created at its path in a later session.

*Save and review*

- `SaveCommit`: a fold that lands between a Save's re-check and its commit is
  undone by the commit (`core/src/editing/mod.rs:364`), while the comment at
  `mod.rs:347` says the re-check prevents it.
- `CommitText`: after a failing `.md` write, a retried Save compares against
  the memory that has already moved, finds nothing to do and reports success
  with the old text on disk (`core/src/editing/mod.rs:800`, against `mod.rs:373`).
- `AcceptPending`: accepting a second rename removes the file at the path the
  operation remembers, which may be another note's by then
  (`core/src/editing/pending.rs:499`, against `pending.rs:496`).
- `StagePending`: a batch whose later edit does not resolve leaves its first
  edit in memory and not in the queue file (`core/src/editing/pending.rs:63`,
  against `core/src/editing/mod.rs:84`).

*Index pipeline*

- `SelfBlocked`: the task sends to its own bounded queue with a blocking send
  (`core/src/indexer/jobs.rs:444`, `core/src/trails/ops.rs:911`); with the queue
  full it waits for itself, while `core/src/indexer/scheduler.rs:448` says the
  send cannot block.
- The router's future is never polled, and `docs/bug_tracking.md:55` relies on
  the watcher's echo of a write.
- `leaked`: an inbox move leaves the original path in the Queued set, and so
  do an upsert that is refused after it was inserted and the jobs that are
  drained when no model loads.
- `UpsertFails`: an upsert that fails is logged and forgotten, with its marker
  (`core/src/indexer/jobs.rs:138`); the note stays stale until it is written
  again or everything is scanned.

*Moves, deletions and restorations*

- `PanelRestore`: the Trash panel brings the file back and tells neither the
  document nor the index, while `docs/files.md:174` has it ingested again; the
  verb that would (`ops::file::restore`) has no caller.
- `MoveDoc`: the queue file of a note that nobody has loaded stays at the old
  path, and a note that comes to a path overwrites what is cached there.
- `AcceptPending` removes the file at the path the rename was staged from, even
  if another note has been created there since (`Robbed`).
- `RestartVault` after `TrashDoc`: the queue file of a deleted note stays, with
  no file and no document beside it. `all_pending_ops`
  (`core/src/editing/mod.rs:486`) loads the document of every queue file and
  fails with the first it cannot load, so the vault-wide review and its counter
  fail for all notes, while `core/src/ops/op_writes.rs:761` says that such
  operations are skipped.
- `prune_ignored_tracked_docs` (`core/src/indexer/scheduler.rs:261`) looks for
  ignored notes among those a walk returns that leaves ignored files out, so it
  never forgets any (`docs/bug_tracking.md:53`).

*Cluster trees*

- `Load`, `Save`: a naming that lands between a verb's load and its save is
  lost, and a verb that lands between a naming's load and save is lost as well,
  the tree's discarding included: the file comes back.
- `PopHistory`: the second pop of an undo takes whatever is last, which may be
  the entry of a naming that has just been recorded. The reverse edit then stays
  in the history, and undoing on past it may delete the half of a split that
  something has been moved under, which is left with a parent that is not
  there.
- `RedoLast`: only a recluster clears the redo stack (its comment says that a
  fresh forward verb invalidates it), so a verb is redone on
  a tree it was not made for. A move redone after its opposite makes two
  clusters each other's parent; `Returns` is false of the next call that walks
  up from there, which is `ancestors_inclusive` (`core/src/trees/store.rs:217`)
  never coming to an end.
- `DropCluster`: a bucket below the dropped cluster is dropped with it, and the
  leaves are left with a parent that is not there.
- `SplitCluster`: undo puts the leaves of deeper clusters under the split one,
  and not back where they were; a second split of a cluster writes over the
  rows of the first, the user's names among them, and its undo deletes them with
  what has been moved there since.
- `Undo`: undoing a rename renames, and so marks the old text as the user's.

*Editor session*

- `Frame`: what the host puts into a buffer (a mutation's answer,
  `app/src/main.rs:1003`, or a reload) is not in the working text and is
  replaced by it in the next frame: the cause of `EditorRecovery`.
- Nothing folds an external edit into the cached document
  (`app/src/bootstrap.rs:203`), as `docs/op-log.md:353` has it.
- `DoCall`, `Tick`: only the tick clears a sidecar; `docs/autosave.md:109` has
  save, close and rename clear it. A stale sidecar may so be offered over newer
  saved text, and after a rename for the old path; `Discard` keeps working text
  and sidecar.
- `Crash`: the application ends without a last flush; a sidecar is written
  before its entry, so a crash between them can drop a newer sidecar; after a
  restore the entry is gone before the next tick writes it again.
- *Save & close* of a buffer that was recovered or mutated and never shown
  reports success and writes nothing.

*Git sync*

- `FinalizeMerge`: a resolution that equals HEAD's tree ends the merge without
  recording it, and a commit made while the merge is open keeps `MERGE_HEAD`
  but has one parent, so that finalising then drops the second one and the next
  sync conflicts again (`app/src/git_sync/mod.rs:731`).
- `FinalizeMerge` scans for markers only what the index has in conflict: a path
  staged with its markers is committed with them (`app/src/git_sync/mod.rs:745`).
- `FastForward`: the checkout is forced and overwrites text that is saved and
  not committed (`hiker-git/src/repo.rs:819`), against "folded, never lost" in
  `docs/git.md`.
- `FoldWrite` merges what `FoldRead` saw, and so takes a Save made in between
  back (`app/src/git_sync/mod.rs:375`).
- `Adopt`, `AdoptHead`: the panel's commit and pull, a rename commit and a HEAD
  that moved since the check become known although their changes are in no
  document; in integrated mode nothing folds, and the next save reverts the
  peer's change.
- `BurstFails`: an automatic commit that fails is logged and not tried again
  (`app/src/git_sync/mod.rs:449`); the save waits for the next one.
- `FoldFails`: the manual reconcile adopts HEAD though a fold has failed, so
  that a change whose fold failed may not be looked at again.
- `RenameNote`: manual mode commits renames, while `docs/git.md` says that
  manual mode never commits by itself.
