------------------------------ MODULE GitSync ------------------------------
(***************************************************************************)
(* The user-driven git integration: the debounced task that commits a save *)
(* burst or folds what moved underneath (app/src/git_sync/mod.rs), the     *)
(* Source-Control verbs of the UI thread (app/src/source_control/), the    *)
(* libgit2 backend they share under one lock (hiker-git/src/repo.rs), the  *)
(* user's own git in a terminal, and the peers behind the remote.          *)
(*                                                                         *)
(* A commit is its tree and the commits it descends from, its number the   *)
(* sha.  A file is one hunk: two different changes to it conflict.         *)
(***************************************************************************)
EXTENDS Naturals, Sequences, FiniteSets

CONSTANTS
    Path,      \* vault-relative paths of notes
    Text,      \* contents of notes
    Typed,     \* bound: what the user saves
    Inbound,   \* bound: what a peer commits
    Foreign,   \* bound: what other programs write, a hand-made resolution too
    Vaults,    \* bound: what the vault and the remote hold at first
    Modes,     \* bound: [git].mode
    MaxSteps,  \* bound: what the user, peers and other programs do
    Markers,   \* a content with conflict markers in it
    Absent

ASSUME GitAssumption ==
    /\ Markers \notin Text /\ Absent \notin Text /\ Markers # Absent
    /\ Typed \subseteq Text /\ Inbound \subseteq Text /\ Foreign \subseteq Text
    /\ Vaults \subseteq [Path -> Text \cup {Absent}]
    /\ Modes \subseteq {"integrated", "manual"} /\ MaxSteps \in Nat

VARIABLES
    mode,       \* GitSection.mode; auto_commit is on
    commits,    \* the commits made so far, by number
    head, remote,   \* the branch here and at the remote
    mergeHead,  \* MERGE_HEAD
    index,      \* the staged tree; of an unmerged path our side of it
    unmerged,   \* paths the index has in conflict
    disk,       \* the working tree
    acc,        \* the accepted text of the layered documents
    known,      \* known_sha
    permit,     \* local_change: the Notify's stored permit
    pass,       \* what the debounced task is doing; did its last commit fail?
    listed,     \* does the panel's cached status list conflicts?
    saved,      \* history: what the user saved last and no commit has yet
    given,      \* history: paths whose saved text was given up
    missed,     \* history: paths whose change no reconcile will see
    steps

vars == <<mode, commits, head, remote, mergeHead, index, unmerged, disk, acc, known,
          permit, pass, listed, saved, given, missed, steps>>
repo == <<commits, head, mergeHead, index, unmerged>>
task == <<permit, pass>>

Content == Text \cup {Markers, Absent}
Tree == [Path -> Content]
NoCommit == 0
At(c) == commits[c].tree
History(c) == {c} \cup commits[c].past

Idle == [at |-> "wait", todo |-> {}, p |-> Absent, text |-> Absent, head |-> NoCommit,
         failed |-> FALSE]
Over == [Idle EXCEPT !.at = "over"]

Init ==
    /\ mode \in Modes
    /\ disk \in Vaults /\ acc = disk /\ index = disk
    /\ commits = <<[tree |-> disk, past |-> {}]>>
    /\ head = 1 /\ remote = 1 /\ known = 1 /\ mergeHead = NoCommit /\ unmerged = {}
    /\ permit = FALSE /\ pass = Idle /\ listed = FALSE
    /\ saved = [p \in Path |-> Absent] /\ given = {} /\ missed = {}
    /\ steps = 0

Spend == steps < MaxSteps /\ steps' = steps + 1

-----------------------------------------------------------------------------
(* What the history variables see of a step.                               *)

\* The file is there and the layered document has another text of it.
Unfolded(p) == disk[p] # Absent /\ acc[p] # disk[p]

\* divergence_from: a path the status reports, or one that differs between
\* the known commit and HEAD.
Changed(p) == disk[p] # At(head)[p] \/ index[p] # At(head)[p] \/ p \in unmerged
Diverged_Bug == {p \in Path : Changed(p)}

Diverged == {p \in Path : Changed(p) \/ At(known)[p] # At(head)[p]}

\* A saved text that is in the tree of a commit is git's to keep.
Settled(s, tree) == [p \in Path |-> IF tree[p] = s[p] THEN Absent ELSE s[p]]
GiveUp(S) == given' = given \cup {p \in S : saved[p] # Absent /\ disk'[p] # saved[p]}
Miss(S) == missed' = {p \in missed \cup S : Unfolded(p)'}

\* The paths that drop out of sight when `known' is set to another commit.
Adopted == IF known' = known THEN {} ELSE {p \in Path : At(known)[p] # commits'[head'].tree[p]}
\* The paths whose file comes back to what a commit has that is known.
Returned == {p \in Path : disk'[p] # disk[p] /\ disk'[p] \in {At(known)[p], At(head)[p]}}

-----------------------------------------------------------------------------
(* The backend (hiker-git/src/repo.rs).                                    *)

Committed(tree, past) ==
    /\ commits' = Append(commits, [tree |-> tree, past |-> past])
    /\ head' = Len(commits) + 1

\* write_commit: one parent, HEAD; nothing to do for HEAD's own tree.
WriteCommit(tree, amend) ==
    IF tree = At(head) /\ ~amend
    THEN UNCHANGED <<commits, head>>
    ELSE Committed(tree, IF amend THEN commits[head].past ELSE History(head))

Adopt(sha) == known' = IF sha # head THEN sha ELSE known

Unresolved_Bug == unmerged

\* index.add_all takes every path as the file has it, in conflict or not.
Unresolved == {}
StageAll == index' = disk /\ unmerged' = Unresolved

\* git's three-way merge of two trees, path by path.
BaseTree(c, d) ==
    LET common == History(c) \cap History(d)
    IN IF common = {} THEN [p \in Path |-> Absent]
       ELSE At(CHOOSE b \in common : \A x \in common : x <= b)
Conflicts(c, d) ==
    LET o == BaseTree(c, d)
    IN {p \in Path : At(c)[p] # o[p] /\ At(d)[p] # o[p] /\ At(c)[p] # At(d)[p]}
Merged(c, d) ==
    LET o == BaseTree(c, d)
    IN [p \in Path |-> IF At(d)[p] = o[p] \/ p \in Conflicts(c, d) THEN At(c)[p] ELSE At(d)[p]]
\* What the file of a path in conflict is left with: markers, or the side
\* that still has the file.
LeftWith(c, d, p) ==
    IF At(c)[p] = Absent THEN At(d)[p] ELSE IF At(d)[p] = Absent THEN At(c)[p] ELSE Markers

Refuses_Bug(c, d) == \E p \in Path : index[p] \notin {At(c)[p], Merged(c, d)[p]}

\* git refuses a merge over staged changes, and over a file it would change
\* that has uncommitted ones.
Refuses(c, d) ==
    \E p \in Path : \/ index[p] \notin {At(c)[p], Merged(c, d)[p]}
                    \/ /\ disk[p] # At(c)[p]
                       /\ p \in Conflicts(c, d) \/ Merged(c, d)[p] # At(c)[p]

\* fast_forward_to: the branch moves and the checkout is forced, over every
\* tracked file.
FastForward ==
    /\ head \in commits[remote].past
    /\ head' = remote /\ known' = remote
    /\ disk' = [p \in Path |-> IF At(remote)[p] # Absent THEN At(remote)[p] ELSE disk[p]]
    /\ index' = [p \in Path |-> IF At(remote)[p] # Absent THEN At(remote)[p] ELSE index[p]]
    /\ UNCHANGED <<commits, mergeHead, unmerged>>

Checkout ==
    [p \in Path |-> IF p \in Conflicts(head, remote) THEN LeftWith(head, remote, p)
                    ELSE IF Merged(head, remote)[p] # At(head)[p] THEN Merged(head, remote)[p]
                    ELSE disk[p]]

MergeClean ==
    /\ head \notin commits[remote].past /\ remote \notin History(head)
    /\ ~Refuses(head, remote) /\ Conflicts(head, remote) = {}
    /\ disk' = Checkout /\ index' = Merged(head, remote)
    /\ Committed(Merged(head, remote), History(head) \cup History(remote))
    /\ known' = head'
    /\ UNCHANGED <<mergeHead, unmerged>>

MergeConflicted ==
    /\ head \notin commits[remote].past /\ remote \notin History(head)
    /\ ~Refuses(head, remote) /\ Conflicts(head, remote) # {}
    /\ disk' = Checkout /\ index' = Merged(head, remote)
    /\ unmerged' = Conflicts(head, remote) /\ mergeHead' = remote
    /\ UNCHANGED <<commits, head, known>>

-----------------------------------------------------------------------------
(* What writes the vault: a Save, the rename of a note, other programs.    *)

Notified_Bug == pass.at = "wait"

\* notify_one: where nobody waits, a permit is stored.
Notified == TRUE

Save(p, t) ==
    /\ Spend /\ t # acc[p]
    /\ acc' = [acc EXCEPT ![p] = t] /\ disk' = [disk EXCEPT ![p] = t]
    /\ permit' = Notified
    /\ saved' = [saved EXCEPT ![p] = IF t = At(head)[p] THEN Absent ELSE t]
    /\ given' = given \ {p}
    /\ UNCHANGED <<mode, repo, remote, known, pass, listed>>
    /\ Miss({})

\* The note and its document move, then commit_rename stages the two paths
\* and commits the index, whatever the mode; an index still in conflict cannot
\* be written as a tree, and staging or committing may fail.  The failure is
\* logged, the move stays.
RenameNote(p, q) ==
    /\ Spend /\ disk[p] # Absent /\ disk[q] = Absent
    /\ disk' = [disk EXCEPT ![q] = disk[p], ![p] = Absent]
    /\ acc' = [acc EXCEPT ![q] = acc[p], ![p] = Absent]
    /\ \/ /\ index' = [index EXCEPT ![q] = disk[p], ![p] = Absent]
          /\ unmerged' = unmerged \ {p, q}
          /\ \/ unmerged' = {} /\ WriteCommit(index', FALSE) /\ known' = head'
             \/ UNCHANGED <<commits, head, known>>
       \/ UNCHANGED <<index, unmerged, commits, head, known>>
    /\ saved' = Settled([saved EXCEPT ![q] = saved[p], ![p] = Absent], commits'[head'].tree)
    /\ given' = (given \ {p, q}) \cup (IF p \in given THEN {q} ELSE {})
    /\ UNCHANGED <<mode, remote, mergeHead, task, listed>>
    /\ Miss(Adopted \cup Returned)

Write(p, t) ==
    /\ Spend /\ disk[p] # t
    /\ disk' = [disk EXCEPT ![p] = t]
    /\ UNCHANGED <<mode, repo, remote, acc, known, task, listed, saved>>
    /\ GiveUp({p}) /\ Miss(Returned)

\* The user's own `git commit -a', which finishes a merge as git does.
UserCommit ==
    /\ Spend /\ disk # At(head)
    /\ StageAll
    /\ Committed(disk, History(head) \cup (IF mergeHead = NoCommit THEN {} ELSE History(mergeHead)))
    /\ mergeHead' = NoCommit
    /\ saved' = Settled(saved, disk)
    /\ UNCHANGED <<mode, remote, disk, acc, known, task, listed, given>>
    /\ Miss({})

\* The user moves HEAD over a clean tree: checkout, reset.  It may be back
\* where a reconcile saw it.
UserCheckout(c) ==
    /\ Spend /\ c # head /\ c # remote
    /\ mergeHead = NoCommit /\ disk = At(head) /\ index = At(head)
    /\ head' = c /\ disk' = At(c) /\ index' = At(c)
    /\ pass' = [pass EXCEPT !.head = NoCommit]
    /\ UNCHANGED <<mode, commits, remote, mergeHead, unmerged, acc, known, permit, listed, saved, given>>
    /\ Miss(Returned)

PeerPush(p, t) ==
    /\ Spend /\ At(remote)[p] # t
    /\ commits' = Append(commits, [tree |-> [At(remote) EXCEPT ![p] = t], past |-> History(remote)])
    /\ remote' = Len(commits) + 1
    /\ UNCHANGED <<mode, head, mergeHead, index, unmerged, disk, acc, known, task, listed,
                   saved, given, missed>>

-----------------------------------------------------------------------------
(* The panel's verbs, each under the backend's lock.  Every verb reads the *)
(* status again; staging and the commit box are there in manual mode only. *)

Listed == listed' = (mergeHead' # NoCommit /\ unmerged' # {})
Manual == mode = "manual"

Stage(p) ==
    /\ Manual /\ Spend /\ Changed(p)
    /\ index' = [index EXCEPT ![p] = disk[p]] /\ unmerged' = unmerged \ {p}
    /\ UNCHANGED <<mode, commits, head, mergeHead, remote, disk, acc, known, task, saved, given, missed>>
    /\ Listed

Unstage(p) ==
    /\ Manual /\ Spend /\ p \notin unmerged /\ index[p] # At(head)[p]
    /\ index' = [index EXCEPT ![p] = At(head)[p]]
    /\ UNCHANGED <<mode, commits, head, mergeHead, unmerged, remote, disk, acc, known, task, saved, given,
                   missed>>
    /\ Listed

Discard(p) ==
    /\ Manual /\ Spend /\ p \notin unmerged /\ disk[p] # At(head)[p]
    /\ disk' = [disk EXCEPT ![p] = At(head)[p]] /\ index' = [index EXCEPT ![p] = At(head)[p]]
    /\ UNCHANGED <<mode, commits, head, mergeHead, unmerged, remote, acc, known, task, saved>>
    /\ GiveUp({p}) /\ Miss(Returned) /\ Listed

\* commit_index: one parent, even in the middle of a merge.
CommitStaged(amend) ==
    /\ Manual /\ Spend /\ unmerged = {}
    /\ WriteCommit(index, amend) /\ head' # head /\ Adopt(head')
    /\ saved' = Settled(saved, index)
    /\ UNCHANGED <<mode, mergeHead, index, unmerged, remote, disk, acc, task, given>>
    /\ Miss(Adopted) /\ Listed

\* A pull in the middle of a merge is libgit2's to answer and is left out.
Pull ==
    /\ Spend /\ mergeHead = NoCommit
    /\ FastForward \/ MergeClean \/ MergeConflicted
    /\ saved' = Settled(saved, commits'[head'].tree)
    /\ UNCHANGED <<mode, remote, acc, task>>
    /\ GiveUp(IF head' = remote THEN Path ELSE {})
    /\ Miss(Adopted \cup Returned) /\ Listed

\* The remote takes a fast-forward only.
Push ==
    /\ Spend /\ head # remote /\ remote \in commits[head].past
    /\ remote' = head
    /\ UNCHANGED <<mode, repo, disk, acc, known, task, saved, given, missed>>
    /\ Listed

Parents_Bug == History(head)

\* write_merge_commit's two parents.
Parents == History(head) \cup History(mergeHead)

\* finalize_merge_if_clean: refuses while a path still in conflict has
\* markers; a resolution that is HEAD's own tree ends the merge without a
\* commit.
FinalizeMerge ==
    /\ listed /\ Spend /\ mergeHead # NoCommit
    /\ \A p \in unmerged : disk[p] # Markers
    /\ StageAll
    /\ IF disk = At(head) THEN UNCHANGED <<commits, head>> ELSE Committed(disk, Parents)
    /\ mergeHead' = NoCommit
    /\ Adopt(head')
    /\ saved' = Settled(saved, disk)
    /\ UNCHANGED <<mode, remote, disk, acc, task, given>>
    /\ Miss(Adopted) /\ Listed

\* The panel reads the status again.
Refresh ==
    /\ listed # (mergeHead # NoCommit /\ unmerged # {})
    /\ listed' = ~listed
    /\ UNCHANGED <<mode, repo, remote, disk, acc, known, task, saved, given, missed, steps>>

-----------------------------------------------------------------------------
(* The debounced task: notified, debounce, one pass on the blocking pool.  *)

Wake ==
    /\ pass.at = "wait" /\ permit
    /\ permit' = FALSE /\ pass' = [Idle EXCEPT !.at = "debounce"]
    /\ UNCHANGED <<mode, repo, remote, disk, acc, known, listed, saved, given, missed, steps>>

\* commit_now: everything, with one parent, merge or no merge.
Burst ==
    /\ pass.at = "debounce" /\ mode = "integrated"
    /\ StageAll /\ WriteCommit(disk, FALSE) /\ Adopt(head')
    /\ saved' = Settled(saved, disk)
    /\ pass' = Over
    /\ UNCHANGED <<mode, mergeHead, remote, disk, acc, permit, listed, given, steps>>
    /\ Miss(Adopted)

\* commit_now returns an error, which is logged: the lock on the index is held
\* by another git, or the commit fails once the index is written.  The permit
\* is spent and nobody tries again.
BurstFails ==
    /\ pass.at = "debounce" /\ mode = "integrated"
    /\ StageAll \/ UNCHANGED <<index, unmerged>>
    /\ pass' = [Over EXCEPT !.failed = TRUE]
    /\ UNCHANGED <<mode, commits, head, mergeHead, remote, disk, acc, known, permit, listed, saved, given,
                   missed, steps>>

\* manual_reconcile: the divergence under the lock, then the lock is let go.
Check ==
    /\ pass.at = "debounce" /\ Manual
    /\ pass' = IF known = head /\ Diverged = {} THEN Over
               ELSE [Idle EXCEPT !.at = "fold", !.todo = Diverged, !.head = head]
    /\ UNCHANGED <<mode, repo, remote, disk, acc, known, permit, listed, saved, given, missed, steps>>

\* fold_divergence reads the file first; a file that is gone is passed over.
FoldRead(p) ==
    /\ pass.at = "fold" /\ p \in pass.todo
    /\ pass' = IF disk[p] = Absent THEN [pass EXCEPT !.todo = @ \ {p}]
               ELSE [pass EXCEPT !.at = "put", !.todo = @ \ {p}, !.p = p, !.text = disk[p]]
    /\ UNCHANGED <<mode, repo, remote, disk, acc, known, permit, listed, saved, given, missed, steps>>

\* apply_external_edit, or create_document where there is none: the text as
\* it was read becomes the accepted one, and is written back to the file.
FoldWrite ==
    /\ pass.at = "put"
    /\ pass' = [pass EXCEPT !.at = "fold", !.p = Absent, !.text = Absent]
    /\ IF acc[pass.p] = pass.text THEN UNCHANGED <<acc, disk, given, missed>>
       ELSE /\ acc' = [acc EXCEPT ![pass.p] = pass.text]
            /\ disk' = [disk EXCEPT ![pass.p] = pass.text]
            /\ GiveUp({pass.p}) /\ Miss({})
    /\ UNCHANGED <<mode, repo, remote, known, permit, listed, saved, steps>>

\* The file cannot be read, or the document not looked up or written, in
\* memory it may have the text: that is logged, and HEAD adopted all the same.
FoldFails ==
    /\ pass.at = "put"
    /\ pass' = [pass EXCEPT !.at = "fold", !.p = Absent, !.text = Absent]
    /\ acc' \in {acc, [acc EXCEPT ![pass.p] = pass.text]}
    /\ UNCHANGED <<mode, repo, remote, disk, known, permit, listed, saved, given, steps>>
    /\ Miss({p \in {pass.p} : disk[p] \in {At(known)[p], At(head)[p]}})

\* The divergence or HEAD cannot be read: the error is dropped.
ReconcileFails ==
    /\ \/ pass.at = "debounce" /\ Manual
       \/ pass.at = "fold" /\ pass.todo = {}
    /\ pass' = Over
    /\ UNCHANGED <<mode, repo, remote, disk, acc, known, permit, listed, saved, given, missed, steps>>

\* The HEAD that is adopted is the one of now; where it moved since the
\* check, what it brought is adopted unfolded.
AdoptHead ==
    /\ pass.at = "fold" /\ pass.todo = {}
    /\ known' = head /\ pass' = Over
    /\ UNCHANGED <<mode, repo, remote, disk, acc, permit, listed, saved, given, steps>>
    /\ Miss(IF head = pass.head THEN {} ELSE {p \in Path : At(known)[p] # At(head)[p]})

\* The loop comes back to wait for the next save.
Rest ==
    /\ pass.at = "over"
    /\ pass' = [pass EXCEPT !.at = "wait"]
    /\ UNCHANGED <<mode, repo, remote, disk, acc, known, permit, listed, saved, given, missed, steps>>

-----------------------------------------------------------------------------
Vault ==
    \/ \E p \in Path, t \in Typed : Save(p, t)
    \/ \E p \in Path, t \in Foreign : Write(p, t)
    \/ \E p, q \in Path : RenameNote(p, q)
Terminal == UserCommit \/ \E c \in DOMAIN commits : UserCheckout(c)
Peers == \E p \in Path, t \in Inbound : PeerPush(p, t)
Panel ==
    \/ \E p \in Path : Stage(p) \/ Unstage(p) \/ Discard(p)
    \/ \E amend \in BOOLEAN : CommitStaged(amend)
    \/ Pull \/ Push \/ FinalizeMerge \/ Refresh
Pass ==
    \/ Wake \/ Burst \/ BurstFails \/ Rest
    \/ Check \/ FoldWrite \/ FoldFails \/ AdoptHead \/ ReconcileFails
    \/ \E p \in Path : FoldRead(p)

Next ==
    \/ Vault
    \/ Terminal
    \/ Peers
    \/ Panel
    \/ Pass

Spec == Init /\ [][Next]_vars

\* The runtime goes on running the task it has spawned.
FairSpec == Spec /\ WF_vars(Pass)

-----------------------------------------------------------------------------
\* Every variable has its type, and the index has conflicts only while a
\* merge is in progress.
TypeOK ==
    /\ mode \in Modes
    /\ commits \in Seq([tree : Tree, past : SUBSET (1..Len(commits))])
    /\ {head, remote, known} \subseteq DOMAIN commits
    /\ mergeHead \in DOMAIN commits \cup {NoCommit}
    /\ index \in Tree /\ disk \in Tree /\ acc \in Tree
    /\ unmerged \subseteq Path /\ (unmerged # {} => mergeHead # NoCommit)
    /\ permit \in BOOLEAN /\ listed \in BOOLEAN
    /\ pass \in [at : {"wait", "debounce", "fold", "put", "over"}, todo : SUBSET Path, p : Path \cup {Absent},
                 text : Content, head : {NoCommit} \cup DOMAIN commits, failed : BOOLEAN]
    /\ saved \in Tree /\ given \subseteq Path /\ missed \subseteq Path
    /\ steps \in 0..MaxSteps

\* Until a commit has it, the text the user saved last is on disk, whatever
\* is pulled, merged, renamed, staged, committed or folded in between.  It is
\* given up only where the user discards it, another program writes over it,
\* a fast-forward's forced checkout does, or a reconcile folds a text it had
\* read before the save.
SavedIsKept ==
    \A p \in Path \ given : saved[p] # Absent => disk[p] = saved[p]

\* In manual mode a change made to a note from outside that its document has
\* not got is one the next reconcile will fold, unless hiker's own commit,
\* rename, pull or a moved HEAD set the known commit past it, its fold failed,
\* or the file came back to what a known commit has.
UnfoldedIsSeen ==
    Manual => \A p \in Path : Unfolded(p) => p \in Diverged \cup missed

\* A merge that is over is in HEAD's history, or came out as HEAD's own tree.
EndedMergeIsRecorded ==
    [][mergeHead # NoCommit /\ mergeHead' = NoCommit
        => \/ mergeHead \in commits'[head'].past
           \/ head' = head /\ disk = At(head)]_vars

-----------------------------------------------------------------------------
(* The invariant the proofs are built on.                                  *)

\* A commit descends from older ones only.
PastIsOlder == \A c \in DOMAIN commits : commits[c].past \subseteq 1..(c - 1)

\* While no merge is in progress, what the user saved last and is still on
\* disk is not HEAD's text of the file.
SavedIsUncommitted ==
    mergeHead = NoCommit =>
        \A p \in Path \ given : saved[p] # Absent => saved[p] # At(head)[p]

\* A change no reconcile has been told of differs from the known commit.
UnfoldedIsUnknown ==
    Manual => \A p \in Path : Unfolded(p) => p \in missed \/ disk[p] # At(known)[p]

\* The text a pass is about to put is that of its path; the HEAD its check saw
\* is one it can recognise.
PassOK ==
    /\ pass.at = "put" => pass.p \in Path
    /\ pass.at \in {"fold", "put"} => pass.head <= head

\* Where HEAD has not moved since the check, a path the pass has done with has
\* no change that HEAD has and the document has not.
PassFolds ==
    Manual /\ pass.at \in {"fold", "put"} /\ pass.head = head =>
        \A p \in Path \ pass.todo :
            Unfolded(p) => \/ p \in missed \/ disk[p] # At(head)[p]
                           \/ pass.at = "put" /\ p = pass.p /\ disk[p] = pass.text

GitInv ==
    /\ TypeOK /\ PastIsOlder /\ PassOK
    /\ SavedIsKept /\ SavedIsUncommitted
    /\ UnfoldedIsUnknown /\ PassFolds

\* In integrated mode every save ends up in a commit, unless it is given up,
\* also one made while the task commits another.  A pass whose commit fails
\* leaves what it should have committed to the next save's; only where no save
\* comes after it does something stay uncommitted.
SavesAreCommitted ==
    <>[](mode = "integrated" => pass.failed \/ \A p \in Path \ given : saved[p] = Absent)
=============================================================================
