--------------------------- MODULE GitSyncProofs ---------------------------
(***************************************************************************)
(* Proofs about GitSync, for every set of notes and texts, every vault and *)
(* any number of saves, renames, commits, pulls, pushes, checkouts and     *)
(* reconciles: a saved text stays on disk until a commit has it, a change  *)
(* from outside is seen by the next reconcile except where the history     *)
(* says so, and a merge that ends is recorded.                             *)
(***************************************************************************)
EXTENDS GitSync, SequenceTheorems, TLAPS

-----------------------------------------------------------------------------
\* Types, and the order of commits.

Base == TypeOK /\ PastIsOlder /\ PassOK

CommitSet(n) == [tree : Tree, past : SUBSET (1..n)]

\* What a step does to the commits and to HEAD, unless it moves HEAD back.
Grown(tree) ==
  /\ commits' \in Seq(CommitSet(Len(commits')))
  /\ DOMAIN commits \subseteq DOMAIN commits'
  /\ \A c \in DOMAIN commits : commits'[c] = commits[c]
  /\ \A c \in DOMAIN commits' : commits'[c].past \subseteq 1..(c - 1)
  /\ head' \in DOMAIN commits' /\ (head' = head \/ head < head')
  /\ commits'[head'].tree = tree

\* The commits there are, as facts.
LEMMA CommitFacts ==
  ASSUME Base
  PROVE  /\ commits \in Seq(CommitSet(Len(commits))) /\ Len(commits) \in Nat
         /\ DOMAIN commits = 1..Len(commits)
         /\ \A c \in DOMAIN commits : At(c) \in Tree /\ History(c) \in SUBSET (1..Len(commits))
                                      /\ commits[c].past \in SUBSET (1..Len(commits))
         /\ head \in DOMAIN commits /\ head \in Nat /\ head <= Len(commits)
         /\ remote \in DOMAIN commits /\ known \in DOMAIN commits
  <1>1. commits \in Seq(CommitSet(Len(commits)))
    BY DEF Base, TypeOK, CommitSet
  <1>2. Len(commits) \in Nat /\ DOMAIN commits = 1..Len(commits)
        /\ \A c \in DOMAIN commits : commits[c] \in CommitSet(Len(commits))
    BY <1>1
  <1>3. \A c \in DOMAIN commits : At(c) \in Tree /\ commits[c].past \in SUBSET (1..Len(commits))
    BY <1>2 DEF CommitSet, At
  <1>4. \A c \in DOMAIN commits : History(c) \in SUBSET (1..Len(commits))
    BY <1>2, <1>3 DEF History
  <1>5. head \in DOMAIN commits /\ remote \in DOMAIN commits /\ known \in DOMAIN commits
    BY DEF Base, TypeOK
  <1>6. QED
    BY <1>1, <1>2, <1>3, <1>4, <1>5

\* One more commit, after all the others.
LEMMA OneMore ==
  ASSUME Base, NEW tree \in Tree, NEW past \in SUBSET (1..Len(commits)),
         commits' = Append(commits, [tree |-> tree, past |-> past])
  PROVE  /\ commits' \in Seq(CommitSet(Len(commits'))) /\ Len(commits') = Len(commits) + 1
         /\ DOMAIN commits \subseteq DOMAIN commits' /\ Len(commits) + 1 \in DOMAIN commits'
         /\ \A c \in DOMAIN commits : commits'[c] = commits[c]
         /\ \A c \in DOMAIN commits' : commits'[c].past \subseteq 1..(c - 1)
         /\ commits'[Len(commits) + 1] = [tree |-> tree, past |-> past]
  <1> DEFINE n == Len(commits)
             r == [tree |-> tree, past |-> past]
  <1>0. commits \in Seq(CommitSet(n)) /\ n \in Nat /\ DOMAIN commits = 1..n
        /\ \A c \in DOMAIN commits : commits[c].past \subseteq 1..(c - 1)
    BY CommitFacts DEF Base, PastIsOlder
  <1>1. CommitSet(n) \subseteq CommitSet(n + 1) /\ r \in CommitSet(n + 1)
    BY <1>0 DEF CommitSet
  <1>2. commits \in Seq(CommitSet(n + 1))
    BY <1>0, <1>1
  <1> HIDE DEF r
  <1>3. /\ Append(commits, r) \in Seq(CommitSet(n + 1))
        /\ Len(Append(commits, r)) = n + 1
        /\ \A c \in 1..n : Append(commits, r)[c] = commits[c]
        /\ Append(commits, r)[n + 1] = r
    BY <1>1, <1>2, AppendProperties
  <1>4. commits' = Append(commits, r)
    BY DEF r
  <1>5. DOMAIN commits' = 1..(n + 1)
    BY <1>3, <1>4
  <1>6. r.past \subseteq 1..n
    BY DEF r
  <1>7. \A c \in DOMAIN commits' : commits'[c].past \subseteq 1..(c - 1)
    <2> SUFFICES ASSUME NEW c \in 1..(n + 1)
                 PROVE  commits'[c].past \subseteq 1..(c - 1)
      BY <1>5
    <2>1. CASE c = n + 1
      BY <1>0, <1>3, <1>4, <1>6, <2>1
    <2>2. CASE c # n + 1
      BY <1>0, <1>3, <1>4, <2>2
    <2>3. QED
      BY <2>1, <2>2
  <1>8. QED
    BY <1>0, <1>3, <1>4, <1>5, <1>7 DEF r

\* A commit of the backend, with the parents it was given.
LEMMA CommittedGrows ==
  ASSUME Base, NEW tree \in Tree, NEW past \in SUBSET (1..Len(commits)), Committed(tree, past)
  PROVE  Grown(tree) /\ head' # head /\ commits'[head'].past = past
  <1>1. head \in 1..Len(commits) /\ Len(commits) \in Nat
    BY CommitFacts
  <1>2. head' = Len(commits) + 1 /\ head < head'
    BY <1>1 DEF Committed
  <1>3. commits' = Append(commits, [tree |-> tree, past |-> past])
    BY DEF Committed
  <1>4. /\ commits' \in Seq(CommitSet(Len(commits'))) /\ Len(commits') = Len(commits) + 1
        /\ DOMAIN commits \subseteq DOMAIN commits' /\ Len(commits) + 1 \in DOMAIN commits'
        /\ \A c \in DOMAIN commits : commits'[c] = commits[c]
        /\ \A c \in DOMAIN commits' : commits'[c].past \subseteq 1..(c - 1)
        /\ commits'[Len(commits) + 1] = [tree |-> tree, past |-> past]
    BY <1>3, OneMore
  <1>5. commits'[head'].tree = tree /\ commits'[head'].past = past
    BY <1>2, <1>4
  <1>6. head' \in DOMAIN commits' /\ head' # head
    BY <1>1, <1>2, <1>4
  <1>7. Grown(tree)
    BY <1>2, <1>4, <1>5, <1>6 DEF Grown
  <1>8. QED
    BY <1>5, <1>6, <1>7

\* Nothing is committed.
LEMMA SameGrows ==
  ASSUME Base, UNCHANGED <<commits, head>>
  PROVE  Grown(At(head))
  BY CommitFacts DEF Grown, At, Base, PastIsOlder

\* write_commit, whichever way it goes.
LEMMA WriteCommitGrows ==
  ASSUME Base, NEW tree \in Tree, NEW amend, WriteCommit(tree, amend)
  PROVE  Grown(tree)
  <1>1. CASE tree = At(head) /\ UNCHANGED <<commits, head>>
    BY <1>1, SameGrows
  <1>2. CASE Committed(tree, IF amend THEN commits[head].past ELSE History(head))
    BY <1>2, CommitFacts, CommittedGrows
  <1>3. QED
    BY <1>1, <1>2 DEF WriteCommit

-----------------------------------------------------------------------------
\* The type in two parts: what points at commits, and the rest.

PassSet(commit) ==
  [at : {"wait", "debounce", "fold", "put", "over"}, todo : SUBSET Path, p : Path \cup {Absent},
   text : Content, head : {NoCommit} \cup commit, failed : BOOLEAN]

Pointers ==
  /\ commits \in Seq(CommitSet(Len(commits)))
  /\ {head, remote, known} \subseteq DOMAIN commits
  /\ mergeHead \in DOMAIN commits \cup {NoCommit}
  /\ pass \in PassSet(DOMAIN commits)

Files ==
  /\ mode \in Modes
  /\ index \in Tree /\ disk \in Tree /\ acc \in Tree
  /\ unmerged \subseteq Path /\ (unmerged # {} => mergeHead # NoCommit)
  /\ permit \in BOOLEAN /\ listed \in BOOLEAN
  /\ saved \in Tree /\ given \subseteq Path /\ missed \subseteq Path
  /\ steps \in 0..MaxSteps

\* The type is the two together.
LEMMA TwoParts == TypeOK <=> Pointers /\ Files
  BY DEF TypeOK, Pointers, Files, CommitSet, PassSet

\* A step that keeps the commits or adds one keeps what points at them.
LEMMA GrownKeepsPointers ==
  ASSUME Base, NEW tree, Grown(tree),
         remote' \in DOMAIN commits', known' \in DOMAIN commits',
         mergeHead' \in DOMAIN commits' \cup {NoCommit},
         pass' \in PassSet(DOMAIN commits),
         pass'.at = "put" => pass'.p \in Path,
         pass'.at \in {"fold", "put"} => pass'.head <= head
  PROVE  Pointers' /\ PastIsOlder' /\ PassOK'
  <1>1. PastIsOlder'
    BY DEF Grown, PastIsOlder
  <1>2. pass' \in PassSet(DOMAIN commits')
    BY DEF Grown, PassSet
  <1>3. Pointers'
    BY <1>2 DEF Grown, Pointers
  <1>4. head \in Nat /\ head' \in Nat /\ head <= head' /\ pass'.head \in Nat
    <2>1. head \in Nat /\ DOMAIN commits \subseteq Nat
      BY CommitFacts
    <2>2. DOMAIN commits' \subseteq Nat
      BY DEF Grown
    <2>3. pass'.head \in Nat
      BY <2>1 DEF PassSet, NoCommit
    <2>4. QED
      BY <2>1, <2>2, <2>3 DEF Grown
  <1>5. PassOK'
    BY <1>4 DEF PassOK
  <1>6. QED
    BY <1>1, <1>3, <1>5

\* The pass as it is, as facts about the next one where it stays.
LEMMA SamePass ==
  ASSUME Base, UNCHANGED pass
  PROVE  /\ pass' \in PassSet(DOMAIN commits)
         /\ pass'.at = "put" => pass'.p \in Path
         /\ pass'.at \in {"fold", "put"} => pass'.head <= head
  BY DEF Base, TypeOK, PassOK, PassSet

\* A step that leaves commits, branches and the known commit alone.
LEMMA SamePointers ==
  ASSUME Base, UNCHANGED <<commits, head, remote, known, mergeHead, pass>>
  PROVE  Pointers' /\ PastIsOlder' /\ PassOK'
  BY DEF Base, TypeOK, Pointers, CommitSet, PassSet, PastIsOlder, PassOK

\* What a merge leaves in the index and on disk.
LEMMA MergeFacts ==
  ASSUME Base, NEW c \in DOMAIN commits, NEW d \in DOMAIN commits
  PROVE  /\ Merged(c, d) \in Tree /\ Conflicts(c, d) \subseteq Path
         /\ \A p \in Path : Merged(c, d)[p] \in {At(c)[p], At(d)[p]}
         /\ \A p \in Conflicts(c, d) : Merged(c, d)[p] = At(c)[p]
         /\ \A p \in Path : LeftWith(c, d, p) \in Content
  <1> DEFINE o == BaseTree(c, d)
  <1>1. At(c) \in Tree /\ At(d) \in Tree
    BY CommitFacts
  <1> HIDE DEF o
  <1>2. Conflicts(c, d) = {p \in Path : At(c)[p] # o[p] /\ At(d)[p] # o[p] /\ At(c)[p] # At(d)[p]}
    BY DEF Conflicts, o
  <1>3. Merged(c, d)
          = [p \in Path |-> IF At(d)[p] = o[p] \/ p \in Conflicts(c, d) THEN At(c)[p] ELSE At(d)[p]]
    BY DEF Merged, o
  <1>4. \A p \in Path : At(c)[p] \in Content /\ At(d)[p] \in Content
    BY <1>1 DEF Tree
  <1>5. \A p \in Path : LeftWith(c, d, p) \in Content
    BY <1>4 DEF LeftWith, Content
  <1>6. \A p \in Path : Merged(c, d)[p] \in {At(c)[p], At(d)[p]}
    BY <1>3
  <1>7. Merged(c, d) \in Tree
    BY <1>3, <1>4 DEF Tree
  <1>8. QED
    BY <1>2, <1>3, <1>5, <1>6, <1>7

\* The working tree after a merge is one.
LEMMA CheckoutIsTree == Base => Checkout \in Tree
  <1> SUFFICES ASSUME Base PROVE Checkout \in Tree
    OBVIOUS
  <1>1. head \in DOMAIN commits /\ remote \in DOMAIN commits /\ disk \in Tree
    BY CommitFacts DEF Base, TypeOK
  <1>2. /\ Merged(head, remote) \in Tree
        /\ \A p \in Path : LeftWith(head, remote, p) \in Content
    BY <1>1, MergeFacts
  <1>3. QED
    BY <1>1, <1>2 DEF Checkout, Tree

-----------------------------------------------------------------------------
\* Every step keeps the base.  What writes the vault first.

\* A save, a write of another program, a rename.
LEMMA VaultKeepsBase ==
  ASSUME Base, Vault
  PROVE  Base'
  <1> USE GitAssumption
  <1>0. Files /\ Pointers
    BY TwoParts DEF Base
  <1>1. ASSUME NEW p \in Path, NEW t \in Typed, Save(p, t)
        PROVE  Base'
    <2>1. Files'
      BY <1>0, <1>1 DEF Save, Files, Spend, Miss, Notified, Tree, Content, repo
    <2>2. Pointers' /\ PastIsOlder' /\ PassOK'
      BY <1>1, SamePointers DEF Save, repo
    <2>3. QED
      BY <2>1, <2>2 DEF Base, TypeOK, Files, Pointers, CommitSet, PassSet
  <1>2. ASSUME NEW p \in Path, NEW t \in Foreign, Write(p, t)
        PROVE  Base'
    <2>1. Files'
      <3>1. disk' \in Tree
        BY <1>0, <1>2 DEF Write, Files, Tree, Content
      <3>2. given' \subseteq Path /\ missed' \subseteq Path /\ steps' \in 0..MaxSteps
        BY <1>0, <1>2 DEF Write, Files, Spend, Miss, GiveUp, Returned
      <3>3. UNCHANGED <<mode, index, acc, unmerged, mergeHead, permit, listed, saved>>
        BY <1>2 DEF Write, repo, task
      <3>4. QED
        BY <1>0, <3>1, <3>2, <3>3 DEF Files
    <2>2. Pointers' /\ PastIsOlder' /\ PassOK'
      BY <1>2, SamePointers DEF Write, repo, task
    <2>3. QED
      BY <2>1, <2>2 DEF Base, TypeOK, Files, Pointers, CommitSet, PassSet
  <1>3. ASSUME NEW p \in Path, NEW q \in Path, RenameNote(p, q)
        PROVE  Base'
    <2>1. index' \in Tree /\ disk' \in Tree /\ acc' \in Tree
      BY <1>0, <1>3 DEF RenameNote, Files, Tree, Content
    <2>2. saved' \in Tree
      <3> DEFINE s == [saved EXCEPT ![q] = saved[p], ![p] = Absent]
                 tree == commits'[head'].tree
      <3>1. s \in Tree
        BY <1>0 DEF Files, Tree, Content
      <3>2. saved' = Settled(s, tree)
        BY <1>3 DEF RenameNote
      <3> HIDE DEF s, tree
      <3>3. QED
        BY <3>1, <3>2 DEF Settled, Tree, Content
    <2>3. given' \subseteq Path /\ missed' \subseteq Path /\ steps' \in 0..MaxSteps
      BY <1>0, <1>3 DEF RenameNote, Files, Miss, Spend, Adopted, Returned
    <2>4. Files'
      <3>1. unmerged' \subseteq unmerged /\ UNCHANGED <<mode, mergeHead, permit, listed>>
        BY <1>3 DEF RenameNote, task
      <3>2. QED
        BY <1>0, <2>1, <2>2, <2>3, <3>1 DEF Files
    <2>5. pass' = pass /\ remote' = remote /\ mergeHead' = mergeHead
      BY <1>3 DEF RenameNote, task
    <2>6. CASE WriteCommit(index', FALSE) /\ known' = head'
      <3>1. Grown(index') /\ known' = head'
        BY <2>1, <2>6, WriteCommitGrows
      <3>2. known' \in DOMAIN commits' /\ remote' \in DOMAIN commits'
            /\ mergeHead' \in DOMAIN commits' \cup {NoCommit}
        BY <1>0, <2>5, <3>1 DEF Pointers, Grown
      <3>3. Pointers' /\ PastIsOlder' /\ PassOK'
        BY <2>5, <3>1, <3>2, SamePass, GrownKeepsPointers
      <3>4. QED
        BY <2>4, <3>3 DEF Base, TypeOK, Files, Pointers, CommitSet, PassSet
    <2>7. CASE UNCHANGED <<commits, head, known>>
      <3>1. Pointers' /\ PastIsOlder' /\ PassOK'
        BY <2>5, <2>7, SamePointers
      <3>2. QED
        BY <2>4, <3>1 DEF Base, TypeOK, Files, Pointers, CommitSet, PassSet
    <2>8. QED
      BY <1>3, <2>6, <2>7 DEF RenameNote
  <1>4. QED
    BY <1>1, <1>2, <1>3 DEF Vault

\* The user's own commit takes the working tree.
LEMMA UserCommitGrows ==
  ASSUME Base, UserCommit
  PROVE  Grown(disk) /\ head' # head
  <1>1. disk \in Tree /\ mergeHead \in DOMAIN commits \cup {NoCommit}
    BY DEF Base, TypeOK
  <1> DEFINE past == History(head) \cup (IF mergeHead = NoCommit THEN {} ELSE History(mergeHead))
  <1>2. past \in SUBSET (1..Len(commits))
    BY <1>1, CommitFacts
  <1>3. Committed(disk, past)
    BY DEF UserCommit
  <1> HIDE DEF past
  <1>4. QED
    BY <1>1, <1>2, <1>3, CommittedGrows

\* The user's terminal.
LEMMA TerminalKeepsBase ==
  ASSUME Base, Terminal
  PROVE  Base'
  <1> USE GitAssumption
  <1>0. Files /\ Pointers
    BY TwoParts DEF Base
  <1>1. CASE UserCommit
    <2>1. Files'
      BY <1>0, <1>1 DEF UserCommit, Files, Spend, Miss, StageAll, Unresolved, Settled, Tree, Content, task
    <2>2. pass' = pass /\ remote' = remote /\ known' = known /\ mergeHead' = NoCommit
      BY <1>1 DEF UserCommit, task
    <2>3. Grown(disk)
      BY <1>1, UserCommitGrows
    <2>4. Pointers' /\ PastIsOlder' /\ PassOK'
      <3>1. known' \in DOMAIN commits' /\ remote' \in DOMAIN commits'
            /\ mergeHead' \in DOMAIN commits' \cup {NoCommit}
        BY <1>0, <2>2, <2>3 DEF Pointers, Grown
      <3>2. QED
        BY <2>2, <2>3, <3>1, SamePass, GrownKeepsPointers
    <2>5. QED
      BY <2>1, <2>4 DEF Base, TypeOK, Files, Pointers, CommitSet, PassSet
  <1>2. ASSUME NEW c \in DOMAIN commits, UserCheckout(c)
        PROVE  Base'
    <2>1. At(c) \in Tree
      BY CommitFacts
    <2>2. Files'
      BY <1>0, <1>2, <2>1 DEF UserCheckout, Files, Spend, Miss, Returned
    <2>3. pass' \in PassSet(DOMAIN commits) /\ (pass'.at = "put" => pass'.p \in Path)
          /\ pass'.head = NoCommit
      BY <1>0, <1>2 DEF UserCheckout, Pointers, PassSet, Base, PassOK
    <2>4. Pointers' /\ PastIsOlder'
      BY <1>0, <1>2, <2>3 DEF UserCheckout, Pointers, Base, PastIsOlder, CommitSet
    <2>5. PassOK'
      BY <1>2, <2>3, CommitFacts DEF UserCheckout, PassOK, NoCommit
    <2>6. QED
      BY <2>2, <2>4, <2>5 DEF Base, TypeOK, Files, Pointers, CommitSet, PassSet
  <1>3. QED
    BY <1>1, <1>2 DEF Terminal

\* A peer's push adds a commit that HEAD does not move to.
LEMMA PeersKeepBase ==
  ASSUME Base, Peers
  PROVE  Base'
  <1> USE GitAssumption
  <1>0. Files /\ Pointers
    BY TwoParts DEF Base
  <1>1. PICK p \in Path, t \in Inbound : PeerPush(p, t)
    BY DEF Peers
  <1> DEFINE tree == [At(remote) EXCEPT ![p] = t]
             past == History(remote)
  <1>2. Files'
    BY <1>0, <1>1 DEF PeerPush, Files, Spend, task
  <1>3. tree \in Tree /\ past \in SUBSET (1..Len(commits))
    BY CommitFacts DEF Tree, Content
  <1>4. commits' = Append(commits, [tree |-> tree, past |-> past])
    BY <1>1 DEF PeerPush
  <1>5. remote' = Len(commits) + 1 /\ UNCHANGED <<head, known, mergeHead, pass>>
    BY <1>1 DEF PeerPush, task
  <1> HIDE DEF tree, past
  <1>6. /\ commits' \in Seq(CommitSet(Len(commits')))
        /\ DOMAIN commits \subseteq DOMAIN commits' /\ Len(commits) + 1 \in DOMAIN commits'
        /\ \A c \in DOMAIN commits' : commits'[c].past \subseteq 1..(c - 1)
    BY <1>3, <1>4, OneMore
  <1>7. Pointers'
    BY <1>0, <1>5, <1>6 DEF Pointers, PassSet
  <1>8. PastIsOlder' /\ PassOK'
    BY <1>5, <1>6 DEF Base, PastIsOlder, PassOK
  <1>9. QED
    BY <1>2, <1>7, <1>8 DEF Base, TypeOK, Files, Pointers, CommitSet, PassSet

\* The panel's verbs.
LEMMA StagingKeepsBase ==
  ASSUME Base, NEW p \in Path, Stage(p) \/ Unstage(p) \/ Discard(p)
  PROVE  Base'
  <1> USE GitAssumption
  <1>0. Files /\ Pointers
    BY TwoParts DEF Base
  <1>1. At(head) \in Tree
    BY CommitFacts
  <1>2. UNCHANGED <<mode, commits, head, remote, known, mergeHead, pass, permit, acc, saved>>
    BY DEF Stage, Unstage, Discard, task
  <1>3. index' \in Tree /\ disk' \in Tree
    BY <1>0, <1>1 DEF Stage, Unstage, Discard, Files, Tree
  <1>4. listed' \in BOOLEAN /\ steps' \in 0..MaxSteps /\ unmerged' \subseteq unmerged
    <2>1. Listed /\ Spend
      BY DEF Stage, Unstage, Discard
    <2>2. unmerged' \subseteq unmerged
      BY DEF Stage, Unstage, Discard
    <2>3. QED
      BY <1>0, <2>1, <2>2 DEF Listed, Spend, Files
  <1>5. given' \subseteq Path /\ missed' \subseteq Path
    BY <1>0 DEF Stage, Unstage, Discard, GiveUp, Miss, Returned, Files
  <1>6. Files'
    BY <1>0, <1>2, <1>3, <1>4, <1>5 DEF Files
  <1>7. Pointers' /\ PastIsOlder' /\ PassOK'
    BY <1>2, SamePointers
  <1>8. QED
    BY <1>6, <1>7 DEF Base, TypeOK, Files, Pointers, CommitSet, PassSet

\* The commit box.
LEMMA CommittingKeepsBase ==
  ASSUME Base, NEW amend, CommitStaged(amend)
  PROVE  Base'
  <1> USE GitAssumption
  <1>0. Files /\ Pointers
    BY TwoParts DEF Base
  <1>1. UNCHANGED <<mode, mergeHead, index, unmerged, remote, disk, acc, permit, pass, given>>
    BY DEF CommitStaged, task
  <1>2. saved' \in Tree
    BY <1>0 DEF CommitStaged, Settled, Files, Tree, Content
  <1>3. listed' \in BOOLEAN /\ steps' \in 0..MaxSteps /\ missed' \subseteq Path
    BY <1>0 DEF CommitStaged, Listed, Spend, Files, Miss, Adopted
  <1>4. Files'
    BY <1>0, <1>1, <1>2, <1>3 DEF Files
  <1>5. Grown(index)
    BY <1>0, WriteCommitGrows DEF CommitStaged, Files
  <1>6. known' \in DOMAIN commits' /\ remote' \in DOMAIN commits'
        /\ mergeHead' \in DOMAIN commits' \cup {NoCommit}
    BY <1>0, <1>1, <1>5 DEF Pointers, Grown, CommitStaged, Adopt
  <1>7. Pointers' /\ PastIsOlder' /\ PassOK'
    BY <1>1, <1>5, <1>6, SamePass, GrownKeepsPointers
  <1>8. QED
    BY <1>4, <1>7 DEF Base, TypeOK, Files, Pointers, CommitSet, PassSet

\* A fast-forward moves HEAD to a newer commit.
LEMMA FastForwardGrows ==
  ASSUME Base, FastForward
  PROVE  Grown(At(remote)) /\ head < head'
  <1>1. head \in DOMAIN commits /\ remote \in DOMAIN commits /\ DOMAIN commits = 1..Len(commits)
        /\ Len(commits) \in Nat /\ commits \in Seq(CommitSet(Len(commits)))
    BY CommitFacts
  <1>2. commits[remote].past \subseteq 1..(remote - 1)
        /\ \A c \in DOMAIN commits : commits[c].past \subseteq 1..(c - 1)
    BY <1>1 DEF Base, PastIsOlder
  <1>3. commits' = commits /\ head' = remote /\ head \in commits[remote].past
    BY DEF FastForward
  <1>4. head < remote
    BY <1>1, <1>2, <1>3
  <1>5. QED
    BY <1>1, <1>2, <1>3, <1>4 DEF Grown, At

\* A clean merge commits what it merged.
LEMMA MergeCleanGrows ==
  ASSUME Base, MergeClean
  PROVE  Grown(Merged(head, remote)) /\ head' # head
  <1>1. Merged(head, remote) \in Tree
    BY CommitFacts, MergeFacts
  <1>2. History(head) \cup History(remote) \in SUBSET (1..Len(commits))
    BY CommitFacts
  <1>3. QED
    BY <1>1, <1>2, CommittedGrows DEF MergeClean

\* A pull: a fast-forward, a merge or one with conflicts.
LEMMA PullKeepsBase ==
  ASSUME Base, Pull
  PROVE  Base'
  <1> USE GitAssumption
  <1>0. Files /\ Pointers
    BY TwoParts DEF Base
  <1>1. UNCHANGED <<mode, remote, acc, permit, pass>>
    BY DEF Pull, task
  <1>2. At(remote) \in Tree /\ Merged(head, remote) \in Tree /\ Checkout \in Tree
        /\ Conflicts(head, remote) \subseteq Path
    BY CommitFacts, MergeFacts, CheckoutIsTree
  <1>3. index' \in Tree /\ disk' \in Tree
    BY <1>0, <1>2 DEF Pull, FastForward, MergeClean, MergeConflicted, Files, Tree
  <1>4. unmerged' \subseteq Path /\ (unmerged' # {} => mergeHead' # NoCommit)
    <2>1. remote # NoCommit
      BY CommitFacts DEF NoCommit
    <2>2. QED
      BY <1>0, <1>2, <2>1 DEF Pull, FastForward, MergeClean, MergeConflicted, Files
  <1>5. saved' \in Tree
    <2> DEFINE tree == commits'[head'].tree
    <2>1. saved' = Settled(saved, tree)
      BY DEF Pull
    <2> HIDE DEF tree
    <2>2. QED
      BY <1>0, <2>1 DEF Settled, Files, Tree, Content
  <1>6. listed' \in BOOLEAN /\ steps' \in 0..MaxSteps
    BY <1>0 DEF Pull, Listed, Spend, Files
  <1>7. given' \subseteq Path /\ missed' \subseteq Path
    BY <1>0 DEF Pull, GiveUp, Miss, Adopted, Returned, Files
  <1>8. Files'
    BY <1>0, <1>1, <1>3, <1>4, <1>5, <1>6, <1>7 DEF Files
  <1>9. ASSUME NEW tree, Grown(tree), known' \in DOMAIN commits', mergeHead' \in DOMAIN commits' \cup {NoCommit}
        PROVE  Pointers' /\ PastIsOlder' /\ PassOK'
    <2>1. remote' \in DOMAIN commits'
      BY <1>0, <1>1, <1>9 DEF Pointers, Grown
    <2>2. QED
      BY <1>1, <1>9, <2>1, SamePass, GrownKeepsPointers
  <1>10. Pointers' /\ PastIsOlder' /\ PassOK'
    <2>1. CASE FastForward
      <3>1. Grown(At(remote))
        BY <2>1, FastForwardGrows
      <3>2. known' \in DOMAIN commits' /\ mergeHead' \in DOMAIN commits' \cup {NoCommit}
        BY <1>0, <2>1 DEF FastForward, Pointers
      <3>3. QED
        BY <1>9, <3>1, <3>2
    <2>2. CASE MergeClean
      <3>1. Grown(Merged(head, remote))
        BY <2>2, MergeCleanGrows
      <3>2. known' \in DOMAIN commits' /\ mergeHead' \in DOMAIN commits' \cup {NoCommit}
        BY <1>0, <2>2, <3>1 DEF MergeClean, Pointers, Grown
      <3>3. QED
        BY <1>9, <3>1, <3>2
    <2>3. CASE MergeConflicted
      <3>1. Grown(At(head))
        BY <2>3, SameGrows DEF MergeConflicted
      <3>2. known' \in DOMAIN commits' /\ mergeHead' \in DOMAIN commits' \cup {NoCommit}
        BY <1>0, <2>3 DEF MergeConflicted, Pointers
      <3>3. QED
        BY <1>9, <3>1, <3>2
    <2>4. QED
      BY <2>1, <2>2, <2>3 DEF Pull
  <1>11. QED
    BY <1>8, <1>10 DEF Base, TypeOK, Files, Pointers, CommitSet, PassSet

\* The end of a merge either adds a commit of the working tree or finds it to
\* be HEAD's.
LEMMA FinalizeGrows ==
  ASSUME Base, FinalizeMerge
  PROVE  Grown(disk) /\ (head' = head => disk = At(head))
         /\ (head' # head => mergeHead \in commits'[head'].past)
  <1>1. disk \in Tree /\ mergeHead \in DOMAIN commits
    BY DEF FinalizeMerge, Base, TypeOK
  <1>2. Parents \in SUBSET (1..Len(commits)) /\ mergeHead \in Parents
    BY <1>1, CommitFacts DEF Parents, History
  <1>3. CASE disk = At(head) /\ UNCHANGED <<commits, head>>
    BY <1>3, SameGrows
  <1>4. CASE Committed(disk, Parents)
    BY <1>1, <1>2, <1>4, CommittedGrows
  <1>5. QED
    BY <1>3, <1>4 DEF FinalizeMerge

\* The end of a merge.
LEMMA FinalizeKeepsBase ==
  ASSUME Base, FinalizeMerge
  PROVE  Base'
  <1> USE GitAssumption
  <1>0. Files /\ Pointers
    BY TwoParts DEF Base
  <1>1. UNCHANGED <<mode, remote, disk, acc, permit, pass, given>> /\ mergeHead' = NoCommit
        /\ index' = disk /\ unmerged' = {}
    BY DEF FinalizeMerge, task, StageAll, Unresolved
  <1>2. saved' \in Tree
    BY <1>0 DEF FinalizeMerge, Settled, Files, Tree, Content
  <1>3. listed' \in BOOLEAN /\ steps' \in 0..MaxSteps /\ missed' \subseteq Path
    BY <1>0 DEF FinalizeMerge, Listed, Spend, Files, Miss, Adopted
  <1>4. Files'
    BY <1>0, <1>1, <1>2, <1>3 DEF Files
  <1>5. Grown(disk)
    BY FinalizeGrows
  <1>6. known' \in DOMAIN commits' /\ remote' \in DOMAIN commits'
        /\ mergeHead' \in DOMAIN commits' \cup {NoCommit}
    BY <1>0, <1>1, <1>5 DEF Pointers, Grown, FinalizeMerge, Adopt
  <1>7. Pointers' /\ PastIsOlder' /\ PassOK'
    BY <1>1, <1>5, <1>6, SamePass, GrownKeepsPointers
  <1>8. QED
    BY <1>4, <1>7 DEF Base, TypeOK, Files, Pointers, CommitSet, PassSet

\* All of the panel.
LEMMA PanelKeepsBase ==
  ASSUME Base, Panel
  PROVE  Base'
  <1> USE GitAssumption
  <1>0. Files /\ Pointers
    BY TwoParts DEF Base
  <1>1. CASE Push
    <2>1. Files'
      BY <1>0, <1>1 DEF Push, Files, Listed, Spend, repo, task
    <2>2. Pointers' /\ PastIsOlder' /\ PassOK'
      BY <1>0, <1>1 DEF Push, Pointers, Base, PastIsOlder, PassOK, repo, task
    <2>3. QED
      BY <2>1, <2>2 DEF Base, TypeOK, Files, Pointers, CommitSet, PassSet
  <1>2. CASE Refresh
    <2>1. UNCHANGED <<mode, commits, head, mergeHead, index, unmerged, remote, disk, acc, known, permit,
                      pass, saved, given, missed, steps>> /\ listed' \in BOOLEAN
      BY <1>0, <1>2 DEF Refresh, Files, repo, task
    <2>2. Files'
      BY <1>0, <2>1 DEF Files
    <2>3. Pointers' /\ PastIsOlder' /\ PassOK'
      BY <2>1, SamePointers
    <2>4. QED
      BY <2>2, <2>3 DEF Base, TypeOK, Files, Pointers, CommitSet, PassSet
  <1>3. QED
    BY <1>1, <1>2, StagingKeepsBase, CommittingKeepsBase, PullKeepsBase, FinalizeKeepsBase DEF Panel

\* The debounced task.
LEMMA BurstKeepsBase ==
  ASSUME Base, Burst
  PROVE  Base'
  <1>0. Files /\ Pointers
    BY TwoParts DEF Base
  <1>1. UNCHANGED <<mode, mergeHead, remote, disk, acc, permit, listed, given, steps>>
        /\ index' = disk /\ unmerged' = {} /\ pass' = Over
    BY DEF Burst, StageAll, Unresolved
  <1>2. saved' \in Tree
    BY <1>0 DEF Burst, Settled, Files, Tree, Content
  <1>3. missed' \subseteq Path
    BY <1>0 DEF Burst, Files, Miss, Adopted
  <1>4. Files'
    BY <1>0, <1>1, <1>2, <1>3 DEF Files
  <1>5. Grown(disk)
    BY <1>0, WriteCommitGrows DEF Burst, Files
  <1>6. known' \in DOMAIN commits' /\ remote' \in DOMAIN commits'
        /\ mergeHead' \in DOMAIN commits' \cup {NoCommit}
    BY <1>0, <1>1, <1>5 DEF Pointers, Grown, Burst, Adopt
  <1>7. pass' \in PassSet(DOMAIN commits) /\ pass'.at = "over"
    BY <1>0, <1>1 DEF Pointers, PassSet, Over, Idle, Content
  <1>8. Pointers' /\ PastIsOlder' /\ PassOK'
    BY <1>5, <1>6, <1>7, GrownKeepsPointers
  <1>9. QED
    BY <1>4, <1>8 DEF Base, TypeOK, Files, Pointers, CommitSet, PassSet

\* A commit that fails may have written the index.
LEMMA FailedBurstKeepsBase ==
  ASSUME Base, BurstFails
  PROVE  Base'
  <1>0. Files /\ Pointers
    BY TwoParts DEF Base
  <1>1. UNCHANGED <<mode, commits, head, mergeHead, remote, disk, acc, known, permit, listed, saved, given,
                    missed, steps>>
        /\ \/ index' = disk /\ unmerged' = {}
           \/ UNCHANGED <<index, unmerged>>
    BY DEF BurstFails, StageAll, Unresolved
  <1>2. Files'
    BY <1>0, <1>1 DEF Files
  <1>3. pass' \in PassSet(DOMAIN commits) /\ pass'.at = "over"
    BY DEF BurstFails, PassSet, Over, Idle, Content
  <1>4. Pointers' /\ PastIsOlder' /\ PassOK'
    BY <1>0, <1>1, <1>3 DEF Pointers, Base, PastIsOlder, PassOK
  <1>5. QED
    BY <1>2, <1>4 DEF Base, TypeOK, Files, Pointers, CommitSet, PassSet

\* A step of the reconcile leaves the commits alone.
LEMMA ReconcileKeepsBase ==
  ASSUME Base, \/ Wake \/ Check \/ FoldWrite \/ FoldFails \/ AdoptHead \/ ReconcileFails \/ Rest
               \/ \E p \in Path : FoldRead(p)
  PROVE  Base'
  <1>0. Files /\ Pointers /\ PassOK /\ head \in Nat
    BY TwoParts, CommitFacts DEF Base
  <1>1. UNCHANGED <<mode, commits, head, mergeHead, index, unmerged, remote, listed, saved, steps>>
    BY DEF Wake, Check, FoldWrite, FoldFails, AdoptHead, ReconcileFails, Rest, FoldRead, repo
  <1>2. pass' \in PassSet(DOMAIN commits) /\ (pass'.at = "put" => pass'.p \in Path)
        /\ (pass'.at \in {"fold", "put"} => pass'.head <= head)
    <2>1. CASE Wake \/ AdoptHead \/ ReconcileFails
      <3>1. pass' \in {Over, [Idle EXCEPT !.at = "debounce"]}
        BY <2>1 DEF Wake, AdoptHead, ReconcileFails
      <3>2. QED
        BY <3>1 DEF Idle, Over, PassSet, Content
    <2>2. CASE Check
      <3>1. Diverged \subseteq Path
        BY DEF Diverged
      <3>2. CASE pass' = Over
        BY <3>2 DEF Idle, Over, PassSet, Content
      <3>3. CASE pass' = [Idle EXCEPT !.at = "fold", !.todo = Diverged, !.head = head]
        <4>1. pass' = [at |-> "fold", todo |-> Diverged, p |-> Absent, text |-> Absent, head |-> head,
                       failed |-> FALSE]
          BY <3>3 DEF Idle
        <4>2. head \in DOMAIN commits /\ head <= head
          BY <1>0, CommitFacts
        <4>3. pass' \in PassSet(DOMAIN commits)
          BY <3>1, <4>1, <4>2 DEF PassSet, Content
        <4>4. pass'.at = "fold" /\ pass'.head = head
          BY <4>1
        <4>5. QED
          BY <4>2, <4>3, <4>4
      <3>4. QED
        BY <2>2, <3>2, <3>3 DEF Check
    <2>3. CASE FoldWrite \/ FoldFails
      BY <1>0, <2>3 DEF FoldWrite, FoldFails, Pointers, PassSet, PassOK, Content
    <2>4. ASSUME NEW p \in Path, FoldRead(p)
          PROVE  /\ pass' \in PassSet(DOMAIN commits) /\ (pass'.at = "put" => pass'.p \in Path)
                 /\ (pass'.at \in {"fold", "put"} => pass'.head <= head)
      <3>1. disk[p] \in Content
        BY <1>0 DEF Files, Tree
      <3>2. pass \in PassSet(DOMAIN commits) /\ pass.at = "fold" /\ pass.head <= head
        BY <1>0, <2>4 DEF FoldRead, Pointers, PassOK
      <3>3. CASE pass' = [pass EXCEPT !.todo = @ \ {p}]
        BY <3>2, <3>3 DEF PassSet
      <3>4. CASE pass' = [pass EXCEPT !.at = "put", !.todo = @ \ {p}, !.p = p, !.text = disk[p]]
        BY <3>1, <3>2, <3>4 DEF PassSet
      <3>5. QED
        BY <2>4, <3>3, <3>4 DEF FoldRead
    <2>5. CASE Rest
      <3>1. pass \in PassSet(DOMAIN commits) /\ pass' = [pass EXCEPT !.at = "wait"]
        BY <1>0, <2>5 DEF Rest, Pointers
      <3>2. pass' \in PassSet(DOMAIN commits) /\ pass'.at = "wait"
        BY <3>1 DEF PassSet
      <3>3. QED
        BY <3>2
    <2>6. QED
      BY <2>1, <2>2, <2>3, <2>4, <2>5
  <1>3. disk' \in Tree /\ acc' \in Tree /\ given' \subseteq Path /\ missed' \subseteq Path
        /\ permit' \in BOOLEAN /\ known' \in DOMAIN commits
    <2>1. CASE Wake \/ Check \/ ReconcileFails \/ Rest \/ (\E p \in Path : FoldRead(p))
      BY <1>0, <2>1 DEF Wake, Check, ReconcileFails, Rest, FoldRead, Files, Pointers
    <2>2. CASE AdoptHead
      BY <1>0, <2>2 DEF AdoptHead, Miss, Files, Pointers
    <2>3. CASE FoldWrite
      <3>1. pass.p \in Path /\ pass.text \in Content
        BY <1>0, <2>3 DEF FoldWrite, PassOK, Pointers, PassSet
      <3>2. UNCHANGED <<permit, known>>
        BY <2>3 DEF FoldWrite
      <3>3. disk' \in Tree /\ acc' \in Tree
        BY <1>0, <2>3, <3>1 DEF FoldWrite, Files, Tree
      <3>4. given' \subseteq Path /\ missed' \subseteq Path
        BY <1>0, <2>3, <3>1 DEF FoldWrite, Files, GiveUp, Miss
      <3>5. QED
        BY <1>0, <3>2, <3>3, <3>4 DEF Files, Pointers
    <2>4. CASE FoldFails
      <3>1. pass.p \in Path /\ pass.text \in Content
        BY <1>0, <2>4 DEF FoldFails, PassOK, Pointers, PassSet
      <3>2. acc' \in Tree /\ missed' \subseteq Path
        BY <1>0, <2>4, <3>1 DEF FoldFails, Files, Miss, Tree
      <3>3. UNCHANGED <<disk, given, permit, known>>
        BY <2>4 DEF FoldFails
      <3>4. QED
        BY <1>0, <3>2, <3>3 DEF Files, Pointers
    <2>5. QED
      BY <2>1, <2>2, <2>3, <2>4
  <1>4. Files'
    BY <1>0, <1>1, <1>3 DEF Files
  <1>5. Pointers'
    BY <1>0, <1>1, <1>2, <1>3 DEF Pointers
  <1>6. PastIsOlder' /\ PassOK'
    BY <1>1, <1>2 DEF Base, PastIsOlder, PassOK
  <1>7. QED
    BY <1>4, <1>5, <1>6 DEF Base, TypeOK, Files, Pointers, CommitSet, PassSet

\* The vault as it is opened.
LEMMA InitBase == Init => Base
  <1> SUFFICES ASSUME Init PROVE Base
    OBVIOUS
  <1> USE GitAssumption
  <1>1. disk \in Tree
    BY DEF Init, Tree, Content
  <1> DEFINE r == [tree |-> disk, past |-> {}]
  <1>2. r \in CommitSet(1) /\ r.past = {}
    BY <1>1 DEF CommitSet
  <1>3. commits = <<r>>
    BY DEF Init
  <1> HIDE DEF r
  <1>4. commits \in Seq(CommitSet(1)) /\ Len(commits) = 1 /\ DOMAIN commits = {1} /\ commits[1] = r
    BY <1>2, <1>3
  <1>5. Pointers
    BY <1>4 DEF Init, Pointers, PassSet, Idle, NoCommit, Content
  <1>6. Files
    <2>1. index = disk /\ acc = disk /\ saved \in Tree
      BY DEF Init, Tree, Content
    <2>2. mode \in Modes /\ unmerged = {} /\ given = {} /\ missed = {} /\ steps = 0
      BY DEF Init
    <2>3. permit \in BOOLEAN /\ listed \in BOOLEAN
      BY DEF Init
    <2>4. QED
      BY <1>1, <2>1, <2>2, <2>3 DEF Files
  <1>7. PastIsOlder
    BY <1>2, <1>4 DEF PastIsOlder
  <1>8. PassOK
    BY DEF Init, PassOK, Idle
  <1>9. QED
    BY <1>5, <1>6, <1>7, <1>8, TwoParts DEF Base

\* So every step keeps the base.
LEMMA NextKeepsBase == Base /\ [Next]_vars => Base'
  <1> SUFFICES ASSUME Base, [Next]_vars PROVE Base'
    OBVIOUS
  <1>1. CASE UNCHANGED vars
    BY <1>1 DEF vars, repo, task, Base, TypeOK, PastIsOlder, PassOK
  <1>2. CASE Pass
    BY <1>2, BurstKeepsBase, FailedBurstKeepsBase, ReconcileKeepsBase DEF Pass
  <1>3. QED
    BY <1>1, <1>2, VaultKeepsBase, TerminalKeepsBase, PeersKeepBase, PanelKeepsBase DEF Next

\* Every variable keeps its type, for every vault, text and number of
\* commits; conflicts stand in the index only while a merge is in progress.
THEOREM GitKeepsType == Spec => []TypeOK
  <1>1. Spec => []Base
    BY InitBase, NextKeepsBase, PTL DEF Spec
  <1>2. Base => TypeOK
    BY DEF Base
  <1>3. QED
    BY <1>1, <1>2, PTL

\* A merge that ends is in the history of HEAD, unless it came out as HEAD's
\* own tree.
THEOREM EndedMergesAreRecorded == Spec => EndedMergeIsRecorded
  <1> DEFINE Recorded == mergeHead # NoCommit /\ mergeHead' = NoCommit
                           => \/ mergeHead \in commits'[head'].past
                              \/ head' = head /\ disk = At(head)
  <1>1. Base /\ [Next]_vars => Recorded
    <2> SUFFICES ASSUME Base, [Next]_vars, mergeHead # NoCommit, mergeHead' = NoCommit
                 PROVE  Recorded
      OBVIOUS
    <2>1. CASE UserCommit
      <3>1. disk \in Tree /\ mergeHead \in DOMAIN commits
        BY DEF Base, TypeOK
      <3> DEFINE past == History(head) \cup History(mergeHead)
      <3>2. past \in SUBSET (1..Len(commits)) /\ mergeHead \in past
        BY <3>1, CommitFacts DEF History
      <3>3. Committed(disk, past)
        BY <2>1 DEF UserCommit
      <3> HIDE DEF past
      <3>4. QED
        BY <3>1, <3>2, <3>3, CommittedGrows
    <2>2. CASE FinalizeMerge
      BY <2>2, FinalizeGrows
    <2>3. CASE UNCHANGED mergeHead
      BY <2>3
    <2>4. CASE MergeConflicted
      BY <2>4, CommitFacts DEF MergeConflicted, NoCommit
    <2>5. QED
      BY <2>1, <2>2, <2>3, <2>4
         DEF Next, Vault, Terminal, Peers, Panel, Pass, Save, Write, RenameNote, UserCheckout, PeerPush,
             Stage, Unstage, Discard, CommitStaged, Pull, FastForward, MergeClean, Push, Refresh,
             Wake, Burst, BurstFails, Check, FoldRead, FoldWrite, FoldFails, AdoptHead, ReconcileFails, Rest,
             vars, repo, task
  <1>2. Spec => []Base
    BY InitBase, NextKeepsBase, PTL DEF Spec
  <1>3. QED
    BY <1>1, <1>2, PTL DEF Spec, EndedMergeIsRecorded

-----------------------------------------------------------------------------
\* A saved text stays on disk until a commit has it.

Kept == SavedIsKept /\ SavedIsUncommitted

\* Nothing that counts changes.
LEMMA IdleKeepsSaved ==
  ASSUME Kept, UNCHANGED <<mergeHead, disk, saved, given>>, commits'[head'].tree = At(head)
  PROVE  Kept'
  BY DEF Kept, SavedIsKept, SavedIsUncommitted, At

\* The files of S are written over, and what was saved there is given up.
LEMMA WritingKeepsSaved ==
  ASSUME Kept, UNCHANGED <<commits, head, mergeHead, saved>>, NEW S \in SUBSET Path, GiveUp(S),
         \A p \in Path \ S : disk'[p] = disk[p]
  PROVE  Kept'
  <1>1. SavedIsKept'
    BY DEF Kept, SavedIsKept, GiveUp
  <1>2. SavedIsUncommitted'
    BY DEF Kept, SavedIsUncommitted, GiveUp, At
  <1>3. QED
    BY <1>1, <1>2 DEF Kept

\* HEAD's tree becomes one that what was saved is settled by.
LEMMA SettlingKeepsSaved ==
  ASSUME Kept, NEW tree, commits'[head'].tree = tree, saved' = Settled(saved, tree),
         UNCHANGED <<disk, given>>
  PROVE  Kept'
  <1>1. \A p \in Path : saved'[p] # Absent => saved'[p] = saved[p] /\ saved[p] # tree[p]
    BY DEF Settled
  <1>2. SavedIsKept'
    BY <1>1 DEF Kept, SavedIsKept
  <1>3. SavedIsUncommitted'
    BY <1>1 DEF SavedIsUncommitted, At
  <1>4. QED
    BY <1>2, <1>3 DEF Kept

\* A save is on disk at once, and uncommitted unless HEAD has that text.
LEMMA SaveKeepsSaved ==
  ASSUME Base, Kept, NEW p \in Path, NEW t \in Typed, Save(p, t)
  PROVE  Kept'
  <1>1. disk \in Tree /\ saved \in Tree
    BY DEF Base, TypeOK
  <1>2. UNCHANGED <<commits, head, mergeHead>> /\ given' = given \ {p}
        /\ disk' = [disk EXCEPT ![p] = t]
        /\ saved' = [saved EXCEPT ![p] = IF t = At(head)[p] THEN Absent ELSE t]
    BY DEF Save, repo
  <1>3. SavedIsKept'
    BY <1>1, <1>2 DEF Kept, SavedIsKept, Tree
  <1>4. SavedIsUncommitted'
    BY <1>1, <1>2 DEF Kept, SavedIsUncommitted, At, Tree
  <1>5. QED
    BY <1>3, <1>4 DEF Kept

\* A rename carries the saved text along, and settles what HEAD then has.
LEMMA RenameKeepsSaved ==
  ASSUME Base, Kept, NEW p \in Path, NEW q \in Path, RenameNote(p, q)
  PROVE  Kept'
  <1>1. disk \in Tree /\ saved \in Tree
    BY DEF Base, TypeOK
  <1>2. p # q /\ disk' = [disk EXCEPT ![q] = disk[p], ![p] = Absent] /\ mergeHead' = mergeHead
        /\ given' = (given \ {p, q}) \cup (IF p \in given THEN {q} ELSE {})
    BY DEF RenameNote
  <1> DEFINE s == [saved EXCEPT ![q] = saved[p], ![p] = Absent]
  <1>3. \A r \in Path \ given' : s[r] # Absent => disk'[r] = s[r]
    BY <1>1, <1>2 DEF Kept, SavedIsKept, Tree
  <1> DEFINE tree == commits'[head'].tree
  <1>4. saved' = Settled(s, tree)
    BY DEF RenameNote
  <1> HIDE DEF s, tree
  <1>5. \A r \in Path : saved'[r] # Absent => saved'[r] = s[r] /\ s[r] # tree[r]
    BY <1>4 DEF Settled
  <1>6. SavedIsKept'
    BY <1>3, <1>5 DEF SavedIsKept
  <1>7. SavedIsUncommitted'
    BY <1>5 DEF SavedIsUncommitted, At, tree
  <1>8. QED
    BY <1>6, <1>7 DEF Kept

\* HEAD moves over a clean tree: nothing saved is uncommitted.
LEMMA CheckoutKeepsSaved ==
  ASSUME Base, Kept, NEW c \in DOMAIN commits, UserCheckout(c)
  PROVE  Kept'
  <1>1. \A p \in Path \ given : saved[p] = Absent
    BY DEF UserCheckout, Kept, SavedIsKept, SavedIsUncommitted
  <1>2. saved' = saved /\ given' = given
    BY DEF UserCheckout
  <1>3. QED
    BY <1>1, <1>2 DEF Kept, SavedIsKept, SavedIsUncommitted

\* A merge that is not refused leaves an uncommitted file as it is.
LEMMA MergeKeepsChanged ==
  ASSUME Base, ~Refuses(head, remote), NEW p \in Path, disk[p] # At(head)[p]
  PROVE  Checkout[p] = disk[p]
  <1>1. p \notin Conflicts(head, remote) /\ Merged(head, remote)[p] = At(head)[p]
    BY DEF Refuses
  <1>2. QED
    BY <1>1 DEF Checkout

\* A pull leaves what it cannot keep to the history.
LEMMA PullKeepsSaved ==
  ASSUME Base, Kept, Pull
  PROVE  Kept'
  <1> DEFINE tree == commits'[head'].tree
  <1>1. mergeHead = NoCommit /\ saved' = Settled(saved, tree)
        /\ GiveUp(IF head' = remote THEN Path ELSE {})
    BY DEF Pull
  <1>2. tree = At(head)'
    BY DEF At
  <1> HIDE DEF tree
  <1>3. \A p \in Path : saved'[p] # Absent => saved'[p] = saved[p] /\ saved[p] # tree[p]
    BY <1>1 DEF Settled
  <1>4. SavedIsUncommitted'
    BY <1>2, <1>3 DEF SavedIsUncommitted
  <1>5. SavedIsKept'
    <2>1. CASE FastForward
      <3>1. GiveUp(Path)
        BY <1>1, <2>1 DEF FastForward
      <3>2. QED
        BY <1>3, <3>1 DEF GiveUp, SavedIsKept
    <2>2. CASE MergeClean \/ MergeConflicted
      <3>1. disk' = Checkout /\ ~Refuses(head, remote)
        BY <2>2 DEF MergeClean, MergeConflicted
      <3>2. given \subseteq given'
        BY <1>1 DEF GiveUp
      <3>3. \A p \in Path \ given : saved[p] # Absent => disk[p] = saved[p] /\ disk[p] # At(head)[p]
        BY <1>1 DEF Kept, SavedIsKept, SavedIsUncommitted
      <3>4. \A p \in Path \ given : saved[p] # Absent => disk'[p] = saved[p]
        BY <3>1, <3>3, MergeKeepsChanged
      <3>5. QED
        BY <1>3, <3>2, <3>4 DEF SavedIsKept
    <2>3. QED
      BY <2>1, <2>2 DEF Pull
  <1>6. QED
    BY <1>4, <1>5 DEF Kept

\* So every step keeps what was saved.
LEMMA NextKeepsSaved == Base /\ Kept /\ [Next]_vars => Kept'
  <1> SUFFICES ASSUME Base, Kept, [Next]_vars PROVE Kept'
    OBVIOUS
  <1>1. CASE UNCHANGED vars
    BY <1>1, IdleKeepsSaved DEF vars, repo, At
  <1>2. CASE Vault
    <2>1. ASSUME NEW p \in Path, NEW t \in Foreign, Write(p, t)
          PROVE  Kept'
      <3>1. \A q \in Path \ {p} : disk'[q] = disk[q]
        BY <2>1 DEF Write, Base, TypeOK, Tree
      <3>2. UNCHANGED <<commits, head, mergeHead, saved>> /\ GiveUp({p})
        BY <2>1 DEF Write, repo
      <3>3. QED
        BY <3>1, <3>2, WritingKeepsSaved
    <2>2. QED
      BY <1>2, <2>1, SaveKeepsSaved, RenameKeepsSaved DEF Vault
  <1>3. CASE Terminal
    <2>1. CASE UserCommit
      <3>1. commits'[head'].tree = disk
        BY <2>1, UserCommitGrows DEF Grown
      <3>2. saved' = Settled(saved, disk) /\ UNCHANGED <<disk, given>>
        BY <2>1 DEF UserCommit
      <3>3. QED
        BY <3>1, <3>2, SettlingKeepsSaved
    <2>2. QED
      BY <1>3, <2>1, CheckoutKeepsSaved DEF Terminal
  <1>4. CASE Peers
    <2>1. UNCHANGED <<mergeHead, disk, saved, given, head>>
      BY <1>4 DEF Peers, PeerPush
    <2>2. head \in 1..Len(commits) /\ Len(commits) \in Nat /\ commits \in Seq(CommitSet(Len(commits)))
      BY CommitFacts
    <2>3. PICK r : commits' = Append(commits, r)
      BY <1>4 DEF Peers, PeerPush
    <2>4. commits'[head] = commits[head]
      BY <2>2, <2>3
    <2>5. QED
      BY <2>1, <2>4, IdleKeepsSaved DEF At
  <1>5. CASE Panel
    <2>1. ASSUME NEW p \in Path, Stage(p) \/ Unstage(p)
          PROVE  Kept'
      BY <2>1, IdleKeepsSaved DEF Stage, Unstage, At
    <2>2. ASSUME NEW p \in Path, Discard(p)
          PROVE  Kept'
      <3>1. \A q \in Path \ {p} : disk'[q] = disk[q]
        BY <2>2 DEF Discard, Base, TypeOK, Tree
      <3>2. UNCHANGED <<commits, head, mergeHead, saved>> /\ GiveUp({p})
        BY <2>2 DEF Discard
      <3>3. QED
        BY <3>1, <3>2, WritingKeepsSaved
    <2>3. ASSUME NEW amend, CommitStaged(amend)
          PROVE  Kept'
      <3>1. commits'[head'].tree = index
        BY <2>3, WriteCommitGrows DEF CommitStaged, Base, TypeOK, Grown
      <3>2. saved' = Settled(saved, index) /\ UNCHANGED <<disk, given>>
        BY <2>3 DEF CommitStaged
      <3>3. QED
        BY <3>1, <3>2, SettlingKeepsSaved
    <2>4. CASE Push \/ Refresh
      BY <2>4, IdleKeepsSaved DEF Push, Refresh, repo, At
    <2>5. CASE FinalizeMerge
      <3>1. commits'[head'].tree = disk
        BY <2>5, FinalizeGrows DEF Grown
      <3>2. saved' = Settled(saved, disk) /\ UNCHANGED <<disk, given>>
        BY <2>5 DEF FinalizeMerge
      <3>3. QED
        BY <3>1, <3>2, SettlingKeepsSaved
    <2>6. QED
      BY <1>5, <2>1, <2>2, <2>3, <2>4, <2>5, PullKeepsSaved DEF Panel
  <1>6. CASE Pass
    <2>1. CASE Burst
      <3>1. commits'[head'].tree = disk
        BY <2>1, WriteCommitGrows DEF Burst, Base, TypeOK, Grown
      <3>2. saved' = Settled(saved, disk) /\ UNCHANGED <<disk, given>>
        BY <2>1 DEF Burst
      <3>3. QED
        BY <3>1, <3>2, SettlingKeepsSaved
    <2>2. CASE FoldWrite
      <3>1. CASE UNCHANGED <<disk, given>>
        BY <2>2, <3>1, IdleKeepsSaved DEF FoldWrite, repo, At
      <3>2. CASE disk' = [disk EXCEPT ![pass.p] = pass.text] /\ GiveUp({pass.p})
        <4>1. pass.p \in Path
          BY <2>2 DEF FoldWrite, Base, PassOK
        <4>2. \A q \in Path \ {pass.p} : disk'[q] = disk[q]
          BY <3>2 DEF Base, TypeOK, Tree
        <4>3. UNCHANGED <<commits, head, mergeHead, saved>>
          BY <2>2 DEF FoldWrite, repo
        <4>4. QED
          BY <3>2, <4>1, <4>2, <4>3, WritingKeepsSaved
      <3>3. QED
        BY <2>2, <3>1, <3>2 DEF FoldWrite
    <2>3. CASE \/ Wake \/ BurstFails \/ Check \/ FoldFails \/ AdoptHead \/ ReconcileFails \/ Rest
               \/ \E p \in Path : FoldRead(p)
      BY <2>3, IdleKeepsSaved
         DEF Wake, BurstFails, Check, FoldFails, AdoptHead, ReconcileFails, Rest, FoldRead, repo, At
    <2>4. QED
      BY <1>6, <2>1, <2>2, <2>3 DEF Pass
  <1>7. QED
    BY <1>1, <1>2, <1>3, <1>4, <1>5, <1>6 DEF Next

\* Until a commit has it, the text saved last is on disk, through every pull,
\* merge, rename, staging, commit, checkout and reconcile, except where the
\* history says that it was given up.
THEOREM SavedTextIsKept == Spec => []SavedIsKept
  <1>1. Init => Base /\ Kept
    <2>1. Init => Kept
      BY DEF Init, Kept, SavedIsKept, SavedIsUncommitted
    <2>2. QED
      BY <2>1, InitBase
  <1>2. Base /\ Kept /\ [Next]_vars => Base' /\ Kept'
    BY NextKeepsBase, NextKeepsSaved
  <1>3. Base /\ Kept => SavedIsKept
    BY DEF Kept
  <1>4. QED
    BY <1>1, <1>2, <1>3, PTL DEF Spec

-----------------------------------------------------------------------------
\* A change from outside is seen by the next reconcile.

Seen == UnfoldedIsUnknown /\ PassFolds

\* The history keeps what it has missed and takes in the paths of S.
Missing(S) == \A p \in Path : Unfolded(p)' /\ p \in missed \cup S => p \in missed'

\* What Miss does is that.
LEMMA MissIsMissing == ASSUME NEW S, Miss(S) PROVE Missing(S)
  BY DEF Miss, Missing

\* A change stays unknown where its file and the known commit's tree stay, or
\* where the file differs from that tree.
LEMMA UnknownStays ==
  ASSUME UnfoldedIsUnknown, mode' = mode, NEW S, Missing(S),
         \A p \in Path \ S : Unfolded(p)' =>
            \/ Unfolded(p) /\ disk'[p] = disk[p] /\ commits'[known'].tree[p] = At(known)[p]
            \/ disk'[p] # commits'[known'].tree[p]
  PROVE  UnfoldedIsUnknown'
  <1> SUFFICES ASSUME Manual, NEW p \in Path, Unfolded(p)'
               PROVE  p \in missed' \/ disk'[p] # commits'[known'].tree[p]
    BY DEF UnfoldedIsUnknown, Manual, At
  <1>1. CASE p \in S
    BY <1>1 DEF Missing
  <1>2. CASE p \notin S /\ Unfolded(p) /\ disk'[p] = disk[p] /\ commits'[known'].tree[p] = At(known)[p]
    <2>1. p \in missed \/ disk[p] # At(known)[p]
      BY <1>2 DEF UnfoldedIsUnknown
    <2>2. QED
      BY <1>2, <2>1 DEF Missing
  <1>3. QED
    BY <1>1, <1>2

\* What a pass has folded stays so while HEAD does.
LEMMA FoldsStay ==
  ASSUME PassFolds, UNCHANGED <<mode, pass, head>>, commits'[head] = commits[head], NEW S, Missing(S),
         \A p \in Path \ S : Unfolded(p)' =>
            \/ Unfolded(p) /\ disk'[p] = disk[p]
            \/ disk'[p] # At(head)[p]
  PROVE  PassFolds'
  <1> SUFFICES ASSUME Manual, pass.at \in {"fold", "put"}, pass.head = head,
                      NEW p \in Path \ pass.todo, Unfolded(p)'
               PROVE  \/ p \in missed' \/ disk'[p] # At(head)[p]
                      \/ pass.at = "put" /\ p = pass.p /\ disk'[p] = pass.text
    BY DEF PassFolds, Manual, At
  <1>1. CASE p \in S
    BY <1>1 DEF Missing
  <1>2. CASE p \notin S /\ Unfolded(p) /\ disk'[p] = disk[p]
    <2>1. \/ p \in missed \/ disk[p] # At(head)[p]
          \/ pass.at = "put" /\ p = pass.p /\ disk[p] = pass.text
      BY <1>2 DEF PassFolds
    <2>2. QED
      BY <1>2, <2>1 DEF Missing
  <1>3. QED
    BY <1>1, <1>2

\* A pass whose check saw another HEAD promises nothing.
LEMMA MovedHeadFoldsNothing ==
  ASSUME Base, UNCHANGED pass, NEW tree, Grown(tree), head' # head
  PROVE  PassFolds'
  <1>1. head \in Nat /\ head < head' /\ head' \in Nat
    BY CommitFacts DEF Grown
  <1>2. pass.at \in {"fold", "put"} => pass.head <= head /\ pass.head \in Nat
    BY CommitFacts DEF Base, PassOK, TypeOK, NoCommit
  <1>3. QED
    BY <1>1, <1>2 DEF PassFolds

\* Nothing moves but what no reconcile looks at.
LEMMA SameSeen ==
  ASSUME Seen, UNCHANGED <<mode, disk, acc, missed, known, head, pass>>,
         commits'[known] = commits[known], commits'[head] = commits[head]
  PROVE  Seen'
  BY DEF Seen, UnfoldedIsUnknown, PassFolds, Manual, Unfolded, At

\* Files are written, commits are not.
LEMMA WrittenIsSeen ==
  ASSUME Seen, UNCHANGED <<mode, commits, known, head, pass>>, NEW S, Miss(S),
         \A p \in Path \ S : Unfolded(p)' =>
            \/ disk'[p] = disk[p] /\ acc'[p] = acc[p]
            \/ disk'[p] \notin {At(known)[p], At(head)[p]}
  PROVE  Seen'
  <1>1. Missing(S)
    BY MissIsMissing
  <1>2. \A p \in Path \ S : Unfolded(p)' =>
           \/ Unfolded(p) /\ disk'[p] = disk[p]
           \/ disk'[p] \notin {At(known)[p], At(head)[p]}
    BY DEF Unfolded
  <1>3. UnfoldedIsUnknown'
    BY <1>1, <1>2, UnknownStays DEF Seen, At
  <1>4. PassFolds'
    BY <1>1, <1>2, FoldsStay DEF Seen
  <1>5. QED
    BY <1>3, <1>4 DEF Seen

\* HEAD gets a commit of its own, or stays; the known commit goes with it or
\* stays.  What drops out of sight is in the history.
LEMMA CommittedIsSeen ==
  ASSUME Base, Seen, UNCHANGED <<mode, pass>>, NEW tree, Grown(tree), NEW S, Miss(S),
         known' \in {known, head'}, Adopted \subseteq S,
         \A p \in Path \ S : Unfolded(p)' =>
            \/ disk'[p] = disk[p] /\ acc'[p] = acc[p]
            \/ disk'[p] \notin {At(known)[p], At(head)[p]}
  PROVE  Seen'
  <1>1. Missing(S)
    BY MissIsMissing
  <1>2. head \in DOMAIN commits /\ known \in DOMAIN commits
    BY CommitFacts
  <1>3. commits'[known] = commits[known] /\ commits'[head] = commits[head]
    BY <1>2 DEF Grown
  <1>4. \A p \in Path \ S : commits'[known'].tree[p] = At(known)[p]
    BY <1>3 DEF Adopted, At
  <1>5. \A p \in Path \ S : Unfolded(p)' =>
           \/ Unfolded(p) /\ disk'[p] = disk[p]
           \/ disk'[p] \notin {At(known)[p], At(head)[p]}
    BY DEF Unfolded
  <1>6. UnfoldedIsUnknown'
    BY <1>1, <1>4, <1>5, UnknownStays DEF Seen
  <1>7. PassFolds'
    <2>1. CASE head' = head
      BY <1>1, <1>3, <1>5, <2>1, FoldsStay DEF Seen
    <2>2. CASE head' # head
      BY <2>2, MovedHeadFoldsNothing
    <2>3. QED
      BY <2>1, <2>2
  <1>8. QED
    BY <1>6, <1>7 DEF Seen

\* What writes the vault: a file that does not come back to a commit differs from it.
LEMMA VaultIsSeen ==
  ASSUME Base, Seen, Vault
  PROVE  Seen'
  <1>0. disk \in Tree /\ acc \in Tree
    BY DEF Base, TypeOK
  <1>1. ASSUME NEW p \in Path, NEW t \in Typed, Save(p, t)
        PROVE  Seen'
    <2>1. UNCHANGED <<mode, commits, known, head, pass>> /\ Miss({})
      BY <1>1 DEF Save, repo
    <2>2. acc' = [acc EXCEPT ![p] = t] /\ disk' = [disk EXCEPT ![p] = t]
      BY <1>1 DEF Save
    <2>3. \A q \in Path : Unfolded(q)' => disk'[q] = disk[q] /\ acc'[q] = acc[q]
      BY <1>0, <2>2 DEF Unfolded, Tree
    <2>4. QED
      BY <2>1, <2>3, WrittenIsSeen
  <1>2. ASSUME NEW p \in Path, NEW t \in Foreign, Write(p, t)
        PROVE  Seen'
    <2>1. UNCHANGED <<mode, commits, known, head, pass, acc>> /\ Miss(Returned)
      BY <1>2 DEF Write, repo, task
    <2>2. \A q \in Path \ Returned : disk'[q] = disk[q] \/ disk'[q] \notin {At(known)[q], At(head)[q]}
      BY DEF Returned
    <2>3. QED
      BY <2>1, <2>2, WrittenIsSeen
  <1>3. ASSUME NEW p \in Path, NEW q \in Path, RenameNote(p, q)
        PROVE  Seen'
    <2> DEFINE S == Adopted \cup Returned
    <2>1. UNCHANGED <<mode, pass>> /\ Miss(S)
      BY <1>3 DEF RenameNote, task
    <2>2. p # q /\ disk[p] # Absent /\ disk[q] = Absent
          /\ disk' = [disk EXCEPT ![q] = disk[p], ![p] = Absent]
          /\ acc' = [acc EXCEPT ![q] = acc[p], ![p] = Absent]
      BY <1>3 DEF RenameNote
    <2>3. \A r \in Path : Unfolded(r)' =>
             \/ disk'[r] = disk[r] /\ acc'[r] = acc[r]
             \/ disk'[r] # disk[r]
      BY <1>0, <2>2 DEF Unfolded, Tree
    <2>4. \A r \in Path \ Returned : disk'[r] = disk[r] \/ disk'[r] \notin {At(known)[r], At(head)[r]}
      BY DEF Returned
    <2>5. Adopted \subseteq S
      OBVIOUS
    <2>6. \A r \in Path \ S : Unfolded(r)' =>
             \/ disk'[r] = disk[r] /\ acc'[r] = acc[r]
             \/ disk'[r] \notin {At(known)[r], At(head)[r]}
      BY <2>3, <2>4
    <2> HIDE DEF S
    <2>7. CASE WriteCommit(index', FALSE) /\ known' = head'
      <3>1. index' \in Tree
        BY <1>0, <1>3 DEF RenameNote, Base, TypeOK, Tree, Content
      <3>2. Grown(index') /\ known' = head'
        BY <2>7, <3>1, WriteCommitGrows
      <3>3. QED
        BY <2>1, <2>5, <2>6, <3>2, CommittedIsSeen
    <2>8. CASE UNCHANGED <<commits, head, known>>
      BY <2>1, <2>6, <2>8, WrittenIsSeen
    <2>9. QED
      BY <1>3, <2>7, <2>8 DEF RenameNote
  <1>4. QED
    BY <1>1, <1>2, <1>3 DEF Vault

\* The user's terminal: a commit moves HEAD and leaves the known one behind.
LEMMA TerminalIsSeen ==
  ASSUME Base, Seen, Terminal
  PROVE  Seen'
  <1>1. CASE UserCommit
    <2>1. UNCHANGED <<mode, pass, disk, acc, known>> /\ Miss({})
      BY <1>1 DEF UserCommit, task
    <2>2. Adopted \subseteq {}
      BY <2>1 DEF Adopted
    <2>3. Grown(disk)
      BY <1>1, UserCommitGrows
    <2>4. QED
      BY <2>1, <2>2, <2>3, CommittedIsSeen
  <1>2. ASSUME NEW c \in DOMAIN commits, UserCheckout(c)
        PROVE  Seen'
    <2>1. UNCHANGED <<mode, commits, known, acc>> /\ Miss(Returned) /\ head' = c
      BY <1>2 DEF UserCheckout
    <2>2. Missing(Returned)
      BY <2>1, MissIsMissing
    <2>3. \A p \in Path \ Returned : Unfolded(p)' =>
             \/ Unfolded(p) /\ disk'[p] = disk[p] /\ commits'[known'].tree[p] = At(known)[p]
             \/ disk'[p] # commits'[known'].tree[p]
      BY <2>1 DEF Returned, Unfolded, At
    <2>4. UnfoldedIsUnknown'
      BY <2>1, <2>2, <2>3, UnknownStays DEF Seen
    <2>5. pass'.head = NoCommit
      BY <1>2 DEF UserCheckout, Base, TypeOK
    <2>6. head' # NoCommit
      BY <2>1, CommitFacts DEF NoCommit
    <2>7. QED
      BY <2>4, <2>5, <2>6 DEF Seen, PassFolds
  <1>3. QED
    BY <1>1, <1>2 DEF Terminal

\* A peer touches nothing here.
LEMMA PeersAreSeen ==
  ASSUME Base, Seen, Peers
  PROVE  Seen'
  <1>1. UNCHANGED <<mode, disk, acc, missed, known, head, pass>>
    BY DEF Peers, PeerPush, task
  <1>2. head \in 1..Len(commits) /\ known \in 1..Len(commits) /\ Len(commits) \in Nat
        /\ commits \in Seq(CommitSet(Len(commits)))
    BY CommitFacts
  <1>3. PICK r : commits' = Append(commits, r)
    BY DEF Peers, PeerPush
  <1>4. commits'[head] = commits[head] /\ commits'[known] = commits[known]
    BY <1>2, <1>3
  <1>5. QED
    BY <1>1, <1>4, SameSeen

\* A pull adopts what it brings.
LEMMA PullIsSeen ==
  ASSUME Base, Seen, Pull
  PROVE  Seen'
  <1> DEFINE S == Adopted \cup Returned
  <1>1. UNCHANGED <<mode, acc, pass>> /\ Miss(S)
    BY DEF Pull, task
  <1>2. Adopted \subseteq S
    OBVIOUS
  <1>3. \A p \in Path \ S : Unfolded(p)' =>
           \/ disk'[p] = disk[p] /\ acc'[p] = acc[p]
           \/ disk'[p] \notin {At(known)[p], At(head)[p]}
    BY <1>1 DEF Returned
  <1> HIDE DEF S
  <1>4. CASE FastForward
    <2>1. Grown(At(remote)) /\ known' = head'
      BY <1>4, FastForwardGrows DEF FastForward
    <2>2. QED
      BY <1>1, <1>2, <1>3, <2>1, CommittedIsSeen
  <1>5. CASE MergeClean
    <2>1. Grown(Merged(head, remote)) /\ known' = head'
      BY <1>5, MergeCleanGrows DEF MergeClean
    <2>2. QED
      BY <1>1, <1>2, <1>3, <2>1, CommittedIsSeen
  <1>6. CASE MergeConflicted
    BY <1>1, <1>3, <1>6, WrittenIsSeen DEF MergeConflicted
  <1>7. QED
    BY <1>4, <1>5, <1>6 DEF Pull

\* All of the panel.
LEMMA PanelIsSeen ==
  ASSUME Base, Seen, Panel
  PROVE  Seen'
  <1>1. CASE Push \/ Refresh \/ (\E p \in Path : Stage(p) \/ Unstage(p))
    BY <1>1, SameSeen DEF Push, Refresh, Stage, Unstage, repo, task
  <1>2. ASSUME NEW p \in Path, Discard(p)
        PROVE  Seen'
    <2>1. UNCHANGED <<mode, commits, known, head, pass, acc>> /\ Miss(Returned)
      BY <1>2 DEF Discard, task
    <2>2. \A q \in Path \ Returned : disk'[q] = disk[q] \/ disk'[q] \notin {At(known)[q], At(head)[q]}
      BY DEF Returned
    <2>3. QED
      BY <2>1, <2>2, WrittenIsSeen
  <1>3. ASSUME NEW amend, CommitStaged(amend)
        PROVE  Seen'
    <2>1. UNCHANGED <<mode, pass, disk, acc>> /\ Miss(Adopted) /\ known' \in {known, head'}
      BY <1>3 DEF CommitStaged, Adopt, task
    <2>2. Grown(index)
      BY <1>3, WriteCommitGrows DEF CommitStaged, Base, TypeOK
    <2>3. QED
      BY <2>1, <2>2, CommittedIsSeen
  <1>4. CASE FinalizeMerge
    <2>1. UNCHANGED <<mode, pass, disk, acc>> /\ Miss(Adopted) /\ known' \in {known, head'}
      BY <1>4 DEF FinalizeMerge, Adopt, task
    <2>2. Grown(disk)
      BY <1>4, FinalizeGrows
    <2>3. QED
      BY <2>1, <2>2, CommittedIsSeen
  <1>5. QED
    BY <1>1, <1>2, <1>3, <1>4, PullIsSeen DEF Panel

\* A pass starts with every change there is, drops a path once its file is
\* gone or its document has the text, and adopts HEAD at the end.
LEMMA PassIsSeen ==
  ASSUME Base, Seen, Pass
  PROVE  Seen'
  <1>0. disk \in Tree /\ acc \in Tree
    BY DEF Base, TypeOK
  <1>1. CASE Wake \/ ReconcileFails \/ Rest
    <2>1. UNCHANGED <<mode, commits, head, disk, acc, known, missed>> /\ pass'.at \notin {"fold", "put"}
      BY <1>1 DEF Wake, ReconcileFails, Rest, Over, Idle, repo, Base, TypeOK
    <2>2. QED
      BY <2>1 DEF Seen, UnfoldedIsUnknown, PassFolds, Unfolded, At, Manual
  <1>2. CASE Burst \/ BurstFails
    BY <1>2 DEF Burst, BurstFails, Seen, UnfoldedIsUnknown, PassFolds, Manual
  <1>3. CASE Check
    <2>1. UNCHANGED <<mode, commits, head, disk, acc, known, missed>>
      BY <1>3 DEF Check, repo
    <2>2. UnfoldedIsUnknown'
      BY <2>1 DEF Seen, UnfoldedIsUnknown, Unfolded, At, Manual
    <2>3. pass'.at \in {"fold", "put"} => pass'.todo = Diverged
      BY <1>3 DEF Check, Over, Idle
    <2>4. \A p \in Path \ Diverged : disk[p] = At(head)[p] /\ At(known)[p] = At(head)[p]
      BY DEF Diverged, Changed
    <2>5. Manual => \A p \in Path \ Diverged : Unfolded(p) => p \in missed
      BY <2>4 DEF Seen, UnfoldedIsUnknown
    <2>6. PassFolds'
      BY <2>1, <2>3, <2>5 DEF PassFolds, Unfolded, Manual
    <2>7. QED
      BY <2>2, <2>6 DEF Seen
  <1>4. ASSUME NEW p \in Path, FoldRead(p)
        PROVE  Seen'
    <2>1. UNCHANGED <<mode, commits, head, disk, acc, known, missed>> /\ pass.at = "fold"
      BY <1>4 DEF FoldRead, repo
    <2>2. UnfoldedIsUnknown'
      BY <2>1 DEF Seen, UnfoldedIsUnknown, Unfolded, At, Manual
    <2>3. pass'.head = pass.head /\ pass'.todo = pass.todo \ {p}
          /\ (disk[p] # Absent => pass'.at = "put" /\ pass'.p = p /\ pass'.text = disk[p])
      BY <1>4 DEF FoldRead, Base, TypeOK
    <2>4. PassFolds'
      <3> SUFFICES ASSUME Manual, pass.head = head, NEW q \in Path \ pass'.todo, Unfolded(q)
                   PROVE  \/ q \in missed
                          \/ disk[q] # At(head)[q]
                          \/ pass'.at = "put" /\ q = pass'.p /\ disk[q] = pass'.text
        BY <2>1, <2>3 DEF PassFolds, Unfolded, Manual, At
      <3>1. CASE q = p
        BY <2>3, <3>1 DEF Unfolded
      <3>2. CASE q # p
        BY <2>1, <2>3, <3>2 DEF Seen, PassFolds
      <3>3. QED
        BY <3>1, <3>2
    <2>5. QED
      BY <2>2, <2>4 DEF Seen
  <1>5. CASE FoldWrite
    <2>1. UNCHANGED <<mode, commits, head, known>> /\ pass.at = "put" /\ pass.p \in Path
      BY <1>5 DEF FoldWrite, Base, PassOK, repo
    <2>2. pass'.at = "fold" /\ pass'.todo = pass.todo /\ pass'.head = pass.head
      BY <1>5 DEF FoldWrite, Base, TypeOK
    <2>3. Missing({})
      BY <1>5, MissIsMissing DEF FoldWrite, Missing
    <2>4. \A q \in Path : Unfolded(q)' =>
             Unfolded(q) /\ disk'[q] = disk[q] /\ (q = pass.p => disk[q] # pass.text)
      <3>1. CASE acc[pass.p] = pass.text /\ UNCHANGED <<acc, disk>>
        BY <3>1 DEF Unfolded
      <3>2. CASE acc' = [acc EXCEPT ![pass.p] = pass.text] /\ disk' = [disk EXCEPT ![pass.p] = pass.text]
        BY <1>0, <2>1, <3>2 DEF Unfolded, Tree
      <3>3. QED
        BY <1>5, <3>1, <3>2 DEF FoldWrite
    <2>5. UnfoldedIsUnknown'
      BY <2>1, <2>3, <2>4, UnknownStays DEF Seen, At
    <2>6. PassFolds'
      <3> SUFFICES ASSUME Manual, pass.head = head, NEW q \in Path \ pass.todo, Unfolded(q)'
                   PROVE  q \in missed' \/ disk'[q] # At(head)[q]
        BY <2>1, <2>2 DEF PassFolds, Manual, At
      <3>1. Unfolded(q) /\ disk'[q] = disk[q] /\ (q = pass.p => disk[q] # pass.text)
        BY <2>4
      <3>2. q \in missed \/ disk[q] # At(head)[q]
        BY <2>1, <3>1 DEF Seen, PassFolds
      <3>3. QED
        BY <2>3, <3>1, <3>2 DEF Missing
    <2>7. QED
      BY <2>5, <2>6 DEF Seen
  <1>6. CASE AdoptHead
    <2>1. UNCHANGED <<mode, commits, head, disk, acc>> /\ known' = head /\ pass.at = "fold" /\ pass.todo = {}
          /\ Miss(IF head = pass.head THEN {} ELSE {p \in Path : At(known)[p] # At(head)[p]})
      BY <1>6 DEF AdoptHead, repo
    <2>2. pass'.at = "over"
      BY <1>6 DEF AdoptHead, Over, Idle
    <2>3. UnfoldedIsUnknown'
      <3>1. CASE head = pass.head
        <4>1. Manual => \A p \in Path : Unfolded(p) => p \in missed \/ disk[p] # At(head)[p]
          BY <2>1, <3>1 DEF Seen, PassFolds
        <4>2. Missing({})
          BY <2>1, <3>1, MissIsMissing
        <4>3. QED
          BY <2>1, <4>1, <4>2 DEF UnfoldedIsUnknown, Missing, Unfolded, Manual, At
      <3>2. CASE head # pass.head
        <4> DEFINE S == {p \in Path : At(known)[p] # At(head)[p]}
        <4>1. Missing(S)
          BY <2>1, <3>2, MissIsMissing
        <4>2. \A p \in Path \ S : Unfolded(p)' =>
                 /\ Unfolded(p) /\ disk'[p] = disk[p]
                 /\ commits'[known'].tree[p] = At(known)[p]
          BY <2>1 DEF Unfolded, At
        <4> HIDE DEF S
        <4>3. QED
          BY <2>1, <4>1, <4>2, UnknownStays DEF Seen
      <3>3. QED
        BY <3>1, <3>2
    <2>4. QED
      BY <2>2, <2>3 DEF Seen, PassFolds
  <1>7. CASE FoldFails
    <2> DEFINE S == {q \in {pass.p} : disk[q] \in {At(known)[q], At(head)[q]}}
    <2>1. UNCHANGED <<mode, commits, head, known, disk>> /\ pass.at = "put" /\ pass.p \in Path /\ Miss(S)
      BY <1>7 DEF FoldFails, Base, PassOK, repo
    <2>2. pass'.at = "fold" /\ pass'.todo = pass.todo /\ pass'.head = pass.head
      BY <1>7 DEF FoldFails, Base, TypeOK
    <2>3. Missing(S)
      BY <2>1, MissIsMissing
    <2>4. \A q \in Path \ {pass.p} : Unfolded(q)' => Unfolded(q)
      BY <1>0, <1>7, <2>1 DEF FoldFails, Unfolded, Tree
    <2>5. pass.p \notin S => disk[pass.p] \notin {At(known)[pass.p], At(head)[pass.p]}
      OBVIOUS
    <2>6. S \subseteq {pass.p}
      OBVIOUS
    <2> HIDE DEF S
    <2>7. UnfoldedIsUnknown'
      <3>1. \A q \in Path \ S : Unfolded(q)' =>
               \/ Unfolded(q) /\ disk'[q] = disk[q] /\ commits'[known'].tree[q] = At(known)[q]
               \/ disk'[q] # commits'[known'].tree[q]
        BY <2>1, <2>4, <2>5 DEF At
      <3>2. QED
        BY <2>1, <2>3, <3>1, UnknownStays DEF Seen
    <2>8. PassFolds'
      <3> SUFFICES ASSUME Manual, pass.head = head, NEW q \in Path \ pass.todo, Unfolded(q)'
                   PROVE  q \in missed' \/ disk[q] # At(head)[q]
        BY <2>1, <2>2 DEF PassFolds, Manual, At
      <3>1. CASE q = pass.p
        BY <2>3, <2>5, <3>1 DEF Missing
      <3>2. CASE q # pass.p
        <4>1. q \in missed \/ disk[q] # At(head)[q]
          BY <2>1, <2>4, <3>2 DEF Seen, PassFolds
        <4>2. QED
          BY <2>3, <4>1 DEF Missing
      <3>3. QED
        BY <3>1, <3>2
    <2>9. QED
      BY <2>7, <2>8 DEF Seen
  <1>8. QED
    BY <1>1, <1>2, <1>3, <1>4, <1>5, <1>6, <1>7 DEF Pass

\* So every step keeps what is to be seen.
LEMMA NextKeepsSeen == Base /\ Seen /\ [Next]_vars => Seen'
  <1> SUFFICES ASSUME Base, Seen, [Next]_vars PROVE Seen'
    OBVIOUS
  <1>1. CASE UNCHANGED vars
    BY <1>1, SameSeen DEF vars, repo, task
  <1>2. QED
    BY <1>1, VaultIsSeen, TerminalIsSeen, PeersAreSeen, PanelIsSeen, PassIsSeen DEF Next

\* In manual mode a change from outside that its document has not got is one
\* the next reconcile folds, or one that the history says was adopted, or came
\* back to a commit, unseen.
THEOREM UnfoldedChangesAreSeen == Spec => []UnfoldedIsSeen
  <1>1. Init => Base /\ Seen
    <2>1. Init => Seen
      BY DEF Init, Seen, UnfoldedIsUnknown, PassFolds, Unfolded, Idle
    <2>2. QED
      BY <2>1, InitBase
  <1>2. Base /\ Seen /\ [Next]_vars => Base' /\ Seen'
    BY NextKeepsBase, NextKeepsSeen
  <1>3. Base /\ Seen => UnfoldedIsSeen
    BY DEF Seen, UnfoldedIsUnknown, UnfoldedIsSeen, Diverged, Changed
  <1>4. QED
    BY <1>1, <1>2, <1>3, PTL DEF Spec

\* The invariant as a whole, for what is built on the model later.
THEOREM GitInvariant == Spec => []GitInv
  <1>1. Init => Base /\ Kept /\ Seen
    BY InitBase DEF Init, Kept, SavedIsKept, SavedIsUncommitted, Seen, UnfoldedIsUnknown, PassFolds,
                    Unfolded, Idle
  <1>2. Base /\ Kept /\ Seen /\ [Next]_vars => Base' /\ Kept' /\ Seen'
    BY NextKeepsBase, NextKeepsSaved, NextKeepsSeen
  <1>3. Base /\ Kept /\ Seen => GitInv
    BY DEF Base, Kept, Seen, GitInv
  <1>4. QED
    BY <1>1, <1>2, <1>3, PTL DEF Spec
=============================================================================
