--------------------------- MODULE EditorSession ---------------------------
(***************************************************************************)
(* What the application holds of a note's text while it is open: the       *)
(* editor buffer, the layered document's cached accepted text and the      *)
(* unsaved working text over it, the file, and the autosave sidecar that   *)
(* is to survive a crash (app/src/buffer.rs, editor_pane.rs,               *)
(* panels/buffer/editor_binding.rs, files/rename.rs, main.rs,              *)
(* core/src/autosave.rs, core/src/editing/).                               *)
(*                                                                         *)
(* The UI thread runs one frame at a time.  A frame shows a buffer and     *)
(* binds it to the document; every 5 s the frame also gathers the buffers  *)
(* for autosave and hands them to a task on the blocking pool, so several  *)
(* of these tasks may be at work at once.                                  *)
(***************************************************************************)
EXTENDS Naturals, Sequences, SequencesExt, FiniteSets

CONSTANTS
    Path,        \* vault-relative paths
    Text,        \* contents of notes
    Typed,       \* bound: what the user may type
    Foreign,     \* bound: what other programs may write; Absent deletes
    Result,      \* bound: what a mutation may answer
    Vaults,      \* bound: what the vault may hold when it is opened
    MaxTasks,    \* bound: autosave tasks at work at once
    MaxSteps,    \* bound: what the user, other programs and the model do
    MaxCrashes,  \* bound: crashes
    Absent

ASSUME EditorAssumption ==
    /\ Absent \notin Text /\ Typed \subseteq Text /\ Result \subseteq Text
    /\ Foreign \subseteq Text \cup {Absent}
    /\ Vaults \subseteq [Path -> Text \cup {Absent}]
    /\ MaxTasks \in Nat \ {0} /\ MaxSteps \in Nat /\ MaxCrashes \in Nat

VARIABLES
    disk,      \* the vault's files
    acc,       \* the accepted texts the layered documents have cached
    work,      \* their unsaved working texts
    buf,       \* the open buffers
    ui,        \* paths whose watcher event the UI has yet to drain
    mut,       \* loaded_hash at the submission of the mutation in flight
    entry,     \* autosave's index: the hash of what was saved for a path
    side,      \* the sidecar file the index names
    tasks,     \* autosave tasks, oldest first, with the calls each still owes
    up,        \* is the application running?
    todo,      \* recovered entries still to be restored
    unsaved,   \* history: what the user typed last and has not saved
    gathered,  \* history: what autosave last set out to do for a path
    late,      \* history: paths with an older autosave call still to come
    raw,       \* history: buffers whose text the host put there
    apart,     \* history: paths whose file another program has moved on
    lost,      \* history: paths whose unsaved text was given up
    steps, crashes

vars == <<disk, acc, work, buf, ui, mut, entry, side, tasks, up, todo, unsaved,
          gathered, late, raw, apart, lost, steps, crashes>>
docs == <<disk, acc, work>>
store == <<entry, side, tasks, gathered, late>>
life == <<up, todo, crashes>>

MaybeText == Text \cup {Absent}
Clear == "clear"
\* What one autosave task does for a path: a write, a clear, or nothing.
Call == MaybeText \cup {Clear}
ASSUME ClearIsNoText == Clear \notin MaybeText

Nothing == [p \in Path |-> Absent]

\* loaded_text follows loaded_hash and is not kept apart from it.
Buffer == [text : Text, loaded : MaybeText]
NoBuf == [text |-> Absent, loaded |-> Absent]
Open(p) == buf[p] # NoBuf
Dirty(p) == Open(p) /\ buf[p].text # buf[p].loaded
Clean(p) == Open(p) /\ ~Dirty(p)

Init ==
    /\ disk \in Vaults /\ acc = disk
    /\ work = Nothing /\ buf = [p \in Path |-> NoBuf]
    /\ ui = {} /\ mut = Nothing
    /\ entry = Nothing /\ side = Nothing /\ tasks = <<>>
    /\ up = TRUE /\ todo = {}
    /\ unsaved = Nothing /\ gathered = Nothing
    /\ late = {} /\ raw = {} /\ apart = {} /\ lost = {}
    /\ steps = 0 /\ crashes = 0

\* The frames of the UI start once everything recovered is restored.
Running == up /\ todo = {}
Spend == steps < MaxSteps /\ steps' = steps + 1

-----------------------------------------------------------------------------
(* The layered document: cached at start for every file, read lazily after *)
(* that, and never read again while it is cached.                          *)

HasDoc(p) == acc[p] # Absent \/ disk[p] # Absent
Loaded(p) == IF acc[p] # Absent THEN acc[p] ELSE disk[p]
WorkText(p) == IF work[p] # Absent THEN work[p] ELSE Loaded(p)

OpenBuffer(p) ==
    /\ Running /\ Spend /\ ~Open(p) /\ disk[p] # Absent
    /\ buf' = [buf EXCEPT ![p] = [text |-> disk[p], loaded |-> disk[p]]]
    /\ UNCHANGED <<docs, ui, mut, store, life, unsaved, raw, apart, lost>>

Bound_Bug(p) == [text |-> WorkText(p), loaded |-> WorkText(p)]

\* The reverse half of the binding: the buffer shows the working text, and
\* what counts as loaded is the accepted text.
Bound(p) == [text |-> WorkText(p), loaded |-> Loaded(p)]

Frame(p) ==
    /\ Running /\ Open(p) /\ HasDoc(p)
    /\ acc' = [acc EXCEPT ![p] = Loaded(p)]
    /\ buf' = [buf EXCEPT ![p] = Bound(p)]
    /\ raw' = raw \ {p}
    \* Text that is in the buffer and nowhere else.
    /\ lost' = IF p \in raw /\ work[p] = Absent THEN lost \cup {p} ELSE lost
    /\ UNCHANGED <<disk, work, ui, mut, store, life, unsaved, apart, steps>>

Mirrored_Bug(p, t) ==
    IF HasDoc(p) /\ work[p] # Absent THEN [work EXCEPT ![p] = t] ELSE work

\* The user edits a buffer that is shown, so that it has been bound; the
\* forward half mirrors the edit into the working text, which starts as a
\* copy of the accepted one.  Without a document there is nothing to mirror
\* it into.
Mirrored(p, t) == IF HasDoc(p) THEN [work EXCEPT ![p] = t] ELSE work

Type(p, t) ==
    /\ Running /\ Spend /\ Open(p) /\ t # buf[p].text
    /\ HasDoc(p) => p \notin raw /\ buf[p] = Bound(p)
    /\ acc' = [acc EXCEPT ![p] = Loaded(p)]
    /\ work' = Mirrored(p, t)
    /\ buf' = [buf EXCEPT ![p].text = t]
    /\ raw' = IF HasDoc(p) THEN raw ELSE raw \cup {p}
    /\ unsaved' = [unsaved EXCEPT ![p] = IF t = buf[p].loaded THEN Absent ELSE t]
    /\ lost' = lost \ {p}
    /\ UNCHANGED <<disk, ui, mut, store, life, apart>>

-----------------------------------------------------------------------------
(* Saving, closing, discarding.                                            *)

\* commit_working: nothing to commit is a success; a working text equal to
\* the accepted one writes no file.
Save(p) ==
    /\ Running /\ Spend /\ Dirty(p) /\ HasDoc(p)
    /\ buf' = [buf EXCEPT ![p].loaded = buf[p].text]
    /\ LET w == WorkText(p)
           writes == work[p] # Absent /\ w # Loaded(p)
       IN /\ acc' = [acc EXCEPT ![p] = w]
          /\ disk' = IF writes THEN [disk EXCEPT ![p] = w] ELSE disk
          /\ ui' = IF writes THEN ui \cup {p} ELSE ui
          /\ apart' = IF writes /\ w = buf[p].text THEN apart \ {p} ELSE apart
          /\ unsaved' = IF work[p] # Absent THEN [unsaved EXCEPT ![p] = Absent] ELSE unsaved
    /\ lost' = IF p \in raw /\ work[p] = Absent THEN lost \cup {p} ELSE lost
    /\ work' = [work EXCEPT ![p] = Absent]
    /\ UNCHANGED <<mut, store, life, raw>>

CloseBuffer(p) ==
    /\ Running /\ Spend /\ Clean(p)
    /\ buf' = [buf EXCEPT ![p] = NoBuf]
    /\ raw' = raw \ {p}
    /\ UNCHANGED <<docs, ui, mut, store, life, unsaved, apart, lost>>

\* Discard & close takes the buffer away and leaves the working text, which
\* the next buffer of this path will show, and the sidecar, which the next
\* start will recover.
Discard(p) ==
    /\ Running /\ Spend /\ Dirty(p)
    /\ buf' = [buf EXCEPT ![p] = NoBuf]
    /\ raw' = raw \ {p}
    /\ unsaved' = [unsaved EXCEPT ![p] = Absent]
    /\ UNCHANGED <<docs, ui, mut, store, life, apart, lost>>

\* The move itself is the indexer's: the file and the cached document change
\* their path, over whatever was cached at the new one.  Then the buffer
\* follows, unless the new path has one of its own.
Moved(f, p, q) == [f EXCEPT ![q] = f[p], ![p] = Absent]
Rename(p, q) ==
    /\ Running /\ Spend /\ disk[p] # Absent /\ disk[q] = Absent
    /\ disk' = Moved(disk, p, q)
    /\ IF acc[p] = Absent
       THEN UNCHANGED <<acc, work>>
       ELSE acc' = Moved(acc, p, q) /\ work' = Moved(work, p, q)
    /\ IF Open(q) \/ ~Open(p)
       THEN UNCHANGED <<buf, raw>>
       ELSE /\ buf' = [buf EXCEPT ![q] = buf[p], ![p] = NoBuf]
            /\ raw' = (raw \ {p}) \cup (IF p \in raw THEN {q} ELSE {})
    /\ apart' = (apart \ {p}) \cup (IF p \in apart THEN {q} ELSE {})
                              \cup (IF Open(q) /\ Open(p) THEN {p} ELSE {})
    \* What the user typed goes with the working text, or with the buffer;
    \* the document replaces the one that was cached for q, its text with it.
    \* The buffer of a note without one comes under q's, text and all.
    /\ LET goes == work[p] # Absent \/ ~Open(q)
       IN /\ unsaved' = IF goes THEN Moved(unsaved, p, q) ELSE unsaved
          /\ lost' = (IF ~goes THEN lost
                      ELSE (lost \ {p, q}) \cup (IF p \in lost THEN {q} ELSE {}))
                     \cup (IF acc[p] # Absent /\ unsaved[q] # Absent THEN {q} ELSE {})
                     \cup (IF acc[p] = Absent /\ work[q] # Absent THEN {q} ELSE {})
    /\ UNCHANGED <<ui, mut, store, life>>

-----------------------------------------------------------------------------
(* Other programs, and the UI's answer to the watcher's event.             *)

Write(p, c) ==
    /\ Spend /\ disk[p] # c
    /\ disk' = [disk EXCEPT ![p] = c]
    /\ ui' = IF up THEN ui \cup {p} ELSE ui
    /\ apart' = IF up THEN apart \cup {p} ELSE apart
    /\ UNCHANGED <<acc, work, buf, mut, store, life, unsaved, raw, lost>>

Reload(p) ==
    /\ Running /\ p \in ui
    /\ ui' = ui \ {p}
    /\ buf' = IF Clean(p) /\ disk[p] # Absent
              THEN [buf EXCEPT ![p] = [text |-> disk[p], loaded |-> disk[p]]]
              ELSE buf
    /\ UNCHANGED <<docs, mut, store, life, unsaved, raw, apart, lost, steps>>

-----------------------------------------------------------------------------
(* A mutation: the model's answer replaces the buffer's text if what was   *)
(* loaded is still what it was.                                            *)

Submit(p) ==
    /\ Running /\ Spend /\ Open(p) /\ mut[p] = Absent /\ buf[p].loaded # Absent
    /\ mut' = [mut EXCEPT ![p] = buf[p].loaded]
    /\ UNCHANGED <<docs, buf, ui, store, life, unsaved, raw, apart, lost>>

Answered(p, t) ==
    /\ Running /\ Spend /\ mut[p] # Absent
    /\ mut' = [mut EXCEPT ![p] = Absent]
    /\ IF Open(p) /\ buf[p].loaded = mut[p]
       THEN /\ buf' = [buf EXCEPT ![p].text = t]
            /\ raw' = raw \cup {p}
            /\ lost' = IF p \in raw /\ work[p] = Absent THEN lost \cup {p} ELSE lost
       ELSE UNCHANGED <<buf, raw, lost>>
    /\ UNCHANGED <<docs, ui, store, life, unsaved, apart>>

-----------------------------------------------------------------------------
(* Autosave.  A tick gathers every open buffer on the UI thread; the task  *)
(* it spawns makes its calls one by one, the clears first, each under the  *)
(* store's lock.                                                           *)

Gather_Bug == [p \in Path |-> IF Dirty(p) THEN buf[p].text ELSE Absent]

Gather == [p \in Path |-> IF Dirty(p) THEN buf[p].text ELSE IF Open(p) THEN Clear ELSE Absent]

Tick ==
    /\ Running /\ Len(tasks) < MaxTasks /\ \E p \in Path : Open(p)
    /\ tasks' = Append(tasks, Gather)
    /\ gathered' = [p \in Path |-> IF Open(p) THEN Gather[p] ELSE gathered[p]]
    /\ late' = {p \in late : ~Open(p)}
    /\ UNCHANGED <<docs, buf, ui, mut, entry, side, life, unsaved, raw, apart, lost, steps>>

Owes(i, p) == tasks[i][p] # Absent
NextCall(i, p) ==
    Owes(i, p) /\ (tasks[i][p] = Clear \/ \A q \in Path : tasks[i][q] # Clear)

\* Autosave::write replaces the sidecar and its entry, Autosave::clear
\* removes both.
Sidecar(c) == IF c = Clear THEN Absent ELSE c

Indexed_Bug(p, c) ==
    IF c = Clear THEN Absent ELSE IF entry[p] # Absent THEN entry[p] ELSE c

Indexed(p, c) == IF c = Clear THEN Absent ELSE c

DoCall(i, p) ==
    /\ up /\ i \in DOMAIN tasks /\ NextCall(i, p)
    /\ entry' = [entry EXCEPT ![p] = Indexed(p, tasks[i][p])]
    /\ side' = [side EXCEPT ![p] = Sidecar(tasks[i][p])]
    /\ LET rest == [tasks[i] EXCEPT ![p] = Absent]
       IN tasks' = IF rest = Nothing THEN RemoveAt(tasks, i) ELSE [tasks EXCEPT ![i] = rest]
    /\ late' = IF \E j \in 1..i-1 : Owes(j, p) THEN late \cup {p} ELSE late
    /\ UNCHANGED <<docs, buf, ui, mut, gathered, life, unsaved, raw, apart, lost, steps>>

Owed(p) == \E i \in DOMAIN tasks : Owes(i, p)

-----------------------------------------------------------------------------
(* Crash and recovery.                                                     *)

\* Has autosave done what the last tick set out to do, and was that to keep
\* the text the user had typed?
Parked(p) == gathered[p] = unsaved[p] /\ ~Owed(p) /\ p \notin late

\* A call changes the sidecar first and the index second, and a crash can
\* come between the two.  A sidecar the index does not name is never read.
HalfDone(s) ==
    \/ s = side
    \/ \E i \in DOMAIN tasks, p \in Path :
         /\ NextCall(i, p)
         /\ s = [side EXCEPT ![p] = IF entry[p] = Absent THEN Absent ELSE Sidecar(tasks[i][p])]

Crash ==
    /\ up /\ crashes < MaxCrashes
    /\ crashes' = crashes + 1
    /\ \E s \in {side} \cup {[side EXCEPT ![p] = c] : p \in Path, c \in MaybeText} :
         HalfDone(s) /\ side' = s
    /\ up' = FALSE /\ todo' = {} /\ tasks' = <<>>
    /\ buf' = [p \in Path |-> NoBuf] /\ acc' = Nothing /\ work' = Nothing
    /\ ui' = {} /\ mut' = Nothing /\ raw' = {} /\ apart' = {}
    /\ lost' = lost \cup {p \in Path : ~Parked(p)}
    /\ gathered' = [p \in Path |-> IF Owed(p) \/ p \in late THEN Absent ELSE gathered[p]]
    /\ late' = {}
    /\ UNCHANGED <<disk, entry, unsaved, steps>>

Stale_Bug(p) == entry[p] = disk[p]

\* recover(): an entry whose hash is the file's is stale, one without a
\* sidecar is an orphan; the others are restored.  An I/O error on any of
\* them makes the whole list empty.
Stale(p) == entry[p] = disk[p] \/ side[p] = Absent

Restart ==
    /\ ~up /\ up' = TRUE
    /\ acc' = disk
    /\ \E ok \in BOOLEAN :
         LET drop == IF ok THEN {p \in Path : Stale(p)} ELSE {}
             kept == IF ok THEN {p \in Path : ~Stale(p) /\ entry[p] # Absent} ELSE {}
         IN /\ todo' = kept
            /\ entry' = [p \in Path |-> IF p \in drop THEN Absent ELSE entry[p]]
            /\ side' = [p \in Path |-> IF p \in drop THEN Absent ELSE side[p]]
            /\ gathered' = [p \in Path |-> IF p \in drop THEN Clear ELSE gathered[p]]
            /\ lost' = IF ok THEN lost ELSE Path
    /\ unsaved' = [p \in Path |-> IF unsaved[p] = disk[p] THEN Absent ELSE unsaved[p]]
    /\ UNCHANGED <<disk, work, buf, ui, mut, tasks, late, raw, apart, steps, crashes>>

\* The buffer is dirty against the file as recover() saw it, and so did the
\* seeding before it; its entry is cleared at once.
Restore(p) ==
    /\ up /\ p \in todo /\ todo' = todo \ {p}
    /\ buf' = [buf EXCEPT ![p] = [text |-> side[p], loaded |-> acc[p]]]
    /\ entry' = [entry EXCEPT ![p] = Absent] /\ side' = [side EXCEPT ![p] = Absent]
    /\ gathered' = [gathered EXCEPT ![p] = Clear]
    /\ raw' = raw \cup {p}
    /\ UNCHANGED <<docs, ui, mut, tasks, up, late, unsaved, apart, lost, steps, crashes>>

-----------------------------------------------------------------------------
UserStep ==
    \E p \in Path :
        \/ OpenBuffer(p) \/ Save(p) \/ CloseBuffer(p) \/ Discard(p) \/ Submit(p)
        \/ \E t \in Typed : Type(p, t)
        \/ \E q \in Path : Rename(p, q)
        \/ \E c \in Foreign : Write(p, c)
        \/ \E t \in Result : Answered(p, t)
FrameStep == \E p \in Path : Frame(p) \/ Reload(p)
StoreStep == Tick \/ \E i \in 1..MaxTasks, p \in Path : DoCall(i, p)
CrashStep == Crash \/ Restart \/ \E p \in Path : Restore(p)

Next ==
    \/ UserStep
    \/ FrameStep
    \/ StoreStep
    \/ CrashStep

Spec == Init /\ [][Next]_vars

\* Frames go on, so the tick comes round again; the blocking pool runs what
\* it was given; the start of the application restores entry after entry.
FairSpec ==
    /\ Spec
    /\ WF_vars(Tick)
    /\ WF_vars(\E p \in Path : Restore(p))
    /\ \A i \in 1..MaxTasks : WF_vars(\E p \in Path : DoCall(i, p))

-----------------------------------------------------------------------------
\* Every variable has its type; no more autosave tasks than the bound.
TypeOK ==
    /\ disk \in [Path -> MaybeText] /\ acc \in [Path -> MaybeText]
    /\ work \in [Path -> MaybeText] /\ buf \in [Path -> Buffer \cup {NoBuf}]
    /\ ui \subseteq Path /\ mut \in [Path -> MaybeText]
    /\ entry \in [Path -> MaybeText] /\ side \in [Path -> MaybeText]
    /\ tasks \in Seq([Path -> Call]) /\ Len(tasks) <= MaxTasks
    /\ up \in BOOLEAN /\ todo \subseteq Path
    /\ unsaved \in [Path -> MaybeText] /\ gathered \in [Path -> Call]
    /\ late \subseteq Path /\ raw \subseteq Path /\ apart \subseteq Path /\ lost \subseteq Path
    /\ steps \in 0..MaxSteps /\ crashes \in 0..MaxCrashes

\* What the user typed and has neither saved nor discarded is somewhere it
\* can be got back from: in the working text or the buffer while the
\* application runs, in a sidecar its entry vouches for while it is down or
\* has the path still to restore.  The text is given up
\* (lost) only where: a crash comes before autosave has carried out the tick
\* that saw the text, or after a restore and before the next tick; recover
\* fails; a frame, a Save or a mutation replaces a buffer whose text the
\* working text does not have; a rename moves another document over it, or it
\* under another one.
UnsavedIsHeld ==
    \A p \in Path \ lost : unsaved[p] # Absent =>
        \/ up /\ p \notin todo /\ (work[p] = unsaved[p] \/ buf[p].text = unsaved[p])
        \/ (up => p \in todo) /\ entry[p] = unsaved[p] /\ side[p] = unsaved[p]

\* Once no task owes a call for a path, the store holds what the last tick
\* that saw the path wanted there, unless the tasks overtook each other: a
\* task's calls are not ordered after an older task's.
StoreMirrorsTick ==
    \A p \in Path : up /\ gathered[p] # Absent /\ ~Owed(p) /\ p \notin late =>
        /\ entry[p] = (IF gathered[p] = Clear THEN Absent ELSE gathered[p])
        /\ side[p] = entry[p]

\* A buffer that reads clean shows what is on disk, whatever the user did in
\* between, unless another program has moved the file on or the host filled
\* the buffer itself.
CleanIsOnDisk ==
    \A p \in Path : Clean(p) /\ p \notin raw \cup apart => disk[p] = buf[p].text

-----------------------------------------------------------------------------
(* The invariant the proofs are built on.                                  *)

\* A document that is not cached has no working text.  One whose file nobody
\* else has moved on is cached as the file is.
CachedIsDisk ==
    \A p \in Path : /\ acc[p] = Absent => work[p] = Absent
                    /\ acc[p] # Absent /\ p \notin apart => acc[p] = disk[p]

\* Until everything recovered is restored, nothing runs and nobody types; what
\* is to be restored has a sidecar and is not what the document has cached.
Recovering ==
    /\ ~Running => work = Nothing /\ tasks = <<>>
    /\ ~up => acc = Nothing /\ todo = {} /\ \A p \in Path : ~Open(p)
    /\ \A p \in todo : entry[p] # Absent /\ side[p] # Absent /\ entry[p] # acc[p]

\* A dirty buffer the host did not fill shows the working text.
DirtyIsWorking ==
    \A p \in Path : Dirty(p) /\ p \notin raw \cup apart => work[p] = buf[p].text

\* Where what the user typed is: in the working text, or, where there is none,
\* in a dirty buffer the host filled; before that, in what is to be restored.
Held(p) ==
    \/ up /\ p \notin todo /\ work[p] = unsaved[p]
    \/ up /\ p \notin todo /\ work[p] = Absent /\ p \in raw /\ Dirty(p) /\ buf[p].text = unsaved[p]
    \/ (up => p \in todo) /\ entry[p] = unsaved[p] /\ side[p] = unsaved[p]
AllHeld == \A p \in Path \ lost : unsaved[p] # Absent => Held(p)

\* Has the store what c wants for p?
Stored(p, c) == entry[p] = Indexed(p, c) /\ side[p] = Sidecar(c)

\* The newest of the tasks that owe p a call.
Newest(i, p) == i \in DOMAIN tasks /\ Owes(i, p) /\ \A j \in DOMAIN tasks : j > i => ~Owes(j, p)

\* What the last tick wanted is the newest call still owed, or is stored.
NewestIsGathered ==
    \A p \in Path \ late : gathered[p] # Absent =>
        /\ \A i \in DOMAIN tasks : Newest(i, p) => tasks[i][p] = gathered[p]
        /\ ~Owed(p) => Stored(p, gathered[p])

SessionInv ==
    /\ TypeOK /\ CachedIsDisk /\ Recovering
    /\ CleanIsOnDisk /\ DirtyIsWorking
    /\ AllHeld /\ NewestIsGathered

\* When the user rests, autosave comes to hold exactly the dirty buffers
\* among the open ones, even after tasks overtook each other or a crash left
\* a call half done.
SidecarsSettle ==
    <>[](\A p \in Path : Open(p) =>
            /\ side[p] = entry[p]
            /\ entry[p] = (IF Dirty(p) THEN buf[p].text ELSE Absent))

\* "A dirty buffer is left untouched so unsaved edits never vanish"
\* (app/src/main.rs:1175), and a recovered buffer is there for the user to
\* "decide to save or revert" (app/src/widgets/modal.rs:401): what the UI does
\* of its own accord leaves the user's unsaved text in its buffer.
FrameKeepsUnsaved ==
    [][\A p \in Path : FrameStep /\ Dirty(p) /\ buf[p].text = unsaved[p]
            => buf'[p].text = unsaved[p]]_vars
=============================================================================
