------------------------ MODULE EditorSessionProofs ------------------------
(***************************************************************************)
(* Proofs about EditorSession, for every vault and text, any number of     *)
(* autosave tasks at work at once and any number of crashes: what the user *)
(* typed is held somewhere, the autosave store has what the last tick      *)
(* wanted, and a buffer that reads clean is what is on disk.               *)
(***************************************************************************)
EXTENDS EditorSession, SequenceTheorems, TLAPS

-----------------------------------------------------------------------------
\* Sequences: one element more at the end, one changed, one less.

\* What Append(s, e) is.
LEMMA AppendFacts ==
  ASSUME NEW S, NEW s \in Seq(S), NEW e \in S
  PROVE  /\ Append(s, e) \in Seq(S) /\ Len(Append(s, e)) = Len(s) + 1
         /\ DOMAIN s = 1..Len(s) /\ DOMAIN Append(s, e) = 1..(Len(s) + 1)
         /\ \A i \in 1..Len(s) : Append(s, e)[i] = s[i]
         /\ Append(s, e)[Len(s) + 1] = e
  BY AppendProperties

\* What RemoveAt(s, i) is: those after i move down by one.
LEMMA RemoveFacts ==
  ASSUME NEW S, NEW s \in Seq(S), NEW i \in 1..Len(s)
  PROVE  /\ RemoveAt(s, i) \in Seq(S) /\ Len(RemoveAt(s, i)) = Len(s) - 1
         /\ DOMAIN s = 1..Len(s) /\ DOMAIN RemoveAt(s, i) = 1..(Len(s) - 1)
         /\ \A j \in 1..(Len(s) - 1) : RemoveAt(s, i)[j] = IF j < i THEN s[j] ELSE s[j + 1]
  <1> DEFINE a == SubSeq(s, 1, i - 1)
             b == SubSeq(s, i + 1, Len(s))
  <1>1. a \in Seq(S) /\ Len(a) = i - 1 /\ \A j \in 1..(i - 1) : a[j] = s[j]
    BY SubSeqProperties
  <1>2. b \in Seq(S) /\ Len(b) = Len(s) - i /\ \A j \in 1..(Len(s) - i) : b[j] = s[i + j]
    BY SubSeqProperties
  <1>3. RemoveAt(s, i) = a \o b
    BY DEF RemoveAt
  <1> HIDE DEF a, b
  <1>4. /\ a \o b \in Seq(S) /\ Len(a \o b) = Len(a) + Len(b)
        /\ \A j \in 1..(Len(a) + Len(b)) : (a \o b)[j] = IF j <= Len(a) THEN a[j] ELSE b[j - Len(a)]
    BY <1>1, <1>2, ConcatProperties
  <1>5. Len(a) + Len(b) = Len(s) - 1
    BY <1>1, <1>2
  <1>6. \A j \in 1..(Len(s) - 1) : (a \o b)[j] = IF j < i THEN s[j] ELSE s[j + 1]
    <2> DEFINE c == a \o b
    <2>1. \A j \in 1..(Len(s) - 1) : c[j] = IF j <= i - 1 THEN a[j] ELSE b[j - (i - 1)]
      BY <1>1, <1>4, <1>5
    <2> HIDE DEF c
    <2>2. \A j \in 1..(Len(s) - 1) : j < i => c[j] = s[j]
      BY <1>1, <2>1
    <2>3. \A j \in 1..(Len(s) - 1) : ~(j < i) => c[j] = s[j + 1]
      <3> SUFFICES ASSUME NEW j \in 1..(Len(s) - 1), ~(j < i)
                   PROVE  c[j] = s[j + 1]
        OBVIOUS
      <3>1. j - (i - 1) \in 1..(Len(s) - i) /\ i + (j - (i - 1)) = j + 1
        OBVIOUS
      <3>2. c[j] = b[j - (i - 1)]
        BY <2>1
      <3>3. b[j - (i - 1)] = s[j + 1]
        BY <1>2, <3>1
      <3>4. QED
        BY <3>2, <3>3
    <2>4. \A j \in 1..(Len(s) - 1) : c[j] = IF j < i THEN s[j] ELSE s[j + 1]
      BY <2>2, <2>3
    <2>5. QED
      BY <2>4 DEF c
  <1>7. QED
    BY <1>3, <1>4, <1>5, <1>6

-----------------------------------------------------------------------------
\* Types, what is cached, and what holds while a crash is recovered from.

Base == TypeOK /\ CachedIsDisk /\ Recovering

\* A buffer is one, or none; a document has a text, or nothing is known of it.
LEMMA PathFacts ==
  ASSUME TypeOK, CachedIsDisk, NEW p \in Path
  PROVE  /\ disk[p] \in MaybeText /\ acc[p] \in MaybeText /\ work[p] \in MaybeText
         /\ buf[p] \in Buffer \cup {NoBuf}
         /\ Open(p) => buf[p] \in Buffer /\ buf[p].text \in Text /\ buf[p].loaded \in MaybeText
         /\ ~Open(p) => buf[p].text = Absent /\ ~Dirty(p) /\ ~Clean(p)
         /\ HasDoc(p) => Loaded(p) \in Text /\ WorkText(p) \in Text
         /\ ~HasDoc(p) => acc[p] = Absent /\ work[p] = Absent /\ disk[p] = Absent /\ Loaded(p) = Absent
  <1> USE EditorAssumption
  <1>1. disk[p] \in MaybeText /\ acc[p] \in MaybeText /\ work[p] \in MaybeText
        /\ buf[p] \in Buffer \cup {NoBuf}
    BY DEF TypeOK
  <1>2. Open(p) => buf[p] \in Buffer /\ buf[p].text \in Text /\ buf[p].loaded \in MaybeText
    BY <1>1 DEF Open, Buffer
  <1>3. ~Open(p) => buf[p].text = Absent /\ ~Dirty(p) /\ ~Clean(p)
    BY DEF Open, NoBuf, Dirty, Clean
  <1>4. HasDoc(p) => Loaded(p) \in Text /\ WorkText(p) \in Text
    BY <1>1 DEF HasDoc, Loaded, WorkText, MaybeText
  <1>5. ~HasDoc(p) => acc[p] = Absent /\ work[p] = Absent /\ disk[p] = Absent /\ Loaded(p) = Absent
    BY DEF HasDoc, Loaded, CachedIsDisk
  <1>6. QED
    BY <1>1, <1>2, <1>3, <1>4, <1>5

\* While frames run there is nothing to recover.
LEMMA RunningRecovers ==
  ASSUME Running, UNCHANGED <<up, todo>>
  PROVE  Recovering'
  BY DEF Running, Recovering

Documents ==
  /\ disk \in [Path -> MaybeText] /\ acc \in [Path -> MaybeText]
  /\ work \in [Path -> MaybeText]
Buffers == buf \in [Path -> Buffer \cup {NoBuf}] /\ mut \in [Path -> MaybeText]
Store ==
  /\ entry \in [Path -> MaybeText] /\ side \in [Path -> MaybeText]
  /\ tasks \in Seq([Path -> Call]) /\ Len(tasks) <= MaxTasks
Histories == unsaved \in [Path -> MaybeText] /\ gathered \in [Path -> Call]
Sets ==
  /\ ui \subseteq Path /\ todo \subseteq Path
  /\ late \subseteq Path /\ raw \subseteq Path /\ apart \subseteq Path /\ lost \subseteq Path
Counts == up \in BOOLEAN /\ steps \in 0..MaxSteps /\ crashes \in 0..MaxCrashes

\* The type, taken apart by what a step tends to leave alone.
LEMMA TypeParts == TypeOK <=> Documents /\ Buffers /\ Store /\ Histories /\ Sets /\ Counts
  BY DEF TypeOK, Documents, Buffers, Store, Histories, Sets, Counts

\* What the user does keeps the types.
LEMMA SpendCounts == ASSUME Counts, Spend, UNCHANGED <<up, crashes>> PROVE Counts'
  BY EditorAssumption DEF Counts, Spend

\* Opening, closing, discarding and submitting keep the types.
LEMMA OpeningKeepsType ==
  ASSUME Base, NEW p \in Path, OpenBuffer(p) \/ CloseBuffer(p) \/ Discard(p) \/ Submit(p)
  PROVE  TypeOK'
  <1>0. Documents /\ Buffers /\ Store /\ Histories /\ Sets /\ Counts
    BY TypeParts DEF Base
  <1>1. Counts'
    BY <1>0, SpendCounts DEF OpenBuffer, CloseBuffer, Discard, Submit, life
  <1>2. Documents' /\ Store'
    BY <1>0 DEF OpenBuffer, CloseBuffer, Discard, Submit, docs, store, Documents, Store
  <1>3. Buffers'
    <2>1. buf[p] \in Buffer \cup {NoBuf}
      BY <1>0 DEF Buffers
    <2>2. CASE OpenBuffer(p)
      BY <1>0, <2>2 DEF OpenBuffer, Buffers, Buffer, MaybeText, Documents
    <2>3. CASE CloseBuffer(p) \/ Discard(p)
      BY <1>0, <2>3 DEF CloseBuffer, Discard, Buffers
    <2>4. CASE Submit(p)
      <3>1. buf[p].loaded \in MaybeText
        BY <2>4, PathFacts DEF Submit, Base
      <3>2. QED
        BY <1>0, <2>4, <3>1 DEF Submit, Buffers
    <2>5. QED
      BY <2>2, <2>3, <2>4
  <1>4. Histories'
    BY <1>0 DEF OpenBuffer, CloseBuffer, Discard, Submit, store, Histories, MaybeText
  <1>5. Sets'
    BY <1>0 DEF OpenBuffer, CloseBuffer, Discard, Submit, store, life, Sets
  <1>6. QED
    BY <1>1, <1>2, <1>3, <1>4, <1>5
       DEF TypeOK, Documents, Buffers, Store, Histories, Sets, Counts

\* A frame, with its answer to the watcher, keeps the types.
LEMMA FrameKeepsType ==
  ASSUME Base, NEW p \in Path, Frame(p) \/ Reload(p)
  PROVE  TypeOK'
  <1>0. Documents /\ Buffers /\ Store /\ Histories /\ Sets /\ Counts
    BY TypeParts DEF Base
  <1>1. Counts' /\ Store' /\ Histories' /\ Sets'
    BY <1>0 DEF Frame, Reload, life, store, Counts, Store, Histories, Sets
  <1>2. Documents'
    BY <1>0, PathFacts DEF Frame, Reload, docs, Documents, MaybeText, Base
  <1>3. Buffers'
    <2>1. CASE Frame(p)
      <3>1. Bound(p) \in Buffer
        BY <2>1, PathFacts DEF Frame, Bound, Buffer, MaybeText, Base
      <3>2. QED
        BY <1>0, <2>1, <3>1 DEF Frame, Buffers
    <2>2. CASE Reload(p)
      <3>1. disk[p] # Absent => [text |-> disk[p], loaded |-> disk[p]] \in Buffer
        BY <1>0 DEF Documents, Buffer, MaybeText
      <3>2. QED
        BY <1>0, <2>2, <3>1 DEF Reload, Buffers
    <2>3. QED
      BY <2>1, <2>2
  <1>4. QED
    BY <1>1, <1>2, <1>3 DEF TypeOK, Documents, Buffers, Store, Histories, Sets, Counts

\* Typing keeps the types.
LEMMA TypingKeepsType ==
  ASSUME Base, NEW p \in Path, NEW t \in Typed, Type(p, t)
  PROVE  TypeOK'
  <1> USE EditorAssumption
  <1>0. Documents /\ Buffers /\ Store /\ Histories /\ Sets /\ Counts
    BY TypeParts DEF Base
  <1>1. Counts' /\ Store'
    BY <1>0, SpendCounts DEF Type, life, store, Store
  <1>2. Loaded(p) \in MaybeText
    BY PathFacts DEF Base, MaybeText
  <1>3. Documents'
    BY <1>0, <1>2 DEF Type, Mirrored, Documents, MaybeText
  <1>4. Buffers'
    <2>1. buf[p] \in Buffer
      BY PathFacts DEF Type, Base
    <2>2. [buf[p] EXCEPT !.text = t] \in Buffer
      BY <2>1 DEF Buffer
    <2>3. QED
      BY <1>0, <2>2 DEF Type, Buffers
  <1>5. Histories'
    BY <1>0 DEF Type, Histories, MaybeText, store
  <1>6. Sets'
    BY <1>0 DEF Type, Sets, store, life
  <1>7. QED
    BY <1>1, <1>3, <1>4, <1>5, <1>6 DEF TypeOK, Documents, Buffers, Store, Histories, Sets, Counts

\* Saving keeps the types.
LEMMA SavingKeepsType ==
  ASSUME Base, NEW p \in Path, Save(p)
  PROVE  TypeOK'
  <1>0. Documents /\ Buffers /\ Store /\ Histories /\ Sets /\ Counts
    BY TypeParts DEF Base
  <1>1. Counts' /\ Store'
    BY <1>0, SpendCounts DEF Save, life, store, Store
  <1>2. WorkText(p) \in MaybeText
    BY PathFacts DEF Save, Base, MaybeText
  <1>3. Documents'
    BY <1>0, <1>2 DEF Save, Documents, MaybeText
  <1>4. Buffers'
    <2>1. buf[p] \in Buffer
      BY PathFacts DEF Save, Base, Dirty
    <2>2. [buf[p] EXCEPT !.loaded = buf[p].text] \in Buffer
      BY <2>1 DEF Buffer, MaybeText
    <2>3. QED
      BY <1>0, <2>2 DEF Save, Buffers
  <1>5. Histories'
    BY <1>0 DEF Save, Histories, MaybeText, store
  <1>6. Sets'
    BY <1>0 DEF Save, Sets, store, life
  <1>7. QED
    BY <1>1, <1>3, <1>4, <1>5, <1>6 DEF TypeOK, Documents, Buffers, Store, Histories, Sets, Counts

\* Renaming keeps the types.
LEMMA RenameKeepsType ==
  ASSUME Base, NEW p \in Path, NEW q \in Path, Rename(p, q)
  PROVE  TypeOK'
  <1>0. Documents /\ Buffers /\ Store /\ Histories /\ Sets /\ Counts
    BY TypeParts DEF Base
  <1>1. Counts' /\ Store'
    BY <1>0, SpendCounts DEF Rename, life, store, Store
  <1>2. ASSUME NEW f \in [Path -> MaybeText]
        PROVE  Moved(f, p, q) \in [Path -> MaybeText]
    BY DEF Moved, MaybeText
  <1>3. Documents'
    BY <1>0, <1>2 DEF Rename, Documents
  <1>4. Buffers'
    BY <1>0 DEF Rename, Buffers
  <1>5. Histories'
    BY <1>0, <1>2 DEF Rename, Histories, store
  <1>6. Sets'
    BY <1>0 DEF Rename, Sets, store, life
  <1>7. QED
    BY <1>1, <1>3, <1>4, <1>5, <1>6 DEF TypeOK, Documents, Buffers, Store, Histories, Sets, Counts

\* Other programs' writes and the model's answers keep the types.
LEMMA OutsideKeepsType ==
  ASSUME Base, NEW p \in Path,
         (\E c \in Foreign : Write(p, c)) \/ (\E t \in Result : Answered(p, t))
  PROVE  TypeOK'
  <1> USE EditorAssumption
  <1>0. Documents /\ Buffers /\ Store /\ Histories /\ Sets /\ Counts
    BY TypeParts DEF Base
  <1>1. Counts' /\ Store' /\ Histories'
    BY <1>0, SpendCounts DEF Write, Answered, life, store, Store, Histories
  <1>2. Documents'
    BY <1>0 DEF Write, Answered, docs, Documents, MaybeText
  <1>3. Buffers'
    <2>1. CASE UNCHANGED buf
      BY <1>0, <2>1 DEF Write, Answered, Buffers, MaybeText
    <2>2. ASSUME NEW t \in Result, Answered(p, t), Open(p), buf' = [buf EXCEPT ![p].text = t]
          PROVE  Buffers'
      <3>1. buf[p] \in Buffer
        BY <2>2, PathFacts DEF Base
      <3>2. [buf[p] EXCEPT !.text = t] \in Buffer
        BY <3>1 DEF Buffer
      <3>3. QED
        BY <1>0, <2>2, <3>2 DEF Answered, Buffers, MaybeText
    <2>3. QED
      BY <2>1, <2>2 DEF Write, Answered
  <1>4. Sets'
    BY <1>0 DEF Write, Answered, Sets, store, life
  <1>5. QED
    BY <1>1, <1>2, <1>3, <1>4 DEF TypeOK, Documents, Buffers, Store, Histories, Sets, Counts

\* The autosave tick hands over a call for every open buffer.
LEMMA GatherIsCalls == Base => Gather \in [Path -> Call]
  <1> SUFFICES ASSUME Base PROVE Gather \in [Path -> Call]
    OBVIOUS
  <1>1. \A p \in Path : Dirty(p) => buf[p].text \in Text
    BY PathFacts DEF Base, Dirty
  <1>2. QED
    BY <1>1 DEF Gather, Call, MaybeText

\* The tick keeps the types, and starts no task beyond the bound.
LEMMA TickKeepsType ==
  ASSUME Base, Tick
  PROVE  TypeOK'
  <1> USE EditorAssumption
  <1>0. Documents /\ Buffers /\ Store /\ Histories /\ Sets /\ Counts
    BY TypeParts DEF Base
  <1>1. Documents' /\ Buffers' /\ Counts'
    BY <1>0 DEF Tick, docs, life, Documents, Buffers, Counts
  <1>2. Gather \in [Path -> Call]
    BY GatherIsCalls
  <1>3. tasks' = Append(tasks, Gather) /\ Len(tasks) < MaxTasks /\ UNCHANGED <<entry, side>>
    BY DEF Tick
  <1>4. tasks' \in Seq([Path -> Call]) /\ Len(tasks') <= MaxTasks
    <2>1. Len(tasks) \in Nat /\ tasks \in Seq([Path -> Call])
      BY <1>0 DEF Store
    <2> HIDE DEF Gather
    <2>2. Append(tasks, Gather) \in Seq([Path -> Call]) /\ Len(Append(tasks, Gather)) = Len(tasks) + 1
      BY <1>2, <2>1, AppendFacts
    <2>3. QED
      BY <1>3, <2>1, <2>2
  <1>5. Store'
    BY <1>0, <1>3, <1>4 DEF Store
  <1>6. Histories'
    BY <1>0, <1>2 DEF Tick, Histories
  <1>7. Sets'
    BY <1>0 DEF Tick, Sets, life
  <1>8. QED
    BY <1>1, <1>5, <1>6, <1>7 DEF TypeOK, Documents, Buffers, Store, Histories, Sets, Counts

\* A task's call keeps the types.
LEMMA CallKeepsType ==
  ASSUME Base, NEW i \in 1..MaxTasks, NEW p \in Path, DoCall(i, p)
  PROVE  TypeOK'
  <1> USE EditorAssumption
  <1>0. Documents /\ Buffers /\ Store /\ Histories /\ Sets /\ Counts
    BY TypeParts DEF Base
  <1>1. Documents' /\ Buffers' /\ Counts' /\ Histories'
    BY <1>0 DEF DoCall, docs, life, Documents, Buffers, Counts, Histories
  <1>2. tasks \in Seq([Path -> Call]) /\ Len(tasks) \in Nat /\ i \in 1..Len(tasks)
        /\ tasks[i] \in [Path -> Call]
    BY <1>0 DEF DoCall, Store
  <1>3. entry' \in [Path -> MaybeText] /\ side' \in [Path -> MaybeText]
    <2> DEFINE c == tasks[i][p]
    <2>1. c \in Call
      BY <1>2
    <2>2. Indexed(p, c) \in MaybeText /\ Sidecar(c) \in MaybeText
      BY <2>1 DEF Indexed, Sidecar, Call, MaybeText
    <2>3. QED
      BY <1>0, <2>2 DEF DoCall, Store
  <1>4. tasks' \in Seq([Path -> Call]) /\ Len(tasks') <= MaxTasks
    <2> DEFINE rest == [tasks[i] EXCEPT ![p] = Absent]
    <2>1. rest \in [Path -> Call]
      BY <1>2 DEF Call, MaybeText
    <2>2. tasks' = IF rest = Nothing THEN RemoveAt(tasks, i) ELSE [tasks EXCEPT ![i] = rest]
      BY DEF DoCall
    <2> HIDE DEF rest
    <2>3. RemoveAt(tasks, i) \in Seq([Path -> Call]) /\ Len(RemoveAt(tasks, i)) = Len(tasks) - 1
      BY <1>2, RemoveFacts
    <2>4. [tasks EXCEPT ![i] = rest] \in Seq([Path -> Call]) /\ Len([tasks EXCEPT ![i] = rest]) = Len(tasks)
      BY <1>2, <2>1
    <2>5. Len(tasks) <= MaxTasks
      BY <1>0 DEF Store
    <2>6. CASE rest = Nothing
      BY <1>2, <2>2, <2>3, <2>5, <2>6
    <2>7. CASE rest # Nothing
      BY <2>2, <2>4, <2>5, <2>7
    <2>8. QED
      BY <2>6, <2>7
  <1>5. Sets'
    BY <1>0 DEF DoCall, Sets, life
  <1>6. QED
    BY <1>1, <1>3, <1>4, <1>5 DEF TypeOK, Documents, Buffers, Store, Histories, Sets, Counts

\* After a crash nothing is cached, open or at work.
LEMMA CrashKeepsBase ==
  ASSUME Base, Crash
  PROVE  Base'
  <1> USE EditorAssumption
  <1>0. Documents /\ Buffers /\ Store /\ Histories /\ Sets /\ Counts
    BY TypeParts DEF Base
  <1>1. acc' = Nothing /\ work' = Nothing /\ buf' = [p \in Path |-> NoBuf] /\ mut' = Nothing
        /\ tasks' = <<>> /\ up' = FALSE /\ todo' = {} /\ UNCHANGED <<disk, entry, unsaved, steps>>
        /\ ui' = {} /\ late' = {} /\ raw' = {} /\ apart' = {}
    BY DEF Crash
  <1>2. Documents' /\ Buffers'
    BY <1>0, <1>1 DEF Documents, Buffers, Nothing, MaybeText
  <1>3. side' \in [Path -> MaybeText]
    BY <1>0 DEF Crash, Store
  <1>4. Store' /\ Sets'
    BY <1>0, <1>1, <1>3 DEF Store, Sets, Crash
  <1>5. Histories'
    BY <1>0, <1>1 DEF Histories, Crash, Call, MaybeText
  <1>6. crashes' \in 0..MaxCrashes
    BY <1>0 DEF Crash, Counts
  <1>7. Counts'
    BY <1>0, <1>1, <1>6 DEF Counts
  <1>8. CachedIsDisk'
    BY <1>1 DEF CachedIsDisk, Nothing
  <1>9. Recovering'
    BY <1>1 DEF Recovering, Open, Nothing
  <1>10. QED
    BY <1>2, <1>4, <1>5, <1>7, <1>8, <1>9
       DEF Base, TypeOK, Documents, Buffers, Store, Histories, Sets, Counts

\* A start caches every file and restores what has a sidecar that differs.
LEMMA RestartKeepsBase ==
  ASSUME Base, Restart
  PROVE  Base'
  <1>0. Documents /\ Buffers /\ Store /\ Histories /\ Sets /\ Counts
    BY TypeParts DEF Base
  <1>1. acc' = disk /\ up' = TRUE /\ ~up
        /\ UNCHANGED <<disk, work, buf, ui, mut, tasks, late, raw, apart, steps, crashes>>
    BY DEF Restart
  <1>2. work = Nothing /\ tasks = <<>> /\ \A p \in Path : ~Open(p)
    BY <1>1 DEF Base, Recovering, Running
  <1>3. Documents' /\ Buffers'
    BY <1>0, <1>1 DEF Documents, Buffers
  <1>4. entry' \in [Path -> MaybeText] /\ side' \in [Path -> MaybeText]
    BY <1>0 DEF Restart, Store, MaybeText
  <1>5. Store'
    BY <1>0, <1>1, <1>4 DEF Store
  <1>6. Histories'
    BY <1>0 DEF Restart, Histories, Call, MaybeText
  <1>7. todo' \subseteq Path /\ lost' \subseteq Path
        /\ \A p \in todo' : entry'[p] # Absent /\ side'[p] # Absent /\ entry'[p] # disk[p]
    BY <1>0 DEF Restart, Stale, Sets, Store
  <1>8. Sets'
    BY <1>0, <1>1, <1>7 DEF Sets
  <1>9. Counts'
    BY <1>0, <1>1 DEF Counts
  <1>10. CachedIsDisk'
    BY <1>1, <1>2 DEF CachedIsDisk, Nothing
  <1>11. Recovering'
    BY <1>1, <1>2, <1>7 DEF Recovering
  <1>12. QED
    BY <1>3, <1>5, <1>6, <1>8, <1>9, <1>10, <1>11
       DEF Base, TypeOK, Documents, Buffers, Store, Histories, Sets, Counts

\* A restored entry is cleared; the others are still to be restored.
LEMMA RestoreKeepsBase ==
  ASSUME Base, NEW p \in Path, Restore(p)
  PROVE  Base'
  <1>0. Documents /\ Buffers /\ Store /\ Histories /\ Sets /\ Counts
    BY TypeParts DEF Base
  <1>1. UNCHANGED <<disk, acc, work, ui, mut, tasks, up, late, unsaved, apart, lost, steps, crashes>>
        /\ p \in todo /\ todo' = todo \ {p} /\ raw' = raw \cup {p} /\ up
    BY DEF Restore, docs
  <1>2. side[p] # Absent /\ work = Nothing /\ tasks = <<>>
    BY <1>1 DEF Base, Recovering, Running
  <1>3. [text |-> side[p], loaded |-> acc[p]] \in Buffer
    BY <1>0, <1>2 DEF Store, Documents, Buffer, MaybeText
  <1>4. Documents' /\ Buffers'
    BY <1>0, <1>1, <1>3 DEF Restore, Documents, Buffers
  <1>5. Store'
    BY <1>0, <1>1 DEF Restore, Store, MaybeText
  <1>6. Histories'
    BY <1>0, <1>1 DEF Restore, Histories, Call
  <1>7. Sets' /\ Counts'
    BY <1>0, <1>1 DEF Sets, Counts
  <1>8. CachedIsDisk'
    BY <1>1 DEF CachedIsDisk, Base
  <1>9. Recovering'
    <2>1. \A q \in todo' : entry'[q] # Absent /\ side'[q] # Absent /\ entry'[q] # acc'[q]
      BY <1>0, <1>1 DEF Base, Recovering, Restore, Store, Sets
    <2>2. QED
      BY <1>1, <1>2, <2>1 DEF Recovering
  <1>10. QED
    BY <1>4, <1>5, <1>6, <1>7, <1>8, <1>9
       DEF Base, TypeOK, Documents, Buffers, Store, Histories, Sets, Counts

\* What is cached stays the file's text where only hiker writes.
LEMMA SameCached ==
  ASSUME CachedIsDisk, UNCHANGED <<acc, work, disk, apart>>
  PROVE  CachedIsDisk'
  BY DEF CachedIsDisk

\* What a frame or typing caches is the file's text.
LEMMA FrameKeepsCached ==
  ASSUME Base, NEW p \in Path, Frame(p) \/ \E t \in Typed : Type(p, t)
  PROVE  CachedIsDisk'
  <1>1. acc' = [acc EXCEPT ![p] = Loaded(p)] /\ disk' = disk /\ apart' = apart
        /\ \A q \in Path \ {p} : work'[q] = work[q]
    BY DEF Frame, Type, Mirrored, Base, TypeOK
  <1>2. ~HasDoc(p) => work'[p] = Absent
    BY PathFacts DEF Frame, Type, Mirrored, Base
  <1>3. HasDoc(p) => acc'[p] # Absent
    BY <1>1 DEF Base, TypeOK, HasDoc, Loaded
  <1>4. CachedIsDisk /\ acc \in [Path -> MaybeText]
    BY DEF Base, TypeOK
  <1>5. QED
    BY <1>1, <1>2, <1>3, <1>4 DEF CachedIsDisk, Loaded, HasDoc

\* A save caches what it writes.
LEMMA SaveKeepsCached ==
  ASSUME Base, NEW p \in Path, Save(p)
  PROVE  CachedIsDisk'
  <1>1. acc \in [Path -> MaybeText] /\ disk \in [Path -> MaybeText] /\ work \in [Path -> MaybeText]
        /\ CachedIsDisk
    BY DEF Base, TypeOK
  <1>2. acc' = [acc EXCEPT ![p] = WorkText(p)] /\ work' = [work EXCEPT ![p] = Absent]
    BY DEF Save
  <1>3. CASE work[p] # Absent /\ WorkText(p) # Loaded(p)
    <2>1. disk' = [disk EXCEPT ![p] = WorkText(p)] /\ apart \subseteq apart' \cup {p}
      BY <1>3 DEF Save
    <2>2. QED
      BY <1>1, <1>2, <2>1 DEF CachedIsDisk
  <1>4. CASE WorkText(p) = Loaded(p)
    <2>1. disk' = disk /\ apart' = apart
      BY <1>4 DEF Save
    <2>2. QED
      BY <1>1, <1>2, <1>4, <2>1 DEF CachedIsDisk, Loaded
  <1>5. QED
    BY <1>3, <1>4 DEF WorkText

\* A document that moves takes its text along; one that stays behind where a
\* file comes was gone apart from its own.
LEMMA RenameKeepsCached ==
  ASSUME Base, NEW p \in Path, NEW q \in Path, Rename(p, q)
  PROVE  CachedIsDisk'
  <1>1. acc \in [Path -> MaybeText] /\ disk \in [Path -> MaybeText] /\ work \in [Path -> MaybeText]
        /\ CachedIsDisk
    BY DEF Base, TypeOK
  <1>2. disk[p] # Absent /\ disk[q] = Absent /\ p # q /\ disk' = [disk EXCEPT ![q] = disk[p], ![p] = Absent]
    BY DEF Rename, Moved
  <1>3. apart \ {p} \subseteq apart' /\ (p \in apart => q \in apart')
    BY DEF Rename
  <1>4. CASE acc[p] = Absent
    <2>1. acc' = acc /\ work' = work
      BY <1>4 DEF Rename
    <2>2. acc[q] # Absent => q \in apart
      BY <1>1, <1>2 DEF CachedIsDisk
    <2>3. QED
      BY <1>1, <1>2, <1>3, <1>4, <2>1, <2>2 DEF CachedIsDisk
  <1>5. CASE acc[p] # Absent
    <2>1. acc' = [acc EXCEPT ![q] = acc[p], ![p] = Absent] /\ work' = [work EXCEPT ![q] = work[p], ![p] = Absent]
      BY <1>5 DEF Rename, Moved
    <2>2. p \notin apart => acc[p] = disk[p]
      BY <1>1, <1>5 DEF CachedIsDisk
    <2>3. \A r \in Path \ {p, q} : /\ acc'[r] = acc[r] /\ work'[r] = work[r] /\ disk'[r] = disk[r]
                                   /\ r \notin apart' => r \notin apart
      BY <1>1, <1>2, <1>3, <2>1
    <2>4. acc'[p] = Absent /\ work'[p] = Absent
          /\ acc'[q] = acc[p] /\ work'[q] = work[p] /\ disk'[q] = disk[p]
      BY <1>1, <1>2, <2>1
    <2>5. QED
      BY <1>1, <1>3, <1>5, <2>2, <2>3, <2>4 DEF CachedIsDisk
  <1>6. QED
    BY <1>4, <1>5

\* Another program's write is one that is apart, or is made while nothing is
\* cached.
LEMMA WriteKeepsBase ==
  ASSUME Base, NEW p \in Path, NEW c \in Foreign, Write(p, c)
  PROVE  Base'
  <1>1. TypeOK'
    BY OutsideKeepsType
  <1>2. UNCHANGED <<acc, work, buf, up, todo, entry, side, tasks>> /\ disk' = [disk EXCEPT ![p] = c]
        /\ apart' = IF up THEN apart \cup {p} ELSE apart
    BY DEF Write, store, life
  <1>3. Recovering'
    BY <1>2 DEF Base, Recovering, Running, Open
  <1>4. CachedIsDisk'
    <2>1. CASE up
      BY <1>2, <2>1 DEF Base, TypeOK, CachedIsDisk
    <2>2. CASE ~up
      BY <1>2, <2>2 DEF Base, TypeOK, Recovering, CachedIsDisk, Nothing
    <2>3. QED
      BY <2>1, <2>2
  <1>5. QED
    BY <1>1, <1>3, <1>4 DEF Base

\* Every step keeps types, what is cached and what recovery relies on.
LEMMA NextKeepsBase == Base /\ [Next]_vars => Base'
  <1> SUFFICES ASSUME Base, [Next]_vars PROVE Base'
    OBVIOUS
  <1>1. CASE UNCHANGED vars
    BY <1>1 DEF vars, docs, store, life, Base, TypeOK, CachedIsDisk, Recovering, Running, Open
  <1>2. ASSUME NEW p \in Path, OpenBuffer(p) \/ CloseBuffer(p) \/ Discard(p) \/ Submit(p)
        PROVE  Base'
    <2>1. Running /\ UNCHANGED <<up, todo, acc, work, disk, apart>>
      BY <1>2 DEF OpenBuffer, CloseBuffer, Discard, Submit, life, docs
    <2>2. QED
      BY <1>2, <2>1, OpeningKeepsType, RunningRecovers, SameCached DEF Base
  <1>3. ASSUME NEW p \in Path, \E t \in Typed : Type(p, t)
        PROVE  Base'
    BY <1>3, TypingKeepsType, FrameKeepsCached, RunningRecovers DEF Base, Type, life
  <1>4. ASSUME NEW p \in Path, Save(p)
        PROVE  Base'
    BY <1>4, SavingKeepsType, SaveKeepsCached, RunningRecovers DEF Base, Save, life
  <1>5. ASSUME NEW p \in Path, NEW q \in Path, Rename(p, q)
        PROVE  Base'
    BY <1>5, RenameKeepsType, RenameKeepsCached, RunningRecovers DEF Base, Rename, life
  <1>6. ASSUME NEW p \in Path, NEW t \in Result, Answered(p, t)
        PROVE  Base'
    <2>1. Running /\ UNCHANGED <<up, todo, acc, work, disk, apart>>
      BY <1>6 DEF Answered, life, docs
    <2>2. QED
      BY <1>6, <2>1, OutsideKeepsType, RunningRecovers, SameCached DEF Base
  <1>7. ASSUME NEW p \in Path, Frame(p) \/ Reload(p)
        PROVE  Base'
    <2>1. Running /\ UNCHANGED <<up, todo>>
      BY <1>7 DEF Frame, Reload, life
    <2>2. CASE Frame(p)
      BY <2>1, <2>2, FrameKeepsType, FrameKeepsCached, RunningRecovers DEF Base
    <2>3. CASE Reload(p)
      BY <2>1, <2>3, FrameKeepsType, SameCached, RunningRecovers DEF Base, Reload, docs
    <2>4. QED
      BY <1>7, <2>2, <2>3
  <1>8. CASE Tick
    BY <1>8, TickKeepsType, SameCached, RunningRecovers DEF Base, Tick, docs, life
  <1>9. ASSUME NEW i \in 1..MaxTasks, NEW p \in Path, DoCall(i, p)
        PROVE  Base'
    <2>1. Running
      <3>1. tasks # <<>>
        BY <1>9 DEF DoCall
      <3>2. QED
        BY <3>1 DEF Base, Recovering
    <2>2. UNCHANGED <<up, todo, acc, work, disk, apart>>
      BY <1>9 DEF DoCall, docs, life
    <2>3. QED
      BY <1>9, <2>1, <2>2, CallKeepsType, SameCached, RunningRecovers DEF Base
  <1>10. QED
    BY <1>1, <1>2, <1>3, <1>4, <1>5, <1>6, <1>7, <1>8, <1>9, WriteKeepsBase,
       CrashKeepsBase, RestartKeepsBase, RestoreKeepsBase
       DEF Next, UserStep, FrameStep, StoreStep, CrashStep

\* So it is at the start.
LEMMA InitBase == Init => Base
  <1> SUFFICES ASSUME Init PROVE Base
    OBVIOUS
  <1> USE EditorAssumption
  <1>1. disk \in [Path -> MaybeText] /\ acc = disk
    BY DEF Init, MaybeText
  <1>2. Nothing \in [Path -> MaybeText] /\ Nothing \in [Path -> Call]
    BY DEF Nothing, MaybeText, Call
  <1>3. Documents /\ Buffers /\ Store /\ Histories /\ Sets
    BY <1>1, <1>2 DEF Init, Documents, Buffers, Store, Histories, Sets
  <1>4. Counts
    BY DEF Init, Counts
  <1>5. CachedIsDisk
    BY <1>1 DEF Init, CachedIsDisk, Nothing
  <1>6. Recovering
    BY DEF Init, Recovering, Running
  <1>7. QED
    BY <1>3, <1>4, <1>5, <1>6, TypeParts DEF Base

\* Every variable keeps its type, and there are never more autosave tasks at
\* work than the bound.
THEOREM SessionKeepsType == Spec => []TypeOK
  <1>1. Spec => []Base
    BY InitBase, NextKeepsBase, PTL DEF Spec
  <1>2. Base => TypeOK
    BY DEF Base
  <1>3. QED
    BY <1>1, <1>2, PTL

-----------------------------------------------------------------------------
\* What a buffer shows: when clean the file, when dirty the working text.

Shows(p) ==
  /\ Clean(p) /\ p \notin raw \cup apart => disk[p] = buf[p].text
  /\ Dirty(p) /\ p \notin raw \cup apart => work[p] = buf[p].text
AllShow == \A p \in Path : Shows(p)

\* A path whose buffer, file and working text stay goes on as it was.
LEMMA SameShown ==
  ASSUME NEW p \in Path, Shows(p), buf'[p] = buf[p], disk'[p] = disk[p], work'[p] = work[p],
         p \in raw \cup apart => p \in raw' \cup apart'
  PROVE  Shows(p)'
  BY DEF Shows, Clean, Dirty, Open

\* Opening, closing and discarding: what is shown is the file, or nothing.
LEMMA OpeningShows ==
  ASSUME Base, AllShow, NEW p \in Path, OpenBuffer(p) \/ CloseBuffer(p) \/ Discard(p) \/ Reload(p)
  PROVE  AllShow'
  <1>1. UNCHANGED <<disk, work, apart>> /\ raw \ {p} \subseteq raw'
    BY DEF OpenBuffer, CloseBuffer, Discard, Reload, docs
  <1>2. buf \in [Path -> Buffer \cup {NoBuf}]
    BY DEF Base, TypeOK
  <1>3. ASSUME NEW r \in Path, r # p PROVE Shows(r)'
    <2>1. buf'[r] = buf[r]
      BY <1>2, <1>3 DEF OpenBuffer, CloseBuffer, Discard, Reload
    <2>2. QED
      BY <1>1, <1>3, <2>1, SameShown DEF AllShow
  <1>4. Shows(p)'
    <2>1. CASE buf' = [buf EXCEPT ![p] = [text |-> disk[p], loaded |-> disk[p]]]
      BY <1>1, <1>2, <2>1 DEF Shows, Clean, Dirty
    <2>2. CASE buf' = [buf EXCEPT ![p] = NoBuf]
      BY <1>2, <2>2 DEF Shows, Clean, Dirty, Open
    <2>3. CASE Reload(p) /\ buf' = buf
      BY <1>1, <2>3, SameShown DEF AllShow, Reload
    <2>4. QED
      BY <2>1, <2>2, <2>3 DEF OpenBuffer, CloseBuffer, Discard, Reload
  <1>5. QED
    BY <1>3, <1>4 DEF AllShow

\* A frame binds the buffer to the document.
LEMMA FrameShows ==
  ASSUME Base, AllShow, NEW p \in Path, Frame(p)
  PROVE  AllShow'
  <1>1. UNCHANGED <<disk, work, apart>> /\ raw' = raw \ {p} /\ buf' = [buf EXCEPT ![p] = Bound(p)]
        /\ HasDoc(p) /\ Open(p)
    BY DEF Frame
  <1>2. buf \in [Path -> Buffer \cup {NoBuf}]
    BY DEF Base, TypeOK
  <1>3. ASSUME NEW r \in Path, r # p PROVE Shows(r)'
    BY <1>1, <1>2, <1>3, SameShown DEF AllShow
  <1>4. buf'[p].text = WorkText(p) /\ buf'[p].loaded = Loaded(p)
    BY <1>1, <1>2 DEF Bound
  <1>5. p \notin apart => Loaded(p) = disk[p]
    BY DEF Base, CachedIsDisk, Loaded
  <1>6. Shows(p)'
    BY <1>1, <1>4, <1>5 DEF Shows, Clean, Dirty, WorkText
  <1>7. QED
    BY <1>3, <1>6 DEF AllShow

\* Typing into a bound buffer is mirrored into the working text; a buffer with
\* no document is the host's from then on.
LEMMA TypingShows ==
  ASSUME Base, AllShow, NEW p \in Path, NEW t \in Typed, Type(p, t)
  PROVE  AllShow'
  <1>1. UNCHANGED <<disk, apart>> /\ raw \subseteq raw' /\ buf' = [buf EXCEPT ![p].text = t]
        /\ work' = Mirrored(p, t) /\ Open(p)
    BY DEF Type
  <1>2. buf \in [Path -> Buffer \cup {NoBuf}] /\ work \in [Path -> MaybeText] /\ buf[p] \in Buffer
    BY PathFacts, <1>1 DEF Base, TypeOK
  <1>3. ASSUME NEW r \in Path, r # p PROVE Shows(r)'
    <2>1. buf'[r] = buf[r] /\ work'[r] = work[r]
      BY <1>1, <1>2, <1>3 DEF Mirrored
    <2>2. QED
      BY <1>1, <1>3, <2>1, SameShown DEF AllShow
  <1>4. buf'[p].text = t /\ buf'[p].loaded = buf[p].loaded
    BY <1>1, <1>2 DEF Buffer
  <1>5. CASE ~HasDoc(p)
    <2>1. Shows(p)'
      BY <1>5 DEF Type, Shows
    <2>2. QED
      BY <1>3, <2>1 DEF AllShow
  <1>6. CASE HasDoc(p)
    <2>1. work'[p] = t /\ buf[p] = Bound(p)
      BY <1>1, <1>2, <1>6 DEF Mirrored, Type
    <2>2. p \notin apart => buf[p].loaded = disk[p]
      BY <2>1 DEF Base, CachedIsDisk, Bound, Loaded
    <2>3. Shows(p)'
      BY <1>1, <1>4, <2>1, <2>2 DEF Shows, Clean, Dirty
    <2>4. QED
      BY <1>3, <2>3 DEF AllShow
  <1>7. QED
    BY <1>3, <1>5, <1>6 DEF AllShow

\* Saving puts the buffer's text on disk, or finds it there.
LEMMA SaveShows ==
  ASSUME Base, AllShow, NEW p \in Path, Save(p)
  PROVE  AllShow'
  <1> DEFINE w == WorkText(p)
             writes == work[p] # Absent /\ w # Loaded(p)
  <1>1. /\ buf' = [buf EXCEPT ![p].loaded = buf[p].text] /\ Dirty(p)
        /\ disk' = IF writes THEN [disk EXCEPT ![p] = w] ELSE disk
        /\ apart' = IF writes /\ w = buf[p].text THEN apart \ {p} ELSE apart
        /\ work' = [work EXCEPT ![p] = Absent] /\ raw' = raw
    BY DEF Save
  <1>2. buf \in [Path -> Buffer \cup {NoBuf}] /\ work \in [Path -> MaybeText]
        /\ disk \in [Path -> MaybeText] /\ buf[p] \in Buffer /\ buf[p].text # Absent
    BY PathFacts, <1>1, EditorAssumption DEF Base, TypeOK, Dirty
  <1>3. ASSUME NEW r \in Path, r # p PROVE Shows(r)'
    <2>1. buf'[r] = buf[r] /\ work'[r] = work[r] /\ disk'[r] = disk[r]
      BY <1>1, <1>2, <1>3
    <2>2. QED
      BY <1>1, <1>3, <2>1, SameShown DEF AllShow
  <1>4. buf'[p].text = buf[p].text /\ buf'[p].loaded = buf[p].text
    BY <1>1, <1>2 DEF Buffer
  <1>5. p \notin raw' \cup apart' => disk'[p] = buf[p].text
    <2>1. CASE writes /\ w = buf[p].text
      BY <1>1, <1>2, <2>1
    <2>2. ASSUME ~(writes /\ w = buf[p].text), p \notin raw' \cup apart'
          PROVE  disk'[p] = buf[p].text
      <3>1. work[p] = buf[p].text /\ p \notin apart
        BY <1>1, <2>2 DEF AllShow, Shows
      <3>2. w = buf[p].text /\ ~writes /\ w = Loaded(p)
        BY <1>2, <2>2, <3>1 DEF WorkText
      <3>3. Loaded(p) = disk[p]
        BY <1>2, <3>1 DEF Base, CachedIsDisk, Loaded
      <3>4. QED
        BY <1>1, <3>2, <3>3
    <2>3. QED
      BY <2>1, <2>2
  <1>6. Shows(p)'
    BY <1>4, <1>5 DEF Shows, Clean, Dirty
  <1>7. QED
    BY <1>3, <1>6 DEF AllShow

\* A renamed note's buffer goes along with file and working text; where it is
\* taken over by a buffer that was there, that one was apart from its file.
LEMMA RenameShows ==
  ASSUME Base, AllShow, NEW p \in Path, NEW q \in Path, Rename(p, q)
  PROVE  AllShow'
  <1>1. acc \in [Path -> MaybeText] /\ disk \in [Path -> MaybeText] /\ work \in [Path -> MaybeText]
        /\ buf \in [Path -> Buffer \cup {NoBuf}]
    BY DEF Base, TypeOK
  <1>2. disk[p] # Absent /\ disk[q] = Absent /\ p # q /\ disk' = [disk EXCEPT ![q] = disk[p], ![p] = Absent]
    BY DEF Rename, Moved
  <1>3. apart' = (apart \ {p}) \cup (IF p \in apart THEN {q} ELSE {})
                              \cup (IF Open(q) /\ Open(p) THEN {p} ELSE {})
    BY DEF Rename
  <1>4. IF acc[p] = Absent THEN work' = work
        ELSE work' = [work EXCEPT ![q] = work[p], ![p] = Absent]
    BY DEF Rename, Moved
  <1>5. IF Open(q) \/ ~Open(p) THEN buf' = buf /\ raw' = raw
        ELSE /\ buf' = [buf EXCEPT ![q] = buf[p], ![p] = NoBuf]
             /\ raw' = (raw \ {p}) \cup (IF p \in raw THEN {q} ELSE {})
    BY DEF Rename
  <1>6. ASSUME NEW r \in Path, r # p, r # q PROVE Shows(r)'
    <2>1. buf'[r] = buf[r] /\ work'[r] = work[r] /\ disk'[r] = disk[r]
          /\ (r \in raw \cup apart => r \in raw' \cup apart')
      BY <1>1, <1>2, <1>3, <1>4, <1>5, <1>6
    <2>2. QED
      BY <2>1, SameShown DEF AllShow
  <1>7. Open(q) => q \in raw \cup apart
    <2>1. SUFFICES ASSUME Open(q), q \notin raw \cup apart PROVE FALSE
      OBVIOUS
    <2>2. buf[q].text # Absent
      BY <2>1, PathFacts, EditorAssumption DEF Base
    <2>3. Dirty(q) /\ work[q] # Absent
      BY <1>2, <2>1, <2>2 DEF AllShow, Shows, Clean
    <2>4. QED
      BY <1>2, <2>1, <2>3 DEF Base, CachedIsDisk
  <1>8. CASE Open(q)
    <2>1. Shows(q)'
      <3>1. q \in raw' \cup apart'
        BY <1>2, <1>3, <1>5, <1>7, <1>8
      <3>2. QED
        BY <3>1 DEF Shows
    <2>2. Shows(p)'
      <3>1. Open(p) => p \in apart'
        BY <1>3, <1>8
      <3>2. ~Open(p) => ~Open(p)'
        BY <1>5 DEF Open
      <3>3. QED
        BY <3>1, <3>2 DEF Shows, Clean, Dirty
    <2>3. QED
      BY <1>6, <2>1, <2>2 DEF AllShow
  <1>9. CASE ~Open(q) /\ ~Open(p)
    BY <1>5, <1>6, <1>9 DEF AllShow, Shows, Clean, Dirty, Open
  <1>10. CASE ~Open(q) /\ Open(p)
    <2>1. buf'[q] = buf[p] /\ buf'[p] = NoBuf
          /\ (p \in raw \cup apart => q \in raw' \cup apart')
      BY <1>1, <1>2, <1>3, <1>5, <1>10
    <2>2. disk'[q] = disk[p] /\ (acc[p] # Absent => work'[q] = work[p])
      BY <1>1, <1>2, <1>4
    <2>3. Shows(p)'
      BY <2>1 DEF Shows, Clean, Dirty, Open
    <2>4. Shows(q)'
      <3>1. CASE buf[p].text = buf[p].loaded
        BY <2>1, <2>2, <3>1, <1>10 DEF AllShow, Shows, Clean, Dirty, Open
      <3>2. CASE buf[p].text # buf[p].loaded
        <4>1. Dirty(p)
          BY <1>10, <3>2 DEF Dirty
        <4>2. p \notin raw \cup apart => work[p] = buf[p].text /\ acc[p] # Absent
          <5>1. p \notin raw \cup apart => work[p] = buf[p].text
            BY <4>1 DEF AllShow, Shows
          <5>2. buf[p].text # Absent
            BY <1>10, PathFacts, EditorAssumption DEF Base
          <5>3. QED
            BY <5>1, <5>2 DEF Base, CachedIsDisk
        <4>3. QED
          BY <2>1, <2>2, <3>2, <4>2 DEF Shows, Clean, Dirty, Open
      <3>3. QED
        BY <3>1, <3>2
    <2>5. QED
      BY <1>6, <2>3, <2>4 DEF AllShow
  <1>11. QED
    BY <1>8, <1>9, <1>10

\* Another program moves a file on only for a path that is apart from then on,
\* or with no buffer open; an answer leaves its buffer to the host.
LEMMA OutsideShows ==
  ASSUME Base, AllShow, NEW p \in Path,
         (\E c \in Foreign : Write(p, c)) \/ (\E t \in Result : Answered(p, t))
  PROVE  AllShow'
  <1>1. buf \in [Path -> Buffer \cup {NoBuf}] /\ disk \in [Path -> MaybeText]
    BY DEF Base, TypeOK
  <1>2. CASE \E c \in Foreign : Write(p, c)
    <2>1. /\ UNCHANGED <<work, buf, raw>> /\ apart' = IF up THEN apart \cup {p} ELSE apart
          /\ \A r \in Path \ {p} : disk'[r] = disk[r]
      BY <1>1, <1>2 DEF Write
    <2>2. ASSUME NEW r \in Path, r # p PROVE Shows(r)'
      <3>1. buf'[r] = buf[r] /\ disk'[r] = disk[r] /\ work'[r] = work[r]
            /\ (r \in raw \cup apart => r \in raw' \cup apart')
        BY <2>1, <2>2
      <3>2. QED
        BY <3>1, SameShown DEF AllShow
    <2>3. Shows(p)'
      <3>1. CASE up
        BY <2>1, <3>1 DEF Shows
      <3>2. CASE ~up
        BY <2>1, <3>2 DEF Base, Recovering, Shows, Clean, Dirty, Open
      <3>3. QED
        BY <3>1, <3>2
    <2>4. QED
      BY <2>2, <2>3 DEF AllShow
  <1>3. ASSUME NEW t \in Result, Answered(p, t) PROVE AllShow'
    <2>1. /\ UNCHANGED <<work, disk, apart>> /\ raw \subseteq raw'
          /\ buf' = buf \/ p \in raw'
          /\ \A r \in Path \ {p} : buf'[r] = buf[r]
      BY <1>1, <1>3 DEF Answered, docs
    <2>2. ASSUME NEW r \in Path, r # p PROVE Shows(r)'
      <3>1. buf'[r] = buf[r] /\ disk'[r] = disk[r] /\ work'[r] = work[r]
            /\ (r \in raw \cup apart => r \in raw' \cup apart')
        BY <2>1, <2>2
      <3>2. QED
        BY <3>1, SameShown DEF AllShow
    <2>3. Shows(p)'
      <3>1. CASE buf' = buf
        BY <2>1, <3>1, SameShown DEF AllShow
      <3>2. CASE p \in raw'
        BY <3>2 DEF Shows
      <3>3. QED
        BY <2>1, <3>1, <3>2
    <2>4. QED
      BY <2>2, <2>3 DEF AllShow
  <1>4. QED
    BY <1>2, <1>3

\* A crash takes the buffers; those a restart brings back are the host's.
LEMMA RecoveryShows ==
  ASSUME Base, AllShow, Crash \/ Restart \/ \E p \in Path : Restore(p)
  PROVE  AllShow'
  <1>1. CASE Crash
    BY <1>1 DEF Crash, AllShow, Shows, Clean, Dirty, Open
  <1>2. CASE Restart
    BY <1>2 DEF Restart, Base, Recovering, AllShow, Shows, Clean, Dirty, Open
  <1>3. ASSUME NEW p \in Path, Restore(p) PROVE AllShow'
    <2>1. /\ UNCHANGED <<work, disk, apart>> /\ raw' = raw \cup {p}
          /\ \A r \in Path \ {p} : buf'[r] = buf[r]
      BY <1>3 DEF Restore, docs, Base, TypeOK
    <2>2. ASSUME NEW r \in Path, r # p PROVE Shows(r)'
      <3>1. buf'[r] = buf[r] /\ disk'[r] = disk[r] /\ work'[r] = work[r]
            /\ (r \in raw \cup apart => r \in raw' \cup apart')
        BY <2>1, <2>2
      <3>2. QED
        BY <3>1, SameShown DEF AllShow
    <2>3. Shows(p)'
      BY <2>1 DEF Shows
    <2>4. QED
      BY <2>2, <2>3 DEF AllShow
  <1>4. QED
    BY <1>1, <1>2, <1>3

\* Every step keeps what the buffers show.
LEMMA NextKeepsShown == Base /\ AllShow /\ [Next]_vars => AllShow'
  <1> SUFFICES ASSUME Base, AllShow, [Next]_vars PROVE AllShow'
    OBVIOUS
  <1>1. ASSUME UNCHANGED <<disk, work, buf, raw, apart>> PROVE AllShow'
    BY <1>1, SameShown DEF AllShow
  <1>2. CASE UNCHANGED vars
    BY <1>1, <1>2 DEF vars, docs
  <1>3. ASSUME NEW p \in Path, Submit(p) PROVE AllShow'
    BY <1>1, <1>3 DEF Submit, docs
  <1>4. CASE StoreStep
    BY <1>1, <1>4 DEF StoreStep, Tick, DoCall, docs
  <1>5. QED
    BY <1>2, <1>3, <1>4, OpeningShows, FrameShows, TypingShows, SaveShows, RenameShows, OutsideShows,
       RecoveryShows DEF Next, UserStep, FrameStep, CrashStep

\* A buffer that reads clean shows what is on disk, through every edit, save,
\* rename, mutation, crash and recovery, unless another program moved the file
\* on or the host filled the buffer.
THEOREM CleanMeansSaved == Spec => []CleanIsOnDisk
  <1>1. Init => AllShow
    BY DEF Init, AllShow, Shows, Clean, Dirty, Open
  <1>2. Spec => [](Base /\ AllShow)
    BY <1>1, InitBase, NextKeepsBase, NextKeepsShown, PTL DEF Spec
  <1>3. AllShow => CleanIsOnDisk
    BY DEF AllShow, Shows, CleanIsOnDisk
  <1>4. QED
    BY <1>2, <1>3, PTL

-----------------------------------------------------------------------------
\* The store and the autosave tasks.

Follows(p) ==
  p \notin late /\ gathered[p] # Absent =>
     /\ \A i \in DOMAIN tasks : Newest(i, p) => tasks[i][p] = gathered[p]
     /\ ~Owed(p) => Stored(p, gathered[p])
AllFollow == \A p \in Path : Follows(p)

\* Where no call is made and nothing gathered, the store goes on as it was.
LEMMA SameStore ==
  ASSUME AllFollow, UNCHANGED <<entry, side, tasks, gathered, late>>
  PROVE  AllFollow'
  BY DEF AllFollow, Follows, Newest, Owes, Owed, Stored, Indexed, Sidecar

\* The new task is the newest of an open buffer's path, and has nothing to do
\* for the others.
LEMMA TickFollows ==
  ASSUME Base, AllFollow, Tick
  PROVE  AllFollow'
  <1>0. PICK n \in Nat : n = Len(tasks)
    BY DEF Base, TypeOK
  <1>1. Gather \in [Path -> Call] /\ tasks \in Seq([Path -> Call]) /\ n = Len(tasks)
    BY <1>0, GatherIsCalls DEF Base, TypeOK
  <1>2. tasks' = Append(tasks, Gather) /\ UNCHANGED <<entry, side>>
        /\ gathered' = [p \in Path |-> IF Open(p) THEN Gather[p] ELSE gathered[p]]
        /\ late' = {p \in late : ~Open(p)}
    BY DEF Tick
  <1>3. DOMAIN tasks = 1..n /\ DOMAIN tasks' = 1..(n + 1) /\ tasks'[n + 1] = Gather
        /\ \A i \in 1..n : tasks'[i] = tasks[i]
    <2> HIDE DEF Gather
    <2>1. QED
      BY <1>1, <1>2, AppendFacts
  <1>4. \A p \in Path : ~Open(p) => Gather[p] = Absent
    BY DEF Gather, Dirty
  <1>5. \A p \in Path : Open(p) => Gather[p] # Absent
    BY PathFacts, EditorAssumption, ClearIsNoText DEF Gather, Base, MaybeText
  <1> HIDE DEF Gather
  <1>6. ASSUME NEW p \in Path, Open(p) PROVE Follows(p)'
    <2>1. gathered'[p] = Gather[p] /\ n + 1 \in DOMAIN tasks' /\ Owes(n + 1, p)'
      BY <1>1, <1>2, <1>3, <1>5, <1>6 DEF Owes
    <2>2. Owed(p)'
      BY <2>1 DEF Owed
    <2>3. ASSUME NEW i \in DOMAIN tasks', Newest(i, p)' PROVE i = n + 1
      BY <1>1, <1>3, <2>1, <2>3 DEF Newest
    <2>4. QED
      BY <1>3, <2>1, <2>2, <2>3 DEF Follows
  <1>7. ASSUME NEW p \in Path, ~Open(p) PROVE Follows(p)'
    <2>1. gathered'[p] = gathered[p] /\ (p \notin late' => p \notin late)
      BY <1>2, <1>7
    <2>2. ~Owes(n + 1, p)' /\ \A i \in 1..n : Owes(i, p)' <=> Owes(i, p)
      BY <1>3, <1>4, <1>7 DEF Owes
    <2>3. Owed(p) => Owed(p)'
      BY <1>1, <1>3, <2>2 DEF Owed
    <2>4. ASSUME NEW i \in DOMAIN tasks', Newest(i, p)'
          PROVE  i \in DOMAIN tasks /\ Newest(i, p) /\ tasks'[i][p] = tasks[i][p]
      <3>1. i \in 1..n
        BY <1>1, <1>3, <2>2, <2>4 DEF Newest
      <3>2. \A j \in 1..n : j > i => ~Owes(j, p)
        BY <1>1, <1>3, <2>2, <2>4 DEF Newest
      <3>3. QED
        BY <1>3, <2>2, <2>4, <3>1, <3>2 DEF Newest
    <2>5. Stored(p, gathered[p]) => Stored(p, gathered[p])'
      BY <1>2, <2>1 DEF Stored, Indexed, Sidecar
    <2>6. QED
      BY <2>1, <2>3, <2>4, <2>5 DEF AllFollow, Follows
  <1>8. QED
    BY <1>6, <1>7 DEF AllFollow

\* Where a task stands in the row before a call, when it stands at k after it:
\* the task that made its last call is gone.
Before(i, k, gone) == IF gone /\ k >= i THEN k + 1 ELSE k

\* The call a task makes is the only one it no longer owes, and the tasks keep
\* their order.
LEMMA CallShifts ==
  ASSUME Base, NEW i \in 1..MaxTasks, NEW p \in Path, DoCall(i, p)
  PROVE  \E gone \in BOOLEAN :
           /\ i \in DOMAIN tasks /\ DOMAIN tasks = 1..Len(tasks) /\ Len(tasks) \in Nat
           /\ DOMAIN tasks' = IF gone THEN 1..(Len(tasks) - 1) ELSE 1..Len(tasks)
           /\ \A k \in DOMAIN tasks', r \in Path :
                tasks'[k][r] = IF Before(i, k, gone) = i /\ r = p THEN Absent
                               ELSE tasks[Before(i, k, gone)][r]
           /\ gone => \A r \in Path \ {p} : ~Owes(i, r)
  <1> DEFINE rest == [tasks[i] EXCEPT ![p] = Absent]
             n == Len(tasks)
  <1>1. tasks \in Seq([Path -> Call]) /\ n \in Nat /\ i \in 1..n /\ DOMAIN tasks = 1..n
        /\ tasks[i] \in [Path -> Call]
    BY EditorAssumption DEF Base, TypeOK, DoCall
  <1>2. tasks' = IF rest = Nothing THEN RemoveAt(tasks, i) ELSE [tasks EXCEPT ![i] = rest]
    BY DEF DoCall
  <1>3. \A r \in Path : rest[r] = IF r = p THEN Absent ELSE tasks[i][r]
    BY <1>1
  <1>4. rest = Nothing => \A r \in Path \ {p} : ~Owes(i, r)
    BY <1>3 DEF Nothing, Owes
  <1>5. CASE rest = Nothing
    <2>1. DOMAIN tasks' = 1..(n - 1)
          /\ \A k \in 1..(n - 1) : tasks'[k] = IF k < i THEN tasks[k] ELSE tasks[k + 1]
      <3> HIDE DEF rest
      <3>1. QED
        BY <1>1, <1>2, <1>5, RemoveFacts
    <2>2. ASSUME NEW k \in 1..(n - 1)
          PROVE  Before(i, k, TRUE) # i /\ tasks'[k] = tasks[Before(i, k, TRUE)]
      BY <1>1, <2>1 DEF Before
    <2> WITNESS TRUE \in BOOLEAN
    <2>3. QED
      BY <1>1, <1>4, <1>5, <2>1, <2>2
  <1>6. CASE rest # Nothing
    <2>1. DOMAIN tasks' = 1..n /\ tasks'[i] = rest /\ \A k \in 1..n : k # i => tasks'[k] = tasks[k]
      <3> HIDE DEF rest
      <3>1. QED
        BY <1>1, <1>2, <1>6
    <2>2. \A k \in 1..n : Before(i, k, FALSE) = k
      BY DEF Before
    <2>3. ASSUME NEW k \in 1..n, NEW r \in Path
          PROVE  tasks'[k][r] = IF k = i /\ r = p THEN Absent ELSE tasks[k][r]
      <3> HIDE DEF rest
      <3>1. CASE k = i
        BY <1>3, <2>1, <3>1
      <3>2. CASE k # i
        BY <2>1, <3>2
      <3>3. QED
        BY <3>1, <3>2
    <2> WITNESS FALSE \in BOOLEAN
    <2>4. QED
      BY <1>1, <2>1, <2>2, <2>3
  <1>7. QED
    BY <1>5, <1>6

\* A call carries out what its task gathered.  If that is not the newest, an
\* older one is owed still, and then it was late, or a newer one is.
LEMMA CallFollows ==
  ASSUME Base, AllFollow, NEW i \in 1..MaxTasks, NEW p \in Path, DoCall(i, p)
  PROVE  AllFollow'
  <1> DEFINE n == Len(tasks)
  <1>1. PICK gone \in BOOLEAN :
           /\ i \in DOMAIN tasks /\ DOMAIN tasks = 1..n /\ n \in Nat
           /\ DOMAIN tasks' = IF gone THEN 1..(n - 1) ELSE 1..n
           /\ \A k \in DOMAIN tasks', r \in Path :
                tasks'[k][r] = IF Before(i, k, gone) = i /\ r = p THEN Absent
                               ELSE tasks[Before(i, k, gone)][r]
           /\ gone => \A r \in Path \ {p} : ~Owes(i, r)
    BY CallShifts
  <1> HIDE DEF n
  <1>2. /\ entry' = [entry EXCEPT ![p] = Indexed(p, tasks[i][p])]
        /\ side' = [side EXCEPT ![p] = Sidecar(tasks[i][p])]
        /\ late' = IF \E j \in 1..i-1 : Owes(j, p) THEN late \cup {p} ELSE late
        /\ gathered' = gathered /\ Owes(i, p)
    BY DEF DoCall, NextCall
  <1>3. entry \in [Path -> MaybeText] /\ side \in [Path -> MaybeText]
    BY DEF Base, TypeOK
  <1> DEFINE o(k) == Before(i, k, gone)
  <1>4. \A k \in DOMAIN tasks' : o(k) \in DOMAIN tasks
    BY <1>1 DEF Before
  <1>5. \A j \in DOMAIN tasks : ~(gone /\ j = i) => \E k \in DOMAIN tasks' : o(k) = j
    <2> SUFFICES ASSUME NEW j \in DOMAIN tasks, ~(gone /\ j = i)
                 PROVE  \E k \in DOMAIN tasks' : o(k) = j
      OBVIOUS
    <2>1. CASE gone /\ j > i
      <3>1. j - 1 \in DOMAIN tasks' /\ o(j - 1) = j
        BY <1>1, <2>1 DEF Before
      <3>2. QED
        BY <3>1
    <2>2. CASE ~(gone /\ j > i)
      <3>1. j \in DOMAIN tasks' /\ o(j) = j
        BY <1>1, <2>2 DEF Before
      <3>2. QED
        BY <3>1
    <2>3. QED
      BY <2>1, <2>2
  <1>6. \A k, l \in DOMAIN tasks' : o(l) > o(k) => l > k
    BY <1>1 DEF Before
  <1> HIDE DEF o
  <1>7. \A k \in DOMAIN tasks', r \in Path : Owes(k, r)' <=> Owes(o(k), r) /\ ~(o(k) = i /\ r = p)
    BY <1>1 DEF Owes, o
  <1>8. ASSUME NEW r \in Path, r # p PROVE Follows(r)'
    <2>1. Owed(r) => Owed(r)'
      BY <1>1, <1>5, <1>7, <1>8 DEF Owed
    <2>2. ASSUME NEW k \in DOMAIN tasks', Newest(k, r)'
          PROVE  o(k) \in DOMAIN tasks /\ Newest(o(k), r) /\ tasks'[k][r] = tasks[o(k)][r]
      <3>1. o(k) \in DOMAIN tasks /\ Owes(o(k), r) /\ tasks'[k][r] = tasks[o(k)][r]
        BY <1>1, <1>4, <1>7, <1>8, <2>2 DEF Newest, o
      <3>2. ASSUME NEW j \in DOMAIN tasks, j > o(k), Owes(j, r) PROVE FALSE
        <4>1. PICK l \in DOMAIN tasks' : o(l) = j
          BY <1>1, <1>5, <1>8, <3>2
        <4>2. l > k /\ Owes(l, r)'
          BY <1>6, <1>7, <1>8, <3>2, <4>1
        <4>3. QED
          BY <2>2, <4>2 DEF Newest
      <3>3. QED
        BY <3>1, <3>2 DEF Newest
    <2>3. Stored(r, gathered[r]) => Stored(r, gathered[r])'
      BY <1>2, <1>3, <1>8 DEF Stored, Indexed, Sidecar
    <2>4. (r \notin late' => r \notin late) /\ gathered'[r] = gathered[r]
      BY <1>2
    <2>5. QED
      BY <2>1, <2>2, <2>3, <2>4 DEF AllFollow, Follows
  <1>9. ASSUME p \notin late', gathered'[p] # Absent
        PROVE  /\ \A k \in DOMAIN tasks' : Newest(k, p)' => tasks'[k][p] = gathered'[p]
               /\ ~Owed(p)' => Stored(p, gathered[p])'
    <2>1. p \notin late /\ gathered[p] # Absent /\ \A j \in DOMAIN tasks : j < i => ~Owes(j, p)
      BY <1>1, <1>2, <1>9
    <2>2. \A j \in DOMAIN tasks : Newest(j, p) => tasks[j][p] = gathered[p]
      BY <2>1 DEF AllFollow, Follows
    <2>3. ASSUME NEW k \in DOMAIN tasks', Newest(k, p)'
          PROVE  tasks'[k][p] = gathered'[p]
      <3>1. o(k) \in DOMAIN tasks /\ Owes(o(k), p) /\ o(k) # i
        BY <1>4, <1>7, <2>3 DEF Newest
      <3>2. tasks'[k][p] = tasks[o(k)][p]
        BY <1>1, <3>1 DEF o
      <3>3. o(k) > i
        BY <1>1, <2>1, <3>1
      <3>4. ASSUME NEW j \in DOMAIN tasks, j > o(k), Owes(j, p) PROVE FALSE
        <4>1. j # i
          BY <1>1, <3>1, <3>3, <3>4
        <4>2. PICK l \in DOMAIN tasks' : o(l) = j
          BY <1>5, <4>1
        <4>3. l > k /\ Owes(l, p)'
          BY <1>6, <1>7, <3>4, <4>1, <4>2
        <4>4. QED
          BY <2>3, <4>3 DEF Newest
      <3>5. Newest(o(k), p)
        BY <3>1, <3>4 DEF Newest
      <3>6. QED
        BY <1>2, <2>2, <3>1, <3>2, <3>5
    <2>4. ASSUME ~Owed(p)' PROVE Stored(p, gathered[p])'
      <3>1. ASSUME NEW j \in DOMAIN tasks, j # i, Owes(j, p) PROVE FALSE
        <4>1. PICK k \in DOMAIN tasks' : o(k) = j
          BY <1>5, <3>1
        <4>2. Owes(k, p)'
          BY <1>7, <3>1, <4>1
        <4>3. QED
          BY <2>4, <4>2 DEF Owed
      <3>2. \A j \in DOMAIN tasks : j > i => j # i
        BY <1>1
      <3>3. Newest(i, p)
        BY <1>1, <1>2, <3>1, <3>2 DEF Newest
      <3>4. tasks[i][p] = gathered[p]
        BY <1>1, <2>2, <3>3
      <3>5. entry'[p] = Indexed(p, gathered[p]) /\ side'[p] = Sidecar(gathered[p])
        BY <1>2, <1>3, <3>4
      <3>6. QED
        BY <1>2, <3>5 DEF Stored, Indexed, Sidecar
    <2>5. QED
      BY <2>3, <2>4
  <1>10. Follows(p)'
    BY <1>2, <1>9 DEF Follows
  <1>11. QED
    BY <1>8, <1>10 DEF AllFollow

\* A crash forgets what was still owed; what it does to a sidecar half way, it
\* does to one that was owed.
LEMMA CrashFollows ==
  ASSUME Base, AllFollow, Crash
  PROVE  AllFollow'
  <1>1. tasks' = <<>> /\ late' = {} /\ entry' = entry
        /\ gathered' = [p \in Path |-> IF Owed(p) \/ p \in late THEN Absent ELSE gathered[p]]
    BY DEF Crash
  <1>2. HalfDone(side') /\ side \in [Path -> MaybeText]
    BY DEF Crash, Base, TypeOK
  <1>3. \A p \in Path : ~Owed(p) => side'[p] = side[p]
    BY <1>2 DEF HalfDone, NextCall, Owed
  <1>4. ASSUME NEW p \in Path PROVE Follows(p)'
    <2>1. DOMAIN tasks' = {}
      BY <1>1
    <2>2. SUFFICES ASSUME gathered'[p] # Absent PROVE Stored(p, gathered[p])' /\ gathered'[p] = gathered[p]
      BY <2>1 DEF Follows
    <2>3. ~Owed(p) /\ p \notin late /\ gathered'[p] = gathered[p]
      BY <1>1, <2>2
    <2>4. Stored(p, gathered[p])
      BY <2>2, <2>3 DEF AllFollow, Follows
    <2>5. QED
      BY <1>1, <1>3, <2>3, <2>4 DEF Stored, Indexed, Sidecar
  <1>5. QED
    BY <1>4 DEF AllFollow

\* What a start drops or restores, it clears.
LEMMA RecoveryFollows ==
  ASSUME Base, AllFollow, Restart \/ \E p \in Path : Restore(p)
  PROVE  AllFollow'
  <1>1. tasks = <<>> /\ tasks' = <<>> /\ late' = late
    <2>1. CASE Restart
      BY <2>1 DEF Restart, Base, Recovering, Running
    <2>2. CASE \E p \in Path : Restore(p)
      BY <2>2 DEF Restore, Base, Recovering, Running
    <2>3. QED
      BY <2>1, <2>2
  <1>2. entry \in [Path -> MaybeText] /\ side \in [Path -> MaybeText] /\ gathered \in [Path -> Call]
    BY DEF Base, TypeOK
  <1>3. \A p \in Path :
          \/ entry'[p] = Absent /\ side'[p] = Absent /\ gathered'[p] = Clear
          \/ entry'[p] = entry[p] /\ side'[p] = side[p] /\ gathered'[p] = gathered[p]
    <2>1. CASE Restart
      BY <2>1 DEF Restart
    <2>2. CASE \E p \in Path : Restore(p)
      BY <1>2, <2>2 DEF Restore
    <2>3. QED
      BY <2>1, <2>2
  <1>4. ASSUME NEW p \in Path PROVE Follows(p)'
    <2>1. DOMAIN tasks = {} /\ DOMAIN tasks' = {} /\ ~Owed(p)
      BY <1>1 DEF Owed
    <2>2. CASE entry'[p] = Absent /\ side'[p] = Absent /\ gathered'[p] = Clear
      BY <2>1, <2>2 DEF Follows, Stored, Indexed, Sidecar
    <2>3. CASE entry'[p] = entry[p] /\ side'[p] = side[p] /\ gathered'[p] = gathered[p]
      BY <1>1, <2>1, <2>3 DEF AllFollow, Follows, Stored, Indexed, Sidecar
    <2>4. QED
      BY <1>3, <2>2, <2>3
  <1>5. QED
    BY <1>4 DEF AllFollow

\* Every step keeps what the store owes the last tick.
LEMMA NextKeepsFollowing == Base /\ AllFollow /\ [Next]_vars => AllFollow'
  <1> SUFFICES ASSUME Base, AllFollow, [Next]_vars PROVE AllFollow'
    OBVIOUS
  <1>1. CASE UNCHANGED vars
    BY <1>1, SameStore DEF vars, store
  <1>2. CASE UserStep \/ FrameStep
    <2>1. UNCHANGED store
      BY <1>2 DEF UserStep, FrameStep, OpenBuffer, Save, CloseBuffer, Discard, Submit, Type, Rename,
                  Write, Answered, Frame, Reload
    <2>2. QED
      BY <2>1, SameStore DEF store
  <1>3. QED
    BY <1>1, <1>2, TickFollows, CallFollows, CrashFollows, RecoveryFollows
       DEF Next, StoreStep, CrashStep

\* Once no autosave task owes a call for a path, sidecar and index hold what
\* the last tick that saw it wanted, unless tasks overtook each other: for any
\* number of tasks at work, and through crashes between two calls or in one.
THEOREM StoreMirrors == Spec => []StoreMirrorsTick
  <1>1. Init => AllFollow
    BY DEF Init, AllFollow, Follows, Nothing
  <1>2. Spec => [](Base /\ AllFollow)
    BY <1>1, InitBase, NextKeepsBase, NextKeepsFollowing, PTL DEF Spec
  <1>3. Base /\ AllFollow => StoreMirrorsTick
    <2> SUFFICES ASSUME Base, AllFollow, NEW p \in Path, gathered[p] # Absent, ~Owed(p), p \notin late
                 PROVE  /\ entry[p] = (IF gathered[p] = Clear THEN Absent ELSE gathered[p])
                        /\ side[p] = entry[p]
      BY DEF StoreMirrorsTick
    <2>1. QED
      BY DEF AllFollow, Follows, Stored, Indexed, Sidecar
  <1>4. QED
    BY <1>2, <1>3, PTL

-----------------------------------------------------------------------------
\* What the user typed and has not saved.

Keeps(p) == p \notin lost /\ unsaved[p] # Absent => Held(p)
AllKept == \A p \in Path : Keeps(p)

\* A path none of whose texts a step touches keeps what was typed for it.
LEMMA SameKept ==
  ASSUME NEW p \in Path, Keeps(p), unsaved'[p] = unsaved[p], p \in lost => p \in lost',
         work'[p] = work[p], buf'[p] = buf[p], p \in raw => p \in raw',
         entry'[p] = entry[p], side'[p] = side[p], up' = up, p \in todo' <=> p \in todo
  PROVE  Keeps(p)'
  BY DEF Keeps, Held, Dirty, Open

\* While frames run, the store need not hold anything for a path.
LEMMA RunningKept ==
  ASSUME Running, NEW p \in Path, Keeps(p), unsaved'[p] = unsaved[p], p \in lost => p \in lost',
         work'[p] = work[p], UNCHANGED <<up, todo>>,
         \/ buf'[p] = buf[p] /\ (p \in raw => p \in raw')
         \/ ~Dirty(p)
  PROVE  Keeps(p)'
  BY DEF Running, Keeps, Held, Dirty, Open

\* Opening and closing leave the working text; a dirty buffer that is
\* discarded is given up by the user.
LEMMA OpeningKeeps ==
  ASSUME Base, AllKept, NEW p \in Path,
         OpenBuffer(p) \/ CloseBuffer(p) \/ Discard(p) \/ Submit(p) \/ Reload(p)
  PROVE  AllKept'
  <1>1. Running /\ UNCHANGED <<up, todo, work, lost>> /\ raw \ {p} \subseteq raw'
    BY DEF OpenBuffer, CloseBuffer, Discard, Submit, Reload, docs, life
  <1>2. buf \in [Path -> Buffer \cup {NoBuf}] /\ unsaved \in [Path -> MaybeText]
    BY DEF Base, TypeOK
  <1>3. ASSUME NEW r \in Path, r # p PROVE Keeps(r)'
    <2>1. buf'[r] = buf[r] /\ unsaved'[r] = unsaved[r]
      BY <1>2, <1>3 DEF OpenBuffer, CloseBuffer, Discard, Submit, Reload
    <2>2. QED
      BY <1>1, <1>3, <2>1, RunningKept DEF AllKept
  <1>4. Keeps(p)'
    <2>1. CASE Discard(p)
      BY <1>2, <2>1 DEF Discard, Keeps
    <2>2. CASE OpenBuffer(p) \/ CloseBuffer(p) \/ Submit(p) \/ Reload(p)
      <3>1. unsaved' = unsaved /\ (~Dirty(p) \/ (buf' = buf /\ raw' = raw))
        BY <2>2 DEF OpenBuffer, CloseBuffer, Submit, Reload, Dirty, Clean
      <3>2. QED
        BY <1>1, <3>1, RunningKept DEF AllKept
    <2>3. QED
      BY <2>1, <2>2
  <1>5. QED
    BY <1>3, <1>4 DEF AllKept

\* A frame replaces what is in a buffer; the working text stays, and without
\* one the text is given up.
LEMMA FrameKeeps ==
  ASSUME Base, AllKept, NEW p \in Path, Frame(p)
  PROVE  AllKept'
  <1>1. Running /\ UNCHANGED <<up, todo, work, unsaved>> /\ raw' = raw \ {p}
        /\ buf' = [buf EXCEPT ![p] = Bound(p)]
        /\ lost' = IF p \in raw /\ work[p] = Absent THEN lost \cup {p} ELSE lost
    BY DEF Frame, life
  <1>2. ASSUME NEW r \in Path, r # p PROVE Keeps(r)'
    <2>1. buf'[r] = buf[r] /\ (r \in raw => r \in raw')
      BY <1>1, <1>2 DEF Base, TypeOK
    <2>2. QED
      BY <1>1, <1>2, <2>1, RunningKept DEF AllKept
  <1>3. Keeps(p)'
    BY <1>1 DEF AllKept, Keeps, Held, Running
  <1>4. QED
    BY <1>2, <1>3 DEF AllKept

\* What is typed goes into the working text, or is in the buffer alone.
LEMMA TypingKeeps ==
  ASSUME Base, AllKept, NEW p \in Path, NEW t \in Typed, Type(p, t)
  PROVE  AllKept'
  <1>1. /\ Running /\ UNCHANGED <<up, todo>> /\ Open(p) /\ raw \subseteq raw'
        /\ buf' = [buf EXCEPT ![p].text = t] /\ work' = Mirrored(p, t)
        /\ unsaved' = [unsaved EXCEPT ![p] = IF t = buf[p].loaded THEN Absent ELSE t]
        /\ lost' = lost \ {p}
    BY DEF Type, life
  <1>2. buf \in [Path -> Buffer \cup {NoBuf}] /\ work \in [Path -> MaybeText]
        /\ unsaved \in [Path -> MaybeText] /\ buf[p] \in Buffer
    BY <1>1, PathFacts DEF Base, TypeOK
  <1>3. ASSUME NEW r \in Path, r # p PROVE Keeps(r)'
    <2>1. buf'[r] = buf[r] /\ work'[r] = work[r] /\ unsaved'[r] = unsaved[r] /\ (r \in lost => r \in lost')
      BY <1>1, <1>2, <1>3 DEF Mirrored
    <2>2. QED
      BY <1>1, <1>3, <2>1, RunningKept DEF AllKept
  <1>4. ASSUME t # buf[p].loaded PROVE Held(p)'
    <2>1. unsaved'[p] = t
      BY <1>1, <1>2, <1>4
    <2>2. buf'[p].text = t /\ buf'[p].loaded = buf[p].loaded /\ t # Absent
      BY <1>1, <1>2, EditorAssumption DEF Buffer
    <2>3. Dirty(p)'
      BY <1>4, <2>2 DEF Dirty, Open, NoBuf
    <2>4. CASE HasDoc(p)
      BY <1>1, <1>2, <2>1, <2>4 DEF Mirrored, Held, Running
    <2>5. CASE ~HasDoc(p)
      <3>1. work'[p] = Absent /\ p \in raw'
        BY <1>1, <2>5, PathFacts DEF Mirrored, Type, Base
      <3>2. QED
        BY <1>1, <2>1, <2>2, <2>3, <3>1 DEF Held, Running
    <2>6. QED
      BY <2>4, <2>5
  <1>5. Keeps(p)'
    BY <1>1, <1>2, <1>4 DEF Keeps
  <1>6. QED
    BY <1>3, <1>5 DEF AllKept

\* A save commits the working text, which is what was typed; without one it
\* gives a buffer the host filled up.
LEMMA SaveKeeps ==
  ASSUME Base, AllKept, NEW p \in Path, Save(p)
  PROVE  AllKept'
  <1>1. /\ Running /\ UNCHANGED <<up, todo>> /\ raw' = raw
        /\ buf' = [buf EXCEPT ![p].loaded = buf[p].text] /\ work' = [work EXCEPT ![p] = Absent]
        /\ unsaved' = IF work[p] # Absent THEN [unsaved EXCEPT ![p] = Absent] ELSE unsaved
        /\ lost' = IF p \in raw /\ work[p] = Absent THEN lost \cup {p} ELSE lost
    BY DEF Save, life
  <1>2. buf \in [Path -> Buffer \cup {NoBuf}] /\ work \in [Path -> MaybeText] /\ unsaved \in [Path -> MaybeText]
    BY DEF Base, TypeOK
  <1>3. ASSUME NEW r \in Path, r # p PROVE Keeps(r)'
    <2>1. buf'[r] = buf[r] /\ work'[r] = work[r] /\ unsaved'[r] = unsaved[r]
      BY <1>1, <1>2, <1>3
    <2>2. QED
      BY <1>1, <1>3, <2>1, RunningKept DEF AllKept
  <1>4. Keeps(p)'
    <2>1. CASE work[p] # Absent
      BY <1>1, <1>2, <2>1 DEF Keeps
    <2>2. CASE work[p] = Absent
      BY <1>1, <2>2 DEF AllKept, Keeps, Held, Running
    <2>3. QED
      BY <2>1, <2>2
  <1>5. QED
    BY <1>3, <1>4 DEF AllKept

\* What was typed moves with the working text or the buffer it is in.
LEMMA RenameKeeps ==
  ASSUME Base, AllKept, NEW p \in Path, NEW q \in Path, Rename(p, q)
  PROVE  AllKept'
  <1> DEFINE goes == work[p] # Absent \/ ~Open(q)
  <1>1. acc \in [Path -> MaybeText] /\ work \in [Path -> MaybeText] /\ unsaved \in [Path -> MaybeText]
        /\ buf \in [Path -> Buffer \cup {NoBuf}]
    BY DEF Base, TypeOK
  <1>2. p # q /\ Running /\ UNCHANGED <<up, todo>>
    BY DEF Rename, life
  <1>3. IF acc[p] = Absent THEN work' = work
        ELSE work' = [work EXCEPT ![q] = work[p], ![p] = Absent]
    BY DEF Rename, Moved
  <1>4. IF Open(q) \/ ~Open(p) THEN buf' = buf /\ raw' = raw
        ELSE /\ buf' = [buf EXCEPT ![q] = buf[p], ![p] = NoBuf]
             /\ raw' = (raw \ {p}) \cup (IF p \in raw THEN {q} ELSE {})
    BY DEF Rename
  <1>5. unsaved' = IF goes THEN [unsaved EXCEPT ![q] = unsaved[p], ![p] = Absent] ELSE unsaved
    BY DEF Rename, Moved
  <1>6. lost' = (IF ~goes THEN lost
                 ELSE (lost \ {p, q}) \cup (IF p \in lost THEN {q} ELSE {}))
                \cup (IF acc[p] # Absent /\ unsaved[q] # Absent THEN {q} ELSE {})
                \cup (IF acc[p] = Absent /\ work[q] # Absent THEN {q} ELSE {})
    BY DEF Rename
  <1>7. acc[p] = Absent => work[p] = Absent
    BY DEF Base, CachedIsDisk
  <1> HIDE DEF goes
  <1>8. ASSUME NEW r \in Path, r # p, r # q PROVE Keeps(r)'
    <2>1. work'[r] = work[r] /\ buf'[r] = buf[r] /\ unsaved'[r] = unsaved[r]
          /\ (r \in raw => r \in raw') /\ (r \in lost => r \in lost')
      BY <1>1, <1>3, <1>4, <1>5, <1>6, <1>8
    <2>2. QED
      BY <1>2, <2>1, RunningKept DEF AllKept
  <1>9. CASE ~goes
    <2>1. work[p] = Absent /\ Open(q) /\ buf' = buf /\ raw' = raw /\ unsaved' = unsaved /\ lost \subseteq lost'
      BY <1>4, <1>5, <1>6, <1>9 DEF goes
    <2>2. Keeps(p)'
      <3>1. work'[p] = work[p]
        BY <1>1, <1>2, <1>3, <2>1
      <3>2. QED
        BY <1>2, <2>1, <3>1, RunningKept DEF AllKept
    <2>3. Keeps(q)'
      <3>1. CASE acc[p] = Absent
        BY <1>2, <1>3, <2>1, <3>1, RunningKept DEF AllKept
      <3>2. CASE acc[p] # Absent
        BY <1>6, <2>1, <3>2 DEF Keeps
      <3>3. QED
        BY <3>1, <3>2
    <2>4. QED
      BY <1>8, <2>2, <2>3 DEF AllKept
  <1>10. CASE goes
    <2>1. unsaved'[p] = Absent /\ unsaved'[q] = unsaved[p]
      BY <1>1, <1>2, <1>5, <1>10
    <2>2. Keeps(p)'
      BY <2>1 DEF Keeps
    <2>3. ASSUME q \notin lost', unsaved[p] # Absent PROVE Held(q)'
      <3>1. p \notin lost /\ (acc[p] = Absent => work[q] = Absent)
        BY <1>6, <1>10, <2>3
      <3>2. Held(p)
        BY <2>3, <3>1 DEF AllKept, Keeps
      <3>3. CASE work[p] = unsaved[p]
        <4>1. work'[q] = work[p]
          BY <1>1, <1>2, <1>3, <1>7, <2>3, <3>3
        <4>2. QED
          BY <1>2, <2>1, <3>3, <4>1 DEF Held, Running
      <3>4. CASE work[p] = Absent /\ p \in raw /\ Dirty(p) /\ buf[p].text = unsaved[p]
        <4>1. ~Open(q) /\ Open(p)
          BY <1>10, <3>4 DEF goes, Dirty
        <4>2. buf'[q] = buf[p] /\ q \in raw'
          BY <1>1, <1>2, <1>4, <3>4, <4>1
        <4>3. work'[q] = Absent
          BY <1>1, <1>2, <1>3, <3>1, <3>4
        <4>4. QED
          BY <1>2, <2>1, <3>4, <4>2, <4>3 DEF Held, Running, Dirty, Open
      <3>5. QED
        BY <1>2, <3>2, <3>3, <3>4 DEF Held, Running
    <2>4. Keeps(q)'
      BY <2>1, <2>3 DEF Keeps
    <2>5. QED
      BY <1>8, <2>2, <2>4 DEF AllKept
  <1>11. QED
    BY <1>9, <1>10

\* An answer put into a buffer whose text is nowhere else gives that text up.
LEMMA AnswerKeeps ==
  ASSUME Base, AllKept, NEW p \in Path, NEW t \in Result, Answered(p, t)
  PROVE  AllKept'
  <1>1. Running /\ UNCHANGED <<up, todo, work, unsaved>>
    BY DEF Answered, docs, life
  <1>2. CASE UNCHANGED <<buf, raw, lost>>
    BY <1>1, <1>2, RunningKept DEF AllKept
  <1>3. CASE /\ buf' = [buf EXCEPT ![p].text = t] /\ raw' = raw \cup {p}
             /\ lost' = IF p \in raw /\ work[p] = Absent THEN lost \cup {p} ELSE lost
    <2>1. ASSUME NEW r \in Path, r # p PROVE Keeps(r)'
      <3>1. buf'[r] = buf[r] /\ (r \in raw => r \in raw') /\ (r \in lost => r \in lost')
        BY <1>3, <2>1 DEF Base, TypeOK
      <3>2. QED
        BY <1>1, <3>1, RunningKept DEF AllKept
    <2>2. Keeps(p)'
      BY <1>1, <1>3 DEF AllKept, Keeps, Held, Running
    <2>3. QED
      BY <2>1, <2>2 DEF AllKept
  <1>4. QED
    BY <1>2, <1>3 DEF Answered

\* Autosave writes only what nothing is restored from while it runs.
LEMMA StoreKeeps ==
  ASSUME Base, AllKept, Tick \/ \E i \in 1..MaxTasks, p \in Path : DoCall(i, p)
  PROVE  AllKept'
  <1>1. UNCHANGED <<up, todo, work, unsaved, buf, raw, lost>>
    BY DEF Tick, DoCall, docs, life
  <1>2. Running
    <2>1. CASE Tick
      BY <2>1 DEF Tick
    <2>2. CASE \E i \in 1..MaxTasks, p \in Path : DoCall(i, p)
      <3>1. tasks # <<>>
        BY <2>2 DEF DoCall
      <3>2. QED
        BY <3>1 DEF Base, Recovering
    <2>3. QED
      BY <2>1, <2>2
  <1>3. QED
    BY <1>1, <1>2, RunningKept DEF AllKept

\* After a crash the sidecar has what autosave stored, where that is what was
\* typed.
LEMMA CrashKeeps ==
  ASSUME Base, AllKept, AllFollow, Crash
  PROVE  AllKept'
  <1>1. up' = FALSE /\ entry' = entry /\ unsaved' = unsaved
        /\ lost' = lost \cup {p \in Path : ~Parked(p)}
    BY DEF Crash
  <1>2. HalfDone(side') /\ side \in [Path -> MaybeText] /\ unsaved \in [Path -> MaybeText]
    BY DEF Crash, Base, TypeOK
  <1>3. \A p \in Path : ~Owed(p) => side'[p] = side[p]
    BY <1>2 DEF HalfDone, NextCall, Owed
  <1>4. ASSUME NEW p \in Path, p \notin lost', unsaved[p] # Absent PROVE Held(p)'
    <2>1. gathered[p] = unsaved[p] /\ ~Owed(p) /\ p \notin late
      BY <1>1, <1>4 DEF Parked
    <2>2. unsaved[p] # Clear
      BY <1>2, ClearIsNoText
    <2>3. entry[p] = unsaved[p] /\ side[p] = unsaved[p]
      BY <1>4, <2>1, <2>2 DEF AllFollow, Follows, Stored, Indexed, Sidecar
    <2>4. QED
      BY <1>1, <1>3, <2>1, <2>3 DEF Held
  <1>5. QED
    BY <1>1, <1>4 DEF AllKept, Keeps

\* The start restores what was typed, unless it is what the file has.
LEMMA RestartKeeps ==
  ASSUME Base, AllKept, Restart
  PROVE  AllKept'
  <1>1. ~up /\ up' = TRUE
        /\ unsaved' = [p \in Path |-> IF unsaved[p] = disk[p] THEN Absent ELSE unsaved[p]]
    BY DEF Restart
  <1>2. PICK ok \in BOOLEAN :
         LET drop == IF ok THEN {p \in Path : Stale(p)} ELSE {}
             kept == IF ok THEN {p \in Path : ~Stale(p) /\ entry[p] # Absent} ELSE {}
         IN /\ todo' = kept
            /\ entry' = [p \in Path |-> IF p \in drop THEN Absent ELSE entry[p]]
            /\ side' = [p \in Path |-> IF p \in drop THEN Absent ELSE side[p]]
            /\ gathered' = [p \in Path |-> IF p \in drop THEN Clear ELSE gathered[p]]
            /\ lost' = IF ok THEN lost ELSE Path
    BY DEF Restart
  <1>3. ASSUME NEW p \in Path, p \notin lost', unsaved'[p] # Absent PROVE Held(p)'
    <2>1. ok = TRUE /\ p \notin lost
      BY <1>2, <1>3
    <2>2. unsaved[p] # disk[p] /\ unsaved'[p] = unsaved[p] /\ unsaved[p] # Absent
      BY <1>1, <1>3
    <2>3. entry[p] = unsaved[p] /\ side[p] = unsaved[p]
      BY <1>1, <2>1, <2>2 DEF AllKept, Keeps, Held
    <2>4. ~Stale(p) /\ entry[p] # Absent
      BY <2>2, <2>3 DEF Stale
    <2>5. p \in todo' /\ entry'[p] = entry[p] /\ side'[p] = side[p]
      BY <1>2, <2>1, <2>4
    <2>6. QED
      BY <2>2, <2>3, <2>5 DEF Held
  <1>4. QED
    BY <1>3 DEF AllKept, Keeps

\* What is restored is in a buffer that reads dirty.
LEMMA RestoreKeeps ==
  ASSUME Base, AllKept, NEW p \in Path, Restore(p)
  PROVE  AllKept'
  <1>1. /\ up /\ up' = up /\ p \in todo /\ todo' = todo \ {p} /\ UNCHANGED <<work, acc, unsaved, lost>>
        /\ buf' = [buf EXCEPT ![p] = [text |-> side[p], loaded |-> acc[p]]]
        /\ entry' = [entry EXCEPT ![p] = Absent] /\ side' = [side EXCEPT ![p] = Absent]
        /\ raw' = raw \cup {p}
    BY DEF Restore, docs
  <1>2. buf \in [Path -> Buffer \cup {NoBuf}] /\ entry \in [Path -> MaybeText] /\ side \in [Path -> MaybeText]
    BY DEF Base, TypeOK
  <1>3. ASSUME NEW r \in Path, r # p PROVE Keeps(r)'
    <2>1. buf'[r] = buf[r] /\ entry'[r] = entry[r] /\ side'[r] = side[r]
      BY <1>1, <1>2, <1>3
    <2>2. QED
      BY <1>1, <1>3, <2>1, SameKept DEF AllKept
  <1>4. ASSUME p \notin lost, unsaved[p] # Absent PROVE Held(p)'
    <2>1. side[p] = unsaved[p] /\ entry[p] = unsaved[p]
      BY <1>1, <1>4 DEF AllKept, Keeps, Held
    <2>2. acc[p] # unsaved[p] /\ work[p] = Absent
      BY <1>1, <2>1 DEF Base, Recovering, Running, Nothing
    <2>3. buf'[p].text = unsaved[p] /\ buf'[p].loaded = acc[p]
      BY <1>1, <1>2, <2>1
    <2>4. Dirty(p)'
      BY <1>4, <2>2, <2>3 DEF Dirty, Open, NoBuf
    <2>5. QED
      BY <1>1, <2>2, <2>3, <2>4 DEF Held
  <1>5. Keeps(p)'
    BY <1>1, <1>4 DEF Keeps
  <1>6. QED
    BY <1>3, <1>5 DEF AllKept

\* Every step keeps what was typed.
LEMMA NextKeepsHeld == Base /\ AllFollow /\ AllKept /\ [Next]_vars => AllKept'
  <1> SUFFICES ASSUME Base, AllFollow, AllKept, [Next]_vars PROVE AllKept'
    OBVIOUS
  <1>1. ASSUME UNCHANGED <<work, buf, raw, entry, side, up, todo, unsaved, lost>> PROVE AllKept'
    BY <1>1, SameKept DEF AllKept
  <1>2. CASE UNCHANGED vars
    BY <1>1, <1>2 DEF vars, docs, store, life
  <1>3. ASSUME NEW p \in Path, NEW c \in Foreign, Write(p, c) PROVE AllKept'
    BY <1>1, <1>3 DEF Write, store, life
  <1>4. CASE UserStep
    BY <1>3, <1>4, OpeningKeeps, TypingKeeps, SaveKeeps, RenameKeeps, AnswerKeeps DEF UserStep
  <1>5. QED
    BY <1>2, <1>4, OpeningKeeps, FrameKeeps, StoreKeeps, CrashKeeps, RestartKeeps, RestoreKeeps
       DEF Next, FrameStep, StoreStep, CrashStep

\* What the user typed and has neither saved nor discarded can be got back,
\* from working text, buffer or sidecar, through any crash and recovery, where
\* history does not name the step that gave it up.
THEOREM UnsavedIsKept == Spec => []UnsavedIsHeld
  <1>1. Init => AllFollow /\ AllKept
    BY DEF Init, AllFollow, Follows, AllKept, Keeps, Nothing
  <1>2. Spec => [](Base /\ AllFollow /\ AllKept)
    BY <1>1, InitBase, NextKeepsBase, NextKeepsFollowing, NextKeepsHeld, PTL DEF Spec
  <1>3. AllKept => UnsavedIsHeld
    BY DEF AllKept, Keeps, Held, UnsavedIsHeld
  <1>4. QED
    BY <1>2, <1>3, PTL

\* The invariant all of these rest on, which EditorSession states and TLC
\* checks on its instances.
THEOREM SessionInvariant == Spec => []SessionInv
  <1>1. Init => AllShow /\ AllFollow /\ AllKept
    BY DEF Init, AllShow, Shows, Clean, Dirty, Open, AllFollow, Follows, AllKept, Keeps, Nothing
  <1>2. Spec => [](Base /\ AllShow /\ AllFollow /\ AllKept)
    BY <1>1, InitBase, NextKeepsBase, NextKeepsShown, NextKeepsFollowing, NextKeepsHeld, PTL DEF Spec
  <1>3. Base /\ AllShow /\ AllFollow /\ AllKept => SessionInv
    <2> SUFFICES ASSUME Base, AllShow, AllFollow, AllKept PROVE SessionInv
      OBVIOUS
    <2>1. CleanIsOnDisk /\ DirtyIsWorking
      BY DEF AllShow, Shows, CleanIsOnDisk, DirtyIsWorking
    <2>2. AllHeld
      BY DEF AllKept, Keeps, AllHeld
    <2>3. NewestIsGathered
      BY DEF AllFollow, Follows, NewestIsGathered
    <2>4. QED
      BY <2>1, <2>2, <2>3 DEF Base, SessionInv
  <1>4. QED
    BY <1>2, <1>3, PTL
=============================================================================
