-------------------------- MODULE IndexSyncProofs --------------------------
(***************************************************************************)
(* Proofs about IndexSync, for every vault, every capacity of the two      *)
(* queues, every inbox rule and any number of writes, requests and         *)
(* restarts: nothing that changes is forgotten on its way to the index     *)
(* except where the history says so, every Queued marker belongs to work   *)
(* on its way, and every reply that is awaited is owed exactly once.       *)
(***************************************************************************)
EXTENDS IndexSync, SequenceTheorems, TLAPS

-----------------------------------------------------------------------------
\* Queues: what one Append, and one Tail, do to their members.

\* Appending adds one member at the end.
LEMMA AppendFacts ==
  ASSUME NEW S, NEW s \in Seq(S), NEW e \in S
  PROVE  /\ Append(s, e) \in Seq(S) /\ Len(Append(s, e)) = Len(s) + 1
         /\ Range(Append(s, e)) = Range(s) \cup {e}
         /\ Append(s, e) # <<>>
  <1>1. Append(s, e) \in Seq(S) /\ Append(s, e) # <<>> /\ Len(Append(s, e)) = Len(s) + 1
    BY AppendProperties
  <1>2. /\ Range(s) = {s[i] : i \in 1..Len(s)}
        /\ Range(Append(s, e)) = {Append(s, e)[i] : i \in 1..(Len(s) + 1)}
    BY <1>1, RangeEquality
  <1>3. Len(s) \in Nat
    OBVIOUS
  <1>4. /\ \A i \in 1..Len(s) : Append(s, e)[i] = s[i]
        /\ Append(s, e)[Len(s) + 1] = e
    BY AppendProperties
  <1>5. Range(Append(s, e)) = Range(s) \cup {e}
    <2>1. \A i \in 1..(Len(s) + 1) : i \in 1..Len(s) \/ i = Len(s) + 1
      BY <1>3
    <2>2. \A i \in 1..Len(s) : i \in 1..(Len(s) + 1)
      BY <1>3
    <2>3. Len(s) + 1 \in 1..(Len(s) + 1)
      BY <1>3
    <2>4. QED
      BY <1>2, <1>4, <2>1, <2>2, <2>3
  <1>6. QED
    BY <1>1, <1>5

\* Taking the first leaves the others.
LEMMA TailFacts ==
  ASSUME NEW S, NEW s \in Seq(S), s # <<>>
  PROVE  /\ Tail(s) \in Seq(S) /\ Len(Tail(s)) = Len(s) - 1 /\ Head(s) \in S
         /\ Range(s) = Range(Tail(s)) \cup {Head(s)}
  <1>1. /\ Tail(s) \in Seq(S) /\ Len(Tail(s)) = Len(s) - 1 /\ Head(s) \in S
        /\ \A i \in 1..Len(Tail(s)) : Tail(s)[i] = s[i + 1]
    BY HeadTailProperties
  <1>2. /\ Range(s) = {s[i] : i \in 1..Len(s)}
        /\ Range(Tail(s)) = {Tail(s)[i] : i \in 1..Len(Tail(s))}
    BY <1>1, RangeEquality
  <1>3. Len(s) \in Nat /\ Len(s) # 0 /\ Head(s) = s[1]
    OBVIOUS
  <1>4. \A i \in 1..Len(s) : i = 1 \/ (i - 1 \in 1..Len(Tail(s)) /\ Tail(s)[i - 1] = s[i])
    BY <1>1, <1>3
  <1>5. \A i \in 1..Len(Tail(s)) : i + 1 \in 1..Len(s)
    BY <1>1, <1>3
  <1>6. Range(Tail(s)) \cup {Head(s)} \subseteq Range(s)
    BY <1>1, <1>2, <1>3, <1>5
  <1>7. Range(s) \subseteq Range(Tail(s)) \cup {Head(s)}
    BY <1>2, <1>3, <1>4
  <1>8. QED
    BY <1>1, <1>6, <1>7

\* A queue is empty exactly when it has no member.
LEMMA EmptyRange ==
  ASSUME NEW S, NEW s \in Seq(S)
  PROVE  Range(s) = {} <=> s = <<>>
  BY RangeEquality

-----------------------------------------------------------------------------
\* Types, what events and jobs name, and what the task is doing.

Typed == TypeOK /\ FlowOK /\ CurOK

\* One more event, or one more job, is a proper one.
LEMMA RawGrows ==
  ASSUME Typed, NEW e, EventOK(e)
  PROVE  /\ Append(raw, e) \in Seq(Events)
         /\ \A x \in Range(Append(raw, e)) : EventOK(x)
  <1>1. raw \in Seq(Events) /\ e \in Events /\ \A x \in Range(raw) : EventOK(x)
    BY DEF Typed, TypeOK, FlowOK, EventOK
  <1>2. QED
    BY <1>1, AppendFacts

\* The queue with one more job is a proper queue.
LEMMA JobsGrow ==
  ASSUME Typed, NEW j, JobOK(j), j.k # "none", jobs' = Append(jobs, j), HasRoom
  PROVE  /\ jobs' \in Seq(Jobs) /\ Len(jobs') <= JobCap
         /\ \A x \in Range(jobs') : JobOK(x) /\ x.k # "none"
  <1>1. /\ jobs \in Seq(Jobs) /\ j \in Jobs
        /\ \A x \in Range(jobs) : JobOK(x) /\ x.k # "none"
    BY DEF Typed, TypeOK, FlowOK, JobOK
  <1>2. Len(jobs) < JobCap
    BY DEF HasRoom
  <1>3. QED
    BY <1>1, <1>2, AppendFacts, IndexSyncAssumption

\* And so is the queue without its first.
LEMMA JobsShrink ==
  ASSUME Typed, jobs # <<>>, jobs' = Tail(jobs)
  PROVE  /\ jobs' \in Seq(Jobs) /\ Len(jobs') <= JobCap
         /\ \A x \in Range(jobs') : JobOK(x) /\ x.k # "none"
         /\ JobOK(Head(jobs)) /\ Head(jobs) \in Jobs /\ Head(jobs).k # "none"
  <1>1. /\ jobs \in Seq(Jobs) /\ Len(jobs) <= JobCap
        /\ \A x \in Range(jobs) : JobOK(x) /\ x.k # "none"
    BY DEF Typed, TypeOK, FlowOK, JobOK
  <1>2. QED
    BY <1>1, TailFacts, IndexSyncAssumption

\* Every event the vault, the host and the task raise is a proper one.
LEMMA EventsOK ==
  ASSUME NEW p \in Path
  PROVE  /\ \A k \in {"created", "modified", "deleted"} : EventOK(Event(k, p, NoPath))
         /\ \A q \in Path \ {p} : EventOK(Event("renamed", p, q))
         /\ EventOK(Event("overflow", NoPath, NoPath))
  BY IndexSyncAssumption DEF EventOK, Event, Events

\* And every job, which an event is translated into or the host asks for.
LEMMA JobsOK ==
  /\ JobOK(NoJob) /\ \A f \in BOOLEAN : JobOK(FullScan(f))
  /\ \A p \in Path : JobOK(UpsertOf(p))
  /\ \A k \in {"created", "delete", "trash"}, p \in Path : JobOK(Job(k, p, NoPath, FALSE))
  /\ \A k \in {"rename", "move"}, p \in Path : \A q \in Path \ {p} :
       JobOK(Job(k, p, q, FALSE))
  /\ \A p \in Path, c \in Content : JobOK(Job("restore", p, c, FALSE))
  /\ \A k \in {"reload", "sweep"} : JobOK(Job(k, NoPath, NoPath, FALSE))
  BY IndexSyncAssumption
     DEF JobOK, NoJob, FullScan, UpsertOf, Job, Jobs, JobKinds

\* An event becomes a proper job, and none that is awaited.
LEMMA TranslatedOK ==
  ASSUME NEW e, EventOK(e)
  PROVE  JobOK(JobOf(e)) /\ JobOf(e).k \notin Awaited
  <1>1. CASE e.k = "overflow"
    BY <1>1, JobsOK DEF JobOf, FullScan, Job, Awaited
  <1>2. CASE e.k = "renamed"
    <2>1. e.p \in Path /\ e.q \in Path \ {e.p}
      BY <1>2 DEF EventOK
    <2>2. JobOf(e) = NoJob \/ JobOf(e) = Job("rename", e.p, e.q, FALSE)
      BY <1>2 DEF JobOf
    <2>3. JobOK(Job("rename", e.p, e.q, FALSE)) /\ JobOK(NoJob)
      BY <2>1, JobsOK
    <2>4. JobOf(e).k \notin Awaited
      BY <2>2 DEF Job, NoJob, Awaited
    <2>5. QED
      BY <2>2, <2>3, <2>4
  <1>3. CASE e.k \in {"created", "modified", "deleted"}
    <2>1. e.p \in Path
      BY <1>3 DEF EventOK
    <2>2. JobOf(e) \in {NoJob, UpsertOf(e.p), Job("created", e.p, NoPath, FALSE),
                       Job("delete", e.p, NoPath, FALSE)}
      BY <1>3 DEF JobOf
    <2>3. JobOf(e).k \notin Awaited
      BY <2>2 DEF UpsertOf, Job, NoJob, Awaited
    <2>4. QED
      BY <2>1, <2>2, <2>3, JobsOK
  <1>4. QED
    BY <1>1, <1>2, <1>3 DEF EventOK, Events

\* The vault and its index stay what they are, whatever one path is set to.
LEMMA DiskTyped ==
  ASSUME TypeOK, NEW p \in Path
  PROVE  /\ \A c \in Content \cup {Absent} :
              [disk EXCEPT ![p] = c] \in [Path -> Content \cup {Absent}]
         /\ \A q \in Path : Renamed(disk, p, q) \in [Path -> Content \cup {Absent}]
         /\ [index EXCEPT ![p] = NoRow] \in [Path -> Row]
         /\ \A q \in Path : Rekeyed(p, q) \in [Path -> Row]
  <1>1. disk \in [Path -> Content \cup {Absent}] /\ index \in [Path -> Row]
    BY DEF TypeOK
  <1>2. NoRow \in Row
    BY DEF NoRow, Row
  <1>3. QED
    BY <1>1, <1>2 DEF Renamed, Rekeyed

\* What the rest of the world does to the vault.
LEMMA OutsideTyped ==
  ASSUME Typed, NEW p \in Path,
         \/ \E c \in Content : Write(p, c)
         \/ Remove(p)
         \/ \E q \in Path : Rename(p, q)
         \/ Expire(p)
  PROVE  Typed'
  <1>0. TypeOK /\ FlowOK /\ CurOK
    BY DEF Typed
  <1>1. ASSUME NEW e, EventOK(e), Raise(e), disk' \in [Path -> Content \cup {Absent}],
               UNCHANGED <<pipe, task, pending, app, lost, leaked>>
        PROVE  Typed'
    <2>1. raw' \in Seq(Events) /\ \A x \in Range(raw') : EventOK(x)
      BY <1>1, RawGrows, EventsOK DEF Raise
    <2>2. TypeOK'
      BY <1>0, <1>1, <2>1 DEF TypeOK, pipe, task
    <2>3. FlowOK'
      BY <1>0, <1>1, <2>1 DEF FlowOK, pipe, task
    <2>4. CurOK'
      BY <1>0, <1>1 DEF CurOK, task
    <2>5. QED
      BY <2>2, <2>3, <2>4 DEF Typed
  <1>2. ASSUME NEW c \in Content, Write(p, c)
        PROVE  Typed'
    <2>1. disk' \in [Path -> Content \cup {Absent}]
      BY <1>0, <1>2, DiskTyped DEF Write
    <2>2. QED
      BY <1>1, <1>2, <2>1, EventsOK DEF Write
  <1>3. CASE Remove(p)
    <2>1. disk' \in [Path -> Content \cup {Absent}]
      BY <1>0, <1>3, DiskTyped DEF Remove
    <2>2. QED
      BY <1>1, <1>3, <2>1, EventsOK DEF Remove
  <1>4. ASSUME NEW q \in Path, Rename(p, q)
        PROVE  Typed'
    <2>1. disk' \in [Path -> Content \cup {Absent}] /\ q \in Path \ {p}
      BY <1>0, <1>4, DiskTyped DEF Rename
    <2>2. QED
      BY <1>1, <1>4, <2>1, EventsOK DEF Rename
  <1>5. CASE Expire(p)
    BY <1>0, <1>5 DEF Expire, Typed, TypeOK, FlowOK, CurOK, task
  <1>6. QED
    BY <1>2, <1>3, <1>4, <1>5

\* A tracked job names a path.
LEMMA TrackedPaths ==
  ASSUME NEW j, JobOK(j)
  PROVE  Tracked(j) \subseteq Path
  BY DEF JobOK, Tracked

\* A request of the host: what it sends, and the write it may have made.
LEMMA RequestTyped ==
  ASSUME Typed, NEW name, NEW j, NEW s, NEW d, NEW r, Request(name, j, s, d, r),
         JobOK(j), j.k # "none", s \subseteq Path,
         d \in [Path -> Content \cup {Absent}],
         r \in Seq(Events), \A x \in Range(r) : EventOK(x)
  PROVE  Typed'
  <1>0. TypeOK /\ FlowOK /\ CurOK
    BY DEF Typed
  <1>1. raw' \in Seq(Events) /\ \A x \in Range(raw') : EventOK(x)
    BY DEF Request
  <1>2. /\ app' = [at |-> "send", job |-> j]
        /\ app' \in [at : {"idle", "send", "wait", "replied"}, job : Jobs]
    BY DEF Request, JobOK
  <1>3. TypeOK'
    BY <1>0, <1>1, <1>2, TrackedPaths DEF TypeOK, Request, task
  <1>4. FlowOK'
    BY <1>0, <1>1, <1>2 DEF FlowOK, Request, task
  <1>5. CurOK'
    BY <1>0 DEF CurOK, Request, task
  <1>6. QED
    BY <1>3, <1>4, <1>5 DEF Typed

\* The host's requests, one by one.
LEMMA HostTyped ==
  ASSUME Typed,
         \/ \E p \in Path, c \in Content : CreateAt(p, c) \/ RestoreNote(p, c) \/ PanelRestore(p, c)
         \/ \E p, q \in Path : MoveNote(p, q)
         \/ \E p \in Path : DeleteNote(p)
         \/ ReloadEmbedder \/ DateSweep \/ ReindexAll
  PROVE  Typed'
  <1>0. TypeOK /\ FlowOK /\ CurOK
    BY DEF Typed
  <1>q. /\ disk \in [Path -> Content \cup {Absent}]
        /\ raw \in Seq(Events) /\ \A x \in Range(raw) : EventOK(x)
    BY <1>0 DEF TypeOK, FlowOK
  <1>r. ASSUME NEW name, NEW j, NEW s, JobOK(j), j.k # "none", s \subseteq Path,
               Request(name, j, s, disk, raw)
        PROVE  Typed'
    BY <1>q, <1>r, RequestTyped
  <1>1. ASSUME NEW p \in Path, NEW c \in Content, CreateAt(p, c)
        PROVE  Typed'
    <2> DEFINE d == [disk EXCEPT ![p] = c]
               r == Append(raw, Event("created", p, NoPath))
    <2>1. r \in Seq(Events) /\ \A x \in Range(r) : EventOK(x)
      BY EventsOK, RawGrows
    <2>2. d \in [Path -> Content \cup {Absent}]
      BY <1>0, DiskTyped
    <2>0. UpsertOf(p).k # "none"
      BY DEF UpsertOf, Job
    <2>3. JobOK(UpsertOf(p))
      BY JobsOK
    <2>4. Request("create", UpsertOf(p), {p}, d, r)
      BY <1>1 DEF CreateAt
    <2> HIDE DEF d, r
    <2>5. QED
      BY <2>0, <2>1, <2>2, <2>3, <2>4, RequestTyped
  <1>2. ASSUME NEW p \in Path, NEW c \in Content, RestoreNote(p, c)
        PROVE  Typed'
    <2> DEFINE j == Job("restore", p, c, FALSE)
    <2>0. j.k # "none"
      BY DEF Job
    <2>1. JobOK(j)
      BY JobsOK
    <2>2. Request("trash", j, {p}, disk, raw) /\ {p} \subseteq Path
      BY <1>2 DEF RestoreNote
    <2> HIDE DEF j
    <2>3. QED
      BY <1>r, <2>0, <2>1, <2>2
  <1>3. ASSUME NEW p \in Path, NEW c \in Content, PanelRestore(p, c)
        PROVE  Typed'
    <2>1. raw' \in Seq(Events) /\ \A x \in Range(raw') : EventOK(x)
      BY <1>3, EventsOK, RawGrows DEF PanelRestore
    <2>2. disk' \in [Path -> Content \cup {Absent}]
      BY <1>0, <1>3, DiskTyped DEF PanelRestore
    <2>3. TypeOK'
      BY <1>0, <1>3, <2>1, <2>2 DEF TypeOK, PanelRestore
    <2>4. FlowOK' /\ CurOK'
      BY <1>0, <1>3, <2>1 DEF FlowOK, CurOK, PanelRestore
    <2>5. QED
      BY <2>3, <2>4 DEF Typed
  <1>4. ASSUME NEW p \in Path, NEW q \in Path, MoveNote(p, q)
        PROVE  Typed'
    <2> DEFINE j == Job("move", p, q, FALSE)
    <2>0. j.k # "none"
      BY DEF Job
    <2>1. JobOK(j)
      BY <1>4, JobsOK DEF MoveNote
    <2>2. Request("move", j, {p, q}, disk, raw) /\ {p, q} \subseteq Path
      BY <1>4 DEF MoveNote
    <2> HIDE DEF j
    <2>3. QED
      BY <1>r, <2>0, <2>1, <2>2
  <1>5. ASSUME NEW p \in Path, DeleteNote(p)
        PROVE  Typed'
    <2> DEFINE j == Job("trash", p, NoPath, FALSE)
    <2>0. j.k # "none"
      BY DEF Job
    <2>1. JobOK(j)
      BY JobsOK
    <2>2. Request("trash", j, {p}, disk, raw) /\ {p} \subseteq Path
      BY <1>5 DEF DeleteNote
    <2> HIDE DEF j
    <2>3. QED
      BY <1>r, <2>0, <2>1, <2>2
  <1>6. ASSUME NEW name, NEW k \in {"reload", "sweep", "scan"}, NEW f \in BOOLEAN,
               Request(name, Job(k, NoPath, NoPath, f), {}, disk, raw),
               JobOK(Job(k, NoPath, NoPath, f))
        PROVE  Typed'
    <2> DEFINE j == Job(k, NoPath, NoPath, f)
    <2>1. j.k # "none"
      BY DEF Job
    <2>2. JobOK(j) /\ Request(name, j, {}, disk, raw)
      BY <1>6
    <2> HIDE DEF j
    <2>3. QED
      BY <1>r, <2>1, <2>2
  <1>7. CASE ReloadEmbedder \/ DateSweep \/ ReindexAll
    <2>1. /\ JobOK(Job("reload", NoPath, NoPath, FALSE))
          /\ JobOK(Job("scan", NoPath, NoPath, TRUE))
          /\ JobOK(Job("sweep", NoPath, NoPath, FALSE))
      BY JobsOK DEF FullScan
    <2>2. QED
      BY <1>6, <1>7, <2>1 DEF ReloadEmbedder, DateSweep, ReindexAll, FullScan
  <1>8. QED
    BY <1>1, <1>2, <1>3, <1>4, <1>5, <1>7

\* The broadcast never outgrows its capacity.
LEMMA BroadcastTyped ==
  ASSUME Typed, NEW e, EventOK(e), Broadcast(e)
  PROVE  /\ bcast' \in Seq(Events) /\ Len(bcast') <= EventCap
         /\ \A x \in Range(bcast') : EventOK(x)
  <1>0. /\ bcast \in Seq(Events) /\ Len(bcast) <= EventCap /\ e \in Events
        /\ \A x \in Range(bcast) : EventOK(x)
        /\ EventCap \in Nat \ {0}
    BY IndexSyncAssumption DEF Typed, TypeOK, FlowOK, EventOK
  <1>1. CASE Len(bcast) = EventCap
    <2> DEFINE t == Tail(bcast)
    <2>1. bcast # <<>>
      BY <1>0, <1>1
    <2>2. t \in Seq(Events) /\ Len(t) = EventCap - 1 /\ Range(t) \subseteq Range(bcast)
      BY <1>0, <1>1, <2>1, TailFacts
    <2>3. bcast' = Append(t, e)
      BY <1>1 DEF Broadcast
    <2> HIDE DEF t
    <2>4. /\ bcast' \in Seq(Events) /\ Len(bcast') = Len(t) + 1
          /\ Range(bcast') = Range(t) \cup {e}
      BY <1>0, <2>2, <2>3, AppendFacts
    <2>5. Len(bcast') <= EventCap
      BY <1>0, <2>2, <2>4
    <2>6. QED
      BY <1>0, <2>2, <2>4, <2>5
  <1>2. CASE Len(bcast) # EventCap
    <2>1. bcast' = Append(bcast, e) /\ Len(bcast) < EventCap
      BY <1>0, <1>2 DEF Broadcast
    <2>2. QED
      BY <1>0, <2>1, AppendFacts
  <1>3. QED
    BY <1>1, <1>2

\* The bridge, the router, and the host sending and resuming.
LEMMA PipelineTyped ==
  ASSUME Typed, Pipeline
  PROVE  Typed'
  <1>0. TypeOK /\ FlowOK /\ CurOK
    BY DEF Typed
  <1>1. CASE DispatchOne
    <2>1. /\ raw \in Seq(Events) /\ raw # <<>> /\ EventOK(Head(raw))
          /\ raw' = Tail(raw) /\ raw' \in Seq(Events)
          /\ \A x \in Range(raw') : EventOK(x)
      BY <1>0, <1>1, TailFacts DEF DispatchOne, TypeOK, FlowOK
    <2>2. /\ bcast' \in Seq(Events) /\ Len(bcast') <= EventCap
          /\ \A x \in Range(bcast') : EventOK(x)
          /\ lost' \subseteq Path /\ lagged' \in BOOLEAN
      <3>1. CASE DropSuppressed(Head(raw))
        BY <1>0, <2>1, <3>1 DEF DropSuppressed, TypeOK, FlowOK, Touched, EventOK, Events
      <3>2. CASE Broadcast(Head(raw))
        BY <1>0, <2>1, <3>2, BroadcastTyped DEF Broadcast, TypeOK
      <3>3. QED
        BY <1>1, <3>1, <3>2 DEF DispatchOne
    <2>3. TypeOK'
      BY <1>0, <1>1, <2>1, <2>2 DEF TypeOK, DispatchOne, task
    <2>4. FlowOK' /\ CurOK'
      BY <1>0, <1>1, <2>1, <2>2 DEF FlowOK, CurOK, DispatchOne, task
    <2>5. QED
      BY <2>3, <2>4 DEF Typed
  <1>2. CASE RouterRecv
    <2>1. /\ JobOK(hand') /\ hand'.k \notin Awaited /\ lagged' \in BOOLEAN
          /\ bcast' \in Seq(Events) /\ Len(bcast') <= EventCap
          /\ \A x \in Range(bcast') : EventOK(x)
          /\ pending' \subseteq Path
      <3>1. CASE lagged /\ lagged' = FALSE /\ hand' = FullScan(FALSE) /\ UNCHANGED <<bcast, pending>>
        <4>1. JobOK(hand') /\ hand'.k \notin Awaited
          BY <3>1, JobsOK DEF FullScan, Job, Awaited
        <4>2. QED
          BY <1>0, <3>1, <4>1 DEF TypeOK, FlowOK
      <3>2. CASE /\ bcast # <<>> /\ bcast' = Tail(bcast) /\ hand' = JobOf(Head(bcast))
                 /\ pending' = pending \cup Tracked(hand') /\ UNCHANGED lagged
        <4>1. /\ EventOK(Head(bcast)) /\ bcast' \in Seq(Events) /\ Len(bcast') <= EventCap
              /\ \A x \in Range(bcast') : EventOK(x)
          BY <1>0, <3>2, TailFacts, IndexSyncAssumption DEF TypeOK, FlowOK
        <4>2. JobOK(hand') /\ hand'.k \notin Awaited
          BY <3>2, <4>1, TranslatedOK
        <4>3. Tracked(hand') \subseteq Path
          BY <4>2, TrackedPaths
        <4>4. QED
          BY <1>0, <3>2, <4>1, <4>2, <4>3 DEF TypeOK
      <3>3. QED
        BY <1>2, <3>1, <3>2 DEF RouterRecv
    <2>2. TypeOK'
      BY <1>0, <1>2, <2>1 DEF TypeOK, RouterRecv, task, JobOK
    <2>3. FlowOK' /\ CurOK'
      BY <1>0, <1>2, <2>1 DEF FlowOK, CurOK, RouterRecv, task
    <2>4. QED
      BY <2>2, <2>3 DEF Typed
  <1>3. CASE RouterSend
    <2>1. JobOK(hand) /\ hand.k # "none"
      BY <1>0, <1>3 DEF RouterSend, FlowOK, JobOK
    <2>2. /\ jobs' \in Seq(Jobs) /\ Len(jobs') <= JobCap
          /\ \A x \in Range(jobs') : JobOK(x) /\ x.k # "none"
      BY <1>3, <2>1, JobsGrow DEF RouterSend
    <2>3. JobOK(hand') /\ hand' \in Jobs /\ hand'.k \notin Awaited
      BY <1>3, JobsOK DEF RouterSend, JobOK, NoJob, Job, Awaited
    <2>4. TypeOK'
      BY <1>0, <1>3, <2>2, <2>3 DEF TypeOK, RouterSend
    <2>5. FlowOK' /\ CurOK'
      BY <1>0, <1>3, <2>2, <2>3 DEF FlowOK, CurOK, RouterSend
    <2>6. QED
      BY <2>4, <2>5 DEF Typed
  <1>4. CASE AppSend
    <2>1. JobOK(app.job) /\ app.job.k # "none"
      BY <1>0, <1>4 DEF AppSend, FlowOK
    <2>2. /\ jobs' \in Seq(Jobs) /\ Len(jobs') <= JobCap
          /\ \A x \in Range(jobs') : JobOK(x) /\ x.k # "none"
      BY <1>4, <2>1, JobsGrow DEF AppSend
    <2>3. /\ app' \in [at : {"idle", "send", "wait", "replied"}, job : Jobs]
          /\ JobOK(app'.job) /\ app'.at # "send"
          /\ app'.at \in {"wait", "replied"} => app'.job.k \in Awaited
      <3>1. CASE app.job.k \in Awaited
        BY <1>0, <1>4, <2>1, <3>1 DEF AppSend, TypeOK
      <3>2. CASE app.job.k \notin Awaited
        <4>1. app' = [at |-> "idle", job |-> NoJob] /\ NoJob \in Jobs
          BY <1>4, <3>2, JobsOK DEF AppSend, NoApp, JobOK
        <4>2. QED
          BY <4>1, JobsOK
      <3>3. QED
        BY <3>1, <3>2
    <2>4. TypeOK'
      BY <1>0, <1>4, <2>2, <2>3 DEF TypeOK, AppSend, pipe
    <2>5. FlowOK' /\ CurOK'
      BY <1>0, <1>4, <2>2, <2>3 DEF FlowOK, CurOK, AppSend, pipe
    <2>6. QED
      BY <2>4, <2>5 DEF Typed
  <1>5. CASE AppResume
    <2>1. TypeOK'
      BY <1>0, <1>5, JobsOK DEF TypeOK, AppResume, task, NoApp, JobOK
    <2>2. FlowOK' /\ CurOK'
      BY <1>0, <1>5, JobsOK DEF FlowOK, CurOK, AppResume, task, NoApp
    <2>3. QED
      BY <2>1, <2>2 DEF Typed
  <1>6. QED
    BY <1>1, <1>2, <1>3, <1>4, <1>5 DEF Pipeline

-----------------------------------------------------------------------------
\* The indexer task: what each job and each step leaves behind is typed.

CurRecord == [op : {"idle", "read", "store", "links", "sendlink", "sendscan"},
              p : Path \cup {NoPath}, force : BOOLEAN, tracked : BOOLEAN,
              val : Content \cup {Absent}, todo : SUBSET Path, reply : BOOLEAN]

\* The shapes `cur' takes.
LEMMA CurShapes ==
  /\ Idle \in CurRecord
  /\ \A p \in Path, f, t \in BOOLEAN : Upserting(p, f, t) \in CurRecord
  /\ \A p \in Path, r \in BOOLEAN : Sweeping(p, r) \in CurRecord
  BY DEF Idle, CurRecord, Upserting, Sweeping

\* What MoveOnDisk and DeleteRow leave.
LEMMA MoveOnDiskTyped ==
  ASSUME Typed, NEW p \in Path, NEW q \in Path \ {p}, MoveOnDisk(p, q)
  PROVE  /\ disk' \in [Path -> Content \cup {Absent}] /\ index' \in [Path -> Row]
         /\ raw' \in Seq(Events) /\ \A x \in Range(raw') : EventOK(x)
         /\ lost' \subseteq Path
  <1>0. TypeOK
    BY DEF Typed
  <1>1. disk' \in [Path -> Content \cup {Absent}] /\ index' \in [Path -> Row]
    BY <1>0, DiskTyped DEF MoveOnDisk
  <1>2. raw' \in Seq(Events) /\ \A x \in Range(raw') : EventOK(x)
    <2>1. EventOK(Event("renamed", p, q))
      BY EventsOK
    <2>2. QED
      BY <2>1, RawGrows DEF MoveOnDisk
  <1>3. lost' \subseteq Path
    BY <1>0 DEF MoveOnDisk, Forget, TypeOK
  <1>4. QED
    BY <1>1, <1>2, <1>3

\* A reply changes where the host is and nothing else of the request.
LEMMA RepliedTyped ==
  ASSUME Typed
  PROVE  /\ Replied \in [at : {"idle", "send", "wait", "replied"}, job : Jobs]
         /\ Replied.job = app.job
         /\ Replied.at = "send" => app.at = "send"
         /\ Replied.at \in {"wait", "replied"} => app.at \in {"wait", "replied"}
  BY DEF Replied, Typed, TypeOK

\* The parts of the typing that a step of the task can disturb, gathered.
LEMMA TypedFromParts ==
  ASSUME Typed, UNCHANGED <<bcast, lagged, hand>>,
         disk' \in [Path -> Content \cup {Absent}], index' \in [Path -> Row],
         raw' \in Seq(Events), \A x \in Range(raw') : EventOK(x),
         jobs' \in Seq(Jobs), Len(jobs') <= JobCap,
         \A x \in Range(jobs') : JobOK(x) /\ x.k # "none",
         live' \subseteq Path, pending' \subseteq Path, lost' \subseteq Path,
         leaked' \subseteq Path, ver' \in Version, cur' \in CurRecord, CurOK',
         scan' \in [del : SUBSET Path, up : SUBSET Path, force : BOOLEAN],
         up' \in {"loading", "ready", "failed"}, trash' \subseteq Path \X Content,
         app' = app \/ app' = Replied
  PROVE  Typed'
  <1>0. TypeOK /\ FlowOK
    BY DEF Typed
  <1>1. /\ app' \in [at : {"idle", "send", "wait", "replied"}, job : Jobs]
        /\ app'.job = app.job /\ (app'.at = "send" => app.at = "send")
        /\ app'.at \in {"wait", "replied"} => app.at \in {"wait", "replied"}
    BY <1>0, RepliedTyped DEF TypeOK
  <1>2. TypeOK'
    BY <1>0, <1>1 DEF TypeOK, CurRecord
  <1>3. FlowOK'
    BY <1>0, <1>1 DEF FlowOK
  <1>4. QED
    BY <1>2, <1>3 DEF Typed

\* The same parts, before the step.
LEMMA TypedParts ==
  ASSUME Typed
  PROVE  /\ disk \in [Path -> Content \cup {Absent}] /\ index \in [Path -> Row]
         /\ raw \in Seq(Events) /\ \A x \in Range(raw) : EventOK(x)
         /\ jobs \in Seq(Jobs) /\ Len(jobs) <= JobCap
         /\ \A x \in Range(jobs) : JobOK(x) /\ x.k # "none"
         /\ live \subseteq Path /\ pending \subseteq Path /\ lost \subseteq Path
         /\ leaked \subseteq Path /\ ver \in Version /\ cur \in CurRecord /\ CurOK
         /\ scan \in [del : SUBSET Path, up : SUBSET Path, force : BOOLEAN]
         /\ up \in {"loading", "ready", "failed"} /\ trash \subseteq Path \X Content
  BY DEF Typed, TypeOK, FlowOK, CurRecord

\* A rule's write: the note, its event, and the job its accept may enqueue.
LEMMA RuleWriteTyped ==
  ASSUME Typed, NEW q \in Indexable, NEW c \in Good, NEW queue \in Seq(Jobs),
         Len(queue) <= JobCap, \A x \in Range(queue) : JobOK(x) /\ x.k # "none",
         RuleWrite(q, c, queue)
  PROVE  /\ disk' \in [Path -> Content \cup {Absent}]
         /\ raw' \in Seq(Events) /\ \A x \in Range(raw') : EventOK(x)
         /\ jobs' \in Seq(Jobs) /\ Len(jobs') <= JobCap
         /\ \A x \in Range(jobs') : JobOK(x) /\ x.k # "none"
         /\ live' \subseteq Path /\ pending' \subseteq Path /\ leaked' \subseteq Path
  <1>0. TypeOK /\ q \in Path /\ c \in Content
    BY IndexSyncAssumption DEF Typed, Content
  <1>1. disk' \in [Path -> Content \cup {Absent}]
    BY <1>0, DiskTyped DEF RuleWrite
  <1>2. raw' \in Seq(Events) /\ \A x \in Range(raw') : EventOK(x)
    <2>1. EventOK(Event("modified", q, NoPath))
      BY <1>0, EventsOK
    <2>2. QED
      BY <2>1, RawGrows DEF RuleWrite
  <1>3. live' \subseteq Path /\ pending' \subseteq Path /\ leaked' \subseteq Path
    BY <1>0 DEF RuleWrite, TypeOK
  <1>4. /\ jobs' \in Seq(Jobs) /\ Len(jobs') <= JobCap
        /\ \A x \in Range(jobs') : JobOK(x) /\ x.k # "none"
    <2>1. CASE jobs' = queue
      BY <2>1
    <2>2. CASE Len(queue) < JobCap /\ jobs' = Append(queue, UpsertOf(q))
      <3> DEFINE j == UpsertOf(q)
      <3>1. j.k # "none"
        BY DEF UpsertOf, Job
      <3>2. JobOK(j)
        BY <1>0, JobsOK
      <3>3. jobs' = Append(queue, j)
        BY <2>2
      <3> HIDE DEF j
      <3>4. j \in Jobs
        BY <3>2 DEF JobOK
      <3>5. /\ jobs' \in Seq(Jobs) /\ Len(jobs') = Len(queue) + 1
            /\ Range(jobs') = Range(queue) \cup {j}
        BY <3>3, <3>4, AppendFacts
      <3>6. Len(jobs') <= JobCap
        BY <2>2, <3>5, IndexSyncAssumption
      <3>7. QED
        BY <3>1, <3>2, <3>5, <3>6
    <2>3. QED
      BY <2>1, <2>2 DEF RuleWrite
  <1>5. QED
    BY <1>1, <1>2, <1>3, <1>4

\* Taking a job, one step per kind of job.
LEMMA TakeJobTyped ==
  ASSUME Typed, TakeJob
  PROVE  Typed'
  <1> DEFINE j == Head(jobs)
  <1>0. /\ disk \in [Path -> Content \cup {Absent}] /\ index \in [Path -> Row]
        /\ raw \in Seq(Events) /\ \A x \in Range(raw) : EventOK(x)
        /\ live \subseteq Path /\ pending \subseteq Path /\ lost \subseteq Path
        /\ leaked \subseteq Path /\ ver \in Version /\ cur \in CurRecord /\ CurOK
        /\ scan \in [del : SUBSET Path, up : SUBSET Path, force : BOOLEAN]
        /\ up \in {"loading", "ready", "failed"} /\ trash \subseteq Path \X Content
    BY TypedParts
  <1>1. /\ JobOK(j) /\ UNCHANGED <<bcast, lagged, hand, up>> /\ TypeOK
        /\ Tail(jobs) \in Seq(Jobs) /\ Len(Tail(jobs)) <= JobCap
        /\ \A x \in Range(Tail(jobs)) : JobOK(x) /\ x.k # "none"
    <2> DEFINE t == Tail(jobs)
    <2>1. jobs \in Seq(Jobs) /\ Len(jobs) <= JobCap /\ jobs # <<>>
          /\ \A x \in Range(jobs) : JobOK(x) /\ x.k # "none"
      BY TypedParts DEF TakeJob
    <2>2. t \in Seq(Jobs) /\ Len(t) = Len(jobs) - 1 /\ Range(jobs) = Range(t) \cup {j}
      BY <2>1, TailFacts
    <2>3. Len(t) <= JobCap
      BY <2>1, <2>2, IndexSyncAssumption
    <2>4. UNCHANGED <<bcast, lagged, hand, up>> /\ TypeOK
      BY DEF TakeJob, Typed
    <2> HIDE DEF t, j
    <2>5. QED
      BY <2>1, <2>2, <2>3, <2>4 DEF t
  <1>2. CASE TakeUpsert(j) /\ jobs' = Tail(jobs) /\ UNCHANGED trash
    <2>1. j.p \in Path /\ j.force \in BOOLEAN
      BY <1>1, <1>2 DEF TakeUpsert, JobOK, Jobs
    <2> HIDE DEF j
    <2>2. cur' \in CurRecord /\ cur'.op = "read" /\ cur'.p = j.p /\ ~cur'.reply
      BY <1>2, <2>1, CurShapes DEF TakeUpsert, Upserting, Idle
    <2>3. CurOK'
      BY <1>0, <1>2, <2>1, <2>2 DEF CurOK, TakeUpsert
    <2>4. QED
      BY <1>0, <1>1, <1>2, <2>1, <2>2, <2>3, TypedFromParts DEF TakeUpsert
  <1>3. CASE TakeCreated(j) /\ jobs' = Tail(jobs) /\ UNCHANGED trash
    <2> DEFINE to == InboxTo[j.p]
               p == IF MoveRefused(j.p, to) THEN j.p ELSE to
    <2>1. j.p \in Path /\ to \in Path
      BY <1>1, <1>3, IndexSyncAssumption DEF TakeCreated, JobOK
    <2>2. /\ p \in Path /\ cur' = Upserting(p, FALSE, TRUE) /\ pending' = pending \cup {p}
          /\ UNCHANGED <<ver, scan, app>>
          /\ p = j.p => UNCHANGED <<disk, raw, live, index, lost, leaked>>
          /\ p # j.p => /\ MoveOnDisk(j.p, p) /\ live' = live \cup {j.p, p}
                        /\ leaked' = leaked \cup {j.p}
      BY <1>3, <2>1 DEF TakeCreated
    <2> HIDE DEF p, to, j
    <2>3. cur' \in CurRecord /\ cur'.op = "read" /\ cur'.p = p /\ ~cur'.reply
      BY <2>2, CurShapes DEF Upserting, Idle
    <2>4. CurOK'
      BY <1>0, <2>2, <2>3 DEF CurOK
    <2>5. /\ disk' \in [Path -> Content \cup {Absent}] /\ index' \in [Path -> Row]
          /\ raw' \in Seq(Events) /\ \A x \in Range(raw') : EventOK(x)
          /\ lost' \subseteq Path /\ live' \subseteq Path /\ leaked' \subseteq Path
      <3>1. CASE p = j.p
        BY <1>0, <2>2, <3>1
      <3>2. CASE p # j.p
        BY <1>0, <2>1, <2>2, <3>2, MoveOnDiskTyped
      <3>3. QED
        BY <3>1, <3>2
    <2>6. QED
      BY <1>0, <1>1, <1>3, <2>2, <2>3, <2>4, <2>5, TypedFromParts
  <1>4. CASE TakeDelete(j) /\ jobs' = Tail(jobs) /\ UNCHANGED trash
    <2>1. j.p \in Path
      BY <1>1, <1>4 DEF TakeDelete, JobOK
    <2> HIDE DEF j
    <2>2. index' \in [Path -> Row] /\ lost' \subseteq Path
      <3>1. [index EXCEPT ![j.p] = NoRow] \in [Path -> Row]
        BY <1>1, <2>1, DiskTyped
      <3>2. index' \in [Path -> Row]
        BY <1>0, <1>4, <3>1 DEF TakeDelete, DeleteRow
      <3>3. lost' \subseteq Path
        BY <1>0, <1>4, <2>1 DEF TakeDelete, DeleteRow, Forget
      <3>4. QED
        BY <3>2, <3>3
    <2>3. CurOK'
      BY <1>0, <1>4 DEF CurOK, TakeDelete
    <2>4. QED
      BY <1>0, <1>1, <1>4, <2>2, <2>3, TypedFromParts DEF TakeDelete
  <1>5. CASE TakeRename(j) /\ jobs' = Tail(jobs) /\ UNCHANGED trash
    <2>1. j.p \in Path /\ j.q \in Path \ {j.p}
      BY <1>1, <1>5 DEF TakeRename, JobOK
    <2> HIDE DEF j
    <2>2. /\ index' \in [Path -> Row] /\ lost' \subseteq Path
          /\ cur' \in CurRecord /\ CurOK'
      <3>1. CASE UNCHANGED <<index, cur>>
        BY <1>0, <1>5, <2>1, <3>1 DEF TakeRename, CurOK, Forget
      <3>2. CASE index' = Rekeyed(j.p, j.q) /\ cur' = Sweeping(j.q, FALSE)
        <4>1. cur' \in CurRecord /\ cur'.op = "links" /\ ~cur'.tracked /\ ~cur'.reply
          BY <2>1, <3>2, CurShapes DEF Sweeping, Idle
        <4>2. index' \in [Path -> Row]
          BY <1>1, <2>1, <3>2, DiskTyped
        <4>3. QED
          BY <1>0, <1>5, <2>1, <4>1, <4>2 DEF TakeRename, CurOK, Forget
      <3>3. CASE cur' = Upserting(j.q, FALSE, FALSE) /\ UNCHANGED index
        <4>1. cur' \in CurRecord /\ cur'.op = "read" /\ cur'.p = j.q /\ ~cur'.reply
          BY <2>1, <3>3, CurShapes DEF Upserting, Idle
        <4>2. QED
          BY <1>0, <1>5, <2>1, <3>3, <4>1 DEF TakeRename, CurOK, Forget
      <3>4. QED
        BY <1>5, <3>1, <3>2, <3>3 DEF TakeRename
    <2>3. QED
      BY <1>0, <1>1, <1>5, <2>2, TypedFromParts DEF TakeRename
  <1>6. CASE TakeMove(j) /\ jobs' = Tail(jobs) /\ UNCHANGED trash
    <2>1. j.p \in Path /\ j.q \in Path \ {j.p}
      BY <1>1, <1>6 DEF TakeMove, JobOK
    <2> HIDE DEF j
    <2>2. CASE MoveRefused(j.p, j.q)
      <3>1. CurOK'
        BY <1>0, <1>6, <2>2 DEF TakeMove, CurOK
      <3>2. QED
        BY <1>0, <1>1, <1>6, <2>2, <3>1, TypedFromParts DEF TakeMove
    <2>3. CASE ~MoveRefused(j.p, j.q)
      <3>1. /\ disk' \in [Path -> Content \cup {Absent}] /\ index' \in [Path -> Row]
            /\ raw' \in Seq(Events) /\ \A x \in Range(raw') : EventOK(x)
            /\ lost' \subseteq Path
        BY <1>6, <2>1, <2>3, MoveOnDiskTyped DEF TakeMove
      <3>2. cur' \in CurRecord /\ cur'.op = "links" /\ ~cur'.tracked
        BY <1>6, <2>1, <2>3, CurShapes DEF TakeMove, Sweeping, Idle
      <3>3. CurOK'
        BY <1>0, <1>6, <3>2 DEF CurOK, TakeMove
      <3>4. QED
        BY <1>0, <1>1, <1>6, <2>3, <3>1, <3>2, <3>3, TypedFromParts DEF TakeMove
    <2>4. QED
      BY <2>2, <2>3
  <1>7. CASE TakeScan(j) /\ jobs' = Tail(jobs) /\ UNCHANGED trash
    <2>1. j.force \in BOOLEAN
      BY <1>1 DEF JobOK, Jobs
    <2> HIDE DEF j
    <2>2. /\ scan' \in [del : SUBSET Path, up : SUBSET Path, force : BOOLEAN]
          /\ scan'.up \subseteq Indexable
      <3>1. CASE scan' = NoScan
        BY <3>1 DEF NoScan
      <3>2. ASSUME NEW seen \in SUBSET {x \in Indexable : disk[x] # Absent},
                   scan' = [del |-> {x \in Path : HasRow(x)} \ seen, up |-> seen, force |-> j.force]
            PROVE  /\ scan' \in [del : SUBSET Path, up : SUBSET Path, force : BOOLEAN]
                   /\ scan'.up \subseteq Indexable
        BY <2>1, <3>2, IndexSyncAssumption
      <3>3. QED
        BY <1>7, <3>1, <3>2 DEF TakeScan
    <2>3. CurOK'
      BY <1>0, <1>7, <2>2 DEF CurOK, TakeScan
    <2>4. pending' \subseteq Path /\ lost' \subseteq Path
      BY <1>0, <1>7, <2>2 DEF TakeScan
    <2>5. QED
      BY <1>0, <1>1, <1>7, <2>2, <2>3, <2>4, TypedFromParts DEF TakeScan
  <1>8. CASE TakeReload(j) /\ jobs' = Tail(jobs) /\ UNCHANGED trash
    <2>1. /\ ver' \in Version /\ cur' \in CurRecord /\ index' \in [Path -> Row]
      <3>1. CASE UNCHANGED <<ver, cur, index>>
        BY <1>0, <3>1
      <3>2. CASE /\ ver' \in Version \ {ver} /\ cur' = [Idle EXCEPT !.op = "sendscan"]
                 /\ index' \in {index, [p \in Path |-> IF HasRow(p) THEN [index[p] EXCEPT !.ver = Absent]
                                                       ELSE NoRow]}
        <4>1. \A p \in Path : [index[p] EXCEPT !.ver = Absent] \in Row /\ NoRow \in Row
          BY <1>0 DEF Row, NoRow
        <4>2. cur' \in CurRecord
          BY <3>2 DEF CurRecord, Idle
        <4>3. index' \in [Path -> Row]
          BY <1>0, <3>2, <4>1
        <4>4. QED
          BY <3>2, <4>2, <4>3
      <3>3. QED
        BY <1>8, <3>1, <3>2 DEF TakeReload
    <2>2. CurOK'
      BY <1>0, <1>8 DEF CurOK, TakeReload, Idle
    <2> HIDE DEF j
    <2>3. QED
      BY <1>0, <1>1, <1>8, <2>1, <2>2, TypedFromParts DEF TakeReload
  <1>9. CASE TakeTrash(j) /\ jobs' = Tail(jobs)
    <2>1. j.p \in Path
      BY <1>1, <1>9 DEF TakeTrash, JobOK
    <2>2. EventOK(Event("deleted", j.p, NoPath))
      BY <2>1, EventsOK
    <2> HIDE DEF j
    <2>3. /\ disk' \in [Path -> Content \cup {Absent}] /\ index' \in [Path -> Row]
          /\ raw' \in Seq(Events) /\ \A x \in Range(raw') : EventOK(x)
          /\ trash' \subseteq Path \X Content
      <3>1. CASE disk[j.p] = Absent
        BY <1>0, <1>9, <3>1 DEF TakeTrash
      <3>2. CASE disk[j.p] # Absent
        <4>1. disk' \in [Path -> Content \cup {Absent}] /\ index' \in [Path -> Row]
          <5>1. NoRow \in Row
            BY DEF NoRow, Row
          <5>2. QED
            BY <1>0, <1>9, <2>1, <3>2, <5>1 DEF TakeTrash
        <4>2. raw' \in Seq(Events) /\ \A x \in Range(raw') : EventOK(x)
          BY <1>9, <2>2, <3>2, RawGrows DEF TakeTrash
        <4>3. trash' \subseteq Path \X Content
          BY <1>0, <1>9, <2>1, <3>2 DEF TakeTrash
        <4>4. QED
          BY <4>1, <4>2, <4>3
      <3>3. QED
        BY <3>1, <3>2
    <2>4. CurOK'
      BY <1>0, <1>9 DEF CurOK, TakeTrash
    <2>5. QED
      BY <1>0, <1>1, <1>9, <2>3, <2>4, TypedFromParts DEF TakeTrash
  <1>10. CASE TakeRestore(j) /\ jobs' = Tail(jobs)
    <2>1. j.p \in Path /\ j.q \in Content
      BY <1>1, <1>10 DEF TakeRestore, JobOK
    <2>2. EventOK(Event("created", j.p, NoPath))
      BY <2>1, EventsOK
    <2> HIDE DEF j
    <2>3. CASE disk[j.p] # Absent
      <3>1. CurOK'
        BY <1>0, <1>10, <2>3 DEF TakeRestore, CurOK
      <3>2. QED
        BY <1>0, <1>1, <1>10, <2>3, <3>1, TypedFromParts DEF TakeRestore
    <2>4. CASE disk[j.p] = Absent
      <3>1. disk' \in [Path -> Content \cup {Absent}]
        BY <1>0, <1>10, <2>1, <2>4 DEF TakeRestore
      <3>2. raw' \in Seq(Events) /\ \A x \in Range(raw') : EventOK(x)
        BY <1>10, <2>2, <2>4, RawGrows DEF TakeRestore
      <3>3. cur' \in CurRecord /\ cur'.op = "read" /\ cur'.p = j.p /\ ~cur'.tracked
        BY <1>10, <2>1, <2>4 DEF TakeRestore, Upserting, Idle, CurRecord
      <3>4. CurOK'
        BY <1>0, <1>10, <2>1, <3>3 DEF CurOK, TakeRestore
      <3>5. trash' \subseteq Path \X Content
        BY <1>0, <1>10, <2>4 DEF TakeRestore
      <3>6. QED
        BY <1>0, <1>1, <1>10, <2>4, <3>1, <3>2, <3>3, <3>4, <3>5, TypedFromParts DEF TakeRestore
    <2>5. QED
      BY <2>3, <2>4
  <1>11. CASE TakeSweep(j) /\ UNCHANGED trash
    <2> DEFINE t == Tail(jobs)
    <2> HIDE DEF j
    <2>1. CurOK'
      BY <1>0, <1>11 DEF CurOK, TakeSweep
    <2>2. CASE UNCHANGED <<disk, raw, live, pending, leaked>> /\ jobs' = t
      BY <1>0, <1>1, <1>11, <2>1, <2>2, TypedFromParts DEF TakeSweep
    <2>3. ASSUME NEW q \in Indexable, NEW c \in Good, RuleWrite(q, c, t)
          PROVE  Typed'
      <3>1. t \in Seq(Jobs) /\ Len(t) <= JobCap /\ \A x \in Range(t) : JobOK(x) /\ x.k # "none"
        BY <1>1
      <3> HIDE DEF t
      <3>2. /\ disk' \in [Path -> Content \cup {Absent}]
            /\ raw' \in Seq(Events) /\ \A x \in Range(raw') : EventOK(x)
            /\ jobs' \in Seq(Jobs) /\ Len(jobs') <= JobCap
            /\ \A x \in Range(jobs') : JobOK(x) /\ x.k # "none"
            /\ live' \subseteq Path /\ pending' \subseteq Path /\ leaked' \subseteq Path
        BY <2>3, <3>1, RuleWriteTyped
      <3>3. QED
        BY <1>0, <1>1, <1>11, <2>1, <3>2, TypedFromParts DEF TakeSweep
    <2>4. QED
      BY <1>11, <2>2, <2>3 DEF TakeSweep
  <1>12. QED
    BY <1>2, <1>3, <1>4, <1>5, <1>6, <1>7, <1>8, <1>9, <1>10, <1>11 DEF TakeJob

\* The other steps of the task, and the end of the process.
LEMMA WorkTyped ==
  ASSUME Typed,
         \/ LoadModel \/ DrainOnFailure \/ ScanStep \/ Read \/ Store \/ UpsertFails
         \/ LinksDone \/ SelfSend
         \/ \E r \in Path, c \in Good : Rewrite(r, c)
  PROVE  Typed'
  <1>0. /\ disk \in [Path -> Content \cup {Absent}] /\ index \in [Path -> Row]
        /\ raw \in Seq(Events) /\ \A x \in Range(raw) : EventOK(x)
        /\ jobs \in Seq(Jobs) /\ Len(jobs) <= JobCap
        /\ \A x \in Range(jobs) : JobOK(x) /\ x.k # "none"
        /\ live \subseteq Path /\ pending \subseteq Path /\ lost \subseteq Path
        /\ leaked \subseteq Path /\ ver \in Version /\ cur \in CurRecord /\ CurOK
        /\ scan \in [del : SUBSET Path, up : SUBSET Path, force : BOOLEAN]
        /\ up \in {"loading", "ready", "failed"} /\ trash \subseteq Path \X Content
    BY TypedParts
  <1>t. TypeOK /\ Idle \in CurRecord /\ Good \subseteq Content /\ NoRow \in Row
    BY CurShapes DEF Typed, Content, NoRow, Row
  <1>1. CASE LoadModel
    <2>1. CurOK'
      BY <1>0, <1>1 DEF LoadModel, CurOK
    <2>2. QED
      BY <1>0, <1>1, <2>1, TypedFromParts DEF LoadModel, pipe
  <1>2. CASE DrainOnFailure
    <2>1. CurOK'
      BY <1>0, <1>2 DEF DrainOnFailure, CurOK
    <2> DEFINE h == Head(jobs)
    <2>2. /\ jobs' \in Seq(Jobs) /\ Len(jobs') <= JobCap /\ JobOK(h)
          /\ \A x \in Range(jobs') : JobOK(x) /\ x.k # "none"
      BY <1>2, JobsShrink DEF DrainOnFailure
    <2>3. leaked' = leaked \cup Tracked(h)
      BY <1>2 DEF DrainOnFailure
    <2> HIDE DEF h
    <2>4. leaked' \subseteq Path
      BY <1>0, <2>2, <2>3, TrackedPaths
    <2>5. QED
      BY <1>0, <1>2, <2>1, <2>2, <2>4, TypedFromParts DEF DrainOnFailure, pipe
  <1>3. CASE ScanStep
    <2>1. ASSUME NEW p \in scan.del, scan' = [scan EXCEPT !.del = @ \ {p}], DeleteRow(p),
                 UNCHANGED <<cur, pending>>
          PROVE  Typed'
      <3>1. p \in Path /\ index' \in [Path -> Row] /\ lost' \subseteq Path
        BY <1>0, <1>t, <2>1 DEF DeleteRow, Forget
      <3>2. CurOK' /\ scan' \in [del : SUBSET Path, up : SUBSET Path, force : BOOLEAN]
        BY <1>0, <2>1 DEF CurOK
      <3>3. QED
        BY <1>0, <1>3, <2>1, <3>1, <3>2, TypedFromParts DEF ScanStep, pipe
    <2>2. ASSUME NEW p \in scan.up, scan' = [scan EXCEPT !.up = @ \ {p}],
                 cur' = Upserting(p, scan.force, TRUE), pending' = pending \cup {p},
                 UNCHANGED <<index, lost>>
          PROVE  Typed'
      <3>1. p \in Path /\ scan.force \in BOOLEAN
        BY <1>0
      <3>2. /\ cur' \in CurRecord /\ cur'.op = "read" /\ cur'.p = p /\ ~cur'.reply
            /\ pending' \subseteq Path
        BY <1>0, <2>2, <3>1, CurShapes DEF Upserting, Idle
      <3>3. CurOK' /\ scan' \in [del : SUBSET Path, up : SUBSET Path, force : BOOLEAN]
        BY <1>0, <2>2, <3>1, <3>2 DEF CurOK
      <3>4. QED
        BY <1>0, <1>3, <2>2, <3>2, <3>3, TypedFromParts DEF ScanStep, pipe
    <2>3. QED
      BY <1>3, <2>1, <2>2 DEF ScanStep
  <1>d. ASSUME Done, UNCHANGED scan
        PROVE  /\ cur' \in CurRecord /\ CurOK' /\ (app' = app \/ app' = Replied)
               /\ pending' \subseteq Path /\ leaked' \subseteq Path
    BY <1>0, <1>t, <1>d DEF Done, CurOK, Idle
  <1>4. CASE Read
    <2>0. /\ cur.p \in Path /\ cur.op = "read"
          /\ UNCHANGED <<disk, raw, pipe, jobs, ver, scan, up, trash, steps, crashes>>
      BY <1>0, <1>4 DEF Read, CurOK
    <2>1. index' \in [Path -> Row] /\ lost' \subseteq Path
      <3>1. [index[cur.p] EXCEPT !.skipped = TRUE] \in Row
        BY <1>0, <2>0 DEF Row
      <3>2. [index EXCEPT ![cur.p].skipped = TRUE] \in [Path -> Row]
        BY <1>0, <2>0, <3>1
      <3>3. [index EXCEPT ![cur.p] = NoRow] \in [Path -> Row]
        BY <1>0, <1>t, <2>0
      <3>4. lost' \in {lost, lost \cup {cur.p}, lost \ {cur.p}}
        BY <1>4 DEF Read
      <3>5. index' \in {index, [index EXCEPT ![cur.p].skipped = TRUE], [index EXCEPT ![cur.p] = NoRow]}
        BY <1>4 DEF Read
      <3>6. QED
        BY <1>0, <2>0, <3>2, <3>3, <3>4, <3>5
    <2>2. CASE Done
      BY <1>0, <1>d, <2>0, <2>1, <2>2, TypedFromParts DEF pipe
    <2>3. CASE ~Done
      <3>1. /\ cur.p \in Indexable /\ disk[cur.p] \in Good
            /\ cur' = [cur EXCEPT !.op = "store", !.val = disk[cur.p]]
            /\ UNCHANGED <<pending, leaked, app>>
        BY <1>0, <1>4, <2>0, <2>3, IndexSyncAssumption DEF Read, Content
      <3>2. /\ cur'.op = "store" /\ cur'.p = cur.p /\ cur'.val = disk[cur.p]
            /\ cur'.reply = cur.reply /\ cur'.tracked = cur.tracked /\ cur' \in CurRecord
        BY <1>0, <1>t, <3>1 DEF CurRecord
      <3>3. CurOK'
        BY <1>0, <2>0, <3>1, <3>2 DEF CurOK
      <3>4. QED
        BY <1>0, <2>0, <2>1, <3>1, <3>2, <3>3, TypedFromParts DEF pipe
    <2>4. QED
      BY <2>2, <2>3
  <1>5. CASE Store
    <2>0. /\ cur.p \in Path /\ cur.val \in Content
          /\ UNCHANGED <<bcast, lagged, hand, ver, scan, up, trash, lost>>
      BY <1>0, <1>t, <1>5 DEF Store, CurOK
    <2>1. index' \in [Path -> Row]
      <3>1. [hash |-> cur.val, ver |-> ver, skipped |-> FALSE] \in Row
        BY <1>0, <2>0 DEF Row
      <3>2. QED
        BY <1>0, <1>5, <2>0, <3>1 DEF Store, Stored
    <2>2. CASE Done /\ UNCHANGED <<disk, raw, live, jobs>>
      BY <1>0, <1>d, <2>0, <2>1, <2>2, TypedFromParts
    <2>3. ASSUME cur' = Idle, UNCHANGED app,
                 NEW q \in Indexable, NEW c \in Good, RuleWrite(q, c, jobs)
          PROVE  Typed'
      <3>1. CurOK'
        BY <1>0, <2>0, <2>3 DEF CurOK, Idle
      <3>2. /\ disk' \in [Path -> Content \cup {Absent}]
            /\ raw' \in Seq(Events) /\ \A x \in Range(raw') : EventOK(x)
            /\ jobs' \in Seq(Jobs) /\ Len(jobs') <= JobCap
            /\ \A x \in Range(jobs') : JobOK(x) /\ x.k # "none"
            /\ live' \subseteq Path /\ pending' \subseteq Path /\ leaked' \subseteq Path
        BY <1>0, <2>3, RuleWriteTyped
      <3>3. QED
        BY <1>0, <1>t, <2>0, <2>1, <2>3, <3>1, <3>2, TypedFromParts
    <2>4. QED
      BY <1>5, <2>2, <2>3 DEF Store
  <1>6. CASE LinksDone
    <2>1. CurOK'
      BY <1>0, <1>6 DEF LinksDone, CurOK, Idle
    <2>2. QED
      BY <1>0, <1>t, <1>6, <2>1, TypedFromParts DEF LinksDone, pipe
  <1>7. CASE SelfSend
    <2>1. CASE cur.op = "sendlink" /\ jobs' = Append(jobs, UpsertOf(cur.p))
               /\ cur' = [cur EXCEPT !.op = "links", !.p = NoPath]
      <3> DEFINE j == UpsertOf(cur.p)
      <3>0. cur.p \in Path
        BY <1>0, <2>1 DEF CurOK
      <3>1. JobOK(j)
        BY <3>0, JobsOK
      <3>2. j.k # "none"
        BY DEF UpsertOf, Job
      <3>3. jobs' = Append(jobs, j) /\ HasRoom
        BY <1>7, <2>1 DEF SelfSend
      <3> HIDE DEF j
      <3>4. /\ jobs' \in Seq(Jobs) /\ Len(jobs') <= JobCap
            /\ \A x \in Range(jobs') : JobOK(x) /\ x.k # "none"
        BY <3>1, <3>2, <3>3, JobsGrow
      <3>5. cur' \in CurRecord /\ CurOK'
        BY <1>0, <1>7, <2>1 DEF CurRecord, CurOK, SelfSend
      <3>6. QED
        BY <1>0, <1>7, <3>4, <3>5, TypedFromParts DEF SelfSend, pipe
    <2>2. CASE jobs' = Append(jobs, FullScan(TRUE)) /\ cur' = Idle
      <3> DEFINE j == FullScan(TRUE)
      <3>1. JobOK(j)
        BY JobsOK
      <3>2. j.k # "none"
        BY DEF FullScan, Job
      <3>3. jobs' = Append(jobs, j) /\ HasRoom
        BY <1>7, <2>2 DEF SelfSend
      <3> HIDE DEF j
      <3>4. /\ jobs' \in Seq(Jobs) /\ Len(jobs') <= JobCap
            /\ \A x \in Range(jobs') : JobOK(x) /\ x.k # "none"
        BY <3>1, <3>2, <3>3, JobsGrow
      <3>5. cur' \in CurRecord /\ CurOK'
        BY <1>0, <1>t, <1>7, <2>2 DEF CurOK, SelfSend, Idle
      <3>6. QED
        BY <1>0, <1>7, <3>4, <3>5, TypedFromParts DEF SelfSend, pipe
    <2>3. QED
      BY <1>7, <2>1, <2>2 DEF SelfSend
  <1>8. ASSUME NEW r \in Path, NEW c \in Good, Rewrite(r, c)
        PROVE  Typed'
    <2>1. disk' \in [Path -> Content \cup {Absent}]
      BY <1>0, <1>t, <1>8 DEF Rewrite
    <2>2. raw' \in Seq(Events) /\ \A x \in Range(raw') : EventOK(x)
      <3>1. EventOK(Event("modified", r, NoPath))
        BY EventsOK
      <3>2. QED
        BY <1>8, <3>1, RawGrows DEF Rewrite
    <2>3. cur' \in CurRecord /\ CurOK'
      BY <1>0, <1>8 DEF Rewrite, CurRecord, CurOK
    <2>4. live' \subseteq Path /\ pending' \subseteq Path
      BY <1>0, <1>8 DEF Rewrite
    <2>5. QED
      BY <1>0, <1>8, <2>1, <2>2, <2>3, <2>4, TypedFromParts DEF Rewrite
  <1>9. CASE UpsertFails
    <2>0. /\ cur.p \in Path /\ Done /\ index' \in {index, Stored} /\ Forget({cur.p})
          /\ cur.op = "store" => cur.val \in Content
          /\ cur.op = "read" => index' = index
          /\ UNCHANGED <<disk, raw, pipe, jobs, ver, scan, up, trash>>
      BY <1>0, <1>t, <1>9 DEF UpsertFails, CurOK
    <2>1. index' \in [Path -> Row]
      <3>1. CASE cur.op = "store"
        <4>1. [hash |-> cur.val, ver |-> ver, skipped |-> FALSE] \in Row
          BY <1>0, <2>0, <3>1 DEF Row
        <4>2. QED
          BY <1>0, <2>0, <4>1 DEF Stored
      <3>2. QED
        BY <1>0, <1>9, <2>0, <3>1 DEF UpsertFails
    <2>2. lost' \subseteq Path
      BY <1>0, <2>0 DEF Forget
    <2>3. QED
      BY <1>0, <1>d, <2>0, <2>1, <2>2, TypedFromParts DEF pipe
  <1>10. QED
    BY <1>1, <1>2, <1>3, <1>4, <1>5, <1>6, <1>7, <1>8, <1>9

\* One job, the scan, in the queue of a task that starts.
LEMMA StartQueue ==
  /\ <<FullScan(FALSE)>> \in Seq(Jobs) /\ Len(<<FullScan(FALSE)>>) <= JobCap
  /\ Range(<<FullScan(FALSE)>>) = {FullScan(FALSE)}
  /\ JobOK(FullScan(FALSE)) /\ FullScan(FALSE).k = "scan"
  <1> DEFINE j == FullScan(FALSE)
  <1>1. JobOK(j) /\ j.k = "scan"
    BY JobsOK DEF FullScan, Job
  <1>2. j \in Jobs
    BY <1>1 DEF JobOK
  <1> HIDE DEF j
  <1>3. <<j>> \in Seq(Jobs) /\ Len(<<j>>) = 1
    BY <1>2
  <1>4. Range(<<j>>) = {j}
    <2> DEFINE s == <<j>>
    <2>1. Range(s) = {s[i] : i \in 1..Len(s)} /\ Len(s) = 1 /\ s[1] = j
      BY <1>3, RangeEquality
    <2> HIDE DEF s
    <2>2. Range(s) = {j}
      BY <2>1
    <2>3. QED
      BY <2>2 DEF s
  <1>5. Len(<<j>>) <= JobCap
    BY <1>3, IndexSyncAssumption
  <1>6. QED
    BY <1>1, <1>3, <1>4, <1>5 DEF j

\* A fresh start, and a restart, are typed.
LEMMA StartTyped ==
  /\ Init => Typed
  /\ Typed /\ Restart => Typed'
  <1>0. /\ Idle \in CurRecord /\ NoScan \in [del : SUBSET Path, up : SUBSET Path, force : BOOLEAN]
        /\ NoScan.up = {} /\ Idle.op = "idle" /\ ~Idle.tracked /\ ~Idle.reply
    BY CurShapes DEF NoScan, Idle
  <1>1. /\ NoApp \in [at : {"idle", "send", "wait", "replied"}, job : Jobs]
        /\ JobOK(NoApp.job) /\ NoApp.at = "idle"
        /\ JobOK(NoJob) /\ NoJob \in Jobs /\ NoJob.k \notin Awaited
    BY JobsOK DEF NoApp, JobOK, NoJob, Job, Awaited
  <1>2. <<>> \in Seq(Events) /\ Len(<<>>) <= EventCap /\ \A x \in Range(<<>>) : FALSE
    <2>1. <<>> \in Seq(Events) /\ Len(<<>>) = 0
      OBVIOUS
    <2>2. Range(<<>>) = {}
      BY <2>1, EmptyRange
    <2>3. QED
      BY <2>1, <2>2, IndexSyncAssumption
  <1>3. NoRow \in Row /\ (CHOOSE v \in Version : TRUE) \in Version
    BY IndexSyncAssumption DEF NoRow, Row
  <1>4. ASSUME Init
        PROVE  Typed
    <2>1. disk \in [Path -> Content \cup {Absent}]
      BY <1>4, IndexSyncAssumption DEF Init, Content
    <2>2. TypeOK
      BY <1>0, <1>1, <1>2, <1>3, <1>4, <2>1, StartQueue DEF Init, TypeOK, CurRecord
    <2>3. FlowOK
      BY <1>1, <1>2, <1>4, StartQueue DEF Init, FlowOK
    <2>4. CurOK
      BY <1>0, <1>4 DEF Init, CurOK
    <2>5. QED
      BY <2>2, <2>3, <2>4 DEF Typed
  <1>5. ASSUME Typed, Restart
        PROVE  Typed'
    <2>1. TypeOK'
      BY <1>0, <1>1, <1>2, <1>5, StartQueue DEF Restart, Typed, TypeOK, CurRecord
    <2>2. FlowOK'
      BY <1>1, <1>2, <1>5, StartQueue DEF Restart, FlowOK
    <2>3. CurOK'
      BY <1>0, <1>5 DEF Restart, CurOK
    <2>4. QED
      BY <2>1, <2>2, <2>3 DEF Typed
  <1>6. QED
    BY <1>4, <1>5

\* Every step keeps the typing.
LEMMA StepTyped ==
  ASSUME Typed, [Next]_vars
  PROVE  Typed'
  <1>1. CASE Environment
    BY <1>1, OutsideTyped, HostTyped, StartTyped DEF Environment
  <1>2. CASE Pipeline
    BY <1>2, PipelineTyped
  <1>3. CASE Indexer
    BY <1>3, TakeJobTyped, WorkTyped DEF Indexer
  <1>4. CASE UNCHANGED vars
    BY <1>4 DEF vars, pipe, task, Typed, TypeOK, FlowOK, CurOK
  <1>5. QED
    BY <1>1, <1>2, <1>3, <1>4 DEF Next

\* The pipeline's state keeps its type, and neither queue outgrows its capacity:
\* the broadcast drops its oldest event (tokio's), the job queue makes its
\* senders wait.
THEOREM PipelineKeepsType == Spec => []TypeOK
  <1>1. Typed => TypeOK
    BY DEF Typed
  <1>2. Init => Typed
    BY StartTyped
  <1>3. Typed /\ [Next]_vars => Typed'
    BY StepTyped
  <1>4. QED
    BY <1>1, <1>2, <1>3, PTL DEF Spec

-----------------------------------------------------------------------------
\* The Queued markers.

\* The markers of the jobs in a queue, and of the work in progress.
JobMarks(s) == UNION {Tracked(j) : j \in Range(s)}
CurMarks == {x \in {cur.p} : cur.tracked \/ cur.op = "sendlink"}

MarkersOK == pending \subseteq Marked \cup leaked

\* A job takes its markers with it, into the queue and out of it.
LEMMA MarksOfQueues ==
  ASSUME Typed
  PROVE  /\ \A j \in Jobs : JobMarks(Append(jobs, j)) = JobMarks(jobs) \cup Tracked(j)
         /\ jobs # <<>> => JobMarks(jobs) = JobMarks(Tail(jobs)) \cup Tracked(Head(jobs))
         /\ jobs # <<>> => \A j \in Jobs :
              JobMarks(Append(Tail(jobs), j)) = JobMarks(Tail(jobs)) \cup Tracked(j)
  <1>0. jobs \in Seq(Jobs)
    BY DEF Typed, TypeOK
  <1>1. ASSUME NEW s \in Seq(Jobs), NEW j \in Jobs
        PROVE  JobMarks(Append(s, j)) = JobMarks(s) \cup Tracked(j)
    <2> DEFINE t == Append(s, j)
    <2>1. Range(t) = Range(s) \cup {j}
      BY AppendFacts
    <2> HIDE DEF t
    <2>2. JobMarks(t) = JobMarks(s) \cup Tracked(j)
      BY <2>1 DEF JobMarks
    <2>3. QED
      BY <2>2 DEF t
  <1>2. ASSUME jobs # <<>>
        PROVE  /\ JobMarks(jobs) = JobMarks(Tail(jobs)) \cup Tracked(Head(jobs))
               /\ Tail(jobs) \in Seq(Jobs)
    <2> DEFINE t == Tail(jobs)
               h == Head(jobs)
    <2>1. Range(jobs) = Range(t) \cup {h} /\ t \in Seq(Jobs)
      BY <1>0, <1>2, TailFacts
    <2> HIDE DEF t, h
    <2>2. JobMarks(jobs) = JobMarks(t) \cup Tracked(h)
      BY <2>1 DEF JobMarks
    <2>3. QED
      BY <2>1, <2>2 DEF t, h
  <1>3. QED
    BY <1>0, <1>1, <1>2

\* What Marked is made of.
LEMMA MarkedParts ==
  Marked = CurMarks \cup scan.up \cup Tracked(hand) \cup Tracked(app.job) \cup JobMarks(jobs)
  BY DEF Marked, CurMarks, JobMarks

\* The markers of the jobs whose shape is known.
LEMMA TrackedOf ==
  /\ Tracked(NoJob) = {} /\ \A f : Tracked(FullScan(f)) = {}
  /\ \A p : Tracked(UpsertOf(p)) = {p} /\ Tracked(Job("created", p, NoPath, FALSE)) = {p}
  /\ \A j : j.k \notin {"upsert", "created"} => Tracked(j) = {}
  BY DEF Tracked, NoJob, FullScan, UpsertOf, Job

\* A rule's write marks the note it wrote, and enqueues it or leaks the marker.
LEMMA RuleMarks ==
  ASSUME Typed, NEW q \in Indexable, NEW c, NEW queue \in Seq(Jobs), RuleWrite(q, c, queue),
         pending \subseteq {cur.p} \cup JobMarks(queue) \cup CurMarks \cup scan.up
                           \cup Tracked(hand) \cup Tracked(app.job) \cup leaked
  PROVE  pending' \subseteq JobMarks(jobs') \cup (CurMarks \ {cur.p}) \cup scan.up
                            \cup Tracked(hand) \cup Tracked(app.job) \cup leaked'
  <1>1. CASE jobs' = queue /\ leaked' = (leaked \ {cur.p}) \cup {q}
    BY <1>1 DEF RuleWrite
  <1>2. CASE jobs' = Append(queue, UpsertOf(q)) /\ leaked' = leaked \ {cur.p}
    <2> DEFINE j == UpsertOf(q)
               u == Append(queue, j)
    <2>1. JobOK(j) /\ Tracked(j) = {q}
      BY JobsOK, TrackedOf, IndexSyncAssumption
    <2>2. j \in Jobs
      BY <2>1 DEF JobOK
    <2>3. Range(u) = Range(queue) \cup {j}
      BY <2>2, AppendFacts
    <2>4. jobs' = u
      BY <1>2
    <2> HIDE DEF j, u
    <2>5. JobMarks(u) = JobMarks(queue) \cup {q}
      BY <2>1, <2>3 DEF JobMarks
    <2>6. QED
      BY <1>2, <2>4, <2>5 DEF RuleWrite
  <1>3. QED
    BY <1>1, <1>2 DEF RuleWrite

\* Taking a job: its marker goes to the work, to the scan, or out.
LEMMA TakeMarks ==
  ASSUME Typed, MarkersOK, TakeJob
  PROVE  MarkersOK'
  <1> DEFINE j == Head(jobs)
             t == Tail(jobs)
  <1>0. /\ TypeOK /\ CurOK /\ cur = Idle /\ CurMarks = {} /\ scan.up = {} /\ jobs # <<>>
        /\ cur.p = NoPath
    BY DEF Typed, TakeJob, CurMarks, Idle
  <1>1. pending \subseteq JobMarks(t) \cup Tracked(j) \cup Tracked(hand) \cup Tracked(app.job) \cup leaked
    BY <1>0, MarkedParts, MarksOfQueues DEF MarkersOK
  <1>2. /\ t \in Seq(Jobs) /\ UNCHANGED hand
    BY <1>0, TailFacts DEF TypeOK, TakeJob
  <1>3. Replied.job = app.job
    BY RepliedTyped
  <1>4. SUFFICES pending' \subseteq CurMarks' \cup scan'.up \cup Tracked(hand') \cup Tracked(app'.job)
                                    \cup JobMarks(jobs') \cup leaked'
    BY DEF MarkersOK, Marked, CurMarks, JobMarks
  <1>5. CASE TakeUpsert(j) /\ jobs' = t
    <2> HIDE DEF j, t
    <2>1. CurMarks' = {j.p} /\ Tracked(j) = {j.p}
      BY <1>5 DEF TakeUpsert, CurMarks, Upserting, Idle, Tracked
    <2>2. QED
      BY <1>1, <1>2, <1>5, <2>1 DEF TakeUpsert
  <1>6. CASE TakeCreated(j) /\ jobs' = t
    <2> DEFINE to == InboxTo[j.p]
               p == IF MoveRefused(j.p, to) THEN j.p ELSE to
    <2>1. /\ cur' = Upserting(p, FALSE, TRUE) /\ pending' = pending \cup {p}
          /\ UNCHANGED <<scan, app>>
          /\ p = j.p => UNCHANGED leaked
          /\ p # j.p => leaked' = leaked \cup {j.p}
      BY <1>6 DEF TakeCreated
    <2>2. Tracked(j) = {j.p}
      BY <1>6 DEF TakeCreated, Tracked
    <2> HIDE DEF p, to, j, t
    <2>3. CurMarks' = {p}
      BY <2>1 DEF CurMarks, Upserting, Idle
    <2>4. QED
      BY <1>1, <1>2, <1>6, <2>1, <2>2, <2>3
  <1>7. CASE (TakeDelete(j) \/ TakeRename(j) \/ TakeMove(j) \/ TakeReload(j) \/ TakeTrash(j)
              \/ TakeRestore(j)) /\ jobs' = t
    <2>1. UNCHANGED <<pending, leaked, scan>> /\ Tracked(j) = {}
      BY <1>7 DEF TakeDelete, TakeRename, TakeMove, TakeReload, TakeTrash, TakeRestore, Tracked
    <2>2. app' = app \/ app' = Replied
      BY <1>7 DEF TakeDelete, TakeRename, TakeMove, TakeReload, TakeTrash, TakeRestore
    <2> HIDE DEF j, t
    <2>3. QED
      BY <1>1, <1>2, <1>3, <1>7, <2>1, <2>2
  <1>8. CASE TakeScan(j) /\ jobs' = t
    <2>1. Tracked(j) = {} /\ UNCHANGED <<app, leaked>> /\ pending' = pending \cup scan'.up
      BY <1>8 DEF TakeScan, Tracked
    <2> HIDE DEF j, t
    <2>2. QED
      BY <1>1, <1>2, <1>8, <2>1
  <1>9. CASE TakeSweep(j)
    <2>1. Tracked(j) = {} /\ UNCHANGED <<app, scan>>
      BY <1>9 DEF TakeSweep, Tracked
    <2>2. CASE UNCHANGED <<pending, leaked>> /\ jobs' = t
      BY <1>1, <1>2, <2>1, <2>2
    <2>3. ASSUME NEW q \in Indexable, NEW c \in Good, RuleWrite(q, c, t)
          PROVE  pending' \subseteq JobMarks(jobs') \cup Tracked(hand') \cup Tracked(app'.job) \cup leaked'
      <3> HIDE DEF j, t
      <3>1. pending \subseteq {cur.p} \cup JobMarks(t) \cup CurMarks \cup scan.up
                           \cup Tracked(hand) \cup Tracked(app.job) \cup leaked
        BY <1>1, <2>1
      <3>2. QED
        BY <1>0, <1>2, <2>1, <2>3, <3>1, RuleMarks
    <2>4. QED
      BY <1>9, <2>2, <2>3 DEF TakeSweep
  <1>10. QED
    BY <1>5, <1>6, <1>7, <1>8, <1>9 DEF TakeJob

\* Each step of the pipeline keeps every marker with its job.
LEMMA StepMarks ==
  ASSUME Typed, MarkersOK, [Next]_vars
  PROVE  MarkersOK'
  <1>0. TypeOK /\ FlowOK /\ CurOK
    BY DEF Typed
  <1>g. SUFFICES pending' \subseteq CurMarks' \cup scan'.up \cup Tracked(hand') \cup Tracked(app'.job)
                                    \cup JobMarks(jobs') \cup leaked'
    BY DEF MarkersOK, Marked, CurMarks, JobMarks
  <1>p. pending \subseteq CurMarks \cup scan.up \cup Tracked(hand) \cup Tracked(app.job)
                          \cup JobMarks(jobs) \cup leaked
    BY MarkedParts DEF MarkersOK
  <1>r. Replied.job = app.job
    BY RepliedTyped
  <1>1. CASE UNCHANGED <<cur, scan, hand, app, jobs, pending, leaked>>
    BY <1>p, <1>1 DEF CurMarks, JobMarks
  <1>2. ASSUME NEW name, NEW j, NEW s, NEW d, NEW r, Request(name, j, s, d, r)
        PROVE  MarkersOK'
    <2>1. UNCHANGED <<cur, scan, hand, jobs, leaked>> /\ app'.job = j
          /\ pending' = pending \cup Tracked(j) /\ Tracked(app.job) = {}
      BY <1>2, TrackedOf DEF Request, task, NoApp
    <2>2. QED
      BY <1>p, <2>1 DEF MarkersOK, Marked, CurMarks, JobMarks
  <1>3. CASE Environment
    <2>1. CASE \/ \E p \in Path, c \in Content : Write(p, c) \/ PanelRestore(p, c)
               \/ \E p, q \in Path : Rename(p, q)
               \/ \E p \in Path : Remove(p) \/ Expire(p)
      BY <1>1, <2>1 DEF Write, PanelRestore, Rename, Remove, Expire, task, pipe
    <2>2. CASE Restart
      BY <2>2 DEF Restart
    <2>3. CASE \/ \E p \in Path, c \in Content : CreateAt(p, c) \/ RestoreNote(p, c)
               \/ \E p, q \in Path : MoveNote(p, q)
               \/ \E p \in Path : DeleteNote(p)
               \/ ReloadEmbedder \/ DateSweep \/ ReindexAll
      <3>1. MarkersOK'
        BY <1>2, <2>3 DEF CreateAt, RestoreNote, MoveNote, DeleteNote, ReloadEmbedder, DateSweep,
                          ReindexAll
      <3>2. QED
        BY <3>1 DEF MarkersOK, Marked, CurMarks, JobMarks
    <2>4. QED
      BY <1>3, <2>1, <2>2, <2>3 DEF Environment
  <1>4. CASE DispatchOne \/ LoadModel
    BY <1>1, <1>4 DEF DispatchOne, LoadModel, task, pipe
  <1>5. CASE RouterRecv
    <2>1. /\ UNCHANGED <<cur, scan, app, jobs, leaked>> /\ Tracked(hand) = {}
          /\ pending' \subseteq pending \cup Tracked(hand')
      BY <1>5, TrackedOf DEF RouterRecv, task
    <2>2. QED
      BY <1>p, <2>1 DEF CurMarks, JobMarks
  <1>6. CASE RouterSend
    <2>1. hand \in Jobs
      BY <1>0 DEF TypeOK
    <2>2. JobMarks(Append(jobs, hand)) = JobMarks(jobs) \cup Tracked(hand)
      BY <2>1, MarksOfQueues
    <2>3. UNCHANGED <<cur, scan, app, pending, leaked>> /\ jobs' = Append(jobs, hand)
      BY <1>6 DEF RouterSend
    <2>4. QED
      BY <1>p, <2>2, <2>3 DEF CurMarks
  <1>7. CASE AppSend
    <2> DEFINE j == app.job
    <2>1. j \in Jobs
      BY <1>0 DEF TypeOK
    <2>2. /\ UNCHANGED <<cur, scan, hand, pending, leaked>> /\ jobs' = Append(jobs, j)
      BY <1>7 DEF AppSend, pipe
    <2> HIDE DEF j
    <2>3. JobMarks(Append(jobs, j)) = JobMarks(jobs) \cup Tracked(j)
      BY <2>1, MarksOfQueues
    <2>4. QED
      BY <1>p, <2>2, <2>3 DEF CurMarks, j
  <1>8. CASE AppResume
    <2>1. Tracked(app.job) = {} /\ UNCHANGED <<cur, scan, hand, jobs, pending, leaked>>
      BY <1>0, <1>8 DEF AppResume, FlowOK, Awaited, Tracked, task
    <2>2. QED
      BY <1>p, <2>1 DEF CurMarks, JobMarks
  <1>9. CASE DrainOnFailure
    <2>1. jobs # <<>> /\ JobMarks(jobs) = JobMarks(Tail(jobs)) \cup Tracked(Head(jobs))
      BY <1>9, MarksOfQueues DEF DrainOnFailure
    <2>2. /\ UNCHANGED <<cur, scan, hand, pending>> /\ jobs' = Tail(jobs)
          /\ leaked' = leaked \cup Tracked(Head(jobs)) /\ app'.job = app.job
      BY <1>9, <1>r DEF DrainOnFailure, pipe
    <2>3. QED
      BY <1>p, <2>1, <2>2 DEF CurMarks
  <1>10. CASE TakeJob
    BY <1>10, TakeMarks DEF MarkersOK, Marked, CurMarks, JobMarks
  <1>11. CASE ScanStep
    <2>1. CurMarks = {} /\ UNCHANGED <<hand, app, jobs, leaked>>
      BY <1>11 DEF ScanStep, CurMarks, Idle, pipe
    <2>2. CASE \E p \in scan.del : scan' = [scan EXCEPT !.del = @ \ {p}] /\ UNCHANGED <<cur, pending>>
      <3>1. scan'.up = scan.up
        BY <1>0, <2>2 DEF TypeOK
      <3>2. QED
        BY <1>p, <2>1, <2>2, <3>1 DEF JobMarks
    <2>3. ASSUME NEW p \in scan.up, scan' = [scan EXCEPT !.up = @ \ {p}],
                 cur' = Upserting(p, scan.force, TRUE), pending' = pending \cup {p}
          PROVE  MarkersOK'
      <3>1. scan'.up = scan.up \ {p}
        BY <1>0, <2>3 DEF TypeOK
      <3>2. CurMarks' = {p}
        BY <2>3 DEF CurMarks, Upserting, Idle
      <3>3. pending' \subseteq CurMarks' \cup scan'.up \cup Tracked(hand') \cup Tracked(app'.job)
                                    \cup JobMarks(jobs') \cup leaked'
        BY <1>p, <2>1, <2>3, <3>1, <3>2 DEF JobMarks
      <3>4. QED
        BY <3>3 DEF MarkersOK, Marked, CurMarks, JobMarks
    <2>4. QED
      BY <1>11, <2>2, <2>3 DEF ScanStep, MarkersOK, Marked, CurMarks, JobMarks
  <1>d. ASSUME Done, UNCHANGED <<scan, hand, jobs>>, cur.op # "sendlink"
        PROVE  pending' \subseteq scan'.up \cup Tracked(hand') \cup Tracked(app'.job)
                                  \cup JobMarks(jobs') \cup leaked'
    <2>1. CurMarks = Untrack
      BY <1>d DEF CurMarks, Untrack
    <2>2. app'.job = app.job
      BY <1>d, <1>r DEF Done
    <2>3. QED
      BY <1>p, <1>d, <2>1, <2>2 DEF Done, JobMarks
  <1>12. CASE Read
    <2>1. UNCHANGED <<scan, hand, jobs>> /\ cur.op = "read"
      BY <1>12 DEF Read, pipe
    <2>2. CASE ~Done
      <3>1. cur' = [cur EXCEPT !.op = "store", !.val = disk[cur.p]] /\ UNCHANGED <<pending, leaked, app>>
        BY <1>12, <2>2 DEF Read
      <3>2. cur'.p = cur.p /\ cur'.tracked = cur.tracked /\ cur'.op # "sendlink"
        BY <1>0, <3>1 DEF TypeOK
      <3>3. CurMarks' = CurMarks
        BY <2>1, <3>2 DEF CurMarks
      <3>4. QED
        BY <1>p, <2>1, <3>1, <3>3 DEF JobMarks
    <2>3. QED
      BY <1>d, <2>1, <2>2
  <1>13. CASE Store
    <2>1. UNCHANGED <<scan, hand>> /\ cur.op = "store"
      BY <1>13 DEF Store
    <2>2. CASE Done /\ UNCHANGED jobs
      BY <1>d, <2>1, <2>2
    <2>3. ASSUME cur.tracked, UNCHANGED app, NEW q \in Indexable, NEW c \in Good, RuleWrite(q, c, jobs)
          PROVE  pending' \subseteq scan'.up \cup Tracked(hand') \cup Tracked(app'.job)
                                    \cup JobMarks(jobs') \cup leaked'
      <3>1. CurMarks \subseteq {cur.p} /\ jobs \in Seq(Jobs)
        BY <1>0 DEF CurMarks, TypeOK
      <3>2. pending \subseteq {cur.p} \cup JobMarks(jobs) \cup CurMarks \cup scan.up
                           \cup Tracked(hand) \cup Tracked(app.job) \cup leaked
        BY <1>p
      <3>3. QED
        BY <2>1, <2>3, <3>1, <3>2, RuleMarks
    <2>4. QED
      BY <1>13, <2>2, <2>3 DEF Store
  <1>f. CASE UpsertFails
    BY <1>d, <1>f DEF UpsertFails, pipe
  <1>14. CASE LinksDone
    <2>1. CurMarks = {} /\ UNCHANGED <<scan, hand, jobs, pending, leaked>> /\ app'.job = app.job
      BY <1>0, <1>14, <1>r DEF LinksDone, CurOK, CurMarks, pipe
    <2>2. QED
      BY <1>p, <2>1 DEF JobMarks
  <1>15. CASE SelfSend
    <2>1. UNCHANGED <<scan, hand, app, pending, leaked>>
      BY <1>15 DEF SelfSend, pipe
    <2>2. CASE cur.op = "sendlink" /\ jobs' = Append(jobs, UpsertOf(cur.p))
      <3> DEFINE j == UpsertOf(cur.p)
      <3>1. JobOK(j) /\ Tracked(j) = {cur.p}
        BY <1>0, <2>2, JobsOK, TrackedOf DEF CurOK
      <3>2. jobs' = Append(jobs, j)
        BY <2>2
      <3> HIDE DEF j
      <3>3. j \in Jobs
        BY <3>1 DEF JobOK
      <3>4. JobMarks(Append(jobs, j)) = JobMarks(jobs) \cup {cur.p}
        BY <3>1, <3>3, MarksOfQueues
      <3>5. CurMarks \subseteq {cur.p}
        BY DEF CurMarks
      <3>6. QED
        BY <1>p, <2>1, <3>2, <3>4, <3>5
    <2>3. CASE cur.op = "sendscan" /\ jobs' = Append(jobs, FullScan(TRUE))
      <3> DEFINE j == FullScan(TRUE)
      <3>1. JobOK(j) /\ Tracked(j) = {}
        BY JobsOK, TrackedOf
      <3>2. jobs' = Append(jobs, j)
        BY <2>3
      <3> HIDE DEF j
      <3>3. j \in Jobs
        BY <3>1 DEF JobOK
      <3>4. JobMarks(Append(jobs, j)) = JobMarks(jobs)
        BY <3>1, <3>3, MarksOfQueues
      <3>5. CurMarks = {}
        BY <1>0, <2>3 DEF CurMarks, CurOK
      <3>6. QED
        BY <1>p, <2>1, <3>2, <3>4, <3>5
    <2>4. QED
      BY <1>15, <2>2, <2>3 DEF SelfSend
  <1>16. ASSUME NEW r \in Path, NEW c \in Good, Rewrite(r, c)
         PROVE  MarkersOK'
    <2>1. CurMarks = {} /\ UNCHANGED <<scan, hand, jobs, app, leaked>> /\ pending' = pending \cup {r}
      BY <1>0, <1>16 DEF Rewrite, CurOK, CurMarks
    <2>2. CurMarks' = {r}
      BY <1>0, <1>16 DEF Rewrite, CurMarks, TypeOK
    <2>3. QED
      BY <1>p, <2>1, <2>2 DEF MarkersOK, Marked, CurMarks, JobMarks
  <1>17. CASE UNCHANGED vars
    BY <1>1, <1>17 DEF vars
  <1>18. ASSUME NEW r \in Path, NEW c \in Good, Rewrite(r, c)
         PROVE  pending' \subseteq CurMarks' \cup scan'.up \cup Tracked(hand') \cup Tracked(app'.job)
                                    \cup JobMarks(jobs') \cup leaked'
    BY <1>16, <1>18 DEF MarkersOK, Marked, CurMarks, JobMarks
  <1>19. QED
    BY <1>3, <1>4, <1>5, <1>6, <1>7, <1>8, <1>9, <1>10, <1>11, <1>12, <1>13, <1>f, <1>14, <1>15,
       <1>17, <1>18 DEF Next, Pipeline, Indexer

\* The markers that are justified are markers of work in flight.
LEMMA MarkedInFlight ==
  ASSUME Typed
  PROVE  Marked \subseteq InFlight
  <1>1. JobMarks(jobs) = UNION {Tracked(jobs[i]) : i \in DOMAIN jobs}
    <2>1. jobs \in Seq(Jobs)
      BY DEF Typed, TypeOK
    <2>2. Range(jobs) = {jobs[i] : i \in DOMAIN jobs}
      BY <2>1, RangeEquality
    <2>3. QED
      BY <2>2 DEF JobMarks
  <1>2. CurMarks \subseteq {cur.p}
    BY DEF CurMarks
  <1>3. QED
    BY <1>1, <1>2, MarkedParts DEF InFlight

\* The Queued markers go out: whatever the task, the router, the host and the
\* rules do to the set, a path stays marked only while a job for it is on its
\* way, or where the history says the marker was leaked.
THEOREM MarkersGoOut == Spec => []PendingIsInFlight
  <1>1. Init => Typed /\ MarkersOK
    <2>1. Init => MarkersOK
      BY DEF Init, MarkersOK
    <2>2. QED
      BY <2>1, StartTyped
  <1>2. Typed /\ MarkersOK /\ [Next]_vars => (Typed /\ MarkersOK)'
    BY StepTyped, StepMarks
  <1>3. Typed /\ MarkersOK => PendingIsInFlight
    BY MarkedInFlight DEF MarkersOK, PendingIsInFlight
  <1>4. QED
    BY <1>1, <1>2, <1>3, PTL DEF Spec

-----------------------------------------------------------------------------
\* The replies.

\* Some job of a queue is awaited; no two are.
Owes(s) == \E i \in DOMAIN s : s[i].k \in Awaited
OwesOnce(s) == \A i, k \in DOMAIN s : s[i].k \in Awaited /\ s[k].k \in Awaited => i = k

\* What an Append and a Tail do to the replies a queue owes.
LEMMA OwedByQueues ==
  ASSUME NEW s \in Seq(Jobs)
  PROVE  /\ \A j \in Jobs : j.k \notin Awaited =>
              (Owes(Append(s, j)) <=> Owes(s)) /\ (OwesOnce(s) => OwesOnce(Append(s, j)))
         /\ \A j \in Jobs : j.k \in Awaited /\ ~Owes(s) => Owes(Append(s, j)) /\ OwesOnce(Append(s, j))
         /\ s # <<>> /\ Head(s).k \in Awaited /\ OwesOnce(s) => ~Owes(Tail(s)) /\ OwesOnce(Tail(s))
         /\ s # <<>> /\ Head(s).k \notin Awaited =>
              (Owes(Tail(s)) <=> Owes(s)) /\ (OwesOnce(s) => OwesOnce(Tail(s)))
  <1>1. ASSUME NEW j \in Jobs
        PROVE  /\ j.k \notin Awaited => (Owes(Append(s, j)) <=> Owes(s))
                                        /\ (OwesOnce(s) => OwesOnce(Append(s, j)))
               /\ j.k \in Awaited /\ ~Owes(s) => Owes(Append(s, j)) /\ OwesOnce(Append(s, j))
    <2> DEFINE t == Append(s, j)
    <2>1. /\ DOMAIN s = 1..Len(s) /\ DOMAIN t = 1..(Len(s) + 1) /\ Len(s) \in Nat
          /\ \A i \in 1..Len(s) : t[i] = s[i]
          /\ t[Len(s) + 1] = j
      BY AppendProperties
    <2> HIDE DEF t
    <2>2. \A i \in DOMAIN t : i \in DOMAIN s \/ i = Len(s) + 1
      BY <2>1
    <2>3. DOMAIN s \subseteq DOMAIN t /\ Len(s) + 1 \in DOMAIN t
      BY <2>1
    <2>4. \A i \in DOMAIN s : t[i] = s[i]
      BY <2>1
    <2>5. Owes(t) <=> Owes(s) \/ j.k \in Awaited
      BY <2>1, <2>2, <2>3, <2>4 DEF Owes
    <2>6. j.k \notin Awaited /\ OwesOnce(s) => OwesOnce(t)
      BY <2>1, <2>2, <2>4 DEF OwesOnce
    <2>7. ~Owes(s) => OwesOnce(t)
      BY <2>1, <2>2, <2>4 DEF OwesOnce, Owes
    <2>8. QED
      BY <2>5, <2>6, <2>7 DEF t
  <1>2. ASSUME s # <<>>
        PROVE  /\ Head(s).k \in Awaited /\ OwesOnce(s) => ~Owes(Tail(s)) /\ OwesOnce(Tail(s))
               /\ Head(s).k \notin Awaited =>
                    (Owes(Tail(s)) <=> Owes(s)) /\ (OwesOnce(s) => OwesOnce(Tail(s)))
    <2> DEFINE t == Tail(s)
               h == Head(s)
    <2>1. /\ DOMAIN s = 1..Len(s) /\ DOMAIN t = 1..(Len(s) - 1) /\ Len(s) \in Nat \ {0}
          /\ \A i \in 1..(Len(s) - 1) : t[i] = s[i + 1]
          /\ s[1] = h
      BY <1>2, HeadTailProperties
    <2> HIDE DEF t, h
    <2>2. \A i \in DOMAIN t : i + 1 \in DOMAIN s /\ i + 1 # 1 /\ t[i] = s[i + 1] /\ i \in Int
      BY <2>1
    <2>3. \A i \in DOMAIN s : i = 1 \/ (i - 1 \in DOMAIN t /\ t[i - 1] = s[i])
      BY <2>1
    <2>4. 1 \in DOMAIN s
      BY <2>1
    <2>5. Owes(s) <=> Owes(t) \/ h.k \in Awaited
      BY <2>1, <2>2, <2>3, <2>4 DEF Owes
    <2>6. OwesOnce(s) => OwesOnce(t)
      <3> SUFFICES ASSUME OwesOnce(s), NEW i \in DOMAIN t, NEW k \in DOMAIN t,
                          t[i].k \in Awaited, t[k].k \in Awaited
                   PROVE  i = k
        BY DEF OwesOnce
      <3>1. i + 1 = k + 1
        BY <2>2 DEF OwesOnce
      <3>2. QED
        BY <2>2, <3>1
    <2>7. h.k \in Awaited /\ OwesOnce(s) => ~Owes(t)
      BY <2>1, <2>2, <2>4 DEF OwesOnce, Owes
    <2>8. QED
      BY <2>5, <2>6, <2>7 DEF t, h
  <1>3. QED
    BY <1>1, <1>2

\* OneReplyOwed, said with these two.
LEMMA RepliesOwed ==
  OneReplyOwed <=> /\ app.at = "wait" <=> Owes(jobs) \/ cur.reply
                   /\ OwesOnce(jobs) /\ (cur.reply => ~Owes(jobs))
  BY DEF OneReplyOwed, AwaitedIsQueued, Owes, OwesOnce

\* A step of the task that takes no job: a reply goes out when the work it was
\* owed by ends.
LEMMA WorkReplies ==
  ASSUME Typed, OneReplyOwed, Owes(jobs') <=> Owes(jobs), OwesOnce(jobs'),
         \/ cur'.reply = cur.reply /\ UNCHANGED app
         \/ ~cur'.reply /\ app' = IF cur.reply THEN Replied ELSE app
  PROVE  OneReplyOwed'
  <1>1. cur.reply \in BOOLEAN /\ app.at \in {"idle", "send", "wait", "replied"}
    BY DEF Typed, TypeOK
  <1>2. /\ app.at = "wait" <=> Owes(jobs) \/ cur.reply
        /\ OwesOnce(jobs) /\ (cur.reply => ~Owes(jobs))
    BY RepliesOwed
  <1>3. Replied.at # "wait"
    BY DEF Replied, Typed, TypeOK
  <1>4. /\ app'.at = "wait" <=> Owes(jobs') \/ cur'.reply
        /\ OwesOnce(jobs') /\ (cur'.reply => ~Owes(jobs'))
    <2>1. CASE cur'.reply = cur.reply /\ UNCHANGED app
      BY <1>2, <2>1
    <2>2. CASE ~cur'.reply /\ app' = IF cur.reply THEN Replied ELSE app
      <3>1. CASE cur.reply
        BY <1>2, <1>3, <2>2, <3>1
      <3>2. CASE ~cur.reply
        BY <1>2, <2>2, <3>2
      <3>3. QED
        BY <3>1, <3>2
    <2>3. QED
      BY <2>1, <2>2
  <1>5. QED
    BY <1>4 DEF OneReplyOwed, AwaitedIsQueued, Owes, OwesOnce

\* Taking a job takes its reply over, or sends it.
LEMMA TakeReplies ==
  ASSUME Typed, OneReplyOwed, TakeJob
  PROVE  OneReplyOwed'
  <1> DEFINE h == Head(jobs)
             t == Tail(jobs)
  <1>0. /\ jobs \in Seq(Jobs) /\ jobs # <<>> /\ cur = Idle /\ ~cur.reply
        /\ app.at \in {"idle", "send", "wait", "replied"}
    BY DEF Typed, TypeOK, TakeJob, Idle
  <1>1. (app.at = "wait" <=> Owes(jobs)) /\ OwesOnce(jobs)
    BY <1>0, RepliesOwed
  <1>2. /\ t \in Seq(Jobs)
        /\ h.k \in Awaited => ~Owes(t) /\ OwesOnce(t)
        /\ h.k \notin Awaited => (Owes(t) <=> Owes(jobs)) /\ OwesOnce(t)
    BY <1>0, <1>1, OwedByQueues, TailFacts
  <1>3. Replied.at # "wait"
    BY DEF Replied, Typed, TypeOK
  <1>o. h.k \in Awaited => app.at = "wait"
    <2>1. Owes(jobs) <=> (\E i \in DOMAIN jobs : jobs[i].k \in Awaited)
      BY DEF Owes
    <2>2. 1 \in DOMAIN jobs /\ jobs[1] = h
      BY <1>0
    <2>3. QED
      BY <1>1, <2>1, <2>2
  <1>4. SUFFICES /\ app'.at = "wait" <=> Owes(jobs') \/ cur'.reply
                 /\ OwesOnce(jobs') /\ (cur'.reply => ~Owes(jobs'))
    BY DEF OneReplyOwed, AwaitedIsQueued, Owes, OwesOnce
  <1> HIDE DEF t
  <1>5. CASE /\ TakeUpsert(h) \/ TakeCreated(h) \/ TakeDelete(h) \/ TakeRename(h) \/ TakeScan(h)
                \/ TakeReload(h)
             /\ jobs' = t
    <2>1. h.k \notin Awaited /\ UNCHANGED app
      BY <1>5 DEF TakeUpsert, TakeCreated, TakeDelete, TakeRename, TakeScan, TakeReload, Awaited
    <2>2. ~cur'.reply
      BY <1>0, <1>5 DEF TakeUpsert, TakeCreated, TakeDelete, TakeRename, TakeScan, TakeReload,
                        Upserting, Sweeping, Idle
    <2>3. QED
      BY <1>1, <1>2, <1>5, <2>1, <2>2
  <1>6. CASE TakeMove(h) /\ jobs' = t
    <2>1. h.k \in Awaited
      BY <1>6 DEF TakeMove, Awaited
    <2>2. CASE MoveRefused(h.p, h.q)
      BY <1>0, <1>2, <1>3, <1>6, <2>1, <2>2 DEF TakeMove
    <2>3. CASE ~MoveRefused(h.p, h.q)
      <3>1. cur'.reply = TRUE /\ UNCHANGED app
        BY <1>6, <2>3 DEF TakeMove, Sweeping, Idle
      <3>2. QED
        BY <1>2, <1>o, <1>6, <2>1, <3>1
    <2>4. QED
      BY <2>2, <2>3
  <1>7. CASE TakeTrash(h) /\ jobs' = t
    <2>1. h.k \in Awaited /\ UNCHANGED cur /\ app' = Replied
      BY <1>7 DEF TakeTrash, Awaited
    <2>2. QED
      BY <1>0, <1>2, <1>3, <1>7, <2>1
  <1>8. CASE TakeRestore(h) /\ jobs' = t
    <2>1. h.k \in Awaited
      BY <1>8 DEF TakeRestore, Awaited
    <2>2. CASE disk[h.p] # Absent
      BY <1>0, <1>2, <1>3, <1>8, <2>1, <2>2 DEF TakeRestore
    <2>3. CASE disk[h.p] = Absent
      <3>1. cur'.reply = TRUE /\ UNCHANGED app
        BY <1>8, <2>3 DEF TakeRestore, Upserting, Idle
      <3>2. QED
        BY <1>2, <1>o, <1>8, <2>1, <3>1
    <2>4. QED
      BY <2>2, <2>3
  <1>9. CASE TakeSweep(h)
    <2>1. h.k \notin Awaited /\ UNCHANGED <<app, cur>>
      BY <1>9 DEF TakeSweep, Awaited
    <2>2. (Owes(jobs') <=> Owes(t)) /\ OwesOnce(jobs')
      <3>1. CASE jobs' = t
        BY <1>2, <2>1, <3>1
      <3>2. ASSUME NEW q \in Indexable, jobs' = Append(t, UpsertOf(q))
            PROVE  (Owes(jobs') <=> Owes(t)) /\ OwesOnce(jobs')
        <4> DEFINE j == UpsertOf(q)
        <4>1. JobOK(j) /\ j.k \notin Awaited
          BY JobsOK, IndexSyncAssumption DEF UpsertOf, Job, Awaited
        <4>2. jobs' = Append(t, j)
          BY <3>2
        <4> HIDE DEF j
        <4>3. j \in Jobs
          BY <4>1 DEF JobOK
        <4>4. QED
          BY <1>2, <2>1, <4>1, <4>2, <4>3, OwedByQueues
      <3>3. QED
        BY <1>9, <3>1, <3>2 DEF TakeSweep, RuleWrite, t
    <2>3. QED
      BY <1>0, <1>1, <1>2, <2>1, <2>2
  <1>10. QED
    BY <1>5, <1>6, <1>7, <1>8, <1>9 DEF TakeJob, t

\* Every step keeps the one reply owed.
LEMMA StepReplies ==
  ASSUME Typed, OneReplyOwed, [Next]_vars
  PROVE  OneReplyOwed'
  <1>0. TypeOK /\ FlowOK /\ CurOK /\ jobs \in Seq(Jobs)
    BY DEF Typed, TypeOK
  <1>1. /\ app.at = "wait" <=> Owes(jobs) \/ cur.reply
        /\ OwesOnce(jobs) /\ (cur.reply => ~Owes(jobs))
    BY RepliesOwed
  <1>g. ASSUME /\ app'.at = "wait" <=> Owes(jobs') \/ cur'.reply
               /\ OwesOnce(jobs') /\ (cur'.reply => ~Owes(jobs'))
        PROVE  OneReplyOwed'
    BY <1>g DEF OneReplyOwed, AwaitedIsQueued, Owes, OwesOnce
  <1>2. CASE UNCHANGED <<cur, jobs, app>>
    BY <1>2 DEF OneReplyOwed, AwaitedIsQueued
  <1>a. ASSUME NEW j, JobOK(j), j.k \notin Awaited
        PROVE  (Owes(Append(jobs, j)) <=> Owes(jobs)) /\ OwesOnce(Append(jobs, j))
    BY <1>0, <1>1, <1>a, OwedByQueues DEF JobOK
  <1>3. ASSUME NEW name, NEW j, NEW s, NEW d, NEW r, Request(name, j, s, d, r)
        PROVE  OneReplyOwed'
    <2>1. UNCHANGED <<cur, jobs>> /\ app'.at = "send" /\ app.at = "idle"
      BY <1>3 DEF Request, task, NoApp
    <2>2. QED
      BY <1>1, <1>g, <2>1
  <1>4. CASE Environment
    <2>1. CASE \/ \E p \in Path, c \in Content : Write(p, c) \/ PanelRestore(p, c)
               \/ \E p, q \in Path : Rename(p, q)
               \/ \E p \in Path : Remove(p) \/ Expire(p)
      BY <1>2, <2>1 DEF Write, PanelRestore, Rename, Remove, Expire, task, pipe
    <2>2. CASE Restart
      <3> DEFINE u == <<FullScan(FALSE)>>
      <3>1. app'.at = "idle" /\ ~cur'.reply /\ jobs' = u
        BY <2>2 DEF Restart, NoApp, Idle
      <3>2. u = Append(<<>>, FullScan(FALSE)) /\ <<>> \in Seq(Jobs)
        OBVIOUS
      <3>3. ~Owes(<<>>) /\ OwesOnce(<<>>)
        BY DEF Owes, OwesOnce
      <3>4. FullScan(FALSE) \in Jobs /\ FullScan(FALSE).k \notin Awaited
        BY JobsOK DEF JobOK, FullScan, Job, Awaited
      <3> HIDE DEF u
      <3>5. ~Owes(u) /\ OwesOnce(u)
        BY <3>2, <3>3, <3>4, OwedByQueues
      <3>6. QED
        BY <1>g, <3>1, <3>5
    <2>3. CASE \/ \E p \in Path, c \in Content : CreateAt(p, c) \/ RestoreNote(p, c)
               \/ \E p, q \in Path : MoveNote(p, q)
               \/ \E p \in Path : DeleteNote(p)
               \/ ReloadEmbedder \/ DateSweep \/ ReindexAll
      BY <1>3, <2>3 DEF CreateAt, RestoreNote, MoveNote, DeleteNote, ReloadEmbedder, DateSweep,
                        ReindexAll
    <2>4. QED
      BY <1>4, <2>1, <2>2, <2>3 DEF Environment
  <1>5. CASE DispatchOne \/ RouterRecv \/ LoadModel \/ (ScanStep /\ UNCHANGED cur)
    BY <1>2, <1>5 DEF DispatchOne, RouterRecv, LoadModel, ScanStep, task, pipe
  <1>6. CASE RouterSend
    BY <1>0, <1>1, <1>6, <1>a, <1>g DEF RouterSend, FlowOK
  <1>7. CASE AppSend
    <2> DEFINE j == app.job
    <2>1. /\ JobOK(j) /\ j \in Jobs /\ UNCHANGED cur /\ jobs' = Append(jobs, j) /\ app.at = "send"
          /\ app'.at = IF j.k \in Awaited THEN "wait" ELSE "idle"
      BY <1>0, <1>7 DEF AppSend, FlowOK, TypeOK, NoApp, JobOK
    <2> HIDE DEF j
    <2>2. CASE j.k \in Awaited
      BY <1>0, <1>1, <1>g, <2>1, <2>2, OwedByQueues
    <2>3. CASE j.k \notin Awaited
      BY <1>1, <1>a, <1>g, <2>1, <2>3
    <2>4. QED
      BY <2>2, <2>3
  <1>8. CASE AppResume
    BY <1>1, <1>8, <1>g DEF AppResume, task, NoApp
  <1>9. CASE DrainOnFailure
    <2> DEFINE h == Head(jobs)
               t == Tail(jobs)
    <2>1. /\ jobs # <<>> /\ UNCHANGED cur /\ jobs' = t
          /\ app' = IF h.k \in Awaited THEN Replied ELSE app
      BY <1>9 DEF DrainOnFailure
    <2>2. /\ h.k \in Awaited => ~Owes(t) /\ OwesOnce(t)
          /\ h.k \notin Awaited => (Owes(t) <=> Owes(jobs)) /\ OwesOnce(t)
      BY <1>0, <1>1, <2>1, OwedByQueues
    <2>3. Replied.at # "wait"
      BY <1>0 DEF Replied, TypeOK
    <2>4. h.k \in Awaited => ~cur.reply
      <3>1. h.k \in Awaited => Owes(jobs)
        BY <1>0, <2>1 DEF Owes
      <3>2. QED
        BY <1>1, <3>1
    <2> HIDE DEF h, t
    <2>5. QED
      BY <1>1, <1>g, <2>1, <2>2, <2>3, <2>4
  <1>10. CASE TakeJob
    BY <1>10, TakeReplies
  <1>11. CASE ScanStep /\ ~UNCHANGED cur
    <2>1. ~cur.reply /\ ~cur'.reply /\ UNCHANGED <<jobs, app>>
      BY <1>11 DEF ScanStep, Upserting, Idle
    <2>2. QED
      BY <1>1, <1>g, <2>1
  <1>12. CASE Read
    <2>1. /\ UNCHANGED jobs
          /\ \/ cur'.reply = cur.reply /\ UNCHANGED app
             \/ ~cur'.reply /\ app' = IF cur.reply THEN Replied ELSE app
      <3>1. CASE Done
        BY <1>12, <3>1 DEF Read, Done, Idle
      <3>2. CASE ~Done
        <4>1. cur' = [cur EXCEPT !.op = "store", !.val = disk[cur.p]] /\ UNCHANGED <<app, jobs>>
          BY <1>12, <3>2 DEF Read
        <4>2. QED
          BY <1>0, <4>1 DEF TypeOK
      <3>3. QED
        BY <3>1, <3>2
    <2>2. QED
      BY <1>1, <2>1, WorkReplies
  <1>13. CASE Store
    <2>1. CASE Done /\ UNCHANGED jobs
      BY <1>1, <2>1, WorkReplies DEF Done, Idle
    <2>2. ASSUME cur.tracked, cur' = Idle, UNCHANGED app, NEW q \in Indexable, NEW c \in Good,
                 RuleWrite(q, c, jobs)
          PROVE  OneReplyOwed'
      <3>1. ~cur.reply /\ ~cur'.reply
        BY <1>0, <2>2 DEF CurOK, Idle
      <3>2. JobOK(UpsertOf(q)) /\ UpsertOf(q).k \notin Awaited
        BY JobsOK, IndexSyncAssumption DEF UpsertOf, Job, Awaited
      <3>3. (Owes(jobs') <=> Owes(jobs)) /\ OwesOnce(jobs')
        BY <1>1, <1>a, <2>2, <3>2 DEF RuleWrite
      <3>4. QED
        BY <1>1, <1>g, <2>2, <3>1, <3>3
    <2>3. QED
      BY <1>13, <2>1, <2>2 DEF Store
  <1>f. CASE UpsertFails
    BY <1>1, <1>f, WorkReplies DEF UpsertFails, Done, Idle
  <1>14. CASE LinksDone
    <2>1. UNCHANGED jobs /\ ~cur'.reply /\ app' = IF cur.reply THEN Replied ELSE app
      BY <1>14 DEF LinksDone, Idle
    <2>2. QED
      BY <1>1, <2>1, WorkReplies
  <1>15. CASE SelfSend
    <2>1. CASE cur.op = "sendlink" /\ jobs' = Append(jobs, UpsertOf(cur.p))
               /\ cur' = [cur EXCEPT !.op = "links", !.p = NoPath]
      <3>1. JobOK(UpsertOf(cur.p)) /\ UpsertOf(cur.p).k \notin Awaited
        BY <1>0, <2>1, JobsOK DEF CurOK, UpsertOf, Job, Awaited
      <3>2. cur'.reply = cur.reply /\ UNCHANGED app
        BY <1>0, <1>15, <2>1 DEF SelfSend, TypeOK
      <3>3. QED
        BY <1>a, <2>1, <3>1, <3>2, WorkReplies
    <2>2. CASE cur.op = "sendscan" /\ jobs' = Append(jobs, FullScan(TRUE)) /\ cur' = Idle
      <3>1. JobOK(FullScan(TRUE)) /\ FullScan(TRUE).k \notin Awaited
        BY JobsOK DEF FullScan, Job, Awaited
      <3>2. ~cur'.reply /\ ~cur.reply /\ UNCHANGED app
        BY <1>0, <1>15, <2>2 DEF SelfSend, CurOK, Idle
      <3>3. QED
        BY <1>a, <2>2, <3>1, <3>2, WorkReplies
    <2>3. QED
      BY <1>15, <2>1, <2>2 DEF SelfSend
  <1>16. ASSUME NEW r \in Path, NEW c \in Good, Rewrite(r, c)
         PROVE  OneReplyOwed'
    <2>1. cur'.reply = cur.reply /\ UNCHANGED <<app, jobs>>
      BY <1>0, <1>16 DEF Rewrite, TypeOK
    <2>2. QED
      BY <1>1, <2>1, WorkReplies
  <1>17. CASE UNCHANGED vars
    BY <1>2, <1>17 DEF vars
  <1>18. QED
    BY <1>4, <1>5, <1>6, <1>7, <1>8, <1>9, <1>10, <1>11, <1>12, <1>13, <1>f, <1>14, <1>15, <1>16,
       <1>17 DEF Next, Pipeline, Indexer

\* The task starts owing no reply.
LEMMA StartOwesNothing == Init => OneReplyOwed
  <1> SUFFICES ASSUME Init
               PROVE  OneReplyOwed
    OBVIOUS
  <1> DEFINE u == <<FullScan(FALSE)>>
  <1>1. app.at = "idle" /\ ~cur.reply /\ jobs = u
    BY DEF Init, NoApp, Idle
  <1>2. u = Append(<<>>, FullScan(FALSE)) /\ <<>> \in Seq(Jobs)
    OBVIOUS
  <1>3. ~Owes(<<>>) /\ OwesOnce(<<>>)
    BY DEF Owes, OwesOnce
  <1>4. FullScan(FALSE) \in Jobs /\ FullScan(FALSE).k \notin Awaited
    BY JobsOK DEF JobOK, FullScan, Job, Awaited
  <1> HIDE DEF u
  <1>5. ~Owes(u) /\ OwesOnce(u)
    BY <1>2, <1>3, <1>4, OwedByQueues
  <1>6. QED
    BY <1>1, <1>5, RepliesOwed

\* The host waits for a reply exactly as long as the job that owes it is
\* queued or in progress: whatever ends a job -- its work, a refusal, a task
\* without a model that drains its queue -- answers it, once.
THEOREM RepliesAreOwed == Spec => []AwaitedIsQueued
  <1>1. Init => Typed /\ OneReplyOwed
    BY StartTyped, StartOwesNothing
  <1>2. Typed /\ OneReplyOwed /\ [Next]_vars => (Typed /\ OneReplyOwed)'
    BY StepTyped, StepReplies
  <1>3. OneReplyOwed => AwaitedIsQueued
    BY DEF OneReplyOwed
  <1>4. QED
    BY <1>1, <1>2, <1>3, PTL DEF Spec

-----------------------------------------------------------------------------
\* What is not forgotten.

\* Of a path: an event, a job or the work in progress will look at it.
Seen(p) == lagged \/ \E e \in Range(raw) \cup Range(bcast) : EventLooksAt(e, p)
Due(p) == \E j \in Range(jobs) \cup {hand} : JobLooksAt(j, p)
Doing(p) ==
  \/ cur.op = "read" /\ cur.p = p
  \/ cur.op = "sendscan"
  \/ p \in scan.up \cup scan.del
Kept(p) == Settled(p) \/ p \in lost \/ Seen(p) \/ Due(p) \/ Doing(p)

\* The task is storing what it read of p.
Storing(p) == cur.op = "store" /\ cur.p = p

\* NothingForgotten, said with these.
LEMMA KeptMeans ==
  NothingForgotten <=> /\ \A p \in Path \ Indexable : Fresh(p) \/ p \in lost
                       /\ up # "failed" => \A p \in Indexable : Kept(p)
  BY DEF NothingForgotten, Kept, Seen, Due, Doing, Awaits

\* A path nothing was done about keeps what it had.
LEMMA LeftAlone ==
  ASSUME NEW p, Kept(p), disk'[p] = disk[p], index'[p] = index[p], ver' = ver,
         p \in lost => p \in lost',
         \/ UNCHANGED cur
         \/ ~Storing(p) /\ ~Storing(p)' /\ (Doing(p) => Doing(p)'),
         p \in scan.up \cup scan.del => p \in scan'.up \cup scan'.del,
         Seen(p) => Seen(p)',
         Due(p) => Due(p)'
  PROVE  Kept(p)'
  <1>1. Settled(p) => Settled(p)'
    BY DEF Settled, Storing, Fresh, FreshIn
  <1>2. Doing(p) => Doing(p)'
    BY DEF Doing
  <1>3. QED
    BY <1>1, <1>2 DEF Kept

\* The events are the same or more, the file is as it was.
LEMMA StillSeen ==
  ASSUME NEW p, disk'[p] = disk[p], Range(raw) \cup Range(bcast) \subseteq Range(raw') \cup Range(bcast'),
         lagged => lagged'
  PROVE  Seen(p) => Seen(p)'
  BY DEF Seen, EventLooksAt, NamesIt

\* The jobs are the same or more, the file is as it was.
LEMMA StillDue ==
  ASSUME NEW p, disk'[p] = disk[p],
         \A j \in Range(jobs) \cup {hand} : JobLooksAt(j, p) => j \in Range(jobs') \cup {hand'}
  PROVE  Due(p) => Due(p)'
  BY DEF Due, JobLooksAt, NamesIt

\* No job, no look; a scan looks at everything.
LEMMA Looks ==
  ASSUME NEW p
  PROVE  /\ ~JobLooksAt(NoJob, p)
         /\ \A f : JobLooksAt(FullScan(f), p)
  BY DEF JobLooksAt, NamesIt, NoJob, FullScan, Job

\* What is true of the vault and of the events after something wrote it: each
\* path whose file changed has an event that looks at it.
VaultMoved ==
  /\ Range(raw) \subseteq Range(raw')
  /\ \A p \in Indexable : disk'[p] = disk[p] \/ \E e \in Range(raw') : EventLooksAt(e, p)'

\* One path written: its event looks at it.
LEMMA VaultWritten ==
  ASSUME Typed, NEW r \in Path, NEW c, disk' = [disk EXCEPT ![r] = c],
         NEW k \in {"created", "modified", "deleted"}, raw' = Append(raw, Event(k, r, NoPath))
  PROVE  VaultMoved
  <1> DEFINE e == Event(k, r, NoPath)
             w == Append(raw, e)
  <1>1. EventOK(e)
    BY EventsOK
  <1>2. raw' = w /\ EventLooksAt(e, r)'
    BY DEF EventLooksAt, NamesIt, Event
  <1>3. disk \in [Path -> Content \cup {Absent}] /\ raw \in Seq(Events)
    BY DEF Typed, TypeOK
  <1> HIDE DEF e
  <1>4. Range(w) = Range(raw) \cup {e}
    BY <1>1, <1>3, AppendFacts DEF EventOK
  <1> HIDE DEF w
  <1>5. \A p \in Indexable : p # r => disk'[p] = disk[p]
    BY <1>3, IndexSyncAssumption
  <1>6. QED
    BY <1>2, <1>4, <1>5 DEF VaultMoved

\* One path renamed: the event looks at both of its names.
LEMMA VaultRenamed ==
  ASSUME Typed, NEW p \in Path, NEW q \in Path \ {p}, disk' = Renamed(disk, p, q),
         raw' = Append(raw, Event("renamed", p, q))
  PROVE  VaultMoved
  <1> DEFINE e == Event("renamed", p, q)
             w == Append(raw, e)
  <1>1. EventOK(e)
    BY EventsOK
  <1>3. disk \in [Path -> Content \cup {Absent}] /\ raw \in Seq(Events)
    BY DEF Typed, TypeOK
  <1>r. disk'[p] = Absent /\ \A x \in Path \ {p, q} : disk'[x] = disk[x]
    BY <1>3 DEF Renamed
  <1>2. raw' = w /\ EventLooksAt(e, p)' /\ EventLooksAt(e, q)'
    BY <1>r DEF EventLooksAt, NamesIt, Event
  <1> HIDE DEF e
  <1>4. Range(w) = Range(raw) \cup {e}
    BY <1>1, <1>3, AppendFacts DEF EventOK
  <1> HIDE DEF w
  <1>6. QED
    BY <1>2, <1>4, <1>r, IndexSyncAssumption DEF VaultMoved

\* The kernel may report an overflow instead, which looks at everything.
LEMMA VaultRaised ==
  ASSUME Typed, NEW e, EventOK(e), Raise(e),
         raw' = Append(raw, e) => VaultMoved
  PROVE  VaultMoved
  <1> DEFINE o == Event("overflow", NoPath, NoPath)
             w == Append(raw, o)
  <1>1. CASE raw' = Append(raw, e)
    BY <1>1
  <1>2. CASE raw' = Append(raw, o)
    <2>1. o \in Events /\ raw \in Seq(Events)
      BY DEF Typed, TypeOK, Events, Event
    <2>2. \A p \in Indexable : EventLooksAt(o, p)'
      BY DEF EventLooksAt, Event
    <2>3. raw' = w
      BY <1>2
    <2> HIDE DEF o
    <2>4. Range(w) = Range(raw) \cup {o}
      BY <2>1, AppendFacts
    <2> HIDE DEF w
    <2>5. QED
      BY <2>2, <2>3, <2>4 DEF VaultMoved
  <1>3. QED
    BY <1>1, <1>2 DEF Raise

\* Whoever wrote it: a path whose file changed is seen, another is as it was.
LEMMA KeptByWriters ==
  ASSUME NEW p \in Indexable, Kept(p), VaultMoved, UNCHANGED <<bcast, lagged, ver, lost, scan>>,
         index'[p] = index[p],
         \/ UNCHANGED cur
         \/ ~Storing(p) /\ ~Storing(p)' /\ (Doing(p) => Doing(p)'),
         \A j \in Range(jobs) \cup {hand} : JobLooksAt(j, p) => j \in Range(jobs') \cup {hand'}
  PROVE  Kept(p)'
  <1>1. CASE \E e \in Range(raw') : EventLooksAt(e, p)'
    BY <1>1 DEF Kept, Seen
  <1>2. CASE disk'[p] = disk[p]
    <2>1. Seen(p) => Seen(p)'
      BY <1>2, StillSeen DEF VaultMoved
    <2>2. Due(p) => Due(p)'
      BY <1>2, StillDue
    <2>3. QED
      BY <1>2, <2>1, <2>2, LeftAlone
  <1>3. QED
    BY <1>1, <1>2 DEF VaultMoved

\* A path that is no note never gets a row, but by the ways history records.
LEMMA NoRowStays ==
  ASSUME Typed, [Next]_vars, NEW p \in Path \ Indexable, Fresh(p) \/ p \in lost
  PROVE  (Fresh(p) \/ p \in lost)'
  <1>0. /\ TypeOK /\ CurOK /\ index \in [Path -> Row] /\ lost \subseteq Path
        /\ jobs # <<>> => JobOK(Head(jobs))
    <2>1. jobs \in Seq(Jobs) /\ \A j \in Range(jobs) : JobOK(j)
      BY DEF Typed, TypeOK, FlowOK
    <2>2. jobs # <<>> => Head(jobs) \in Range(jobs)
      BY <2>1, TailFacts
    <2>3. QED
      BY <2>1, <2>2 DEF Typed, TypeOK
  <1>1. Fresh(p) <=> index[p] = NoRow
    BY DEF Fresh, FreshIn
  <1>2. SUFFICES index'[p] = NoRow \/ p \in lost'
    BY DEF Fresh, FreshIn
  <1>3. CASE index'[p] \in {index[p], NoRow} /\ (p \in lost => p \in lost')
    BY <1>1, <1>3
  <1>4. CASE Environment
    <2>1. CASE Restart
      BY <2>1 DEF Restart
    <2>2. CASE ~Restart
      BY <1>3, <1>4, <2>2 DEF Environment, Write, CreateAt, RestoreNote, PanelRestore, Rename, MoveNote,
           Remove, DeleteNote, Expire, ReloadEmbedder, DateSweep, ReindexAll, Request, task, pipe
    <2>3. QED
      BY <2>1, <2>2
  <1>5. CASE Pipeline
    BY <1>3, <1>5 DEF Pipeline, DispatchOne, DropSuppressed, Broadcast, RouterRecv, RouterSend,
                      AppSend, AppResume, task
  <1>m. ASSUME NEW x \in Path, NEW y \in Path, index' = Rekeyed(x, y), ver' = ver,
               Forget({x, y})
        PROVE  index'[p] = NoRow \/ p \in lost'
    <2>1. CASE p \in {x, y}
      BY <1>m, <2>1 DEF Forget, FreshIn
    <2>2. CASE p \notin {x, y}
      BY <1>0, <1>1, <1>m, <2>2 DEF Rekeyed, Forget
    <2>3. QED
      BY <2>1, <2>2
  <1>6. CASE TakeJob
    <2> DEFINE j == Head(jobs)
    <2>0. jobs # <<>> /\ JobOK(j)
      BY <1>0, <1>6 DEF TakeJob
    <2> HIDE DEF j
    <2>1. CASE TakeUpsert(j)
      BY <1>3, <2>1 DEF TakeUpsert
    <2>2. CASE TakeCreated(j)
      <3> DEFINE to == InboxTo[j.p]
                 z == IF MoveRefused(j.p, to) THEN j.p ELSE to
      <3>1. j.p \in Path /\ z \in Path
        BY <2>0, <2>2, IndexSyncAssumption DEF TakeCreated, JobOK
      <3>2. /\ z = j.p => UNCHANGED <<index, lost>>
            /\ z # j.p => MoveOnDisk(j.p, z)
            /\ UNCHANGED ver
        BY <2>2 DEF TakeCreated
      <3> HIDE DEF z
      <3>3. QED
        BY <1>3, <1>m, <3>1, <3>2 DEF MoveOnDisk
    <2>3. CASE TakeDelete(j)
      BY <1>0, <1>3, <2>3 DEF TakeDelete, DeleteRow, Forget
    <2>4. CASE TakeRename(j)
      <3>1. j.p \in Path /\ j.q \in Path
        BY <2>0, <2>4 DEF TakeRename, JobOK
      <3>2. CASE UNCHANGED index
        BY <1>3, <2>4, <3>2 DEF TakeRename, Forget
      <3>3. CASE index' = Rekeyed(j.p, j.q) /\ Forget({j.p, j.q})
        <4>1. ver' = ver
          BY <2>4 DEF TakeRename
        <4>2. QED
          BY <1>m, <3>1, <3>3, <4>1
      <3>4. QED
        BY <2>4, <3>2, <3>3 DEF TakeRename
    <2>5. CASE TakeMove(j)
      <3>1. j.p \in Path /\ j.q \in Path /\ ver' = ver
        BY <2>0, <2>5 DEF TakeMove, JobOK
      <3>2. UNCHANGED <<index, lost>> \/ MoveOnDisk(j.p, j.q)
        BY <2>5 DEF TakeMove
      <3>3. QED
        BY <1>3, <1>m, <3>1, <3>2 DEF MoveOnDisk
    <2>6. CASE TakeScan(j)
      <3>1. UNCHANGED <<index, disk, ver>>
        BY <2>6 DEF TakeScan
      <3>2. CASE index[p] = NoRow
        BY <3>1, <3>2
      <3>3. CASE index[p] # NoRow
        <4>1. p \in lost /\ ~Fresh(p)
          BY <1>1, <3>3
        <4>2. QED
          BY <2>6, <4>1 DEF TakeScan
      <3>4. QED
        BY <3>2, <3>3
    <2>7. CASE TakeReload(j)
      <3>1. index'[p] = index[p] \/ HasRow(p) \/ index'[p] = NoRow
        BY <2>7 DEF TakeReload
      <3>2. lost' = lost
        BY <2>7 DEF TakeReload
      <3>3. QED
        BY <1>1, <3>1, <3>2 DEF HasRow
    <2>8. CASE TakeTrash(j)
      BY <1>0, <1>3, <2>8 DEF TakeTrash
    <2>9. CASE TakeRestore(j) \/ TakeSweep(j)
      BY <1>3, <2>9 DEF TakeRestore, TakeSweep
    <2>10. QED
      BY <1>6, <2>1, <2>2, <2>3, <2>4, <2>5, <2>6, <2>7, <2>8, <2>9 DEF TakeJob, j
  <1>7. CASE LoadModel \/ DrainOnFailure \/ LinksDone \/ SelfSend
             \/ (\E r \in Path, c \in Good : Rewrite(r, c))
    BY <1>3, <1>7 DEF LoadModel, DrainOnFailure, LinksDone, SelfSend, Rewrite
  <1>8. CASE ScanStep
    BY <1>0, <1>3, <1>8 DEF ScanStep, DeleteRow, Forget
  <1>9. CASE Read
    <2>1. CASE cur.p \notin Indexable
      BY <1>3, <1>9, <2>1 DEF Read
    <2>2. CASE cur.p \in Indexable
      <3>1. p # cur.p
        BY <2>2
      <3>2. index'[p] = index[p] /\ (p \in lost => p \in lost')
        BY <1>0, <1>9, <2>2, <3>1 DEF Read
      <3>3. QED
        BY <1>3, <3>2
    <2>3. QED
      BY <2>1, <2>2
  <1>10. CASE Store
    <2>1. cur.p # p /\ lost' = lost
      BY <1>0, <1>10 DEF Store, CurOK
    <2>2. index'[p] = index[p]
      BY <1>0, <1>10, <2>1 DEF Store, Stored
    <2>3. QED
      BY <1>3, <2>1, <2>2
  <1>f. CASE UpsertFails
    <2>1. cur.p # p
      BY <1>0, <1>f DEF UpsertFails, CurOK
    <2>2. index'[p] = index[p] /\ (p \in lost => p \in lost')
      BY <1>0, <1>f, <2>1 DEF UpsertFails, Stored, Forget
    <2>3. QED
      BY <1>3, <2>2
  <1>11. CASE UNCHANGED vars
    BY <1>3, <1>11 DEF vars
  <1>12. QED
    BY <1>4, <1>5, <1>6, <1>7, <1>8, <1>9, <1>10, <1>f, <1>11 DEF Next, Indexer

\* The vault's writers and the host's requests.
LEMMA OutsideKeeps ==
  ASSUME Typed, Environment, NEW p \in Indexable, Kept(p)
  PROVE  Kept(p)'
  <1>w. ASSUME VaultMoved, UNCHANGED <<bcast, lagged, hand, jobs, cur, scan, index, ver, lost>>
        PROVE  Kept(p)'
    BY <1>w, KeptByWriters
  <1>v. ASSUME UNCHANGED <<disk, raw>>
        PROVE  VaultMoved
    BY <1>v DEF VaultMoved
  <1>1. ASSUME NEW r \in Path, NEW c \in Content, Write(r, c) \/ CreateAt(r, c) \/ PanelRestore(r, c)
        PROVE  Kept(p)'
    <2>1. UNCHANGED <<bcast, lagged, hand, jobs, cur, scan, index, ver, lost>>
      BY <1>1 DEF Write, CreateAt, PanelRestore, Request, task, pipe
    <2>2. CASE Write(r, c)
      <3> DEFINE k == IF disk[r] = Absent THEN "created" ELSE "modified"
      <3>1. /\ k \in {"created", "modified", "deleted"} /\ disk' = [disk EXCEPT ![r] = c]
            /\ Raise(Event(k, r, NoPath))
        BY <2>2 DEF Write
      <3> HIDE DEF k
      <3>2. EventOK(Event(k, r, NoPath))
        BY <3>1, EventsOK
      <3>3. raw' = Append(raw, Event(k, r, NoPath)) => VaultMoved
        BY <3>1, VaultWritten
      <3>4. QED
        BY <1>w, <2>1, <3>1, <3>2, <3>3, VaultRaised
    <2>3. CASE CreateAt(r, c) \/ PanelRestore(r, c)
      <3>1. disk' = [disk EXCEPT ![r] = c] /\ raw' = Append(raw, Event("created", r, NoPath))
        BY <2>3 DEF CreateAt, PanelRestore, Request
      <3>2. VaultMoved
        BY <3>1, VaultWritten
      <3>3. QED
        BY <1>w, <2>1, <3>2
    <2>4. QED
      BY <1>1, <2>2, <2>3
  <1>2. ASSUME NEW r \in Path, Remove(r)
        PROVE  Kept(p)'
    <2>1. /\ UNCHANGED <<bcast, lagged, hand, jobs, cur, scan, index, ver, lost>>
          /\ disk' = [disk EXCEPT ![r] = Absent] /\ Raise(Event("deleted", r, NoPath))
      BY <1>2 DEF Remove, task, pipe
    <2>2. EventOK(Event("deleted", r, NoPath))
      BY EventsOK
    <2>3. raw' = Append(raw, Event("deleted", r, NoPath)) => VaultMoved
      BY <2>1, VaultWritten
    <2>4. QED
      BY <1>w, <2>1, <2>2, <2>3, VaultRaised
  <1>3. ASSUME NEW r \in Path, NEW q \in Path, Rename(r, q)
        PROVE  Kept(p)'
    <2>1. /\ UNCHANGED <<bcast, lagged, hand, jobs, cur, scan, index, ver, lost>>
          /\ disk' = Renamed(disk, r, q) /\ Raise(Event("renamed", r, q)) /\ q \in Path \ {r}
      BY <1>3 DEF Rename, task, pipe
    <2>2. EventOK(Event("renamed", r, q))
      BY <2>1, EventsOK
    <2>3. raw' = Append(raw, Event("renamed", r, q)) => VaultMoved
      BY <2>1, VaultRenamed
    <2>4. QED
      BY <1>w, <2>1, <2>2, <2>3, VaultRaised
  <1>4. ASSUME NEW name, NEW j, NEW s, Request(name, j, s, disk, raw)
        PROVE  Kept(p)'
    <2>1. UNCHANGED <<disk, raw, bcast, lagged, hand, jobs, cur, scan, index, ver, lost>>
      BY <1>4 DEF Request, task
    <2>2. QED
      BY <1>v, <1>w, <2>1
  <1>5. CASE \/ \E r \in Path, c \in Content : RestoreNote(r, c)
             \/ \E r, q \in Path : MoveNote(r, q)
             \/ \E r \in Path : DeleteNote(r)
             \/ ReloadEmbedder \/ DateSweep \/ ReindexAll
    BY <1>4, <1>5 DEF RestoreNote, MoveNote, DeleteNote, ReloadEmbedder, DateSweep, ReindexAll
  <1>6. ASSUME NEW r \in Path, Expire(r)
        PROVE  Kept(p)'
    BY <1>v, <1>w, <1>6 DEF Expire, task
  <1>7. CASE Restart
    BY <1>7, IndexSyncAssumption DEF Restart, Kept
  <1>8. QED
    BY <1>1, <1>2, <1>3, <1>5, <1>6, <1>7 DEF Environment

\* The job an event becomes looks where the event looked.
LEMMA TranslationLooks ==
  ASSUME NEW e, EventOK(e), NEW p \in Indexable, EventLooksAt(e, p)
  PROVE  JobLooksAt(JobOf(e), p)
  <1>0. p # NoPath /\ p \in Path
    BY IndexSyncAssumption
  <1>1. CASE e.k = "overflow"
    BY <1>1 DEF JobOf, JobLooksAt, FullScan, Job
  <1>2. CASE e.k = "renamed"
    <2>1. Touched(e) \cap Indexable # {}
      BY <1>0, <1>2 DEF EventLooksAt, NamesIt, Touched
    <2>2. JobOf(e) = Job("rename", e.p, e.q, FALSE)
      BY <1>2, <2>1 DEF JobOf
    <2>3. QED
      BY <1>2, <2>2 DEF EventLooksAt, JobLooksAt, NamesIt, Job
  <1>3. CASE e.k \in {"created", "modified", "deleted"}
    <2>1. e.p = p
      BY <1>3 DEF EventLooksAt, NamesIt
    <2>2. JobOf(e) \in {Job("created", p, NoPath, FALSE), Job("upsert", p, NoPath, FALSE),
                       Job("delete", p, NoPath, FALSE)}
      BY <1>3, <2>1 DEF JobOf, UpsertOf
    <2>3. QED
      BY <2>2 DEF JobLooksAt, NamesIt, Job
  <1>4. QED
    BY <1>1, <1>2, <1>3 DEF EventOK, Events

\* The watcher's bridge, the router and the host's sends.
LEMMA PipelineKeeps ==
  ASSUME Typed, Pipeline, NEW p \in Indexable, Kept(p)
  PROVE  Kept(p)'
  <1>0. /\ TypeOK /\ FlowOK /\ p \in Path
        /\ raw \in Seq(Events) /\ bcast \in Seq(Events) /\ jobs \in Seq(Jobs)
    BY IndexSyncAssumption DEF Typed, TypeOK
  <1>1. CASE DispatchOne
    <2> DEFINE e == Head(raw)
    <2>1. /\ raw # <<>> /\ EventOK(e) /\ Range(raw) = Range(raw') \cup {e}
      BY <1>0, <1>1, TailFacts DEF DispatchOne, FlowOK
    <2>2. UNCHANGED <<disk, index, ver, cur, scan, jobs, hand>>
      BY <1>1 DEF DispatchOne, task
    <2>d. Due(p) => Due(p)'
      BY <2>2, StillDue
    <2>3. CASE DropSuppressed(e)
      <3>1. UNCHANGED <<bcast, lagged>> /\ e.k # "overflow"
            /\ lost' = lost \cup {x \in Touched(e) : ~Fresh(x) \/ Storing(x)}
        BY <2>1, <2>3 DEF DropSuppressed, Touched, EventOK, Storing
      <3>2. CASE p \in lost'
        BY <3>2 DEF Kept
      <3>3. CASE p \notin lost' /\ p \in Touched(e)
        <4>1. Settled(p)'
          BY <2>2, <3>1, <3>3 DEF Settled, Fresh, FreshIn, Storing
        <4>2. QED
          BY <4>1 DEF Kept
      <3>4. CASE p \notin lost' /\ p \notin Touched(e)
        <4>1. ~EventLooksAt(e, p)
          BY <2>1, <3>1, <3>4, <1>0, IndexSyncAssumption DEF EventLooksAt, NamesIt, Touched
        <4>2. Seen(p) => Seen(p)'
          BY <2>1, <2>2, <3>1, <4>1 DEF Seen, EventLooksAt, NamesIt
        <4>3. QED
          BY <2>2, <2>d, <3>1, <4>2, LeftAlone
      <3>5. QED
        BY <3>2, <3>3, <3>4
    <2>4. CASE Broadcast(e)
      <3>1. Seen(p) => Seen(p)'
        <4>1. CASE Len(bcast) = EventCap
          BY <2>4, <4>1 DEF Broadcast, Seen
        <4>2. CASE Len(bcast) # EventCap
          <5> DEFINE w == Append(bcast, e)
          <5>1. Range(w) = Range(bcast) \cup {e}
            BY <1>0, <2>1, AppendFacts DEF EventOK
          <5>2. bcast' = w
            BY <2>4, <4>2 DEF Broadcast
          <5> HIDE DEF w, e
          <5>3. Range(raw) \cup Range(bcast) \subseteq Range(raw') \cup Range(bcast')
            BY <2>1, <5>1, <5>2
          <5>4. lagged => lagged'
            BY <2>4 DEF Broadcast
          <5>5. QED
            BY <2>2, <5>3, <5>4, StillSeen
        <4>3. QED
          BY <4>1, <4>2
      <3>2. QED
        BY <2>2, <2>4, <2>d, <3>1, LeftAlone DEF Broadcast
    <2>5. QED
      BY <1>1, <2>3, <2>4 DEF DispatchOne
  <1>2. CASE RouterRecv
    <2>1. UNCHANGED <<disk, raw, index, ver, cur, scan, jobs, lost>> /\ hand = NoJob
      BY <1>2 DEF RouterRecv, task
    <2>2. CASE hand' = FullScan(FALSE)
      BY <2>2, Looks DEF Kept, Due, JobLooksAt, NamesIt, FullScan, Job
    <2>3. CASE ~lagged /\ bcast # <<>> /\ bcast' = Tail(bcast) /\ hand' = JobOf(Head(bcast)) /\ UNCHANGED lagged
      <3> DEFINE e == Head(bcast)
      <3>1. /\ EventOK(e) /\ Range(bcast) = Range(bcast') \cup {e} /\ hand' = JobOf(e)
        BY <1>0, <2>3, TailFacts DEF FlowOK
      <3> HIDE DEF e
      <3>2. Due(p) => Due(p)'
        BY <2>1, Looks DEF Due, JobLooksAt, NamesIt
      <3>3. Seen(p) => Seen(p)' \/ EventLooksAt(e, p)
        BY <2>1, <2>3, <3>1 DEF Seen, EventLooksAt, NamesIt
      <3>4. EventLooksAt(e, p) => Due(p)'
        BY <2>1, <3>1, TranslationLooks DEF Due, JobLooksAt, NamesIt
      <3>5. CASE EventLooksAt(e, p)
        BY <3>4, <3>5 DEF Kept
      <3>6. CASE ~EventLooksAt(e, p)
        BY <2>1, <3>2, <3>3, <3>6, LeftAlone
      <3>7. QED
        BY <3>5, <3>6
    <2>4. QED
      BY <1>2, <2>2, <2>3 DEF RouterRecv
  <1>3. ASSUME NEW j \in Jobs, jobs' = Append(jobs, j),
               UNCHANGED <<disk, raw, bcast, lagged, index, ver, cur, scan, lost>>,
               hand' = hand \/ (hand = j /\ hand' = NoJob)
        PROVE  Kept(p)'
    <2> DEFINE w == Append(jobs, j)
    <2>1. Range(w) = Range(jobs) \cup {j}
      BY <1>0, AppendFacts
    <2>2. jobs' = w
      BY <1>3
    <2> HIDE DEF w
    <2>3. Due(p) => Due(p)'
      BY <1>3, <2>1, <2>2, StillDue
    <2>4. Seen(p) => Seen(p)'
      BY <1>3, StillSeen
    <2>5. QED
      BY <1>3, <2>3, <2>4, LeftAlone
  <1>4. CASE RouterSend
    BY <1>0, <1>3, <1>4 DEF RouterSend, TypeOK
  <1>5. CASE AppSend
    <2> DEFINE j == app.job
    <2>1. j \in Jobs /\ jobs' = Append(jobs, j)
      BY <1>0, <1>5 DEF AppSend, TypeOK
    <2>2. UNCHANGED <<disk, raw, bcast, lagged, index, ver, cur, scan, lost, hand>>
      BY <1>5 DEF AppSend, pipe
    <2> HIDE DEF j
    <2>3. QED
      BY <1>3, <2>1, <2>2
  <1>6. CASE AppResume
    <2>1. UNCHANGED <<disk, raw, bcast, lagged, hand, jobs, cur, scan, index, ver, lost>>
      BY <1>6 DEF AppResume, task
    <2>2. VaultMoved
      BY <2>1 DEF VaultMoved
    <2>3. QED
      BY <2>1, <2>2, KeptByWriters
  <1>7. QED
    BY <1>1, <1>2, <1>4, <1>5, <1>6 DEF Pipeline

\* A file that is gone, and its row too, is settled.
LEMMA GoneIsSettled ==
  ASSUME NEW p, disk'[p] = Absent, index'[p] = NoRow, ~Storing(p)'
  PROVE  Settled(p)'
  BY IndexSyncAssumption DEF Settled, Storing, Fresh, FreshIn

\* A path a job gave up on is right as it stands, or history calls it lost.
LEMMA Forgotten ==
  ASSUME NEW ps, NEW p \in ps, Forget(ps), ver' = ver, cur'.op # "store"
  PROVE  Kept(p)'
  BY DEF Forget, Kept, Settled, Fresh

\* The task takes a job: what the job would have looked at is looked at now,
\* is right already, or history calls it lost.
LEMMA TakeKeeps ==
  ASSUME Typed, TakeJob, NEW p \in Indexable, Kept(p)
  PROVE  Kept(p)'
  <1> DEFINE j == Head(jobs)
             t == Tail(jobs)
  <1>0. /\ TypeOK /\ p \in Path /\ cur = Idle /\ scan.up = {} /\ scan.del = {} /\ jobs # <<>>
        /\ UNCHANGED <<bcast, lagged, hand>>
        /\ disk \in [Path -> Content \cup {Absent}] /\ index \in [Path -> Row]
    BY IndexSyncAssumption DEF Typed, TypeOK, TakeJob
  <1>1. /\ JobOK(j) /\ t \in Seq(Jobs) /\ Range(jobs) = Range(t) \cup {j}
    <2>1. jobs \in Seq(Jobs) /\ \A x \in Range(jobs) : JobOK(x)
      BY DEF Typed, TypeOK, FlowOK
    <2>2. QED
      BY <1>0, <2>1, TailFacts
  <1> HIDE DEF j, t
  <1>2. /\ Settled(p) <=> Fresh(p)
        /\ ~Doing(p) /\ ~Storing(p)
    BY <1>0 DEF Settled, Doing, Storing, Idle
  \* a job that does not look at p goes, and p's file and row are as they were
  <1>a. ASSUME ~JobLooksAt(j, p), Range(t) \subseteq Range(jobs'), disk'[p] = disk[p],
               index'[p] = index[p], ver' = ver, p \in lost => p \in lost',
               Range(raw) \subseteq Range(raw'), cur' = Idle \/ ~Storing(p)'
        PROVE  Kept(p)'
    <2>1. Due(p) => Due(p)'
      BY <1>0, <1>1, <1>a, StillDue
    <2>2. Seen(p) => Seen(p)'
      BY <1>0, <1>a, StillSeen
    <2>3. ~Storing(p)'
      BY <1>a DEF Storing, Idle
    <2>4. QED
      BY <1>0, <1>2, <1>a, <2>1, <2>2, <2>3, LeftAlone
  \* a job that wrote the vault
  <1>b. ASSUME ~JobLooksAt(j, p), Range(t) \subseteq Range(jobs'), VaultMoved,
               index'[p] = index[p], ver' = ver, lost' = lost, cur' = Idle \/ ~Storing(p)'
        PROVE  Kept(p)'
    <2>1. CASE \E e \in Range(raw') : EventLooksAt(e, p)'
      BY <2>1 DEF Kept, Seen
    <2>2. CASE disk'[p] = disk[p]
      BY <1>a, <1>b, <2>2 DEF VaultMoved
    <2>3. QED
      BY <1>b, <2>1, <2>2 DEF VaultMoved
  \* a job that moved a note and its row
  <1>m. ASSUME NEW x \in Path, NEW y \in Path \ {x}, MoveOnDisk(x, y), ver' = ver, jobs' = t,
               JobLooksAt(j, p) => p = x, ~Storing(p)'
        PROVE  Kept(p)'
    <2>1. VaultMoved
      BY <1>m, VaultRenamed DEF MoveOnDisk
    <2>2. CASE p \in {x, y}
      <3> DEFINE e == Event("renamed", x, y)
                 w == Append(raw, e)
      <3>1. EventOK(e) /\ raw \in Seq(Events)
        BY <1>0, EventsOK DEF TypeOK
      <3>2. disk'[x] = Absent
        BY <1>0, <1>m DEF MoveOnDisk, Renamed
      <3>3. raw' = w /\ EventLooksAt(e, p)'
        BY <1>m, <2>2, <3>2 DEF MoveOnDisk, EventLooksAt, NamesIt, Event
      <3> HIDE DEF e
      <3>4. Range(w) = Range(raw) \cup {e}
        BY <3>1, AppendFacts DEF EventOK
      <3> HIDE DEF w
      <3>5. QED
        BY <3>3, <3>4 DEF Kept, Seen
    <2>3. CASE p \notin {x, y}
      <3>1. disk'[p] = disk[p] /\ index'[p] = index[p] /\ (p \in lost => p \in lost')
        BY <1>0, <1>m, <2>3 DEF MoveOnDisk, Renamed, Rekeyed, Forget
      <3>2. QED
        BY <1>a, <1>m, <2>1, <2>3, <3>1 DEF VaultMoved
    <2>4. QED
      BY <2>2, <2>3
  <1>3. CASE TakeUpsert(j) /\ jobs' = t
    <2>1. cur'.op = "read" /\ cur'.p = j.p /\ UNCHANGED <<disk, raw, index, ver, lost>>
      BY <1>3 DEF TakeUpsert, Upserting, Idle
    <2>2. CASE p = j.p
      BY <2>1, <2>2 DEF Kept, Doing
    <2>3. CASE p # j.p
      BY <1>3, <1>a, <2>1, <2>3 DEF TakeUpsert, JobLooksAt, NamesIt, Storing
    <2>4. QED
      BY <2>2, <2>3
  <1>4. CASE TakeCreated(j) /\ jobs' = t
    <2> DEFINE to == InboxTo[j.p]
               z == IF MoveRefused(j.p, to) THEN j.p ELSE to
    <2>1. j.p \in Path /\ z \in Path
      BY <1>1, <1>4, IndexSyncAssumption DEF TakeCreated, JobOK
    <2>2. /\ cur' = Upserting(z, FALSE, TRUE) /\ UNCHANGED ver
          /\ z = j.p => UNCHANGED <<disk, raw, index, lost>>
          /\ z # j.p => MoveOnDisk(j.p, z)
      BY <1>4 DEF TakeCreated
    <2> HIDE DEF z
    <2>3. cur'.op = "read" /\ cur'.p = z
      BY <2>2 DEF Upserting, Idle
    <2>4. JobLooksAt(j, p) => p = j.p
      BY <1>4 DEF TakeCreated, JobLooksAt, NamesIt
    <2>5. CASE z = p
      BY <2>3, <2>5 DEF Kept, Doing
    <2>6. CASE z # p /\ z = j.p
      BY <1>4, <1>a, <2>2, <2>3, <2>4, <2>6 DEF Storing
    <2>7. CASE z # j.p
      BY <1>4, <1>m, <2>1, <2>2, <2>3, <2>4, <2>7 DEF Storing
    <2>8. QED
      BY <2>5, <2>6, <2>7
  <1>5. CASE TakeDelete(j) /\ jobs' = t
    <2>1. UNCHANGED <<disk, raw, cur, ver>> /\ DeleteRow(j.p)
      BY <1>5 DEF TakeDelete
    <2>2. CASE p = j.p
      <3>1. cur'.op # "store" /\ Forget({p}) /\ ver' = ver
        BY <1>0, <2>1, <2>2 DEF DeleteRow, Idle
      <3>2. QED
        BY <3>1, Forgotten
    <2>3. CASE p # j.p
      <3>1. index'[p] = index[p] /\ (p \in lost => p \in lost')
        BY <1>0, <2>1, <2>3 DEF DeleteRow, Forget
      <3>2. ~JobLooksAt(j, p)
        BY <1>5, <2>3 DEF TakeDelete, JobLooksAt, NamesIt
      <3>3. QED
        BY <1>0, <1>5, <1>a, <2>1, <3>1, <3>2
    <2>4. QED
      BY <2>2, <2>3
  <1>6. CASE TakeRename(j) /\ jobs' = t
    <2>0. /\ j.p \in Path /\ j.q \in Path \ {j.p} /\ j.k = "rename"
          /\ UNCHANGED <<disk, raw, ver>>
      BY <1>1, <1>6 DEF TakeRename, JobOK
    <2>1. JobLooksAt(j, p) => (p = j.p /\ disk[p] = Absent) \/ p = j.q
      BY <2>0 DEF JobLooksAt, NamesIt
    <2>2. CASE UNCHANGED <<index, cur>> /\ Forget({j.p, j.q})
      <3>1. CASE p \in {j.p, j.q}
        <4>1. cur'.op # "store"
          BY <1>0, <2>2 DEF Idle
        <4>2. QED
          BY <2>0, <2>2, <3>1, <4>1, Forgotten
      <3>2. CASE p \notin {j.p, j.q}
        <4>1. p \in lost => p \in lost'
          BY <2>2 DEF Forget
        <4>2. QED
          BY <1>0, <1>6, <1>a, <2>0, <2>1, <2>2, <3>2, <4>1
      <3>3. QED
        BY <3>1, <3>2
    <2>3. CASE /\ index' = Rekeyed(j.p, j.q) /\ cur' = Sweeping(j.q, FALSE)
               /\ Forget({j.p, j.q})
      <3>0. cur'.op = "links"
        BY <2>3 DEF Sweeping, Idle
      <3>1. CASE p \in {j.p, j.q}
        BY <2>0, <2>3, <3>0, <3>1, Forgotten
      <3>2. CASE p \notin {j.p, j.q}
        <4>1. index'[p] = index[p] /\ (p \in lost => p \in lost')
          BY <1>0, <2>0, <2>3, <3>2 DEF Rekeyed, Forget
        <4>2. QED
          BY <1>6, <1>a, <2>0, <2>1, <3>0, <3>2, <4>1 DEF Storing
      <3>3. QED
        BY <3>1, <3>2
    <2>4. CASE /\ ~HasRow(j.p)
               /\ cur' = Upserting(j.q, FALSE, FALSE) /\ UNCHANGED <<index, lost>>
      <3>0. cur'.op = "read" /\ cur'.p = j.q
        BY <2>4 DEF Upserting, Idle
      <3>1. CASE p = j.q
        BY <3>0, <3>1 DEF Kept, Doing
      <3>2. CASE p = j.p /\ disk[p] = Absent
        <4>1. index[p] = NoRow
          BY <2>4, <3>2 DEF HasRow
        <4>2. Settled(p)'
          BY <2>0, <2>4, <3>0, <3>2, <4>1, GoneIsSettled DEF Storing
        <4>3. QED
          BY <4>2 DEF Kept
      <3>3. CASE p # j.q /\ ~(p = j.p /\ disk[p] = Absent)
        BY <1>6, <1>a, <2>0, <2>1, <2>4, <3>0, <3>3 DEF Storing
      <3>4. QED
        BY <3>1, <3>2, <3>3
    <2>5. QED
      BY <1>6, <2>2, <2>3, <2>4 DEF TakeRename
  <1>7. CASE TakeMove(j) /\ jobs' = t
    <2>0. /\ j.p \in Path /\ j.q \in Path \ {j.p} /\ ~JobLooksAt(j, p) /\ ver' = ver
      BY <1>1, <1>7 DEF TakeMove, JobOK, JobLooksAt
    <2>1. CASE MoveRefused(j.p, j.q)
      BY <1>0, <1>7, <1>a, <2>0, <2>1 DEF TakeMove
    <2>2. CASE ~MoveRefused(j.p, j.q)
      <3>1. MoveOnDisk(j.p, j.q) /\ cur'.op = "links"
        BY <1>7, <2>2 DEF TakeMove, Sweeping, Idle
      <3>2. QED
        BY <1>7, <1>m, <2>0, <3>1 DEF Storing
    <2>3. QED
      BY <2>1, <2>2
  <1>8. CASE TakeScan(j) /\ jobs' = t
    <2>1. UNCHANGED <<disk, index, ver, cur>>
      BY <1>8 DEF TakeScan
    <2>2. CASE p \in scan'.del \cup scan'.up
      BY <2>2 DEF Kept, Doing
    <2>3. CASE p \notin scan'.del \cup scan'.up /\ ~Fresh(p)
      <3>1. p \in lost'
        BY <1>0, <1>8, <2>3 DEF TakeScan
      <3>2. QED
        BY <3>1 DEF Kept
    <2>4. CASE Fresh(p)
      <3>1. Settled(p)'
        BY <1>0, <2>1, <2>4 DEF Settled, Fresh, FreshIn, Idle
      <3>2. QED
        BY <3>1 DEF Kept
    <2>5. QED
      BY <2>2, <2>3, <2>4
  <1>9. CASE TakeReload(j) /\ jobs' = t
    <2>1. CASE cur' = [Idle EXCEPT !.op = "sendscan"]
      BY <2>1 DEF Kept, Doing, Idle
    <2>2. CASE UNCHANGED <<ver, cur, index>>
      BY <1>0, <1>9, <1>a, <2>2 DEF TakeReload, JobLooksAt
    <2>3. QED
      BY <1>9, <2>1, <2>2 DEF TakeReload
  <1>10. CASE TakeTrash(j) /\ jobs' = t
    <2>0. j.p \in Path /\ ~JobLooksAt(j, p) /\ UNCHANGED <<cur, ver, lost>>
      BY <1>1, <1>10 DEF TakeTrash, JobOK, JobLooksAt
    <2>1. CASE disk[j.p] = Absent
      BY <1>0, <1>10, <1>a, <2>0, <2>1 DEF TakeTrash
    <2>2. CASE disk[j.p] # Absent
      <3>1. VaultMoved
        BY <1>10, <2>0, <2>2, VaultWritten DEF TakeTrash
      <3>2. CASE p = j.p
        <4>1. disk'[p] = Absent /\ index'[p] = NoRow
          BY <1>0, <1>10, <2>2, <3>2 DEF TakeTrash
        <4>2. Settled(p)'
          BY <1>0, <2>0, <4>1, GoneIsSettled DEF Storing, Idle
        <4>3. QED
          BY <4>2 DEF Kept
      <3>3. CASE p # j.p
        <4>1. index'[p] = index[p]
          BY <1>0, <1>10, <2>2, <3>3 DEF TakeTrash
        <4>2. QED
          BY <1>0, <1>10, <1>b, <2>0, <3>1, <4>1
      <3>4. QED
        BY <3>2, <3>3
    <2>3. QED
      BY <2>1, <2>2
  <1>11. CASE TakeRestore(j) /\ jobs' = t
    <2>0. j.p \in Path /\ ~JobLooksAt(j, p) /\ UNCHANGED <<index, ver, lost>>
      BY <1>1, <1>11 DEF TakeRestore, JobOK, JobLooksAt
    <2>1. CASE disk[j.p] # Absent
      BY <1>0, <1>11, <1>a, <2>0, <2>1 DEF TakeRestore
    <2>2. CASE disk[j.p] = Absent
      <3>1. VaultMoved
        BY <1>11, <2>0, <2>2, VaultWritten DEF TakeRestore
      <3>2. cur'.op = "read"
        BY <1>11, <2>2 DEF TakeRestore, Upserting, Idle
      <3>3. QED
        BY <1>11, <1>b, <2>0, <3>1, <3>2 DEF Storing
    <2>3. QED
      BY <2>1, <2>2
  <1>12. CASE TakeSweep(j)
    <2>0. ~JobLooksAt(j, p) /\ UNCHANGED <<cur, index, ver, lost>>
      BY <1>12 DEF TakeSweep, JobLooksAt
    <2>1. CASE UNCHANGED <<disk, raw>> /\ jobs' = t
      BY <1>0, <1>a, <2>0, <2>1
    <2>2. ASSUME NEW q \in Indexable, NEW c \in Good, RuleWrite(q, c, t)
          PROVE  Kept(p)'
      <3>1. /\ disk' = [disk EXCEPT ![q] = c] /\ raw' = Append(raw, Event("modified", q, NoPath))
            /\ q \in Path
        BY <2>2, IndexSyncAssumption DEF RuleWrite
      <3>2. VaultMoved
        BY <3>1, VaultWritten
      <3>3. Range(t) \subseteq Range(jobs')
        <4> DEFINE u == UpsertOf(q)
                   w == Append(t, u)
        <4>1. JobOK(u)
          BY <3>1, JobsOK
        <4>2. jobs' = t \/ jobs' = w
          BY <2>2 DEF RuleWrite
        <4> HIDE DEF u
        <4>3. Range(w) = Range(t) \cup {u}
          BY <1>1, <4>1, AppendFacts DEF JobOK
        <4> HIDE DEF w
        <4>4. QED
          BY <4>2, <4>3
      <3>4. QED
        BY <1>0, <1>b, <2>0, <3>2, <3>3
    <2>3. QED
      BY <1>12, <2>1, <2>2 DEF TakeSweep, t
  <1>13. QED
    BY <1>3, <1>4, <1>5, <1>6, <1>7, <1>8, <1>9, <1>10, <1>11, <1>12 DEF TakeJob, j, t

\* The other steps of the task.
LEMMA WorkKeeps ==
  ASSUME Typed, NEW p \in Indexable, up # "failed" => Kept(p),
         \/ LoadModel \/ DrainOnFailure \/ ScanStep \/ Read \/ Store \/ UpsertFails
         \/ LinksDone \/ SelfSend
         \/ \E r \in Path, c \in Good : Rewrite(r, c)
  PROVE  up' # "failed" => Kept(p)'
  <1>0. /\ TypeOK /\ CurOK /\ p \in Path
        /\ disk \in [Path -> Content \cup {Absent}] /\ index \in [Path -> Row]
        /\ jobs \in Seq(Jobs)
    BY IndexSyncAssumption DEF Typed, TypeOK
  <1>a. ASSUME Kept(p), disk'[p] = disk[p], index'[p] = index[p], p \in lost => p \in lost',
               UNCHANGED <<raw, bcast, lagged, hand, ver>>,
               \A x \in Range(jobs) : x \in Range(jobs'),
               \/ UNCHANGED cur
               \/ ~Storing(p) /\ ~Storing(p)' /\ (Doing(p) => Doing(p)'),
               p \in scan.up \cup scan.del => p \in scan'.up \cup scan'.del
        PROVE  Kept(p)'
    <2>1. Due(p) => Due(p)'
      BY <1>a, StillDue
    <2>2. Seen(p) => Seen(p)'
      BY <1>a, StillSeen
    <2>3. QED
      BY <1>a, <2>1, <2>2, LeftAlone
  <1>1. CASE LoadModel
    <2>1. UNCHANGED <<disk, raw, bcast, lagged, hand, jobs, cur, scan, index, ver, lost>> /\ up = "loading"
      BY <1>1 DEF LoadModel, pipe
    <2>2. QED
      BY <1>a, <2>1
  <1>2. CASE DrainOnFailure
    BY <1>2 DEF DrainOnFailure
  <1>k. ASSUME ~LoadModel, ~DrainOnFailure
        PROVE  up' = up
    BY <1>k DEF ScanStep, Read, Store, UpsertFails, LinksDone, SelfSend, Rewrite
  <1>3. ASSUME ScanStep, Kept(p)
        PROVE  Kept(p)'
    <2>0. cur = Idle /\ UNCHANGED <<disk, raw, bcast, lagged, hand, jobs, ver>>
      BY <1>3 DEF ScanStep, pipe
    <2>1. ASSUME NEW x \in scan.del, scan' = [scan EXCEPT !.del = @ \ {x}], DeleteRow(x), UNCHANGED cur
          PROVE  Kept(p)'
      <3>1. CASE p = x
        <4>1. cur'.op # "store" /\ Forget({p})
          BY <2>0, <2>1, <3>1 DEF DeleteRow, Idle
        <4>2. QED
          BY <2>0, <4>1, Forgotten
      <3>2. CASE p # x
        <4>1. index'[p] = index[p] /\ (p \in lost => p \in lost')
          BY <1>0, <2>1, <3>2 DEF DeleteRow, Forget
        <4>2. p \in scan.up \cup scan.del => p \in scan'.up \cup scan'.del
          BY <1>0, <2>1, <3>2 DEF TypeOK
        <4>3. QED
          BY <1>3, <1>a, <2>0, <2>1, <4>1, <4>2
      <3>3. QED
        BY <3>1, <3>2
    <2>2. ASSUME NEW x \in scan.up, scan' = [scan EXCEPT !.up = @ \ {x}],
                 cur' = Upserting(x, scan.force, TRUE), UNCHANGED <<index, lost>>
          PROVE  Kept(p)'
      <3>0. cur'.op = "read" /\ cur'.p = x
        BY <2>2 DEF Upserting, Idle
      <3>1. CASE p = x
        BY <3>0, <3>1 DEF Kept, Doing
      <3>2. CASE p # x
        <4>1. p \in scan.up \cup scan.del => p \in scan'.up \cup scan'.del
          BY <1>0, <2>2, <3>2 DEF TypeOK
        <4>2. /\ ~Storing(p) /\ ~Storing(p)'
              /\ Doing(p) => Doing(p)'
          BY <2>0, <3>0, <4>1 DEF Storing, Doing, Idle
        <4>3. QED
          BY <1>3, <1>a, <2>0, <2>2, <4>1, <4>2
      <3>3. QED
        BY <3>1, <3>2
    <2>3. QED
      BY <1>3, <2>1, <2>2 DEF ScanStep
  <1>4. ASSUME Read, Kept(p)
        PROVE  Kept(p)'
    <2>0. /\ cur.op = "read" /\ UNCHANGED <<disk, raw, bcast, lagged, hand, jobs, ver, scan>>
          /\ cur.p \in Path
      BY <1>0, <1>4 DEF Read, pipe, CurOK
    <2>1. cur' = Idle \/ (cur' = [cur EXCEPT !.op = "store", !.val = disk[cur.p]] /\ cur.p \in Indexable)
      BY <1>4 DEF Read, Done
    <2>2. CASE p # cur.p
      <3>1. index'[p] = index[p] /\ (p \in lost => p \in lost')
        BY <1>0, <1>4, <2>0, <2>2 DEF Read
      <3>2. /\ ~Storing(p) /\ ~Storing(p)'
            /\ Doing(p) => Doing(p)'
        <4>1. cur'.op = "idle" \/ (cur'.op = "store" /\ cur'.p = cur.p)
          <5>1. CASE cur' = Idle
            BY <5>1 DEF Idle
          <5>2. CASE cur' = [cur EXCEPT !.op = "store", !.val = disk[cur.p]]
            BY <1>0, <5>2 DEF TypeOK
          <5>3. QED
            BY <2>1, <5>1, <5>2
        <4>2. QED
          BY <2>0, <2>2, <4>1 DEF Storing, Doing
      <3>3. QED
        BY <1>4, <1>a, <2>0, <3>1, <3>2
    <2>3. CASE p = cur.p /\ ~Done
      <3>1. cur' = [cur EXCEPT !.op = "store", !.val = disk[cur.p]]
        BY <1>4, <2>3 DEF Read
      <3>2. cur'.op = "store" /\ cur'.p = p /\ cur'.val = disk'[p]
        BY <1>0, <2>0, <2>3, <3>1 DEF TypeOK
      <3>3. Settled(p)'
        BY <3>2 DEF Settled
      <3>4. QED
        BY <3>3 DEF Kept
    <2>4. CASE p = cur.p /\ Done
      <3>0. ~Storing(p)'
        BY <2>4 DEF Done, Storing, Idle
      <3>1. CASE disk[p] = Absent
        <4>1. index' = [index EXCEPT ![p] = NoRow]
          BY <1>0, <1>4, <2>4, <3>1, IndexSyncAssumption DEF Read
        <4>2. index'[p] = NoRow /\ disk'[p] = Absent
          BY <1>0, <2>0, <3>1, <4>1
        <4>3. Settled(p)'
          BY <3>0, <4>2, GoneIsSettled
        <4>4. QED
          BY <4>3 DEF Kept
      <3>2. CASE disk[p] \in Bad
        <4>1. index' = [index EXCEPT ![p].skipped = TRUE]
          BY <1>0, <1>4, <2>4, <3>2, IndexSyncAssumption DEF Read
        <4>2. index'[p].skipped
          BY <1>0, <4>1 DEF Row
        <4>3. Settled(p)'
          BY <2>0, <3>0, <3>2, <4>2, IndexSyncAssumption DEF Settled, Fresh, FreshIn, Storing
        <4>4. QED
          BY <4>3 DEF Kept
      <3>3. CASE disk[p] \in Good
        <4>1. /\ UNCHANGED index /\ index[p].hash = disk[p] /\ index[p].ver = ver
              /\ index[p].skipped => p \in lost'
          <5>1. cur' # [cur EXCEPT !.op = "store", !.val = disk[cur.p]]
            BY <1>0, <2>4 DEF Done, Idle, TypeOK
          <5>2. QED
            BY <1>0, <1>4, <2>4, <3>3, <5>1, IndexSyncAssumption DEF Read
        <4>2. index[p] \in Row
          BY <1>0
        <4>3. CASE index[p].skipped
          BY <4>1, <4>3 DEF Kept
        <4>4. CASE ~index[p].skipped
          <5>1. index[p] = [hash |-> disk[p], ver |-> ver, skipped |-> FALSE]
            BY <4>1, <4>2, <4>4 DEF Row
          <5>2. Settled(p)'
            BY <2>0, <3>0, <3>3, <4>1, <5>1, IndexSyncAssumption DEF Settled, Fresh, FreshIn, Storing
          <5>3. QED
            BY <5>2 DEF Kept
        <4>5. QED
          BY <4>3, <4>4
      <3>4. QED
        BY <1>0, <3>1, <3>2, <3>3 DEF Content
    <2>5. QED
      BY <2>2, <2>3, <2>4
  <1>5. ASSUME Store, Kept(p)
        PROVE  Kept(p)'
    <2>0. /\ cur.op = "store" /\ cur.p \in Path /\ cur.val \in Good
          /\ UNCHANGED <<bcast, lagged, hand, ver, scan, lost>>
          /\ cur' = Idle
      BY <1>0, <1>5 DEF Store, CurOK, Done
    <2>d. /\ Doing(p) => Doing(p)'
          /\ ~Storing(p)'
      BY <2>0 DEF Doing, Storing, Idle
    \* of what was being stored: what was read is what the file says, or else
    <2>1. ASSUME p = cur.p, disk'[p] = disk[p], Range(raw) \subseteq Range(raw'), Range(jobs) \subseteq Range(jobs')
          PROVE  Kept(p)'
      <3>1. CASE Settled(p)
        <4>1. cur.val = disk[p]
          BY <2>0, <2>1, <3>1 DEF Settled
        <4>2. index'[p] = [hash |-> disk[p], ver |-> ver, skipped |-> FALSE]
          BY <1>0, <1>5, <2>1, <4>1 DEF Store, Stored
        <4>3. Settled(p)'
          BY <2>0, <2>1, <2>d, <4>1, <4>2, IndexSyncAssumption DEF Settled, Fresh, FreshIn, Storing
        <4>4. QED
          BY <4>3 DEF Kept
      <3>2. CASE ~Settled(p)
        <4>1. Due(p) => Due(p)'
          BY <2>0, <2>1, StillDue
        <4>2. Seen(p) => Seen(p)'
          BY <2>0, <2>1, StillSeen
        <4>3. QED
          BY <1>5, <2>0, <2>d, <3>2, <4>1, <4>2 DEF Kept
      <3>3. QED
        BY <3>1, <3>2
    <2>2. ASSUME p # cur.p, disk'[p] = disk[p], Range(raw) \subseteq Range(raw'), Range(jobs) \subseteq Range(jobs')
          PROVE  Kept(p)'
      <3>1. index'[p] = index[p] /\ ~Storing(p)
        BY <1>0, <1>5, <2>0, <2>2 DEF Store, Stored, Storing
      <3>2. Due(p) => Due(p)'
        BY <2>0, <2>2, StillDue
      <3>3. Seen(p) => Seen(p)'
        BY <2>0, <2>2, StillSeen
      <3>4. QED
        BY <1>5, <2>0, <2>d, <2>2, <3>1, <3>2, <3>3, LeftAlone
    <2>3. CASE UNCHANGED <<disk, raw, jobs>>
      BY <2>1, <2>2, <2>3
    <2>4. ASSUME NEW q \in Indexable, NEW c \in Good, RuleWrite(q, c, jobs)
          PROVE  Kept(p)'
      <3>1. /\ disk' = [disk EXCEPT ![q] = c] /\ raw' = Append(raw, Event("modified", q, NoPath))
            /\ q \in Path
        BY <2>4, IndexSyncAssumption DEF RuleWrite
      <3>2. VaultMoved
        BY <3>1, VaultWritten
      <3>3. Range(jobs) \subseteq Range(jobs')
        <4> DEFINE u == UpsertOf(q)
                   w == Append(jobs, u)
        <4>1. JobOK(u)
          BY <3>1, JobsOK
        <4>2. jobs' = jobs \/ jobs' = w
          BY <2>4 DEF RuleWrite
        <4> HIDE DEF u
        <4>3. Range(w) = Range(jobs) \cup {u}
          BY <1>0, <4>1, AppendFacts DEF JobOK
        <4> HIDE DEF w
        <4>4. QED
          BY <4>2, <4>3
      <3>4. CASE \E e \in Range(raw') : EventLooksAt(e, p)'
        BY <3>4 DEF Kept, Seen
      <3>5. CASE disk'[p] = disk[p]
        BY <2>1, <2>2, <3>2, <3>3, <3>5 DEF VaultMoved
      <3>6. QED
        BY <3>2, <3>4, <3>5 DEF VaultMoved
    <2>5. QED
      BY <1>5, <2>3, <2>4 DEF Store
  <1>f. ASSUME UpsertFails, Kept(p)
        PROVE  Kept(p)'
    <2>0. /\ cur' = Idle /\ Forget({cur.p}) /\ cur.p \in Path
          /\ UNCHANGED <<disk, raw, bcast, lagged, hand, jobs, ver, scan>>
      BY <1>0, <1>f DEF UpsertFails, Done, CurOK, pipe
    <2>1. CASE p = cur.p
      <3>1. cur'.op # "store"
        BY <2>0 DEF Idle
      <3>2. QED
        BY <2>0, <2>1, <3>1, Forgotten
    <2>2. CASE p # cur.p
      <3>1. index'[p] = index[p] /\ (p \in lost => p \in lost')
        BY <1>0, <1>f, <2>0, <2>2 DEF UpsertFails, Stored, Forget
      <3>2. /\ ~Storing(p) /\ ~Storing(p)'
            /\ Doing(p) => Doing(p)'
        BY <1>f, <2>0, <2>2 DEF UpsertFails, Storing, Doing, Idle
      <3>3. QED
        BY <1>a, <1>f, <2>0, <3>1, <3>2
    <2>3. QED
      BY <2>1, <2>2
  <1>6. ASSUME LinksDone, Kept(p)
        PROVE  Kept(p)'
    <2>1. /\ UNCHANGED <<disk, raw, bcast, lagged, hand, jobs, scan, index, ver, lost>>
          /\ cur.op = "links" /\ cur' = Idle
      BY <1>6 DEF LinksDone, pipe
    <2>2. /\ ~Storing(p) /\ ~Storing(p)'
          /\ Doing(p) => Doing(p)'
      BY <2>1 DEF Storing, Doing, Idle
    <2>3. QED
      BY <1>6, <1>a, <2>1, <2>2
  <1>7. ASSUME SelfSend, Kept(p)
        PROVE  Kept(p)'
    <2>0. UNCHANGED <<disk, raw, bcast, lagged, hand, scan, index, ver, lost>>
      BY <1>7 DEF SelfSend, pipe
    <2>1. CASE cur.op = "sendlink" /\ jobs' = Append(jobs, UpsertOf(cur.p))
               /\ cur' = [cur EXCEPT !.op = "links", !.p = NoPath]
      <3> DEFINE u == UpsertOf(cur.p)
                 w == Append(jobs, u)
      <3>1. JobOK(u) /\ jobs' = w
        BY <1>0, <2>1, JobsOK DEF CurOK
      <3>2. cur'.op = "links"
        BY <1>0, <2>1 DEF TypeOK
      <3> HIDE DEF u
      <3>3. Range(w) = Range(jobs) \cup {u}
        BY <1>0, <3>1, AppendFacts DEF JobOK
      <3> HIDE DEF w
      <3>4. /\ ~Storing(p) /\ ~Storing(p)'
            /\ Doing(p) => Doing(p)'
        BY <2>0, <2>1, <3>2 DEF Storing, Doing
      <3>5. QED
        BY <1>7, <1>a, <2>0, <3>1, <3>3, <3>4
    <2>2. CASE jobs' = Append(jobs, FullScan(TRUE))
      <3> DEFINE u == FullScan(TRUE)
                 w == Append(jobs, u)
      <3>1. JobOK(u) /\ jobs' = w
        BY <2>2, JobsOK
      <3>2. JobLooksAt(u, p)'
        BY DEF JobLooksAt, FullScan, Job
      <3> HIDE DEF u
      <3>3. Range(w) = Range(jobs) \cup {u}
        BY <1>0, <3>1, AppendFacts DEF JobOK
      <3> HIDE DEF w
      <3>4. QED
        BY <3>1, <3>2, <3>3 DEF Kept, Due
    <2>3. QED
      BY <1>7, <2>1, <2>2 DEF SelfSend
  <1>8. ASSUME NEW r \in Path, NEW c \in Good, Rewrite(r, c), Kept(p)
        PROVE  Kept(p)'
    <2>1. /\ UNCHANGED <<bcast, lagged, hand, jobs, scan, index, ver, lost>>
          /\ disk' = [disk EXCEPT ![r] = c] /\ raw' = Append(raw, Event("modified", r, NoPath))
          /\ cur.op = "links" /\ cur'.op = "sendlink"
      BY <1>0, <1>8 DEF Rewrite, TypeOK
    <2>2. VaultMoved
      BY <2>1, VaultWritten
    <2>3. /\ ~Storing(p) /\ ~Storing(p)'
          /\ Doing(p) => Doing(p)'
      BY <2>1 DEF Storing, Doing
    <2>4. QED
      BY <1>8, <2>1, <2>2, <2>3, KeptByWriters
  <1>9. QED
    BY <1>1, <1>2, <1>3, <1>4, <1>5, <1>f, <1>6, <1>7, <1>8, <1>k

\* No step forgets anything.
LEMMA StepForgetsNothing ==
  ASSUME Typed, NothingForgotten, [Next]_vars
  PROVE  NothingForgotten'
  <1>1. /\ \A p \in Path \ Indexable : Fresh(p) \/ p \in lost
        /\ up # "failed" => \A p \in Indexable : Kept(p)
    BY KeptMeans
  <1>2. \A p \in Path \ Indexable : (Fresh(p) \/ p \in lost)'
    BY <1>1, NoRowStays
  <1>3. ASSUME NEW p \in Indexable, up' # "failed"
        PROVE  Kept(p)'
    <2>1. CASE Restart
      BY <2>1, OutsideKeeps, IndexSyncAssumption DEF Restart, Kept
    <2>2. CASE Environment /\ ~Restart
      <3>1. up' = up
        BY <2>2 DEF Environment, Write, CreateAt, RestoreNote, PanelRestore, Rename, MoveNote,
           Remove, DeleteNote, Expire, ReloadEmbedder, DateSweep, ReindexAll, Request, task, pipe
      <3>2. QED
        BY <1>1, <1>3, <2>2, <3>1, OutsideKeeps
    <2>3. CASE Pipeline
      <3>1. up' = up
        BY <2>3 DEF Pipeline, DispatchOne, RouterRecv, RouterSend, AppSend, AppResume, task
      <3>2. QED
        BY <1>1, <1>3, <2>3, <3>1, PipelineKeeps
    <2>4. CASE TakeJob
      <3>1. up = "ready"
        BY <2>4 DEF TakeJob
      <3>2. QED
        BY <1>1, <2>4, <3>1, TakeKeeps
    <2>5. CASE Indexer /\ ~TakeJob
      BY <1>1, <1>3, <2>5, WorkKeeps DEF Indexer
    <2>6. CASE UNCHANGED vars
      BY <1>1, <1>3, <2>6 DEF vars, Kept, Settled, Fresh, FreshIn, Seen, Due, Doing, EventLooksAt,
                              JobLooksAt, NamesIt
    <2>7. QED
      BY <2>1, <2>2, <2>3, <2>4, <2>5, <2>6 DEF Next
  <1>4. QED
    BY <1>2, <1>3 DEF NothingForgotten, Kept, Seen, Due, Doing, Awaits

\* When the pipeline is quiet, nothing is on its way to look at any path but
\* what the broadcast holds.
LEMMA QuietSettles ==
  ASSUME Typed, NothingForgotten
  PROVE  StaleIsLostOrUnread
  <1> SUFFICES ASSUME Quiet, up = "ready", NEW p \in Path
               PROVE  Fresh(p) \/ p \in lost \/ Unread(p)
    BY DEF StaleIsLostOrUnread
  <1>1. CASE p \notin Indexable
    BY <1>1 DEF NothingForgotten
  <1>2. CASE p \in Indexable
    <2>1. Kept(p)
      BY <1>2, KeptMeans
    <2>2. Range(raw) = {} /\ Range(jobs) = {}
      <3>1. raw = <<>> /\ jobs = <<>> /\ raw \in Seq(Events) /\ jobs \in Seq(Jobs)
        BY DEF Quiet, Typed, TypeOK
      <3>2. QED
        BY <3>1, EmptyRange
    <2>3. ~Due(p) /\ (Seen(p) => Unread(p))
      BY <2>2, Looks DEF Seen, Unread, Due, Quiet
    <2>4. ~Doing(p) /\ (Settled(p) <=> Fresh(p))
      BY DEF Doing, Settled, Quiet, Idle
    <2>5. QED
      BY <2>1, <2>3, <2>4 DEF Kept
  <1>3. QED
    BY <1>1, <1>2

\* Once the pipeline is quiet a path is indexed as the vault has it, or history
\* says which job gave up on it, or its event was never read: whatever writes,
\* renames, drops, overflows, failed upserts and scans, rule firings, reloads,
\* moves and restarts came before, and whether or not the host runs the router.
THEOREM StaleIsAccounted == Spec => []StaleIsLostOrUnread
  <1>1. Init => Typed /\ NothingForgotten
    <2>1. ASSUME Init
          PROVE  NothingForgotten
      <3>1. \A p \in Path : index[p] = NoRow
        BY <2>1 DEF Init
      <3>2. \A p \in Path \ Indexable : Fresh(p)
        BY <3>1 DEF Fresh, FreshIn
      <3>3. Range(jobs) = {FullScan(FALSE)}
        BY <2>1, StartQueue DEF Init
      <3>4. \A p \in Indexable : Kept(p)
        BY <3>3, Looks DEF Kept, Due
      <3>5. QED
        BY <3>2, <3>4, KeptMeans
    <2>2. QED
      BY <2>1, StartTyped
  <1>2. Typed /\ NothingForgotten /\ [Next]_vars => (Typed /\ NothingForgotten)'
    BY StepTyped, StepForgetsNothing
  <1>3. Typed /\ NothingForgotten => StaleIsLostOrUnread
    BY QuietSettles
  <1>4. QED
    BY <1>1, <1>2, <1>3, PTL DEF Spec

\* All of it in one: SyncInv holds of every state.
THEOREM SyncInvariant == Spec => []SyncInv
  <1>1. Init => SyncInv
    <2>1. ASSUME Init
          PROVE  SyncInv
      <3>1. Range(jobs) = {FullScan(FALSE)} /\ Typed
        BY <2>1, StartQueue, StartTyped DEF Init
      <3>2. NothingForgotten
        <4>1. \A p \in Path \ Indexable : Fresh(p)
          BY <2>1 DEF Init, Fresh, FreshIn
        <4>2. \A p \in Indexable : Kept(p)
          BY <3>1, Looks DEF Kept, Due
        <4>3. QED
          BY <4>1, <4>2, KeptMeans
      <3>3. pending = {}
        BY <2>1 DEF Init
      <3>4. OneReplyOwed
        BY <2>1, StartOwesNothing
      <3>5. QED
        BY <3>1, <3>2, <3>3, <3>4 DEF SyncInv, Typed
    <2>2. QED
      BY <2>1
  <1>2. SyncInv /\ [Next]_vars => SyncInv'
    BY StepTyped, StepMarks, StepReplies, StepForgetsNothing DEF SyncInv, Typed, MarkersOK
  <1>3. QED
    BY <1>1, <1>2, PTL DEF Spec
=============================================================================
