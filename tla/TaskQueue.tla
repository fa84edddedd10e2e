------------------------------ MODULE TaskQueue ------------------------------
(***************************************************************************)
(* core::tasks::Queue (core/src/tasks/queue.rs): the in-memory table of    *)
(* background tasks, their leases, the one-shot handles of their           *)
(* producers, and the stop signals of the in-process workers.  Every       *)
(* operation of the queue runs under one tokio mutex, so it is one action. *)
(*                                                                         *)
(* A SystemTime the code stores and compares with now is kept as the       *)
(* number of time units still to go (lease.left, grace) or already past    *)
(* (age); TimePasses moves all of them.  The callers are unconstrained     *)
(* here; module TaskHost adds the workers and clients that call.           *)
(***************************************************************************)
EXTENDS Integers, FiniteSets

CONSTANTS
  TaskId,      \* the ids the queue stamps, one per submission
  Managed,     \* those of them submitted through submit_self_managed
  Tasks,       \* the task descriptions producers submit
  Kind,        \* variants of TaskKind
  Stamp,       \* values of Task.submitted_at
  Worker,      \* direct workers; each names the StopSignal of its last lease
  LeaseSecs,   \* lease lengths the callers ask for
  SelfLease,   \* the lease length of a self-managed row (3600 s)
  Grace,       \* TasksConfig::direct_grace, by worker preference
  Retention,   \* terminal_retention_secs, at least 1
  Configs,     \* the settings the user switches between
  None

Preference == {"internal", "external", "auto"}
Config == [preference: Preference, enabled: BOOLEAN]
Rank == 0..2                              \* Low, Normal, High
TaskDesc == [rank: Rank, shape: {"direct", "agent"}, kind: Kind,
             schema: BOOLEAN, stamp: Stamp]
WorkerKind == {"direct_llm", "mcp_client", "indexer"}
Lease == [worker: WorkerKind, left: Nat, stop: Worker \cup {None}]

ASSUME QueueConstants ==
  /\ Managed \subseteq TaskId
  /\ Tasks \subseteq TaskDesc
  /\ Stamp \subseteq Nat
  /\ LeaseSecs \subseteq Nat
  /\ SelfLease \in Nat \ {0}
  /\ Grace \in [Preference -> Nat]
  /\ Retention \in Nat \ {0}
  /\ Configs \subseteq Config
  /\ None \notin TaskId \cup Worker \cup TaskDesc \cup Lease \cup WorkerKind

VARIABLES
  slots,     \* QueueState.slots; an id that is not in the map is "absent"
  handle,    \* what the producer's end of the one-shot channel has seen
  stop,      \* which workers' current stop signal has been fired
  cfg        \* the live part of TasksConfig the queue and workers read

vars == <<slots, handle, stop, cfg>>

-----------------------------------------------------------------------------
Unsettled == {"queued", "leased"}
Terminal  == {"completed", "failed", "cancelled"}
Unfinished == -1                          \* finished_at is None
Slot == [state:      {"absent"} \cup Unsettled \cup Terminal,
         task:       TaskDesc \cup {None},
         sender:     BOOLEAN,             \* the oneshot sender is present
         lease:      Lease \cup {None},
         age:        Unfinished..(Retention + 1),
         lastWorker: WorkerKind \cup {None},
         grace:      Nat,                 \* until eligible_to_direct_at
         detail:     {"none", "result", "error"}]

NoSlot == [state |-> "absent", task |-> None, sender |-> FALSE,
           lease |-> None, age |-> Unfinished, lastWorker |-> None,
           grace |-> 0, detail |-> "none"]

\* "none": not submitted yet; "internal": a self-managed row has no handle;
\* "dropped": the producer dropped it; "app_exit": the sender was dropped.
Handle == {"none", "internal", "pending", "dropped", "app_exit"} \cup Terminal

TypeOK ==
  /\ slots \in [TaskId -> Slot]
  /\ handle \in [TaskId -> Handle]
  /\ stop \in [Worker -> BOOLEAN]
  /\ cfg \in Config

Init ==
  /\ slots = [i \in TaskId |-> NoSlot]
  /\ handle = [i \in TaskId |-> "none"]
  /\ stop = [w \in Worker |-> FALSE]
  /\ cfg \in Configs

-----------------------------------------------------------------------------
Live(i) == slots[i].state \in Unsettled
IsLeased(i) == slots[i].state = "leased"

Expired(i) == IsLeased(i) /\ slots[i].lease.left = 0

\* Mutation: the outcome is computed but not sent.
Answer_NotSent(i, outcome) == handle' = handle

\* The producer's handle resolves when the sender is used; a handle that was
\* dropped meanwhile is not told.
Answer(i, outcome) ==
  handle' = IF slots[i].sender /\ handle[i] = "pending"
            THEN [handle EXCEPT ![i] = outcome]
            ELSE handle

\* Mutation: finished_at is not stamped.
Settled_NoFinish(s, outcome, detail) ==
  [s EXCEPT !.state = outcome, !.lease = None, !.sender = FALSE,
            !.detail = detail]

Settled(s, outcome, detail) ==
  [s EXCEPT !.state = outcome, !.age = 0, !.lease = None,
            !.sender = FALSE, !.detail = detail]

LeasedTo(s, worker, secs, signal) ==
  [s EXCEPT !.state = "leased", !.lastWorker = worker,
            !.lease = [worker |-> worker, left |-> secs, stop |-> signal]]

-----------------------------------------------------------------------------
Submit(i, t) ==
  /\ i \notin Managed /\ handle[i] = "none"
  /\ slots' = [slots EXCEPT ![i] =
                 [NoSlot EXCEPT !.state = "queued", !.task = t, !.sender = TRUE,
                    !.grace = IF cfg.preference = "internal"
                              THEN 0 ELSE Grace[cfg.preference]]]
  /\ handle' = [handle EXCEPT ![i] = "pending"]
  /\ UNCHANGED <<stop, cfg>>

\* The row is born leased to the indexer, without a sender or a stop signal.
SubmitSelfManaged(i, t) ==
  /\ i \in Managed /\ handle[i] = "none"
  /\ slots' = [slots EXCEPT ![i] =
                 LeasedTo([NoSlot EXCEPT !.task = t], "indexer", SelfLease, None)]
  /\ handle' = [handle EXCEPT ![i] = "internal"]
  /\ UNCHANGED <<stop, cfg>>

\* Dropping the handle only closes the receiver.
DropHandle(i) ==
  /\ handle[i] = "pending"
  /\ handle' = [handle EXCEPT ![i] = "dropped"]
  /\ UNCHANGED <<slots, stop, cfg>>

\* Mutation: the in-process worker is not signalled.
Cancel_NoSignal(i) ==
  /\ Live(i)
  /\ slots' = [slots EXCEPT ![i] = Settled(@, "cancelled", "none")]
  /\ Answer(i, "cancelled")
  /\ UNCHANGED <<stop, cfg>>

\* Mutation: cancelling a leased row only revokes the lease.
Cancel_Requeues(i) ==
  /\ Live(i)
  /\ slots' = [slots EXCEPT ![i] =
                 IF IsLeased(i) /\ i \notin Managed
                 THEN [@ EXCEPT !.state = "queued", !.lease = None]
                 ELSE Settled(@, "cancelled", "none")]
  /\ IF IsLeased(i) THEN UNCHANGED handle ELSE Answer(i, "cancelled")
  /\ UNCHANGED <<stop, cfg>>

Cancel(i) ==
  /\ Live(i)
  /\ stop' = IF IsLeased(i) /\ slots[i].lease.stop # None
             THEN [stop EXCEPT ![slots[i].lease.stop] = TRUE]
             ELSE stop
  /\ slots' = [slots EXCEPT ![i] = Settled(@, "cancelled", "none")]
  /\ Answer(i, "cancelled")
  /\ UNCHANGED cfg

-----------------------------------------------------------------------------
\* Drain order: higher rank first, then the strictly earlier submitted_at.
Outranks(i, j) ==
  LET a == slots[i].task
      b == slots[j].task
  IN  \/ a.rank > b.rank
      \/ a.rank = b.rank /\ a.stamp < b.stamp

\* The scan keeps its first best row; the map's order decides between ties.
Best(S) == {i \in S : \A j \in S : ~Outranks(j, i)}

\* Mutation: the scan does not skip rows that are leased already.
Queued_OrLeased == {i \in TaskId : Live(i) /\ i \notin Managed}

Queued == {i \in TaskId : slots[i].state = "queued"}

DirectEligible ==
  {i \in Queued : slots[i].task.shape = "direct" /\ slots[i].grace = 0}

McpEligible(kinds, shapes, min) ==
  {i \in Queued : /\ slots[i].task.rank >= min
                  /\ slots[i].task.kind \in kinds
                  /\ slots[i].task.shape \in shapes}

\* Mutation: the worker keeps observing the signal of its previous lease.
NewSignal_Reused(w) == stop

NewSignal(w) == [stop EXCEPT ![w] = FALSE]

\* Every checkout makes its own StopSignal.  The model names a signal after the
\* worker and takes the name again once no lease holds the earlier signal.
CheckoutDirect(w, i, secs) ==
  /\ \A j \in TaskId : IsLeased(j) => slots[j].lease.stop # w
  /\ i \in Best(DirectEligible)
  /\ slots' = [slots EXCEPT ![i] = LeasedTo(@, "direct_llm", secs, w)]
  /\ stop' = NewSignal(w)
  /\ UNCHANGED <<handle, cfg>>

CheckoutMcp(kinds, shapes, min, i, secs) ==
  /\ i \in Best(McpEligible(kinds, shapes, min))
  /\ slots' = [slots EXCEPT ![i] = LeasedTo(@, "mcp_client", secs, None)]
  /\ UNCHANGED <<handle, stop, cfg>>

-----------------------------------------------------------------------------
\* The only guard of the three calls of a lease holder is the row's state:
\* neither the caller's identity nor the expiry of the lease is looked at.
Accepts(i) == IsLeased(i)

SchemaRejects(i, valid) == slots[i].task.schema /\ ~valid

\* Mutation: a late result overwrites the row, settled or not.
SubmitResult_Late(i, valid) ==
  /\ slots[i].state # "absent" /\ ~SchemaRejects(i, valid)
  /\ slots' = [slots EXCEPT ![i] = Settled(@, "completed", "result")]
  /\ Answer(i, "completed")
  /\ UNCHANGED <<stop, cfg>>

SubmitResult(i, valid) ==
  /\ Accepts(i) /\ ~SchemaRejects(i, valid)
  /\ slots' = [slots EXCEPT ![i] = Settled(@, "completed", "result")]
  /\ Answer(i, "completed")
  /\ UNCHANGED <<stop, cfg>>

Fail(i) ==
  /\ Accepts(i)
  /\ slots' = [slots EXCEPT ![i] = Settled(@, "failed", "error")]
  /\ Answer(i, "failed")
  /\ UNCHANGED <<stop, cfg>>

Heartbeat(i, secs) ==
  /\ Accepts(i)
  /\ slots' = [slots EXCEPT ![i].lease.left = secs]
  /\ UNCHANGED <<handle, stop, cfg>>

-----------------------------------------------------------------------------
\* Mutation: an expired row goes back to the queue whoever leases it.
Orphaned_Never(s) == FALSE

\* Mutation: every expired lease fails its task.
Orphaned_Always(s) == TRUE

Orphaned(s) == s.lease.worker = "indexer"

PastRetention(s) == s.state \in Terminal /\ s.age > Retention

\* What one tick does to one row.  A requeue leaves lastWorker and grace.
Maintained(i) ==
  LET s == slots[i]
  IN  IF Expired(i)
      THEN IF Orphaned(s)
           THEN [s EXCEPT !.state = "failed", !.age = 0, !.lease = None,
                          !.detail = "error"]
           ELSE [s EXCEPT !.state = "queued", !.lease = None]
      ELSE IF PastRetention(s) THEN NoSlot ELSE s

\* Removing a row drops its sender, which ends a wait as AppExit.
TickMaintenance ==
  /\ slots' = [i \in TaskId |-> Maintained(i)]
  /\ handle' = [i \in TaskId |->
                  IF /\ PastRetention(slots[i]) /\ slots[i].sender
                     /\ handle[i] = "pending"
                  THEN "app_exit" ELSE handle[i]]
  /\ UNCHANGED <<stop, cfg>>

SetCfg(c) ==
  /\ cfg' = c
  /\ UNCHANGED <<slots, handle, stop>>

-----------------------------------------------------------------------------
Less(n) == IF n > 0 THEN n - 1 ELSE 0

OlderLease(l) == IF l = None THEN None ELSE [l EXCEPT !.left = Less(@)]

Older(s) ==
  [s EXCEPT !.grace = Less(@), !.lease = OlderLease(@),
            !.age = IF @ \in 0..Retention THEN @ + 1 ELSE @]

TimePasses ==
  /\ slots' = [i \in TaskId |-> Older(slots[i])]
  /\ UNCHANGED <<handle, stop, cfg>>

Next ==
  \/ \E i \in TaskId, t \in Tasks : Submit(i, t) \/ SubmitSelfManaged(i, t)
  \/ \E i \in TaskId : DropHandle(i) \/ Cancel(i) \/ Fail(i)
  \/ \E i \in TaskId, v \in BOOLEAN : SubmitResult(i, v)
  \/ \E i \in TaskId, d \in LeaseSecs : Heartbeat(i, d)
  \/ \E w \in Worker, i \in TaskId, d \in LeaseSecs : CheckoutDirect(w, i, d)
  \/ \E kinds \in SUBSET Kind, shapes \in SUBSET {"direct", "agent"},
        min \in Rank, i \in TaskId, d \in LeaseSecs :
        CheckoutMcp(kinds, shapes, min, i, d)
  \/ TickMaintenance
  \/ \E c \in Configs : SetCfg(c)
  \/ TimePasses

Spec == Init /\ [][Next]_vars

-----------------------------------------------------------------------------
\* The fields of a row agree, through every order of calls, ticks and time: a
\* lease exactly while leased, finished_at exactly once settled, and a sender
\* exactly while some outcome is still owed to a producer.  An id is used once.
RowsConsistent ==
  \A i \in TaskId :
    /\ IsLeased(i) <=> slots[i].lease # None
    /\ slots[i].state \in Terminal <=> slots[i].age # Unfinished
    /\ slots[i].sender <=> Live(i) /\ i \notin Managed
    /\ slots[i].state # "absent" => handle[i] # "none"
    /\ i \in Managed => handle[i] \in {"none", "internal"}
    /\ i \notin Managed => handle[i] # "internal"

\* Nobody is left waiting, and nobody is answered early or wrongly: a producer
\* waits only while its row is queued or leased and still holds the sender;
\* a producer that was answered was told the state the row settled in; and
\* no producer ever learns of an outcome from a sender that was dropped
\* (Cancel, SubmitResult, Fail and TickMaintenance in any order).
NobodyLeftWaiting ==
  \A i \in TaskId :
    /\ handle[i] = "pending" => Live(i) /\ slots[i].sender
    /\ handle[i] \in Terminal => slots[i].state \in {handle[i], "absent"}
    /\ handle[i] # "app_exit"

\* A self-managed row is the indexer's own: no sequence of expiries, ticks and
\* calls by others ever puts it in the queue or in a worker's hands; and the
\* indexer holds no other, so the orphan-fail of a tick, which answers nobody,
\* never hits a row with a producer.
SelfManagedStaysPut ==
  /\ \A i \in Managed : slots[i].state # "queued"
  /\ \A i \in TaskId : IsLeased(i) =>
       (slots[i].lease.worker = "indexer" <=> i \in Managed)

\* A worker whose row is still leased to it has not been told to stop: a signal
\* fired for an earlier lease does not reach the next one, and cancelling one
\* task does not stop the worker of another.
LiveLeaseNotStopped ==
  \A i \in TaskId :
    IsLeased(i) /\ slots[i].lease.stop # None =>
      /\ ~stop[slots[i].lease.stop]
      /\ \A j \in TaskId \ {i} :
           IsLeased(j) => slots[j].lease.stop # slots[i].lease.stop

\* First outcome wins: once settled, a row keeps its state and its result
\* whatever late result, failure, cancel or expiry follows, until it is removed.
FirstOutcomeWins ==
  [][\A i \in TaskId :
       slots[i].state \in Terminal =>
         \/ slots'[i].state = "absent"
         \/ /\ slots'[i].state = slots[i].state
            /\ slots'[i].detail = slots[i].detail]_vars

\* The invariant the proofs are built on.
IInv == /\ TypeOK /\ RowsConsistent /\ NobodyLeftWaiting
        /\ SelfManagedStaysPut /\ LiveLeaseNotStopped

-----------------------------------------------------------------------------
\* The refinement mapping: an id that was used and is no longer in the map is
\* a removed row; a handle is the producer's side.
RowOf(i) ==
  CASE slots[i].state \in Unsettled -> "open"
    [] slots[i].state \in Terminal  -> slots[i].state
    [] OTHER -> IF handle[i] = "none" THEN "unborn" ELSE "removed"

ProducerOf(i) ==
  CASE handle[i] = "none"     -> "unborn"
    [] handle[i] = "internal" -> "none"
    [] handle[i] = "pending"  -> "waiting"
    [] handle[i] = "dropped"  -> "left"
    [] OTHER -> handle[i]

Promise == INSTANCE TaskPromise WITH
  row <- [i \in TaskId |-> RowOf(i)],
  producer <- [i \in TaskId |-> ProducerOf(i)]

\* The queue keeps its promise: a task is settled at most once, and its waiting
\* producer is answered in that step, with the same outcome.
KeepsPromise == Promise!PSpec

=============================================================================
