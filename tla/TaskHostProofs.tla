--------------------------- MODULE TaskHostProofs ---------------------------
(***************************************************************************)
(* Proofs about TaskHost, for every set of tasks, workers and clients: the *)
(* callers use the queue only through its operations, so its invariant     *)
(* holds among them; a worker's lease is never leaked, with a tick or      *)
(* without; and without one a task has one runner and one author.          *)
(***************************************************************************)
EXTENDS TaskHost, TaskQueueProofs

-----------------------------------------------------------------------------
\* What each call of the queue does to the states and the leases of the rows.

RowsBut(i) == \A j \in TaskId \ {i} : slots'[j] = slots[j]

\* One row written leaves the others.
LEMMA OneRowSet ==
  ASSUME slots \in [TaskId -> Slot], NEW i \in TaskId, NEW r,
         slots' = [slots EXCEPT ![i] = r]
  PROVE  slots'[i] = r /\ RowsBut(i)
  BY DEF RowsBut

\* A result, a failure and a cancel settle their row and touch no other.
LEMMA CallSettles ==
  ASSUME IInv, NEW i \in TaskId, SubmitResult(i, TRUE) \/ Fail(i) \/ Cancel(i)
  PROVE  slots'[i].state \in Terminal /\ RowsBut(i)
  <1>1. ASSUME NEW o \in Terminal, NEW d \in {"none", "result", "error"}, Live(i),
               slots' = [slots EXCEPT ![i] = Settled(@, o, d)], Answer(i, o)
        PROVE  slots'[i].state \in Terminal /\ RowsBut(i)
    BY <1>1, SettleKeepsRows DEF RowsBut
  <1>2. CASE SubmitResult(i, TRUE)
    BY <1>1, <1>2 DEF SubmitResult, Accepts, IsLeased, Live, Unsettled, Terminal
  <1>3. CASE Fail(i)
    BY <1>1, <1>3 DEF Fail, Accepts, IsLeased, Live, Unsettled, Terminal
  <1>4. CASE Cancel(i)
    BY <1>1, <1>4 DEF Cancel, Terminal
  <1>5. QED
    BY <1>2, <1>3, <1>4

\* A checkout leases one queued row, to the worker that asked or to no signal.
LEMMA DirectLeases ==
  ASSUME IInv, NEW w \in Worker, NEW i \in TaskId, NEW d \in LeaseSecs,
         CheckoutDirect(w, i, d)
  PROVE  /\ slots[i].state = "queued" /\ RowsBut(i)
         /\ slots'[i].state = "leased" /\ slots'[i].lease.stop = w
  <1>1. slots \in [TaskId -> Slot] /\ slots[i].state = "queued" /\ d \in Nat
    BY IInvByRows, QueueConstants
       DEF CheckoutDirect, Best, DirectEligible, Queued
  <1>2. "direct_llm" \in WorkerKind /\ w \in Worker \cup {None} /\ slots[i] \in Slot
    BY <1>1 DEF WorkerKind
  <1> DEFINE r == LeasedTo(slots[i], "direct_llm", d, w)
  <1>3. /\ r.state = "leased"
        /\ r.lease = [worker |-> "direct_llm", left |-> d, stop |-> w]
    BY <1>1, <1>2, LeasedRow
  <1>4. slots' = [slots EXCEPT ![i] = r]
    BY DEF CheckoutDirect
  <1> HIDE DEF r
  <1>5. slots'[i] = r /\ RowsBut(i)
    BY <1>1, <1>4, OneRowSet
  <1>6. QED
    BY <1>1, <1>3, <1>5

\* A client's checkout leases one queued row, without a stop signal.
LEMMA McpLeases ==
  ASSUME IInv, NEW kinds, NEW shapes, NEW min, NEW i \in TaskId, NEW d \in LeaseSecs,
         CheckoutMcp(kinds, shapes, min, i, d)
  PROVE  /\ slots[i].state = "queued" /\ RowsBut(i)
         /\ slots'[i].state = "leased" /\ slots'[i].lease.stop = None
  <1>1. slots \in [TaskId -> Slot] /\ slots[i].state = "queued" /\ d \in Nat
    BY IInvByRows, QueueConstants
       DEF CheckoutMcp, Best, McpEligible, Queued
  <1>2. "mcp_client" \in WorkerKind /\ None \in Worker \cup {None} /\ slots[i] \in Slot
    BY <1>1 DEF WorkerKind
  <1> DEFINE r == LeasedTo(slots[i], "mcp_client", d, None)
  <1>3. /\ r.state = "leased"
        /\ r.lease = [worker |-> "mcp_client", left |-> d, stop |-> None]
    BY <1>1, <1>2, LeasedRow
  <1>4. slots' = [slots EXCEPT ![i] = r]
    BY DEF CheckoutMcp
  <1> HIDE DEF r
  <1>5. slots'[i] = r /\ RowsBut(i)
    BY <1>1, <1>4, OneRowSet
  <1>6. QED
    BY <1>1, <1>3, <1>5

\* A submission fills a row that was absent; the indexer's own carries no signal.
LEMMA SubmitFills ==
  ASSUME IInv, NEW i \in TaskId, NEW t \in Tasks,
         Submit(i, t) \/ SubmitSelfManaged(i, t)
  PROVE  /\ slots[i].state = "absent" /\ RowsBut(i)
         /\ slots'[i].state \in Unsettled
         /\ slots'[i].state = "leased" => slots'[i].lease.stop = None
  <1>1. slots \in [TaskId -> Slot] /\ slots[i].state = "absent"
    BY IInvByRows DEF RowInv, Submit, SubmitSelfManaged
  <1>2. CASE Submit(i, t)
    BY <1>1, <1>2 DEF Submit, NoSlot, Unsettled, RowsBut
  <1>3. CASE SubmitSelfManaged(i, t)
    <2> DEFINE r == LeasedTo([NoSlot EXCEPT !.task = t], "indexer", SelfLease, None)
    <2>1. r.state = "leased" /\ r.lease.stop = None
      BY DEF LeasedTo, NoSlot
    <2>2. slots' = [slots EXCEPT ![i] = r]
      BY <1>3 DEF SubmitSelfManaged
    <2> HIDE DEF r
    <2>3. QED
      BY <1>1, <2>1, <2>2 DEF RowsBut, Unsettled
  <1>4. QED
    BY <1>2, <1>3

\* A heartbeat and time change no state and no signal.
StatesKept ==
  \A i \in TaskId :
    /\ slots'[i].state = slots[i].state
    /\ slots[i].state = "leased" => slots'[i].lease.stop = slots[i].lease.stop

\* A heartbeat changes how long a lease lasts and nothing else.
LEMMA HeartbeatKeeps ==
  ASSUME IInv, NEW i \in TaskId, NEW d \in LeaseSecs, Heartbeat(i, d)
  PROVE  StatesKept
  <1> DEFINE r == [slots[i] EXCEPT !.lease.left = d]
  <1>1. slots \in [TaskId -> Slot] /\ RowInv(i, slots[i], handle[i])
    BY IInvByRows
  <1>2. d \in Nat /\ slots[i].state = "leased"
    BY QueueConstants DEF Heartbeat, Accepts, IsLeased
  <1>3. RowInv(i, r, handle[i]) /\ r.state = "leased" /\ r.lease.stop = slots[i].lease.stop
    BY <1>1, <1>2, HeartbeatStep
  <1>4. slots' = [slots EXCEPT ![i] = r]
    BY <1>1 DEF Heartbeat
  <1> HIDE DEF r
  <1>5. slots'[i] = r /\ RowsBut(i)
    BY <1>1, <1>4, OneRowSet
  <1>6. QED
    BY <1>2, <1>3, <1>5 DEF StatesKept, RowsBut

\* Nor does the clock.
LEMMA TimeKeeps ==
  ASSUME IInv, TimePasses
  PROVE  StatesKept
  <1>1. \A i \in TaskId : slots[i] \in Slot /\ RowInv(i, slots[i], handle[i])
    BY IInvByRows DEF RowInv
  <1>2. \A i \in TaskId : slots'[i] = Older(slots[i])
    BY DEF TimePasses
  <1>3. \A i \in TaskId : slots[i].state = "leased" => slots[i].lease # None
    BY <1>1 DEF RowInv
  <1>4. QED
    BY <1>1, <1>2, <1>3, OlderRow DEF StatesKept

\* What a tick leaves leased it leaves alone.
LEMMA TickKeepsLeases ==
  ASSUME IInv, TickMaintenance
  PROVE  \A i \in TaskId : slots'[i].state = "leased" => slots'[i] = slots[i]
  BY IInvByRows, MaintainedStep DEF TickMaintenance

-----------------------------------------------------------------------------
\* A worker's lease is never leaked.

\* No lease with a signal begins in the step.
LeasesOnlyEnd ==
  \A i \in TaskId : slots'[i].state = "leased" /\ slots'[i].lease.stop # None =>
    slots[i].state = "leased" /\ slots'[i].lease.stop = slots[i].lease.stop

\* A signal in a lease names a worker.
LEMMA SignalIsWorkers ==
  ASSUME IInv, NEW i \in TaskId, IsLeased(i), slots[i].lease.stop # None
  PROVE  slots[i].lease.stop \in Worker
  <1>1. slots[i] \in Slot /\ slots[i].lease # None
    BY IInvByRows DEF RowInv, IsLeased
  <1>2. QED
    BY <1>1 DEF Slot, Lease

\* While no worker moves, its lease stays with it.
LEMMA WorkersRest ==
  ASSUME LeaseHasWorker, LeasesOnlyEnd, UNCHANGED <<pc, job>>
  PROVE  LeaseHasWorker'
  BY DEF LeaseHasWorker, LeasesOnlyEnd, IsLeased, Busy

\* The step that hands a row to a worker, and the steps that end its work.
LEMMA TakeKeeps ==
  ASSUME HostInv, NEW w \in Worker, Take(w)
  PROVE  HostTypeOK' /\ LeaseHasWorker' /\ [Next]_vars
         /\ \A v \in Worker : (Busy(v) <=> job[v] # None)'
  <1>0. /\ IInv /\ HostTypeOK /\ LeaseHasWorker
        /\ \A v \in Worker : Busy(v) <=> job[v] # None
        /\ DefaultLease \in LeaseSecs
    BY HostConstants DEF HostInv
  <1>1. ASSUME NEW i \in TaskId, CheckoutDirect(w, i, DefaultLease),
               job' = [job EXCEPT ![w] = i], holder' = [holder EXCEPT ![i] = w],
               Goto(w, "calling")
        PROVE  HostTypeOK' /\ LeaseHasWorker' /\ [Next]_vars
               /\ \A v \in Worker : (Busy(v) <=> job[v] # None)'
    <2>1. /\ slots'[i].lease.stop = w /\ RowsBut(i)
      BY <1>0, <1>1, DirectLeases
    <2>2. \A j \in TaskId \ {i} : IsLeased(j) => slots[j].lease.stop # w
      BY <1>1 DEF CheckoutDirect
    <2>3. LeaseHasWorker'
      BY <1>0, <1>1, <2>1, <2>2
         DEF LeaseHasWorker, HostTypeOK, RowsBut, IsLeased, Busy, Goto
    <2>4. HostTypeOK'
      BY <1>0, <1>1 DEF Take, HostTypeOK, Goto, Where, Actor
    <2>5. \A v \in Worker : (Busy(v) <=> job[v] # None)'
      BY <1>0, <1>1, QueueConstants DEF HostTypeOK, Goto, Busy
    <2>6. [Next]_vars
      BY <1>0, <1>1 DEF Next
    <2>7. QED
      BY <2>3, <2>4, <2>5, <2>6
  <1>2. CASE Goto(w, "idle") /\ UNCHANGED <<vars, job, holder>>
    <2>1. pc[w] = "polling"
      BY DEF Take
    <2>2. LeaseHasWorker'
      BY <1>0, <1>2, <2>1
         DEF LeaseHasWorker, HostTypeOK, IsLeased, Busy, Goto, vars
    <2>3. HostTypeOK'
      BY <1>0, <1>2 DEF Take, HostTypeOK, Goto, Where, Actor
    <2>4. \A v \in Worker : (Busy(v) <=> job[v] # None)'
      BY <1>0, <1>2, <2>1 DEF HostTypeOK, Goto, Busy
    <2>5. QED
      BY <1>2, <2>2, <2>3, <2>4
  <1>3. QED
    BY <1>1, <1>2 DEF Take

\* What the other moves of a worker's loop must show: its job ends with it.
LEMMA LoopKeeps ==
  ASSUME HostInv, NEW w \in Worker,
         Poll(w) \/ ChatReturns(w) \/ ChatCancelled(w) \/ Record(w)
  PROVE  HostTypeOK' /\ LeaseHasWorker' /\ [Next]_vars
         /\ \A v \in Worker : (Busy(v) <=> job[v] # None)'
  <1>0. /\ IInv /\ HostTypeOK /\ LeaseHasWorker /\ LiveLeaseNotStopped
        /\ \A v \in Worker : Busy(v) <=> job[v] # None
    BY DEF HostInv, IInv
  <1>1. CASE Poll(w) \/ ChatReturns(w)
    <2>1. /\ HostTypeOK'
          /\ \A v \in Worker : (Busy(v) <=> job[v] # None)'
          /\ \A v \in Worker : Busy(v) => Busy(v)'
      BY <1>0, <1>1 DEF HostTypeOK, Poll, ChatReturns, Goto, Where, Busy
    <2>2. UNCHANGED <<vars, job>>
      BY <1>1 DEF Poll, ChatReturns
    <2>3. LeaseHasWorker'
      BY <1>0, <2>1, <2>2, SignalIsWorkers DEF LeaseHasWorker, IsLeased, vars
    <2>4. QED
      BY <2>1, <2>2, <2>3
  <1>2. CASE ChatCancelled(w)
    <2>1. /\ HostTypeOK'
          /\ \A v \in Worker : (Busy(v) <=> job[v] # None)'
      BY <1>0, <1>2 DEF HostTypeOK, ChatCancelled, Goto, Where, Busy
    <2>2. UNCHANGED vars /\ stop[w]
      BY <1>2 DEF ChatCancelled
    <2>3. \A i \in TaskId : IsLeased(i) => slots[i].lease.stop # w
      BY <1>0, <2>2, QueueConstants DEF LiveLeaseNotStopped
    <2>4. LeaseHasWorker'
      BY <1>0, <1>2, <2>2, <2>3
         DEF LeaseHasWorker, HostTypeOK, IsLeased, ChatCancelled, Goto, vars, Busy
    <2>5. QED
      BY <2>1, <2>2, <2>4
  <1>3. CASE Record(w)
    <2> DEFINE i == job[w]
    <2>1. /\ HostTypeOK'
          /\ \A v \in Worker : (Busy(v) <=> job[v] # None)'
      BY <1>0, <1>3 DEF HostTypeOK, Record, Goto, Where, Busy, Actor
    <2>2. i \in TaskId /\ Busy(w)
      BY <1>0, <1>3 DEF HostTypeOK, Record, Busy
    <2>3. CASE SubmitResult(i, TRUE) \/ Fail(i)
      <3>1. slots'[i].state \in Terminal /\ RowsBut(i)
        BY <1>0, <2>2, <2>3, CallSettles
      <3>2. \A j \in TaskId : IsLeased(j)' /\ slots'[j].lease.stop # None =>
              IsLeased(j) /\ slots'[j] = slots[j] /\ slots[j].lease.stop # w
        BY <1>0, <2>2, <3>1 DEF LeaseHasWorker, RowsBut, IsLeased, Terminal
      <3>3. LeaseHasWorker'
        BY <1>0, <1>3, <3>2 DEF LeaseHasWorker, HostTypeOK, Record, Goto, Busy
      <3>4. [Next]_vars
        BY <2>2, <2>3 DEF Next
      <3>5. QED
        BY <2>1, <3>3, <3>4
    <2>4. CASE ~Accepts(i) /\ UNCHANGED vars
      <3>1. \A j \in TaskId : IsLeased(j) /\ slots[j].lease.stop # None =>
              slots[j].lease.stop # w
        BY <1>0, <2>2, <2>4 DEF LeaseHasWorker, Accepts
      <3>2. LeaseHasWorker'
        BY <1>0, <1>3, <2>4, <3>1
           DEF LeaseHasWorker, HostTypeOK, IsLeased, Record, Goto, vars, Busy
      <3>3. QED
        BY <2>1, <2>4, <3>2
    <2>5. QED
      BY <1>3, <2>3, <2>4 DEF Record
  <1>4. QED
    BY <1>1, <1>2, <1>3

\* Clients, the indexer, producers, the user, the clock, the tick and a change
\* of settings move no worker, and make no lease that a worker could leak.
OtherNext ==
  \/ \E c \in Client : ClientNext(c)
  \/ \E i \in TaskId, t \in Tasks : LoadStarts(i, t)
  \/ LoadEnds
  \/ Produce
  \/ \E i \in TaskId : UserCancels(i) \/ OnQueue(DropHandle(i))
  \/ Clock \/ Tick
  \/ \E c \in Configs : OnQueue(SetCfg(c))

\* What the workers and the clients do not do only ends leases.
LEMMA OthersKeep ==
  ASSUME HostInv, OtherNext
  PROVE  HostTypeOK' /\ LeasesOnlyEnd /\ [Next]_vars /\ UNCHANGED <<pc, job>>
  <1>0. IInv /\ HostTypeOK
    BY DEF HostInv
  <1>1. ASSUME NEW c \in Client, ClientTakes(c)
        PROVE  HostTypeOK' /\ LeasesOnlyEnd /\ [Next]_vars /\ UNCHANGED <<pc, job>>
    <2>1. PICK kinds \in SUBSET Kind, shapes \in SUBSET {"direct", "agent"},
               min \in Rank, i \in TaskId, d \in LeaseSecs \ {0} :
            /\ CheckoutMcp(kinds, shapes, min, i, d)
            /\ claim' = [claim EXCEPT ![c] = i]
            /\ holder' = [holder EXCEPT ![i] = c]
      BY <1>1 DEF ClientTakes
    <2>2. slots'[i].lease.stop = None /\ RowsBut(i)
      BY <1>0, <2>1, McpLeases
    <2>3. LeasesOnlyEnd
      BY <2>2 DEF LeasesOnlyEnd, RowsBut
    <2>4. HostTypeOK' /\ UNCHANGED <<pc, job>>
      BY <1>0, <1>1, <2>1 DEF ClientTakes, HostTypeOK, Actor
    <2>5. [Next]_vars
      BY <2>1 DEF Next
    <2>6. QED
      BY <2>3, <2>4, <2>5
  <1>2. ASSUME NEW c \in Client, ClientReports(c) \/ ClientVanishes(c)
        PROVE  HostTypeOK' /\ LeasesOnlyEnd /\ [Next]_vars /\ UNCHANGED <<pc, job>>
    <2>1. HostTypeOK' /\ UNCHANGED <<pc, job>> /\ claim[c] \in TaskId
      BY <1>0, <1>2 DEF ClientReports, ClientVanishes, HostTypeOK, Actor
    <2>2. CASE UNCHANGED vars
      BY <2>1, <2>2 DEF LeasesOnlyEnd, vars
    <2>3. CASE SubmitResult(claim[c], TRUE) \/ Fail(claim[c])
      <3>1. slots'[claim[c]].state \in Terminal /\ RowsBut(claim[c])
        BY <1>0, <2>1, <2>3, CallSettles
      <3>2. LeasesOnlyEnd
        BY <2>1, <3>1 DEF LeasesOnlyEnd, RowsBut, Terminal
      <3>3. [Next]_vars
        BY <2>1, <2>3 DEF Next
      <3>4. QED
        BY <2>1, <3>2, <3>3
    <2>4. QED
      BY <1>2, <2>2, <2>3 DEF ClientReports, ClientVanishes
  <1>3. ASSUME NEW c \in Client, ClientHeartbeats(c)
        PROVE  HostTypeOK' /\ LeasesOnlyEnd /\ [Next]_vars /\ UNCHANGED <<pc, job>>
    <2>1. /\ claim[c] \in TaskId /\ Heartbeat(claim[c], DefaultLease)
          /\ DefaultLease \in LeaseSecs
      BY <1>0, <1>3, HostConstants DEF ClientHeartbeats, HostTypeOK
    <2>2. StatesKept
      BY <1>0, <2>1, HeartbeatKeeps
    <2>3. QED
      BY <1>0, <1>3, <2>1, <2>2
         DEF ClientHeartbeats, actors, HostTypeOK, StatesKept, LeasesOnlyEnd, Next
  <1>4. ASSUME NEW i \in TaskId, NEW t \in Tasks, LoadStarts(i, t)
        PROVE  HostTypeOK' /\ LeasesOnlyEnd /\ [Next]_vars /\ UNCHANGED <<pc, job>>
    <2>1. RowsBut(i) /\ (slots'[i].state = "leased" => slots'[i].lease.stop = None)
      BY <1>0, <1>4, SubmitFills DEF LoadStarts
    <2>2. QED
      BY <1>0, <1>4, <2>1
         DEF LoadStarts, HostTypeOK, LeasesOnlyEnd, RowsBut, Next
  <1>5. ASSUME LoadEnds
        PROVE  HostTypeOK' /\ LeasesOnlyEnd /\ [Next]_vars /\ UNCHANGED <<pc, job>>
    <2>1. HostTypeOK' /\ UNCHANGED <<pc, job>> /\ loading \in TaskId
      BY <1>0, <1>5 DEF LoadEnds, HostTypeOK
    <2>2. CASE UNCHANGED vars
      BY <2>1, <2>2 DEF LeasesOnlyEnd, vars
    <2>3. CASE SubmitResult(loading, TRUE) \/ Fail(loading)
      <3>1. slots'[loading].state \in Terminal /\ RowsBut(loading)
        BY <1>0, <2>1, <2>3, CallSettles
      <3>2. LeasesOnlyEnd
        BY <2>1, <3>1 DEF LeasesOnlyEnd, RowsBut, Terminal
      <3>3. [Next]_vars
        BY <2>1, <2>3 DEF Next
      <3>4. QED
        BY <2>1, <3>2, <3>3
    <2>4. QED
      BY <1>5, <2>2, <2>3 DEF LoadEnds
  <1>6. CASE Produce
    <2>1. PICK i \in TaskId, t \in Tasks : OnQueue(Submit(i, t))
      BY <1>6 DEF Produce
    <2>2. RowsBut(i) /\ (slots'[i].state = "leased" => slots'[i].lease.stop = None)
      BY <1>0, <2>1, SubmitFills DEF OnQueue
    <2>3. QED
      BY <1>0, <2>1, <2>2
         DEF OnQueue, actors, HostTypeOK, LeasesOnlyEnd, RowsBut, Next
  <1>7. ASSUME NEW i \in TaskId, UserCancels(i)
        PROVE  HostTypeOK' /\ LeasesOnlyEnd /\ [Next]_vars /\ UNCHANGED <<pc, job>>
    <2>1. slots'[i].state \in Terminal /\ RowsBut(i)
      BY <1>0, <1>7, CallSettles DEF UserCancels, OnQueue
    <2>2. LeasesOnlyEnd
      BY <2>1 DEF LeasesOnlyEnd, RowsBut, Terminal
    <2>3. QED
      BY <1>0, <1>7, <2>2 DEF UserCancels, OnQueue, actors, HostTypeOK, Next
  <1>8. CASE Clock
    <2>1. StatesKept
      BY <1>0, <1>8, TimeKeeps DEF Clock, OnQueue
    <2>2. QED
      BY <1>0, <1>8, <2>1
         DEF Clock, OnQueue, actors, HostTypeOK, StatesKept, LeasesOnlyEnd, Next
  <1>9. CASE Tick
    <2>1. \A i \in TaskId : slots'[i].state = "leased" => slots'[i] = slots[i]
      BY <1>0, <1>9, TickKeepsLeases DEF Tick, OnQueue
    <2>2. QED
      BY <1>0, <1>9, <2>1
         DEF Tick, OnQueue, actors, HostTypeOK, LeasesOnlyEnd, Next
  <1>10. CASE \/ \E i \in TaskId : OnQueue(DropHandle(i))
              \/ \E c \in Configs : OnQueue(SetCfg(c))
    BY <1>0, <1>10 DEF OnQueue, DropHandle, SetCfg, actors, HostTypeOK,
       LeasesOnlyEnd, Next
  <1>11. QED
    BY <1>1, <1>2, <1>3, <1>4, <1>5, <1>6, <1>7, <1>8, <1>9, <1>10
       DEF OtherNext, ClientNext

\* Every step of the host is a step of the queue or leaves it alone, and keeps
\* the invariant, with or without the tick.
LEMMA HostNextInv ==
  ASSUME HostInv, [TickedNext]_hvars
  PROVE  HostInv' /\ [Next]_vars
  <1>0. IInv /\ HostTypeOK /\ LeaseHasWorker
    BY DEF HostInv
  <1>1. /\ HostTypeOK' /\ LeaseHasWorker' /\ [Next]_vars
        /\ \A v \in Worker : (Busy(v) <=> job[v] # None)'
    <2>1. CASE \E w \in Worker : WorkerNext(w)
      BY <2>1, TakeKeeps, LoopKeeps DEF WorkerNext
    <2>2. CASE OtherNext
      BY <1>0, <2>2, OthersKeep, WorkersRest DEF HostInv, Busy
    <2>3. CASE UNCHANGED hvars
      BY <1>0, <2>3 DEF HostInv, hvars, vars, actors, HostTypeOK, LeaseHasWorker,
         IsLeased, Busy
    <2>4. QED
      BY <2>1, <2>2, <2>3 DEF TickedNext, AppNext, OtherNext
  <1>2. IInv'
    BY <1>0, <1>1, NextInv
  <1>3. QED
    BY <1>1, <1>2 DEF HostInv

\* The host starts in the invariant.
LEMMA HostInitInv == HostInit => HostInv
  <1> SUFFICES ASSUME HostInit PROVE HostInv
    OBVIOUS
  <1>1. IInv
    BY InitInv DEF HostInit
  <1>2. LeaseHasWorker
    BY DEF HostInit, Init, LeaseHasWorker, IsLeased, NoSlot
  <1>3. HostTypeOK /\ \A w \in Worker : Busy(w) <=> job[w] # None
    BY DEF HostInit, HostTypeOK, Where, Busy
  <1>4. QED
    BY <1>1, <1>2, <1>3 DEF HostInv

-----------------------------------------------------------------------------
\* The workers, clients, producers, the user and the clock only ever do what the
\* queue allows: whatever is proved of the queue holds among its callers.
THEOREM HostRunsQueue == TickedSpec => Spec
  <1>1. HostInit => Init
    BY DEF HostInit
  <1>2. QED
    BY <1>1, HostInitInv, HostNextInv, PTL DEF TickedSpec, Spec

\* With a tick and changing settings: a lease that carries a stop signal is
\* never left behind by its worker (DirectWorker::run).
THEOREM WorkersKeepLeases == TickedSpec => []LeaseHasWorker
  <1>1. HostInv => LeaseHasWorker
    BY DEF HostInv
  <1>2. QED
    BY <1>1, HostInitInv, HostNextInv, PTL DEF TickedSpec

-----------------------------------------------------------------------------
\* Without a tick: one runner, one author.

\* The part of AppInv about one row, and about all of them.
RowHeld(i) ==
  slots[i].state \notin Terminal =>
    /\ author[i] = None
    /\ Runners(i) \subseteq IF IsLeased(i) THEN {holder[i]} ELSE {}

Held == HolderSettles /\ \A i \in TaskId : RowHeld(i)

\* AppInv, in two parts.
LEMMA AppInvParts == AppInv <=> HostInv /\ Held
  BY DEF AppInv, Held, RowHeld

\* Nobody takes a row or reports on one: no row is reopened, no lease revoked.
LEMMA NobodyMoves ==
  ASSUME Held, UNCHANGED <<holder, author>>,
         \A i \in TaskId :
           /\ Runners(i)' \subseteq Runners(i)
           /\ slots'[i].state \notin Terminal =>
                /\ slots[i].state \notin Terminal
                /\ slots[i].state = "leased" => slots'[i].state = "leased"
  PROVE  Held'
  BY DEF Held, RowHeld, HolderSettles, IsLeased

\* A runner of a leased row settles it.
LEMMA RunnerSettles ==
  ASSUME Held, HostTypeOK, NEW i \in TaskId, NEW p \in Runners(i), IsLeased(i),
         slots'[i].state \in Terminal, RowsBut(i),
         holder' = holder, author' = [author EXCEPT ![i] = p],
         \A j \in TaskId : Runners(j)' \subseteq Runners(j)
  PROVE  Held'
  <1>1. p = holder[i]
    BY DEF Held, RowHeld, IsLeased, Terminal
  <1>2. /\ author'[i] = p /\ \A j \in TaskId \ {i} : author'[j] = author[j]
        /\ \A j \in TaskId : author[j] # None => author[j] = holder[j]
    BY DEF HostTypeOK, Held, HolderSettles
  <1>3. HolderSettles'
    <2> SUFFICES ASSUME NEW j \in TaskId, author'[j] # None
                 PROVE  author'[j] = holder'[j]
      BY DEF HolderSettles
    <2>1. QED
      BY <1>1, <1>2
  <1>4. \A j \in TaskId : RowHeld(j)'
    BY <1>2 DEF RowHeld, RowsBut, Held, IsLeased
  <1>5. QED
    BY <1>3, <1>4 DEF Held

\* Somebody takes a queued row.
LEMMA RunnerTakes ==
  ASSUME Held, HostTypeOK, NEW i \in TaskId, NEW p, slots[i].state = "queued",
         slots'[i].state = "leased", RowsBut(i),
         author' = author, holder' = [holder EXCEPT ![i] = p],
         Runners(i)' \subseteq Runners(i) \cup {p},
         \A j \in TaskId \ {i} : Runners(j)' \subseteq Runners(j)
  PROVE  Held'
  <1>1. author[i] = None /\ Runners(i) = {}
    BY DEF Held, RowHeld, IsLeased, Terminal
  <1>2. holder'[i] = p /\ \A j \in TaskId \ {i} : holder'[j] = holder[j]
    BY DEF HostTypeOK
  <1>3. HolderSettles'
    BY <1>1, <1>2 DEF Held, HolderSettles
  <1>4. RowHeld(i)'
    BY <1>1, <1>2 DEF RowHeld, IsLeased
  <1>5. \A j \in TaskId \ {i} : RowHeld(j)'
    BY <1>2 DEF RowHeld, RowsBut, Held, IsLeased
  <1>6. QED
    BY <1>3, <1>4, <1>5 DEF Held

\* A row that is queued or leased again was not settled before: without a tick
\* every row the step does not name keeps its state.
LEMMA AppNextHeld ==
  ASSUME AppInv, [AppNext]_hvars
  PROVE  Held'
  <1>0. /\ IInv /\ HostTypeOK /\ Held /\ HostInv
        /\ \A w \in Worker : Busy(w) <=> job[w] # None
        /\ None \notin Client /\ None \notin Worker
    BY AppInvParts, QueueConstants, HostConstants DEF HostInv
  <1>1. ASSUME NEW w \in Worker,
               Poll(w) \/ ChatReturns(w) \/ ChatCancelled(w)
        PROVE  Held'
    <2>1. UNCHANGED <<vars, claim, holder, author>>
      BY <1>1 DEF Poll, ChatReturns, ChatCancelled
    <2>2. \A i \in TaskId : Runners(i)' \subseteq Runners(i)
      BY <1>0, <1>1 DEF Poll, ChatReturns, ChatCancelled, Goto, Runners, Busy, HostTypeOK
    <2>3. QED
      BY <1>0, <2>1, <2>2, NobodyMoves DEF vars
  <1>2. ASSUME NEW w \in Worker, Take(w)
        PROVE  Held'
    <2>1. CASE Goto(w, "idle") /\ UNCHANGED <<vars, job, holder>>
      <3>1. \A i \in TaskId : Runners(i)' \subseteq Runners(i)
        BY <1>0, <1>2, <2>1 DEF Take, Goto, Runners, Busy, HostTypeOK
      <3>2. QED
        BY <1>0, <1>2, <2>1, <3>1, NobodyMoves DEF Take, vars
    <2>2. ASSUME NEW i \in TaskId, CheckoutDirect(w, i, DefaultLease),
                 job' = [job EXCEPT ![w] = i], holder' = [holder EXCEPT ![i] = w],
                 Goto(w, "calling")
          PROVE  Held'
      <3>1. slots[i].state = "queued" /\ RowsBut(i) /\ slots'[i].state = "leased"
        BY <1>0, <2>2, HostConstants, DirectLeases
      <3>2. /\ Runners(i)' \subseteq Runners(i) \cup {w}
            /\ \A j \in TaskId \ {i} : Runners(j)' \subseteq Runners(j)
        BY <1>0, <1>2, <2>2 DEF Take, Goto, Runners, Busy, HostTypeOK
      <3>3. author' = author
        BY <1>2 DEF Take
      <3>4. QED
        BY <1>0, <2>2, <3>1, <3>2, <3>3, RunnerTakes
    <2>3. QED
      BY <1>2, <2>1, <2>2 DEF Take
  <1>3. ASSUME NEW w \in Worker, Record(w)
        PROVE  Held'
    <2> DEFINE i == job[w]
    <2>1. /\ i \in TaskId /\ w \in Runners(i) /\ holder' = holder
          /\ \A j \in TaskId : Runners(j)' \subseteq Runners(j)
      BY <1>0, <1>3 DEF Record, Goto, Runners, Busy, HostTypeOK
    <2> HIDE DEF i
    <2>2. CASE UNCHANGED <<vars, author>>
      BY <1>0, <2>1, <2>2, NobodyMoves DEF vars
    <2>3. CASE (SubmitResult(i, TRUE) \/ Fail(i)) /\ author' = [author EXCEPT ![i] = w]
      <3>1. slots'[i].state \in Terminal /\ RowsBut(i) /\ IsLeased(i)
        BY <1>0, <2>1, <2>3, CallSettles DEF SubmitResult, Fail, Accepts
      <3>2. QED
        BY <1>0, <2>1, <2>3, <3>1, RunnerSettles
    <2>4. QED
      BY <1>3, <2>2, <2>3 DEF Record, i
  <1>4. ASSUME NEW c \in Client, ClientTakes(c)
        PROVE  Held'
    <2>1. PICK kinds \in SUBSET Kind, shapes \in SUBSET {"direct", "agent"},
               min \in Rank, i \in TaskId, d \in LeaseSecs \ {0} :
            /\ CheckoutMcp(kinds, shapes, min, i, d)
            /\ claim' = [claim EXCEPT ![c] = i]
            /\ holder' = [holder EXCEPT ![i] = c]
      BY <1>4 DEF ClientTakes
    <2>2. slots[i].state = "queued" /\ RowsBut(i) /\ slots'[i].state = "leased"
      BY <1>0, <2>1, McpLeases
    <2>3. /\ Runners(i)' \subseteq Runners(i) \cup {c}
          /\ \A j \in TaskId \ {i} : Runners(j)' \subseteq Runners(j)
          /\ author' = author
      BY <1>0, <1>4, <2>1 DEF ClientTakes, Runners, Busy, HostTypeOK
    <2>4. QED
      BY <1>0, <2>1, <2>2, <2>3, RunnerTakes
  <1>5. ASSUME NEW c \in Client, ClientReports(c) \/ ClientVanishes(c)
        PROVE  Held'
    <2> DEFINE i == claim[c]
    <2>1. /\ i \in TaskId /\ c \in Runners(i) /\ holder' = holder
          /\ \A j \in TaskId : Runners(j)' \subseteq Runners(j)
      BY <1>0, <1>5, QueueConstants DEF ClientReports, ClientVanishes, Runners, Busy, HostTypeOK
    <2> HIDE DEF i
    <2>2. CASE UNCHANGED <<vars, author>>
      BY <1>0, <2>1, <2>2, NobodyMoves DEF vars
    <2>3. CASE (SubmitResult(i, TRUE) \/ Fail(i)) /\ author' = [author EXCEPT ![i] = c]
      <3>1. slots'[i].state \in Terminal /\ RowsBut(i) /\ IsLeased(i)
        BY <1>0, <2>1, <2>3, CallSettles DEF SubmitResult, Fail, Accepts
      <3>2. QED
        BY <1>0, <2>1, <2>3, <3>1, RunnerSettles
    <2>4. QED
      BY <1>5, <2>2, <2>3 DEF ClientReports, ClientVanishes, i
  <1>6. ASSUME UNCHANGED <<pc, job, claim>>
        PROVE  \A i \in TaskId : Runners(i)' \subseteq Runners(i)
    BY <1>6 DEF Runners, Busy
  <1>7. ASSUME NEW i \in TaskId, slots'[i].state \in Terminal, RowsBut(i),
               UNCHANGED <<pc, job, claim, holder, author>>
        PROVE  Held'
    BY <1>0, <1>6, <1>7, NobodyMoves DEF RowsBut
  <1>8. ASSUME NEW i \in TaskId, slots[i].state = "absent", RowsBut(i),
               UNCHANGED <<pc, job, claim, holder, author>>
        PROVE  Held'
    BY <1>0, <1>6, <1>8, NobodyMoves DEF RowsBut, Terminal
  <1>9. ASSUME StatesKept, UNCHANGED <<pc, job, claim, holder, author>>
        PROVE  Held'
    BY <1>0, <1>6, <1>9, NobodyMoves DEF StatesKept
  <1>10. ASSUME NEW c \in Client, ClientHeartbeats(c)
         PROVE  Held'
    <2>1. /\ claim[c] \in TaskId /\ Heartbeat(claim[c], DefaultLease)
          /\ DefaultLease \in LeaseSecs
      BY <1>0, <1>10, HostConstants DEF ClientHeartbeats, HostTypeOK
    <2>2. QED
      BY <1>0, <1>9, <1>10, <2>1, HeartbeatKeeps DEF ClientHeartbeats, actors
  <1>11. ASSUME NEW i \in TaskId, NEW t \in Tasks,
                LoadStarts(i, t) \/ OnQueue(Submit(i, t))
         PROVE  Held'
    BY <1>0, <1>8, <1>11, SubmitFills DEF LoadStarts, OnQueue, actors
  <1>12. ASSUME LoadEnds
         PROVE  Held'
    <2>1. /\ loading \in TaskId /\ UNCHANGED <<pc, job, claim, holder, author>>
      BY <1>0, <1>12 DEF LoadEnds, HostTypeOK
    <2>2. CASE UNCHANGED vars
      BY <1>9, <2>1, <2>2 DEF StatesKept, vars
    <2>3. CASE SubmitResult(loading, TRUE) \/ Fail(loading)
      BY <1>0, <1>7, <2>1, <2>3, CallSettles
    <2>4. QED
      BY <1>12, <2>2, <2>3 DEF LoadEnds
  <1>13. ASSUME NEW i \in TaskId, UserCancels(i)
         PROVE  Held'
    BY <1>0, <1>7, <1>13, CallSettles DEF UserCancels, OnQueue, actors
  <1>14. ASSUME NEW i \in TaskId, OnQueue(DropHandle(i))
         PROVE  Held'
    BY <1>9, <1>14 DEF OnQueue, DropHandle, StatesKept, actors
  <1>15. CASE Clock
    BY <1>0, <1>9, <1>15, TimeKeeps DEF Clock, OnQueue, actors
  <1>16. CASE UNCHANGED hvars
    BY <1>9, <1>16 DEF hvars, actors, StatesKept
  <1>17. QED
    BY <1>1, <1>2, <1>3, <1>4, <1>5, <1>10, <1>11, <1>12, <1>13, <1>14, <1>15, <1>16
       DEF AppNext, WorkerNext, ClientNext, Produce

\* The invariant of the application, which runs no tick.
THEOREM AppInvariant == AppSpec => []AppInv
  <1>1. HostInit => AppInv
    <2> SUFFICES ASSUME HostInit PROVE AppInv
      OBVIOUS
    <2>1. Held
      BY QueueConstants, HostConstants
         DEF HostInit, Init, Held, RowHeld, HolderSettles, Runners, Busy, IsLeased, NoSlot
    <2>2. QED
      BY <2>1, HostInitInv, AppInvParts
  <1>2. AppInv /\ [AppNext]_hvars => AppInv'
    <2> SUFFICES ASSUME AppInv, [AppNext]_hvars PROVE AppInv'
      OBVIOUS
    <2>1. [TickedNext]_hvars
      BY DEF TickedNext
    <2>2. HostInv'
      BY <2>1, HostNextInv DEF AppInv
    <2>3. Held'
      BY AppNextHeld
    <2>4. QED
      BY <2>2, <2>3 DEF AppInv, Held, RowHeld
  <1>3. QED
    BY <1>1, <1>2, PTL DEF AppSpec

\* While nothing expires a task is worked on once, whatever workers, clients,
\* cancels and the indexer's loads interleave.
THEOREM WorkedOnOnce == AppSpec => []OneRunner
  <1>1. AppInv => OneRunner
    BY DEF AppInv, OneRunner, Live, Terminal, Unsettled
  <1>2. QED
    BY <1>1, AppInvariant, PTL

\* Only the party the queue last leased a row to settles it, although no call
\* of the queue looks at who calls.
THEOREM HoldersSettle == AppSpec => []HolderSettles
  <1>1. AppInv => HolderSettles
    BY DEF AppInv
  <1>2. QED
    BY <1>1, AppInvariant, PTL
=============================================================================
