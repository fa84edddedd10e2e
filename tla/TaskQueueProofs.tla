-------------------------- MODULE TaskQueueProofs --------------------------
(***************************************************************************)
(* Proofs about TaskQueue, for every set of tasks, workers, clients' lease *)
(* lengths, grace windows and retention.                                   *)
(***************************************************************************)
EXTENDS TaskQueue, TLAPS

-----------------------------------------------------------------------------
\* What the row helpers return.

\* The empty row is a row.
LEMMA NoSlotType == NoSlot \in Slot
  BY QueueConstants DEF NoSlot, Slot, Unfinished, Unsettled, Terminal

\* A settled row is typed, unleased, finished and owes nothing.
LEMMA SettledRow ==
  ASSUME NEW s \in Slot, NEW o \in Terminal, NEW d \in {"none", "result", "error"}
  PROVE  LET r == Settled(s, o, d)
         IN  /\ r \in Slot /\ r.state = o /\ r.age = 0 /\ r.lease = None
             /\ r.sender = FALSE /\ r.detail = d
  <1> DEFINE r == Settled(s, o, d)
  <1>1. r.state = o /\ r.age = 0 /\ r.lease = None
    BY DEF Settled, Slot
  <1>2. r.sender = FALSE /\ r.detail = d
    BY DEF Settled, Slot
  <1>3. 0 \in Unfinished..(Retention + 1)
    BY QueueConstants DEF Unfinished
  <1>4. r \in Slot
    BY <1>3 DEF Settled, Slot
  <1>5. QED
    BY <1>1, <1>2, <1>4

\* A leased row keeps everything but its state, lease and last worker.
LEMMA LeasedRow ==
  ASSUME NEW s \in Slot, NEW k \in WorkerKind, NEW n \in Nat,
         NEW g \in Worker \cup {None}
  PROVE  LET r == LeasedTo(s, k, n, g)
         IN  /\ r \in Slot /\ r.state = "leased" /\ r.age = s.age
             /\ r.sender = s.sender /\ r.detail = s.detail
             /\ r.lease = [worker |-> k, left |-> n, stop |-> g]
             /\ r.lease # None
  <1>1. [worker |-> k, left |-> n, stop |-> g] \in Lease
    BY DEF Lease
  <1>2. QED
    BY <1>1, QueueConstants DEF LeasedTo, Slot, Terminal, Unfinished, Unsettled, Lease

\* Time runs a lease down and changes nothing else of it.
LEMMA OlderLeaseType ==
  ASSUME NEW l \in Lease
  PROVE  /\ OlderLease(l) \in Lease /\ OlderLease(l) # None
         /\ OlderLease(l).worker = l.worker /\ OlderLease(l).stop = l.stop
  <1>1. l # None
    BY QueueConstants
  <1>2. Less(l.left) \in Nat
    BY DEF Less, Lease
  <1>3. OlderLease(l) = [l EXCEPT !.left = Less(l.left)]
    BY <1>1 DEF OlderLease
  <1>4. OlderLease(l) \in Lease
    BY <1>2, <1>3 DEF Lease
  <1>5. QED
    BY <1>3, <1>4, QueueConstants DEF Lease

\* Time changes no row's state, and only a finished row's age.
LEMMA OlderRow ==
  ASSUME NEW s \in Slot
  PROVE  LET r == Older(s)
         IN  /\ r \in Slot /\ r.state = s.state /\ r.sender = s.sender
             /\ r.detail = s.detail
             /\ r.age = Unfinished <=> s.age = Unfinished
             /\ r.lease = None <=> s.lease = None
             /\ s.lease # None => /\ r.lease.worker = s.lease.worker
                                  /\ r.lease.stop = s.lease.stop
  <1> DEFINE r == Older(s)
             a == IF s.age \in 0..Retention THEN s.age + 1 ELSE s.age
  <1>1. r = [s EXCEPT !.grace = Less(s.grace), !.lease = OlderLease(s.lease),
                      !.age = a]
    BY DEF Older
  <1>2. Less(s.grace) \in Nat
    BY DEF Less, Slot
  <1>3. /\ OlderLease(s.lease) \in Lease \cup {None}
        /\ OlderLease(s.lease) = None <=> s.lease = None
    BY OlderLeaseType, QueueConstants DEF Slot, OlderLease
  <1>4. /\ a \in Unfinished..(Retention + 1)
        /\ a = Unfinished <=> s.age = Unfinished
    BY QueueConstants DEF Slot, Unfinished
  <1>5. r \in Slot
    BY <1>1, <1>2, <1>3, <1>4 DEF Slot
  <1>6. /\ r.state = s.state /\ r.sender = s.sender /\ r.detail = s.detail
        /\ r.age = a /\ r.lease = OlderLease(s.lease)
    BY <1>1 DEF Slot
  <1>7. s.lease # None => /\ r.lease.worker = s.lease.worker
                          /\ r.lease.stop = s.lease.stop
    BY <1>6, OlderLeaseType DEF Slot
  <1>8. QED
    BY <1>3, <1>4, <1>5, <1>6, <1>7

-----------------------------------------------------------------------------
\* The invariant, row by row.

RowInv(i, s, h) ==
  /\ s \in Slot /\ h \in Handle
  /\ s.state = "leased" <=> s.lease # None
  /\ s.state \in Terminal <=> s.age # Unfinished
  /\ s.sender <=> s.state \in Unsettled /\ i \notin Managed
  /\ s.state # "absent" => h # "none"
  /\ i \in Managed => h \in {"none", "internal"}
  /\ i \notin Managed => h # "internal"
  /\ h = "pending" => s.state \in Unsettled /\ s.sender
  /\ h \in Terminal => s.state \in {h, "absent"}
  /\ h # "app_exit"
  /\ i \in Managed => s.state # "queued"
  /\ s.state = "leased" => (s.lease.worker = "indexer" <=> i \in Managed)

\* IInv is the row invariant of every row, and the signals' part.
LEMMA IInvByRows ==
  IInv <=> /\ slots \in [TaskId -> Slot] /\ handle \in [TaskId -> Handle]
           /\ stop \in [Worker -> BOOLEAN] /\ cfg \in Config
           /\ \A i \in TaskId : RowInv(i, slots[i], handle[i])
           /\ LiveLeaseNotStopped
  BY QueueConstants DEF IInv, TypeOK, RowsConsistent, NobodyLeftWaiting,
     SelfManagedStaysPut, RowInv, Live, IsLeased

\* Settling a live row and answering its producer keeps the row invariant.
LEMMA SettleStep ==
  ASSUME NEW i \in TaskId, NEW s, NEW h, RowInv(i, s, h), s.state \in Unsettled,
         NEW o \in Terminal, NEW d \in {"none", "result", "error"}
  PROVE  RowInv(i, Settled(s, o, d),
                IF s.sender /\ h = "pending" THEN o ELSE h)
  <1> DEFINE r == Settled(s, o, d)
             g == IF s.sender /\ h = "pending" THEN o ELSE h
  <1>0. s \in Slot
    BY DEF RowInv
  <1>1. /\ r \in Slot /\ r.state = o /\ r.age = 0 /\ r.lease = None
        /\ r.sender = FALSE
    BY <1>0, SettledRow
  <1>2. h \notin Terminal /\ h # "none" /\ h # "app_exit" /\ h \in Handle
    BY DEF RowInv, Terminal, Unsettled
  <1>3. /\ g \in Handle /\ g # "none" /\ g # "app_exit"
        /\ g # "pending" /\ (g \in Terminal => g = o)
        /\ i \in Managed => g = "internal"
        /\ i \notin Managed => g # "internal"
    BY <1>2 DEF RowInv, Handle, Terminal
  <1> HIDE DEF r, g
  <1>4. RowInv(i, r, g)
    BY <1>1, <1>3 DEF RowInv, Terminal, Unsettled, Unfinished
  <1>5. QED
    BY <1>4 DEF r, g

\* Leasing a queued row to a worker keeps the row invariant.
LEMMA LeaseStep ==
  ASSUME NEW i \in TaskId, NEW s, NEW h, RowInv(i, s, h), s.state = "queued",
         NEW k \in WorkerKind \ {"indexer"}, NEW n \in Nat,
         NEW g \in Worker \cup {None}
  PROVE  RowInv(i, LeasedTo(s, k, n, g), h)
  <1> DEFINE r == LeasedTo(s, k, n, g)
  <1>0. s \in Slot
    BY DEF RowInv
  <1>k. k \in WorkerKind /\ k # "indexer"
    OBVIOUS
  <1>1. /\ r \in Slot /\ r.state = "leased" /\ r.lease # None
        /\ r.age = s.age /\ r.sender = s.sender
        /\ r.lease = [worker |-> k, left |-> n, stop |-> g]
    BY <1>0, <1>k, LeasedRow
  <1>2. i \notin Managed /\ s.age = Unfinished /\ s.sender /\ h \notin Terminal
    BY DEF RowInv, Terminal, Unsettled
  <1> HIDE DEF r
  <1>3. RowInv(i, r, h)
    BY <1>k, <1>1, <1>2 DEF RowInv, Terminal, Unsettled
  <1>4. QED
    BY <1>3 DEF r

\* Extending a lease keeps the row invariant and the lease's holder.
LEMMA HeartbeatStep ==
  ASSUME NEW i \in TaskId, NEW s, NEW h, RowInv(i, s, h), s.state = "leased",
         NEW n \in Nat
  PROVE  LET r == [s EXCEPT !.lease.left = n]
         IN  /\ RowInv(i, r, h) /\ r.state = "leased"
             /\ r.lease.stop = s.lease.stop
  <1> DEFINE l == [s.lease EXCEPT !.left = n]
             r == [s EXCEPT !.lease = l]
  <1>1. s \in Slot /\ s.lease \in Lease
    BY DEF RowInv, Slot
  <1>2. l \in Lease /\ l # None /\ l.worker = s.lease.worker /\ l.stop = s.lease.stop
    BY <1>1, QueueConstants DEF Lease
  <1>3. r \in Slot /\ r.lease = l
    BY <1>1, <1>2 DEF Slot
  <1>4. /\ r.state = s.state /\ r.age = s.age /\ r.sender = s.sender
    BY <1>1 DEF Slot
  <1>5. RowInv(i, r, h)
    BY <1>2, <1>3, <1>4 DEF RowInv
  <1>6. QED
    BY <1>2, <1>3, <1>4, <1>5

\* Time keeps the row invariant.
LEMMA OlderStep ==
  ASSUME NEW i \in TaskId, NEW s, NEW h, RowInv(i, s, h)
  PROVE  RowInv(i, Older(s), h)
  <1>1. s \in Slot
    BY DEF RowInv
  <1>2. QED
    BY <1>1, OlderRow DEF RowInv

\* A tick keeps the row invariant; it never removes a row that owes an answer,
\* and a row it leaves leased it leaves alone.
LEMMA MaintainedStep ==
  ASSUME NEW i \in TaskId, RowInv(i, slots[i], handle[i])
  PROVE  /\ RowInv(i, Maintained(i), handle[i])
         /\ PastRetention(slots[i]) => ~slots[i].sender
         /\ Maintained(i).state = "leased" => Maintained(i) = slots[i]
  <1> DEFINE s == slots[i]
  <1>0. s \in Slot /\ 0 \in Unfinished..(Retention + 1)
    BY QueueConstants DEF RowInv, Unfinished
  <1>1. PastRetention(s) => ~s.sender
    BY DEF RowInv, PastRetention, Terminal, Unsettled
  <1>2. CASE Expired(i) /\ Orphaned(s)
    <2> DEFINE r == [s EXCEPT !.state = "failed", !.age = 0, !.lease = None,
                              !.detail = "error"]
    <2>1. /\ r \in Slot /\ r.state = "failed" /\ r.age = 0 /\ r.lease = None
          /\ r.sender = s.sender
      BY <1>0 DEF Slot, Terminal
    <2>2. i \in Managed /\ handle[i] = "internal" /\ ~s.sender
      BY <1>2 DEF RowInv, Expired, IsLeased, Orphaned
    <2>3. Maintained(i) = r
      BY <1>2 DEF Maintained
    <2> HIDE DEF r
    <2>4. RowInv(i, r, handle[i])
      BY <2>1, <2>2 DEF RowInv, Terminal, Unsettled, Unfinished, Handle
    <2>5. QED
      BY <1>1, <2>1, <2>3, <2>4
  <1>3. CASE Expired(i) /\ ~Orphaned(s)
    <2> DEFINE r == [s EXCEPT !.state = "queued", !.lease = None]
    <2>1. /\ r \in Slot /\ r.state = "queued" /\ r.lease = None
          /\ r.sender = s.sender /\ r.age = s.age
      BY <1>0 DEF Slot, Unsettled
    <2>2. i \notin Managed /\ s.state = "leased"
      BY <1>3 DEF RowInv, Expired, IsLeased, Orphaned
    <2>3. Maintained(i) = r
      BY <1>3 DEF Maintained
    <2> HIDE DEF r
    <2>4. RowInv(i, r, handle[i])
      BY <2>1, <2>2 DEF RowInv, Terminal, Unsettled
    <2>5. QED
      BY <1>1, <2>1, <2>3, <2>4
  <1>4. CASE ~Expired(i) /\ PastRetention(s)
    <2>1. s.state \in Terminal
      BY <1>4 DEF PastRetention
    <2>2. Maintained(i) = NoSlot
      BY <1>4 DEF Maintained
    <2>3. NoSlot \in Slot /\ handle[i] # "pending"
      BY <2>1, NoSlotType DEF RowInv, Terminal, Unsettled
    <2>4. RowInv(i, NoSlot, handle[i])
      BY <2>3 DEF RowInv, NoSlot, Terminal, Unsettled, Unfinished
    <2>5. QED
      BY <1>1, <2>2, <2>4 DEF NoSlot
  <1>5. CASE ~Expired(i) /\ ~PastRetention(s)
    BY <1>1, <1>5 DEF Maintained
  <1>6. QED
    BY <1>2, <1>3, <1>4, <1>5

-----------------------------------------------------------------------------
\* The invariant holds initially and every step keeps it.

\* The empty queue satisfies it.
LEMMA InitInv == Init => IInv
  <1> SUFFICES ASSUME Init PROVE IInv
    OBVIOUS
  <1>1. slots \in [TaskId -> Slot]
    BY NoSlotType DEF Init
  <1>2. handle \in [TaskId -> Handle] /\ stop \in [Worker -> BOOLEAN] /\ cfg \in Config
    BY QueueConstants DEF Init, Handle
  <1>3. \A i \in TaskId : RowInv(i, slots[i], handle[i])
    BY NoSlotType DEF Init, RowInv, NoSlot, Handle, Terminal, Unsettled, Unfinished
  <1>4. LiveLeaseNotStopped
    BY DEF Init, LiveLeaseNotStopped, IsLeased, NoSlot
  <1>5. QED
    BY <1>1, <1>2, <1>3, <1>4, IInvByRows

\* An operation on one row keeps the row invariant of all rows.
LEMMA OneRow ==
  ASSUME IInv, NEW i \in TaskId, NEW r, NEW h, RowInv(i, r, h),
         slots' = [slots EXCEPT ![i] = r], handle' = [handle EXCEPT ![i] = h]
  PROVE  /\ slots' \in [TaskId -> Slot] /\ handle' \in [TaskId -> Handle]
         /\ \A j \in TaskId : RowInv(j, slots'[j], handle'[j])
         /\ slots'[i] = r /\ handle'[i] = h
         /\ \A j \in TaskId \ {i} : slots'[j] = slots[j] /\ handle'[j] = handle[j]
  <1>1. /\ slots \in [TaskId -> Slot] /\ handle \in [TaskId -> Handle]
        /\ \A j \in TaskId : RowInv(j, slots[j], handle[j])
    BY IInvByRows
  <1>2. r \in Slot /\ h \in Handle
    BY DEF RowInv
  <1>3. QED
    BY <1>1, <1>2

\* The signals' part of the invariant, when no signal changes and every lease
\* after the step was there before with the same signal, or has none.
LEMMA SignalsKept ==
  ASSUME LiveLeaseNotStopped, stop' = stop,
         \A i \in TaskId : slots'[i].state = "leased" =>
           \/ slots'[i].lease.stop = None
           \/ /\ slots[i].state = "leased"
              /\ slots'[i].lease.stop = slots[i].lease.stop
  PROVE  LiveLeaseNotStopped'
  BY DEF LiveLeaseNotStopped, IsLeased

\* The primed invariant from its parts.
LEMMA IInvPrimed ==
  ASSUME slots' \in [TaskId -> Slot], handle' \in [TaskId -> Handle],
         stop' \in [Worker -> BOOLEAN], cfg' \in Config,
         \A i \in TaskId : RowInv(i, slots'[i], handle'[i]),
         LiveLeaseNotStopped'
  PROVE  IInv'
  BY QueueConstants DEF IInv, TypeOK, RowsConsistent, NobodyLeftWaiting,
     SelfManagedStaysPut, RowInv, Live, IsLeased

\* Settling a live row, whichever operation does it.
LEMMA SettleKeepsRows ==
  ASSUME IInv, NEW i \in TaskId, Live(i), NEW o \in Terminal,
         NEW d \in {"none", "result", "error"},
         slots' = [slots EXCEPT ![i] = Settled(@, o, d)], Answer(i, o)
  PROVE  /\ slots' \in [TaskId -> Slot] /\ handle' \in [TaskId -> Handle]
         /\ \A j \in TaskId : RowInv(j, slots'[j], handle'[j])
         /\ slots'[i].state = o
         /\ handle'[i] = IF slots[i].sender /\ handle[i] = "pending"
                         THEN o ELSE handle[i]
         /\ \A j \in TaskId \ {i} : slots'[j] = slots[j] /\ handle'[j] = handle[j]
  <1> DEFINE r == Settled(slots[i], o, d)
             h == IF slots[i].sender /\ handle[i] = "pending" THEN o ELSE handle[i]
  <1>1. /\ slots \in [TaskId -> Slot] /\ handle \in [TaskId -> Handle]
        /\ RowInv(i, slots[i], handle[i])
    BY IInvByRows
  <1>2. RowInv(i, r, h)
    BY <1>1, SettleStep DEF Live
  <1>3. r.state = o
    BY <1>1, SettledRow
  <1>4. slots' = [slots EXCEPT ![i] = r]
    OBVIOUS
  <1>5. handle' = [handle EXCEPT ![i] = h]
    BY <1>1 DEF Answer
  <1> HIDE DEF r, h
  <1>6. /\ slots' \in [TaskId -> Slot] /\ handle' \in [TaskId -> Handle]
        /\ \A j \in TaskId : RowInv(j, slots'[j], handle'[j])
        /\ slots'[i] = r /\ handle'[i] = h
        /\ \A j \in TaskId \ {i} : slots'[j] = slots[j] /\ handle'[j] = handle[j]
    BY <1>2, <1>4, <1>5, OneRow
  <1>7. QED
    BY <1>3, <1>6 DEF h

\* Every operation of the queue, and time, keep the invariant.
LEMMA NextInv == IInv /\ [Next]_vars => IInv'
  <1> SUFFICES ASSUME IInv, [Next]_vars
               PROVE  IInv'
    OBVIOUS
  <1>0. /\ slots \in [TaskId -> Slot] /\ handle \in [TaskId -> Handle]
        /\ stop \in [Worker -> BOOLEAN] /\ cfg \in Config
        /\ \A i \in TaskId : RowInv(i, slots[i], handle[i])
        /\ LiveLeaseNotStopped
    BY IInvByRows
  <1>1. ASSUME NEW i \in TaskId, NEW t \in Tasks, Submit(i, t)
        PROVE  IInv'
    <2> DEFINE g == IF cfg.preference = "internal" THEN 0 ELSE Grace[cfg.preference]
               r == [NoSlot EXCEPT !.state = "queued", !.task = t,
                                   !.sender = TRUE, !.grace = g]
    <2>1. g \in Nat /\ t \in TaskDesc
      BY <1>0, QueueConstants DEF Config, Preference
    <2>2. r \in Slot
      BY <2>1, NoSlotType DEF Slot, Unsettled
    <2>3. RowInv(i, r, "pending")
      <3> HIDE DEF g
      <3>1. /\ r.state = "queued" /\ r.sender /\ r.lease = None
            /\ r.age = Unfinished
        BY DEF NoSlot
      <3> HIDE DEF r
      <3>2. i \notin Managed
        BY <1>1 DEF Submit
      <3>3. QED
        BY <2>2, <3>1, <3>2 DEF RowInv, Handle, Terminal, Unsettled
    <2>4. slots' = [slots EXCEPT ![i] = r] /\ handle' = [handle EXCEPT ![i] = "pending"]
      BY <1>1 DEF Submit
    <2>5. r.state = "queued"
      BY DEF NoSlot
    <2> HIDE DEF r
    <2>6. /\ slots' \in [TaskId -> Slot] /\ handle' \in [TaskId -> Handle]
          /\ \A j \in TaskId : RowInv(j, slots'[j], handle'[j])
          /\ slots'[i] = r
          /\ \A j \in TaskId \ {i} : slots'[j] = slots[j]
      BY <2>3, <2>4, OneRow
    <2>7. LiveLeaseNotStopped'
      BY <1>0, <1>1, <2>5, <2>6, SignalsKept DEF Submit
    <2>8. QED
      BY <1>0, <1>1, <2>6, <2>7, IInvPrimed DEF Submit
  <1>2. ASSUME NEW i \in TaskId, NEW t \in Tasks, SubmitSelfManaged(i, t)
        PROVE  IInv'
    <2> DEFINE s == [NoSlot EXCEPT !.task = t]
               r == LeasedTo(s, "indexer", SelfLease, None)
    <2>1. /\ s \in Slot /\ s.age = Unfinished /\ ~s.sender
      BY NoSlotType, QueueConstants DEF Slot, NoSlot
    <2>k. SelfLease \in Nat /\ "indexer" \in WorkerKind /\ None \in Worker \cup {None}
      BY QueueConstants DEF WorkerKind
    <2> HIDE DEF s
    <2>2. /\ r \in Slot /\ r.state = "leased" /\ r.age = Unfinished
          /\ r.sender = s.sender /\ r.lease # None
          /\ r.lease = [worker |-> "indexer", left |-> SelfLease, stop |-> None]
      BY <2>1, <2>k, LeasedRow
    <2>3. RowInv(i, r, "internal")
      <3>1. ~r.sender
        BY <2>1, <2>2
      <3>2. i \in Managed
        BY <1>2 DEF SubmitSelfManaged
      <3> HIDE DEF r
      <3>3. QED
        BY <2>2, <3>1, <3>2 DEF RowInv, Handle, Terminal, Unsettled
    <2>4. /\ slots' = [slots EXCEPT ![i] = r]
          /\ handle' = [handle EXCEPT ![i] = "internal"]
      BY <1>2 DEF SubmitSelfManaged, s
    <2> HIDE DEF r
    <2>5. /\ slots' \in [TaskId -> Slot] /\ handle' \in [TaskId -> Handle]
          /\ \A j \in TaskId : RowInv(j, slots'[j], handle'[j])
          /\ slots'[i] = r
          /\ \A j \in TaskId \ {i} : slots'[j] = slots[j]
      BY <2>3, <2>4, OneRow
    <2>6. LiveLeaseNotStopped'
      BY <1>0, <1>2, <2>2, <2>5, SignalsKept DEF SubmitSelfManaged
    <2>7. QED
      BY <1>0, <1>2, <2>5, <2>6, IInvPrimed DEF SubmitSelfManaged
  <1>3. ASSUME NEW i \in TaskId, DropHandle(i)
        PROVE  IInv'
    <2>1. RowInv(i, slots[i], "dropped")
      BY <1>0, <1>3 DEF DropHandle, RowInv, Handle, Terminal
    <2>2. slots' = [slots EXCEPT ![i] = slots[i]] /\ handle' = [handle EXCEPT ![i] = "dropped"]
      BY <1>0, <1>3 DEF DropHandle
    <2>3. /\ slots' \in [TaskId -> Slot] /\ handle' \in [TaskId -> Handle]
          /\ \A j \in TaskId : RowInv(j, slots'[j], handle'[j])
      BY <2>1, <2>2, OneRow
    <2>4. LiveLeaseNotStopped'
      BY <1>0, <1>3, SignalsKept DEF DropHandle
    <2>5. QED
      BY <1>0, <1>3, <2>3, <2>4, IInvPrimed DEF DropHandle
  <1>4. ASSUME NEW i \in TaskId, Cancel(i)
        PROVE  IInv'
    <2>1. /\ slots' \in [TaskId -> Slot] /\ handle' \in [TaskId -> Handle]
          /\ \A j \in TaskId : RowInv(j, slots'[j], handle'[j])
          /\ slots'[i].state = "cancelled"
          /\ \A j \in TaskId \ {i} : slots'[j] = slots[j]
      BY <1>4, SettleKeepsRows DEF Cancel, Terminal
    <2>2. stop' \in [Worker -> BOOLEAN]
      BY <1>0, <1>4 DEF Cancel
    <2>3. LiveLeaseNotStopped'
      <3> SUFFICES ASSUME NEW j \in TaskId, IsLeased(j)',
                          slots'[j].lease.stop # None
                   PROVE  /\ ~stop'[slots'[j].lease.stop]
                          /\ \A k \in TaskId \ {j} : IsLeased(k)' =>
                               slots'[k].lease.stop # slots'[j].lease.stop
        BY DEF LiveLeaseNotStopped
      <3>1. j # i /\ slots'[j] = slots[j] /\ IsLeased(j)
        BY <2>1 DEF IsLeased
      <3>2. \A k \in TaskId \ {j} : IsLeased(k)' =>
               slots'[k].lease.stop # slots'[j].lease.stop
        BY <1>0, <2>1, <3>1 DEF LiveLeaseNotStopped, IsLeased
      <3>3. slots[j].lease.stop \in Worker
        BY <1>0, <3>1 DEF RowInv, Slot, Lease, IsLeased
      <3>4. ~stop'[slots[j].lease.stop]
        BY <1>0, <1>4, <3>1, <3>3 DEF Cancel, LiveLeaseNotStopped, IsLeased
      <3>5. QED
        BY <3>1, <3>2, <3>4
    <2>4. QED
      BY <1>0, <1>4, <2>1, <2>2, <2>3, IInvPrimed DEF Cancel
  <1>5. ASSUME NEW i \in TaskId, NEW v \in BOOLEAN, SubmitResult(i, v)
        PROVE  IInv'
    <2>1. /\ slots' \in [TaskId -> Slot] /\ handle' \in [TaskId -> Handle]
          /\ \A j \in TaskId : RowInv(j, slots'[j], handle'[j])
          /\ slots'[i].state = "completed"
          /\ \A j \in TaskId \ {i} : slots'[j] = slots[j]
      BY <1>5, SettleKeepsRows
         DEF SubmitResult, Accepts, IsLeased, Live, Terminal, Unsettled
    <2>2. LiveLeaseNotStopped'
      BY <1>0, <1>5, <2>1, SignalsKept DEF SubmitResult
    <2>3. QED
      BY <1>0, <1>5, <2>1, <2>2, IInvPrimed DEF SubmitResult
  <1>6. ASSUME NEW i \in TaskId, Fail(i)
        PROVE  IInv'
    <2>1. /\ slots' \in [TaskId -> Slot] /\ handle' \in [TaskId -> Handle]
          /\ \A j \in TaskId : RowInv(j, slots'[j], handle'[j])
          /\ slots'[i].state = "failed"
          /\ \A j \in TaskId \ {i} : slots'[j] = slots[j]
      BY <1>6, SettleKeepsRows
         DEF Fail, Accepts, IsLeased, Live, Terminal, Unsettled
    <2>2. LiveLeaseNotStopped'
      BY <1>0, <1>6, <2>1, SignalsKept DEF Fail
    <2>3. QED
      BY <1>0, <1>6, <2>1, <2>2, IInvPrimed DEF Fail
  <1>7. ASSUME NEW i \in TaskId, NEW d \in LeaseSecs, Heartbeat(i, d)
        PROVE  IInv'
    <2> DEFINE r == [slots[i] EXCEPT !.lease.left = d]
    <2>1. d \in Nat /\ slots[i].state = "leased"
      BY <1>7, QueueConstants DEF Heartbeat, Accepts, IsLeased
    <2>2. /\ RowInv(i, r, handle[i])
          /\ r.lease.stop = slots[i].lease.stop
      BY <1>0, <2>1, HeartbeatStep
    <2>3. slots' = [slots EXCEPT ![i] = r] /\ handle' = [handle EXCEPT ![i] = handle[i]]
      BY <1>0, <1>7 DEF Heartbeat
    <2> HIDE DEF r
    <2>4. /\ slots' \in [TaskId -> Slot] /\ handle' \in [TaskId -> Handle]
          /\ \A j \in TaskId : RowInv(j, slots'[j], handle'[j])
          /\ slots'[i] = r
          /\ \A j \in TaskId \ {i} : slots'[j] = slots[j]
      BY <2>2, <2>3, OneRow
    <2>5. LiveLeaseNotStopped'
      BY <1>0, <1>7, <2>1, <2>2, <2>4, SignalsKept DEF Heartbeat
    <2>6. QED
      BY <1>0, <1>7, <2>4, <2>5, IInvPrimed DEF Heartbeat
  <1>8. ASSUME NEW w \in Worker, NEW i \in TaskId, NEW d \in LeaseSecs,
               CheckoutDirect(w, i, d)
        PROVE  IInv'
    <2> DEFINE r == LeasedTo(slots[i], "direct_llm", d, w)
    <2>1. /\ d \in Nat /\ slots[i].state = "queued" /\ slots[i] \in Slot
          /\ "direct_llm" \in WorkerKind \ {"indexer"} /\ w \in Worker \cup {None}
      BY <1>0, <1>8, QueueConstants
         DEF CheckoutDirect, Best, DirectEligible, Queued, WorkerKind
    <2>2. RowInv(i, r, handle[i])
      BY <1>0, <2>1, LeaseStep
    <2>3. r.lease = [worker |-> "direct_llm", left |-> d, stop |-> w]
      BY <2>1, LeasedRow
    <2>4. slots' = [slots EXCEPT ![i] = r] /\ handle' = [handle EXCEPT ![i] = handle[i]]
      BY <1>0, <1>8 DEF CheckoutDirect
    <2> HIDE DEF r
    <2>5. /\ slots' \in [TaskId -> Slot] /\ handle' \in [TaskId -> Handle]
          /\ \A j \in TaskId : RowInv(j, slots'[j], handle'[j])
          /\ slots'[i] = r
          /\ \A j \in TaskId \ {i} : slots'[j] = slots[j]
      BY <2>2, <2>4, OneRow
    <2>6. stop' = [stop EXCEPT ![w] = FALSE] /\ cfg' = cfg
      BY <1>8 DEF CheckoutDirect, NewSignal
    <2>7. LiveLeaseNotStopped'
      <3>1. slots'[i].lease.stop = w /\ ~stop'[w]
        BY <1>0, <2>3, <2>5, <2>6
      <3>2. \A j \in TaskId \ {i} : IsLeased(j)' => slots'[j].lease.stop # w
        BY <1>8, <2>5 DEF CheckoutDirect, IsLeased
      <3>3. \A j \in TaskId \ {i} : IsLeased(j)' /\ slots'[j].lease.stop # None =>
              /\ ~stop'[slots'[j].lease.stop]
              /\ \A k \in TaskId \ {i, j} :
                   IsLeased(k)' => slots'[k].lease.stop # slots'[j].lease.stop
        BY <1>0, <2>5, <2>6, <3>2 DEF LiveLeaseNotStopped, IsLeased
      <3>4. QED
        BY <3>1, <3>2, <3>3 DEF LiveLeaseNotStopped
    <2>8. QED
      BY <1>0, <2>5, <2>6, <2>7, IInvPrimed
  <1>9. ASSUME NEW kinds \in SUBSET Kind, NEW shapes \in SUBSET {"direct", "agent"},
               NEW min \in Rank, NEW i \in TaskId, NEW d \in LeaseSecs,
               CheckoutMcp(kinds, shapes, min, i, d)
        PROVE  IInv'
    <2> DEFINE r == LeasedTo(slots[i], "mcp_client", d, None)
    <2>1. /\ d \in Nat /\ slots[i].state = "queued" /\ slots[i] \in Slot
          /\ "mcp_client" \in WorkerKind \ {"indexer"} /\ None \in Worker \cup {None}
      BY <1>0, <1>9, QueueConstants
         DEF CheckoutMcp, Best, McpEligible, Queued, WorkerKind
    <2>2. RowInv(i, r, handle[i])
      BY <1>0, <2>1, LeaseStep
    <2>3. r.lease = [worker |-> "mcp_client", left |-> d, stop |-> None]
      BY <2>1, LeasedRow
    <2>4. slots' = [slots EXCEPT ![i] = r] /\ handle' = [handle EXCEPT ![i] = handle[i]]
      BY <1>0, <1>9 DEF CheckoutMcp
    <2> HIDE DEF r
    <2>5. /\ slots' \in [TaskId -> Slot] /\ handle' \in [TaskId -> Handle]
          /\ \A j \in TaskId : RowInv(j, slots'[j], handle'[j])
          /\ slots'[i] = r
          /\ \A j \in TaskId \ {i} : slots'[j] = slots[j]
      BY <2>2, <2>4, OneRow
    <2>6. LiveLeaseNotStopped'
      BY <1>0, <1>9, <2>3, <2>5, SignalsKept DEF CheckoutMcp
    <2>7. QED
      BY <1>0, <1>9, <2>5, <2>6, IInvPrimed DEF CheckoutMcp
  <1>10. ASSUME TickMaintenance
         PROVE  IInv'
    <2>1. \A i \in TaskId : /\ RowInv(i, Maintained(i), handle[i])
                            /\ PastRetention(slots[i]) => ~slots[i].sender
                            /\ Maintained(i).state = "leased" => Maintained(i) = slots[i]
      BY <1>0, MaintainedStep
    <2>2. /\ slots' = [i \in TaskId |-> Maintained(i)]
          /\ handle' \in [TaskId -> Handle]
          /\ \A i \in TaskId : handle'[i] = handle[i]
      BY <1>0, <1>10, <2>1 DEF TickMaintenance, Handle
    <2>3. /\ slots' \in [TaskId -> Slot]
          /\ \A i \in TaskId : RowInv(i, slots'[i], handle'[i])
      BY <2>1, <2>2 DEF RowInv
    <2>4. LiveLeaseNotStopped'
      BY <1>0, <1>10, <2>1, <2>2, SignalsKept DEF TickMaintenance
    <2>5. QED
      BY <1>0, <1>10, <2>2, <2>3, <2>4, IInvPrimed DEF TickMaintenance
  <1>11. ASSUME NEW c \in Configs, SetCfg(c)
         PROVE  IInv'
    BY <1>0, <1>11, QueueConstants, SignalsKept, IInvPrimed DEF SetCfg
  <1>12. ASSUME TimePasses
         PROVE  IInv'
    <2>1. \A i \in TaskId : RowInv(i, Older(slots[i]), handle[i])
      BY <1>0, OlderStep
    <2>2. /\ slots' = [i \in TaskId |-> Older(slots[i])]
          /\ handle' = handle /\ stop' = stop /\ cfg' = cfg
      BY <1>12 DEF TimePasses
    <2>3. /\ slots' \in [TaskId -> Slot]
          /\ \A i \in TaskId : RowInv(i, slots'[i], handle'[i])
      BY <2>1, <2>2 DEF RowInv
    <2>4. \A i \in TaskId : slots'[i].state = "leased" =>
            slots[i].state = "leased" /\ slots'[i].lease.stop = slots[i].lease.stop
      <3> SUFFICES ASSUME NEW i \in TaskId, slots'[i].state = "leased"
                   PROVE  /\ slots[i].state = "leased"
                          /\ slots'[i].lease.stop = slots[i].lease.stop
        OBVIOUS
      <3>1. slots[i] \in Slot /\ slots'[i] = Older(slots[i])
        BY <1>0, <2>2
      <3>2. slots[i].state = "leased"
        BY <3>1, OlderRow
      <3>3. slots[i].lease # None
        BY <1>0, <3>2 DEF RowInv
      <3>4. QED
        BY <3>1, <3>2, <3>3, OlderRow
    <2>5. LiveLeaseNotStopped'
      BY <1>0, <2>2, <2>4, SignalsKept
    <2>6. QED
      BY <1>0, <2>2, <2>3, <2>5, IInvPrimed
  <1>13. CASE UNCHANGED vars
    BY <1>0, <1>13, SignalsKept, IInvPrimed DEF vars
  <1>14. QED
    BY <1>1, <1>2, <1>3, <1>4, <1>5, <1>6, <1>7, <1>8, <1>9, <1>10, <1>11,
       <1>12, <1>13 DEF Next

-----------------------------------------------------------------------------
\* For every instance: the queue's rows, handles and signals stay consistent.
\* This is type correctness together with the four invariants below.
THEOREM QueueInvariant == Spec => []IInv
  <1>1. QED
    BY InitInv, NextInv, PTL DEF Spec

\* The queue's state is always well typed.
THEOREM TypeCorrect == Spec => []TypeOK
  <1>1. IInv => TypeOK
    BY DEF IInv
  <1>2. QED
    BY <1>1, QueueInvariant, PTL

\* Lease, finish time, sender and producer of a row always agree with its state,
\* through every operation and every tick.
THEOREM Consistent == Spec => []RowsConsistent
  <1>1. IInv => RowsConsistent
    BY DEF IInv
  <1>2. QED
    BY <1>1, QueueInvariant, PTL

\* A producer waits only while an outcome is still owed to it, is told the state
\* its row settled in, and never loses its answer to a dropped sender.
THEOREM Answered == Spec => []NobodyLeftWaiting
  <1>1. IInv => NobodyLeftWaiting
    BY DEF IInv
  <1>2. QED
    BY <1>1, QueueInvariant, PTL

\* A row of the indexer's own (submit_self_managed) is never queued, whatever
\* expires, and only such rows are leased to the indexer.
THEOREM SelfManaged == Spec => []SelfManagedStaysPut
  <1>1. IInv => SelfManagedStaysPut
    BY DEF IInv
  <1>2. QED
    BY <1>1, QueueInvariant, PTL

\* A stop signal reaches exactly the worker of the lease it was made for.
THEOREM SignalsReach == Spec => []LiveLeaseNotStopped
  <1>1. IInv => LiveLeaseNotStopped
    BY DEF IInv
  <1>2. QED
    BY <1>1, QueueInvariant, PTL

-----------------------------------------------------------------------------
(* TaskQueue implements TaskPromise, and the first outcome of a task wins, *)
(* for every instance: both follow from what a step does to one row and    *)
(* its handle.                                                             *)

\* What a step may do to a row s and its handle h.
Opens(h, s1, h1) ==
  h = "none" /\ s1.state \in Unsettled /\ h1 \in {"pending", "internal"}
Settles(s, h, s1, h1) ==
  /\ s.state \in Unsettled /\ s1.state \in Terminal
  /\ h1 = IF h = "pending" THEN s1.state ELSE h
Leaves(s, h, s1, h1) == s1 = s /\ h = "pending" /\ h1 = "dropped"
Removes(s, h, s1, h1) == s.state \in Terminal /\ s1.state = "absent" /\ h1 = h
Keeps(s, h, s1, h1) ==
  /\ h1 = h
  /\ \/ s.state \in Unsettled /\ s1.state \in Unsettled
     \/ s1.state = s.state /\ s1.detail = s.detail

Moves(s, h, s1, h1) ==
  \/ Opens(h, s1, h1)
  \/ Settles(s, h, s1, h1)
  \/ Leaves(s, h, s1, h1)
  \/ Removes(s, h, s1, h1)
  \/ Keeps(s, h, s1, h1)

\* A step on one row moves all rows if it moves that one.
LEMMA OneMoves ==
  ASSUME NEW i \in TaskId, Moves(slots[i], handle[i], slots'[i], handle'[i]),
         \A j \in TaskId \ {i} : slots'[j] = slots[j] /\ handle'[j] = handle[j]
  PROVE  \A j \in TaskId : Moves(slots[j], handle[j], slots'[j], handle'[j])
  <1> SUFFICES ASSUME NEW j \in TaskId, j # i
               PROVE  Moves(slots[j], handle[j], slots'[j], handle'[j])
    OBVIOUS
  <1>1. Keeps(slots[j], handle[j], slots'[j], handle'[j])
    BY DEF Keeps
  <1>2. QED
    BY <1>1 DEF Moves

\* Settling a live row, whichever operation does it.
LEMMA SettleMoves ==
  ASSUME IInv, NEW i \in TaskId, Live(i), NEW o \in Terminal,
         NEW d \in {"none", "result", "error"},
         slots' = [slots EXCEPT ![i] = Settled(@, o, d)], Answer(i, o)
  PROVE  \A j \in TaskId : Moves(slots[j], handle[j], slots'[j], handle'[j])
  <1>1. /\ slots'[i].state = o
        /\ handle'[i] = IF slots[i].sender /\ handle[i] = "pending"
                        THEN o ELSE handle[i]
        /\ \A j \in TaskId \ {i} : slots'[j] = slots[j] /\ handle'[j] = handle[j]
    BY SettleKeepsRows
  <1>2. handle[i] = "pending" => slots[i].sender
    BY IInvByRows DEF RowInv
  <1>3. Settles(slots[i], handle[i], slots'[i], handle'[i])
    BY <1>1, <1>2 DEF Settles, Live
  <1>4. QED
    BY <1>1, <1>3, OneMoves DEF Moves

\* What a maintenance tick does to one row.
LEMMA MaintainedMoves ==
  ASSUME NEW i \in TaskId, RowInv(i, slots[i], handle[i])
  PROVE  Moves(slots[i], handle[i], Maintained(i), handle[i])
  <1> DEFINE s == slots[i]
  <1>0. s \in Slot
    BY DEF RowInv
  <1>1. CASE Expired(i) /\ Orphaned(s)
    <2>1. Maintained(i).state = "failed" /\ s.state = "leased"
      BY <1>0, <1>1 DEF Maintained, Expired, IsLeased, Slot
    <2>2. handle[i] # "pending"
      BY <1>1, <2>1 DEF RowInv, Orphaned
    <2>3. Settles(s, handle[i], Maintained(i), handle[i])
      BY <2>1, <2>2 DEF Settles, Terminal, Unsettled
    <2>4. QED
      BY <2>3 DEF Moves
  <1>2. CASE Expired(i) /\ ~Orphaned(s)
    <2>1. Maintained(i).state = "queued" /\ s.state = "leased"
      BY <1>0, <1>2 DEF Maintained, Expired, IsLeased, Slot
    <2>2. Keeps(s, handle[i], Maintained(i), handle[i])
      BY <2>1 DEF Keeps, Unsettled
    <2>3. QED
      BY <2>2 DEF Moves
  <1>3. CASE ~Expired(i) /\ PastRetention(s)
    <2>1. Maintained(i).state = "absent" /\ s.state \in Terminal
      BY <1>3 DEF Maintained, PastRetention, NoSlot
    <2>2. Removes(s, handle[i], Maintained(i), handle[i])
      BY <2>1 DEF Removes
    <2>3. QED
      BY <2>2 DEF Moves
  <1>4. CASE ~Expired(i) /\ ~PastRetention(s)
    <2>1. Maintained(i) = s
      BY <1>4 DEF Maintained
    <2>2. QED
      BY <2>1 DEF Moves, Keeps
  <1>5. QED
    BY <1>1, <1>2, <1>3, <1>4

-----------------------------------------------------------------------------
\* Every step moves every row in one of these ways.
LEMMA NextMoves ==
  ASSUME IInv, [Next]_vars
  PROVE  \A i \in TaskId : Moves(slots[i], handle[i], slots'[i], handle'[i])
  <1> DEFINE Goal == \A i \in TaskId : Moves(slots[i], handle[i], slots'[i], handle'[i])
  <1>0. /\ slots \in [TaskId -> Slot] /\ handle \in [TaskId -> Handle]
        /\ \A i \in TaskId : RowInv(i, slots[i], handle[i])
    BY IInvByRows
  <1>1. ASSUME NEW i \in TaskId, NEW t \in Tasks, Submit(i, t)
        PROVE  Goal
    <2>1. /\ handle[i] = "none" /\ handle'[i] = "pending"
          /\ slots'[i].state = "queued"
          /\ \A j \in TaskId \ {i} : slots'[j] = slots[j] /\ handle'[j] = handle[j]
      BY <1>0, <1>1 DEF Submit, NoSlot
    <2>2. Opens(handle[i], slots'[i], handle'[i])
      BY <2>1 DEF Opens, Unsettled
    <2>3. QED
      BY <2>1, <2>2, OneMoves DEF Moves
  <1>2. ASSUME NEW i \in TaskId, NEW t \in Tasks, SubmitSelfManaged(i, t)
        PROVE  Goal
    <2>1. /\ handle[i] = "none" /\ handle'[i] = "internal"
          /\ slots'[i].state = "leased"
          /\ \A j \in TaskId \ {i} : slots'[j] = slots[j] /\ handle'[j] = handle[j]
      BY <1>0, <1>2 DEF SubmitSelfManaged, LeasedTo, NoSlot
    <2>2. Opens(handle[i], slots'[i], handle'[i])
      BY <2>1 DEF Opens, Unsettled
    <2>3. QED
      BY <2>1, <2>2, OneMoves DEF Moves
  <1>3. ASSUME NEW i \in TaskId, DropHandle(i)
        PROVE  Goal
    <2>1. Leaves(slots[i], handle[i], slots'[i], handle'[i])
      BY <1>0, <1>3 DEF DropHandle, Leaves
    <2>2. \A j \in TaskId \ {i} : slots'[j] = slots[j] /\ handle'[j] = handle[j]
      BY <1>0, <1>3 DEF DropHandle
    <2>3. QED
      BY <2>1, <2>2, OneMoves DEF Moves
  <1>4. ASSUME NEW i \in TaskId, Cancel(i)
        PROVE  Goal
    BY <1>4, SettleMoves DEF Cancel, Terminal
  <1>5. ASSUME NEW i \in TaskId, NEW v \in BOOLEAN, SubmitResult(i, v)
        PROVE  Goal
    BY <1>5, SettleMoves
       DEF SubmitResult, Accepts, IsLeased, Live, Terminal, Unsettled
  <1>6. ASSUME NEW i \in TaskId, Fail(i)
        PROVE  Goal
    BY <1>6, SettleMoves
       DEF Fail, Accepts, IsLeased, Live, Terminal, Unsettled
  <1>7. ASSUME NEW i \in TaskId, NEW d \in LeaseSecs, Heartbeat(i, d)
        PROVE  Goal
    <2>1. /\ slots[i].state = "leased" /\ handle' = handle
          /\ \A j \in TaskId \ {i} : slots'[j] = slots[j]
      BY <1>0, <1>7 DEF Heartbeat, Accepts, IsLeased
    <2>2. slots'[i].state = "leased"
      BY <1>0, <1>7, <2>1 DEF Heartbeat, Slot
    <2>3. Keeps(slots[i], handle[i], slots'[i], handle'[i])
      BY <2>1, <2>2 DEF Keeps, Unsettled
    <2>4. QED
      BY <2>1, <2>3, OneMoves DEF Moves
  <1>8. ASSUME NEW w \in Worker, NEW i \in TaskId, NEW d \in LeaseSecs,
               CheckoutDirect(w, i, d)
        PROVE  Goal
    <2>1. /\ slots[i].state = "queued" /\ handle' = handle
          /\ \A j \in TaskId \ {i} : slots'[j] = slots[j]
      BY <1>0, <1>8 DEF CheckoutDirect, Best, DirectEligible, Queued
    <2>2. slots'[i].state = "leased"
      BY <1>0, <1>8 DEF CheckoutDirect, LeasedTo, Slot
    <2>3. Keeps(slots[i], handle[i], slots'[i], handle'[i])
      BY <2>1, <2>2 DEF Keeps, Unsettled
    <2>4. QED
      BY <2>1, <2>3, OneMoves DEF Moves
  <1>9. ASSUME NEW kinds \in SUBSET Kind, NEW shapes \in SUBSET {"direct", "agent"},
               NEW min \in Rank, NEW i \in TaskId, NEW d \in LeaseSecs,
               CheckoutMcp(kinds, shapes, min, i, d)
        PROVE  Goal
    <2>1. /\ slots[i].state = "queued" /\ handle' = handle
          /\ \A j \in TaskId \ {i} : slots'[j] = slots[j]
      BY <1>0, <1>9 DEF CheckoutMcp, Best, McpEligible, Queued
    <2>2. slots'[i].state = "leased"
      BY <1>0, <1>9 DEF CheckoutMcp, LeasedTo, Slot
    <2>3. Keeps(slots[i], handle[i], slots'[i], handle'[i])
      BY <2>1, <2>2 DEF Keeps, Unsettled
    <2>4. QED
      BY <2>1, <2>3, OneMoves DEF Moves
  <1>10. ASSUME TickMaintenance
         PROVE  Goal
    <2> SUFFICES ASSUME NEW i \in TaskId
                 PROVE  Moves(slots[i], handle[i], slots'[i], handle'[i])
      OBVIOUS
    <2>1. RowInv(i, slots[i], handle[i])
      BY <1>0
    <2>2. PastRetention(slots[i]) => ~slots[i].sender
      BY <2>1, MaintainedStep
    <2>3. slots'[i] = Maintained(i) /\ handle'[i] = handle[i]
      BY <1>10, <2>2 DEF TickMaintenance
    <2>4. QED
      BY <2>1, <2>3, MaintainedMoves
  <1>11. ASSUME NEW c \in Configs, SetCfg(c)
         PROVE  Goal
    BY <1>11 DEF SetCfg, Moves, Keeps
  <1>12. ASSUME TimePasses
         PROVE  Goal
    <2> SUFFICES ASSUME NEW i \in TaskId
                 PROVE  Moves(slots[i], handle[i], slots'[i], handle'[i])
      OBVIOUS
    <2>1. slots[i] \in Slot
      BY <1>0
    <2>2. slots'[i] = Older(slots[i]) /\ handle'[i] = handle[i]
      BY <1>12 DEF TimePasses
    <2>3. slots'[i].state = slots[i].state /\ slots'[i].detail = slots[i].detail
      BY <2>1, <2>2, OlderRow
    <2>4. QED
      BY <2>2, <2>3 DEF Moves, Keeps
  <1>13. CASE UNCHANGED vars
    BY <1>13 DEF vars, Moves, Keeps
  <1>14. QED
    BY <1>1, <1>2, <1>3, <1>4, <1>5, <1>6, <1>7, <1>8, <1>9, <1>10, <1>11,
       <1>12, <1>13 DEF Next

-----------------------------------------------------------------------------
\* A settled row keeps its state and detail until it is removed, whatever late
\* results, failures, cancels, expiries and ticks follow (Queue::submit_result,
\* fail, cancel and tick_maintenance).
THEOREM FirstOutcome == Spec => FirstOutcomeWins
  <1> DEFINE Kept(i) == slots[i].state \in Terminal =>
               \/ slots'[i].state = "absent"
               \/ /\ slots'[i].state = slots[i].state
                  /\ slots'[i].detail = slots[i].detail
  <1>1. ASSUME IInv, [Next]_vars
        PROVE  \A i \in TaskId : Kept(i)
    <2> SUFFICES ASSUME NEW i \in TaskId, slots[i].state \in Terminal
                 PROVE  Kept(i)
      OBVIOUS
    <2>1. Moves(slots[i], handle[i], slots'[i], handle'[i])
      BY <1>1, NextMoves
    <2>2. handle[i] # "none" /\ handle[i] # "pending"
      BY <1>1, IInvByRows DEF RowInv, Terminal, Unsettled
    <2>3. slots[i].state \notin Unsettled
      BY DEF Terminal, Unsettled
    <2>4. QED
      BY <2>1, <2>2, <2>3 DEF Moves, Opens, Settles, Leaves, Removes, Keeps
  <1>2. IInv /\ [Next]_vars => [\A i \in TaskId : Kept(i)]_vars
    BY <1>1
  <1>3. QED
    BY <1>2, QueueInvariant, PTL DEF Spec, FirstOutcomeWins

-----------------------------------------------------------------------------
\* The refinement, row by row.

\* Where a row is for TaskPromise.
LEMMA RowMapped ==
  ASSUME NEW i \in TaskId
  PROVE  /\ slots[i].state \in Unsettled => RowOf(i) = "open"
         /\ slots[i].state \in Terminal => RowOf(i) = slots[i].state
         /\ slots[i].state = "absent" /\ handle[i] = "none" => RowOf(i) = "unborn"
         /\ slots[i].state = "absent" /\ handle[i] # "none" => RowOf(i) = "removed"
  BY DEF RowOf, Unsettled, Terminal

\* The same after the step.
LEMMA RowMappedPrimed ==
  ASSUME NEW i \in TaskId
  PROVE  /\ slots'[i].state \in Unsettled => RowOf(i)' = "open"
         /\ slots'[i].state \in Terminal => RowOf(i)' = slots'[i].state
         /\ slots'[i].state = "absent" /\ handle'[i] = "none" => RowOf(i)' = "unborn"
         /\ slots'[i].state = "absent" /\ handle'[i] # "none" => RowOf(i)' = "removed"
  BY DEF RowOf, Unsettled, Terminal

\* Where a producer is for TaskPromise.
LEMMA ProducerMapped ==
  ASSUME NEW i \in TaskId
  PROVE  /\ handle[i] = "none" => ProducerOf(i) = "unborn"
         /\ handle[i] = "internal" => ProducerOf(i) = "none"
         /\ handle[i] = "pending" => ProducerOf(i) = "waiting"
         /\ handle[i] = "dropped" => ProducerOf(i) = "left"
         /\ handle[i] \in Terminal => ProducerOf(i) = handle[i]
  BY DEF ProducerOf, Terminal

\* The same after the step.
LEMMA ProducerMappedPrimed ==
  ASSUME NEW i \in TaskId
  PROVE  /\ handle'[i] = "none" => ProducerOf(i)' = "unborn"
         /\ handle'[i] = "internal" => ProducerOf(i)' = "none"
         /\ handle'[i] = "pending" => ProducerOf(i)' = "waiting"
         /\ handle'[i] = "dropped" => ProducerOf(i)' = "left"
         /\ handle'[i] \in Terminal => ProducerOf(i)' = handle'[i]
  BY DEF ProducerOf, Terminal

\* The initial states of the queue are initial for TaskPromise.
LEMMA InitPromised == Init => Promise!PInit
  <1> SUFFICES ASSUME Init PROVE Promise!PInit
    OBVIOUS
  <1>1. ASSUME NEW i \in TaskId
        PROVE  RowOf(i) = "unborn" /\ ProducerOf(i) = "unborn"
    BY RowMapped, ProducerMapped DEF Init, NoSlot
  <1>2. QED
    BY <1>1 DEF Promise!PInit

\* What moves a row moves it as TaskPromise allows.
LEMMA MovePromised ==
  ASSUME NEW i \in TaskId, RowInv(i, slots[i], handle[i]),
         RowInv(i, slots'[i], handle'[i]),
         Moves(slots[i], handle[i], slots'[i], handle'[i])
  PROVE  \/ /\ RowOf(i) = "unborn" /\ RowOf(i)' = "open"
            /\ ProducerOf(i)' \in {"waiting", "none"}
         \/ /\ RowOf(i) = "open" /\ RowOf(i)' \in Promise!Outcome
            /\ ProducerOf(i)' = IF ProducerOf(i) = "waiting" THEN RowOf(i)'
                                ELSE ProducerOf(i)
         \/ /\ RowOf(i) = "open" /\ RowOf(i)' = "open"
            /\ ProducerOf(i) = "waiting" /\ ProducerOf(i)' = "left"
         \/ /\ RowOf(i) \in Promise!Outcome /\ RowOf(i)' = "removed"
            /\ ProducerOf(i)' = ProducerOf(i)
         \/ RowOf(i)' = RowOf(i) /\ ProducerOf(i)' = ProducerOf(i)
  <1> DEFINE s == slots[i]
             h == handle[i]
             s1 == slots'[i]
             h1 == handle'[i]
  <1>0. /\ s.state \in {"absent"} \cup Unsettled \cup Terminal
        /\ h \in Handle \ {"app_exit"}
        /\ s1.state \in {"absent"} \cup Unsettled \cup Terminal
    BY DEF RowInv, Slot
  <1>s. h1 = h => ProducerOf(i)' = ProducerOf(i)
    BY DEF ProducerOf
  <1>1. CASE Opens(h, s1, h1)
    <2>1. s.state = "absent" /\ h = "none"
      BY <1>1 DEF Opens, RowInv
    <2>2. RowOf(i) = "unborn" /\ RowOf(i)' = "open"
      BY <1>1, <2>1, RowMapped, RowMappedPrimed DEF Opens
    <2>3. ProducerOf(i)' \in {"waiting", "none"}
      BY <1>1, ProducerMappedPrimed DEF Opens
    <2>4. QED
      BY <2>2, <2>3
  <1>2. CASE Settles(s, h, s1, h1)
    <2>1. /\ RowOf(i) = "open" /\ RowOf(i)' = s1.state
          /\ RowOf(i)' \in Promise!Outcome
      BY <1>2, RowMapped, RowMappedPrimed DEF Settles, Terminal, Promise!Outcome
    <2>2. CASE h = "pending"
      <3>1. ProducerOf(i) = "waiting" /\ ProducerOf(i)' = s1.state
        BY <1>2, <2>2, ProducerMapped, ProducerMappedPrimed DEF Settles
      <3>2. QED
        BY <2>1, <3>1
    <2>3. CASE h # "pending"
      <3>1. h1 = h /\ ProducerOf(i)' = ProducerOf(i)
        BY <1>2, <1>s, <2>3 DEF Settles
      <3>2. ProducerOf(i) # "waiting"
        BY <1>0, <2>3, ProducerMapped DEF Handle, Terminal
      <3>3. QED
        BY <2>1, <3>1, <3>2
    <2>4. QED
      BY <2>2, <2>3
  <1>3. CASE Leaves(s, h, s1, h1)
    <2>1. s.state \in Unsettled /\ s1.state \in Unsettled
      BY <1>3 DEF Leaves, RowInv
    <2>2. RowOf(i) = "open" /\ RowOf(i)' = "open"
      BY <2>1, RowMapped, RowMappedPrimed
    <2>3. ProducerOf(i) = "waiting" /\ ProducerOf(i)' = "left"
      BY <1>3, ProducerMapped, ProducerMappedPrimed DEF Leaves
    <2>4. QED
      BY <2>2, <2>3
  <1>4. CASE Removes(s, h, s1, h1)
    <2>1. h # "none" /\ h1 = h
      BY <1>4 DEF Removes, RowInv, Terminal
    <2>2. RowOf(i) = s.state /\ RowOf(i)' = "removed"
      BY <1>4, <2>1, RowMapped, RowMappedPrimed DEF Removes
    <2>3. RowOf(i) \in Promise!Outcome
      BY <1>4, <2>2 DEF Removes, Terminal, Promise!Outcome
    <2>4. QED
      BY <1>s, <2>1, <2>2, <2>3
  <1>5. CASE Keeps(s, h, s1, h1)
    <2>1. h1 = h /\ ProducerOf(i)' = ProducerOf(i)
      BY <1>5, <1>s DEF Keeps
    <2>2. RowOf(i)' = RowOf(i)
      BY <1>0, <1>5, <2>1, RowMapped, RowMappedPrimed DEF Keeps
    <2>3. QED
      BY <2>1, <2>2
  <1>6. QED
    BY <1>1, <1>2, <1>3, <1>4, <1>5 DEF Moves

\* Every step of the queue is a step of TaskPromise.
LEMMA NextPromised ==
  ASSUME IInv, IInv', [Next]_vars
  PROVE  Promise!PNext
  <1> DEFINE row == [i \in TaskId |-> RowOf(i)]
             producer == [i \in TaskId |-> ProducerOf(i)]
  <1>1. /\ \A i \in TaskId : RowInv(i, slots[i], handle[i])
        /\ \A i \in TaskId : RowInv(i, slots'[i], handle'[i])
    BY IInvByRows DEF IInv, TypeOK, RowsConsistent, NobodyLeftWaiting,
       SelfManagedStaysPut, RowInv, Live, IsLeased
  <1>2. \A i \in TaskId : Moves(slots[i], handle[i], slots'[i], handle'[i])
    BY NextMoves
  <1>3. ASSUME NEW i \in TaskId
        PROVE  RowOf(i)' \in Promise!Row /\ ProducerOf(i)' \in Promise!Producer
    <2>1. /\ slots'[i].state \in {"absent"} \cup Unsettled \cup Terminal
          /\ handle'[i] \in Handle \ {"app_exit"}
      BY <1>1 DEF RowInv, Slot
    <2>2. RowOf(i)' \in Promise!Row
      BY <2>1, RowMappedPrimed DEF Promise!Row, Promise!Outcome, Terminal
    <2>3. ProducerOf(i)' \in Promise!Producer
      BY <2>1, ProducerMappedPrimed
         DEF Promise!Producer, Promise!Outcome, Handle, Terminal
    <2>4. QED
      BY <2>2, <2>3
  <1>4. ASSUME NEW i \in TaskId
        PROVE  \/ Promise!Open(i) \/ Promise!Settle(i) \/ Promise!Leave(i)
               \/ Promise!Remove(i) \/ Promise!Rest(i)
    BY <1>1, <1>2, MovePromised DEF Promise!Open, Promise!Settle, Promise!Leave,
       Promise!Remove, Promise!Rest
  <1>5. QED
    BY <1>3, <1>4 DEF Promise!PNext

\* The queue implements TaskPromise: a task is settled at most once, and its
\* waiting producer is answered in that step with the outcome of the row.
THEOREM QueueKeepsPromise == Spec => KeepsPromise
  <1>1. IInv /\ IInv' /\ [Next]_vars => [Promise!PNext]_(Promise!pvars)
    BY NextPromised
  <1>2. QED
    BY <1>1, InitPromised, QueueInvariant, PTL
       DEF Spec, KeepsPromise, Promise!PSpec
=============================================================================
