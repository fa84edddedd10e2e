------------------------------ MODULE TaskHost ------------------------------
(***************************************************************************)
(* The queue among its callers: the direct-LLM workers' drain loop         *)
(* (core/src/tasks/handlers.rs), MCP clients behind the task_* tools       *)
(* (mcp-server/src/handler/dispatch/tasks.rs), the indexer's self-managed  *)
(* row (core/src/indexer/mod.rs), producers and the user.  A worker reads  *)
(* the row once, at checkout, and comes back with an outcome after a model *)
(* call of any length; everyone else moves meanwhile.                      *)
(*                                                                         *)
(* The application wires no maintenance tick and never calls set_cfg (the  *)
(* settings panel only writes the file): AppNext.  TickedNext adds both,   *)
(* as the docs of the queue have it.                                       *)
(***************************************************************************)
EXTENDS TaskQueue

CONSTANTS
  Client,        \* MCP clients
  DefaultLease,  \* lease.default_secs, as the worker and heartbeat use it
  MaxCrashes     \* how often clients vanish (bounds the model)

ASSUME HostConstants ==
  /\ DefaultLease \in LeaseSecs
  /\ MaxCrashes \in Nat
  /\ None \notin Client
  /\ Client \cap Worker = {}

VARIABLES
  pc,        \* where each direct worker is in DirectWorker::run
  job,       \* the task it has in hand
  claim,     \* the task each MCP client believes it leases
  loading,   \* the row of the embedder load in progress
  holder,    \* history: whom the queue last leased each row to
  author,    \* history: whose call settled the row
  crashes

actors == <<pc, job, claim, loading, crashes>>
hvars == <<slots, handle, stop, cfg, actors, holder, author>>

HostInit ==
  /\ Init
  /\ pc = [w \in Worker |-> "idle"]
  /\ job = [w \in Worker |-> None]
  /\ claim = [c \in Client |-> None]
  /\ loading = None
  /\ holder = [i \in TaskId |-> None]
  /\ author = [i \in TaskId |-> None]
  /\ crashes = 0

-----------------------------------------------------------------------------
(* The direct worker.                                                      *)

Goto(w, l) == pc' = [pc EXCEPT ![w] = l]

\* The toggle is read at the top of the loop, before the checkout.
Poll(w) ==
  /\ pc[w] = "idle" /\ cfg.enabled
  /\ Goto(w, "polling")
  /\ UNCHANGED <<vars, job, claim, loading, crashes, holder, author>>

Take(w) ==
  /\ pc[w] = "polling"
  /\ \/ \E i \in TaskId :
          /\ CheckoutDirect(w, i, DefaultLease)
          /\ job' = [job EXCEPT ![w] = i]
          /\ holder' = [holder EXCEPT ![i] = w]
          /\ Goto(w, "calling")
     \/ /\ DirectEligible = {}
        /\ Goto(w, "idle")
        /\ UNCHANGED <<vars, job, holder>>
  /\ UNCHANGED <<claim, loading, crashes, author>>

\* A model call ends in an error, a usable reply, or one that misses the
\* schema, which is retried once.  A side-channel handler answers likewise.
ChatReturns(w) ==
  /\ \/ /\ pc[w] = "calling"
        /\ \/ Goto(w, "deliver")
           \/ Goto(w, "giveup")
           \/ /\ slots[job[w]].task # None => slots[job[w]].task.schema
              /\ Goto(w, "retrying")
     \/ /\ pc[w] = "retrying"
        /\ Goto(w, "deliver") \/ Goto(w, "giveup")
  /\ UNCHANGED <<vars, job, claim, loading, crashes, holder, author>>

\* The select on the stop signal drops the call; nothing is submitted.
ChatCancelled(w) ==
  /\ pc[w] \in {"calling", "retrying"} /\ stop[w]
  /\ Goto(w, "idle")
  /\ job' = [job EXCEPT ![w] = None]
  /\ UNCHANGED <<vars, claim, loading, crashes, holder, author>>

\* Mutation: the outcome is recorded only when it is a result.
Record_ErrorDropped(w) ==
  LET i == job[w]
  IN  /\ pc[w] \in {"deliver", "giveup"}
      /\ \/ /\ pc[w] = "deliver" /\ SubmitResult(i, TRUE)
            /\ author' = [author EXCEPT ![i] = w]
         \/ (pc[w] = "giveup" \/ ~Accepts(i)) /\ UNCHANGED <<vars, author>>
      /\ Goto(w, "idle")
      /\ job' = [job EXCEPT ![w] = None]
      /\ UNCHANGED <<claim, loading, crashes, holder>>

\* record_outcome: a refusal (stale lease, unknown row) is only logged.
Record(w) ==
  LET i == job[w]
  IN  /\ pc[w] \in {"deliver", "giveup"}
      /\ \/ /\ IF pc[w] = "deliver" THEN SubmitResult(i, TRUE) ELSE Fail(i)
            /\ author' = [author EXCEPT ![i] = w]
         \/ ~Accepts(i) /\ UNCHANGED <<vars, author>>
      /\ Goto(w, "idle")
      /\ job' = [job EXCEPT ![w] = None]
      /\ UNCHANGED <<claim, loading, crashes, holder>>

-----------------------------------------------------------------------------
(* An MCP client.                                                          *)

ClientTakes(c) ==
  /\ claim[c] = None
  /\ \E kinds \in SUBSET Kind, shapes \in SUBSET {"direct", "agent"},
        min \in Rank, i \in TaskId, d \in LeaseSecs \ {0} :
        /\ CheckoutMcp(kinds, shapes, min, i, d)
        /\ claim' = [claim EXCEPT ![c] = i]
        /\ holder' = [holder EXCEPT ![i] = c]
  /\ UNCHANGED <<pc, job, loading, crashes, author>>

\* task_submit and task_fail.  A value the schema refuses leaves the client its
\* lease; a stale lease tells it to stop.
ClientReports(c) ==
  LET i == claim[c]
  IN  /\ i # None
      /\ \/ /\ (SubmitResult(i, TRUE) \/ Fail(i))
            /\ author' = [author EXCEPT ![i] = c]
         \/ ~Accepts(i) /\ UNCHANGED <<vars, author>>
      /\ claim' = [claim EXCEPT ![c] = None]
      /\ UNCHANGED <<pc, job, loading, crashes, holder>>

ClientHeartbeats(c) ==
  /\ claim[c] # None
  /\ Heartbeat(claim[c], DefaultLease)
  /\ UNCHANGED <<actors, holder, author>>

ClientVanishes(c) ==
  /\ claim[c] # None /\ crashes < MaxCrashes
  /\ claim' = [claim EXCEPT ![c] = None]
  /\ crashes' = crashes + 1
  /\ UNCHANGED <<vars, pc, job, loading, holder, author>>

-----------------------------------------------------------------------------
(* The indexer, producers, the user, time.                                 *)

\* The load's task is a direct one (submit_embedder_load_task).
LoadStarts(i, t) ==
  /\ loading = None /\ t.shape = "direct"
  /\ SubmitSelfManaged(i, t)
  /\ loading' = i
  /\ UNCHANGED <<pc, job, claim, crashes, holder, author>>

LoadEnds ==
  /\ loading # None
  /\ \/ SubmitResult(loading, TRUE) \/ Fail(loading)
     \/ ~Accepts(loading) /\ UNCHANGED vars
  /\ loading' = None
  /\ UNCHANGED <<pc, job, claim, crashes, holder, author>>

OnQueue(A) == A /\ UNCHANGED <<actors, holder, author>>

Produce == \E i \in TaskId, t \in Tasks : OnQueue(Submit(i, t))
UserCancels(i) == OnQueue(Cancel(i))
Clock == OnQueue(TimePasses)
Tick == OnQueue(TickMaintenance)

WorkerNext(w) ==
  Poll(w) \/ Take(w) \/ ChatReturns(w) \/ ChatCancelled(w) \/ Record(w)

ClientNext(c) ==
  ClientTakes(c) \/ ClientReports(c) \/ ClientHeartbeats(c) \/ ClientVanishes(c)

AppNext ==
  \/ \E w \in Worker : WorkerNext(w)
  \/ \E c \in Client : ClientNext(c)
  \/ \E i \in TaskId, t \in Tasks : LoadStarts(i, t)
  \/ LoadEnds
  \/ Produce
  \/ \E i \in TaskId : UserCancels(i) \/ OnQueue(DropHandle(i))
  \/ Clock

TickedNext ==
  \/ AppNext
  \/ Tick
  \/ \E c \in Configs : OnQueue(SetCfg(c))

-----------------------------------------------------------------------------
(* Specifications.  Nothing that is not scheduled by the code itself is    *)
(* fair: producers, users and clients may stop at any time.                *)

\* The worker's own loop; a model call may hang.
Loops(w) == Poll(w) \/ Take(w) \/ ChatCancelled(w) \/ Record(w)

LoopFair == WF_hvars(Clock) /\ \A w \in Worker : WF_hvars(Loops(w))

\* Model calls return.
ChatFair == \A w \in Worker : WF_hvars(ChatReturns(w))

TakesAny(c) ==
  /\ claim[c] = None /\ Queued # {}
  /\ ClientTakes(c)

\* Clients keep polling and report, and do not miss every deadline.
ReportsInTime(c) == claim[c] # None /\ Accepts(claim[c]) /\ ClientReports(c)

ClientFair ==
  \A c \in Client : /\ WF_hvars(TakesAny(c))
                    /\ WF_hvars(ClientReports(c))
                    /\ SF_hvars(ReportsInTime(c))

AppSpec == HostInit /\ [][AppNext]_hvars
AppLoops == AppSpec /\ LoopFair
AppServes == AppSpec /\ LoopFair /\ ChatFair /\ ClientFair /\ WF_hvars(LoadEnds)

TickedSpec == HostInit /\ [][TickedNext]_hvars

-----------------------------------------------------------------------------
(* Safety.                                                                 *)

Busy(w) == pc[w] \in {"calling", "retrying", "deliver", "giveup"}

\* A lease with a stop signal is never leaked: the worker it was handed to is
\* still on that very task.  Nothing else would bring the row back, because
\* an in-process worker sends no heartbeat and the app runs no tick.
LeaseHasWorker ==
  \A i \in TaskId : IsLeased(i) /\ slots[i].lease.stop # None =>
    LET w == slots[i].lease.stop IN Busy(w) /\ job[w] = i

Runners(i) == {w \in Worker : Busy(w) /\ job[w] = i} \cup {c \in Client : claim[c] = i}

\* While nothing expires, a task is worked on once: an open task has no runner
\* while it is queued and at most the holder of its lease while leased, whatever
\* workers, clients and cancels interleave.
OneRunner ==
  \A i \in TaskId : Live(i) =>
    Runners(i) \subseteq IF IsLeased(i) THEN {holder[i]} ELSE {}

\* Only the party the queue last leased a row to settles it.
HolderSettles == \A i \in TaskId : author[i] # None => author[i] = holder[i]

\* The invariants the proofs are built on.  With or without a tick:
Actor == Worker \cup Client
Where == {"idle", "polling", "calling", "retrying", "deliver", "giveup"}

HostTypeOK ==
  /\ pc \in [Worker -> Where]
  /\ job \in [Worker -> TaskId \cup {None}]
  /\ claim \in [Client -> TaskId \cup {None}]
  /\ loading \in TaskId \cup {None}
  /\ holder \in [TaskId -> Actor \cup {None}]
  /\ author \in [TaskId -> Actor \cup {None}]

HostInv ==
  /\ IInv /\ HostTypeOK /\ LeaseHasWorker
  /\ \A w \in Worker : Busy(w) <=> job[w] # None

\* Without a tick a row that was settled stays, so what is not settled has no
\* author, and what was not leased has no runner.
AppInv ==
  /\ HostInv
  /\ HolderSettles
  /\ \A i \in TaskId : slots[i].state \notin Terminal =>
       /\ author[i] = None
       /\ Runners(i) \subseteq IF IsLeased(i) THEN {holder[i]} ELSE {}

-----------------------------------------------------------------------------
(* Progress.                                                               *)

\* Cancelling a task frees the in-process worker even when its model call
\* hangs for ever (select on the stop signal in call_with_cancel).
CancelFreesWorker ==
  \A w \in Worker, i \in TaskId \ Managed :
    (Busy(w) /\ job[w] = i /\ slots[i].state = "cancelled") ~> pc[w] = "idle"

\* With the direct worker enabled and a model that answers, every direct task
\* is settled or at a client's, whatever the grace window, the schema retries and
\* the cancels, and although nothing ticks (DirectWorker::run).
DirectTasksSettle ==
  ChatFair /\ cfg.enabled => \A i \in TaskId \ Managed :
    (Live(i) /\ slots[i].task.shape = "direct") ~>
      (slots[i].state \in Terminal \/ (IsLeased(i) /\ slots[i].lease.stop = None))

\* docs/task-queue.md:193 of a client's lease: "the lease expires and the task
\* returns to `Queued` for someone else to pick up".  Only tick_maintenance would
\* do that, and the application never calls it (tasks/queue.rs:556).
ExpiredLeaseEnds ==
  \A i \in TaskId : (Expired(i) /\ holder[i] \in Client) ~> ~Expired(i)
=============================================================================
