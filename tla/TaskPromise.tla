---------------------------- MODULE TaskPromise ----------------------------
(***************************************************************************)
(* What core::tasks::Queue promises about one task, whoever works on it:   *)
(* its row opens once, is settled at most once, and is then only kept for  *)
(* display and removed; the producer that still waits is answered in the   *)
(* very step that settles the row, with the outcome the row settled in.    *)
(* Many tasks may move in one step (a maintenance tick).                   *)
(***************************************************************************)
CONSTANT TaskId

VARIABLES row, producer

pvars == <<row, producer>>

Outcome == {"completed", "failed", "cancelled"}
Row == {"unborn", "open", "removed"} \cup Outcome
Producer == {"unborn", "none", "waiting", "left"} \cup Outcome

PInit ==
  /\ row = [i \in TaskId |-> "unborn"]
  /\ producer = [i \in TaskId |-> "unborn"]

\* The producer keeps a handle ("waiting"), or never had one ("none").
Open(i) ==
  /\ row[i] = "unborn" /\ row'[i] = "open"
  /\ producer'[i] \in {"waiting", "none"}

Settle(i) ==
  /\ row[i] = "open" /\ row'[i] \in Outcome
  /\ producer'[i] = IF producer[i] = "waiting" THEN row'[i] ELSE producer[i]

Leave(i) ==
  /\ row[i] = "open" /\ row'[i] = "open"
  /\ producer[i] = "waiting" /\ producer'[i] = "left"

Remove(i) ==
  /\ row[i] \in Outcome /\ row'[i] = "removed"
  /\ producer'[i] = producer[i]

Rest(i) == row'[i] = row[i] /\ producer'[i] = producer[i]

PNext ==
  /\ row' \in [TaskId -> Row]
  /\ producer' \in [TaskId -> Producer]
  /\ \A i \in TaskId : Open(i) \/ Settle(i) \/ Leave(i) \/ Remove(i) \/ Rest(i)

PSpec == PInit /\ [][PNext]_pvars
=============================================================================
