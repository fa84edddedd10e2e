--------------------------- MODULE ReviewPromise ---------------------------
(***************************************************************************)
(* What review promises about one proposal, whatever happens to the note   *)
(* it is for: once staged it is kept in a queue until it is decided; it is *)
(* decided at most once, and only while it is kept; and what is decided is *)
(* kept nowhere any more.  The promise lasts until a write fails.          *)
(***************************************************************************)
CONSTANT OpId

VARIABLES review, kept, broken

rvars == <<review, kept, broken>>

Verdict == {"accepted", "rejected"}
Review == {"unborn", "waiting", "loose"} \cup Verdict

RInit ==
  /\ review = [i \in OpId |-> "unborn"]
  /\ kept = {} /\ broken = FALSE

\* A batch that ends half-way promises nothing of its proposals ("loose").
Stage(i) ==
  /\ review[i] = "unborn"
  /\ \/ review'[i] = "waiting" /\ i \in kept'
     \/ review'[i] = "loose"

\* Another note's queue takes the place of the one it is in.
LetGo(i) == review[i] = "waiting" /\ review'[i] = "loose"

Decide(i) ==
  /\ review[i] \in {"waiting", "loose"} /\ i \in kept
  /\ review'[i] \in Verdict /\ i \notin kept'

Rest(i) ==
  /\ review'[i] = review[i]
  /\ review[i] # "loose" => (i \in kept' <=> i \in kept)

RNext ==
  /\ review' \in [OpId -> Review]
  /\ broken => broken'
  /\ ~broken' => \A i \in OpId : Stage(i) \/ LetGo(i) \/ Decide(i) \/ Rest(i)

RSpec == RInit /\ [][RNext]_rvars
=============================================================================
