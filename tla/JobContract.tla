----------------------------- MODULE JobContract -----------------------------
(***************************************************************************)
(* What the durable job queue promises its callers: a job is tried at most *)
(* MaxAttempts times, one attempt at a time, and is settled once and for   *)
(* all; at most one attempt succeeds, and it is the last one.  Leases,     *)
(* workers and clocks do not appear.  Jobs are independent, and one        *)
(* transaction may move several of them.                                   *)
(***************************************************************************)
EXTENDS Integers

CONSTANTS Job, MaxAttempts

VARIABLES
  phase,  \* phase[j]: the status of job j
  tries,  \* tries[j]: the attempts started so far
  won     \* won[j]: the attempts that succeeded

vars == <<phase, tries, won>>

Phase == {"absent", "pending", "running", "completed", "failed"}

Init ==
  /\ phase = [j \in Job |-> "absent"]
  /\ tries = [j \in Job |-> 0]
  /\ won = [j \in Job |-> {}]

\* Job j goes to phase p; its attempt count and its winners become n and s.
Becomes(j, p, n, s) == phase'[j] = p /\ tries'[j] = n /\ won'[j] = s

Submit(j)  == phase[j] = "absent" /\ Becomes(j, "pending", 0, {})

\* A running job is started again when its attempt was lost.
Start(j)   == /\ phase[j] \in {"pending", "running"}
              /\ tries[j] < MaxAttempts
              /\ Becomes(j, "running", tries[j] + 1, won[j])

Succeed(j) == phase[j] = "running" /\ Becomes(j, "completed", tries[j], {tries[j]})

Retry(j)   == /\ phase[j] = "running"
              /\ tries[j] < MaxAttempts
              /\ Becomes(j, "pending", tries[j], won[j])

GiveUp(j)  == phase[j] = "running" /\ Becomes(j, "failed", tries[j], won[j])

Stay(j)    == Becomes(j, phase[j], tries[j], won[j])

Move(j) ==
  Submit(j) \/ Start(j) \/ Succeed(j) \/ Retry(j) \/ GiveUp(j) \/ Stay(j)

Next ==
  /\ phase' \in [Job -> Phase]
  /\ tries' \in [Job -> 0..MaxAttempts]
  /\ DOMAIN won' = Job
  /\ \A j \in Job : Move(j)

Spec == Init /\ [][Next]_vars
=============================================================================
