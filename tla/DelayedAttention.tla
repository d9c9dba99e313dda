-------------------------- MODULE DelayedAttention --------------------------
(***************************************************************************)
(* The second look at group questions nobody addressed to the bot:         *)
(* DelayedAttentionService (src/src/attention/delayed-attention-service.ts)*)
(* and the attention_recheck handler of BackgroundRuntimeService           *)
(* (src/src/application/background-runtime-service.ts), on top of the      *)
(* durable job of module JobQueue and the turn of module EventPipeline.    *)
(*                                                                         *)
(* All candidates here are of one group, whose conversation runs one       *)
(* workflow at a time (module TurnAdmission).  A lease that runs out, a    *)
(* thread that expires and a decision that leaves the budget window are    *)
(* steps of the clock.                                                     *)
(***************************************************************************)
EXTENDS Naturals, FiniteSets

CONSTANTS
  Candidate,    \* attention_candidates of one group, each with its job
  MaxAttempts,  \* max_attempts of the jobs
  GroupBudget,  \* responses the group may get within the window
  MaxCrashes    \* bound: crashes of the process

ASSUME DelayedAttentionAssumption ==
  /\ MaxAttempts \in Nat \ {0}
  /\ GroupBudget \in Nat
  /\ MaxCrashes \in Nat

Attempt == 1..MaxAttempts

VARIABLES
  job,       \* job[c]: status, attempts, lapsed (the lease ran out) and
             \* moved (scheduled_at is no longer the candidate's not_before_at)
  decision,  \* decision[c]: the attention decision's outcome, or "none"
  moot,      \* undecided candidates that expired or that a human answered
  spent,     \* respond decisions still inside the budget window
  turn,      \* turn[c]: the latest turn of the source message and its evidence
  sent,      \* how often the platform accepted a reply to c
  at,        \* at[c][n]: the stage of the handler of attempt n
  crashes

vars == <<job, decision, moot, spent, turn, sent, at, crashes>>

NoTurn == [status |-> "none", decided |-> FALSE, delivered |-> FALSE]

TurnRow == [status : {"none", "pending", "running", "completed", "failed"},
            decided : BOOLEAN, delivered : BOOLEAN]

InTurn == {"respond", "pending", "running", "decided",
           "delivered", "undelivered", "executed"}
Stage == {"none", "queued", "refused", "throw", "success"} \cup InTurn

\* Every candidate has been committed with its job, which is due.
Init ==
  /\ job = [c \in Candidate |->
       [status |-> "pending", attempts |-> 0, lapsed |-> FALSE, moved |-> FALSE]]
  /\ decision = [c \in Candidate |-> "none"]
  /\ moot = {} /\ spent = {}
  /\ turn = [c \in Candidate |-> NoTurn]
  /\ sent = [c \in Candidate |-> 0]
  /\ at = [c \in Candidate |-> [n \in Attempt |-> "none"]]
  /\ crashes = 0

-----------------------------------------------------------------------------
(* The job *)

\* hasActiveJobAttemptAuthority
Authority(c, n) == job[c].status = "running" /\ job[c].attempts = n /\ ~job[c].lapsed

\* Pending, or running under a lease that ran out, with attempts left.
Claimable(c) ==
  /\ job[c].status = "pending" \/ (job[c].status = "running" /\ job[c].lapsed)
  /\ job[c].attempts < MaxAttempts

\* A worker claims the job and hands it to the handler, which queues for the
\* conversation.
Claim(c) ==
  /\ Claimable(c)
  /\ job' = [job EXCEPT ![c].status = "running", ![c].attempts = @ + 1, ![c].lapsed = FALSE]
  /\ at' = [at EXCEPT ![c][job[c].attempts + 1] = "queued"]
  /\ UNCHANGED <<decision, moot, spent, turn, sent, crashes>>

\* failExpiredMaxAttemptLeases
GiveUp(c) ==
  /\ job[c].status = "running" /\ job[c].lapsed /\ job[c].attempts = MaxAttempts
  /\ job' = [job EXCEPT ![c].status = "failed"]
  /\ UNCHANGED <<decision, moot, spent, turn, sent, at, crashes>>

Complete(c, n) ==
  /\ at[c][n] = "success"
  /\ job' = IF Authority(c, n) THEN [job EXCEPT ![c].status = "completed"] ELSE job
  /\ at' = [at EXCEPT ![c][n] = "none"]
  /\ UNCHANGED <<decision, moot, spent, turn, sent, crashes>>

\* A retry is scheduled from the time of the failure, not for not_before_at.
Fail(c, n) ==
  /\ at[c][n] \in {"throw", "refused"}
  /\ job' = IF ~Authority(c, n) THEN job
            ELSE IF n = MaxAttempts THEN [job EXCEPT ![c].status = "failed"]
            ELSE [job EXCEPT ![c].status = "pending", ![c].moved = TRUE]
  /\ at' = [at EXCEPT ![c][n] = "none"]
  /\ UNCHANGED <<decision, moot, spent, turn, sent, crashes>>

-----------------------------------------------------------------------------
(* The handler *)

\* One workflow of the conversation at a time.
Slot == \A c \in Candidate, n \in Attempt : at[c][n] \notin InTurn

\* The stage the handler of an attempt goes to.
GoTo(c, n, stage) == at' = [at EXCEPT ![c][n] = stage]

\* Mutated form: the group's budget is not looked at.
MayRespondBeyondBudget(c) == c \notin moot

\* No suppressor that the database proves applies (heavy traffic may as well).
MayRespond(c) == c \notin moot /\ Cardinality(spent) < GroupBudget

\* Mutated form: any turn there is counts as finished.
StageAfterRespondAny(c) == IF turn[c] # NoTurn THEN "success" ELSE "respond"

\* findDelayedAttentionTerminalTurn: reuse what is finished, refuse what is
\* unclear, and start a turn if none of the earlier ones got anywhere.
StageAfterRespond(c) ==
  IF turn[c].delivered \/ turn[c].status = "completed" THEN "success"
  ELSE IF turn[c].status \in {"pending", "running"} \/ turn[c].decided THEN "throw"
  ELSE "respond"

\* The job no longer is what the candidate row says: assertJobBinding throws.
Refuse(c, n) ==
  /\ at[c][n] = "queued" /\ Slot
  /\ job[c].moved
  /\ GoTo(c, n, "refused")
  /\ UNCHANGED <<job, decision, moot, spent, turn, sent, crashes>>

\* decide, when the candidate has its decision.
Reuse(c, n) ==
  /\ at[c][n] = "queued" /\ Slot
  /\ ~job[c].moved /\ decision[c] # "none"
  /\ GoTo(c, n, IF decision[c] = "suppress" THEN "success" ELSE StageAfterRespond(c))
  /\ UNCHANGED <<job, decision, moot, spent, turn, sent, crashes>>

\* decide, for the first time: it takes the lease, and a response takes its share
\* of the budget with it.
Suppress(c, n) ==
  /\ at[c][n] = "queued" /\ Slot
  /\ ~job[c].moved /\ decision[c] = "none" /\ Authority(c, n)
  /\ decision' = [decision EXCEPT ![c] = "suppress"]
  /\ GoTo(c, n, "success")
  /\ UNCHANGED <<job, moot, spent, turn, sent, crashes>>

Respond(c, n) ==
  /\ at[c][n] = "queued" /\ Slot
  /\ ~job[c].moved /\ decision[c] = "none" /\ Authority(c, n)
  /\ MayRespond(c)
  /\ decision' = [decision EXCEPT ![c] = "respond"]
  /\ spent' = spent \cup {c}
  /\ GoTo(c, n, StageAfterRespond(c))
  /\ UNCHANGED <<job, moot, turn, sent, crashes>>

\* No room, too late, or the lease is gone before there is a decision.
TurnedAway(c, n) ==
  /\ at[c][n] = "queued"
  /\ GoTo(c, n, "throw")
  /\ UNCHANGED <<job, decision, moot, spent, turn, sent, crashes>>

-----------------------------------------------------------------------------
(* The turn it starts, as in EventPipeline *)

TurnStep(c, n, from, to, row) ==
  /\ at[c][n] = from
  /\ turn' = [turn EXCEPT ![c] = row]
  /\ GoTo(c, n, to)
  /\ UNCHANGED <<job, decision, moot, spent, sent, crashes>>

CreateTurn(c, n) ==
  TurnStep(c, n, "respond", "pending", [NoTurn EXCEPT !.status = "pending"])
StartTurn(c, n) ==
  TurnStep(c, n, "pending", "running", [turn[c] EXCEPT !.status = "running"])
Decide(c, n) ==
  TurnStep(c, n, "running", "decided", [turn[c] EXCEPT !.decided = TRUE])

Send(c, n) ==
  /\ at[c][n] = "decided"
  /\ \/ GoTo(c, n, "delivered") /\ sent' = [sent EXCEPT ![c] = @ + 1]
     \/ GoTo(c, n, "undelivered") /\ sent' = [sent EXCEPT ![c] = @ + 1]
     \/ GoTo(c, n, "undelivered") /\ UNCHANGED sent
  /\ UNCHANGED <<job, decision, moot, spent, turn, crashes>>

RecordExecution(c, n) ==
  \/ TurnStep(c, n, "delivered", "executed", [turn[c] EXCEPT !.delivered = TRUE])
  \/ TurnStep(c, n, "undelivered", "executed", turn[c])
Finish(c, n) ==
  TurnStep(c, n, "executed", "success", [turn[c] EXCEPT !.status = "completed"])

\* The turn's own catch block, or a model that could not answer: the turn, if it
\* exists, is failed, and the handler throws.
FailTurn(c, n) ==
  /\ at[c][n] \in InTurn
  /\ turn' = IF at[c][n] = "respond" THEN turn ELSE [turn EXCEPT ![c].status = "failed"]
  /\ GoTo(c, n, "throw")
  /\ UNCHANGED <<job, decision, moot, spent, sent, crashes>>

-----------------------------------------------------------------------------
(* The clock, the other members of the group, and crashes *)

Lapse(c) ==
  /\ job[c].status = "running" /\ ~job[c].lapsed
  /\ job' = [job EXCEPT ![c].lapsed = TRUE]
  /\ UNCHANGED <<decision, moot, spent, turn, sent, at, crashes>>

\* The thread expires, or a human answers the question.
BecomeMoot(c) ==
  /\ decision[c] = "none" /\ c \notin moot
  /\ moot' = moot \cup {c}
  /\ UNCHANGED <<job, decision, spent, turn, sent, at, crashes>>

\* A decision leaves the budget window.
LeaveWindow(c) ==
  /\ c \in spent
  /\ spent' = spent \ {c}
  /\ UNCHANGED <<job, decision, moot, turn, sent, at, crashes>>

Crash ==
  /\ crashes < MaxCrashes
  /\ crashes' = crashes + 1
  /\ at' = [c \in Candidate |-> [n \in Attempt |-> "none"]]
  /\ UNCHANGED <<job, decision, moot, spent, turn, sent>>

-----------------------------------------------------------------------------
Next ==
  \/ \E c \in Candidate :
       \/ Claim(c) \/ GiveUp(c)
       \/ Lapse(c) \/ BecomeMoot(c) \/ LeaveWindow(c)
       \/ \E n \in Attempt :
            \/ Complete(c, n) \/ Fail(c, n)
            \/ Refuse(c, n) \/ Reuse(c, n) \/ Suppress(c, n) \/ Respond(c, n)
            \/ TurnedAway(c, n)
            \/ CreateTurn(c, n) \/ StartTurn(c, n) \/ Decide(c, n)
            \/ Send(c, n) \/ RecordExecution(c, n) \/ Finish(c, n) \/ FailTurn(c, n)
  \/ Crash

Spec == Init /\ [][Next]_vars

-----------------------------------------------------------------------------
(* Properties *)

\* Every variable has its type, and only candidates with a decision to respond
\* have a turn or use up the budget.
TypeOK ==
  /\ job \in [Candidate -> [status : {"pending", "running", "completed", "failed"},
                            attempts : 0..MaxAttempts, lapsed : BOOLEAN, moved : BOOLEAN]]
  /\ decision \in [Candidate -> {"none", "respond", "suppress"}]
  /\ moot \subseteq Candidate
  /\ spent \subseteq {c \in Candidate : decision[c] = "respond"}
  /\ turn \in [Candidate -> TurnRow]
  /\ \A c \in Candidate : turn[c] # NoTurn => decision[c] = "respond"
  /\ sent \in [Candidate -> Nat]
  /\ at \in [Candidate -> [Attempt -> Stage]]
  /\ crashes \in 0..MaxCrashes

\* A question gets at most one proactive reply, although its job may be claimed
\* again after a crash or a stall, while the first handler may still be running.
AtMostOneReply == \A c \in Candidate : sent[c] <= 1

\* The group never has more responses reserved within the window than its budget.
BudgetHolds == Cardinality(spent) <= GroupBudget

\* A completed recheck is accounted for: a suppressor, or a turn that finished or
\* whose delivery is on record.
CompletionHasEvidence ==
  \A c \in Candidate :
    job[c].status = "completed" =>
      \/ decision[c] = "suppress"
      \/ turn[c].status = "completed" \/ turn[c].delivered

\* A question is answered at most once, and a recheck that counts as completed
\* shows why.
OneReplyWithEvidence == TypeOK /\ AtMostOneReply /\ CompletionHasEvidence
=============================================================================
