-------------------------- MODULE InvocationLedger --------------------------
(***************************************************************************)
(* The durable ledger of provider calls: ModelInvocationRepository, the     *)
(* triggers of migration 007, and the evaluator decisions bound to its rows *)
(* (src/src/storage/model-invocation-repository.ts,                         *)
(* evaluator-decision-repository.ts).  A row is started before the provider *)
(* is called and settled when the answer is known; between the two its      *)
(* owner - a conversation turn or a background job attempt - may end.  The  *)
(* operators below are the repository's transactions: a guard, and the new  *)
(* value of the table.                                                      *)
(***************************************************************************)
EXTENDS Naturals, FiniteSets

CONSTANTS Turn,         \* conversation turns, owners of pi_turn and tool calls
          Attempt,      \* job attempts, owners of summary and memory calls
          MaxRounds     \* provider rounds of one turn

ASSUME LedgerAssumption ==
    /\ Turn \cap Attempt = {}
    /\ MaxRounds \in Nat \ {0}

VARIABLES turn,         \* agent_turns.status of each turn
          attempt,      \* job_attempts.status and lease of each attempt
          inv,          \* model_invocations: the status of each possible row
          decision      \* evaluator_decisions: what the row of a request says

ledgerVars == <<turn, attempt, inv, decision>>

Owner == Turn \cup Attempt

(* A pi_turn row is numbered by its round; an evaluator row belongs to the  *)
(* request of that round (one tool call a round) and is its first call or   *)
(* the one correction call; an attempt asks about one candidate, or calls   *)
(* the summary model once and then once again.                              *)
PiRow(t, n) == <<"pi_turn", t, n, 1>>
EvaluatorRow(o, r, c) == <<"evaluator", o, r, c>>
SummaryRow(a, c) == <<"summary", a, 1, c>>

Row == {PiRow(t, n) : t \in Turn, n \in 1..MaxRounds}
       \cup {EvaluatorRow(o, r, c) : o \in Owner, r \in 1..MaxRounds, c \in 1..2}
       \cup {SummaryRow(a, c) : a \in Attempt, c \in 1..2}

OwnerOf(row) == row[2]
Request == {<<o, r>> : o \in Owner, r \in 1..MaxRounds}

(* "invalid" is the status failed with the error code                       *)
(* invalid_structured_output, the only one a correction call may follow.    *)
RowStatus == {"none", "running", "completed", "failed", "invalid", "aborted"}
Settled == {"completed", "failed", "invalid", "aborted"}
Verdict == {"approve", "refuse"}

LedgerTypeOK ==
    /\ turn \in [Turn -> {"none", "pending", "running", "completed", "failed", "aborted"}]
    /\ attempt \in [Attempt -> {"none", "running", "expired", "ended"}]
    /\ inv \in [Row -> RowStatus]
    /\ decision \in [Request -> Verdict \cup {"none"}]

LedgerInit ==
    /\ turn = [t \in Turn |-> "none"]
    /\ attempt = [a \in Attempt |-> "none"]
    /\ inv = [row \in Row |-> "none"]
    /\ decision = [q \in Request |-> "none"]

(* A running turn, or the current attempt of a running job whose lease has  *)
(* not expired (hasActiveJobAttemptAuthority).                              *)
OwnerActive(o) == IF o \in Turn THEN turn[o] = "running" ELSE attempt[o] = "running"

(* The next ordinal of the turn's rounds, COALESCE(MAX(call_number), 0) + 1.*)
NextRound(t) == Cardinality({n \in 1..MaxRounds : inv[PiRow(t, n)] # "none"}) + 1

CanStartPiTurn(t, n) == turn[t] = "running" /\ n = NextRound(t)

(* A correction call follows a first call that failed on its structure.     *)
CanStartEvaluator(o, r, c) ==
    /\ OwnerActive(o)
    /\ inv[EvaluatorRow(o, r, c)] = "none"
    /\ c = 2 => inv[EvaluatorRow(o, r, 1)] = "invalid"

(* A summary call asks only that its attempt is running, whatever the lease *)
CanStartSummary(a) == attempt[a] \in {"running", "expired"}

Started(row) == [inv EXCEPT ![row] = "running"]

(* assertInvocationCanComplete: the row is running and so is its owner; a   *)
(* summary asks for the running attempt only.                               *)
CanComplete(row) ==
    /\ inv[row] = "running"
    /\ \/ OwnerActive(OwnerOf(row))
       \/ row[1] = "summary" /\ attempt[OwnerOf(row)] = "expired"

Completed(row) == [inv EXCEPT ![row] = "completed"]

(* failInvocation updates a running row only.                               *)
CanFail(row) == inv[row] = "running"
Failed(row, status) == [inv EXCEPT ![row] = status]

(* trg_abort_running_model_invocations_after_turn and _after_attempt: the   *)
(* update that takes the owner out of running aborts what it left running.  *)
Orphaned(o) ==
    [row \in Row |-> IF OwnerOf(row) = o /\ inv[row] = "running" THEN "aborted" ELSE inv[row]]

(* assertEvaluatorInvocationBinding: the call whose answer is the decision  *)
(* completed, its owner is still active, and no other decision uses it.     *)
CanDecide(o, r, c) ==
    /\ inv[EvaluatorRow(o, r, c)] = "completed"
    /\ OwnerActive(o)
    /\ c = 2 => inv[EvaluatorRow(o, r, 1)] = "invalid"
    /\ decision[<<o, r>>] = "none"

Decided(o, r, verdict) == [decision EXCEPT ![<<o, r>>] = verdict]

-----------------------------------------------------------------------------
(* No call is left open by an owner that ended: every row that is still     *)
(* running has an owner whose turn or attempt is running.                   *)
NoOrphanCalls ==
    \A row \in Row : inv[row] = "running" =>
        IF OwnerOf(row) \in Turn THEN turn[OwnerOf(row)] = "running"
        ELSE attempt[OwnerOf(row)] \in {"running", "expired"}

(* What the ledger says of a call is said once: a settled row never changes *)
(* again, whatever answers, deadlines, aborts or restarts come later.       *)
SettledRowsAreFinal ==
    [][\A row \in Row : inv[row] \in Settled => inv'[row] = inv[row]]_ledgerVars
=============================================================================
