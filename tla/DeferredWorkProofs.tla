-------------------------- MODULE DeferredWorkProofs --------------------------
(***************************************************************************)
(* What is done long after it was asked for: modules DelayedAttention and   *)
(* MemoryMaintenance, proved for any questions, attempts, budget, crashes,  *)
(* memories, proposals, reviewers and clock.  They share nothing.           *)
(***************************************************************************)
EXTENDS DelayedAttention, MemoryMaintenance, SequenceTheorems, FiniteSetTheorems, TLAPS

(***************************************************************************)
(* Delayed attention.                                                       *)
(***************************************************************************)

\* What lets a recheck count as completed.
Evidence(c) ==
  \/ decision[c] = "suppress"
  \/ turn[c].status = "completed" \/ turn[c].delivered

BeforeSend == {"respond", "pending", "running", "decided"}

\* What the stage of a handler says about its candidate: nothing was sent before
\* the send, what decides is marked in the turn before it, a turn that is under way
\* is not over, and only what has evidence succeeds.
Supported(c, stage) ==
  /\ stage \in InTurn => decision[c] = "respond" /\ turn[c].status # "completed"
  /\ stage = "respond" => ~turn[c].delivered
  /\ stage \in BeforeSend => sent[c] = 0
  /\ stage = "decided" => turn[c].decided
  /\ stage = "success" => Evidence(c)

\* A reply leaves its mark in the turn, by which a later attempt knows.
Accounted(c) ==
  /\ sent[c] <= 1
  /\ sent[c] > 0 => turn[c].decided
  /\ job[c].status = "completed" => Evidence(c)
  /\ \A n \in Attempt : Supported(c, at[c][n])

\* The conversation runs one workflow at a time.
OneWorkflow ==
  \A c, d \in Candidate : \A m, n \in Attempt :
    at[c][m] \in InTurn /\ at[d][n] \in InTurn => c = d /\ m = n

IInv == TypeOK /\ OneWorkflow /\ \A c \in Candidate : Accounted(c)

JobTable ==
  [Candidate -> [status : {"pending", "running", "completed", "failed"},
                 attempts : 0..MaxAttempts, lapsed : BOOLEAN, moved : BOOLEAN]]

\* Changes of single columns of a job.
LEMMA JobRows ==
  ASSUME job \in JobTable, NEW c \in Candidate
  PROVE  /\ [job EXCEPT ![c].status = "failed"] \in JobTable
         /\ [job EXCEPT ![c].lapsed = TRUE] \in JobTable
         /\ [job EXCEPT ![c].status = "pending", ![c].moved = TRUE] \in JobTable
<1>1. [job[c] EXCEPT !.status = "failed"] \in
        [status : {"pending", "running", "completed", "failed"},
         attempts : 0..MaxAttempts, lapsed : BOOLEAN, moved : BOOLEAN]
  BY DEF JobTable
<1>2. [job[c] EXCEPT !.lapsed = TRUE] \in
        [status : {"pending", "running", "completed", "failed"},
         attempts : 0..MaxAttempts, lapsed : BOOLEAN, moved : BOOLEAN]
  BY DEF JobTable
<1>3. [job[c] EXCEPT !.status = "pending", !.moved = TRUE] \in
        [status : {"pending", "running", "completed", "failed"},
         attempts : 0..MaxAttempts, lapsed : BOOLEAN, moved : BOOLEAN]
  BY DEF JobTable
<1> QED BY <1>1, <1>2, <1>3 DEF JobTable

\* The handler of one attempt moves, and no other.
LEMMA GoToMoves ==
  ASSUME at \in [Candidate -> [Attempt -> Stage]],
         NEW c \in Candidate, NEW n \in Attempt, NEW stage \in Stage, GoTo(c, n, stage)
  PROVE  /\ at' \in [Candidate -> [Attempt -> Stage]]
         /\ at'[c][n] = stage
         /\ \A d \in Candidate, m \in Attempt :
              d # c \/ m # n => at'[d][m] = at[d][m]
  BY DEF GoTo

\* A step about one candidate leaves the account of another as it is.
LEMMA AccountFrame ==
  ASSUME NEW d \in Candidate, Accounted(d),
         decision'[d] = decision[d], turn'[d] = turn[d], sent'[d] = sent[d],
         job'[d].status = job[d].status \/ job'[d].status # "completed",
         \A m \in Attempt : at'[d][m] = at[d][m] \/ at'[d][m] \in {"none", "queued", "throw", "refused"}
  PROVE  Accounted(d)'
<1>1. ASSUME NEW m \in Attempt PROVE Supported(d, at[d][m])'
  BY <1>1 DEF Accounted, Supported, Evidence, InTurn, BeforeSend
<1> QED BY <1>1 DEF Accounted, Evidence

\* One workflow at a time, when only handlers outside a turn, or the one in it, move.
LEMMA WorkflowFrame ==
  ASSUME OneWorkflow,
         \A d \in Candidate, m \in Attempt : at'[d][m] \in InTurn => at[d][m] \in InTurn
  PROVE  OneWorkflow'
  BY DEF OneWorkflow

\* A turn begins when no other is under way.
LEMMA WorkflowBegins ==
  ASSUME Slot, NEW c \in Candidate, NEW n \in Attempt,
         \A d \in Candidate, m \in Attempt : d # c \/ m # n => at'[d][m] = at[d][m]
  PROVE  OneWorkflow'
  BY DEF Slot, OneWorkflow

LEMMA Initially == Init => IInv
<1> SUFFICES ASSUME Init PROVE IInv
  OBVIOUS
<1>1. TypeOK
  BY DelayedAttentionAssumption
  DEF Init, TypeOK, TurnRow, NoTurn, Stage, InTurn, Attempt
<1>2. OneWorkflow
  BY DEF Init, OneWorkflow, InTurn
<1>3. ASSUME NEW c \in Candidate PROVE Accounted(c)
  <2>1. ASSUME NEW n \in Attempt PROVE Supported(c, at[c][n])
    BY <2>1 DEF Init, Supported, InTurn, BeforeSend
  <2> QED BY <2>1 DEF Init, Accounted
<1> QED BY <1>1, <1>2, <1>3 DEF IInv

-----------------------------------------------------------------------------
(* The steps of the job, of the clock and of a crash. *)

LEMMA JobStep ==
  ASSUME IInv, NEW c \in Candidate, Claim(c) \/ GiveUp(c) \/ Lapse(c)
  PROVE  IInv'
<1> USE DEF IInv
<1>1. CASE Claim(c)
  <2> DEFINE n == job[c].attempts + 1
  <2>1. n \in Attempt
    BY <1>1, DelayedAttentionAssumption DEF Claim, Claimable, TypeOK, Attempt
  <2>2. /\ at' \in [Candidate -> [Attempt -> Stage]]
        /\ at'[c][n] = "queued"
        /\ \A d \in Candidate, m \in Attempt : d # c \/ m # n => at'[d][m] = at[d][m]
    BY <1>1, <2>1, GoToMoves DEF Claim, GoTo, TypeOK, Stage
  <2>3. TypeOK'
    <3>1. job'[c] = [job[c] EXCEPT !.status = "running", !.attempts = n, !.lapsed = FALSE]
      BY <1>1 DEF Claim, TypeOK
    <3>2. n \in 0..MaxAttempts
      BY <2>1, DelayedAttentionAssumption DEF Attempt
    <3>3. job' \in JobTable
      BY <1>1, <3>1, <3>2 DEF Claim, TypeOK, JobTable
    <3> QED BY <1>1, <2>2, <3>3 DEF Claim, TypeOK, JobTable
  <2>4. \A d \in Candidate : job'[d].status = job[d].status \/ job'[d].status # "completed"
    BY <1>1 DEF Claim, TypeOK
  <2>5. \A d \in Candidate : Accounted(d)'
    BY <1>1, <2>2, <2>4, AccountFrame DEF Claim
  <2>6. OneWorkflow'
    BY <2>2, WorkflowFrame DEF InTurn
  <2> QED BY <2>3, <2>5, <2>6
<1>2. CASE GiveUp(c) \/ Lapse(c)
  <2>1. TypeOK'
    <3>1. job \in JobTable
      BY DEF TypeOK, JobTable
    <3>2. job' \in JobTable
      BY <1>2, <3>1, JobRows DEF GiveUp, Lapse
    <3> QED BY <1>2, <3>2 DEF GiveUp, Lapse, TypeOK, JobTable
  <2>2. \A d \in Candidate : job'[d].status = job[d].status \/ job'[d].status # "completed"
    BY <1>2 DEF GiveUp, Lapse, TypeOK
  <2>3. \A d \in Candidate : Accounted(d)'
    BY <1>2, <2>2, AccountFrame DEF GiveUp, Lapse
  <2>4. OneWorkflow'
    BY <1>2, WorkflowFrame DEF GiveUp, Lapse
  <2> QED BY <2>1, <2>3, <2>4
<1> QED BY <1>1, <1>2

LEMMA ClockStep ==
  ASSUME IInv, NEW c \in Candidate, BecomeMoot(c) \/ LeaveWindow(c)
  PROVE  IInv'
<1> USE DEF IInv
<1>1. TypeOK'
  BY DEF BecomeMoot, LeaveWindow, TypeOK
<1>2. \A d \in Candidate : Accounted(d)'
  BY AccountFrame DEF BecomeMoot, LeaveWindow
<1>3. OneWorkflow'
  BY WorkflowFrame DEF BecomeMoot, LeaveWindow
<1> QED BY <1>1, <1>2, <1>3

LEMMA CrashStep == IInv /\ Crash => IInv'
<1> SUFFICES ASSUME IInv, Crash PROVE IInv'
  OBVIOUS
<1> USE DEF IInv
<1>1. \A d \in Candidate, m \in Attempt : at'[d][m] = "none"
  BY DEF Crash
<1>2. TypeOK'
  BY DelayedAttentionAssumption DEF Crash, TypeOK, Stage
<1>3. \A d \in Candidate : Accounted(d)'
  BY <1>1, AccountFrame DEF Crash
<1>4. OneWorkflow'
  BY <1>1, WorkflowFrame DEF InTurn
<1> QED BY <1>2, <1>3, <1>4

\* The end of an attempt.  Only one with evidence completes its job.
LEMMA EndStep ==
  ASSUME IInv, NEW c \in Candidate, NEW n \in Attempt, Complete(c, n) \/ Fail(c, n)
  PROVE  IInv'
<1> USE DEF IInv
<1>1. GoTo(c, n, "none")
  BY DEF Complete, Fail, GoTo
<1>2. /\ at' \in [Candidate -> [Attempt -> Stage]]
      /\ at'[c][n] = "none"
      /\ \A d \in Candidate, m \in Attempt : d # c \/ m # n => at'[d][m] = at[d][m]
  BY <1>1, GoToMoves DEF TypeOK, Stage
<1>3. TypeOK'
  <2>1. job' \in JobTable
    <3>1. CASE Complete(c, n)
      BY <3>1 DEF Complete, TypeOK, JobTable
    <3>2. CASE Fail(c, n)
      <4>1. job \in JobTable
        BY DEF TypeOK, JobTable
      <4> QED BY <3>2, <4>1, JobRows DEF Fail
    <3> QED BY <3>1, <3>2
  <2> QED BY <1>2, <2>1 DEF Complete, Fail, TypeOK, JobTable
<1>4. OneWorkflow'
  BY <1>2, WorkflowFrame DEF InTurn
<1>5. ASSUME NEW d \in Candidate PROVE Accounted(d)'
  <2>1. CASE job'[d].status = job[d].status \/ job'[d].status # "completed"
    BY <1>2, <2>1, AccountFrame DEF Complete, Fail
  <2>2. CASE job'[d].status = "completed" /\ job[d].status # "completed"
    <3>1. d = c /\ at[c][n] = "success"
      BY <2>2 DEF Complete, Fail, TypeOK
    <3>2. Evidence(c)'
      BY <3>1 DEF Accounted, Supported, Evidence, Complete, Fail
    <3>3. ASSUME NEW m \in Attempt PROVE Supported(c, at[c][m])'
      BY <1>2, <3>3 DEF Accounted, Supported, Evidence, InTurn, BeforeSend, Complete, Fail
    <3> QED BY <3>1, <3>2, <3>3 DEF Accounted, Complete, Fail
  <2> QED BY <2>1, <2>2
<1> QED BY <1>3, <1>4, <1>5

-----------------------------------------------------------------------------
(* The steps of the handler up to its turn. *)

\* Only the stage of the attempt changes, to one that promises nothing.
LEMMA PlainStep ==
  ASSUME IInv, NEW c \in Candidate, NEW n \in Attempt, Refuse(c, n) \/ TurnedAway(c, n)
  PROVE  IInv'
<1> USE DEF IInv
<1>1. PICK stage \in {"refused", "throw"} : GoTo(c, n, stage)
  BY DEF Refuse, TurnedAway
<1>2. /\ at' \in [Candidate -> [Attempt -> Stage]]
      /\ at'[c][n] = stage
      /\ \A d \in Candidate, m \in Attempt : d # c \/ m # n => at'[d][m] = at[d][m]
  BY <1>1, GoToMoves DEF TypeOK, Stage
<1>3. TypeOK'
  BY <1>2 DEF Refuse, TurnedAway, TypeOK
<1>4. OneWorkflow'
  BY <1>2, WorkflowFrame DEF InTurn
<1>5. \A d \in Candidate : Accounted(d)'
  BY <1>2, AccountFrame DEF Refuse, TurnedAway
<1> QED BY <1>3, <1>4, <1>5

\* The stage after a decision to respond fits what the earlier turns have left.
LEMMA StageFits ==
  ASSUME IInv, NEW c \in Candidate
  PROVE  /\ StageAfterRespond(c) \in {"success", "throw", "respond"}
         /\ StageAfterRespond(c) = "success" => turn[c].status = "completed" \/ turn[c].delivered
         /\ StageAfterRespond(c) = "respond" =>
              turn[c].status # "completed" /\ ~turn[c].delivered /\ sent[c] = 0
<1>1. /\ sent[c] \in Nat /\ (sent[c] > 0 => turn[c].decided)
      /\ turn[c].decided \in BOOLEAN /\ turn[c].delivered \in BOOLEAN
  BY DEF IInv, TypeOK, Accounted, TurnRow
<1> QED BY <1>1 DEF StageAfterRespond

LEMMA ReuseStep ==
  ASSUME IInv, NEW c \in Candidate, NEW n \in Attempt, Reuse(c, n)
  PROVE  IInv'
<1> USE DEF IInv
<1> DEFINE stage == IF decision[c] = "suppress" THEN "success" ELSE StageAfterRespond(c)
<1>1. /\ decision[c] = "suppress" \/ decision[c] = "respond"
      /\ GoTo(c, n, stage) /\ Slot
  BY DEF Reuse, TypeOK
<1>2. stage \in Stage /\ Supported(c, stage)
  BY <1>1, StageFits DEF Stage, Supported, Evidence, InTurn, BeforeSend
<1> HIDE DEF stage
<1>3. /\ at' \in [Candidate -> [Attempt -> Stage]]
      /\ at'[c][n] = stage
      /\ \A d \in Candidate, m \in Attempt : d # c \/ m # n => at'[d][m] = at[d][m]
  BY <1>1, <1>2, GoToMoves DEF TypeOK
<1>4. TypeOK'
  BY <1>3 DEF Reuse, TypeOK
<1>5. OneWorkflow'
  BY <1>1, <1>3, WorkflowBegins
<1>6. ASSUME NEW d \in Candidate PROVE Accounted(d)'
  <2>1. ASSUME NEW m \in Attempt PROVE Supported(d, at[d][m])'
    BY <1>2, <1>3, <2>1 DEF Reuse, Accounted, Supported, Evidence
  <2> QED BY <2>1 DEF Reuse, Accounted, Evidence
<1> QED BY <1>4, <1>5, <1>6

LEMMA SuppressStep ==
  ASSUME IInv, NEW c \in Candidate, NEW n \in Attempt, Suppress(c, n)
  PROVE  IInv'
<1> USE DEF IInv
<1>1. GoTo(c, n, "success") /\ Slot /\ decision[c] = "none"
  BY DEF Suppress
<1>2. /\ at' \in [Candidate -> [Attempt -> Stage]]
      /\ at'[c][n] = "success"
      /\ \A d \in Candidate, m \in Attempt : d # c \/ m # n => at'[d][m] = at[d][m]
  BY <1>1, GoToMoves DEF TypeOK, Stage
<1>3. /\ decision' \in [Candidate -> {"none", "respond", "suppress"}]
      /\ decision'[c] = "suppress"
      /\ \A d \in Candidate : d # c => decision'[d] = decision[d]
  BY DEF Suppress, TypeOK
<1>4. TypeOK'
  BY <1>1, <1>2, <1>3 DEF Suppress, TypeOK
<1>5. OneWorkflow'
  BY <1>1, <1>2, WorkflowBegins
<1>6. ASSUME NEW d \in Candidate PROVE Accounted(d)'
  <2>1. ASSUME NEW m \in Attempt PROVE Supported(d, at[d][m])'
    BY <1>1, <1>2, <1>3, <2>1
    DEF Suppress, Accounted, Supported, Evidence, Slot, InTurn, BeforeSend
  <2> QED BY <1>1, <1>3, <2>1 DEF Suppress, Accounted, Evidence
<1> QED BY <1>4, <1>5, <1>6

LEMMA RespondStep ==
  ASSUME IInv, NEW c \in Candidate, NEW n \in Attempt, Respond(c, n)
  PROVE  IInv'
<1> USE DEF IInv
<1> DEFINE stage == StageAfterRespond(c)
<1>1. GoTo(c, n, stage) /\ Slot /\ decision[c] = "none"
  BY DEF Respond
<1>2. /\ stage \in {"success", "throw", "respond"} /\ stage \in Stage
      /\ stage = "success" => turn[c].status = "completed" \/ turn[c].delivered
      /\ stage = "respond" => turn[c].status # "completed" /\ ~turn[c].delivered /\ sent[c] = 0
  BY StageFits DEF Stage, InTurn
<1> HIDE DEF stage
<1>3. /\ at' \in [Candidate -> [Attempt -> Stage]]
      /\ at'[c][n] = stage
      /\ \A d \in Candidate, m \in Attempt : d # c \/ m # n => at'[d][m] = at[d][m]
  BY <1>1, <1>2, GoToMoves DEF TypeOK
<1>4. /\ decision' \in [Candidate -> {"none", "respond", "suppress"}]
      /\ decision'[c] = "respond"
      /\ \A d \in Candidate : d # c => decision'[d] = decision[d]
  BY DEF Respond, TypeOK
<1>5. TypeOK'
  BY <1>1, <1>3, <1>4 DEF Respond, TypeOK
<1>6. OneWorkflow'
  BY <1>1, <1>3, WorkflowBegins
<1>7. ASSUME NEW d \in Candidate PROVE Accounted(d)'
  <2>1. Evidence(d) => Evidence(d)'
    BY <1>1, <1>4 DEF Respond, Evidence
  <2>2. ASSUME NEW m \in Attempt PROVE Supported(d, at[d][m])'
    <3>1. CASE d = c /\ m = n
      BY <1>2, <1>3, <1>4, <3>1 DEF Respond, Supported, Evidence, InTurn, BeforeSend
    <3>2. CASE ~(d = c /\ m = n)
      <4>1. Supported(d, at[d][m]) /\ at'[d][m] = at[d][m] /\ at[d][m] \notin InTurn
        BY <1>1, <1>3, <3>2 DEF Accounted, Slot
      <4> QED BY <2>1, <4>1 DEF Respond, Supported, InTurn, BeforeSend
    <3> QED BY <3>1, <3>2
  <2> QED BY <2>1, <2>2 DEF Respond, Accounted
<1> QED BY <1>5, <1>6, <1>7

-----------------------------------------------------------------------------
(* The steps of the turn. *)

\* The one turn that is under way moves on, or ends; whatever is evidence of its
\* candidate stays, and the next stage is supported by what the step wrote.
LEMMA TurnMoves ==
  ASSUME IInv, NEW c \in Candidate, NEW n \in Attempt, at[c][n] \in InTurn,
         NEW row \in TurnRow, turn' = [turn EXCEPT ![c] = row],
         turn[c].delivered => row.delivered,
         NEW stage \in Stage, GoTo(c, n, stage), Supported(c, stage)',
         sent' \in [Candidate -> Nat], \A d \in Candidate : d # c => sent'[d] = sent[d],
         sent'[c] <= 1, sent'[c] > 0 => row.decided,
         UNCHANGED <<job, decision, moot, spent, crashes>>
  PROVE  IInv'
<1> USE DEF IInv
<1>1. /\ at' \in [Candidate -> [Attempt -> Stage]]
      /\ at'[c][n] = stage
      /\ \A d \in Candidate, m \in Attempt : d # c \/ m # n => at'[d][m] = at[d][m]
  BY GoToMoves DEF TypeOK
<1>2. /\ turn' \in [Candidate -> TurnRow]
      /\ turn'[c] = row
      /\ \A d \in Candidate : d # c => turn'[d] = turn[d]
  BY DEF TypeOK
<1>3. decision[c] = "respond" /\ turn[c].status # "completed"
  BY DEF Accounted, Supported
<1>4. \A d \in Candidate, m \in Attempt : d # c \/ m # n => at[d][m] \notin InTurn
  BY DEF OneWorkflow
<1>5. TypeOK'
  BY <1>1, <1>2, <1>3 DEF TypeOK
<1>6. OneWorkflow'
  BY <1>1, <1>4, WorkflowFrame
<1>7. ASSUME NEW d \in Candidate PROVE Accounted(d)'
  <2>1. CASE d # c
    BY <1>1, <1>2, <2>1, AccountFrame
  <2>2. CASE d = c
    <3>1. Evidence(c) => Evidence(c)'
      BY <1>2, <1>3 DEF Evidence
    <3>2. ASSUME NEW m \in Attempt PROVE Supported(c, at[c][m])'
      <4>1. CASE m = n
        BY <1>1, <4>1 DEF Supported, Evidence
      <4>2. CASE m # n
        <5>1. at'[c][m] = at[c][m] /\ at'[c][m] \notin InTurn /\ Supported(c, at[c][m])
          BY <1>1, <1>4, <4>2 DEF Accounted
        <5> QED BY <3>1, <5>1 DEF Supported, InTurn, BeforeSend
      <4> QED BY <4>1, <4>2
    <3> QED BY <1>2, <2>2, <3>1, <3>2 DEF Accounted
  <2> QED BY <2>1, <2>2
<1> QED BY <1>5, <1>6, <1>7

\* The turn is created, started and decided before anything is sent.
LEMMA TurnBegins ==
  ASSUME IInv, NEW c \in Candidate, NEW n \in Attempt,
         CreateTurn(c, n) \/ StartTurn(c, n) \/ Decide(c, n)
  PROVE  IInv'
<1> USE DEF IInv
<1>1. /\ sent \in [Candidate -> Nat] /\ turn \in [Candidate -> TurnRow]
      /\ Supported(c, at[c][n]) /\ at[c][n] \in {"respond", "pending", "running"}
  BY DEF TypeOK, Accounted, CreateTurn, StartTurn, Decide, TurnStep
<1>2. decision[c] = "respond" /\ sent[c] = 0 /\ at[c][n] \in InTurn
  BY <1>1 DEF Supported, InTurn, BeforeSend
<1>3. turn[c] \in TurnRow /\ turn[c].status # "completed"
  BY <1>1, <1>2 DEF Supported
<1>4. CASE CreateTurn(c, n)
  <2> DEFINE row == [NoTurn EXCEPT !.status = "pending"]
  <2>1. row \in TurnRow /\ row.status = "pending" /\ ~turn[c].delivered
    BY <1>1, <1>4 DEF NoTurn, TurnRow, Supported, CreateTurn, TurnStep
  <2>2. turn' = [turn EXCEPT ![c] = row] /\ GoTo(c, n, "pending")
    BY <1>4 DEF CreateTurn, TurnStep
  <2>3. Supported(c, "pending")'
    BY <1>1, <1>2, <1>4, <2>1, <2>2 DEF CreateTurn, TurnStep, Supported, InTurn, BeforeSend
  <2>4. UNCHANGED <<job, decision, moot, spent, crashes>> /\ sent' = sent /\ "pending" \in Stage
    BY <1>4 DEF CreateTurn, TurnStep, Stage, InTurn
  <2>5. /\ sent' \in [Candidate -> Nat] /\ \A d \in Candidate : d # c => sent'[d] = sent[d]
        /\ sent'[c] <= 1 /\ (sent'[c] > 0 => row.decided)
        /\ turn[c].delivered => row.delivered
    BY <1>1, <1>2, <2>1, <2>4
  <2> HIDE DEF row
  <2> QED BY <1>2, <2>1, <2>2, <2>3, <2>4, <2>5, TurnMoves
<1>5. CASE StartTurn(c, n)
  <2> DEFINE row == [turn[c] EXCEPT !.status = "running"]
  <2>1. /\ row \in TurnRow /\ row.status = "running" /\ row.delivered = turn[c].delivered
    BY <1>3 DEF TurnRow
  <2>2. turn' = [turn EXCEPT ![c] = row] /\ GoTo(c, n, "running")
    BY <1>5 DEF StartTurn, TurnStep
  <2>3. Supported(c, "running")'
    BY <1>1, <1>2, <1>5, <2>1, <2>2 DEF StartTurn, TurnStep, Supported, InTurn, BeforeSend
  <2>4. UNCHANGED <<job, decision, moot, spent, crashes>> /\ sent' = sent /\ "running" \in Stage
    BY <1>5 DEF StartTurn, TurnStep, Stage, InTurn
  <2>5. /\ sent' \in [Candidate -> Nat] /\ \A d \in Candidate : d # c => sent'[d] = sent[d]
        /\ sent'[c] <= 1 /\ (sent'[c] > 0 => row.decided)
        /\ turn[c].delivered => row.delivered
    BY <1>1, <1>2, <2>1, <2>4
  <2> HIDE DEF row
  <2> QED BY <1>2, <2>1, <2>2, <2>3, <2>4, <2>5, TurnMoves
<1>6. CASE Decide(c, n)
  <2> DEFINE row == [turn[c] EXCEPT !.decided = TRUE]
  <2>1. /\ row \in TurnRow /\ row.decided /\ row.status # "completed"
        /\ row.delivered = turn[c].delivered
    BY <1>3 DEF TurnRow
  <2>2. turn' = [turn EXCEPT ![c] = row] /\ GoTo(c, n, "decided")
    BY <1>6 DEF Decide, TurnStep
  <2>3. Supported(c, "decided")'
    BY <1>1, <1>2, <1>6, <2>1, <2>2 DEF Decide, TurnStep, Supported, InTurn, BeforeSend
  <2>4. UNCHANGED <<job, decision, moot, spent, crashes>> /\ sent' = sent /\ "decided" \in Stage
    BY <1>6 DEF Decide, TurnStep, Stage, InTurn
  <2>5. /\ sent' \in [Candidate -> Nat] /\ \A d \in Candidate : d # c => sent'[d] = sent[d]
        /\ sent'[c] <= 1 /\ (sent'[c] > 0 => row.decided)
        /\ turn[c].delivered => row.delivered
    BY <1>1, <1>2, <2>1, <2>4
  <2> HIDE DEF row
  <2> QED BY <1>2, <2>1, <2>2, <2>3, <2>4, <2>5, TurnMoves
<1> QED BY <1>4, <1>5, <1>6

\* The platform takes the reply, whether or not the handler learns of it.
LEMMA SendStep ==
  ASSUME IInv, NEW c \in Candidate, NEW n \in Attempt, Send(c, n)
  PROVE  IInv'
<1> USE DEF IInv
<1>1. /\ sent \in [Candidate -> Nat] /\ turn \in [Candidate -> TurnRow]
      /\ Supported(c, at[c][n]) /\ at[c][n] = "decided"
  BY DEF TypeOK, Accounted, Send
<1>2. /\ decision[c] = "respond" /\ sent[c] = 0 /\ at[c][n] \in InTurn
      /\ turn[c].decided /\ turn[c].status # "completed"
  BY <1>1 DEF Supported, InTurn, BeforeSend
<1>3. /\ turn[c] \in TurnRow
      /\ turn' = [turn EXCEPT ![c] = turn[c]] /\ turn'[c] = turn[c]
  BY <1>1 DEF Send
<1>4. PICK stage \in {"delivered", "undelivered"} : GoTo(c, n, stage)
  BY DEF Send
<1>5. /\ sent' \in [Candidate -> Nat] /\ sent'[c] <= 1
      /\ \A d \in Candidate : d # c => sent'[d] = sent[d]
  BY <1>1, <1>2 DEF Send
<1>6. stage \in Stage /\ Supported(c, stage)'
  BY <1>2, <1>3 DEF Send, Supported, Stage, InTurn, BeforeSend
<1> QED BY <1>2, <1>3, <1>4, <1>5, <1>6, TurnMoves DEF Send

\* The execution is recorded, and the turn is finished or fails.
LEMMA TurnEnds ==
  ASSUME IInv, NEW c \in Candidate, NEW n \in Attempt,
         RecordExecution(c, n) \/ Finish(c, n) \/ FailTurn(c, n)
  PROVE  IInv'
<1> USE DEF IInv
<1>1. /\ sent \in [Candidate -> Nat] /\ sent' = sent
      /\ turn[c] \in TurnRow /\ turn = [turn EXCEPT ![c] = turn[c]]
      /\ Supported(c, at[c][n]) /\ at[c][n] \in InTurn
      /\ sent[c] <= 1 /\ (sent[c] > 0 => turn[c].decided)
  BY DEF TypeOK, Accounted, RecordExecution, Finish, FailTurn, TurnStep, InTurn
<1>2. /\ decision[c] = "respond" /\ turn[c].status # "completed"
      /\ UNCHANGED <<job, decision, moot, spent, crashes>>
  BY <1>1 DEF Supported, RecordExecution, Finish, FailTurn, TurnStep
<1>3. CASE RecordExecution(c, n)
  <2>1. GoTo(c, n, "executed")
    BY <1>3 DEF RecordExecution, TurnStep
  <2>2. PICK row \in {turn[c], [turn[c] EXCEPT !.delivered = TRUE]} :
          turn' = [turn EXCEPT ![c] = row]
    BY <1>3 DEF RecordExecution, TurnStep
  <2>3. /\ row \in TurnRow /\ row.decided = turn[c].decided
        /\ row.status # "completed" /\ (turn[c].delivered => row.delivered)
    BY <1>1, <1>2, <2>2 DEF TurnRow
  <2>4. turn'[c] = row
    BY <2>2 DEF TypeOK
  <2>5. Supported(c, "executed")'
    BY <1>2, <2>3, <2>4 DEF Supported, InTurn, BeforeSend
  <2> QED BY <1>1, <1>2, <2>1, <2>2, <2>3, <2>5, TurnMoves DEF Stage, InTurn
<1>4. CASE Finish(c, n)
  <2> DEFINE row == [turn[c] EXCEPT !.status = "completed"]
  <2>1. /\ row \in TurnRow /\ row.status = "completed"
        /\ row.decided = turn[c].decided /\ row.delivered = turn[c].delivered
    BY <1>1 DEF TurnRow
  <2>2. turn' = [turn EXCEPT ![c] = row] /\ GoTo(c, n, "success")
    BY <1>4 DEF Finish, TurnStep
  <2>3. Supported(c, "success")'
    BY <2>1, <2>2 DEF TypeOK, Supported, Evidence, InTurn, BeforeSend
  <2> HIDE DEF row
  <2> QED BY <1>1, <1>2, <2>1, <2>2, <2>3, TurnMoves DEF Stage
<1>5. CASE FailTurn(c, n)
  <2>1. GoTo(c, n, "throw")
    BY <1>5 DEF FailTurn
  <2>2. PICK row \in {turn[c], [turn[c] EXCEPT !.status = "failed"]} :
          turn' = [turn EXCEPT ![c] = row]
    BY <1>1, <1>5 DEF FailTurn
  <2>3. /\ row \in TurnRow
        /\ row.decided = turn[c].decided /\ row.delivered = turn[c].delivered
    BY <1>1, <2>2 DEF TurnRow
  <2>4. Supported(c, "throw")'
    BY DEF Supported, InTurn, BeforeSend
  <2> QED BY <1>1, <1>2, <2>1, <2>2, <2>3, <2>4, TurnMoves DEF Stage
<1> QED BY <1>3, <1>4, <1>5

-----------------------------------------------------------------------------
(* The theorems. *)

\* Every step of the specification keeps the account.
LEMMA Inductive == IInv /\ [Next]_vars => IInv'
<1> SUFFICES ASSUME IInv, [Next]_vars PROVE IInv'
  OBVIOUS
<1>1. CASE UNCHANGED vars
  BY <1>1 DEF vars, IInv, TypeOK, OneWorkflow, Accounted, Supported, Evidence
<1>2. CASE Crash
  BY <1>2, CrashStep
<1>3. ASSUME NEW c \in Candidate,
             Claim(c) \/ GiveUp(c) \/ Lapse(c) \/ BecomeMoot(c) \/ LeaveWindow(c)
      PROVE IInv'
  BY <1>3, JobStep, ClockStep
<1>4. ASSUME NEW c \in Candidate, NEW n \in Attempt,
             \/ Complete(c, n) \/ Fail(c, n)
             \/ Refuse(c, n) \/ Reuse(c, n) \/ Suppress(c, n) \/ Respond(c, n)
             \/ TurnedAway(c, n)
             \/ CreateTurn(c, n) \/ StartTurn(c, n) \/ Decide(c, n)
             \/ Send(c, n) \/ RecordExecution(c, n) \/ Finish(c, n) \/ FailTurn(c, n)
      PROVE IInv'
  BY <1>4, EndStep, PlainStep, ReuseStep, SuppressStep, RespondStep,
     TurnBegins, SendStep, TurnEnds
<1> QED BY <1>1, <1>2, <1>3, <1>4 DEF Next

\* A question gets at most one proactive reply however often its job is claimed,
\* and a recheck that counts as completed shows why: the mark in the turn that
\* findDelayedAttentionTerminalTurn reads is written before the reply can be sent,
\* and the conversation runs one workflow at a time.
THEOREM OneReplyAlways == Spec => []OneReplyWithEvidence
<1>1. Init => IInv
  BY Initially
<1>2. IInv /\ [Next]_vars => IInv'
  BY Inductive
<1>3. IInv => OneReplyWithEvidence
  BY DEF IInv, Accounted, Evidence, OneReplyWithEvidence, AtMostOneReply, CompletionHasEvidence
<1> QED BY <1>1, <1>2, <1>3, PTL DEF Spec

\* The responses reserved within the window never exceed the group's budget: the
\* share is taken in the transaction that looks at the budget.
THEOREM BudgetAlwaysHolds == Spec => []BudgetHolds
<1> DEFINE BInv == IsFiniteSet(spent) /\ BudgetHolds
<1>1. Init => BInv
  BY FS_EmptySet, DelayedAttentionAssumption DEF Init, BudgetHolds
<1>2. BInv /\ [Next]_vars => BInv'
  <2> SUFFICES ASSUME BInv, [Next]_vars PROVE BInv'
    OBVIOUS
  <2>0. Cardinality(spent) \in Nat /\ GroupBudget \in Nat
    BY FS_CardinalityType, DelayedAttentionAssumption
  <2>1. CASE UNCHANGED spent
    BY <2>1 DEF BudgetHolds
  <2>2. ASSUME NEW c \in Candidate, NEW n \in Attempt, Respond(c, n) PROVE BInv'
    <3>1. spent' = spent \cup {c} /\ Cardinality(spent) < GroupBudget
      BY <2>2 DEF Respond, MayRespond
    <3>2. /\ IsFiniteSet(spent \cup {c})
          /\ Cardinality(spent \cup {c}) =
               IF c \in spent THEN Cardinality(spent) ELSE Cardinality(spent) + 1
      BY FS_AddElement
    <3>3. Cardinality(spent \cup {c}) <= GroupBudget
      BY <2>0, <3>1, <3>2
    <3> QED BY <3>1, <3>2, <3>3 DEF BudgetHolds
  <2>3. ASSUME NEW c \in Candidate, LeaveWindow(c) PROVE BInv'
    <3>1. spent' = spent \ {c} /\ c \in spent
      BY <2>3 DEF LeaveWindow
    <3>2. IsFiniteSet(spent') /\ Cardinality(spent') = Cardinality(spent) - 1
      BY <3>1, FS_RemoveElement
    <3> QED BY <2>0, <3>2 DEF BudgetHolds
  <2>4. ASSUME NEW c \in Candidate, NEW n \in Attempt,
               CreateTurn(c, n) \/ StartTurn(c, n) \/ Decide(c, n) \/ Send(c, n)
               \/ RecordExecution(c, n) \/ Finish(c, n) \/ FailTurn(c, n)
        PROVE UNCHANGED spent
    BY <2>4 DEF CreateTurn, StartTurn, Decide, Send, RecordExecution, Finish, FailTurn, TurnStep
  <2>5. ASSUME NEW c \in Candidate, NEW n \in Attempt,
               Complete(c, n) \/ Fail(c, n) \/ Refuse(c, n) \/ Reuse(c, n)
               \/ Suppress(c, n) \/ TurnedAway(c, n)
        PROVE UNCHANGED spent
    BY <2>5 DEF Complete, Fail, Refuse, Reuse, Suppress, TurnedAway
  <2>6. ASSUME NEW c \in Candidate, Claim(c) \/ GiveUp(c) \/ Lapse(c) \/ BecomeMoot(c)
        PROVE UNCHANGED spent
    BY <2>6 DEF Claim, GiveUp, Lapse, BecomeMoot
  <2>7. CASE Crash \/ UNCHANGED vars
    BY <2>1, <2>7 DEF Crash, vars
  <2> QED BY <2>1, <2>2, <2>3, <2>4, <2>5, <2>6, <2>7 DEF Next
<1> QED BY <1>1, <1>2, PTL DEF Spec

(***************************************************************************)
(* Memory maintenance.  A memory is what its last revision says, and a      *)
(* revision is never rewritten while a proposal names its memory.  So what  *)
(* an applied proposal wrote stays on record, at the place its links name,  *)
(* together with what it replaced: whatever happens to the memory later,    *)
(* the record tells whether the application is still in force and what to   *)
(* restore.                                                                 *)
(***************************************************************************)

RowOrNone == Row \cup {Purged}
Revision == [by : Proposal \cup {"owner"}, previous : RowOrNone, new : Row]
Decision == [op : Op \cup {"propose"}, by : Reviewer \cup {"worker"},
             from : Lifecycle \cup {"none"}, new : Lifecycle, keep : Memory \cup {Nobody}]
Snapshots == {<<>>} \cup UNION {[C -> RowOrNone] : C \in SUBSET Memory}
Links == {<<>>} \cup UNION {[C -> Nat] : C \in SUBSET Memory}
ProposalRow ==
    [state : Lifecycle \cup {"none", "scanned"}, revision : 0..4, kind : Kind \cup {"none"},
     keep : Memory \cup {Nobody}, candidates : SUBSET Memory, snapshot : Snapshots,
     scored : Nat, links : Links]

(* The tables.                                                              *)
Tables ==
    /\ memory \in [Memory -> RowOrNone]
    /\ revisions \in [Memory -> Seq(Revision)]
    /\ withdrawn \subseteq Memory
    /\ proposal \in [Proposal -> ProposalRow]
    /\ history \in [Proposal -> Seq(Decision)]

(* A memory is what its last revision says.                                 *)
Recorded == \A m \in Memory :
    /\ memory[m] = Purged <=> revisions[m] = <<>>
    /\ memory[m] # Purged => memory[m] = revisions[m][Len(revisions[m])].new

(* How many decisions lead to a state.                                      *)
Steps(state) ==
    CASE state \in {"none", "scanned"} -> {0}
      [] state = "pending_review" -> {1}
      [] state \in {"approved", "rejected"} -> {2}
      [] state = "expired" -> {2, 3}
      [] state = "applied" -> {3}
      [] state = "rolled_back" -> {4}

(* The history of a proposal is a path that ends in its state.              *)
Path(p) == LET h == history[p] IN
    /\ proposal[p].revision \in Steps(proposal[p].state)
    /\ Len(h) = proposal[p].revision
    /\ h # <<>> => h[Len(h)].new = proposal[p].state
    /\ \A i \in 1..Len(h) :
         /\ <<h[i].from, h[i].op, h[i].new>> \in Edge
         /\ h[i].from = IF i = 1 THEN "none" ELSE h[i - 1].new

(* A proposal on file knows its candidates as they were.                    *)
Known(p) ==
    /\ proposal[p].snapshot \in [proposal[p].candidates -> RowOrNone]
    /\ \A m \in proposal[p].candidates : memory[m] # Purged

(* What an application wrote to a memory, and what it replaced.             *)
Written(p, m, v) ==
    /\ v.by = p
    /\ proposal[p].snapshot[m].state = "active"
    /\ v.previous.importance = proposal[p].snapshot[m].importance
    /\ IF proposal[p].kind = "importance"
       THEN v.new.state = "active" /\ v.new.importance = "raised" /\ v.previous.importance = "base"
       ELSE v.new.importance = proposal[p].snapshot[m].importance
    /\ proposal[p].kind = "decay" => v.new.state = "disabled"
    /\ proposal[p].kind = "consolidation" => (v.new.state = "active" <=> m = proposal[p].keep)
    /\ proposal[p].kind = "conflict"
         => (v.new.state = "active" <=> m = history[p][proposal[p].revision].keep)

(* The links of an applied proposal name what it wrote.                     *)
Effective(p) ==
    /\ proposal[p].links \in [proposal[p].candidates -> Nat]
    /\ \A m \in proposal[p].candidates :
         /\ proposal[p].links[m] \in 1..Len(revisions[m])
         /\ Written(p, m, Linked(p, m))

Sound(p) ==
    /\ Path(p)
    /\ proposal[p].state # "none" => proposal[p].kind \in Kind
    /\ p \in OnFile => Known(p)
    /\ proposal[p].state = "applied" => Effective(p)

MaintenanceInv ==
    /\ Tables /\ Recorded
    /\ \A p \in Proposal : Sound(p)
    /\ AnswersAreTrue /\ \A c \in claim : c.by \in Reviewer

-----------------------------------------------------------------------------
USE MemoryMaintenanceAssumption DEF MemoryMaintenanceAssumption

(* What the rows hold.                                                      *)
LEMMA PurgedIsNoRow == Purged \notin Row
  BY DEF Purged, Row, MemoryState

LEMMA NoProposalIsRow == NoProposal \in ProposalRow
<1> DEFINE e == <<>>
<1>1. e \in Snapshots /\ e \in Links  BY DEF Snapshots, Links
<1>2. NoProposal = [state |-> "none", revision |-> 0, kind |-> "none", keep |-> Nobody,
                    candidates |-> {}, snapshot |-> e, scored |-> 0, links |-> e]
  BY DEF NoProposal
<1> HIDE DEF e
<1> QED  BY <1>1, <1>2 DEF ProposalRow

LEMMA Stamped ==
    ASSUME NEW row \in Row, NEW s \in MemoryState, NEW t \in Time
    PROVE  /\ [row EXCEPT !.state = s, !.updated = t] \in Row
           /\ [row EXCEPT !.state = s, !.updated = t].state = s
           /\ [row EXCEPT !.state = s, !.updated = t].importance = row.importance
  BY DEF Row

(* A proposal as it is filed, by a scan or by the importance worker.        *)
Filed(r, snapshot) ==
    [r EXCEPT !.state = "pending_review", !.revision = 1, !.snapshot = snapshot]
Scored(r, C, snapshot, n) ==
    [r EXCEPT !.state = "pending_review", !.revision = 1, !.kind = "importance",
              !.candidates = C, !.snapshot = snapshot, !.scored = n]

LEMMA FiledRow ==
    ASSUME NEW r \in ProposalRow, NEW snapshot \in Snapshots
    PROVE  LET new == Filed(r, snapshot) IN
           /\ new \in ProposalRow /\ new.state = "pending_review" /\ new.revision = 1
           /\ new.kind = r.kind /\ new.candidates = r.candidates /\ new.snapshot = snapshot
<1>1. "pending_review" \in Lifecycle \cup {"none", "scanned"} /\ 1 \in 0..4  BY DEF Lifecycle
<1>2. Filed(r, snapshot) \in ProposalRow  BY <1>1 DEF ProposalRow, Filed
<1> QED  BY <1>2 DEF ProposalRow, Filed

LEMMA ScoredRow ==
    ASSUME NEW r \in ProposalRow, NEW C \in SUBSET Memory, NEW snapshot \in Snapshots, NEW n \in Nat
    PROVE  LET new == Scored(r, C, snapshot, n) IN
           /\ new \in ProposalRow /\ new.state = "pending_review" /\ new.revision = 1
           /\ new.kind = "importance" /\ new.candidates = C /\ new.snapshot = snapshot
<1>1. /\ "pending_review" \in Lifecycle \cup {"none", "scanned"} /\ 1 \in 0..4
      /\ "importance" \in Kind \cup {"none"}
  BY DEF Lifecycle, Kind
<1>2. Scored(r, C, snapshot, n) \in ProposalRow  BY <1>1 DEF ProposalRow, Scored
<1> QED  BY <1>2 DEF ProposalRow, Scored

(* A revision is added at the end, and says what the memory is from then on.*)
LEMMA RevisedFacts ==
    ASSUME Tables, NEW m \in Memory, NEW who \in Proposal \cup {"owner"}, NEW row \in Row
    PROVE  /\ Revised(m, who, row) \in Seq(Revision)
           /\ Len(Revised(m, who, row)) = Len(revisions[m]) + 1
           /\ Revised(m, who, row)[Len(revisions[m]) + 1].by = who
           /\ Revised(m, who, row)[Len(revisions[m]) + 1].previous = memory[m]
           /\ Revised(m, who, row)[Len(revisions[m]) + 1].new = row
           /\ \A i \in 1..Len(revisions[m]) : Revised(m, who, row)[i] = revisions[m][i]
<1> DEFINE e == [by |-> who, previous |-> memory[m], new |-> row]
<1>1. e \in Revision  BY DEF Revision, Tables
<1>2. revisions[m] \in Seq(Revision)  BY DEF Tables
<1>3. Revised(m, who, row) = Append(revisions[m], e)  BY DEF Revised
<1>4. e.by = who /\ e.previous = memory[m] /\ e.new = row  OBVIOUS
<1> HIDE DEF e
<1> QED  BY <1>1, <1>2, <1>3, <1>4

(* What was recorded about a memory stays recorded.                         *)
Extended(m) ==
    /\ memory'[m] # Purged
    /\ Len(revisions[m]) <= Len(revisions'[m])
    /\ \A i \in 1..Len(revisions[m]) : revisions'[m][i] = revisions[m][i]

(* A proposal nobody decides about stays as it is, whatever is added to the *)
(* record of its candidates.                                                *)
LEMMA SoundFrame ==
    ASSUME Tables, Tables', NEW p \in Proposal, Sound(p),
           proposal'[p] = proposal[p], history'[p] = history[p],
           p \in OnFile => \A m \in proposal[p].candidates : Extended(m)
    PROVE  Sound(p)'
<1>1. Path(p)'  BY DEF Sound, Path
<1>2. p \in OnFile <=> (p \in OnFile)'  BY DEF OnFile
<1>3. (p \in OnFile => Known(p))'  BY <1>2 DEF Sound, Known, Extended
<1>4. ASSUME proposal[p].state = "applied"  PROVE Effective(p)'
  <2>1. p \in OnFile  BY <1>4 DEF OnFile
  <2>2. ASSUME NEW m \in proposal[p].candidates
        PROVE  /\ proposal'[p].links[m] \in 1..Len(revisions'[m])
               /\ revisions'[m][proposal'[p].links[m]] = Linked(p, m)
    <3>1. proposal[p].links[m] \in 1..Len(revisions[m])  BY <1>4 DEF Sound, Effective
    <3>2. revisions[m] \in Seq(Revision) /\ revisions'[m] \in Seq(Revision)
      BY DEF Tables, ProposalRow
    <3> QED  BY <2>1, <3>1, <3>2 DEF Extended, Linked
  <2>3. Effective(p)  BY <1>4 DEF Sound
  <2>4. ASSUME NEW m \in proposal[p].candidates  PROVE Written(p, m, Linked(p, m))'
    <3>1. Linked(p, m)' = Linked(p, m)  BY <2>2 DEF Linked
    <3>2. Written(p, m, Linked(p, m))  BY <2>3 DEF Effective
    <3> QED  BY <3>1, <3>2 DEF Written
  <2> QED  BY <2>2, <2>3, <2>4 DEF Effective
<1> QED  BY <1>1, <1>3, <1>4 DEF Sound

-----------------------------------------------------------------------------
(* The owner and the operator                                              *)

LEMMA InitSound == MaintenanceInit => MaintenanceInv
<1> SUFFICES ASSUME MaintenanceInit PROVE MaintenanceInv  OBVIOUS
<1> USE DEF MaintenanceInit
<1>a. /\ memory \in [Memory -> Row] /\ withdrawn = {} /\ claim = {}
      /\ proposal = [p \in Proposal |-> NoProposal] /\ history = [p \in Proposal |-> <<>>]
  BY DEF Row, MemoryState, Importance, Time, NoClaim
<1>b. ASSUME NEW m \in Memory
      PROVE  /\ revisions[m] \in Seq(Revision) /\ Len(revisions[m]) = 1
             /\ revisions[m][1].new = memory[m]
  <2>1. [by |-> "owner", previous |-> Purged, new |-> memory[m]] \in Revision
    BY <1>a DEF Revision, RowOrNone
  <2> QED  BY <2>1
<1>1. Tables
  <2>1. memory \in [Memory -> RowOrNone]  BY <1>a DEF RowOrNone
  <2>2. revisions \in [Memory -> Seq(Revision)]  BY <1>b
  <2>3. proposal \in [Proposal -> ProposalRow]  BY <1>a, NoProposalIsRow
  <2>4. history \in [Proposal -> Seq(Decision)]  BY <1>a
  <2> QED  BY <1>a, <2>1, <2>2, <2>3, <2>4 DEF Tables
<1>2. Recorded
  <2>1. ASSUME NEW m \in Memory  PROVE memory[m] # Purged /\ revisions[m] # <<>>
    <3>1. memory[m] \in Row /\ Len(revisions[m]) = 1  BY <1>a, <1>b
    <3> QED  BY <3>1, PurgedIsNoRow
  <2> QED  BY <1>b, <2>1 DEF Recorded
<1>3. ASSUME NEW p \in Proposal  PROVE Sound(p)
  <2>1. proposal[p] = NoProposal /\ history[p] = <<>>  BY <1>a
  <2>2. p \notin OnFile /\ proposal[p].state = "none" /\ proposal[p].revision = 0
    BY <2>1 DEF OnFile, NoProposal
  <2>3. Path(p)  BY <2>1, <2>2 DEF Path, Steps
  <2> QED  BY <2>2, <2>3 DEF Sound
<1> QED  BY <1>a, <1>1, <1>2, <1>3 DEF MaintenanceInv, AnswersAreTrue

LEMMA OwnerChangeSound ==
    ASSUME MaintenanceInv, NEW m \in Memory, OwnerChange(m)
    PROVE  MaintenanceInv'
<1> USE DEF MaintenanceInv
<1>1. PICK s \in Allowed(memory[m].state), t \in Time :
        LET row == [memory[m] EXCEPT !.state = s, !.updated = t] IN
          /\ memory' = [memory EXCEPT ![m] = row]
          /\ revisions' = [revisions EXCEPT ![m] = Revised(m, "owner", row)]
  BY Zenon DEF OwnerChange
<1> DEFINE row == [memory[m] EXCEPT !.state = s, !.updated = t]
<1>2. memory[m] \in Row /\ s \in MemoryState
  BY DEF Allowed, Tables, RowOrNone, Purged, MemoryState
<1>3. row \in Row /\ row # Purged
  <2>1. row \in Row  BY <1>2 DEF Row, Time
  <2> QED  BY <2>1, PurgedIsNoRow
<1>4. /\ memory' = [memory EXCEPT ![m] = row]
      /\ revisions' = [revisions EXCEPT ![m] = Revised(m, "owner", row)]
      /\ claim' = {} /\ UNCHANGED <<withdrawn, proposal, history>>
  BY <1>1, Zenon DEF OwnerChange, NoClaim
<1> HIDE DEF row
<1>a. /\ Revised(m, "owner", row) \in Seq(Revision)
      /\ Len(Revised(m, "owner", row)) = Len(revisions[m]) + 1
      /\ Revised(m, "owner", row)[Len(revisions[m]) + 1].new = row
      /\ \A i \in 1..Len(revisions[m]) : Revised(m, "owner", row)[i] = revisions[m][i]
  <2>1. "owner" \in Proposal \cup {"owner"}  OBVIOUS
  <2>2. Tables  OBVIOUS
  <2> HIDE DEF MaintenanceInv
  <2> QED  BY <1>3, <2>1, <2>2, RevisedFacts
<1>5. Tables'  BY <1>3, <1>4, <1>a DEF Tables, RowOrNone
<1>6. Recorded'
  <2>1. revisions'[m] # <<>> /\ Len(revisions'[m]) = Len(revisions[m]) + 1 /\ memory'[m] = row
    BY <1>4, <1>a DEF Tables
  <2>2. revisions'[m][Len(revisions'[m])].new = row  BY <1>4, <1>a, <2>1 DEF Tables
  <2>3. \A n \in Memory \ {m} : memory'[n] = memory[n] /\ revisions'[n] = revisions[n]
    BY <1>4 DEF Tables
  <2> QED  BY <1>3, <2>1, <2>2, <2>3 DEF Recorded
<1>7. ASSUME NEW p \in Proposal  PROVE Sound(p)'
  <2>1. ASSUME NEW n \in Memory, memory[n] # Purged  PROVE Extended(n)
    BY <1>3, <1>4, <1>a, <2>1 DEF Extended, Tables
  <2>2. p \in OnFile => \A n \in proposal[p].candidates : n \in Memory /\ memory[n] # Purged
    BY DEF Sound, Known, Tables, ProposalRow
  <2> QED  BY <1>4, <1>5, <2>1, <2>2, SoundFrame
<1> QED  BY <1>4, <1>5, <1>6, <1>7 DEF AnswersAreTrue

(* What is not named by a proposal on file may go.                          *)
LEMMA RetentionSound ==
    ASSUME MaintenanceInv, NEW m \in Memory, Retention(m)
    PROVE  MaintenanceInv'
<1> USE DEF MaintenanceInv, Retention
<1>1. claim' = {} /\ UNCHANGED <<withdrawn, proposal, history>>  BY DEF NoClaim
<1>2. Tables'  BY <1>1 DEF Tables, RowOrNone
<1>3. Recorded'  BY <1>1 DEF Recorded, Tables
<1>4. ASSUME NEW p \in Proposal  PROVE Sound(p)'
  <2>1. ASSUME p \in OnFile, NEW n \in proposal[p].candidates  PROVE Extended(n)
    <3>1. n \in Memory /\ n # m  BY <2>1 DEF Pinned, Tables, ProposalRow
    <3>2. memory[n] # Purged  BY <2>1 DEF Sound, Known
    <3> QED  BY <3>1, <3>2 DEF Extended, Tables
  <2> QED  BY <1>1, <1>2, <2>1, SoundFrame
<1> QED  BY <1>1, <1>2, <1>3, <1>4 DEF AnswersAreTrue

(* Steps that touch neither memories nor proposals.                         *)
LEMMA IdleSound ==
    ASSUME MaintenanceInv, UNCHANGED <<memory, revisions, proposal, history>>,
           withdrawn' \subseteq Memory, AnswersAreTrue', \A c \in claim' : c.by \in Reviewer
    PROVE  MaintenanceInv'
<1> USE DEF MaintenanceInv
<1>1. Tables'  BY DEF Tables
<1>2. Recorded'  BY DEF Recorded
<1>3. ASSUME NEW p \in Proposal  PROVE Sound(p)'
  <2>1. p \in OnFile => \A n \in proposal[p].candidates : Extended(n)
    <3>1. p \in OnFile => \A n \in proposal[p].candidates : n \in Memory /\ memory[n] # Purged
      BY DEF Sound, Known, Tables, ProposalRow
    <3> QED  BY <3>1 DEF Extended, Tables
  <2> QED  BY <1>1, <2>1, SoundFrame
<1> QED  BY <1>1, <1>2, <1>3

LEMMA EvidenceSound ==
    ASSUME MaintenanceInv, NEW m \in Memory, Withdraw(m) \/ Reinstate(m)
    PROVE  MaintenanceInv'
<1>1. UNCHANGED <<memory, revisions, proposal, history>> /\ claim' = {} /\ withdrawn' \subseteq Memory
  BY DEF Withdraw, Reinstate, NoClaim, MaintenanceInv, Tables
<1> QED  BY <1>1, IdleSound DEF AnswersAreTrue

-----------------------------------------------------------------------------
(* The scanners                                                            *)

LEMMA ScanSound ==
    ASSUME MaintenanceInv, NEW p \in Proposal, Scan(p)
    PROVE  MaintenanceInv'
<1> USE DEF MaintenanceInv
<1>1. PICK kind \in Kind, candidates \in SUBSET Memory, keep \in Memory \cup {Nobody} :
        proposal' = [proposal EXCEPT
          ![p] = [@ EXCEPT !.state = "scanned", !.kind = kind,
                           !.candidates = candidates, !.keep = keep]]
  BY Zenon DEF Scan
<1> DEFINE new == [proposal[p] EXCEPT !.state = "scanned", !.kind = kind,
                                      !.candidates = candidates, !.keep = keep]
<1>2. proposal[p] \in ProposalRow  BY DEF Tables
<1>3. new \in ProposalRow /\ new.state = "scanned" /\ new.revision = proposal[p].revision
      /\ new.kind \in Kind
  BY <1>2 DEF ProposalRow
<1>4. /\ proposal' = [proposal EXCEPT ![p] = new]
      /\ claim' = {} /\ UNCHANGED <<memory, revisions, withdrawn, history>>
      /\ proposal[p].state = "none"
  BY <1>1, Zenon DEF Scan, NoClaim
<1> HIDE DEF new
<1>5. Tables'  BY <1>3, <1>4 DEF Tables
<1>6. Recorded'  BY <1>4 DEF Recorded
<1>7. ASSUME NEW q \in Proposal, q # p  PROVE Sound(q)'
  <2>1. q \in OnFile => \A n \in proposal[q].candidates : n \in Memory /\ memory[n] # Purged
    BY DEF Sound, Known, Tables, ProposalRow
  <2>2. q \in OnFile => \A n \in proposal[q].candidates : Extended(n)
    BY <1>4, <2>1 DEF Extended, Tables
  <2>3. proposal'[q] = proposal[q]  BY <1>4, <1>7 DEF Tables
  <2> QED  BY <1>4, <1>5, <2>2, <2>3, SoundFrame
<1>8. Sound(p)'
  <2>1. proposal'[p] = new  BY <1>4 DEF Tables
  <2>2. Len(history[p]) = 0 /\ new.revision = 0
    BY <1>3, <1>4 DEF Sound, Path, Steps, Tables
  <2>3. history[p] = <<>> /\ history'[p] = history[p]  BY <1>4, <2>2 DEF Tables
  <2>4. Path(p)'  BY <1>3, <2>1, <2>2, <2>3 DEF Path, Steps
  <2>5. (p \notin OnFile)' /\ proposal'[p].state # "applied"  BY <1>3, <2>1 DEF OnFile
  <2> QED  BY <1>3, <2>1, <2>4, <2>5 DEF Sound
<1> QED  BY <1>4, <1>5, <1>6, <1>7, <1>8 DEF AnswersAreTrue

(* A proposal is filed with its candidates as they are.                     *)
LEMMA FileSound ==
    ASSUME MaintenanceInv, NEW p \in Proposal, NEW new \in ProposalRow, File(p, new),
           new.state = "pending_review", new.revision = 1, new.kind \in Kind,
           new.snapshot = Snapshot(new.candidates),
           \A m \in new.candidates : memory[m] # Purged
    PROVE  MaintenanceInv'
<1> USE DEF MaintenanceInv
<1> DEFINE e == [op |-> "propose", by |-> "worker", from |-> "none",
                 new |-> "pending_review", keep |-> Nobody]
<1>1. e \in Decision  BY DEF Decision, Lifecycle
<1>2. /\ proposal' = [proposal EXCEPT ![p] = new] /\ history' = [history EXCEPT ![p] = <<e>>]
      /\ claim' = {} /\ UNCHANGED <<memory, revisions, withdrawn>>
  BY DEF File, NoClaim
<1>3. e.op = "propose" /\ e.from = "none" /\ e.new = "pending_review"  OBVIOUS
<1> HIDE DEF e
<1>4. Tables'
  <2>1. <<e>> \in Seq(Decision)  BY <1>1
  <2> QED  BY <1>2, <2>1 DEF Tables
<1>5. Recorded'  BY <1>2 DEF Recorded
<1>6. ASSUME NEW q \in Proposal, q # p  PROVE Sound(q)'
  <2>1. q \in OnFile => \A n \in proposal[q].candidates : n \in Memory /\ memory[n] # Purged
    BY DEF Sound, Known, Tables, ProposalRow
  <2>2. q \in OnFile => \A n \in proposal[q].candidates : Extended(n)
    BY <1>2, <2>1 DEF Extended, Tables
  <2>3. proposal'[q] = proposal[q] /\ history'[q] = history[q]  BY <1>2, <1>6 DEF Tables
  <2> QED  BY <1>2, <1>4, <2>2, <2>3, SoundFrame
<1>7. Sound(p)'
  <2>1. proposal'[p] = new /\ history'[p] = <<e>>  BY <1>2 DEF Tables
  <2>2. Path(p)'
    <3>1. Len(<<e>>) = 1 /\ <<e>>[1] = e  OBVIOUS
    <3> QED  BY <1>3, <2>1, <3>1 DEF Path, Steps, Edge
  <2>3. Known(p)'
    <3>1. new.candidates \subseteq Memory  BY DEF ProposalRow
    <3> QED  BY <1>2, <2>1, <3>1 DEF Known, Snapshot, Tables
  <2> QED  BY <2>1, <2>2, <2>3 DEF Sound
<1> QED  BY <1>2, <1>4, <1>5, <1>6, <1>7 DEF AnswersAreTrue

LEMMA ProposeSound ==
    ASSUME MaintenanceInv, NEW p \in Proposal, Propose(p) \/ ProposeImportance(p)
    PROVE  MaintenanceInv'
<1>0. \A C \in SUBSET Memory : Snapshot(C) \in Snapshots
  BY DEF Snapshot, Snapshots, MaintenanceInv, Tables
<1>1. CASE Propose(p)
  <2> DEFINE new == Filed(proposal[p], Snapshot(proposal[p].candidates))
  <2>1. proposal[p] \in ProposalRow /\ proposal[p].candidates \in SUBSET Memory
    BY DEF MaintenanceInv, Tables, ProposalRow
  <2>2. /\ new \in ProposalRow /\ new.state = "pending_review" /\ new.revision = 1
        /\ new.kind = proposal[p].kind /\ new.candidates = proposal[p].candidates
        /\ new.snapshot = Snapshot(proposal[p].candidates)
    BY <1>0, <2>1, FiledRow
  <2>3. File(p, new) /\ \A m \in proposal[p].candidates : memory[m] # Purged
    BY <1>1 DEF Propose, Filed
  <2>4. new.kind \in Kind  BY <1>1, <2>2 DEF Propose, MaintenanceInv, Sound
  <2> HIDE DEF new
  <2> QED  BY <2>2, <2>3, <2>4, FileSound
<1>2. CASE ProposeImportance(p)
  <2>1. PICK m \in Memory :
          HasEvidence(m) /\ File(p, Scored(NoProposal, {m}, Snapshot({m}), Len(revisions[m])))
    BY <1>2, Zenon DEF ProposeImportance, Scored
  <2> DEFINE new == Scored(NoProposal, {m}, Snapshot({m}), Len(revisions[m]))
  <2>2. Len(revisions[m]) \in Nat /\ Snapshot({m}) \in Snapshots
    BY <1>0 DEF MaintenanceInv, Tables
  <2>3. /\ new \in ProposalRow /\ new.state = "pending_review" /\ new.revision = 1
        /\ new.kind = "importance" /\ new.candidates = {m} /\ new.snapshot = Snapshot({m})
    <3> DEFINE C == {m}
               S == Snapshot(C)
               n == Len(revisions[m])
    <3>1. C \in SUBSET Memory /\ S \in Snapshots /\ n \in Nat  BY <2>2
    <3>2. new = Scored(NoProposal, C, S, n)  OBVIOUS
    <3>3. C = {m} /\ S = Snapshot({m})  OBVIOUS
    <3> HIDE DEF C, S, n, new
    <3>4. /\ new \in ProposalRow /\ new.state = "pending_review" /\ new.revision = 1
          /\ new.kind = "importance" /\ new.candidates = C /\ new.snapshot = S
      BY <3>1, <3>2, NoProposalIsRow, ScoredRow
    <3> QED  BY <3>3, <3>4
  <2>4. memory[m] # Purged  BY <2>1 DEF HasEvidence, Purged
  <2>5. File(p, new)  BY <2>1
  <2> HIDE DEF new
  <2> QED  BY <2>3, <2>4, <2>5, FileSound DEF Kind
<1> QED  BY <1>1, <1>2

-----------------------------------------------------------------------------
(* The reviewers                                                           *)

(* A request names a decision its sender has seen, and what may follow it.  *)
LEMMA RequestFacts ==
    ASSUME Tables, NEW p \in Proposal, NEW r \in Requests(p)
    PROVE  /\ r.proposal = p /\ r.op \in Op
           /\ r.revision \in 1..Len(history[p])
           /\ r.expected \in Lifecycle /\ r.expected = history[p][r.revision].new
           /\ r.op \in OpsFrom(r.expected)
           /\ r.keep \in Memory \cup {Nobody}
<1>1. PICK i \in 1..Len(history[p]) : \E op \in OpsFrom(history[p][i].new) :
        \E keep \in Choice(p, op) :
          r = [op |-> op, proposal |-> p, expected |-> history[p][i].new, revision |-> i, keep |-> keep]
  BY DEF Requests
<1>2. PICK op \in OpsFrom(history[p][i].new) : \E keep \in Choice(p, op) :
        r = [op |-> op, proposal |-> p, expected |-> history[p][i].new, revision |-> i, keep |-> keep]
  BY <1>1
<1>a. PICK keep \in Choice(p, op) :
        r = [op |-> op, proposal |-> p, expected |-> history[p][i].new, revision |-> i, keep |-> keep]
  BY <1>2
<1>3. history[p][i].new \in Lifecycle
  <2>1. history[p] \in Seq(Decision)  BY DEF Tables
  <2>2. history[p][i] \in Decision  BY <2>1
  <2> QED  BY <2>2 DEF Decision
<1>4. op \in Op  BY DEF OpsFrom, Op, ReviewOp
<1>5. keep \in Memory \cup {Nobody}  BY DEF Choice, Tables, ProposalRow
<1> QED  BY <1>a, <1>3, <1>4, <1>5

(* The decision that a request asks for, and the state it leads to.         *)
LEMMA EntryFacts ==
    ASSUME NEW a \in Reviewer, NEW r, r.op \in OpsFrom(r.expected), r.expected \in Lifecycle,
           r.keep \in Memory \cup {Nobody}
    PROVE  /\ Entry(a, r) \in Decision
           /\ Entry(a, r).new = Target(r.op) /\ Entry(a, r).from = r.expected
           /\ Entry(a, r).op = r.op /\ Entry(a, r).keep = r.keep
           /\ <<r.expected, r.op, Target(r.op)>> \in Edge
           /\ Target(r.op) \in Lifecycle \ {"pending_review"}
           /\ Target(r.op) = "applied" => r.op = "apply"
           /\ \A n \in Steps(r.expected) : n + 1 \in Steps(Target(r.op)) /\ n + 1 \in 0..4
<1>1. r.op \in {"approve", "reject", "expire", "apply", "rollback"}  BY DEF OpsFrom, ReviewOp
<1>2. Target(r.op) \in Lifecycle \ {"pending_review"}  BY <1>1 DEF Target, Lifecycle
<1>3. Entry(a, r) \in Decision  BY <1>1, <1>2 DEF Entry, Decision, Op, ReviewOp
<1>4. <<r.expected, r.op, Target(r.op)>> \in Edge  BY DEF OpsFrom, ReviewOp, Target, Edge
<1>5. \A n \in Steps(r.expected) : n + 1 \in Steps(Target(r.op)) /\ n + 1 \in 0..4
  BY DEF OpsFrom, ReviewOp, Target, Steps
<1>6. Target(r.op) = "applied" => r.op = "apply"  BY <1>1 DEF Target
<1> QED  BY <1>2, <1>3, <1>4, <1>5, <1>6 DEF Entry

(* A decision is added to the history of the one proposal it is about, and  *)
(* its author is told.                                                      *)
LEMMA TransitionSound ==
    ASSUME MaintenanceInv, NEW p \in Proposal, NEW r \in Requests(p), NEW a \in Reviewer,
           NEW links \in Links, Matches(r), Transition(a, r, links), withdrawn' \subseteq Memory,
           memory' \in [Memory -> RowOrNone], revisions' \in [Memory -> Seq(Revision)],
           \A m \in Memory : memory[m] # Purged => Extended(m)
    PROVE  /\ Tables' /\ Path(p)' /\ p \in OnFile /\ Known(p)'
           /\ \A q \in Proposal \ {p} : Sound(q)'
           /\ AnswersAreTrue' /\ \A c \in claim' : c.by \in Reviewer
           /\ proposal'[p].links = links /\ proposal'[p].state = Target(r.op)
           /\ proposal'[p].kind = proposal[p].kind /\ proposal'[p].keep = proposal[p].keep
           /\ proposal'[p].candidates = proposal[p].candidates
           /\ proposal'[p].snapshot = proposal[p].snapshot
           /\ history'[p][proposal'[p].revision].keep = r.keep
<1>1. Tables /\ Sound(p)  BY DEF MaintenanceInv
<1>2. /\ r.proposal = p /\ r.revision \in 1..Len(history[p]) /\ r.expected \in Lifecycle
      /\ r.op \in OpsFrom(r.expected) /\ r.keep \in Memory \cup {Nobody}
  BY <1>1, RequestFacts
<1> DEFINE e == Entry(a, r)
           new == [proposal[p] EXCEPT !.state = Target(r.op), !.revision = r.revision + 1,
                                      !.links = links]
<1>3. /\ e \in Decision /\ e.new = Target(r.op) /\ e.from = r.expected
      /\ e.op = r.op /\ e.keep = r.keep
      /\ <<e.from, e.op, e.new>> \in Edge
      /\ Target(r.op) \in Lifecycle \ {"pending_review"}
      /\ \A n \in Steps(r.expected) : n + 1 \in Steps(Target(r.op)) /\ n + 1 \in 0..4
  BY <1>2, EntryFacts
<1>4. /\ proposal[p].state = r.expected /\ proposal[p].revision = r.revision
      /\ Len(history[p]) = r.revision /\ r.revision \in Steps(r.expected)
  BY <1>1, <1>2 DEF Matches, Sound, Path
<1>5. /\ new \in ProposalRow /\ new.state = Target(r.op) /\ new.revision = r.revision + 1
      /\ new.links = links /\ new.kind = proposal[p].kind /\ new.keep = proposal[p].keep
      /\ new.candidates = proposal[p].candidates /\ new.snapshot = proposal[p].snapshot
  <2>1. proposal[p] \in ProposalRow  BY <1>1 DEF Tables
  <2>2. r.revision + 1 \in 0..4 /\ Target(r.op) \in Lifecycle \cup {"none", "scanned"}  BY <1>3, <1>4
  <2> QED  BY <2>1, <2>2 DEF ProposalRow
<1>6. /\ proposal' = [proposal EXCEPT ![p] = new]
      /\ history' = [history EXCEPT ![p] = Append(history[p], e)]
      /\ claim' = {[by |-> a, request |-> r]}
  BY <1>2 DEF Transition, Done
<1> HIDE DEF e, new
<1>7. proposal'[p] = new /\ history'[p] = Append(history[p], e)  BY <1>1, <1>6 DEF Tables
<1>8. /\ history'[p] \in Seq(Decision) /\ Len(history'[p]) = r.revision + 1
      /\ history'[p][r.revision + 1] = e
      /\ \A i \in 1..r.revision : history'[p][i] = history[p][i]
  BY <1>1, <1>3, <1>4, <1>7 DEF Tables
<1>9. Tables'  BY <1>1, <1>5, <1>6, <1>8 DEF Tables
<1>10. Path(p)'
  <2>1. history'[p][Len(history'[p])].new = proposal'[p].state  BY <1>3, <1>5, <1>7, <1>8
  <2>2. history[p][r.revision].new = r.expected  BY <1>1, <1>2, RequestFacts
  <2>3. ASSUME NEW i \in 1..Len(history'[p])
        PROVE  /\ <<history'[p][i].from, history'[p][i].op, history'[p][i].new>> \in Edge
               /\ history'[p][i].from = IF i = 1 THEN "none" ELSE history'[p][i - 1].new
    <3>1. r.revision \in Nat \ {0}  BY <1>2, <1>4
    <3>2. CASE i = r.revision + 1
      <4>1. i # 1 /\ i - 1 = r.revision /\ r.revision \in 1..r.revision  BY <3>1, <3>2
      <4>2. history'[p][i - 1].new = r.expected  BY <1>8, <2>2, <4>1
      <4>3. history'[p][i] = e  BY <1>8, <3>2
      <4> QED  BY <1>3, <4>1, <4>2, <4>3
    <3>3. CASE i \in 1..r.revision
      <4>1. i \in 1..Len(history[p]) /\ (i # 1 => i - 1 \in 1..r.revision)  BY <1>4, <3>1, <3>3
      <4> QED  BY <1>1, <1>8, <3>3, <4>1 DEF Sound, Path
    <3> QED  BY <1>8, <3>1, <3>2, <3>3
  <2> QED  BY <1>3, <1>4, <1>5, <1>7, <1>8, <2>1, <2>3 DEF Path
<1>11. p \in OnFile  BY <1>2, <1>4 DEF OnFile, Lifecycle
<1>12. ASSUME NEW q \in Proposal, q \in OnFile, NEW m \in proposal[q].candidates
       PROVE  m \in Memory /\ memory[m] # Purged /\ Extended(m)
  BY <1>12 DEF MaintenanceInv, Sound, Known, Tables, ProposalRow
<1>13. Known(p)'
  BY <1>1, <1>5, <1>7, <1>11, <1>12 DEF Sound, Known, Extended
<1>14. ASSUME NEW q \in Proposal \ {p}  PROVE Sound(q)'
  <2>1. Sound(q)  BY DEF MaintenanceInv
  <2>2. proposal'[q] = proposal[q] /\ history'[q] = history[q]  BY <1>1, <1>6 DEF Tables
  <2> QED  BY <1>1, <1>9, <1>12, <2>1, <2>2, SoundFrame
<1>15. AnswersAreTrue' /\ \A c \in claim' : c.by \in Reviewer
  BY <1>2, <1>4, <1>6, <1>8 DEF AnswersAreTrue, Entry, e
<1> QED  BY <1>3, <1>5, <1>7, <1>8, <1>9, <1>10, <1>11, <1>13, <1>14, <1>15

(* A review decides and writes nothing to the memories.                     *)
LEMMA ReviewSound ==
    ASSUME MaintenanceInv, NEW p \in Proposal, NEW r \in Requests(p), NEW a \in Reviewer, Review(a, r)
    PROVE  MaintenanceInv'
<1>1. /\ r.proposal = p /\ r.op \in OpsFrom(r.expected) /\ r.expected \in Lifecycle
      /\ r.keep \in Memory \cup {Nobody}
  BY RequestFacts DEF MaintenanceInv
<1>2. /\ Matches(r) /\ Transition(a, r, proposal[p].links)
      /\ UNCHANGED <<memory, revisions, withdrawn>> /\ r.op \in ReviewOp
  BY <1>1 DEF Review, ReviewHolds
<1>3. proposal[p].links \in Links  BY DEF MaintenanceInv, Tables, ProposalRow
<1>4. \A m \in Memory : memory[m] # Purged => Extended(m)
  BY <1>2 DEF Extended, MaintenanceInv, Tables
<1>5. /\ Tables' /\ Path(p)' /\ p \in OnFile /\ Known(p)' /\ proposal'[p].state = Target(r.op)
      /\ \A q \in Proposal \ {p} : Sound(q)'
      /\ AnswersAreTrue' /\ \A c \in claim' : c.by \in Reviewer
      /\ proposal'[p].kind = proposal[p].kind
  <2>1. /\ withdrawn' \subseteq Memory /\ memory' \in [Memory -> RowOrNone]
        /\ revisions' \in [Memory -> Seq(Revision)]
    BY <1>2 DEF MaintenanceInv, Tables
  <2> QED  BY <1>2, <1>3, <1>4, <2>1, TransitionSound
<1>6. Sound(p)'
  <2>1. Target(r.op) # "applied"  BY <1>2 DEF Target, ReviewOp
  <2>2. proposal[p].kind \in Kind  BY <1>5 DEF OnFile, MaintenanceInv, Sound
  <2> QED  BY <1>5, <2>1, <2>2 DEF Sound
<1>7. Recorded'  BY <1>2 DEF MaintenanceInv, Recorded
<1> QED  BY <1>5, <1>6, <1>7 DEF MaintenanceInv

(* The memories after a write: each candidate has one more revision, by the *)
(* proposal, which says what it was and what it is.                         *)
LEMMA WriteFacts ==
    ASSUME MaintenanceInv, NEW p \in Proposal, NEW r \in Requests(p), NEW a \in Reviewer,
           NEW row \in [proposal[p].candidates -> Row], Matches(r), Write(a, r, row)
    PROVE  /\ Recorded' /\ withdrawn' = withdrawn
           /\ Transition(a, r, [m \in proposal[p].candidates |-> Len(revisions[m]) + 1])
           /\ [m \in proposal[p].candidates |-> Len(revisions[m]) + 1] \in Links
           /\ memory' \in [Memory -> RowOrNone] /\ revisions' \in [Memory -> Seq(Revision)]
           /\ \A m \in Memory : memory[m] # Purged => Extended(m)
           /\ \A m \in Memory \ proposal[p].candidates :
                memory'[m] = memory[m] /\ revisions'[m] = revisions[m]
           /\ \A m \in proposal[p].candidates :
                /\ m \in Memory /\ memory'[m] = row[m]
                /\ Len(revisions'[m]) = Len(revisions[m]) + 1
                /\ revisions'[m][Len(revisions[m]) + 1].by = p
                /\ revisions'[m][Len(revisions[m]) + 1].previous = memory[m]
                /\ revisions'[m][Len(revisions[m]) + 1].new = row[m]
<1> DEFINE C == proposal[p].candidates
<1>1. Tables /\ Recorded /\ r.proposal = p  BY RequestFacts DEF MaintenanceInv
<1>2. C \subseteq Memory  BY <1>1 DEF Tables, ProposalRow
<1>3. /\ memory' = [m \in Memory |-> IF m \in C THEN row[m] ELSE memory[m]]
      /\ revisions' = [m \in Memory |-> IF m \in C THEN Revised(m, p, row[m]) ELSE revisions[m]]
      /\ Transition(a, r, [m \in C |-> Len(revisions[m]) + 1])
      /\ withdrawn' = withdrawn
  BY <1>1 DEF Write
<1>4. [m \in C |-> Len(revisions[m]) + 1] \in Links
  <2>1. \A m \in C : Len(revisions[m]) + 1 \in Nat  BY <1>1, <1>2 DEF Tables
  <2>2. [m \in C |-> Len(revisions[m]) + 1] \in [C -> Nat]  BY <2>1
  <2> QED  BY <1>2, <2>2 DEF Links
<1> HIDE DEF C
<1>5. ASSUME NEW m \in C
      PROVE  /\ m \in Memory /\ memory'[m] = row[m] /\ row[m] \in Row /\ row[m] # Purged
             /\ revisions'[m] \in Seq(Revision)
             /\ Len(revisions'[m]) = Len(revisions[m]) + 1
             /\ revisions'[m][Len(revisions[m]) + 1].by = p
             /\ revisions'[m][Len(revisions[m]) + 1].previous = memory[m]
             /\ revisions'[m][Len(revisions[m]) + 1].new = row[m]
             /\ \A i \in 1..Len(revisions[m]) : revisions'[m][i] = revisions[m][i]
  <2>1. m \in Memory /\ row[m] \in Row  BY <1>2 DEF C
  <2>2. memory'[m] = row[m] /\ revisions'[m] = Revised(m, p, row[m])  BY <1>3, <2>1
  <2>3. p \in Proposal \cup {"owner"}  OBVIOUS
  <2>4. row[m] # Purged  BY <2>1, PurgedIsNoRow
  <2> DEFINE v == revisions'[m]
  <2>5. /\ v \in Seq(Revision) /\ Len(v) = Len(revisions[m]) + 1
        /\ v[Len(revisions[m]) + 1].by = p
        /\ v[Len(revisions[m]) + 1].previous = memory[m]
        /\ v[Len(revisions[m]) + 1].new = row[m]
        /\ \A i \in 1..Len(revisions[m]) : v[i] = revisions[m][i]
    BY <1>1, <2>1, <2>2, <2>3, RevisedFacts
  <2> QED  BY <2>1, <2>2, <2>4, <2>5
<1>6. ASSUME NEW m \in Memory \ C
      PROVE  memory'[m] = memory[m] /\ revisions'[m] = revisions[m]
  BY <1>3
<1>7. Recorded'
  <2>1. ASSUME NEW m \in C
        PROVE  /\ memory'[m] # Purged /\ revisions'[m] # <<>>
               /\ memory'[m] = revisions'[m][Len(revisions'[m])].new
    <3>1. Len(revisions[m]) \in Nat  BY <1>1, <1>5 DEF Tables
    <3> QED  BY <1>5, <3>1
  <2> QED  BY <1>1, <1>6, <2>1 DEF Recorded
<1>8. memory' \in [Memory -> RowOrNone]
  BY <1>1, <1>3, <1>5 DEF Tables, RowOrNone
<1>9. revisions' \in [Memory -> Seq(Revision)]
  <2>1. \A m \in Memory : revisions'[m] \in Seq(Revision)  BY <1>1, <1>5, <1>6 DEF Tables
  <2> QED  BY <1>3, <2>1
<1>10. ASSUME NEW m \in Memory, memory[m] # Purged  PROVE Extended(m)
  <2>1. Len(revisions[m]) \in Nat  BY <1>1 DEF Tables
  <2> QED  BY <1>5, <1>6, <1>10, <2>1 DEF Extended
<1> QED  BY <1>3, <1>4, <1>5, <1>6, <1>7, <1>8, <1>9, <1>10 DEF C

(* What is applied is what was asked for, to memories that are as they were *)
(* when the proposal was made.                                              *)
LEMMA EffectFacts ==
    ASSUME MaintenanceInv, NEW p \in Proposal, NEW r \in Requests(p), ApplyHolds(r), AllActive(r),
           NEW m \in proposal[p].candidates, NEW t \in Time
    PROVE  /\ m \in Memory /\ memory[m] \in Row /\ memory[m] = proposal[p].snapshot[m]
           /\ memory[m].state = "active"
           /\ Effect(r, m, t) \in Row
           /\ proposal[p].kind = "importance" =>
                /\ Effect(r, m, t).state = "active" /\ Effect(r, m, t).importance = "raised"
                /\ memory[m].importance = "base" /\ m \notin withdrawn
           /\ proposal[p].kind # "importance" => Effect(r, m, t).importance = memory[m].importance
           /\ proposal[p].kind = "decay" => Effect(r, m, t).state = "disabled"
           /\ proposal[p].kind \in {"conflict", "consolidation"} =>
                (Effect(r, m, t).state = "active" <=> m = Retained(r))
<1>1. Tables /\ r.proposal = p  BY RequestFacts DEF MaintenanceInv
<1>2. /\ Snapshot(proposal[p].candidates) = proposal[p].snapshot /\ ScoreIsCurrent(p)
      /\ memory[m].state = "active"
  BY <1>1 DEF ApplyHolds, SnapshotIsCurrent, AllActive
<1>3. m \in Memory  BY <1>1 DEF Tables, ProposalRow
<1>4. memory[m] \in Row  BY <1>1, <1>2, <1>3 DEF Tables, RowOrNone, Purged
<1>5. memory[m] = proposal[p].snapshot[m]  BY <1>2 DEF Snapshot
<1>6. CASE proposal[p].kind = "importance"
  <2>1. Effect(r, m, t) = [memory[m] EXCEPT !.importance = "raised"]
    BY <1>1, <1>6 DEF Effect
  <2>2. memory[m].importance = "base" /\ m \notin withdrawn
    BY <1>2, <1>6 DEF ScoreIsCurrent, HasEvidence
  <2> QED  BY <1>2, <1>3, <1>4, <1>5, <1>6, <2>1, <2>2 DEF Row, Importance
<1>7. CASE proposal[p].kind # "importance"
  <2> DEFINE s == IF proposal[p].kind = "decay" THEN "disabled"
                  ELSE IF m = Retained(r) THEN memory[m].state ELSE "superseded"
  <2>1. Effect(r, m, t) = [memory[m] EXCEPT !.updated = t, !.state = s]
    BY <1>1, <1>7 DEF Effect
  <2>2. s \in MemoryState  BY <1>2 DEF MemoryState
  <2>3. /\ proposal[p].kind = "decay" => s = "disabled"
        /\ proposal[p].kind \in {"conflict", "consolidation"} => (s = "active" <=> m = Retained(r))
    BY <1>2
  <2> HIDE DEF s
  <2>4. /\ Effect(r, m, t) \in Row /\ Effect(r, m, t).state = s
        /\ Effect(r, m, t).importance = memory[m].importance
    BY <1>4, <2>1, <2>2 DEF Row
  <2> QED  BY <1>2, <1>3, <1>4, <1>5, <1>7, <2>3, <2>4
<1> QED  BY <1>6, <1>7

LEMMA ApplySound ==
    ASSUME MaintenanceInv, NEW p \in Proposal, NEW r \in Requests(p), NEW a \in Reviewer, Apply(a, r)
    PROVE  MaintenanceInv'
<1> DEFINE C == proposal[p].candidates
           links == [m \in C |-> Len(revisions[m]) + 1]
<1>1. Tables /\ Sound(p) /\ Recorded  BY DEF MaintenanceInv
<1>2. /\ r.proposal = p /\ r.op \in OpsFrom(r.expected) /\ r.expected \in Lifecycle
      /\ r.keep \in Memory \cup {Nobody}
  BY <1>1, RequestFacts
<1>3. PICK t \in NotBefore(C) : Write(a, r, [m \in C |-> Effect(r, m, t)])
  BY <1>2 DEF Apply
<1> DEFINE row == [m \in C |-> Effect(r, m, t)]
<1>4. r.op = "apply" /\ Matches(r) /\ ApplyHolds(r) /\ AllActive(r) /\ t \in Time
  BY DEF Apply, ApplyHolds, NotBefore
<1>5. ASSUME NEW m \in C
      PROVE  /\ m \in Memory /\ memory[m] \in Row /\ memory[m] = proposal[p].snapshot[m]
             /\ memory[m].state = "active"
             /\ Effect(r, m, t) \in Row
             /\ proposal[p].kind = "importance" =>
                  /\ Effect(r, m, t).state = "active" /\ Effect(r, m, t).importance = "raised"
                  /\ memory[m].importance = "base"
             /\ proposal[p].kind # "importance" => Effect(r, m, t).importance = memory[m].importance
             /\ proposal[p].kind = "decay" => Effect(r, m, t).state = "disabled"
             /\ proposal[p].kind \in {"conflict", "consolidation"} =>
                  (Effect(r, m, t).state = "active" <=> m = Retained(r))
  BY <1>4, EffectFacts
<1>6. row \in [C -> Row]  BY <1>5
<1>7. \A m \in C : row[m] = Effect(r, m, t)  OBVIOUS
<1>8. Write(a, r, row)  BY <1>3
<1> HIDE DEF row
<1>9. /\ Recorded' /\ withdrawn' = withdrawn /\ Transition(a, r, links) /\ links \in Links
      /\ memory' \in [Memory -> RowOrNone] /\ revisions' \in [Memory -> Seq(Revision)]
      /\ \A m \in Memory : memory[m] # Purged => Extended(m)
      /\ \A m \in C :
           /\ m \in Memory /\ memory'[m] = row[m]
           /\ Len(revisions'[m]) = Len(revisions[m]) + 1
           /\ revisions'[m][Len(revisions[m]) + 1].by = p
           /\ revisions'[m][Len(revisions[m]) + 1].previous = memory[m]
           /\ revisions'[m][Len(revisions[m]) + 1].new = row[m]
  BY <1>4, <1>6, <1>8, WriteFacts
<1>10. withdrawn' \subseteq Memory  BY <1>1, <1>9 DEF Tables
<1>a. \A m \in C : links[m] = Len(revisions[m]) + 1  OBVIOUS
<1>b. links \in [C -> Nat]  BY <1>1, <1>5 DEF Tables
<1> HIDE DEF links
<1>11. /\ Tables' /\ Path(p)' /\ p \in OnFile /\ Known(p)'
       /\ \A q \in Proposal \ {p} : Sound(q)'
       /\ AnswersAreTrue' /\ \A c \in claim' : c.by \in Reviewer
       /\ proposal'[p].links = links /\ proposal'[p].state = Target(r.op)
       /\ proposal'[p].kind = proposal[p].kind /\ proposal'[p].keep = proposal[p].keep
       /\ proposal'[p].candidates = C /\ proposal'[p].snapshot = proposal[p].snapshot
       /\ history'[p][proposal'[p].revision].keep = r.keep
  BY <1>4, <1>9, <1>10, TransitionSound
<1>12. ASSUME NEW m \in C
       PROVE  /\ proposal'[p].links[m] \in 1..Len(revisions'[m])
              /\ Written(p, m, Linked(p, m))'
  <2>1. Len(revisions[m]) \in Nat  BY <1>1, <1>5 DEF Tables
  <2>2. proposal'[p].links[m] = Len(revisions[m]) + 1  BY <1>11, <1>a
  <2> DEFINE v == revisions'[m][Len(revisions[m]) + 1]
  <2>3. Linked(p, m)' = v  BY <2>2 DEF Linked
  <2>4. v.by = p /\ v.previous = memory[m] /\ v.new = Effect(r, m, t)  BY <1>7, <1>9
  <2>5. Retained(r) = IF proposal[p].kind = "consolidation" THEN proposal[p].keep ELSE r.keep
    BY <1>2 DEF Retained
  <2> HIDE DEF v
  <2>6. Written(p, m, Linked(p, m))'
    BY <1>4, <1>5, <1>11, <2>3, <2>4, <2>5 DEF Written
  <2> QED  BY <1>9, <2>1, <2>2, <2>6
<1>13. Sound(p)'
  <2>1. Effective(p)'  BY <1>11, <1>12, <1>b DEF Effective
  <2>2. proposal[p].kind \in Kind  BY <1>1, <1>11 DEF OnFile, Sound
  <2> QED  BY <1>11, <2>1, <2>2 DEF Sound
<1> QED  BY <1>9, <1>11, <1>13 DEF MaintenanceInv

(* What an application wrote tells what a rollback restores.                *)
LEMMA RestoredFacts ==
    ASSUME MaintenanceInv, NEW p \in Proposal, NEW r \in Requests(p), RollbackHolds(r),
           NEW m \in proposal[p].candidates, NEW t \in Time
    PROVE  /\ Restored(p, m, t) \in Row
           /\ Restored(p, m, t).state = "active"
           /\ Restored(p, m, t).importance = proposal[p].snapshot[m].importance
           /\ memory[m].importance = "base" => Restored(p, m, t).importance = "base"
           /\ proposal[p].snapshot[m].state = "active"
           /\ proposal[p].links[m] = Len(revisions[m]) /\ m \in Memory
           /\ revisions[m][Len(revisions[m])].by = p
<1>1. Tables /\ Sound(p) /\ r.proposal = p /\ r.op \in OpsFrom(r.expected)
  BY RequestFacts DEF MaintenanceInv
<1>2. r.op = "rollback" /\ Matches(r) /\ EffectsAreCurrent(p)  BY <1>1 DEF RollbackHolds
<1>3. r.expected = "applied"  BY <1>1, <1>2 DEF OpsFrom, ReviewOp
<1>4. Effective(p) /\ p \in OnFile  BY <1>1, <1>2, <1>3 DEF Matches, Sound, OnFile
<1>5. m \in Memory /\ memory[m] \in Row
  BY <1>1, <1>4 DEF Tables, ProposalRow, RowOrNone, Sound, Known
<1>6. proposal[p].links[m] = Len(revisions[m]) /\ memory[m] = Linked(p, m).new
  BY <1>2 DEF EffectsAreCurrent
<1>7. Written(p, m, Linked(p, m))  BY <1>4 DEF Effective
<1>8. "active" \in MemoryState  BY DEF MemoryState
<1>9. CASE proposal[p].kind = "importance"
  <2>1. Restored(p, m, t) = [memory[m] EXCEPT !.state = "active",
                                              !.importance = Linked(p, m).previous.importance]
    BY <1>9 DEF Restored
  <2>2. Linked(p, m).previous.importance = "base"  BY <1>7, <1>9 DEF Written
  <2>3. Restored(p, m, t) \in Row /\ Restored(p, m, t).state = "active"
        /\ Restored(p, m, t).importance = "base"
    BY <1>5, <1>8, <2>1, <2>2 DEF Row, Importance
  <2> QED  BY <1>5, <1>6, <1>7, <2>2, <2>3 DEF Written, Linked
<1>10. CASE proposal[p].kind # "importance"
  <2>1. Restored(p, m, t) = [memory[m] EXCEPT !.state = "active", !.updated = t]
    BY <1>10 DEF Restored
  <2>2. Restored(p, m, t) \in Row /\ Restored(p, m, t).state = "active"
        /\ Restored(p, m, t).importance = memory[m].importance
    BY <1>5, <1>8, <2>1 DEF Row
  <2> QED  BY <1>5, <1>6, <1>7, <1>10, <2>2 DEF Written, Linked
<1> QED  BY <1>9, <1>10

LEMMA RollbackSound ==
    ASSUME MaintenanceInv, NEW p \in Proposal, NEW r \in Requests(p), NEW a \in Reviewer, Rollback(a, r)
    PROVE  MaintenanceInv'
<1> DEFINE C == proposal[p].candidates
           links == [m \in C |-> Len(revisions[m]) + 1]
<1>1. Tables /\ Sound(p)  BY DEF MaintenanceInv
<1>2. r.proposal = p /\ r.op \in OpsFrom(r.expected) /\ r.expected \in Lifecycle
  BY <1>1, RequestFacts
<1>3. PICK t \in NotBefore(C) : Write(a, r, [m \in C |-> Restored(p, m, t)])
  BY <1>2 DEF Rollback
<1>4. RollbackHolds(r) /\ Matches(r) /\ r.op = "rollback"  BY DEF Rollback, RollbackHolds
<1>5. t \in Time  BY DEF NotBefore
<1> DEFINE row == [m \in C |-> Restored(p, m, t)]
<1>6. row \in [C -> Row]  BY <1>4, <1>5, RestoredFacts
<1>7. Write(a, r, row)  BY <1>3
<1> HIDE DEF row
<1>8. /\ Recorded' /\ withdrawn' = withdrawn /\ Transition(a, r, links) /\ links \in Links
      /\ memory' \in [Memory -> RowOrNone] /\ revisions' \in [Memory -> Seq(Revision)]
      /\ \A m \in Memory : memory[m] # Purged => Extended(m)
  BY <1>4, <1>6, <1>7, WriteFacts
<1>9. withdrawn' \subseteq Memory  BY <1>1, <1>8 DEF Tables
<1> HIDE DEF links
<1>10. /\ Tables' /\ Path(p)' /\ p \in OnFile /\ Known(p)' /\ proposal'[p].state = Target(r.op)
       /\ \A q \in Proposal \ {p} : Sound(q)'
       /\ AnswersAreTrue' /\ \A c \in claim' : c.by \in Reviewer
       /\ proposal'[p].kind = proposal[p].kind
  BY <1>4, <1>8, <1>9, TransitionSound
<1>11. Sound(p)'
  <2>1. Target(r.op) = "rolled_back"  BY <1>4 DEF Target
  <2>2. proposal[p].kind \in Kind  BY <1>1, <1>10 DEF OnFile, Sound
  <2> QED  BY <1>10, <2>1, <2>2 DEF Sound
<1> QED  BY <1>8, <1>10, <1>11 DEF MaintenanceInv

(* A request sent again is told what it did the first time.                 *)
LEMMA AnswerSound ==
    ASSUME MaintenanceInv, NEW p \in Proposal, NEW r \in Requests(p), NEW a \in Reviewer,
           Unchanged(a, r)
    PROVE  MaintenanceInv'
<1>1. UNCHANGED <<memory, revisions, withdrawn, proposal, history>>
      /\ claim' = {[by |-> a, request |-> r]}
  BY DEF Unchanged, Done
<1>2. /\ r.proposal = p /\ proposal[p].revision = r.revision + 1
      /\ history[p][r.revision + 1] = Entry(a, r) /\ r.revision \in 1..Len(history[p])
  BY RequestFacts DEF Unchanged, IsExactRetry, MaintenanceInv
<1>3. r.revision < Len(history[p])
  BY <1>2 DEF MaintenanceInv, Sound, Path, Tables
<1>4. AnswersAreTrue' /\ \A c \in claim' : c.by \in Reviewer
  BY <1>1, <1>2, <1>3 DEF AnswersAreTrue, Entry
<1>5. withdrawn' \subseteq Memory  BY <1>1 DEF MaintenanceInv, Tables
<1> QED  BY <1>1, <1>4, <1>5, IdleSound

-----------------------------------------------------------------------------
(* The specification                                                       *)

LEMMA MaintenanceStep == MaintenanceInv /\ [MaintenanceNext]_maintenanceVars => MaintenanceInv'
<1> SUFFICES ASSUME MaintenanceInv, [MaintenanceNext]_maintenanceVars PROVE MaintenanceInv'  OBVIOUS
<1>1. CASE UNCHANGED maintenanceVars
  <2>1. UNCHANGED <<memory, revisions, proposal, history, withdrawn, claim>>
    BY <1>1 DEF maintenanceVars
  <2> QED  BY <2>1, IdleSound DEF MaintenanceInv, AnswersAreTrue, Tables, Entry
<1>2. CASE RefuseRequest
  <2>1. UNCHANGED <<memory, revisions, proposal, history, withdrawn>> /\ claim' = {}
    BY <1>2 DEF RefuseRequest, NoClaim
  <2> QED  BY <2>1, IdleSound DEF MaintenanceInv, AnswersAreTrue, Tables
<1>3. CASE \E m \in Memory : OwnerChange(m) \/ Withdraw(m) \/ Reinstate(m) \/ Retention(m)
  BY <1>3, OwnerChangeSound, EvidenceSound, RetentionSound
<1>4. CASE \E p \in Proposal : Scan(p) \/ Propose(p) \/ ProposeImportance(p)
  BY <1>4, ScanSound, ProposeSound
<1>5. ASSUME NEW p \in Proposal, NEW r \in Requests(p), NEW a \in Reviewer,
             Review(a, r) \/ Apply(a, r) \/ Rollback(a, r) \/ Unchanged(a, r)
      PROVE  MaintenanceInv'
  BY <1>5, ReviewSound, ApplySound, RollbackSound, AnswerSound
<1> QED  BY <1>1, <1>2, <1>3, <1>4, <1>5 DEF MaintenanceNext

LEMMA MaintenanceAlways == MaintenanceSpec => []MaintenanceInv
  BY InitSound, MaintenanceStep, PTL DEF MaintenanceSpec

(* What is on file about a proposal is true: its history is one path of the *)
(* lifecycle that ends in its state, whoever was told a decision is its     *)
(* author, and the memories it is about are kept.                           *)
THEOREM HistoryAlwaysTrue == MaintenanceSpec => []HistoryIsTrue
<1>1. MaintenanceInv => HistoryIsTrue
  <2> SUFFICES ASSUME MaintenanceInv PROVE HistoryIsTrue  OBVIOUS
  <2> USE DEF MaintenanceInv
  <2>1. MaintenanceTypeOK
    <3>1. ASSUME NEW m \in Memory, NEW i \in 1..Len(revisions[m])
          PROVE  /\ revisions[m][i].by \in Proposal \cup {"owner"}
                 /\ revisions[m][i].previous \in Row \cup {Purged}
                 /\ revisions[m][i].new \in Row
      <4>1. revisions[m] \in Seq(Revision)  BY DEF Tables
      <4>2. revisions[m][i] \in Revision  BY <4>1
      <4> QED  BY <4>2 DEF Revision, RowOrNone
    <3>2. \A p \in Proposal : proposal[p] \in ProposalRow  BY DEF Tables
    <3>3. memory \in [Memory -> Row \cup {Purged}] /\ withdrawn \subseteq Memory
      BY DEF Tables, RowOrNone
    <3> QED  BY <3>1, <3>2, <3>3 DEF MaintenanceTypeOK, ProposalRow
  <2>2. HistoryIsOnePath
    <3>1. ASSUME NEW p \in OnFile
          PROVE  Len(history[p]) \in Nat \ {0} /\ Path(p)
      <4>1. p \in Proposal /\ proposal[p].state \in Lifecycle  BY DEF OnFile, Tables, ProposalRow
      <4>2. Path(p)  BY <4>1 DEF Sound
      <4>3. proposal[p].revision \in Nat \ {0}  BY <4>1, <4>2 DEF Path, Steps, Lifecycle
      <4> QED  BY <4>2, <4>3 DEF Path
    <3> QED  BY <3>1 DEF HistoryIsOnePath, Path
  <2>3. CandidatesAreKept
    BY DEF CandidatesAreKept, Sound, Known, OnFile, Recorded, Tables, ProposalRow
  <2> QED  BY <2>1, <2>2, <2>3 DEF HistoryIsTrue
<1> QED  BY <1>1, MaintenanceAlways, PTL

(* While nobody has touched the candidates of an applied proposal, they are *)
(* as it was decided.                                                       *)
THEOREM AppliedAlwaysInForce == MaintenanceSpec => []AppliedIsInForce
<1>1. MaintenanceInv => AppliedIsInForce
  <2> SUFFICES ASSUME MaintenanceInv, NEW p \in Proposal, proposal[p].state = "applied",
                      \A m \in proposal[p].candidates : proposal[p].links[m] = Len(revisions[m]),
                      NEW m \in proposal[p].candidates
               PROVE  CASE proposal[p].kind = "importance" ->
                             memory[m].state = "active" /\ memory[m].importance = "raised"
                        [] proposal[p].kind = "decay" -> memory[m].state = "disabled"
                        [] proposal[p].kind = "consolidation" ->
                             (memory[m].state = "active") <=> (m = proposal[p].keep)
                        [] proposal[p].kind = "conflict" ->
                             (memory[m].state = "active")
                               <=> (m = history[p][proposal[p].revision].keep)
    BY DEF AppliedIsInForce
  <2> USE DEF MaintenanceInv
  <2>1. p \in OnFile /\ Effective(p) /\ proposal[p].kind \in Kind  BY DEF OnFile, Sound
  <2>2. m \in Memory /\ memory[m] # Purged
    BY <2>1 DEF Sound, Known, Tables, ProposalRow
  <2>3. memory[m] = Linked(p, m).new  BY <2>2 DEF Recorded, Linked
  <2>4. Written(p, m, Linked(p, m))  BY <2>1 DEF Effective
  <2> QED  BY <2>1, <2>3, <2>4 DEF Written, Kind
<1> QED  BY <1>1, MaintenanceAlways, PTL

(* A step that decides about a proposal, or that writes a memory without    *)
(* its owner or the operator, is a reviewer's.                              *)
LEMMA DecisionStep ==
    ASSUME MaintenanceInv, MaintenanceNext, NEW p \in Proposal,
           proposal[p].state = "applied", proposal'[p] # proposal[p]
    PROVE  \E q \in Proposal : \E r \in Requests(q) : \E a \in Reviewer :
             Review(a, r) \/ Apply(a, r) \/ Rollback(a, r)
<1>1. ASSUME NEW q \in Proposal, Scan(q) \/ Propose(q) \/ ProposeImportance(q)
      PROVE  FALSE
  <2>1. /\ \E new : proposal' = [proposal EXCEPT ![q] = new]
        /\ proposal[q].state \in {"none", "scanned"}
    BY <1>1, Zenon DEF Scan, Propose, ProposeImportance, File
  <2>2. p # q  BY <2>1
  <2>3. PICK new : proposal' = [proposal EXCEPT ![q] = new]  BY <2>1
  <2>4. proposal'[p] = proposal[p]  BY <2>2, <2>3 DEF MaintenanceInv, Tables
  <2> QED  BY <2>4
<1>2. proposal' # proposal  OBVIOUS
<1>3. ~\E m \in Memory : OwnerChange(m) \/ Withdraw(m) \/ Reinstate(m) \/ Retention(m)
  BY <1>2, Zenon DEF OwnerChange, Withdraw, Reinstate, Retention
<1>4. ~RefuseRequest  BY <1>2 DEF RefuseRequest
<1>5. ~\E q \in Proposal : \E r \in Requests(q), a \in Reviewer : Unchanged(a, r)
  BY <1>2 DEF Unchanged
<1> QED  BY <1>1, <1>3, <1>4, <1>5, Zenon DEF MaintenanceNext

LEMMA WritingStep ==
    ASSUME MaintenanceNext, NEW m \in Memory, memory'[m] # memory[m],
           \A n \in Memory : ~OwnerChange(n) /\ ~Retention(n)
    PROVE  \E q \in Proposal : \E r \in Requests(q) : \E a \in Reviewer :
             Apply(a, r) \/ Rollback(a, r)
<1>1. memory' # memory  OBVIOUS
<1>2. ~\E n \in Memory : Withdraw(n) \/ Reinstate(n)  BY <1>1 DEF Withdraw, Reinstate
<1>3. ~\E q \in Proposal : Scan(q) \/ Propose(q) \/ ProposeImportance(q)
  BY <1>1, Zenon DEF Scan, Propose, ProposeImportance, File
<1>4. ~RefuseRequest  BY <1>1 DEF RefuseRequest
<1>5. ~\E q \in Proposal : \E r \in Requests(q), a \in Reviewer : Unchanged(a, r) \/ Review(a, r)
  BY <1>1 DEF Unchanged, Review
<1> QED  BY <1>2, <1>3, <1>4, <1>5, Zenon DEF MaintenanceNext

(* What a rollback writes.                                                  *)
LEMMA RollbackEffect ==
    ASSUME MaintenanceInv, NEW p \in Proposal, NEW r \in Requests(p), NEW a \in Reviewer,
           Rollback(a, r)
    PROVE  /\ \A m \in Memory \ proposal[p].candidates : memory'[m] = memory[m]
           /\ \A m \in proposal[p].candidates :
                /\ proposal[p].links[m] = Len(revisions[m])
                /\ Len(revisions'[m]) = Len(revisions[m]) + 1
                /\ memory'[m].state = proposal[p].snapshot[m].state
                /\ memory'[m].importance = proposal[p].snapshot[m].importance
                /\ memory[m].importance = "base" => memory'[m].importance = "base"
                /\ revisions[m][Len(revisions[m])].by = p
                /\ revisions'[m][Len(revisions'[m])].by = p
<1> DEFINE C == proposal[p].candidates
<1>1. r.proposal = p  BY RequestFacts DEF MaintenanceInv
<1>2. PICK t \in NotBefore(C) : Write(a, r, [m \in C |-> Restored(p, m, t)])
  BY <1>1 DEF Rollback
<1>3. RollbackHolds(r) /\ Matches(r) /\ t \in Time  BY DEF Rollback, RollbackHolds, NotBefore
<1> DEFINE row == [m \in C |-> Restored(p, m, t)]
<1>4. row \in [C -> Row]  BY <1>3, RestoredFacts
<1>5. Write(a, r, row) /\ \A m \in C : row[m] = Restored(p, m, t)  BY <1>2
<1> HIDE DEF row
<1>6. /\ \A m \in Memory \ C : memory'[m] = memory[m]
      /\ \A m \in C : /\ memory'[m] = row[m]
                      /\ Len(revisions'[m]) = Len(revisions[m]) + 1
                      /\ revisions'[m][Len(revisions[m]) + 1].by = p
  <2> HIDE DEF C
  <2>1. row \in [proposal[p].candidates -> Row]  BY <1>4 DEF C
  <2>2. \A m \in Memory \ proposal[p].candidates : memory'[m] = memory[m]
    BY <1>3, <1>5, <2>1, WriteFacts, Zenon
  <2>3. ASSUME NEW m \in proposal[p].candidates
        PROVE  /\ memory'[m] = row[m]
               /\ Len(revisions'[m]) = Len(revisions[m]) + 1
               /\ revisions'[m][Len(revisions[m]) + 1].by = p
    <3>1. memory'[m] = row[m]
      <4>1. m \in Memory  BY <1>3, <1>5, <2>1, WriteFacts, Zenon
      <4> QED  BY <1>1, <1>5, <4>1 DEF Write
    <3>2. Len(revisions'[m]) = Len(revisions[m]) + 1
      BY <1>3, <1>5, <2>1, WriteFacts, Zenon
    <3>3. revisions'[m][Len(revisions[m]) + 1].by = p
      BY <1>3, <1>5, <2>1, WriteFacts, Zenon
    <3> QED  BY <3>1, <3>2, <3>3
  <2> QED  BY <2>2, <2>3 DEF C
<1> QED  BY <1>3, <1>5, <1>6, RestoredFacts

(* What an application writes.                                              *)
LEMMA ApplyEffect ==
    ASSUME MaintenanceInv, NEW p \in Proposal, NEW r \in Requests(p), NEW a \in Reviewer,
           Apply(a, r)
    PROVE  /\ \A m \in Memory \ proposal[p].candidates : memory'[m] = memory[m]
           /\ \A m \in proposal[p].candidates :
                /\ memory[m].state = "active"
                /\ m \in withdrawn => memory'[m].importance = memory[m].importance
<1> DEFINE C == proposal[p].candidates
<1>1. r.proposal = p  BY RequestFacts DEF MaintenanceInv
<1>2. PICK t \in NotBefore(C) : Write(a, r, [m \in C |-> Effect(r, m, t)])
  BY <1>1 DEF Apply
<1>3. ApplyHolds(r) /\ AllActive(r) /\ Matches(r) /\ t \in Time
  BY DEF Apply, ApplyHolds, NotBefore
<1> DEFINE row == [m \in C |-> Effect(r, m, t)]
<1>4. row \in [C -> Row]  BY <1>3, EffectFacts
<1>5. Write(a, r, row) /\ \A m \in C : row[m] = Effect(r, m, t)  BY <1>2
<1> HIDE DEF row
<1>6. /\ \A m \in Memory \ C : memory'[m] = memory[m]
      /\ \A m \in C : memory'[m] = row[m]
  <2> HIDE DEF C
  <2>1. row \in [proposal[p].candidates -> Row]  BY <1>4 DEF C
  <2>2. \A m \in Memory \ proposal[p].candidates : memory'[m] = memory[m]
    BY <1>3, <1>5, <2>1, WriteFacts, Zenon
  <2>3. ASSUME NEW m \in proposal[p].candidates
        PROVE  /\ memory'[m] = row[m]
               /\ Len(revisions'[m]) = Len(revisions[m]) + 1
               /\ revisions'[m][Len(revisions[m]) + 1].by = p
    <3>1. memory'[m] = row[m]
      <4>1. m \in Memory  BY <1>3, <1>5, <2>1, WriteFacts, Zenon
      <4> QED  BY <1>1, <1>5, <4>1 DEF Write
    <3>2. Len(revisions'[m]) = Len(revisions[m]) + 1
      BY <1>3, <1>5, <2>1, WriteFacts, Zenon
    <3>3. revisions'[m][Len(revisions[m]) + 1].by = p
      BY <1>3, <1>5, <2>1, WriteFacts, Zenon
    <3> QED  BY <3>1, <3>2, <3>3
  <2> QED  BY <2>2, <2>3 DEF C
<1> QED  BY <1>3, <1>5, <1>6, EffectFacts

(* A rollback undoes its own application.                                   *)
LEMMA UndoStep ==
    ASSUME MaintenanceInv, MaintenanceNext, NEW p \in Proposal,
           proposal[p].state = "applied", proposal'[p].state = "rolled_back"
    PROVE  \A m \in proposal[p].candidates :
             /\ Len(revisions'[m]) = proposal[p].links[m] + 1
             /\ memory'[m].state = proposal[p].snapshot[m].state
             /\ memory'[m].importance = proposal[p].snapshot[m].importance
<1>1. Tables  BY DEF MaintenanceInv
<1>2. PICK q \in Proposal : \E r \in Requests(q) : \E a \in Reviewer :
        Review(a, r) \/ Apply(a, r) \/ Rollback(a, r)
  BY DecisionStep
<1>3. PICK r \in Requests(q), a \in Reviewer : Review(a, r) \/ Apply(a, r) \/ Rollback(a, r)
  BY <1>2
<1>4. r.proposal = q  BY <1>1, RequestFacts
<1>5. \E links : Transition(a, r, links)
  BY <1>3, Zenon DEF Review, Apply, Rollback, Write
<1>6. q = p /\ Target(r.op) = "rolled_back"
  BY <1>1, <1>4, <1>5 DEF Transition, Tables, ProposalRow
<1>7. Rollback(a, r)
  BY <1>3, <1>6 DEF Target, Review, ReviewHolds, ReviewOp, Apply, ApplyHolds
<1> QED  BY <1>6, <1>7, RollbackEffect

(* Who makes a memory active again is its owner, or who made it inactive.   *)
LEMMA RevivalStep ==
    ASSUME MaintenanceInv, MaintenanceNext, NEW m \in Memory,
           memory[m].state # "active", memory'[m].state = "active"
    PROVE  revisions'[m][Len(revisions'[m])].by \in {"owner", revisions[m][Len(revisions[m])].by}
<1>1. CASE \E n \in Memory : OwnerChange(n)
  <2>1. PICK n \in Memory : OwnerChange(n)  BY <1>1
  <2>2. PICK row : /\ memory' = [memory EXCEPT ![n] = row]
                   /\ revisions' = [revisions EXCEPT ![n] = Revised(n, "owner", row)]
    BY <2>1, Zenon DEF OwnerChange
  <2>3. n = m  BY <2>2 DEF MaintenanceInv, Tables
  <2>4. revisions'[m] = Append(revisions[m], [by |-> "owner", previous |-> memory[m], new |-> row])
    BY <2>2, <2>3 DEF Revised, MaintenanceInv, Tables
  <2>5. revisions'[m][Len(revisions'[m])].by = "owner"
    <3> DEFINE e == [by |-> "owner", previous |-> memory[m], new |-> row]
    <3>1. revisions'[m] = Append(revisions[m], e) /\ e.by = "owner"  BY <2>4
    <3> HIDE DEF e
    <3>2. revisions[m] \in Seq(Revision)  BY DEF MaintenanceInv, Tables
    <3> QED  BY <3>1, <3>2
  <2> QED  BY <2>5
<1>2. CASE \E n \in Memory : Retention(n)
  BY <1>2 DEF Retention, Purged, MaintenanceInv, Tables
<1>3. CASE \A n \in Memory : ~OwnerChange(n) /\ ~Retention(n)
  <2>1. PICK q \in Proposal : \E r \in Requests(q) : \E a \in Reviewer : Apply(a, r) \/ Rollback(a, r)
    BY <1>3, WritingStep
  <2>2. PICK r \in Requests(q), a \in Reviewer : Apply(a, r) \/ Rollback(a, r)  BY <2>1
  <2>3. CASE Apply(a, r)  BY <2>3, ApplyEffect
  <2>4. CASE Rollback(a, r)  BY <2>4, RollbackEffect
  <2> QED  BY <2>2, <2>3, <2>4
<1> QED  BY <1>1, <1>2, <1>3

(* While a statement is taken back, nothing raises the importance of its    *)
(* memory.                                                                  *)
LEMMA WithdrawnStep ==
    ASSUME MaintenanceInv, MaintenanceNext, NEW m \in withdrawn, memory[m].importance = "base"
    PROVE  memory'[m].importance = "base"
<1>0. m \in Memory /\ memory[m] \in RowOrNone  BY DEF MaintenanceInv, Tables
<1>1. CASE \E n \in Memory : OwnerChange(n)
  <2>1. PICK n \in Memory : OwnerChange(n)  BY <1>1
  <2>2. PICK s \in Allowed(memory[n].state), t \in Time :
          memory' = [memory EXCEPT ![n] = [memory[n] EXCEPT !.state = s, !.updated = t]]
    BY <2>1, Zenon DEF OwnerChange
  <2> DEFINE row == [memory[n] EXCEPT !.state = s, !.updated = t]
  <2>3. memory[n] \in RowOrNone  BY DEF MaintenanceInv, Tables
  <2>4. row.importance = memory[n].importance  BY <2>3 DEF RowOrNone, Row, Purged
  <2>5. memory' = [memory EXCEPT ![n] = row]  BY <2>2
  <2> HIDE DEF row
  <2> QED  BY <1>0, <2>4, <2>5 DEF MaintenanceInv, Tables
<1>2. CASE \E n \in Memory : Retention(n)
  BY <1>0, <1>2 DEF Retention, Purged, MaintenanceInv, Tables
<1>3. CASE memory'[m] # memory[m] /\ \A n \in Memory : ~OwnerChange(n) /\ ~Retention(n)
  <2>1. PICK q \in Proposal : \E r \in Requests(q) : \E a \in Reviewer : Apply(a, r) \/ Rollback(a, r)
    BY <1>0, <1>3, WritingStep
  <2>2. PICK r \in Requests(q), a \in Reviewer : Apply(a, r) \/ Rollback(a, r)  BY <2>1
  <2>3. CASE Apply(a, r)  BY <1>0, <2>3, ApplyEffect
  <2>4. CASE Rollback(a, r)  BY <1>0, <2>4, RollbackEffect
  <2> QED  BY <2>2, <2>3, <2>4
<1> QED  BY <1>1, <1>2, <1>3

(* The review of proposals never overrules the owner of a memory: a rollback*)
(* undoes only its own application, nothing revives or raises against the   *)
(* owner.                                                                   *)
THEOREM ReviewsAlwaysRespectTheOwner == MaintenanceSpec => ReviewsRespectTheOwner
<1>1. MaintenanceInv /\ [MaintenanceNext]_maintenanceVars =>
        [\A p \in Proposal :
           proposal[p].state = "applied" /\ proposal'[p].state = "rolled_back" =>
             \A m \in proposal[p].candidates :
               /\ Len(revisions'[m]) = proposal[p].links[m] + 1
               /\ memory'[m].state = proposal[p].snapshot[m].state
               /\ memory'[m].importance = proposal[p].snapshot[m].importance]_maintenanceVars
  BY UndoStep
<1>2. MaintenanceInv /\ [MaintenanceNext]_maintenanceVars =>
        [\A m \in Memory :
           memory[m].state # "active" /\ memory'[m].state = "active" =>
             revisions'[m][Len(revisions'[m])].by \in
               {"owner", revisions[m][Len(revisions[m])].by}]_maintenanceVars
  BY RevivalStep
<1>3. MaintenanceInv /\ [MaintenanceNext]_maintenanceVars =>
        [\A m \in withdrawn :
           memory[m].importance = "base" => memory'[m].importance = "base"]_maintenanceVars
  BY WithdrawnStep
<1> QED
  BY <1>1, <1>2, <1>3, MaintenanceAlways, PTL
  DEF MaintenanceSpec, ReviewsRespectTheOwner, RollbackUndoesItsApply, OwnersDecisionStands,
      WithdrawalStops
=============================================================================
