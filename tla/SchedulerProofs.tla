--------------------------- MODULE SchedulerProofs ---------------------------
(***************************************************************************)
(* What the two schedulers of the process promise: module JobQueue for any *)
(* jobs, workers, filters, leases, delays and limits, and module           *)
(* TurnAdmission for any conversations, items of work, deadlines and       *)
(* limits.  They share nothing.                                            *)
(***************************************************************************)
EXTENDS JobQueue, TurnAdmission, SequenceTheorems, FiniteSetTheorems, TLAPS

-----------------------------------------------------------------------------
(* Types *)

InFlight == {"claimed", "handling", "failing", "reporting"}

\* A worker past its claim remembers a real attempt of a real job.
RefersToAttempt ==
  \A w \in Worker : workers[w].pc \in InFlight =>
    workers[w].job \in Job /\ workers[w].attempt \in AttemptNumber

TypeInv == TypeOK /\ RefersToAttempt

LEMMA TypeInit == Init => TypeInv
<1> SUFFICES ASSUME Init PROVE TypeInv
  OBVIOUS
<1>1. NoJob \in JobRow
  BY JobQueueAssumption DEF NoJob, JobRow, JobStatus
<1>2. NoAttempt \in AttemptRow
  BY DEF NoAttempt, AttemptRow, AttemptStatus
<1>3. IdleWorker \in WorkerMemory /\ IdleWorker.pc = "idle"
  BY JobQueueAssumption DEF IdleWorker, WorkerMemory
<1> QED
  BY JobQueueAssumption, <1>1, <1>2, <1>3
  DEF Init, TypeInv, TypeOK, RefersToAttempt, InFlight, HeartbeatStatus

\* Releasing a job sets its status and clears its lease.
LEMMA ReleasedRow ==
  ASSUME NEW job \in JobRow, NEW code \in JobStatus
  PROVE  /\ Released(job, code) \in JobRow
         /\ Released(job, code).status = code
         /\ Released(job, code).attempts = job.attempts
         /\ Released(job, code).leaseOwner = None
<1> DEFINE a == [job EXCEPT !.status = code]
           b == [a EXCEPT !.leaseOwner = None]
           c == [b EXCEPT !.leaseLeft = 0]
<1>1. a \in JobRow /\ a.status = code /\ a.attempts = job.attempts
  BY DEF JobRow
<1> HIDE DEF a
<1>2. /\ b \in JobRow /\ b.status = a.status
      /\ b.attempts = a.attempts /\ b.leaseOwner = None
  BY <1>1 DEF JobRow
<1> HIDE DEF b
<1>3. /\ c \in JobRow /\ c.status = b.status
      /\ c.attempts = b.attempts /\ c.leaseOwner = b.leaseOwner
  BY <1>2, JobQueueAssumption DEF JobRow
<1> HIDE DEF c
<1>4. Released(job, code) = c
  BY DEF Released, a, b, c
<1> QED BY <1>1, <1>2, <1>3, <1>4

\* The row a claim writes.
LEMMA ClaimedRow ==
  ASSUME NEW job \in JobRow, NEW n \in 0..MaxAttempts, NEW w \in Worker
  PROVE  /\ Claimed(job, n, w) \in JobRow
         /\ Claimed(job, n, w).status = "running"
         /\ Claimed(job, n, w).attempts = n
         /\ Claimed(job, n, w).leaseOwner = w
<1> DEFINE a == [job EXCEPT !.status = "running"]
           b == [a EXCEPT !.attempts = n]
           c == [b EXCEPT !.leaseOwner = w]
           d == [c EXCEPT !.leaseLeft = Lease]
<1>1. a \in JobRow /\ a.status = "running"
  BY DEF JobRow, JobStatus
<1> HIDE DEF a
<1>2. b \in JobRow /\ b.status = a.status /\ b.attempts = n
  BY <1>1 DEF JobRow
<1> HIDE DEF b
<1>3. /\ c \in JobRow /\ c.status = b.status
      /\ c.attempts = b.attempts /\ c.leaseOwner = w
  BY <1>2 DEF JobRow
<1> HIDE DEF c
<1>4. /\ d \in JobRow /\ d.status = c.status
      /\ d.attempts = c.attempts /\ d.leaseOwner = c.leaseOwner
  BY <1>3, JobQueueAssumption DEF JobRow
<1> HIDE DEF d
<1>5. Claimed(job, n, w) = d
  BY DEF Claimed, a, b, c, d
<1> QED BY <1>1, <1>2, <1>3, <1>4, <1>5

\* Rescheduling and the passage of time leave the other columns alone.
LEMMA DueRow ==
  ASSUME NEW job \in JobRow, NEW delay \in Int
  PROVE  /\ Due(job, delay) \in JobRow
         /\ Due(job, delay).status = job.status
         /\ Due(job, delay).attempts = job.attempts
         /\ Due(job, delay).leaseOwner = job.leaseOwner
  BY DEF Due, JobRow

LEMMA ExtendedRow ==
  ASSUME NEW job \in JobRow
  PROVE  /\ [job EXCEPT !.leaseLeft = Lease] \in JobRow
         /\ [job EXCEPT !.leaseLeft = Lease].status = job.status
         /\ [job EXCEPT !.leaseLeft = Lease].attempts = job.attempts
         /\ [job EXCEPT !.leaseLeft = Lease].leaseOwner = job.leaseOwner
  BY JobQueueAssumption DEF JobRow

LEMMA AgedRow ==
  ASSUME NEW job \in JobRow
  PROVE  /\ Aged(job) \in JobRow
         /\ Aged(job).status = job.status
         /\ Aged(job).attempts = job.attempts
         /\ Aged(job).leaseOwner = job.leaseOwner
<1> DEFINE left == IF job.leaseLeft > 0 THEN job.leaseLeft - 1 ELSE 0
           due == IF job.status \in {"pending", "running"} /\ job.dueIn > -MaxAge
                  THEN job.dueIn - 1 ELSE job.dueIn
<1>1. left \in 0..Lease /\ due \in Int
  BY JobQueueAssumption DEF JobRow
<1>2. Aged(job) = [job EXCEPT !.leaseLeft = left, !.dueIn = due]
  BY DEF Aged, JobRow
<1> HIDE DEF left, due
<1> QED BY <1>1, <1>2 DEF JobRow

\* The row fail() writes: pending again or failed, lease cleared.
LEMMA FailedJobRow ==
  ASSUME TypeOK, NEW j \in Job, NEW terminal \in BOOLEAN
  PROVE  /\ FailedJob(j, terminal) \in JobRow
         /\ FailedJob(j, terminal).attempts = jobs[j].attempts
         /\ FailedJob(j, terminal).leaseOwner = None
         /\ \/ FailedJob(j, terminal).status = "failed"
            \/ /\ FailedJob(j, terminal).status = "pending"
               /\ jobs[j].attempts < MaxAttempts
<1>1. jobs[j] \in JobRow
  BY DEF TypeOK
<1>2. \A s \in {"pending", "failed"} :
        /\ Released(jobs[j], s) \in JobRow
        /\ Released(jobs[j], s).status = s
        /\ Released(jobs[j], s).attempts = jobs[j].attempts
        /\ Released(jobs[j], s).leaseOwner = None
  BY <1>1, ReleasedRow DEF JobStatus
<1>3. RetryDelay \in Int /\ 0 \in Int
  BY JobQueueAssumption
<1> QED BY <1>2, <1>3, DueRow DEF FailedJob

\* A step of a worker's program keeps the attempt it works on.
LEMMA GoesMemory ==
  ASSUME TypeOK, NEW w \in Worker,
         NEW at \in {"idle", "polling", "claimed", "handling", "failing", "reporting"},
         NEW result \in {"none", "retryable", "terminal", "completed", "failed"}
  PROVE  /\ Goes(w, at, result) \in [Worker -> WorkerMemory]
         /\ Goes(w, at, result)[w].pc = at
         /\ Goes(w, at, result)[w].result = result
         /\ Goes(w, at, result)[w].job = workers[w].job
         /\ Goes(w, at, result)[w].attempt = workers[w].attempt
         /\ \A v \in Worker \ {w} : Goes(w, at, result)[v] = workers[v]
<1> DEFINE m == [pc |-> at, job |-> workers[w].job, attempt |-> workers[w].attempt,
                 timer |-> (at = "handling"), result |-> result]
<1>1. m \in WorkerMemory
  BY DEF TypeOK, WorkerMemory
<1>2. Goes(w, at, result) = [workers EXCEPT ![w] = m]
  BY DEF Goes, TypeOK, WorkerMemory
<1> QED BY <1>1, <1>2 DEF TypeOK

LEMMA FailRunningType ==
  ASSUME NEW rows \in [AttemptNumber -> AttemptRow]
  PROVE  FailRunning(rows) \in [AttemptNumber -> AttemptRow]
<1>1. ASSUME NEW row \in AttemptRow
      PROVE  [row EXCEPT !.status = "failed"] \in AttemptRow
  BY DEF AttemptRow, AttemptStatus
<1> QED BY <1>1 DEF FailRunning

\* The rows a poll writes before it claims are well typed.
LEMMA ExpiryType ==
  ASSUME TypeOK, NEW w \in Worker
  PROVE  /\ JobsAfterExpiry(w) \in [Job -> JobRow]
         /\ AttemptsAfterExpiry(w) \in [Job -> [AttemptNumber -> AttemptRow]]
<1>1. "failed" \in JobStatus BY DEF JobStatus
<1> QED
  BY <1>1, ReleasedRow, FailRunningType
  DEF TypeOK, JobsAfterExpiry, AttemptsAfterExpiry

LEMMA ClaimNextType ==
  ASSUME TypeInv, NEW w \in Worker, ClaimNext(w)
  PROVE  TypeInv'
<1>0. IdleWorker \in WorkerMemory /\ IdleWorker.pc = "idle"
  BY JobQueueAssumption DEF IdleWorker, WorkerMemory
<1>1. CASE ClaimNothing(w)
  BY <1>0, <1>1, ExpiryType
  DEF TypeInv, TypeOK, RefersToAttempt, InFlight, ClaimNext, ClaimNothing
<1>2. ASSUME NEW j \in Earliest(Claimable(w)), ClaimJob(w, j)
      PROVE  TypeInv'
  <2> DEFINE n == jobs[j].attempts + 1
             rows == IF jobs[j].status = "running"
                     THEN FailRunning(attempts[j]) ELSE attempts[j]
  <2>1. j \in Job /\ n \in AttemptNumber
    BY JobQueueAssumption
    DEF Earliest, Claimable, TypeInv, TypeOK, JobRow, AttemptNumber
  <2>2. rows \in [AttemptNumber -> AttemptRow]
    BY <2>1, FailRunningType DEF TypeInv, TypeOK
  <2>3. [worker |-> w, status |-> "running"] \in AttemptRow
    BY DEF AttemptRow, AttemptStatus
  <2>4. attempts' \in [Job -> [AttemptNumber -> AttemptRow]]
    <3>1. attempts' = [AttemptsAfterExpiry(w) EXCEPT
                         ![j] = [rows EXCEPT ![n] = [worker |-> w, status |-> "running"]]]
      BY <1>2 DEF ClaimJob
    <3> HIDE DEF n, rows
    <3> QED BY <2>1, <2>2, <2>3, <3>1, ExpiryType DEF TypeInv
  <2>5. jobs' \in [Job -> JobRow]
    <3>1. JobsAfterExpiry(w) \in [Job -> JobRow]
      BY ExpiryType DEF TypeInv
    <3> DEFINE row == Claimed(JobsAfterExpiry(w)[j], n, w)
    <3>2. row \in JobRow
      BY <2>1, <3>1, ClaimedRow, JobQueueAssumption DEF AttemptNumber
    <3>3. jobs' = [JobsAfterExpiry(w) EXCEPT ![j] = row]
      BY <1>2 DEF ClaimJob
    <3> HIDE DEF row
    <3> QED BY <2>1, <3>1, <3>2, <3>3
  <2>6. /\ ClaimedWorker(j, n) \in WorkerMemory
        /\ ClaimedWorker(j, n).job = j /\ ClaimedWorker(j, n).attempt = n
    BY <2>1, JobQueueAssumption DEF ClaimedWorker, WorkerMemory, AttemptNumber
  <2>7. workers' = [workers EXCEPT ![w] = ClaimedWorker(j, n)]
    BY <1>2 DEF ClaimJob
  <2> QED
    BY <2>1, <2>4, <2>5, <2>6, <2>7
    DEF TypeInv, TypeOK, RefersToAttempt, ClaimNext
<1> QED BY <1>1, <1>2 DEF ClaimNext

LEMMA GoesType ==
  ASSUME TypeInv, NEW w \in Worker,
         NEW at \in {"idle", "polling", "claimed", "handling", "failing", "reporting"},
         NEW result \in {"none", "retryable", "terminal", "completed", "failed"},
         workers' = Goes(w, at, result),
         at \in InFlight => workers[w].pc \in InFlight
  PROVE  workers' \in [Worker -> WorkerMemory] /\ RefersToAttempt'
<1>0. /\ workers' \in [Worker -> WorkerMemory]
      /\ workers'[w].pc = at
      /\ workers'[w].job = workers[w].job
      /\ workers'[w].attempt = workers[w].attempt
      /\ \A v \in Worker \ {w} : workers'[v] = workers[v]
  BY GoesMemory DEF TypeInv
<1>1. ASSUME NEW v \in Worker, workers'[v].pc \in InFlight
      PROVE  workers'[v].job \in Job /\ workers'[v].attempt \in AttemptNumber
  BY <1>0, <1>1 DEF TypeInv, RefersToAttempt
<1> QED BY <1>0, <1>1 DEF RefersToAttempt

\* Settling an attempt writes one well-typed row in each table.
LEMMA SettleType ==
  ASSUME TypeOK, NEW j \in Job, NEW n \in AttemptNumber,
         NEW s \in AttemptStatus, NEW job \in JobRow, Settle(j, n, s, job)
  PROVE  /\ jobs' \in [Job -> JobRow]
         /\ attempts' \in [Job -> [AttemptNumber -> AttemptRow]]
<1>1. ASSUME NEW row \in AttemptRow
      PROVE  [row EXCEPT !.status = s] \in AttemptRow
  BY DEF AttemptRow
<1>2. attempts' = [attempts EXCEPT ![j] =
                     [attempts[j] EXCEPT ![n] = [attempts[j][n] EXCEPT !.status = s]]]
  BY DEF Settle
<1> QED BY <1>1, <1>2 DEF TypeOK, Settle

LEMMA TypeStep == TypeInv /\ [Next]_vars => TypeInv'
<1> SUFFICES ASSUME TypeInv, [Next]_vars PROVE TypeInv'
  OBVIOUS
<1>0. IdleWorker \in WorkerMemory /\ IdleWorker.pc = "idle"
  BY JobQueueAssumption DEF IdleWorker, WorkerMemory
<1>a. TypeOK /\ RefersToAttempt
  BY DEF TypeInv
<1>1. ASSUME NEW j \in Job, NEW delay \in Delays, Enqueue(j, delay) PROVE TypeInv'
  <2>1. Due(Released(jobs[j], "pending"), delay) \in JobRow
    BY <1>a, JobQueueAssumption, ReleasedRow, DueRow DEF TypeOK, JobStatus
  <2> QED BY <1>1, <1>a, <2>1 DEF Enqueue, TypeInv, TypeOK, RefersToAttempt
<1>2. CASE Tick
  BY <1>2, <1>a, AgedRow DEF Tick, TypeInv, TypeOK, RefersToAttempt
<1>3. ASSUME NEW w \in Worker, Step(w) PROVE TypeInv'
  <2> USE DEF TypeInv, TypeOK, RefersToAttempt
  <2>1. CASE Poll(w)
    <3>1. workers' \in [Worker -> WorkerMemory] /\ RefersToAttempt'
      BY <2>1, GoesType DEF Poll, InFlight
    <3>2. heartbeats' \in [Worker -> HeartbeatStatus]
      BY <2>1 DEF Poll, IdleHeartbeat, HeartbeatStatus
    <3> QED BY <2>1, <3>1, <3>2 DEF Poll
  <2>2. CASE ClaimNext(w)
    BY <2>2, ClaimNextType
  <2>3. CASE Begin(w)
    <3>1. workers' \in [Worker -> WorkerMemory] /\ RefersToAttempt'
      BY <2>3, GoesType DEF Begin, InFlight
    <3>2. heartbeats' \in [Worker -> HeartbeatStatus]
      BY <2>3 DEF Begin, HeartbeatStatus
    <3> QED BY <2>3, <3>1, <3>2 DEF Begin
  <2>4. CASE ExtendLease(w)
    <3>1. workers[w].job \in Job
      BY <2>4 DEF ExtendLease, InFlight
    <3>2. [jobs[workers[w].job] EXCEPT !.leaseLeft = Lease] \in JobRow
      BY <3>1, ExtendedRow
    <3>3. /\ [workers[w] EXCEPT !.timer = FALSE] \in WorkerMemory
          /\ [workers[w] EXCEPT !.timer = FALSE].pc = workers[w].pc
          /\ [workers[w] EXCEPT !.timer = FALSE].job = workers[w].job
          /\ [workers[w] EXCEPT !.timer = FALSE].attempt = workers[w].attempt
      BY DEF WorkerMemory
    <3> QED BY <2>4, <3>1, <3>2, <3>3 DEF ExtendLease, HeartbeatStatus
  <2>5. CASE FencedWrite(w)
    BY <2>5, JobQueueAssumption DEF FencedWrite, InFlight, AttemptNumber
  <2>6. CASE Complete(w)
    <3>1. workers[w].job \in Job /\ workers[w].attempt \in AttemptNumber
      BY <2>6 DEF Complete, InFlight
    <3>2. CompletedJob(workers[w].job) \in JobRow
      BY <3>1, ReleasedRow DEF CompletedJob, JobStatus
    <3>3. jobs' \in [Job -> JobRow] /\ attempts' \in [Job -> [AttemptNumber -> AttemptRow]]
      BY <2>6, <3>1, <3>2, SettleType DEF Complete, AttemptStatus
    <3>4. workers' \in [Worker -> WorkerMemory] /\ RefersToAttempt'
      BY <2>6, GoesType DEF Complete, InFlight
    <3> QED BY <2>6, <3>3, <3>4 DEF Complete
  <2>7. CASE HandlerThrows(w)
    <3>1. workers' \in [Worker -> WorkerMemory] /\ RefersToAttempt'
      BY <2>7, GoesType DEF HandlerThrows, InFlight
    <3> QED BY <2>7, <3>1 DEF HandlerThrows
  <2>8. CASE Fail(w)
    <3>1. workers[w].job \in Job /\ workers[w].attempt \in AttemptNumber
      BY <2>8 DEF Fail, InFlight
    <3>2. FailedJob(workers[w].job, workers[w].result = "terminal") \in JobRow
      BY <3>1, FailedJobRow
    <3>3. jobs' \in [Job -> JobRow] /\ attempts' \in [Job -> [AttemptNumber -> AttemptRow]]
      BY <2>8, <3>1, <3>2, SettleType DEF Fail, AttemptStatus
    <3>4. workers' \in [Worker -> WorkerMemory] /\ RefersToAttempt'
      BY <2>8, GoesType DEF Fail, InFlight
    <3> QED BY <2>8, <3>3, <3>4 DEF Fail
  <2>9. CASE Report(w)
    BY <2>9, <1>0 DEF Report, HeartbeatStatus, InFlight
  <2>10. CASE Crash(w)
    BY <2>10, <1>0, JobQueueAssumption DEF Crash, InFlight
  <2> QED
    BY <1>3, <2>1, <2>2, <2>3, <2>4, <2>5, <2>6, <2>7, <2>8, <2>9, <2>10 DEF Step
<1>4. CASE UNCHANGED vars
  BY <1>4 DEF vars, TypeInv, TypeOK, RefersToAttempt
<1> QED BY <1>1, <1>2, <1>3, <1>4 DEF Next

\* Type correctness of the tables and of every worker's memory.
THEOREM TypeCorrect == Spec => []TypeOK
<1>1. TypeInv => TypeOK BY DEF TypeInv
<1> QED BY <1>1, TypeInit, TypeStep, PTL DEF Spec

-----------------------------------------------------------------------------
(***************************************************************************)
(* What one transaction may do to the rows of one job.  Every step of the  *)
(* queue moves every job by one of these, and each of them preserves the   *)
(* ledger and is a move of JobContract.                                    *)
(***************************************************************************)

SameHolder(j) == /\ jobs'[j].status = jobs[j].status
                 /\ jobs'[j].attempts = jobs[j].attempts
                 /\ jobs'[j].leaseOwner = jobs[j].leaseOwner

Kept(j) == SameHolder(j) /\ attempts'[j] = attempts[j]

Submitted(j) == /\ jobs[j].status = "absent"
                /\ jobs'[j].status = "pending"
                /\ jobs'[j].attempts = jobs[j].attempts
                /\ jobs'[j].leaseOwner = None
                /\ attempts'[j] = attempts[j]

Started(j) ==
  LET n == jobs[j].attempts + 1 IN
  /\ jobs[j].status \in {"pending", "running"}
  /\ n \in AttemptNumber
  /\ jobs'[j].status = "running"
  /\ jobs'[j].attempts = n
  /\ attempts'[j] = [(IF jobs[j].status = "running"
                      THEN FailRunning(attempts[j]) ELSE attempts[j])
                     EXCEPT ![n] = [worker |-> jobs'[j].leaseOwner,
                                    status |-> "running"]]

Answered(j) ==
  LET n == jobs[j].attempts IN
  /\ jobs[j].status = "running"
  /\ n \in AttemptNumber
  /\ jobs'[j].attempts = n
  /\ jobs'[j].leaseOwner = None
  /\ \/ jobs'[j].status = "completed"
     \/ jobs'[j].status = "pending" /\ n < MaxAttempts
     \/ jobs'[j].status = "failed"
  /\ attempts'[j] = [attempts[j] EXCEPT ![n].status =
                       IF jobs'[j].status = "completed" THEN "completed" ELSE "failed"]

GivenUp(j) == /\ jobs[j].status = "running"
              /\ jobs'[j].status = "failed"
              /\ jobs'[j].attempts = jobs[j].attempts
              /\ jobs'[j].leaseOwner = None
              /\ attempts'[j] = FailRunning(attempts[j])

RowsMove(j) == Kept(j) \/ Submitted(j) \/ Started(j) \/ Answered(j) \/ GivenUp(j)

\* A poll gives up exhausted jobs and leaves the other rows alone.
LEMMA ExpiryMove ==
  ASSUME TypeOK, NEW w \in Worker, NEW j \in Job
  PROVE  \/ /\ j \notin Exhausted(w)
            /\ JobsAfterExpiry(w)[j] = jobs[j]
            /\ AttemptsAfterExpiry(w)[j] = attempts[j]
         \/ /\ jobs[j].status = "running"
            /\ JobsAfterExpiry(w)[j].status = "failed"
            /\ JobsAfterExpiry(w)[j].attempts = jobs[j].attempts
            /\ JobsAfterExpiry(w)[j].leaseOwner = None
            /\ AttemptsAfterExpiry(w)[j] = FailRunning(attempts[j])
<1>1. jobs[j] \in JobRow /\ "failed" \in JobStatus
  BY DEF TypeOK, JobStatus
<1>2. CASE j \in Exhausted(w)
  <2>1. jobs[j].status = "running"
    BY <1>2 DEF Exhausted
  <2>2. JobsAfterExpiry(w)[j] = Released(jobs[j], "failed")
    BY <1>2 DEF JobsAfterExpiry
  <2>3. AttemptsAfterExpiry(w)[j] = FailRunning(attempts[j])
    BY <1>2 DEF AttemptsAfterExpiry
  <2> QED BY <1>1, <2>1, <2>2, <2>3, ReleasedRow
<1>3. CASE j \notin Exhausted(w)
  BY <1>3 DEF JobsAfterExpiry, AttemptsAfterExpiry
<1> QED BY <1>2, <1>3

LEMMA ClaimNextMove ==
  ASSUME TypeInv, NEW w \in Worker, ClaimNext(w), NEW i \in Job
  PROVE  RowsMove(i)
<1>0. TypeOK
  BY DEF TypeInv
<1>1. CASE ClaimNothing(w)
  BY <1>0, <1>1, ExpiryMove DEF ClaimNothing, RowsMove, Kept, SameHolder, GivenUp
<1>2. ASSUME NEW j \in Earliest(Claimable(w)), ClaimJob(w, j)
      PROVE  RowsMove(i)
  <2> DEFINE n == jobs[j].attempts + 1
  <2>1. /\ j \in Job /\ n \in AttemptNumber /\ j \notin Exhausted(w)
        /\ jobs[j].status \in {"pending", "running"}
        /\ jobs[j].attempts < MaxAttempts
    BY <1>0, JobQueueAssumption
    DEF Earliest, Claimable, Exhausted, TypeOK, JobRow, AttemptNumber
  <2>2. /\ JobsAfterExpiry(w) \in [Job -> JobRow]
        /\ AttemptsAfterExpiry(w) \in [Job -> [AttemptNumber -> AttemptRow]]
    BY <1>0, ExpiryType
  <2>3. CASE i = j
    <3>1. /\ jobs'[j] = Claimed(JobsAfterExpiry(w)[j], n, w)
          /\ attempts'[j] = [(IF jobs[j].status = "running"
                              THEN FailRunning(attempts[j]) ELSE attempts[j])
                             EXCEPT ![n] = [worker |-> w, status |-> "running"]]
      BY <1>2, <2>1, <2>2 DEF ClaimJob
    <3>2. /\ jobs'[j].status = "running"
          /\ jobs'[j].attempts = n
          /\ jobs'[j].leaseOwner = w
      BY <2>1, <2>2, <3>1, ClaimedRow DEF AttemptNumber
    <3> QED BY <2>1, <2>3, <3>1, <3>2 DEF RowsMove, Started
  <2>4. CASE i # j
    <3>1. jobs'[i] = JobsAfterExpiry(w)[i] /\ attempts'[i] = AttemptsAfterExpiry(w)[i]
      BY <1>2, <2>1, <2>2, <2>4 DEF ClaimJob
    <3> QED BY <1>0, <3>1, ExpiryMove DEF RowsMove, Kept, SameHolder, GivenUp
  <2> QED BY <2>3, <2>4
<1> QED BY <1>1, <1>2 DEF ClaimNext

\* Whoever settles an attempt holds the authority over it.
LEMMA SettleMove ==
  ASSUME TypeOK, NEW j \in Job, NEW n \in AttemptNumber, NEW job \in JobRow,
         NEW s \in {"completed", "failed"}, Authority(j, n), Settle(j, n, s, job),
         job.attempts = jobs[j].attempts, job.leaseOwner = None,
         \/ s = "completed" /\ job.status = "completed"
         \/ s = "failed" /\ job.status = "failed"
         \/ s = "failed" /\ job.status = "pending" /\ jobs[j].attempts < MaxAttempts,
         NEW i \in Job
  PROVE  RowsMove(i)
<1>1. jobs' = [jobs EXCEPT ![j] = job] /\ attempts' = [attempts EXCEPT ![j][n].status = s]
  BY DEF Settle
<1>2. CASE i = j
  <2>1. jobs'[j] = job /\ n = jobs[j].attempts /\ jobs[j].status = "running"
    BY <1>1 DEF TypeOK, Authority
  <2>2. attempts'[j] = [attempts[j] EXCEPT ![n].status = s]
    BY <1>1 DEF TypeOK
  <2>3. s = IF jobs'[j].status = "completed" THEN "completed" ELSE "failed"
    BY <2>1
  <2> QED BY <1>2, <2>1, <2>2, <2>3 DEF RowsMove, Answered
<1>3. CASE i # j
  BY <1>1, <1>3 DEF TypeOK, RowsMove, Kept, SameHolder
<1> QED BY <1>2, <1>3

LEMMA StepMoves ==
  ASSUME TypeInv, [Next]_vars, NEW i \in Job
  PROVE  RowsMove(i)
<1>0. TypeOK
  BY DEF TypeInv
<1>a. ASSUME UNCHANGED <<jobs, attempts>> PROVE RowsMove(i)
  BY <1>a DEF RowsMove, Kept, SameHolder
<1>1. ASSUME NEW j \in Job, NEW delay \in Delays, Enqueue(j, delay) PROVE RowsMove(i)
  <2>1. /\ Released(jobs[j], "pending") \in JobRow
        /\ Released(jobs[j], "pending").status = "pending"
        /\ Released(jobs[j], "pending").attempts = jobs[j].attempts
        /\ Released(jobs[j], "pending").leaseOwner = None
    BY <1>0, ReleasedRow DEF TypeOK, JobStatus
  <2> DEFINE row == Due(Released(jobs[j], "pending"), delay)
  <2>2. /\ row.status = "pending"
        /\ row.attempts = jobs[j].attempts
        /\ row.leaseOwner = None
    BY <2>1, DueRow, JobQueueAssumption
  <2>3. jobs' = [jobs EXCEPT ![j] = row]
    BY <1>1 DEF Enqueue
  <2> HIDE DEF row
  <2> QED
    BY <1>0, <1>1, <2>2, <2>3
    DEF Enqueue, TypeOK, RowsMove, Kept, SameHolder, Submitted
<1>2. CASE Tick
  BY <1>0, <1>2, AgedRow DEF Tick, TypeOK, RowsMove, Kept, SameHolder
<1>3. ASSUME NEW w \in Worker, Step(w) PROVE RowsMove(i)
  <2> DEFINE j == workers[w].job
             n == workers[w].attempt
  <2>1. CASE ClaimNext(w)
    BY <2>1, ClaimNextMove
  <2>2. CASE ExtendLease(w)
    <3>1. j \in Job
      BY <2>2 DEF ExtendLease, TypeInv, RefersToAttempt, InFlight
    <3>2. jobs[j] \in JobRow
      BY <1>0, <3>1 DEF TypeOK
    <3> QED
      BY <1>0, <2>2, <3>1, <3>2, ExtendedRow
      DEF ExtendLease, TypeOK, RowsMove, Kept, SameHolder
  <2>3. CASE Complete(w)
    <3>1. j \in Job /\ n \in AttemptNumber
      BY <2>3 DEF Complete, TypeInv, RefersToAttempt, InFlight
    <3>2. CASE Authority(j, n)
      <4>1. /\ CompletedJob(j) \in JobRow
            /\ CompletedJob(j).status = "completed"
            /\ CompletedJob(j).attempts = jobs[j].attempts
            /\ CompletedJob(j).leaseOwner = None
        BY <1>0, <3>1, ReleasedRow DEF CompletedJob, TypeOK, JobStatus
      <4>2. Settle(j, n, "completed", CompletedJob(j))
        BY <2>3, <3>2 DEF Complete
      <4> QED BY <1>0, <3>1, <3>2, <4>1, <4>2, SettleMove
    <3>3. CASE ~Authority(j, n)
      BY <1>a, <2>3, <3>3 DEF Complete
    <3> QED BY <3>2, <3>3
  <2>4. CASE Fail(w)
    <3> DEFINE row == FailedJob(j, workers[w].result = "terminal")
    <3>1. j \in Job /\ n \in AttemptNumber
      BY <2>4 DEF Fail, TypeInv, RefersToAttempt, InFlight
    <3>2. CASE Authority(j, n)
      <4>1. /\ row \in JobRow
            /\ row.attempts = jobs[j].attempts
            /\ row.leaseOwner = None
            /\ \/ row.status = "failed"
               \/ row.status = "pending" /\ jobs[j].attempts < MaxAttempts
        BY <1>0, <3>1, FailedJobRow
      <4>2. Settle(j, n, "failed", row)
        BY <2>4, <3>2 DEF Fail
      <4> HIDE DEF row
      <4> QED BY <1>0, <3>1, <3>2, <4>1, <4>2, SettleMove
    <3>3. CASE ~Authority(j, n)
      BY <1>a, <2>4, <3>3 DEF Fail
    <3> QED BY <3>2, <3>3
  <2>5. CASE Poll(w) \/ Begin(w) \/ FencedWrite(w) \/ HandlerThrows(w) \/ Report(w)
             \/ Crash(w)
    BY <1>a, <2>5 DEF Poll, Begin, FencedWrite, HandlerThrows, Report, Crash
  <2> QED BY <1>3, <2>1, <2>2, <2>3, <2>4, <2>5 DEF Step
<1>4. CASE UNCHANGED vars
  BY <1>a, <1>4 DEF vars
<1> QED BY <1>1, <1>2, <1>3, <1>4 DEF Next

-----------------------------------------------------------------------------
(* The ledger *)

LEMMA MoveKeepsLedger ==
  ASSUME TypeInv, TypeInv', NEW j \in Job, RowsAgree(j), RowsMove(j)
  PROVE  RowsAgree(j)'
<1> DEFINE last == jobs[j].attempts
<1>1. /\ jobs[j] \in JobRow /\ jobs'[j] \in JobRow
      /\ attempts[j] \in [AttemptNumber -> AttemptRow]
      /\ attempts'[j] \in [AttemptNumber -> AttemptRow]
      /\ last \in 0..MaxAttempts
  BY DEF TypeInv, TypeOK, JobRow
<1>2. CASE Kept(j)
  BY <1>2 DEF Kept, SameHolder, RowsAgree
<1>3. CASE Submitted(j)
  BY <1>3 DEF Submitted, RowsAgree
<1>4. CASE Started(j)
  <2> DEFINE rows == IF jobs[j].status = "running"
                     THEN FailRunning(attempts[j]) ELSE attempts[j]
  <2>1. \A m \in AttemptNumber : m < last + 1 => rows[m].status = "failed"
    BY <1>1, <1>4, JobQueueAssumption
    DEF Started, RowsAgree, FailRunning, AttemptNumber, AttemptRow
  <2>2. \A m \in AttemptNumber : m > last + 1 => rows[m].status = "absent"
    BY <1>1, <1>4, JobQueueAssumption
    DEF Started, RowsAgree, FailRunning, AttemptNumber, AttemptRow
  <2>3. rows \in [AttemptNumber -> AttemptRow]
    BY <1>1, FailRunningType
  <2>4. /\ last + 1 \in AttemptNumber
        /\ jobs'[j].status = "running" /\ jobs'[j].attempts = last + 1
        /\ attempts'[j] = [rows EXCEPT ![last + 1] =
                             [worker |-> jobs'[j].leaseOwner, status |-> "running"]]
    BY <1>4 DEF Started
  <2> HIDE DEF rows, last
  <2> QED
    BY <1>1, <2>1, <2>2, <2>3, <2>4, JobQueueAssumption DEF RowsAgree, AttemptNumber
<1>5. CASE Answered(j)
  <2> DEFINE s == IF jobs'[j].status = "completed" THEN "completed" ELSE "failed"
  <2>1. /\ last \in AttemptNumber
        /\ jobs'[j].attempts = last
        /\ jobs'[j].status \in {"completed", "pending", "failed"}
        /\ jobs'[j].leaseOwner = None
        /\ attempts'[j] = [attempts[j] EXCEPT ![last].status = s]
    BY <1>5 DEF Answered
  <2>2. /\ attempts'[j][last].status = s
        /\ \A m \in AttemptNumber \ {last} : attempts'[j][m] = attempts[j][m]
    BY <1>1, <2>1 DEF AttemptRow
  <2> QED
    BY <1>1, <2>1, <2>2, JobQueueAssumption DEF RowsAgree, AttemptNumber
<1>6. CASE GivenUp(j)
  <2>1. \A m \in AttemptNumber :
          attempts'[j][m].status =
            IF attempts[j][m].status = "running" THEN "failed" ELSE attempts[j][m].status
    BY <1>1, <1>6 DEF GivenUp, FailRunning, AttemptRow
  <2> QED
    BY <1>1, <1>6, <2>1, JobQueueAssumption DEF GivenUp, RowsAgree, AttemptNumber
<1> QED BY <1>2, <1>3, <1>4, <1>5, <1>6 DEF RowsMove

LedgerInv == TypeInv /\ LedgerConsistent

LEMMA LedgerInit == Init => LedgerInv
<1> SUFFICES ASSUME Init PROVE LedgerConsistent
  BY TypeInit DEF LedgerInv
<1>1. ASSUME NEW j \in Job
      PROVE  RowsAgree(j)
  <2>1. jobs[j] = NoJob /\ \A n \in AttemptNumber : attempts[j][n] = NoAttempt
    BY DEF Init
  <2>2. /\ NoJob.status = "absent" /\ NoJob.attempts = 0 /\ NoJob.leaseOwner = None
        /\ NoAttempt.status = "absent"
    BY DEF NoJob, NoAttempt
  <2> QED BY <2>1, <2>2 DEF RowsAgree, AttemptNumber
<1> QED BY <1>1 DEF LedgerConsistent

LEMMA LedgerStep == LedgerInv /\ [Next]_vars => LedgerInv'
<1> SUFFICES ASSUME LedgerInv, [Next]_vars PROVE LedgerInv'
  OBVIOUS
<1>1. TypeInv /\ TypeInv'
  BY TypeStep DEF LedgerInv
<1>2. ASSUME NEW j \in Job PROVE RowsAgree(j)'
  BY <1>1, StepMoves, MoveKeepsLedger DEF LedgerInv, LedgerConsistent
<1> QED BY <1>1, <1>2 DEF LedgerInv, LedgerConsistent

\* The tables jobs and job_attempts always tell one story, whatever claims,
\* completions, failures, lease expiries and crashes interleave.
THEOREM LedgerAlwaysConsistent == Spec => []LedgerConsistent
<1>1. LedgerInv => LedgerConsistent BY DEF LedgerInv
<1> QED BY <1>1, LedgerInit, LedgerStep, PTL DEF Spec

-----------------------------------------------------------------------------
(* The contract *)

Winners(rows) == {n \in AttemptNumber : rows[n].status = "completed"}

LEMMA MoveIsContractMove ==
  ASSUME TypeInv, TypeInv', NEW j \in Job, RowsAgree(j), RowsMove(j)
  PROVE  Contract!Move(j)
<1> DEFINE last == jobs[j].attempts
           won == Winners(attempts[j])
           wonNext == Winners(attempts'[j])
<1>1. /\ attempts[j] \in [AttemptNumber -> AttemptRow]
      /\ attempts'[j] \in [AttemptNumber -> AttemptRow]
      /\ last \in 0..MaxAttempts
  BY DEF TypeInv, TypeOK, JobRow
<1>2. SUFFICES
        \/ /\ jobs[j].status = "absent" /\ jobs'[j].status = "pending"
           /\ jobs'[j].attempts = 0 /\ wonNext = {}
        \/ /\ jobs[j].status \in {"pending", "running"} /\ last < MaxAttempts
           /\ jobs'[j].status = "running"
           /\ jobs'[j].attempts = last + 1 /\ wonNext = won
        \/ /\ jobs[j].status = "running" /\ jobs'[j].status = "completed"
           /\ jobs'[j].attempts = last /\ wonNext = {last}
        \/ /\ jobs[j].status = "running" /\ last < MaxAttempts
           /\ jobs'[j].status = "pending"
           /\ jobs'[j].attempts = last /\ wonNext = won
        \/ /\ jobs[j].status = "running" /\ jobs'[j].status = "failed"
           /\ jobs'[j].attempts = last /\ wonNext = won
        \/ /\ jobs'[j].status = jobs[j].status
           /\ jobs'[j].attempts = last /\ wonNext = won
  BY DEF Winners, Contract!Move, Contract!Becomes, Contract!Submit, Contract!Start,
         Contract!Succeed, Contract!Retry, Contract!GiveUp, Contract!Stay
<1>3. CASE Kept(j)
  BY <1>3 DEF Kept, SameHolder
<1>4. CASE Submitted(j)
  <2>1. last = 0 /\ wonNext = {}
    BY <1>1, <1>4, JobQueueAssumption DEF Submitted, RowsAgree, AttemptNumber, Winners
  <2> QED BY <1>4, <2>1 DEF Submitted
<1>5. CASE Started(j)
  <2> DEFINE rows == IF jobs[j].status = "running"
                     THEN FailRunning(attempts[j]) ELSE attempts[j]
  <2>1. /\ last + 1 \in AttemptNumber
        /\ attempts'[j] = [rows EXCEPT ![last + 1] =
                             [worker |-> jobs'[j].leaseOwner, status |-> "running"]]
    BY <1>5 DEF Started
  <2>2. /\ rows \in [AttemptNumber -> AttemptRow]
        /\ \A m \in AttemptNumber :
              rows[m].status = "completed" <=> attempts[j][m].status = "completed"
    BY <1>1, FailRunningType DEF FailRunning, AttemptRow
  <2>3. attempts[j][last + 1].status = "absent"
    BY <1>1, <2>1, JobQueueAssumption DEF RowsAgree, AttemptNumber
  <2> HIDE DEF rows
  <2>4. \A m \in AttemptNumber :
          attempts'[j][m].status = "completed" <=> attempts[j][m].status = "completed"
    BY <2>1, <2>2, <2>3
  <2>5. wonNext = won
    BY <2>4 DEF Winners
  <2> QED
    BY <1>1, <1>5, <2>5, JobQueueAssumption DEF Started, AttemptNumber
<1>6. CASE Answered(j)
  <2>1. \A m \in AttemptNumber : attempts[j][m].status # "completed"
    BY <1>1, <1>6, JobQueueAssumption DEF Answered, RowsAgree, AttemptNumber
  <2>2. /\ last \in AttemptNumber
        /\ \A m \in AttemptNumber :
              attempts'[j][m].status =
                IF m # last THEN attempts[j][m].status
                ELSE IF jobs'[j].status = "completed" THEN "completed" ELSE "failed"
    BY <1>1, <1>6 DEF Answered, AttemptRow
  <2>3. /\ won = {}
        /\ wonNext = IF jobs'[j].status = "completed" THEN {last} ELSE {}
    BY <2>1, <2>2 DEF Winners
  <2> QED BY <1>6, <2>3 DEF Answered
<1>7. CASE GivenUp(j)
  <2>1. \A m \in AttemptNumber :
          attempts'[j][m].status = "completed" <=> attempts[j][m].status = "completed"
    BY <1>1, <1>7 DEF GivenUp, FailRunning, AttemptRow
  <2>2. wonNext = won
    BY <2>1 DEF Winners
  <2> QED BY <1>7, <2>2 DEF GivenUp
<1> QED BY <1>3, <1>4, <1>5, <1>6, <1>7 DEF RowsMove

\* The queue implements JobContract for any number of jobs, workers and crashes:
\* one attempt at a time, at most MaxAttempts of them, settled once.
THEOREM QueueImplementsContract == Spec => ImplementsContract
<1>1. Init => Contract!Init
  <2> SUFFICES ASSUME Init PROVE Contract!Init
    OBVIOUS
  <2>1. NoJob.status = "absent" /\ NoJob.attempts = 0 /\ NoAttempt.status = "absent"
    BY DEF NoJob, NoAttempt
  <2> QED BY <2>1 DEF Init, Contract!Init
<1>2. LedgerInv /\ LedgerInv' /\ [Next]_vars => [Contract!Next]_(Contract!vars)
  <2> SUFFICES ASSUME LedgerInv, LedgerInv', [Next]_vars PROVE Contract!Next
    OBVIOUS
  <2>1. TypeInv /\ TypeInv' /\ LedgerConsistent
    BY DEF LedgerInv
  <2>2. ASSUME NEW j \in Job PROVE Contract!Move(j)
    BY <2>1, StepMoves, MoveIsContractMove DEF LedgerConsistent
  <2>3. \A j \in Job : jobs'[j].status \in JobStatus /\ jobs'[j].attempts \in 0..MaxAttempts
    BY <2>1 DEF TypeInv, TypeOK, JobRow
  <2> QED BY <2>2, <2>3 DEF Contract!Next, Contract!Phase, JobStatus
<1> QED
  BY <1>1, <1>2, LedgerInit, LedgerStep, PTL
  DEF Spec, ImplementsContract, Contract!Spec

-----------------------------------------------------------------------------
(* Fencing and reports *)

\* Attempts are only added; a row keeps its worker; a settled job stays as it is.
LEMMA MoveKeepsRows ==
  ASSUME TypeInv, TypeInv', NEW j \in Job, RowsAgree(j), RowsMove(j)
  PROVE  /\ jobs[j].attempts <= jobs'[j].attempts
         /\ \A m \in AttemptNumber : attempts[j][m].status # "absent" =>
              /\ attempts'[j][m].status # "absent"
              /\ attempts'[j][m].worker = attempts[j][m].worker
         /\ jobs[j].status = "completed" => Kept(j)
<1> DEFINE last == jobs[j].attempts
<1>1. /\ attempts[j] \in [AttemptNumber -> AttemptRow]
      /\ last \in 0..MaxAttempts
  BY DEF TypeInv, TypeOK, JobRow
<1>2. CASE Kept(j)
  BY <1>1, <1>2 DEF Kept, SameHolder
<1>3. CASE Submitted(j)
  BY <1>1, <1>3 DEF Submitted
<1>4. CASE Started(j)
  <2> DEFINE rows == IF jobs[j].status = "running"
                     THEN FailRunning(attempts[j]) ELSE attempts[j]
  <2>1. /\ last + 1 \in AttemptNumber /\ jobs'[j].attempts = last + 1
        /\ jobs[j].status # "completed"
        /\ attempts'[j] = [rows EXCEPT ![last + 1] =
                             [worker |-> jobs'[j].leaseOwner, status |-> "running"]]
    BY <1>4 DEF Started
  <2>2. /\ rows \in [AttemptNumber -> AttemptRow]
        /\ \A m \in AttemptNumber : attempts[j][m].status # "absent" =>
             rows[m].status # "absent" /\ rows[m].worker = attempts[j][m].worker
    BY <1>1, FailRunningType DEF FailRunning, AttemptRow
  <2>3. attempts[j][last + 1].status = "absent"
    BY <1>1, <2>1, JobQueueAssumption DEF RowsAgree, AttemptNumber
  <2> HIDE DEF rows
  <2> QED BY <1>1, <2>1, <2>2, <2>3
<1>5. CASE Answered(j)
  <2>1. \A m \in AttemptNumber : attempts[j][m].status # "absent" =>
          /\ attempts'[j][m].status # "absent"
          /\ attempts'[j][m].worker = attempts[j][m].worker
    BY <1>1, <1>5 DEF Answered, AttemptRow
  <2> QED BY <1>1, <1>5, <2>1 DEF Answered
<1>6. CASE GivenUp(j)
  <2>1. \A m \in AttemptNumber : attempts[j][m].status # "absent" =>
          /\ attempts'[j][m].status # "absent"
          /\ attempts'[j][m].worker = attempts[j][m].worker
    BY <1>1, <1>6 DEF GivenUp, FailRunning, AttemptRow
  <2> QED BY <1>1, <1>6, <2>1 DEF GivenUp
<1> QED BY <1>2, <1>3, <1>4, <1>5, <1>6 DEF RowsMove

\* A worker in flight owns the attempt row it remembers.
OwnsAttempt ==
  \A w \in Worker : workers[w].pc \in InFlight =>
    /\ attempts[workers[w].job][workers[w].attempt].status # "absent"
    /\ attempts[workers[w].job][workers[w].attempt].worker = w

\* No fenced effect is newer than the newest attempt.
WrittenBounded == \A j \in Job : written[j] <= jobs[j].attempts

FenceInv == LedgerInv /\ OwnsAttempt /\ WrittenBounded /\ ReportedCompletionIsDurable

LEMMA FenceInit == Init => FenceInv
<1> SUFFICES ASSUME Init PROVE FenceInv
  OBVIOUS
<1>1. \A w \in Worker : workers[w].pc = "idle"
  BY DEF Init, IdleWorker
<1>2. \A j \in Job : jobs[j].attempts = 0 /\ written[j] = 0
  BY DEF Init, NoJob
<1> QED
  BY <1>1, <1>2, LedgerInit
  DEF FenceInv, OwnsAttempt, InFlight, WrittenBounded, ReportedCompletionIsDurable

LEMMA FencedWriteMove ==
  ASSUME FenceInv, [Next]_vars, NEW j \in Job, written'[j] # written[j]
  PROVE  /\ written'[j] = jobs[j].attempts
         /\ jobs[j].status = "running"
         /\ UNCHANGED jobs
<1>1. PICK w \in Worker : FencedWrite(w)
  BY DEF Next, Step, vars, Enqueue, Tick, Poll, ClaimNext, Begin, ExtendLease,
         Complete, HandlerThrows, Fail, Report, Crash
<1>2. workers[w].job \in Job
  BY <1>1 DEF FencedWrite, FenceInv, LedgerInv, TypeInv, RefersToAttempt, InFlight
<1> QED
  BY <1>1, <1>2
  DEF FencedWrite, Authority, FenceInv, LedgerInv, TypeInv, TypeOK

\* How a worker comes to be in flight, and to report a completion.
LEMMA WorkerMove ==
  ASSUME FenceInv, [Next]_vars, NEW w \in Worker, workers'[w].pc \in InFlight
  PROVE  LET j == workers'[w].job
             n == workers'[w].attempt
         IN \/ /\ workers[w].pc \in InFlight
               /\ workers[w].job = j /\ workers[w].attempt = n
               /\ workers'[w].pc = "reporting" /\ workers'[w].result = "completed" =>
                    \/ workers[w].pc = "reporting" /\ workers[w].result = "completed"
                    \/ /\ Authority(j, n)
                       /\ Settle(j, n, "completed", CompletedJob(j))
            \/ /\ workers'[w].pc = "claimed"
               /\ j \in Job /\ n \in AttemptNumber
               /\ attempts'[j][n] = [worker |-> w, status |-> "running"]
<1>0. TypeInv /\ TypeOK
  BY DEF FenceInv, LedgerInv, TypeInv
<1>a. \A v \in Worker : workers[v] \in WorkerMemory
  BY <1>0 DEF TypeOK
<1>1. CASE UNCHANGED workers
  BY <1>1
<1>2. ASSUME NEW v \in Worker, Step(v)
      PROVE  \/ UNCHANGED workers
             \/ workers' = [workers EXCEPT ![v] = IdleWorker]
             \/ Poll(v) \/ Begin(v) \/ Complete(v) \/ HandlerThrows(v) \/ Fail(v)
             \/ workers' = [workers EXCEPT ![v].timer = FALSE]
             \/ \E j \in Earliest(Claimable(v)) : ClaimJob(v, j)
  BY <1>2 DEF Step, ClaimNext, ClaimNothing, ExtendLease, FencedWrite, Report, Crash
<1>3. ASSUME NEW v \in Worker, Step(v)
      PROVE  v = w \/ workers'[w] = workers[w]
  <2>1. SUFFICES ASSUME v # w PROVE workers'[w] = workers[w]
    OBVIOUS
  <2>2. ASSUME NEW at \in {"idle", "polling", "claimed", "handling", "failing",
                           "reporting"},
               NEW result \in {"none", "retryable", "terminal", "completed", "failed"},
               workers' = Goes(v, at, result)
        PROVE  workers'[w] = workers[w]
    BY <1>0, <2>1, <2>2, GoesMemory
  <2>3. CASE Poll(v) \/ Begin(v) \/ Complete(v) \/ HandlerThrows(v) \/ Fail(v)
    BY <2>2, <2>3 DEF Poll, Begin, Complete, HandlerThrows, Fail
  <2>4. CASE \E j \in Earliest(Claimable(v)) : ClaimJob(v, j)
    BY <1>0, <2>1, <2>4 DEF ClaimJob, TypeOK
  <2> QED BY <1>0, <1>2, <1>3, <2>1, <2>3, <2>4 DEF TypeOK
<1>4. CASE \E j \in Job, delay \in Delays : Enqueue(j, delay)
  BY <1>1, <1>4 DEF Enqueue
<1>5. CASE Tick
  BY <1>1, <1>5 DEF Tick
<1>6. CASE UNCHANGED vars
  BY <1>1, <1>6 DEF vars
<1>7. CASE Step(w)
  <2>1. CASE workers' = [workers EXCEPT ![w] = IdleWorker]
    BY <1>0, <2>1 DEF TypeOK, IdleWorker, InFlight
  <2>2. CASE Poll(w)
    BY <1>0, <2>2, GoesMemory DEF Poll, InFlight
  <2>3. CASE Begin(w)
    BY <1>0, <2>3, GoesMemory DEF Begin, InFlight
  <2>4. CASE Complete(w)
    <3>1. CASE Authority(workers[w].job, workers[w].attempt)
      <4>1. /\ workers'[w].job = workers[w].job
            /\ workers'[w].attempt = workers[w].attempt
        BY <1>0, <2>4, <3>1, GoesMemory DEF Complete
      <4> QED BY <2>4, <3>1, <4>1 DEF Complete, InFlight
    <3>2. CASE ~Authority(workers[w].job, workers[w].attempt)
      BY <1>0, <2>4, <3>2, GoesMemory DEF Complete, InFlight
    <3> QED BY <3>1, <3>2
  <2>5. CASE HandlerThrows(w)
    BY <1>0, <2>5, GoesMemory DEF HandlerThrows, InFlight
  <2>6. CASE Fail(w)
    BY <1>0, <2>6, GoesMemory DEF Fail, InFlight
  <2>7. CASE workers' = [workers EXCEPT ![w].timer = FALSE]
    BY <1>a, <1>0, <2>7 DEF TypeOK, WorkerMemory
  <2>8. ASSUME NEW j \in Earliest(Claimable(w)), ClaimJob(w, j)
        PROVE  /\ workers'[w].pc = "claimed"
               /\ workers'[w].job \in Job /\ workers'[w].attempt \in AttemptNumber
               /\ attempts'[workers'[w].job][workers'[w].attempt] =
                     [worker |-> w, status |-> "running"]
    <3> DEFINE rows == IF jobs[j].status = "running"
                       THEN FailRunning(attempts[j]) ELSE attempts[j]
    <3>1. j \in Job /\ jobs[j].attempts + 1 \in AttemptNumber
      BY <1>0, JobQueueAssumption
      DEF Earliest, Claimable, TypeOK, JobRow, AttemptNumber
    <3>2. rows \in [AttemptNumber -> AttemptRow]
      BY <1>0, <3>1, FailRunningType DEF TypeOK
    <3>3. attempts' = [AttemptsAfterExpiry(w) EXCEPT
                         ![j] = [rows EXCEPT ![jobs[j].attempts + 1] =
                                   [worker |-> w, status |-> "running"]]]
      BY <2>8 DEF ClaimJob
    <3> HIDE DEF rows
    <3>4. attempts'[j][jobs[j].attempts + 1] = [worker |-> w, status |-> "running"]
      BY <1>0, <3>1, <3>2, <3>3, ExpiryType
    <3>5. /\ workers'[w].pc = "claimed"
          /\ workers'[w].job = j /\ workers'[w].attempt = jobs[j].attempts + 1
      BY <1>0, <2>8 DEF ClaimJob, ClaimedWorker, TypeOK
    <3> QED BY <3>1, <3>4, <3>5
  <2> QED
    BY <1>1, <1>2, <1>7, <2>1, <2>2, <2>3, <2>4, <2>5, <2>6, <2>7, <2>8
<1>8. ASSUME NEW v \in Worker, Step(v), v # w
      PROVE  workers'[w] = workers[w]
  BY <1>3, <1>8
<1> QED BY <1>4, <1>5, <1>6, <1>7, <1>8 DEF Next

LEMMA FenceStep == FenceInv /\ [Next]_vars => FenceInv'
<1> SUFFICES ASSUME FenceInv, [Next]_vars PROVE FenceInv'
  OBVIOUS
<1>1. /\ LedgerInv /\ LedgerInv' /\ TypeInv /\ TypeInv'
      /\ LedgerConsistent /\ TypeOK
  BY LedgerStep DEF FenceInv, LedgerInv, TypeInv
<1>2. ASSUME NEW j \in Job
      PROVE  /\ jobs[j].attempts <= jobs'[j].attempts
             /\ \A m \in AttemptNumber : attempts[j][m].status # "absent" =>
                  /\ attempts'[j][m].status # "absent"
                  /\ attempts'[j][m].worker = attempts[j][m].worker
             /\ jobs[j].status = "completed" => Kept(j)
  BY <1>1, StepMoves, MoveKeepsRows DEF LedgerConsistent
<1>3. WrittenBounded'
  <2>1. ASSUME NEW j \in Job PROVE written'[j] <= jobs'[j].attempts
    <3>1. /\ written[j] \in 0..MaxAttempts /\ written[j] <= jobs[j].attempts
          /\ jobs[j].attempts \in 0..MaxAttempts /\ jobs'[j].attempts \in 0..MaxAttempts
      BY <1>1 DEF FenceInv, WrittenBounded, TypeInv, TypeOK, JobRow
    <3>2. CASE written'[j] = written[j]
      BY <1>2, <3>1, <3>2, JobQueueAssumption
    <3>3. CASE written'[j] # written[j]
      BY <3>1, <3>3, FencedWriteMove, JobQueueAssumption
    <3> QED BY <3>2, <3>3
  <2> QED BY <2>1 DEF WrittenBounded
<1>4. OwnsAttempt'
  <2>1. ASSUME NEW w \in Worker, workers'[w].pc \in InFlight
        PROVE  /\ attempts'[workers'[w].job][workers'[w].attempt].status # "absent"
               /\ attempts'[workers'[w].job][workers'[w].attempt].worker = w
    <3>1. CASE workers[w].pc \in InFlight /\ workers[w].job = workers'[w].job
               /\ workers[w].attempt = workers'[w].attempt
      BY <1>1, <1>2, <3>1 DEF FenceInv, OwnsAttempt, TypeInv, RefersToAttempt
    <3>2. CASE attempts'[workers'[w].job][workers'[w].attempt] =
                 [worker |-> w, status |-> "running"]
      BY <3>2
    <3> QED BY <2>1, <3>1, <3>2, WorkerMove
  <2> QED BY <2>1 DEF OwnsAttempt
<1>5. ReportedCompletionIsDurable'
  <2>1. ASSUME NEW w \in Worker,
               workers'[w].pc = "reporting", workers'[w].result = "completed"
        PROVE  LET j == workers'[w].job
                   n == workers'[w].attempt
               IN /\ jobs'[j].status = "completed"
                  /\ jobs'[j].attempts = n
                  /\ attempts'[j][n] = [worker |-> w, status |-> "completed"]
    <3> DEFINE j == workers'[w].job
               n == workers'[w].attempt
    <3>1. /\ workers[w].pc \in InFlight
          /\ workers[w].job = j /\ workers[w].attempt = n
          /\ \/ workers[w].pc = "reporting" /\ workers[w].result = "completed"
             \/ Authority(j, n) /\ Settle(j, n, "completed", CompletedJob(j))
      BY <2>1, WorkerMove DEF InFlight
    <3>2. j \in Job /\ n \in AttemptNumber
      BY <1>1, <3>1 DEF TypeInv, RefersToAttempt
    <3>3. CASE workers[w].pc = "reporting" /\ workers[w].result = "completed"
      BY <1>2, <3>1, <3>2, <3>3
      DEF FenceInv, ReportedCompletionIsDurable, Kept, SameHolder
    <3>4. CASE Authority(j, n) /\ Settle(j, n, "completed", CompletedJob(j))
      <4>1. attempts[j][n].worker = w /\ attempts[j][n] \in AttemptRow
        BY <1>1, <3>1, <3>2 DEF FenceInv, OwnsAttempt, TypeOK
      <4>2. /\ CompletedJob(j).status = "completed"
            /\ CompletedJob(j).attempts = jobs[j].attempts
        BY <1>1, <3>2, ReleasedRow DEF CompletedJob, TypeOK, JobStatus
      <4>3. jobs'[j] = CompletedJob(j) /\ jobs[j].attempts = n
        BY <1>1, <3>2, <3>4 DEF Settle, Authority, TypeOK
      <4>4. attempts'[j][n] = [attempts[j][n] EXCEPT !.status = "completed"]
        BY <1>1, <3>2, <3>4 DEF Settle, TypeOK
      <4>5. attempts'[j][n] = [worker |-> w, status |-> "completed"]
        BY <4>1, <4>4 DEF AttemptRow
      <4> QED BY <4>2, <4>3, <4>5
    <3> QED BY <3>1, <3>3, <3>4
  <2> QED BY <2>1 DEF ReportedCompletionIsDurable
<1> QED BY <1>1, <1>3, <1>4, <1>5 DEF FenceInv

\* A worker never reports a completion the tables do not show.
THEOREM ReportsAreDurable == Spec => []ReportedCompletionIsDurable
<1>1. FenceInv => ReportedCompletionIsDurable BY DEF FenceInv
<1> QED BY <1>1, FenceInit, FenceStep, PTL DEF Spec

\* Fenced effects are committed in attempt order and never after settlement.
THEOREM FencedWritesOrdered == Spec => FencedWritesInOrder
<1> DEFINE InOrder ==
      \A j \in Job : written'[j] # written[j] =>
        /\ written'[j] > written[j]
        /\ jobs[j].status = "running"
        /\ \A n \in AttemptNumber :
             n > written'[j] => attempts[j][n].status = "absent"
<1>1. FenceInv /\ [Next]_vars => [InOrder]_vars
  <2> SUFFICES ASSUME FenceInv, [Next]_vars, NEW j \in Job, written'[j] # written[j]
               PROVE  /\ written'[j] > written[j]
                      /\ jobs[j].status = "running"
                      /\ \A n \in AttemptNumber :
                           n > written'[j] => attempts[j][n].status = "absent"
    OBVIOUS
  <2>1. written'[j] = jobs[j].attempts /\ jobs[j].status = "running"
    BY FencedWriteMove
  <2>2. /\ written[j] \in 0..MaxAttempts /\ jobs[j].attempts \in 0..MaxAttempts
        /\ written[j] <= jobs[j].attempts
    BY DEF FenceInv, LedgerInv, TypeInv, TypeOK, JobRow, WrittenBounded
  <2>3. RowsAgree(j)
    BY DEF FenceInv, LedgerInv, LedgerConsistent
  <2> QED BY <2>1, <2>2, <2>3, JobQueueAssumption DEF RowsAgree
<1> QED BY <1>1, FenceInit, FenceStep, PTL DEF Spec, FencedWritesInOrder
-----------------------------------------------------------------------------
(***************************************************************************)
(* The heartbeat row.  It says "running" from the moment a handler starts  *)
(* until its outcome is reported, so a completion is never reported over   *)
(* an error.                                                               *)
(***************************************************************************)

Handles(memory) ==
  memory.pc = "handling" \/ (memory.pc = "reporting" /\ memory.result = "completed")

HeartbeatInv ==
  TypeInv /\ \A w \in Worker : Handles(workers[w]) => heartbeats[w] = "running"

\* What one step does to one worker and its heartbeat.
LEMMA HeartbeatMove ==
  ASSUME HeartbeatInv, Next, NEW w \in Worker
  PROVE  /\ Handles(workers'[w]) => heartbeats'[w] = "running"
         /\ heartbeats[w] = "error" /\ heartbeats'[w] # "error" =>
              heartbeats'[w] = "running" /\ workers'[w].job # None
<1>0. /\ heartbeats \in [Worker -> HeartbeatStatus]
      /\ workers \in [Worker -> WorkerMemory]
      /\ Handles(workers[w]) => heartbeats[w] = "running"
  BY DEF HeartbeatInv, TypeInv, TypeOK
<1>1. CASE \E j \in Job, delay \in Delays : Enqueue(j, delay)
  BY <1>0, <1>1 DEF Enqueue
<1>2. CASE Tick
  BY <1>0, <1>2 DEF Tick
<1>3. CASE \E a \in Worker : Step(a)
  <2>1. PICK a \in Worker : Step(a)
    BY <1>3
  <2>2. CASE a # w
    <3>1. workers'[w] = workers[w]
      BY <1>0, <2>1, <2>2
      DEF Step, Poll, ClaimNext, ClaimNothing, ClaimJob, Begin, ExtendLease, FencedWrite,
          Complete, HandlerThrows, Fail, Report, Crash, Goes
    <3>2. heartbeats'[w] = heartbeats[w]
      BY <1>0, <2>1, <2>2
      DEF Step, Poll, ClaimNext, Begin, ExtendLease, FencedWrite,
          Complete, HandlerThrows, Fail, Report, Crash, IdleHeartbeat
    <3> QED BY <1>0, <3>1, <3>2
  <2>3. CASE a = w
    <3>1. CASE Poll(w)
      BY <1>0, <3>1 DEF Poll, Goes, IdleHeartbeat, Handles
    <3>2. CASE ClaimNext(w)
      BY <1>0, <3>2 DEF ClaimNext, ClaimNothing, ClaimJob, Handles, IdleWorker, ClaimedWorker
    <3>3. CASE Begin(w)
      <4>1. workers'[w].pc = "failing" \/ (heartbeats'[w] = "running" /\ workers[w].job \in Known)
        BY <1>0, <3>3 DEF Begin, Goes
      <4>2. workers'[w].pc = "failing" => heartbeats'[w] = heartbeats[w]
        BY <1>0, <3>3 DEF Begin, Goes
      <4>3. workers'[w].job = workers[w].job
        BY <1>0, <3>3 DEF Begin, Goes
      <4> QED BY <4>1, <4>2, <4>3, JobQueueAssumption DEF Handles
    <3>4. CASE ExtendLease(w)
      BY <1>0, <3>4 DEF ExtendLease, Handles, WorkerMemory
    <3>5. CASE FencedWrite(w)
      BY <1>0, <3>5 DEF FencedWrite
    <3>6. CASE Complete(w)
      BY <1>0, <3>6 DEF Complete, Goes, Handles
    <3>7. CASE HandlerThrows(w)
      BY <1>0, <3>7 DEF HandlerThrows, Goes, Handles
    <3>8. CASE Fail(w)
      BY <1>0, <3>8 DEF Fail, Goes, Handles
    <3>9. CASE Report(w)
      BY <1>0, <3>9 DEF Report, Handles, IdleWorker
    <3>10. CASE Crash(w)
      BY <1>0, <3>10 DEF Crash, Handles, IdleWorker
    <3> QED
      BY <2>1, <2>3, <3>1, <3>2, <3>3, <3>4, <3>5, <3>6, <3>7, <3>8, <3>9, <3>10 DEF Step
  <2> QED BY <2>2, <2>3
<1> QED BY <1>1, <1>2, <1>3 DEF Next

LEMMA HeartbeatInit == Init => HeartbeatInv
  BY TypeInit DEF Init, HeartbeatInv, Handles, IdleWorker

LEMMA HeartbeatStep == HeartbeatInv /\ [Next]_vars => HeartbeatInv'
<1> SUFFICES ASSUME HeartbeatInv, [Next]_vars PROVE HeartbeatInv'
  OBVIOUS
<1>1. TypeInv'
  BY TypeStep DEF HeartbeatInv
<1>2. CASE Next
  BY <1>1, <1>2, HeartbeatMove DEF HeartbeatInv, Handles
<1>3. CASE UNCHANGED vars
  BY <1>1, <1>3 DEF vars, HeartbeatInv, Handles
<1> QED BY <1>2, <1>3

\* An error stays on the heartbeat until the worker starts another job.
THEOREM ErrorsStick == Spec => ErrorHeartbeatSticks
<1> DEFINE Sticks ==
      \A w \in Worker :
        heartbeats[w] = "error" /\ heartbeats'[w] # "error" =>
          heartbeats'[w] = "running" /\ workers'[w].job # None
<1>1. HeartbeatInv /\ [Next]_vars => [Sticks]_vars
  BY HeartbeatMove
<1> QED BY <1>1, HeartbeatInit, HeartbeatStep, PTL DEF Spec, ErrorHeartbeatSticks

-----------------------------------------------------------------------------
\* The tables, the workers' memory and their reports agree in every state.
THEOREM JobsStayConsistent == Spec => []JobsConsistent
<1>1. TypeOK /\ LedgerConsistent /\ ReportedCompletionIsDurable => JobsConsistent
  BY DEF JobsConsistent
<1> QED BY <1>1, TypeCorrect, LedgerAlwaysConsistent, ReportsAreDurable, PTL

\* No step writes an effect out of order or hides an error.
THEOREM JobStepsAlwaysLawful == Spec => JobStepsLawful
  BY FencedWritesOrdered, ErrorsStick DEF JobStepsLawful

-----------------------------------------------------------------------------
(***************************************************************************)
(* Turn admission.  A queue holds exactly the waiting items of its key and *)
(* the order exactly the keys with work, each once, so removing an entry   *)
(* removes an item or a key and nothing else.  Only the item being         *)
(* admitted may exceed the limit of the queue, and then pump can take one. *)
(* Nothing becomes runnable but while a pump is running.                   *)
(***************************************************************************)

WaitingItems == {w \in Work : Waiting(w)}
RunningItems == {w \in Work : Running(w)}
Busy(k) == k \in activeKeys \/ queues[k] # <<>>

(* The types that need nothing of each other.                              *)
Types ==
  /\ pc \in {"ready", "schedule", "expire", "finally"}
  /\ queues \in [Key -> Seq(Work)]
  /\ status \in [Work -> Status]
  /\ activeKeys = {KeyOf[w] : w \in RunningItems}
  /\ late \subseteq HasDeadline \cap WaitingItems
  /\ waiters \in 0..MaxWaiters

(* A queue holds the waiting items of its key, each once.                  *)
Lined ==
  \A k \in Key :
    /\ IsInjective(queues[k])
    /\ \A w \in Work : Contains(queues[k], w) <=> Waiting(w) /\ KeyOf[w] = k

(* The order holds the keys with work, each once.                          *)
Ordered ==
  /\ keyOrder \in Seq(Key) /\ IsInjective(keyOrder)
  /\ \A k \in Key : Contains(keyOrder, k) <=> Busy(k)
  /\ cursor \in 0..Len(keyOrder) /\ (keyOrder # <<>> => cursor < Len(keyOrder))

Counted ==
  /\ IsFiniteSet(RunningItems) /\ active = Cardinality(RunningItems)
  /\ IsFiniteSet(WaitingItems) /\ queued = Cardinality(WaitingItems)

Limited ==
  /\ active <= MaxConcurrent
  /\ queued <= MaxQueued
       \/ /\ pc = "schedule" /\ queued = MaxQueued + 1
          /\ active < MaxConcurrent /\ \E k \in Key : Runnable(k)

(* Who waits for idle will be woken: a workflow runs, or a pump that will  *)
(* look is under way.                                                      *)
Awake == pc \in {"ready", "schedule"} /\ waiters > 0 => active > 0

TurnInv ==
  /\ Types /\ Lined /\ Ordered /\ Counted /\ Limited
  /\ OneTurnPerConversation /\ WorkConserving /\ Awake

-----------------------------------------------------------------------------
(* Sequences                                                               *)

LEMMA RemovalFacts ==
  ASSUME NEW S, NEW s \in Seq(S), NEW i \in 1..Len(s)
  PROVE  /\ RemoveAt(s, i) \in Seq(S)
         /\ Len(RemoveAt(s, i)) = Len(s) - 1
         /\ \A j \in 1..Len(s) - 1 : RemoveAt(s, i)[j] = s[IF j < i THEN j ELSE j + 1]
<1> DEFINE front == SubSeq(s, 1, i - 1)
           back == SubSeq(s, i + 1, Len(s))
<1>0. Len(s) \in Nat /\ i \in Int /\ \A j \in 1..Len(s) : s[j] \in S
  BY ElementOfSeq, LenProperties
<1>1. front \in Seq(S) /\ Len(front) = i - 1 /\ \A j \in 1..i - 1 : front[j] = s[j]
  <2>1. 1 \in Int /\ i - 1 \in Int /\ \A j \in 1..i - 1 : s[j] \in S  BY <1>0
  <2>2. /\ front \in Seq(S)
        /\ Len(front) = IF 1 <= i - 1 THEN (i - 1) - 1 + 1 ELSE 0
        /\ \A j \in 1..(i - 1) - 1 + 1 : front[j] = s[1 + j - 1]
    BY <2>1, SubSeqProperties
  <2> HIDE DEF front
  <2>3. \A j \in 1..i - 1 : front[j] = s[j]
    <3> SUFFICES ASSUME NEW j \in 1..i - 1 PROVE front[j] = s[j]  OBVIOUS
    <3>1. j \in 1..(i - 1) - 1 + 1 /\ 1 + j - 1 = j  BY <1>0
    <3> QED  BY <3>1, <2>2
  <2> QED  BY <1>0, <2>2, <2>3
<1>2. back \in Seq(S) /\ Len(back) = Len(s) - i /\ \A j \in 1..Len(s) - i : back[j] = s[i + j]
  <2>1. i + 1 \in Int /\ Len(s) \in Int /\ \A j \in i + 1..Len(s) : s[j] \in S  BY <1>0
  <2>2. /\ back \in Seq(S)
        /\ Len(back) = IF i + 1 <= Len(s) THEN Len(s) - (i + 1) + 1 ELSE 0
        /\ \A j \in 1..Len(s) - (i + 1) + 1 : back[j] = s[i + 1 + j - 1]
    BY <2>1, SubSeqProperties
  <2> HIDE DEF back
  <2>3. \A j \in 1..Len(s) - i : back[j] = s[i + j]
    <3> SUFFICES ASSUME NEW j \in 1..Len(s) - i PROVE back[j] = s[i + j]  OBVIOUS
    <3>1. j \in 1..Len(s) - (i + 1) + 1 /\ i + 1 + j - 1 = i + j  BY <1>0
    <3> QED  BY <3>1, <2>2
  <2> QED  BY <1>0, <2>2, <2>3
<1>3. RemoveAt(s, i) = front \o back  BY DEF RemoveAt
<1> HIDE DEF front, back
<1>4. /\ front \o back \in Seq(S)
      /\ Len(front \o back) = Len(front) + Len(back)
      /\ \A j \in 1..Len(front) + Len(back) : (front \o back)[j] =
            IF j <= Len(front) THEN front[j] ELSE back[j - Len(front)]
  BY <1>1, <1>2, ConcatProperties
<1>5. Len(front) + Len(back) = Len(s) - 1  BY <1>0, <1>1, <1>2
<1>6. ASSUME NEW j \in 1..Len(s) - 1
      PROVE  (front \o back)[j] = s[IF j < i THEN j ELSE j + 1]
  <2>1. (front \o back)[j] = IF j <= i - 1 THEN front[j] ELSE back[j - (i - 1)]
    BY <1>1, <1>4, <1>5
  <2>2. CASE j < i
    <3>1. j \in 1..i - 1 /\ j <= i - 1  BY <2>2, <1>0
    <3> QED  BY <2>1, <2>2, <3>1, <1>1
  <2>3. CASE ~(j < i)
    <3>1. ~(j <= i - 1) /\ j - (i - 1) \in 1..Len(s) - i /\ i + (j - (i - 1)) = j + 1
      BY <2>3, <1>0
    <3> QED  BY <2>1, <2>3, <3>1, <1>2
  <2> QED  BY <2>2, <2>3
<1> QED  BY <1>3, <1>4, <1>5, <1>6

(* An entry that is there once leaves without a trace, the others stay.    *)
LEMMA RemovalDistinct ==
  ASSUME NEW S, NEW s \in Seq(S), NEW i \in 1..Len(s), NEW r \in Seq(S),
         Len(r) = Len(s) - 1,
         \A j \in 1..Len(s) - 1 : r[j] = s[IF j < i THEN j ELSE j + 1],
         IsInjective(s)
  PROVE  /\ IsInjective(r)
         /\ \A e \in S : Contains(r, e) <=> Contains(s, e) /\ e # s[i]
<1>0. Len(s) \in Nat /\ Len(r) \in Nat /\ DOMAIN s = 1..Len(s) /\ DOMAIN r = 1..Len(r)
  BY LenProperties
<1> DEFINE from(j) == IF j < i THEN j ELSE j + 1
<1>1. \A j \in 1..Len(r) : r[j] = s[from(j)] /\ from(j) \in 1..Len(s) /\ from(j) # i
  BY <1>0
<1>2. \A a, b \in 1..Len(r) : from(a) = from(b) => a = b  BY <1>0
<1>3. \A n \in 1..Len(s) : n # i => \E j \in 1..Len(r) : from(j) = n
  <2> SUFFICES ASSUME NEW n \in 1..Len(s), n # i PROVE \E j \in 1..Len(r) : from(j) = n
    OBVIOUS
  <2>1. CASE n < i
    <3>1. n \in 1..Len(r) /\ from(n) = n  BY <1>0, <2>1
    <3> QED  BY <3>1
  <2>2. CASE n > i
    <3>1. n - 1 \in 1..Len(r) /\ from(n - 1) = n  BY <1>0, <2>2
    <3> QED  BY <3>1
  <2> QED  BY <2>1, <2>2
<1>4. \A a, b \in 1..Len(s) : s[a] = s[b] => a = b  BY <1>0 DEF IsInjective
<1> HIDE DEF from
<1>5. \A a, b \in 1..Len(r) : r[a] = r[b] => a = b  BY <1>1, <1>2, <1>4
<1>6. IsInjective(r)  BY <1>0, <1>5 DEF IsInjective
<1>7. ASSUME NEW e \in S PROVE Contains(r, e) <=> Contains(s, e) /\ e # s[i]
  <2>1. ASSUME NEW j \in 1..Len(r), r[j] = e PROVE Contains(s, e) /\ e # s[i]
    <3>1. from(j) \in 1..Len(s) /\ from(j) # i /\ s[from(j)] = e  BY <1>1, <2>1
    <3>2. s[from(j)] # s[i]  BY <3>1, <1>4
    <3> QED  BY <3>1, <3>2 DEF Contains
  <2>2. ASSUME NEW n \in 1..Len(s), s[n] = e, e # s[i] PROVE Contains(r, e)
    <3>1. n # i  BY <2>2
    <3>2. PICK j \in 1..Len(r) : from(j) = n  BY <3>1, <1>3
    <3>3. r[j] = e  BY <3>2, <2>2, <1>1
    <3> QED  BY <3>3 DEF Contains
  <2> QED  BY <2>1, <2>2 DEF Contains
<1> QED  BY <1>6, <1>7

LEMMA RemoveAtDistinct ==
  ASSUME NEW S, NEW s \in Seq(S), NEW e \in S, Contains(s, e), IsInjective(s)
  PROVE  /\ Position(s, e) \in 1..Len(s) /\ s[Position(s, e)] = e
         /\ RemoveAt(s, Position(s, e)) \in Seq(S)
         /\ Len(RemoveAt(s, Position(s, e))) = Len(s) - 1
         /\ IsInjective(RemoveAt(s, Position(s, e)))
         /\ \A x \in S : Contains(RemoveAt(s, Position(s, e)), x) <=> Contains(s, x) /\ x # e
<1>1. Position(s, e) \in 1..Len(s) /\ s[Position(s, e)] = e  BY DEF Contains, Position
<1> DEFINE r == RemoveAt(s, Position(s, e))
<1>2. /\ r \in Seq(S) /\ Len(r) = Len(s) - 1
      /\ \A j \in 1..Len(s) - 1 : r[j] = s[IF j < Position(s, e) THEN j ELSE j + 1]
  BY <1>1, RemovalFacts
<1> HIDE DEF r
<1>3. IsInjective(r) /\ \A x \in S : Contains(r, x) <=> Contains(s, x) /\ x # s[Position(s, e)]
  BY <1>1, <1>2, RemovalDistinct
<1>4. IsInjective(r) /\ \A x \in S : Contains(r, x) <=> Contains(s, x) /\ x # e
  BY <1>1, <1>3
<1> QED  BY <1>1, <1>2, <1>4 DEF r

LEMMA TailDistinct ==
  ASSUME NEW S, NEW s \in Seq(S), s # <<>>, IsInjective(s)
  PROVE  /\ Head(s) \in S /\ Contains(s, Head(s))
         /\ Tail(s) \in Seq(S)
         /\ IsInjective(Tail(s))
         /\ \A x \in S : Contains(Tail(s), x) <=> Contains(s, x) /\ x # Head(s)
<1>1. /\ Head(s) \in S /\ Tail(s) \in Seq(S) /\ Len(Tail(s)) = Len(s) - 1
      /\ \A i \in 1..Len(Tail(s)) : Tail(s)[i] = s[i + 1]
  BY HeadTailProperties
<1>2. Len(s) \in Nat \ {0}  BY EmptySeq
<1>3. 1 \in 1..Len(s) /\ Head(s) = s[1]  BY <1>2
<1> DEFINE r == Tail(s)
<1>4. \A j \in 1..Len(s) - 1 : r[j] = s[IF j < 1 THEN j ELSE j + 1]  BY <1>1, <1>2
<1>5. r \in Seq(S) /\ Len(r) = Len(s) - 1  BY <1>1
<1> HIDE DEF r
<1>6. IsInjective(r) /\ \A x \in S : Contains(r, x) <=> Contains(s, x) /\ x # s[1]
  BY <1>3, <1>4, <1>5, RemovalDistinct
<1>7. Contains(s, Head(s))  BY <1>3 DEF Contains
<1>8. IsInjective(r) /\ \A x \in S : Contains(r, x) <=> Contains(s, x) /\ x # Head(s)
  BY <1>3, <1>6
<1> QED  BY <1>1, <1>7, <1>8 DEF r

LEMMA AppendDistinct ==
  ASSUME NEW S, NEW s \in Seq(S), NEW e \in S, ~Contains(s, e), IsInjective(s)
  PROVE  /\ Append(s, e) \in Seq(S) /\ Append(s, e) # <<>>
         /\ Len(Append(s, e)) = Len(s) + 1
         /\ IsInjective(Append(s, e))
         /\ \A x \in S : Contains(Append(s, e), x) <=> Contains(s, x) \/ x = e
<1> DEFINE r == Append(s, e)
<1>1. /\ r \in Seq(S) /\ r # <<>> /\ Len(r) = Len(s) + 1
      /\ \A i \in 1..Len(s) : r[i] = s[i]
      /\ r[Len(s) + 1] = e
  BY AppendProperties
<1> HIDE DEF r
<1>2. Len(s) \in Nat /\ DOMAIN s = 1..Len(s) /\ DOMAIN r = 1..Len(r)  BY <1>1, LenProperties
<1>3. \A a, b \in 1..Len(s) : s[a] = s[b] => a = b  BY <1>2 DEF IsInjective
<1>4. \A a \in 1..Len(s) : s[a] # e  BY DEF Contains
<1>5. \A i \in 1..Len(r) : i \in 1..Len(s) \/ i = Len(s) + 1  BY <1>1, <1>2
<1>6. (\A i \in 1..Len(s) : i \in 1..Len(r)) /\ Len(s) + 1 \in 1..Len(r)  BY <1>1, <1>2
<1>7. \A a, b \in 1..Len(r) : r[a] = r[b] => a = b  BY <1>1, <1>3, <1>4, <1>5
<1>8. IsInjective(r)  BY <1>2, <1>7 DEF IsInjective
<1>9. \A x \in S : Contains(r, x) <=> Contains(s, x) \/ x = e
  BY <1>1, <1>5, <1>6 DEF Contains
<1> QED  BY <1>1, <1>8, <1>9 DEF r

(* A queue with something in it.                                           *)
LEMMA NotEmpty ==
  ASSUME NEW S, NEW s \in Seq(S)
  PROVE  s # <<>> <=> \E x \in S : Contains(s, x)
<1>1. CASE s = <<>>
  <2>1. Len(s) = 0  BY <1>1
  <2>2. 1..Len(s) = {}  BY <2>1
  <2> QED  BY <1>1, <2>2 DEF Contains
<1>2. CASE s # <<>>
  <2>1. Len(s) \in Nat \ {0}  BY <1>2, EmptySeq
  <2>2. 1 \in 1..Len(s)  BY <2>1
  <2>3. s[1] \in S  BY <2>2, ElementOfSeq
  <2> QED  BY <1>2, <2>2, <2>3 DEF Contains
<1> QED  BY <1>1, <1>2

LEMMA SmallRemainder ==
  ASSUME NEW n \in Nat \ {0}, NEW x \in 0..n - 1
  PROVE  x % n = x
OBVIOUS

(* Going round from the cursor every position is found.                    *)
LEMMA RoundTheOrder ==
  ASSUME NEW n \in Nat \ {0}, NEW a \in 0..n - 1, NEW b \in 0..n - 1
  PROVE  \E d \in 0..n - 1 : (a + d) % n = b
<1>1. CASE a <= b
  <2>1. b - a \in 0..n - 1 /\ a + (b - a) = b  BY <1>1
  <2>2. b % n = b  OBVIOUS
  <2> QED  BY <2>1, <2>2
<1>2. CASE a > b
  <2>1. b - a + n \in 0..n - 1 /\ a + (b - a + n) = b + n  BY <1>2
  <2>2. (b + n) % n = b  OBVIOUS
  <2> QED  BY <2>1, <2>2
<1> QED  BY <1>1, <1>2

-----------------------------------------------------------------------------
(* The parts of the controller                                             *)

USE TurnAdmissionAssumption DEF TurnAdmissionAssumption

LEMMA InitSound == TurnInit => TurnInv
<1> SUFFICES ASSUME TurnInit PROVE TurnInv  OBVIOUS
<1>1. RunningItems = {} /\ WaitingItems = {}
  BY DEF TurnInit, RunningItems, WaitingItems, Running, Waiting
<1>2. <<>> \in Seq(Work) /\ <<>> \in Seq(Key) /\ Len(<<>>) = 0 /\ 0 \in Nat  BY EmptySeq
<1>3. \A x : ~Contains(<<>>, x)
  <2>1. 1..Len(<<>>) = {}  BY <1>2
  <2> QED  BY <2>1 DEF Contains
<1>4. IsInjective(<<>>)
  <2>1. DOMAIN <<>> = {}  BY <1>2
  <2> QED  BY <2>1 DEF IsInjective
<1>5. Types
  <2>1. status \in [Work -> Status]  BY DEF TurnInit, Status
  <2>2. activeKeys = {KeyOf[w] : w \in RunningItems}
    <3>1. {KeyOf[w] : w \in RunningItems} = {}  BY <1>1
    <3> QED  BY <3>1 DEF TurnInit
  <2>3. queues \in [Key -> Seq(Work)]  BY <1>2 DEF TurnInit
  <2>4. pc \in {"ready", "schedule", "expire", "finally"}  BY DEF TurnInit
  <2>5. late \subseteq HasDeadline \cap WaitingItems  BY DEF TurnInit
  <2>6. waiters \in 0..MaxWaiters  BY DEF TurnInit
  <2> QED  BY ONLY <2>1, <2>2, <2>3, <2>4, <2>5, <2>6 DEF Types
<1>6. Lined  BY <1>3, <1>4 DEF TurnInit, Lined, Waiting
<1>7. Ordered
  <2>1. \A k \in Key : Contains(keyOrder, k) <=> Busy(k)  BY <1>3 DEF TurnInit, Busy
  <2> QED  BY <1>2, <1>4, <2>1 DEF TurnInit, Ordered
<1>8. Counted  BY <1>1, FS_EmptySet DEF TurnInit, Counted
<1>9. Limited  BY DEF TurnInit, Limited
<1>10. OneTurnPerConversation  BY DEF TurnInit, OneTurnPerConversation, Running
<1>11. WorkConserving  BY DEF TurnInit, WorkConserving, Runnable
<1>12. Awake  BY DEF TurnInit, Awake
<1> QED  BY <1>5, <1>6, <1>7, <1>8, <1>9, <1>10, <1>11, <1>12 DEF TurnInv

(* What becomes of the two sets when one item gets a new status.           *)
LEMMA ItemSets ==
  ASSUME status \in [Work -> Status], NEW w \in Work, NEW code \in Status,
         status' = [status EXCEPT ![w] = code]
  PROVE  /\ status' \in [Work -> Status] /\ status'[w] = code
         /\ \A v \in Work \ {w} : status'[v] = status[v]
         /\ WaitingItems' = IF code = "queued" THEN WaitingItems \cup {w}
                                               ELSE WaitingItems \ {w}
         /\ RunningItems' = IF code \in {"running", "resolved"} THEN RunningItems \cup {w}
                                                                ELSE RunningItems \ {w}
<1>1. /\ status' \in [Work -> Status] /\ status'[w] = code
      /\ \A v \in Work \ {w} : status'[v] = status[v]
  OBVIOUS
<1>2. WaitingItems' = IF code = "queued" THEN WaitingItems \cup {w} ELSE WaitingItems \ {w}
  BY <1>1 DEF WaitingItems, Waiting
<1>3. RunningItems' = IF code \in {"running", "resolved"} THEN RunningItems \cup {w}
                                                         ELSE RunningItems \ {w}
  BY <1>1 DEF RunningItems, Running
<1> QED  BY <1>1, <1>2, <1>3

(* A queue gains or loses w with its item's status.                        *)
LEMMA QueueChanges ==
  ASSUME Types, Lined, NEW w \in Work, NEW code \in Status, NEW q \in Seq(Work),
         status' = [status EXCEPT ![w] = code],
         queues' = [queues EXCEPT ![KeyOf[w]] = q],
         IsInjective(q),
         \A x \in Work : Contains(q, x) <=>
            (Contains(queues[KeyOf[w]], x) /\ x # w) \/ (x = w /\ code = "queued")
  PROVE  Lined' /\ queues' \in [Key -> Seq(Work)] /\ queues'[KeyOf[w]] = q
         /\ \A k \in Key \ {KeyOf[w]} : queues'[k] = queues[k]
<1>1. KeyOf[w] \in Key  OBVIOUS
<1>2. /\ status'[w] = code /\ \A v \in Work \ {w} : status'[v] = status[v]
  BY ItemSets DEF Types
<1>3. /\ queues' \in [Key -> Seq(Work)] /\ queues'[KeyOf[w]] = q
      /\ \A k \in Key \ {KeyOf[w]} : queues'[k] = queues[k]
  BY <1>1 DEF Types
<1>4. ASSUME NEW k \in Key
      PROVE  /\ IsInjective(queues'[k])
             /\ \A x \in Work : Contains(queues'[k], x) <=> Waiting(x)' /\ KeyOf[x] = k
  <2>1. CASE k = KeyOf[w]
    <3>1. \A x \in Work : Contains(queues[k], x) <=> Waiting(x) /\ KeyOf[x] = k  BY DEF Lined
    <3>2. queues'[k] = q  BY <2>1, <1>3
    <3>3. \A x \in Work : Contains(q, x) <=> (Contains(queues[k], x) /\ x # w) \/ (x = w /\ code = "queued")
      BY <2>1
    <3>4. ASSUME NEW x \in Work PROVE Contains(q, x) <=> Waiting(x)' /\ KeyOf[x] = k
      <4>1. CASE x = w  BY <4>1, <3>3, <2>1, <1>2 DEF Waiting
      <4>2. CASE x # w
        <5>1. Waiting(x)' <=> Waiting(x)  BY <4>2, <1>2 DEF Waiting
        <5>2. Contains(q, x) <=> Contains(queues[k], x)  BY <4>2, <3>3
        <5> QED  BY <3>1, <5>1, <5>2
      <4> QED  BY <4>1, <4>2
    <3> QED  BY <3>2, <3>4
  <2>2. CASE k # KeyOf[w]
    <3>1. queues'[k] = queues[k]  BY <2>2, <1>3
    <3>2. IsInjective(queues[k]) /\ \A x \in Work : Contains(queues[k], x) <=> Waiting(x) /\ KeyOf[x] = k
      BY DEF Lined
    <3>3. \A x \in Work : KeyOf[x] = k => x # w  BY <2>2
    <3> QED  BY <3>1, <3>2, <3>3, <1>2 DEF Waiting
  <2> QED  BY <2>1, <2>2
<1>5. Lined'  BY <1>4 DEF Lined
<1> QED  BY <1>3, <1>5

(* removeKey takes the key that has no more work, and no other.            *)
LEMMA OrderTidied ==
  ASSUME Ordered, NEW k \in Key, NEW from \in 0..Len(keyOrder),
         keyOrder # <<>> => from < Len(keyOrder),
         TidyKey(k, from),
         \A j \in Key \ {k} : Busy(j)' <=> Busy(j),
         Busy(k)' => Busy(k)
  PROVE  Ordered'
<1>0. Len(keyOrder) \in Nat  BY LenProperties DEF Ordered
<1>1. CASE KeyGone(k) /\ Contains(keyOrder, k)
  <2> DEFINE next == CursorAfter(IndexOf(k), from)
  <2>1. /\ keyOrder' = RemoveAt(keyOrder, IndexOf(k) + 1)
        /\ cursor' = Wrapped(next)
    BY <1>1 DEF TidyKey
  <2>2. /\ Position(keyOrder, k) \in 1..Len(keyOrder) /\ keyOrder[Position(keyOrder, k)] = k
        /\ RemoveAt(keyOrder, Position(keyOrder, k)) \in Seq(Key)
        /\ Len(RemoveAt(keyOrder, Position(keyOrder, k))) = Len(keyOrder) - 1
        /\ IsInjective(RemoveAt(keyOrder, Position(keyOrder, k)))
        /\ \A x \in Key : Contains(RemoveAt(keyOrder, Position(keyOrder, k)), x)
                            <=> Contains(keyOrder, x) /\ x # k
    BY <1>1, RemoveAtDistinct DEF Ordered
  <2>3. IndexOf(k) + 1 = Position(keyOrder, k) /\ IndexOf(k) \in 0..Len(keyOrder) - 1
    BY <2>2, <1>0 DEF IndexOf
  <2>4. /\ keyOrder' \in Seq(Key) /\ Len(keyOrder') = Len(keyOrder) - 1
        /\ IsInjective(keyOrder')
        /\ \A x \in Key : Contains(keyOrder', x) <=> Contains(keyOrder, x) /\ x # k
    BY <2>1, <2>2, <2>3
  <2>5. next \in Nat  BY <2>3, <1>0 DEF CursorAfter
  <2> HIDE DEF next
  <2>6. cursor' \in 0..Len(keyOrder') /\ (keyOrder' # <<>> => cursor' < Len(keyOrder'))
    <3>1. keyOrder' # <<>> => Len(keyOrder') > 0
      <4>1. keyOrder' # <<>> => Len(keyOrder') \in Nat \ {0}  BY <2>4, EmptySeq
      <4> QED  BY <4>1
    <3>2. Len(keyOrder') \in Nat  BY <2>4, LenProperties
    <3> QED  BY <2>1, <2>4, <2>5, <3>1, <3>2, <1>0 DEF Wrapped
  <2>7. ~Busy(k)'  BY <1>1 DEF KeyGone, Busy
  <2>8. \A j \in Key : Contains(keyOrder', j) <=> Busy(j)'  BY <2>4, <2>7 DEF Ordered
  <2> QED  BY <2>4, <2>6, <2>8 DEF Ordered
<1>2. CASE ~(KeyGone(k) /\ Contains(keyOrder, k))
  <2>1. keyOrder' = keyOrder /\ cursor' = from  BY <1>2 DEF TidyKey
  <2>2. Contains(keyOrder, k) <=> Busy(k)'
    <3>1. Contains(keyOrder, k) => Busy(k)'  BY <1>2 DEF KeyGone, Busy
    <3> QED  BY <3>1 DEF Ordered
  <2>3. \A j \in Key : Contains(keyOrder, j) <=> Busy(j)'  BY <2>2 DEF Ordered
  <2>4. \A j \in Key : Contains(keyOrder', j) <=> Busy(j)'  BY <2>1, <2>3
  <2>5. keyOrder' \in Seq(Key) /\ IsInjective(keyOrder')  BY <2>1 DEF Ordered
  <2>6. cursor' \in 0..Len(keyOrder') /\ (keyOrder' # <<>> => cursor' < Len(keyOrder'))
    BY <2>1
  <2> QED  BY <2>4, <2>5, <2>6 DEF Ordered
<1> QED  BY <1>1, <1>2

(* pump finds every runnable key.                                          *)
LEMMA RunnableIsFound ==
  ASSUME Ordered, NEW k \in Key, Runnable(k)
  PROVE  RunnableDistances # {}
<1>1. Contains(keyOrder, k)  BY DEF Ordered, Runnable, Busy
<1>2. PICK i \in 1..Len(keyOrder) : keyOrder[i] = k  BY <1>1 DEF Contains
<1>3. keyOrder # <<>> /\ Len(keyOrder) \in Nat \ {0}
  BY <1>1, NotEmpty, EmptySeq DEF Ordered
<1>4. cursor \in 0..Len(keyOrder) - 1  BY <1>3 DEF Ordered
<1>5. PICK d \in 0..Len(keyOrder) - 1 : (cursor + d) % Len(keyOrder) = i - 1
  <2>1. i - 1 \in 0..Len(keyOrder) - 1  BY <1>3
  <2> QED  BY <2>1, <1>3, <1>4, RoundTheOrder
<1>6. KeyAt(d) = k
  <2>1. (i - 1) + 1 = i  OBVIOUS
  <2> QED  BY <2>1, <1>2, <1>5 DEF KeyAt
<1> QED  BY <1>5, <1>6 DEF RunnableDistances

(* What pump takes.                                                        *)
LEMMA ServedFacts ==
  ASSUME Types, Lined, Ordered, NEW d \in RunnableDistances
  PROVE  /\ KeyAt(d) \in Key /\ Runnable(KeyAt(d))
         /\ Head(queues[KeyAt(d)]) \in Work /\ Waiting(Head(queues[KeyAt(d)]))
         /\ KeyOf[Head(queues[KeyAt(d)])] = KeyAt(d)
         /\ (cursor + d + 1) % Len(keyOrder) \in 0..Len(keyOrder) - 1
<1>1. d \in 0..Len(keyOrder) - 1 /\ Runnable(KeyAt(d))  BY DEF RunnableDistances
<1>2. Len(keyOrder) \in Nat \ {0} /\ cursor \in Nat
  <2>1. Len(keyOrder) \in Nat  BY LenProperties DEF Ordered
  <2> QED  BY <1>1, <2>1 DEF Ordered
<1>3. /\ (cursor + d) % Len(keyOrder) \in 0..Len(keyOrder) - 1
      /\ (cursor + d + 1) % Len(keyOrder) \in 0..Len(keyOrder) - 1
  BY <1>1, <1>2
<1>4. KeyAt(d) \in Key
  <2>1. ((cursor + d) % Len(keyOrder)) + 1 \in 1..Len(keyOrder)  BY <1>2, <1>3
  <2> QED  BY <2>1, ElementOfSeq DEF KeyAt, Ordered
<1> DEFINE k == KeyAt(d)
           q == queues[k]
<1> HIDE DEF k
<1>5. k \in Key /\ Runnable(k)  BY <1>1, <1>4 DEF k
<1>6. q \in Seq(Work) /\ IsInjective(q) /\ q # <<>>  BY <1>5 DEF Types, Lined, Runnable
<1>7. Head(q) \in Work /\ Contains(q, Head(q))  BY <1>6, TailDistinct
<1>8. Waiting(Head(q)) /\ KeyOf[Head(q)] = k  BY <1>5, <1>7 DEF Lined
<1> QED  BY <1>3, <1>5, <1>7, <1>8 DEF k

(* Waiting work with nothing running can be started.                       *)
LEMMA SomebodyRunnable ==
  ASSUME Types, Lined, Counted, active = 0, queued # 0
  PROVE  \E k \in Key : Runnable(k)
<1>1. RunningItems = {}  BY FS_EmptySet DEF Counted
<1>2. WaitingItems # {}  BY FS_EmptySet DEF Counted
<1>3. PICK w \in Work : Waiting(w)  BY <1>2 DEF WaitingItems
<1>4. KeyOf[w] \in Key /\ Contains(queues[KeyOf[w]], w)  BY <1>3 DEF Lined
<1>5. queues[KeyOf[w]] # <<>>  BY <1>4, NotEmpty DEF Types
<1>6. activeKeys = {}  BY <1>1 DEF Types
<1> QED  BY <1>4, <1>5, <1>6 DEF Runnable

-----------------------------------------------------------------------------
(* The steps                                                               *)

LEMMA ScheduleKeepsInv ==
  ASSUME TurnInv, NEW w \in Work, Schedule(w)
  PROVE  TurnInv'
<1> USE DEF TurnInv
<1>0. pc = "ready" /\ status[w] = "new"  BY DEF Schedule
<1>1. ASSUME NEW code \in {"queue_timeout", "overloaded"}, Reject(w, code) PROVE TurnInv'
  <2> USE <1>1 DEF Reject
  <2>1. code \in Status /\ status \in [Work -> Status]  BY DEF Status, Settled, Types
  <2>2. /\ status' \in [Work -> Status]
        /\ WaitingItems' = WaitingItems /\ RunningItems' = RunningItems
        /\ status'[w] = code /\ \A v \in Work \ {w} : status'[v] = status[v]
    <3>1. /\ status' \in [Work -> Status] /\ status'[w] = code
          /\ \A v \in Work \ {w} : status'[v] = status[v]
          /\ WaitingItems' = IF code = "queued" THEN WaitingItems \cup {w}
                                                ELSE WaitingItems \ {w}
          /\ RunningItems' = IF code \in {"running", "resolved"} THEN RunningItems \cup {w}
                                                                 ELSE RunningItems \ {w}
      BY <2>1, ItemSets
    <3>2. w \notin WaitingItems /\ w \notin RunningItems
      BY <1>0 DEF WaitingItems, RunningItems, Waiting, Running
    <3> QED  BY <3>1, <3>2
  <2>3. Types'  BY <2>2 DEF Types
  <2>4. \A x \in Work : Waiting(x)' <=> Waiting(x)  BY <2>2 DEF WaitingItems
  <2>5. \A x \in Work : Running(x)' <=> Running(x)  BY <2>2 DEF RunningItems
  <2>6. Lined'  BY <2>4 DEF Lined
  <2>7. Ordered'  BY DEF Ordered, Busy
  <2>8. Counted'  BY <2>2 DEF Counted
  <2>9. Limited'  BY DEF Limited, Runnable
  <2>10. OneTurnPerConversation'  BY <2>5 DEF OneTurnPerConversation
  <2>11. WorkConserving'  BY DEF WorkConserving, Runnable
  <2>12. Awake'  BY DEF Awake
  <2> QED  BY <2>3, <2>6, <2>7, <2>8, <2>9, <2>10, <2>11, <2>12
<1>2. ASSUME ~QueueFull(w), Admit(w) PROVE TurnInv'
  <2> DEFINE k == KeyOf[w]
             q == Append(queues[k], w)
  <2>1. /\ k \in Key /\ queues[k] \in Seq(Work) /\ IsInjective(queues[k])
        /\ ~Contains(queues[k], w)
    BY <1>0 DEF Types, Lined, Waiting
  <2>2. /\ q \in Seq(Work) /\ q # <<>> /\ IsInjective(q)
        /\ \A x \in Work : Contains(q, x) <=> Contains(queues[k], x) \/ x = w
    BY <2>1, AppendDistinct
  <2>3. /\ queues' = [queues EXCEPT ![KeyOf[w]] = q]
        /\ keyOrder' = IF Contains(keyOrder, k) THEN keyOrder ELSE Append(keyOrder, k)
        /\ queued' = queued + 1 /\ status' = [status EXCEPT ![w] = "queued"]
        /\ pc' = "schedule"
        /\ UNCHANGED <<activeKeys, cursor, active, late, waiters>>
    BY <1>2 DEF Admit
  <2> HIDE DEF q
  <2>4. "queued" \in Status  BY DEF Status
  <2>5. /\ Lined' /\ queues' \in [Key -> Seq(Work)] /\ queues'[KeyOf[w]] = q
        /\ \A j \in Key \ {KeyOf[w]} : queues'[j] = queues[j]
    <3>1. \A x \in Work : Contains(q, x) <=>
            (Contains(queues[KeyOf[w]], x) /\ x # w) \/ (x = w /\ "queued" = "queued")
      BY <2>2
    <3> QED  BY <2>2, <2>3, <2>4, <3>1, QueueChanges
  <2>6. /\ status' \in [Work -> Status]
        /\ WaitingItems' = WaitingItems \cup {w} /\ RunningItems' = RunningItems
        /\ w \notin WaitingItems
    <3>1. /\ status' \in [Work -> Status]
          /\ WaitingItems' = WaitingItems \cup {w} /\ RunningItems' = RunningItems \ {w}
      BY <2>3, <2>4, ItemSets DEF Types
    <3>2. w \notin WaitingItems /\ w \notin RunningItems
      BY <1>0 DEF WaitingItems, RunningItems, Waiting, Running
    <3> QED  BY <3>1, <3>2
  <2>7. Types'
    <3>1. pc' \in {"ready", "schedule", "expire", "finally"}  BY <2>3
    <3>2. activeKeys' = {KeyOf[v] : v \in RunningItems'}  BY <2>3, <2>6 DEF Types
    <3>3. late' \subseteq HasDeadline \cap WaitingItems'  BY <2>3, <2>6 DEF Types
    <3>4. waiters' \in 0..MaxWaiters  BY <2>3 DEF Types
    <3> QED  BY <2>5, <2>6, <3>1, <3>2, <3>3, <3>4 DEF Types
  <2>8. Ordered'
    <3>0. /\ keyOrder \in Seq(Key) /\ IsInjective(keyOrder) /\ Len(keyOrder) \in Nat
          /\ \A j \in Key : Contains(keyOrder, j) <=> Busy(j)
          /\ cursor \in 0..Len(keyOrder) /\ (keyOrder # <<>> => cursor < Len(keyOrder))
      BY LenProperties DEF Ordered
    <3>1. Busy(k)'  BY <2>2, <2>5 DEF Busy
    <3>2. \A j \in Key \ {k} : Busy(j)' <=> Busy(j)  BY <2>3, <2>5 DEF Busy
    <3>3. CASE Contains(keyOrder, k)
      <4>1. keyOrder' = keyOrder /\ cursor' = cursor  BY <3>3, <2>3
      <4>2. \A j \in Key : Contains(keyOrder, j) <=> Busy(j)'  BY <3>0, <3>1, <3>2, <3>3
      <4> QED  BY <4>1, <4>2, <3>0 DEF Ordered
    <3>4. CASE ~Contains(keyOrder, k)
      <4>1. keyOrder' = Append(keyOrder, k) /\ cursor' = cursor  BY <3>4, <2>3
      <4>2. /\ keyOrder' \in Seq(Key) /\ Len(keyOrder') = Len(keyOrder) + 1
            /\ IsInjective(keyOrder')
            /\ \A x \in Key : Contains(keyOrder', x) <=> Contains(keyOrder, x) \/ x = k
        BY <4>1, <3>0, <3>4, <2>1, AppendDistinct
      <4>3. \A j \in Key : Contains(keyOrder', j) <=> Busy(j)'  BY <4>2, <3>0, <3>1, <3>2
      <4>4. cursor' \in 0..Len(keyOrder') /\ cursor' < Len(keyOrder')  BY <4>1, <4>2, <3>0
      <4> QED  BY <4>2, <4>3, <4>4 DEF Ordered
    <3> QED  BY <3>3, <3>4
  <2>9. Counted'
    <3>1. /\ IsFiniteSet(WaitingItems \cup {w})
          /\ Cardinality(WaitingItems \cup {w}) = Cardinality(WaitingItems) + 1
      BY <2>6, FS_AddElement DEF Counted
    <3> QED  BY <3>1, <2>3, <2>6 DEF Counted
  <2>10. Limited'
    <3>1. active \in Nat /\ queued \in Nat  BY FS_CardinalityType DEF Counted
    <3>2. queued <= MaxQueued  BY <1>0 DEF Limited
    <3>3. CASE queued < MaxQueued  BY <3>1, <3>3, <2>3 DEF Limited
    <3>4. CASE queued = MaxQueued
      <4>1. active < MaxConcurrent /\ k \notin activeKeys
        BY <1>2, <3>1, <3>4 DEF QueueFull, CanStartImmediately
      <4>2. Runnable(k)'  BY <4>1, <2>2, <2>3, <2>5 DEF Runnable
      <4>3. active' < MaxConcurrent /\ active' <= MaxConcurrent /\ queued' = MaxQueued + 1
        BY <4>1, <3>1, <3>4, <2>3
      <4> QED  BY <4>2, <4>3, <2>1, <2>3 DEF Limited
    <3> QED  BY <3>1, <3>2, <3>3, <3>4
  <2>11. OneTurnPerConversation'
    <3>1. \A x \in Work : Running(x)' <=> Running(x)  BY <2>6 DEF RunningItems
    <3> QED  BY <3>1 DEF OneTurnPerConversation
  <2>12. WorkConserving'  BY <2>3 DEF WorkConserving
  <2>13. Awake'  BY <1>0, <2>3 DEF Awake
  <2> QED  BY <2>5, <2>7, <2>8, <2>9, <2>10, <2>11, <2>12, <2>13
<1> QED  BY <1>1, <1>2 DEF Schedule

LEMMA DeadlineKeepsInv ==
  ASSUME TurnInv, NEW w \in Work, DeadlinePasses(w)
  PROVE  TurnInv'
<1> USE DEF TurnInv, DeadlinePasses
<1>1. WaitingItems' = WaitingItems /\ RunningItems' = RunningItems
  BY DEF WaitingItems, RunningItems, Waiting, Running
<1>2. w \in HasDeadline \cap WaitingItems  BY DEF WaitingItems, Waiting
<1>3. Types'  BY <1>1, <1>2 DEF Types
<1>4. Lined'  BY DEF Lined, Waiting
<1>5. Ordered'  BY DEF Ordered, Busy
<1>6. Counted'  BY <1>1 DEF Counted
<1>7. Limited'  BY DEF Limited, Runnable
<1>8. OneTurnPerConversation'  BY DEF OneTurnPerConversation, Running
<1>9. WorkConserving'  BY DEF WorkConserving, Runnable
<1>10. Awake'  BY DEF Awake
<1> QED  BY <1>3, <1>4, <1>5, <1>6, <1>7, <1>8, <1>9, <1>10

(* An item leaves its queue and is told that it came too late.             *)
LEMMA ExpireKeepsInv ==
  ASSUME TurnInv, NEW w \in Work, Expire(w)
  PROVE  TurnInv'
<1> USE DEF TurnInv
<1> DEFINE k == KeyOf[w]
           q == RemoveAt(queues[k], Position(queues[k], w))
<1>0. /\ pc = "ready" /\ w \in late
      /\ queues' = [queues EXCEPT ![KeyOf[w]] = q]
      /\ queued' = queued - 1 /\ late' = late \ {w}
      /\ status' = [status EXCEPT ![w] = "queue_timeout"]
      /\ UNCHANGED <<activeKeys, active, waiters>>
      /\ TidyKey(KeyOf[w], cursor) /\ pc' = "expire"
  BY DEF Expire, Types
<1>1. w \in WaitingItems /\ w \notin RunningItems
  BY <1>0 DEF Types, WaitingItems, RunningItems, Waiting, Running
<1>2. /\ k \in Key /\ queues[k] \in Seq(Work) /\ IsInjective(queues[k])
      /\ Contains(queues[k], w)
  BY <1>1 DEF Types, Lined, WaitingItems
<1>3. /\ q \in Seq(Work) /\ IsInjective(q)
      /\ \A x \in Work : Contains(q, x) <=> Contains(queues[k], x) /\ x # w
  BY <1>2, RemoveAtDistinct
<1> HIDE DEF q
<1>4. "queue_timeout" \in Status  BY DEF Status, Settled
<1>5. /\ Lined' /\ queues' \in [Key -> Seq(Work)] /\ queues'[KeyOf[w]] = q
      /\ \A j \in Key \ {KeyOf[w]} : queues'[j] = queues[j]
  <2>1. \A x \in Work : Contains(q, x) <=>
          (Contains(queues[KeyOf[w]], x) /\ x # w) \/ (x = w /\ "queue_timeout" = "queued")
    <3>1. "queue_timeout" # "queued"  OBVIOUS
    <3> QED  BY <1>3, <3>1
  <2> QED  BY <1>0, <1>3, <1>4, <2>1, QueueChanges
<1>6. /\ status' \in [Work -> Status]
      /\ WaitingItems' = WaitingItems \ {w} /\ RunningItems' = RunningItems
  <2>1. /\ status' \in [Work -> Status]
        /\ WaitingItems' = WaitingItems \ {w} /\ RunningItems' = RunningItems \ {w}
    BY <1>0, <1>4, ItemSets DEF Types
  <2> QED  BY <2>1, <1>1
<1>7. Types'
  <2>1. pc' \in {"ready", "schedule", "expire", "finally"}  BY <1>0
  <2>2. activeKeys' = {KeyOf[v] : v \in RunningItems'}  BY <1>0, <1>6 DEF Types
  <2>3. late' \subseteq HasDeadline \cap WaitingItems'  BY <1>0, <1>6 DEF Types
  <2>4. waiters' \in 0..MaxWaiters  BY <1>0 DEF Types
  <2> QED  BY <1>5, <1>6, <2>1, <2>2, <2>3, <2>4 DEF Types
<1>8. Ordered'
  <2>1. queues[k] # <<>>  BY <1>2, NotEmpty
  <2>2. Busy(k)  BY <2>1 DEF Busy
  <2>3. \A j \in Key \ {k} : Busy(j)' <=> Busy(j)  BY <1>0, <1>5 DEF Busy
  <2>4. cursor \in 0..Len(keyOrder) /\ (keyOrder # <<>> => cursor < Len(keyOrder))
    BY DEF Ordered
  <2> QED  BY <1>0, <1>2, <2>2, <2>3, <2>4, OrderTidied
<1>9. Counted'
  <2>1. /\ IsFiniteSet(WaitingItems \ {w})
        /\ Cardinality(WaitingItems \ {w}) = Cardinality(WaitingItems) - 1
    BY <1>1, FS_RemoveElement DEF Counted
  <2> QED  BY <2>1, <1>0, <1>6 DEF Counted
<1>10. Limited'
  <2>1. active \in Nat /\ queued \in Nat  BY FS_CardinalityType DEF Counted
  <2> QED  BY <1>0, <2>1 DEF Limited
<1>11. OneTurnPerConversation'
  <2>1. \A x \in Work : Running(x)' <=> Running(x)  BY <1>6 DEF RunningItems
  <2> QED  BY <2>1 DEF OneTurnPerConversation
<1>12. WorkConserving' /\ Awake'  BY <1>0 DEF WorkConserving, Awake
<1> QED  BY <1>5, <1>7, <1>8, <1>9, <1>10, <1>11, <1>12

(* An item leaves the front of its queue and starts, or came too late.     *)
LEMMA ServeKeepsInv ==
  ASSUME TurnInv, PumpServe
  PROVE  TurnInv'
<1> USE DEF TurnInv
<1>1. PICK d \in RunnableDistances :
        LET k == KeyAt(d)
            w == Head(queues[k])
        IN
        /\ queues' = [queues EXCEPT ![k] = Tail(@)]
        /\ IF w \in late
           THEN /\ status' = [status EXCEPT ![w] = "queue_timeout"]
                /\ UNCHANGED <<active, activeKeys>>
           ELSE /\ status' = [status EXCEPT ![w] = "running"]
                /\ active' = active + 1
                /\ activeKeys' = activeKeys \cup {k}
        /\ late' = late \ {w}
        /\ TidyKey(k, (cursor + d + 1) % Len(keyOrder))
  BY DEF PumpServe
<1> DEFINE k == KeyAt(d)
           w == Head(queues[k])
           q == Tail(queues[k])
           from == (cursor + d + 1) % Len(keyOrder)
           code == IF w \in late THEN "queue_timeout" ELSE "running"
<1>2. /\ pc # "ready" /\ active < MaxConcurrent
      /\ queued' = queued - 1 /\ pc' = pc /\ waiters' = waiters
  BY DEF PumpServe, PumpContinues
<1>3. /\ k \in Key /\ Runnable(k) /\ w \in Work /\ Waiting(w) /\ KeyOf[w] = k
      /\ from \in 0..Len(keyOrder) - 1
  BY ServedFacts
<1>4. /\ queues[k] \in Seq(Work) /\ queues[k] # <<>> /\ IsInjective(queues[k])
  BY <1>3 DEF Types, Lined, Runnable
<1>5. /\ q \in Seq(Work) /\ IsInjective(q)
      /\ \A x \in Work : Contains(q, x) <=> Contains(queues[k], x) /\ x # w
  BY <1>4, TailDistinct
<1>6. /\ queues' = [queues EXCEPT ![KeyOf[w]] = q]
      /\ status' = [status EXCEPT ![w] = code]
      /\ active' = IF w \in late THEN active ELSE active + 1
      /\ activeKeys' = IF w \in late THEN activeKeys ELSE activeKeys \cup {k}
      /\ late' = late \ {w}
      /\ TidyKey(k, from)
  BY <1>1, <1>3 DEF Types
<1>7. code \in Status /\ code # "queued" /\ code # "resolved"  BY DEF Status, Settled
<1>8. code \in {"running", "resolved"} <=> w \notin late  OBVIOUS
<1> HIDE DEF k, w, q, from, code
<1>9. /\ Lined' /\ queues' \in [Key -> Seq(Work)]
      /\ \A j \in Key \ {k} : queues'[j] = queues[j]
  <2>1. \A x \in Work : Contains(q, x) <=>
          (Contains(queues[KeyOf[w]], x) /\ x # w) \/ (x = w /\ code = "queued")
    BY <1>3, <1>5, <1>7
  <2>2. w \in Work /\ code \in Status /\ q \in Seq(Work) /\ IsInjective(q)
    BY <1>3, <1>5, <1>7
  <2> QED  BY <1>3, <1>6, <2>1, <2>2, QueueChanges
<1>10. /\ status' \in [Work -> Status]
       /\ WaitingItems' = WaitingItems \ {w} /\ w \in WaitingItems
       /\ RunningItems' = IF w \in late THEN RunningItems ELSE RunningItems \cup {w}
       /\ w \notin RunningItems
  <2>1. /\ status' \in [Work -> Status]
        /\ WaitingItems' = IF code = "queued" THEN WaitingItems \cup {w}
                                              ELSE WaitingItems \ {w}
        /\ RunningItems' = IF code \in {"running", "resolved"} THEN RunningItems \cup {w}
                                                               ELSE RunningItems \ {w}
    BY <1>3, <1>6, <1>7, ItemSets DEF Types
  <2>2. w \in WaitingItems /\ w \notin RunningItems
    BY <1>3 DEF WaitingItems, RunningItems, Waiting, Running
  <2> QED  BY <2>1, <2>2, <1>7, <1>8
<1>11. k \notin activeKeys  BY <1>3 DEF Runnable
<1>12. activeKeys' = {KeyOf[v] : v \in RunningItems'}
  <2>1. CASE w \in late  BY <2>1, <1>6, <1>10 DEF Types
  <2>2. CASE w \notin late
    <3>1. activeKeys' = {KeyOf[v] : v \in RunningItems} \cup {k}  BY <2>2, <1>6 DEF Types
    <3>2. RunningItems' = RunningItems \cup {w}  BY <2>2, <1>10
    <3> QED  BY <3>1, <3>2, <1>3
  <2> QED  BY <2>1, <2>2
<1>13. Types'
  <2>1. pc' \in {"ready", "schedule", "expire", "finally"}  BY <1>2 DEF Types
  <2>2. late' \subseteq HasDeadline \cap WaitingItems'  BY <1>6, <1>10 DEF Types
  <2>3. waiters' \in 0..MaxWaiters  BY <1>2 DEF Types
  <2> QED  BY <1>9, <1>10, <1>12, <2>1, <2>2, <2>3 DEF Types
<1>14. Ordered'
  <2>1. Busy(k)  BY <1>4 DEF Busy
  <2>2. \A j \in Key \ {k} : Busy(j)' <=> Busy(j)  BY <1>6, <1>9 DEF Busy
  <2>3. Len(keyOrder) \in Nat  BY LenProperties DEF Ordered
  <2>4. from \in 0..Len(keyOrder) /\ from < Len(keyOrder)  BY <1>3, <2>3
  <2> QED  BY <1>3, <1>6, <2>1, <2>2, <2>4, OrderTidied
<1>15. active \in Nat /\ queued \in Nat  BY FS_CardinalityType DEF Counted
<1>16. Counted'
  <2>1. /\ IsFiniteSet(WaitingItems \ {w})
        /\ Cardinality(WaitingItems \ {w}) = Cardinality(WaitingItems) - 1
    BY <1>10, FS_RemoveElement DEF Counted
  <2>2. /\ IsFiniteSet(RunningItems \cup {w})
        /\ Cardinality(RunningItems \cup {w}) = Cardinality(RunningItems) + 1
    BY <1>10, FS_AddElement DEF Counted
  <2>3. IsFiniteSet(RunningItems') /\ active' = Cardinality(RunningItems')
    <3>1. CASE w \in late  BY <3>1, <1>6, <1>10 DEF Counted
    <3>2. CASE w \notin late  BY <3>2, <2>2, <1>6, <1>10 DEF Counted
    <3> QED  BY <3>1, <3>2
  <2>4. IsFiniteSet(WaitingItems') /\ queued' = Cardinality(WaitingItems')
    BY <2>1, <1>2, <1>10 DEF Counted
  <2> QED  BY <2>3, <2>4 DEF Counted
<1>17. active' <= MaxConcurrent /\ active' >= active  BY <1>2, <1>6, <1>15
<1>18. Limited'
  <2>1. queued <= MaxQueued + 1  BY <1>15 DEF Limited
  <2>2. queued' <= MaxQueued  BY <2>1, <1>2, <1>15
  <2> QED  BY <2>2, <1>17 DEF Limited
<1>19. OneTurnPerConversation'
  <2>1. CASE w \in late
    <3>1. \A x \in Work : Running(x)' <=> Running(x)  BY <2>1, <1>10 DEF RunningItems
    <3> QED  BY <3>1 DEF OneTurnPerConversation
  <2>2. CASE w \notin late
    <3>1. \A x \in Work : Running(x)' <=> Running(x) \/ x = w
      BY <2>2, <1>3, <1>10 DEF RunningItems
    <3>2. \A x \in Work : Running(x) => KeyOf[x] # k  BY <1>11 DEF Types, RunningItems
    <3> QED  BY <3>1, <3>2, <1>3 DEF OneTurnPerConversation
  <2> QED  BY <2>1, <2>2
<1>20. WorkConserving'  BY <1>2 DEF WorkConserving
<1>21. Awake'
  <2>1. pc \in {"ready", "schedule"} /\ waiters > 0 => active > 0  BY DEF Awake
  <2> QED  BY <2>1, <1>2, <1>15, <1>17, <1>6 DEF Awake
<1> QED  BY <1>9, <1>13, <1>14, <1>16, <1>18, <1>19, <1>20, <1>21

LEMMA DoneKeepsInv ==
  ASSUME TurnInv, PumpDone
  PROVE  TurnInv'
<1> USE DEF TurnInv
<1>1. /\ pc # "ready" /\ (active = MaxConcurrent \/ RunnableDistances = {})
      /\ waiters' = IF NotifiesIdle /\ active = 0 /\ queued = 0 THEN 0 ELSE waiters
      /\ pc' = "ready"
      /\ UNCHANGED <<queues, keyOrder, activeKeys, cursor, active, queued, status, late>>
  BY DEF PumpDone
<1>2. WaitingItems' = WaitingItems /\ RunningItems' = RunningItems
  BY <1>1 DEF WaitingItems, RunningItems, Waiting, Running
<1>3. active \in Nat /\ queued \in Nat  BY FS_CardinalityType DEF Counted
<1>4. active < MaxConcurrent => \A k \in Key : ~Runnable(k)
  BY <1>1, <1>3, RunnableIsFound
<1>5. active = 0 => queued = 0
  <2>1. active = 0 => active < MaxConcurrent  OBVIOUS
  <2> QED  BY <2>1, <1>4, SomebodyRunnable
<1>6. Types'
  <2>1. pc' \in {"ready", "schedule", "expire", "finally"}  BY <1>1
  <2>2. queues' \in [Key -> Seq(Work)] /\ status' \in [Work -> Status]  BY <1>1 DEF Types
  <2>3. activeKeys' = {KeyOf[v] : v \in RunningItems'}  BY <1>1, <1>2 DEF Types
  <2>4. late' \subseteq HasDeadline \cap WaitingItems'  BY <1>1, <1>2 DEF Types
  <2>5. waiters' \in 0..MaxWaiters  BY <1>1 DEF Types
  <2> QED  BY <2>1, <2>2, <2>3, <2>4, <2>5 DEF Types
<1>7. Lined'  BY <1>1 DEF Lined, Waiting
<1>8. Ordered'  BY <1>1 DEF Ordered, Busy
<1>9. Counted'  BY <1>1, <1>2 DEF Counted
<1>10. Limited'
  <2>1. active <= MaxConcurrent /\ queued <= MaxQueued  BY <1>4 DEF Limited
  <2> QED  BY <2>1, <1>1 DEF Limited
<1>11. OneTurnPerConversation'  BY <1>1 DEF OneTurnPerConversation, Running
<1>12. WorkConserving'  BY <1>1, <1>4 DEF WorkConserving, Runnable
<1>13. Awake'
  <2> SUFFICES ASSUME waiters' > 0, active = 0 PROVE FALSE  BY <1>1, <1>3 DEF Awake
  <2>1. ~NotifiesIdle /\ waiters' = waiters  BY <1>1, <1>5
  <2>2. pc = "schedule"  BY <2>1, <1>1 DEF NotifiesIdle, Types
  <2> QED  BY <2>1, <2>2 DEF Awake
<1> QED  BY <1>6, <1>7, <1>8, <1>9, <1>10, <1>11, <1>12, <1>13

LEMMA ResolveKeepsInv ==
  ASSUME TurnInv, NEW w \in Work, Resolve(w)
  PROVE  TurnInv'
<1> USE DEF TurnInv, Resolve
<1>1. "resolved" \in Status /\ status \in [Work -> Status]  BY DEF Status, Types
<1>2. /\ status' \in [Work -> Status]
      /\ WaitingItems' = WaitingItems /\ RunningItems' = RunningItems
  <2>1. /\ status' \in [Work -> Status]
        /\ WaitingItems' = WaitingItems \ {w} /\ RunningItems' = RunningItems \cup {w}
    BY <1>1, ItemSets
  <2>2. w \notin WaitingItems /\ w \in RunningItems
    BY DEF WaitingItems, RunningItems, Waiting, Running
  <2> QED  BY <2>1, <2>2
<1>3. Types'  BY <1>2 DEF Types
<1>4. \A x \in Work : (Waiting(x)' <=> Waiting(x)) /\ (Running(x)' <=> Running(x))
  BY <1>2 DEF WaitingItems, RunningItems
<1>5. Lined'  BY <1>4 DEF Lined
<1>6. Ordered'  BY DEF Ordered, Busy
<1>7. Counted'  BY <1>2 DEF Counted
<1>8. Limited'  BY DEF Limited, Runnable
<1>9. OneTurnPerConversation'  BY <1>4 DEF OneTurnPerConversation
<1>10. WorkConserving'  BY DEF WorkConserving, Runnable
<1>11. Awake'  BY DEF Awake
<1> QED  BY <1>3, <1>5, <1>6, <1>7, <1>8, <1>9, <1>10, <1>11

LEMMA ReleaseKeepsInv ==
  ASSUME TurnInv, NEW w \in Work, Release(w)
  PROVE  TurnInv'
<1> USE DEF TurnInv
<1>1. /\ pc = "ready" /\ status[w] = "resolved"
      /\ status' = [status EXCEPT ![w] = "done"]
      /\ active' = active - 1 /\ activeKeys' = activeKeys \ {KeyOf[w]}
      /\ queues' = queues /\ queued' = queued /\ late' = late /\ waiters' = waiters
      /\ TidyKey(KeyOf[w], cursor) /\ pc' = "finally"
  BY DEF Release
<1>2. "done" \in Status /\ status \in [Work -> Status]  BY DEF Status, Settled, Types
<1>3. w \notin WaitingItems /\ w \in RunningItems
  BY <1>1 DEF WaitingItems, RunningItems, Waiting, Running
<1>4. /\ status' \in [Work -> Status]
      /\ WaitingItems' = WaitingItems /\ RunningItems' = RunningItems \ {w}
  <2>1. /\ status' \in [Work -> Status]
        /\ WaitingItems' = WaitingItems \ {w} /\ RunningItems' = RunningItems \ {w}
    BY <1>1, <1>2, ItemSets
  <2> QED  BY <2>1, <1>3
<1>5. \A x \in Work : (Waiting(x)' <=> Waiting(x)) /\ (Running(x)' <=> Running(x) /\ x # w)
  BY <1>4 DEF WaitingItems, RunningItems
<1>6. activeKeys' = {KeyOf[v] : v \in RunningItems'}
  <2>1. activeKeys = {KeyOf[v] : v \in RunningItems}  BY DEF Types
  <2>2. \A v \in RunningItems : KeyOf[v] = KeyOf[w] => v = w
    BY <1>3 DEF OneTurnPerConversation, RunningItems
  <2> QED  BY <2>1, <2>2, <1>1, <1>4
<1>7. Types'
  <2>1. pc' \in {"ready", "schedule", "expire", "finally"}  BY <1>1
  <2>2. queues' \in [Key -> Seq(Work)] /\ waiters' \in 0..MaxWaiters  BY <1>1 DEF Types
  <2>3. late' \subseteq HasDeadline \cap WaitingItems'  BY <1>1, <1>4 DEF Types
  <2> QED  BY <1>4, <1>6, <2>1, <2>2, <2>3 DEF Types
<1>8. Lined'  BY <1>1, <1>5 DEF Lined
<1>9. Ordered'
  <2>1. KeyOf[w] \in Key /\ KeyOf[w] \in activeKeys  BY <1>3 DEF Types
  <2>2. Busy(KeyOf[w])  BY <2>1 DEF Busy
  <2>3. \A j \in Key \ {KeyOf[w]} : Busy(j)' <=> Busy(j)  BY <1>1 DEF Busy
  <2>4. cursor \in 0..Len(keyOrder) /\ (keyOrder # <<>> => cursor < Len(keyOrder))
    BY DEF Ordered
  <2> QED  BY <1>1, <2>1, <2>2, <2>3, <2>4, OrderTidied
<1>10. Counted'
  <2>1. /\ IsFiniteSet(RunningItems \ {w})
        /\ Cardinality(RunningItems \ {w}) = Cardinality(RunningItems) - 1
    BY <1>3, FS_RemoveElement DEF Counted
  <2> QED  BY <2>1, <1>1, <1>4 DEF Counted
<1>11. Limited'
  <2>1. active \in Nat  BY FS_CardinalityType DEF Counted
  <2> QED  BY <2>1, <1>1 DEF Limited
<1>12. OneTurnPerConversation'  BY <1>5 DEF OneTurnPerConversation
<1>13. WorkConserving' /\ Awake'  BY <1>1 DEF WorkConserving, Awake
<1> QED  BY <1>7, <1>8, <1>9, <1>10, <1>11, <1>12, <1>13

LEMMA WaitKeepsInv ==
  ASSUME TurnInv, WaitForIdle
  PROVE  TurnInv'
<1> USE DEF TurnInv, WaitForIdle
<1>1. active \in Nat /\ queued \in Nat  BY FS_CardinalityType DEF Counted
<1>2. active > 0
  <2>1. CASE active = 0
    <3>1. \E k \in Key : Runnable(k)  BY <2>1, SomebodyRunnable
    <3>2. active < MaxConcurrent  BY <2>1
    <3> QED  BY <3>1, <3>2 DEF WorkConserving
  <2> QED  BY <2>1, <1>1
<1>3. WaitingItems' = WaitingItems /\ RunningItems' = RunningItems
  BY DEF WaitingItems, RunningItems, Waiting, Running
<1>4. Types'  BY <1>3 DEF Types
<1>5. Lined'  BY DEF Lined, Waiting
<1>6. Ordered'  BY DEF Ordered, Busy
<1>7. Counted'  BY <1>3 DEF Counted
<1>8. Limited'  BY DEF Limited, Runnable
<1>9. OneTurnPerConversation'  BY DEF OneTurnPerConversation, Running
<1>10. WorkConserving'  BY DEF WorkConserving, Runnable
<1>11. Awake'  BY <1>2 DEF Awake
<1> QED  BY <1>4, <1>5, <1>6, <1>7, <1>8, <1>9, <1>10, <1>11

LEMMA StepKeepsInv == TurnInv /\ [TurnNext]_turnVars => TurnInv'
<1> SUFFICES ASSUME TurnInv, [TurnNext]_turnVars PROVE TurnInv'  OBVIOUS
<1>1. CASE UNCHANGED turnVars
  <2> USE <1>1 DEF turnVars, TurnInv
  <2>1. WaitingItems' = WaitingItems /\ RunningItems' = RunningItems
    BY DEF WaitingItems, RunningItems, Waiting, Running
  <2>2. Types'  BY <2>1 DEF Types
  <2>3. Lined'  BY DEF Lined, Waiting
  <2>4. Ordered'  BY DEF Ordered, Busy
  <2>5. Counted'  BY <2>1 DEF Counted
  <2>6. Limited'  BY DEF Limited, Runnable
  <2>7. OneTurnPerConversation'  BY DEF OneTurnPerConversation, Running
  <2>8. WorkConserving' /\ Awake'  BY DEF WorkConserving, Runnable, Awake
  <2> QED  BY <2>2, <2>3, <2>4, <2>5, <2>6, <2>7, <2>8
<1>2. CASE TurnNext
  BY <1>2, ScheduleKeepsInv, DeadlineKeepsInv, ExpireKeepsInv, ServeKeepsInv, DoneKeepsInv,
     ResolveKeepsInv, ReleaseKeepsInv, WaitKeepsInv DEF TurnNext
<1> QED  BY <1>1, <1>2

LEMMA InvImpliesConsistent == TurnInv => TurnsConsistent
<1> SUFFICES ASSUME TurnInv PROVE TurnsConsistent  OBVIOUS
<1> USE DEF TurnInv
<1>1. active \in Nat /\ queued \in Nat  BY FS_CardinalityType DEF Counted
<1>2. Len(keyOrder) \in Nat  BY LenProperties DEF Ordered
<1>3. TurnTypeOK
  <2>1. activeKeys \subseteq Key  BY DEF Types, RunningItems
  <2>2. active \in 0..MaxConcurrent /\ queued \in 0..MaxQueued + 1  BY <1>1 DEF Limited
  <2>3. late \subseteq HasDeadline  BY DEF Types
  <2> QED  BY <2>1, <2>2, <2>3 DEF Types, Ordered, TurnTypeOK
<1>4. CountersTruthful
  BY DEF Counted, Limited, CountersTruthful, RunningItems, WaitingItems
<1>5. KeyOrderTidy
  <2>1. ToSet(keyOrder) = activeKeys \cup {k \in Key : queues[k] # <<>>}
    <3>0. keyOrder \in Seq(Key) /\ DOMAIN keyOrder = 1..Len(keyOrder)
      BY LenProperties DEF Ordered
    <3>1. \A k \in Key : k \in ToSet(keyOrder) <=> Contains(keyOrder, k)
      BY <3>0 DEF ToSet, Contains
    <3>2. ToSet(keyOrder) \subseteq Key  BY <3>0, ElementOfSeq DEF ToSet
    <3>3. activeKeys \subseteq Key  BY DEF Types, RunningItems
    <3>4. \A k \in Key : Contains(keyOrder, k) <=> Busy(k)  BY DEF Ordered
    <3> QED  BY <3>1, <3>2, <3>3, <3>4 DEF Busy
  <2>2. IsInjective(keyOrder)  BY DEF Ordered
  <2>3. activeKeys = {KeyOf[w] : w \in {v \in Work : Running(v)}}  BY DEF Types, RunningItems
  <2>4. \A w \in Work : Waiting(w) <=> Contains(queues[KeyOf[w]], w)  BY DEF Lined
  <2> QED  BY <2>1, <2>2, <2>3, <2>4 DEF KeyOrderTidy
<1>6. IdleWaitersHaveWork  BY DEF Awake, IdleWaitersHaveWork
<1> QED  BY <1>3, <1>4, <1>5, <1>6 DEF TurnsConsistent

(* The bookkeeping of TurnAdmissionController is right between any two of  *)
(* its callbacks, for any number of conversations, items and slots: true   *)
(* counters within their limits, one workflow for a conversation, no idle  *)
(* slot with work for it, a tidy order and no sleeper without a waker.     *)
THEOREM TurnsStayConsistent == TurnSpec => []TurnsConsistent
<1>1. TurnInit => TurnInv  BY InitSound
<1>2. TurnInv /\ [TurnNext]_turnVars => TurnInv'  BY StepKeepsInv
<1>3. TurnInv => TurnsConsistent  BY InvImpliesConsistent
<1> QED  BY <1>1, <1>2, <1>3, PTL DEF TurnSpec

-----------------------------------------------------------------------------
(* The order of service                                                    *)

LEMMA PositionOfEntry ==
  ASSUME NEW S, NEW s \in Seq(S), IsInjective(s), NEW i \in 1..Len(s)
  PROVE  Position(s, s[i]) = i
<1>1. Position(s, s[i]) \in 1..Len(s) /\ s[Position(s, s[i])] = s[i]  BY DEF Position
<1>2. DOMAIN s = 1..Len(s)  BY LenProperties
<1> QED  BY <1>1, <1>2 DEF IsInjective

(* InFront, of any order and cursor.                                       *)
Entry(order, from, distance) == order[((from + distance) % Len(order)) + 1]
Ahead(order, from, k) ==
  {Entry(order, from, d) : d \in {e \in 0..Len(order) - 1 :
                                     \A f \in 0..e : Entry(order, from, f) # k}}

(* In front of a key the cursor has yet to reach are those in between.     *)
LEMMA AheadIsBetween ==
  ASSUME NEW order \in Seq(Key), IsInjective(order), NEW k \in Key, Contains(order, k),
         NEW from \in Nat, from < Position(order, k)
  PROVE  Ahead(order, from, k) = {order[i] : i \in from + 1..Position(order, k) - 1}
<1> DEFINE n == Len(order)
           p == Position(order, k)
<1>1. p \in 1..n /\ order[p] = k  BY DEF Contains, Position
<1>2. n \in Nat /\ DOMAIN order = 1..n  BY LenProperties
<1>3. \A i \in 1..n : order[i] = k => i = p  BY <1>1, <1>2 DEF IsInjective
<1> HIDE DEF n, p
<1>4. from < p /\ p \in Nat  BY <1>1, <1>2 DEF p
<1>5. ASSUME NEW e \in 0..p - 1 - from PROVE Entry(order, from, e) = order[from + e + 1]
  <2>1. from + e \in 0..n - 1  BY <1>1, <1>2, <1>4
  <2>2. (from + e) % n = from + e  BY <2>1, <1>2
  <2> QED  BY <2>2 DEF Entry, n
<1>6. ASSUME NEW e \in 0..n - 1
      PROVE  (\A f \in 0..e : Entry(order, from, f) # k) <=> e < p - 1 - from
  <2>1. CASE e < p - 1 - from
    <3>1. ASSUME NEW f \in 0..e PROVE Entry(order, from, f) # k
      <4>1. f \in 0..p - 1 - from /\ from + f + 1 \in 1..n /\ from + f + 1 # p
        BY <2>1, <1>1, <1>2, <1>4
      <4> QED  BY <4>1, <1>3, <1>5
    <3> QED  BY <2>1, <3>1
  <2>2. CASE ~(e < p - 1 - from)
    <3>1. p - 1 - from \in 0..e /\ p - 1 - from \in 0..p - 1 - from /\ from + (p - 1 - from) + 1 = p
      BY <2>2, <1>1, <1>2, <1>4
    <3>2. Entry(order, from, p - 1 - from) = k  BY <3>1, <1>1, <1>5
    <3> QED  BY <2>2, <3>1, <3>2
  <2> QED  BY <2>1, <2>2
<1>7. {e \in 0..n - 1 : \A f \in 0..e : Entry(order, from, f) # k} = 0..p - 2 - from
  <2>1. \A e \in 0..n - 1 : e < p - 1 - from <=> e \in 0..p - 2 - from  BY <1>1, <1>2, <1>4
  <2>2. 0..p - 2 - from \subseteq 0..n - 1  BY <1>1, <1>2, <1>4
  <2> QED  BY <2>1, <2>2, <1>6
<1>8. Ahead(order, from, k) = {Entry(order, from, d) : d \in 0..p - 2 - from}
  BY <1>7 DEF Ahead, n
<1>9. \A d \in 0..p - 2 - from : Entry(order, from, d) = order[from + d + 1]
                                 /\ from + d + 1 \in from + 1..p - 1
  BY <1>4, <1>5
<1>10. \A i \in from + 1..p - 1 : i - from - 1 \in 0..p - 2 - from /\ from + (i - from - 1) + 1 = i
  BY <1>4
<1>11. Ahead(order, from, k) = {order[i] : i \in from + 1..p - 1}
  <2>1. \A x \in {Entry(order, from, d) : d \in 0..p - 2 - from} :
           x \in {order[i] : i \in from + 1..p - 1}
    BY <1>9
  <2>2. ASSUME NEW i \in from + 1..p - 1
        PROVE  order[i] \in {Entry(order, from, d) : d \in 0..p - 2 - from}
    <3>1. i - from - 1 \in 0..p - 2 - from /\ Entry(order, from, i - from - 1) = order[i]
      <4>1. i - from - 1 \in 0..p - 2 - from /\ from + (i - from - 1) + 1 = i  BY <1>10
      <4>2. Entry(order, from, i - from - 1) = order[from + (i - from - 1) + 1]  BY <4>1, <1>9
      <4> QED  BY <4>1, <4>2
    <3> QED  BY <3>1
  <2> QED  BY <2>1, <2>2, <1>8
<1> QED  BY <1>11 DEF p

(* removeKey brings no key in front of another.                            *)
LEMMA TidyKeepsPlaces ==
  ASSUME Ordered, NEW j \in Key, NEW k \in Key, Contains(keyOrder, k),
         KeyGone(j) => j # k,
         NEW from \in 0..Position(keyOrder, k) - 1, TidyKey(j, from)
  PROVE  /\ cursor' \in Nat /\ cursor' < Position(keyOrder', k)
         /\ {keyOrder'[i] : i \in cursor' + 1..Position(keyOrder', k) - 1}
              \subseteq {keyOrder[i] : i \in from + 1..Position(keyOrder, k) - 1}
<1> DEFINE n == Len(keyOrder)
           p == Position(keyOrder, k)
           g == Position(keyOrder, j)
<1>0. keyOrder \in Seq(Key) /\ IsInjective(keyOrder) /\ n \in Nat  BY LenProperties DEF Ordered
<1>1. p \in 1..n /\ keyOrder[p] = k  BY DEF Contains, Position
<1>2. CASE KeyGone(j) /\ Contains(keyOrder, j)
  <2>1. g \in 1..n /\ keyOrder[g] = j  BY <1>2 DEF Contains, Position
  <2>2. j # k  BY <1>2
  <2>3. g # p  BY <1>1, <2>1, <2>2
  <2>4. keyOrder' = RemoveAt(keyOrder, g) /\ cursor' = Wrapped(CursorAfter(g - 1, from))
    <3>1. keyOrder' = RemoveAt(keyOrder, IndexOf(j) + 1) /\ cursor' = Wrapped(CursorAfter(IndexOf(j), from))
      BY <1>2 DEF TidyKey
    <3>2. IndexOf(j) = g - 1 /\ IndexOf(j) + 1 = g  BY <2>1 DEF IndexOf
    <3> QED  BY <3>1, <3>2
  <2>5. /\ keyOrder' \in Seq(Key) /\ Len(keyOrder') = n - 1 /\ IsInjective(keyOrder')
        /\ \A i \in 1..n - 1 : keyOrder'[i] = keyOrder[IF i < g THEN i ELSE i + 1]
    <3>1. Contains(keyOrder, j)  BY <1>2
    <3>2. IsInjective(RemoveAt(keyOrder, g))  BY <3>1, <1>0, RemoveAtDistinct
    <3>3. /\ RemoveAt(keyOrder, g) \in Seq(Key) /\ Len(RemoveAt(keyOrder, g)) = n - 1
          /\ \A i \in 1..n - 1 : RemoveAt(keyOrder, g)[i] = keyOrder[IF i < g THEN i ELSE i + 1]
      BY <1>0, <2>1, RemovalFacts
    <3> QED  BY <3>2, <3>3, <2>4
  <2> DEFINE r == IF p < g THEN p ELSE p - 1
  <2> HIDE DEF n, p, g
  <2>6. r \in 1..n - 1 /\ keyOrder'[r] = k
    <3>1. r \in 1..n - 1 /\ (IF r < g THEN r ELSE r + 1) = p  BY <1>0, <1>1, <2>1, <2>3
    <3> HIDE DEF r
    <3> QED  BY <3>1, <2>5, <1>1
  <2>7. Position(keyOrder', k) = r
    <3> HIDE DEF r
    <3>1. r \in 1..Len(keyOrder')  BY <2>5, <2>6
    <3>2. Position(keyOrder', keyOrder'[r]) = r  BY <2>5, <3>1, PositionOfEntry
    <3> QED  BY <3>2, <2>6
  <2>8. from \in 0..p - 1  BY DEF p
  <2>9. cursor' = (IF g - 1 < from THEN from - 1 ELSE from) /\ cursor' \in Nat /\ cursor' < r
    <3>1. cursor' = IF (IF g - 1 < from THEN from - 1 ELSE from) >= n - 1 THEN 0
                    ELSE (IF g - 1 < from THEN from - 1 ELSE from)
      BY <2>4 DEF Wrapped, CursorAfter, n
    <3> QED  BY <3>1, <2>1, <2>3, <2>8, <1>0, <1>1
  <2>10. ASSUME NEW i \in cursor' + 1..r - 1
         PROVE  keyOrder'[i] \in {keyOrder[h] : h \in from + 1..p - 1}
    <3> DEFINE h == IF i < g THEN i ELSE i + 1
    <3>1. h \in from + 1..p - 1 /\ i \in 1..n - 1
      BY <2>1, <2>3, <2>6, <2>8, <2>9, <1>0, <1>1
    <3>2. keyOrder'[i] = keyOrder[h]  BY <3>1, <2>5
    <3> QED  BY <3>1, <3>2
  <2> QED  BY <2>7, <2>9, <2>10 DEF p
<1>3. CASE ~(KeyGone(j) /\ Contains(keyOrder, j))
  <2>1. keyOrder' = keyOrder /\ cursor' = from  BY <1>3 DEF TidyKey
  <2> HIDE DEF n
  <2>2. from \in Nat /\ from < p  BY <1>0, <1>1
  <2> QED  BY <2>1, <2>2
<1> QED  BY <1>2, <1>3

(* The key is served no later than before.                                 *)
LEMMA PlaceIsKept ==
  ASSUME TurnInv, TurnInv', TurnNext, NEW k \in Key,
         Contains(keyOrder, k), Runnable(k), IndexOf(k) >= cursor,
         Runnable(k)', queues'[k] # Tail(queues[k])
  PROVE  InFront(k)' \subseteq InFront(k)
<1> DEFINE p == Position(keyOrder, k)
<1>0. /\ keyOrder \in Seq(Key) /\ IsInjective(keyOrder) /\ Len(keyOrder) \in Nat
      /\ cursor \in Nat
  BY LenProperties DEF TurnInv, Ordered
<1>1. p \in 1..Len(keyOrder) /\ keyOrder[p] = k  BY DEF Contains, Position
<1>2. cursor \in 0..p - 1  BY <1>0, <1>1 DEF IndexOf
<1> HIDE DEF p
<1>3. /\ keyOrder' \in Seq(Key) /\ IsInjective(keyOrder') /\ Contains(keyOrder', k)
  BY DEF TurnInv, Ordered, Busy, Runnable
<1>4. \A j \in Key : KeyGone(j) => j # k  BY DEF KeyGone, Runnable
<1>5. InFront(k) = {keyOrder[i] : i \in cursor + 1..p - 1}
  <2>1. InFront(k) = Ahead(keyOrder, cursor, k)  BY DEF InFront, Ahead, KeyAt, Entry
  <2>2. cursor < p  BY <1>1, <1>2
  <2> QED  BY <2>1, <2>2, <1>0, AheadIsBetween DEF p
<1>6. ASSUME cursor' \in Nat, cursor' < Position(keyOrder', k),
             {keyOrder'[i] : i \in cursor' + 1..Position(keyOrder', k) - 1}
               \subseteq {keyOrder[i] : i \in cursor + 1..p - 1}
      PROVE  InFront(k)' \subseteq InFront(k)
  <2>1. InFront(k)' = Ahead(keyOrder', cursor', k)  BY DEF InFront, Ahead, KeyAt, Entry
  <2>2. Ahead(keyOrder', cursor', k) = {keyOrder'[i] : i \in cursor' + 1..Position(keyOrder', k) - 1}
    BY <1>3, <1>6, AheadIsBetween
  <2> QED  BY <2>1, <2>2, <1>5, <1>6
<1>7. ASSUME NEW j \in Key, TidyKey(j, cursor) PROVE InFront(k)' \subseteq InFront(k)
  BY <1>2, <1>4, <1>6, <1>7, TidyKeepsPlaces DEF TurnInv, p
<1>8. ASSUME keyOrder' = keyOrder, cursor' = cursor PROVE InFront(k)' \subseteq InFront(k)
  <2>1. cursor < p  BY <1>1, <1>2
  <2> QED  BY <2>1, <1>0, <1>6, <1>8 DEF p
<1>9. ASSUME NEW w \in Work, Admit(w) PROVE InFront(k)' \subseteq InFront(k)
  <2>1. cursor' = cursor /\ KeyOf[w] \in Key  BY <1>9 DEF Admit
  <2>2. CASE Contains(keyOrder, KeyOf[w])  BY <1>8, <1>9, <2>1, <2>2 DEF Admit
  <2>3. CASE ~Contains(keyOrder, KeyOf[w])
    <3>1. keyOrder' = Append(keyOrder, KeyOf[w])  BY <1>9, <2>3 DEF Admit
    <3>2. Len(keyOrder') = Len(keyOrder) + 1 /\ \A i \in 1..Len(keyOrder) : keyOrder'[i] = keyOrder[i]
      BY <3>1, <2>1, <1>0, AppendProperties
    <3>3. p \in 1..Len(keyOrder') /\ keyOrder'[p] = k  BY <3>2, <1>0, <1>1
    <3>4. Position(keyOrder', k) = p
      <4>1. Position(keyOrder', keyOrder'[p]) = p  BY <3>3, <1>3, PositionOfEntry
      <4> QED  BY <4>1, <3>3
    <3>5. \A i \in cursor + 1..p - 1 : i \in 1..Len(keyOrder)  BY <1>0, <1>1, <1>2
    <3>6. {keyOrder'[i] : i \in cursor + 1..p - 1} \subseteq {keyOrder[i] : i \in cursor + 1..p - 1}
      BY <3>2, <3>5
    <3>7. cursor' \in Nat /\ cursor' < Position(keyOrder', k)
      BY <1>0, <1>1, <1>2, <2>1, <3>4
    <3> QED  BY <1>6, <2>1, <3>4, <3>6, <3>7
  <2> QED  BY <2>2, <2>3
<1>10. ASSUME PumpServe PROVE InFront(k)' \subseteq InFront(k)
  <2>1. PICK d \in RunnableDistances :
          /\ \A e \in RunnableDistances : d <= e
          /\ queues' = [queues EXCEPT ![KeyAt(d)] = Tail(@)]
          /\ TidyKey(KeyAt(d), (cursor + d + 1) % Len(keyOrder))
    BY <1>10 DEF PumpServe
  <2>2. d \in 0..Len(keyOrder) - 1 /\ KeyAt(d) \in Key
    BY ServedFacts DEF RunnableDistances, TurnInv
  <2>3. KeyAt(d) # k  BY <2>1, <2>2 DEF TurnInv, Types
  <2>4. p - 1 - cursor \in RunnableDistances
    <3>1. p - 1 - cursor \in 0..Len(keyOrder) - 1 /\ cursor + (p - 1 - cursor) = p - 1
          /\ p - 1 \in 0..Len(keyOrder) - 1
      BY <1>0, <1>1, <1>2
    <3>2. (p - 1) % Len(keyOrder) = p - 1 /\ p - 1 + 1 = p
      <4>1. Len(keyOrder) \in Nat \ {0}  BY <1>0, <1>1
      <4>2. (p - 1) % Len(keyOrder) = p - 1  BY <3>1, <4>1, SmallRemainder
      <4> QED  BY <4>2, <1>1
    <3>3. KeyAt(p - 1 - cursor) = k  BY <1>1, <3>1, <3>2 DEF KeyAt
    <3> QED  BY <3>1, <3>3 DEF RunnableDistances
  <2>5. d < p - 1 - cursor
    <3>1. d <= p - 1 - cursor  BY <2>1, <2>4
    <3>2. d # p - 1 - cursor
      <4>1. ASSUME d = p - 1 - cursor PROVE FALSE
        <5>1. cursor + d = p - 1 /\ p - 1 \in 0..Len(keyOrder) - 1  BY <4>1, <1>0, <1>1, <1>2
        <5>2. (p - 1) % Len(keyOrder) = p - 1 /\ p - 1 + 1 = p
          <6>1. Len(keyOrder) \in Nat \ {0}  BY <1>0, <1>1
          <6>2. (p - 1) % Len(keyOrder) = p - 1  BY <5>1, <6>1, SmallRemainder
          <6> QED  BY <6>2, <1>1
        <5>3. KeyAt(d) = k  BY <1>1, <5>1, <5>2 DEF KeyAt
        <5> QED  BY <5>3, <2>3
      <4> QED  BY <4>1
    <3> QED  BY <3>1, <3>2, <2>2, <1>1, <1>0
  <2>6. (cursor + d + 1) % Len(keyOrder) = cursor + d + 1 /\ cursor + d + 1 \in 0..p - 1
    <3>1. cursor + d + 1 \in 0..p - 1 /\ cursor + d + 1 \in 0..Len(keyOrder) - 1
      BY <2>2, <2>5, <1>0, <1>1
    <3>2. Len(keyOrder) \in Nat \ {0}  BY <1>0, <1>1
    <3>3. (cursor + d + 1) % Len(keyOrder) = cursor + d + 1  BY <3>1, <3>2, SmallRemainder
    <3> QED  BY <3>1, <3>3
  <2> DEFINE from == cursor + d + 1
  <2>7. from \in 0..p - 1 /\ TidyKey(KeyAt(d), from) /\ from >= cursor
    BY <2>1, <2>2, <2>6, <1>0
  <2> HIDE DEF from
  <2>8. /\ cursor' \in Nat /\ cursor' < Position(keyOrder', k)
        /\ {keyOrder'[i] : i \in cursor' + 1..Position(keyOrder', k) - 1}
             \subseteq {keyOrder[i] : i \in from + 1..p - 1}
    BY <1>4, <2>2, <2>7, TidyKeepsPlaces DEF TurnInv, p
  <2>9. from + 1..p - 1 \subseteq cursor + 1..p - 1  BY <2>7, <1>0, <1>1
  <2>10. {keyOrder[i] : i \in from + 1..p - 1} \subseteq {keyOrder[i] : i \in cursor + 1..p - 1}
    BY <2>9
  <2> QED  BY <1>6, <2>8, <2>10
<1>11. ASSUME NEW w \in Work, Schedule(w) PROVE InFront(k)' \subseteq InFront(k)
  BY <1>8, <1>9, <1>11 DEF Schedule, Reject
<1>12. ASSUME NEW w \in Work, Expire(w) \/ Release(w) PROVE InFront(k)' \subseteq InFront(k)
  BY <1>7, <1>12 DEF Expire, Release
<1>13. ASSUME NEW w \in Work, DeadlinePasses(w) \/ Resolve(w)
       PROVE  InFront(k)' \subseteq InFront(k)
  BY <1>8, <1>13 DEF DeadlinePasses, Resolve
<1>14. ASSUME PumpDone \/ WaitForIdle PROVE InFront(k)' \subseteq InFront(k)
  BY <1>8, <1>14 DEF PumpDone, WaitForIdle
<1> QED  BY <1>10, <1>11, <1>12, <1>13, <1>14 DEF TurnNext

(* A conversation the cursor has yet to reach never loses its place in the *)
(* order of TurnAdmissionController: however many keys come and go, no key *)
(* gets in front of it.                                                    *)
THEOREM TurnsNeverRecede == TurnSpec => TurnNeverRecedes
<1> DEFINE Same == \A k \in Key :
       /\ Contains(keyOrder, k)
       /\ Runnable(k) /\ IndexOf(k) >= cursor
       /\ Runnable(k)'
       /\ queues'[k] # Tail(queues[k])
       => Contains(keyOrder', k) /\ InFront(k)' \subseteq InFront(k)
<1>1. TurnInv /\ TurnInv' /\ [TurnNext]_turnVars => [Same]_turnVars
  <2> SUFFICES ASSUME TurnInv, TurnInv', TurnNext, NEW k \in Key,
                      Contains(keyOrder, k), Runnable(k), IndexOf(k) >= cursor,
                      Runnable(k)', queues'[k] # Tail(queues[k])
               PROVE  Contains(keyOrder', k) /\ InFront(k)' \subseteq InFront(k)
    OBVIOUS
  <2>1. Contains(keyOrder', k)  BY DEF TurnInv, Ordered, Busy, Runnable
  <2>2. InFront(k)' \subseteq InFront(k)  BY PlaceIsKept
  <2> QED  BY <2>1, <2>2
<1>2. TurnInit => TurnInv  BY InitSound
<1>3. TurnInv /\ [TurnNext]_turnVars => TurnInv'  BY StepKeepsInv
<1> QED  BY <1>1, <1>2, <1>3, PTL DEF TurnSpec, TurnNeverRecedes
=============================================================================
