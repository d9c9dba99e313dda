------------------------------ MODULE JobQueue ------------------------------
(***************************************************************************)
(* The durable background job queue: JobRepository                         *)
(* (src/src/storage/job-repository.ts) driven by BackgroundWorker          *)
(* (src/src/workers/background.ts).                                        *)
(*                                                                         *)
(* Every SQLite transaction is one action, so a crash, the other worker or *)
(* a lease timer can come between any two of them.  Absolute times are     *)
(* kept as time remaining: leaseLeft is lease_expires_at - now (0 once it  *)
(* is reached), dueIn is scheduled_at - now (not below -MaxAge).  This     *)
(* leaves the clock unbounded over finitely many states.                   *)
(***************************************************************************)
EXTENDS Integers

CONSTANTS
  Job,          \* jobs, one per idempotency key
  Worker,       \* worker ids, one BackgroundWorker each
  None,         \* SQL NULL
  Claims,       \* Claims[w]: the jobs whose type passes w's claim filter
  Known,        \* the jobs of a known task type
  MaxAttempts,  \* jobs.max_attempts
  Lease,        \* leaseMs, in clock ticks
  RetryDelay,   \* retryDelayMs, in clock ticks
  Delays,       \* the delays jobs are enqueued with
  MaxAge,       \* bound: how overdue a job may look
  MaxCrashes    \* bound: how many times a worker dies

ASSUME JobQueueAssumption ==
  /\ None \notin Worker \cup Job
  /\ Claims \in [Worker -> SUBSET Job]
  /\ Known \subseteq Job
  /\ MaxAttempts \in Nat \ {0}
  /\ Lease \in Nat \ {0}
  /\ RetryDelay \in Nat
  /\ Delays \subseteq Nat
  /\ MaxAge \in Nat
  /\ MaxCrashes \in Nat

VARIABLES
  jobs,        \* table jobs
  attempts,    \* table job_attempts: attempts[j][n] is attempt number n of j
  heartbeats,  \* table worker_heartbeats
  workers,     \* the memory of each BackgroundWorker
  written,     \* number of the attempt that last wrote a fenced effect of j
  crashes      \* crashes so far

vars == <<jobs, attempts, heartbeats, workers, written, crashes>>

JobStatus     == {"absent", "pending", "running", "completed", "failed"}
AttemptStatus == {"absent", "running", "completed", "failed"}
HeartbeatStatus == {"absent", "idle", "running", "error"}
AttemptNumber == 1..MaxAttempts

JobRow == [status : JobStatus, attempts : 0..MaxAttempts,
           leaseOwner : Worker \cup {None}, leaseLeft : 0..Lease, dueIn : Int]

AttemptRow == [worker : Worker \cup {None}, status : AttemptStatus]

WorkerMemory ==
  [pc : {"idle", "polling", "claimed", "handling", "failing", "reporting"},
   job : Job \cup {None}, attempt : 0..MaxAttempts, timer : BOOLEAN,
   result : {"none", "retryable", "terminal", "completed", "failed"}]

NoJob     == [status |-> "absent", attempts |-> 0, leaseOwner |-> None,
              leaseLeft |-> 0, dueIn |-> 0]
NoAttempt == [worker |-> None, status |-> "absent"]
IdleWorker == [pc |-> "idle", job |-> None, attempt |-> 0, timer |-> FALSE,
               result |-> "none"]
\* Worker w moves on with its attempt; the lease timer runs while a handler does.
Goes(w, pc, result) ==
  [workers EXCEPT ![w] = [pc |-> pc, job |-> @.job, attempt |-> @.attempt,
                          timer |-> (pc = "handling"), result |-> result]]

ClaimedWorker(j, n) == [pc |-> "claimed", job |-> j, attempt |-> n,
                        timer |-> FALSE, result |-> "none"]

Init ==
  /\ jobs = [j \in Job |-> NoJob]
  /\ attempts = [j \in Job |-> [n \in AttemptNumber |-> NoAttempt]]
  /\ heartbeats = [w \in Worker |-> "absent"]
  /\ workers = [w \in Worker |-> IdleWorker]
  /\ written = [j \in Job |-> 0]
  /\ crashes = 0

-----------------------------------------------------------------------------
(* JobRepository *)

LeaseExpired(j) == jobs[j].leaseOwner # None /\ jobs[j].leaseLeft = 0

\* Mutated form: asks whether anyone holds the job, not whether attempt n does.
AuthorityOfAnyone(j, n) == jobs[j].status = "running" /\ jobs[j].leaseLeft > 0

\* hasActiveJobAttemptAuthority: attempt n is the current, running, unexpired
\* holder of job j.
Authority(j, n) ==
  /\ jobs[j].status = "running"
  /\ attempts[j][n].status = "running"
  /\ jobs[j].attempts = n
  /\ jobs[j].leaseOwner = attempts[j][n].worker
  /\ jobs[j].leaseLeft > 0

Released(job, status) ==
  [job EXCEPT !.status = status, !.leaseOwner = None, !.leaseLeft = 0]

Due(job, delay) == [job EXCEPT !.dueIn = delay]

Claimed(job, n, w) ==
  [job EXCEPT !.status = "running", !.attempts = n,
              !.leaseOwner = w, !.leaseLeft = Lease]

FailRunning(rows) ==
  [n \in AttemptNumber |->
     IF rows[n].status = "running" THEN [rows[n] EXCEPT !.status = "failed"]
                                   ELSE rows[n]]

\* Mutated form: off by one, an expired last attempt is never given up.
ExhaustedLate(w) ==
  {j \in Claims[w] : /\ jobs[j].status = "running"
                     /\ LeaseExpired(j)
                     /\ jobs[j].attempts > MaxAttempts}

\* Jobs failExpiredMaxAttemptLeases gives up when w polls.
Exhausted(w) ==
  {j \in Claims[w] : /\ jobs[j].status = "running"
                     /\ LeaseExpired(j)
                     /\ jobs[j].attempts >= MaxAttempts}

JobsAfterExpiry(w) ==
  [j \in Job |-> IF j \in Exhausted(w) THEN Released(jobs[j], "failed")
                                       ELSE jobs[j]]

\* Mutated form: gives up the job and forgets its attempt.
AttemptsLeftRunning(w) == attempts

AttemptsAfterExpiry(w) ==
  [j \in Job |-> IF j \in Exhausted(w) THEN FailRunning(attempts[j])
                                       ELSE attempts[j]]

Claimable(w) ==
  {j \in Claims[w] : /\ jobs[j].attempts < MaxAttempts
                     /\ \/ jobs[j].status = "pending" /\ jobs[j].dueIn <= 0
                        \/ jobs[j].status = "running" /\ LeaseExpired(j)}

\* ORDER BY scheduled_at; equal times are left to chance.
Earliest(S) == {j \in S : \A k \in S : jobs[j].dueIn <= jobs[k].dueIn}

\* Enqueuing an idempotency key that exists returns the job and writes nothing.
Enqueue(j, delay) ==
  /\ jobs[j].status = "absent"
  /\ jobs' = [jobs EXCEPT ![j] = Due(Released(@, "pending"), delay)]
  /\ UNCHANGED <<attempts, heartbeats, workers, written, crashes>>

ClaimNothing(w) ==
  /\ Claimable(w) = {}
  /\ jobs' = JobsAfterExpiry(w)
  /\ attempts' = AttemptsAfterExpiry(w)
  /\ workers' = [workers EXCEPT ![w] = IdleWorker]

ClaimJob(w, j) ==
  LET n == jobs[j].attempts + 1 IN
  /\ jobs' = [JobsAfterExpiry(w) EXCEPT
                ![j] = Claimed(JobsAfterExpiry(w)[j], n, w)]
  /\ attempts' = [AttemptsAfterExpiry(w) EXCEPT
                    ![j] = [(IF jobs[j].status = "running"
                             THEN FailRunning(attempts[j]) ELSE attempts[j])
                            EXCEPT ![n] = [worker |-> w, status |-> "running"]]]
  /\ workers' = [workers EXCEPT ![w] = ClaimedWorker(j, n)]

ClaimNext(w) ==
  /\ workers[w].pc = "polling"
  /\ \/ ClaimNothing(w)
     \/ \E j \in Earliest(Claimable(w)) : ClaimJob(w, j)
  /\ UNCHANGED <<heartbeats, written, crashes>>

\* The settlement of an attempt: a transaction that rechecks the authority.
Settle(j, n, attemptStatus, job) ==
  /\ attempts' = [attempts EXCEPT ![j][n].status = attemptStatus]
  /\ jobs' = [jobs EXCEPT ![j] = job]

CompletedJob(j) == Released(jobs[j], "completed")

\* Mutated form: off by one, retries after the last attempt.
FailedJobRetriesOnceMore(j, terminal) ==
  IF ~terminal /\ jobs[j].attempts <= MaxAttempts
  THEN Due(Released(jobs[j], "pending"), RetryDelay)
  ELSE Due(Released(jobs[j], "failed"), 0)

FailedJob(j, terminal) ==
  IF ~terminal /\ jobs[j].attempts < MaxAttempts
  THEN Due(Released(jobs[j], "pending"), RetryDelay)
  ELSE Due(Released(jobs[j], "failed"), 0)

-----------------------------------------------------------------------------
(* BackgroundWorker.processNextDurable *)

IdleHeartbeat(w) ==
  IF heartbeats[w] = "error" THEN heartbeats ELSE [heartbeats EXCEPT ![w] = "idle"]

\* A scheduler tick.  WorkerScheduler skips it while the last one is running.
Poll(w) ==
  /\ workers[w].pc = "idle"
  /\ workers' = Goes(w, "polling", "none")
  /\ heartbeats' = IdleHeartbeat(w)
  /\ UNCHANGED <<jobs, attempts, written, crashes>>

\* An unknown task type fails terminally without a handler.
Begin(w) ==
  /\ workers[w].pc = "claimed"
  /\ IF workers[w].job \in Known
     THEN /\ heartbeats' = [heartbeats EXCEPT ![w] = "running"]
          /\ workers' = Goes(w, "handling", "none")
     ELSE /\ workers' = Goes(w, "failing", "terminal")
          /\ UNCHANGED heartbeats
  /\ UNCHANGED <<jobs, attempts, written, crashes>>

\* The interval timer of startDurableLeaseHeartbeat stops at its first refusal.
ExtendLease(w) ==
  LET j == workers[w].job
      n == workers[w].attempt IN
  /\ workers[w].pc = "handling" /\ workers[w].timer
  /\ IF Authority(j, n) /\ attempts[j][n].worker = w
     THEN /\ jobs' = [jobs EXCEPT ![j].leaseLeft = Lease]
          /\ heartbeats' = [heartbeats EXCEPT ![w] = "running"]
          /\ UNCHANGED workers
     ELSE /\ workers' = [workers EXCEPT ![w].timer = FALSE]
          /\ UNCHANGED <<jobs, heartbeats>>
  /\ UNCHANGED <<attempts, written, crashes>>

\* A handler commits an effect in a transaction fenced by the attempt.
FencedWrite(w) ==
  LET j == workers[w].job
      n == workers[w].attempt IN
  /\ workers[w].pc = "handling"
  /\ Authority(j, n)
  /\ written' = [written EXCEPT ![j] = n]
  /\ UNCHANGED <<jobs, attempts, heartbeats, workers, crashes>>

\* The handler returned: complete(), or throw when the authority is gone.
Complete(w) ==
  LET j == workers[w].job
      n == workers[w].attempt IN
  /\ workers[w].pc = "handling"
  /\ IF Authority(j, n)
     THEN /\ Settle(j, n, "completed", CompletedJob(j))
          /\ workers' = Goes(w, "reporting", "completed")
     ELSE /\ workers' = Goes(w, "failing", "retryable")
          /\ UNCHANGED <<jobs, attempts>>
  /\ UNCHANGED <<heartbeats, written, crashes>>

\* The handler threw; NonRetryableBackgroundTaskError is terminal.
HandlerThrows(w) ==
  /\ workers[w].pc = "handling"
  /\ \E result \in {"retryable", "terminal"} : workers' = Goes(w, "failing", result)
  /\ UNCHANGED <<jobs, attempts, heartbeats, written, crashes>>

Fail(w) ==
  LET j == workers[w].job
      n == workers[w].attempt IN
  /\ workers[w].pc = "failing"
  /\ IF Authority(j, n)
     THEN Settle(j, n, "failed", FailedJob(j, workers[w].result = "terminal"))
     ELSE UNCHANGED <<jobs, attempts>>
  /\ workers' = Goes(w, "reporting", "failed")
  /\ UNCHANGED <<heartbeats, written, crashes>>

Report(w) ==
  /\ workers[w].pc = "reporting"
  /\ heartbeats' = [heartbeats EXCEPT ![w] =
                      IF workers[w].result = "completed" THEN "idle" ELSE "error"]
  /\ workers' = [workers EXCEPT ![w] = IdleWorker]
  /\ UNCHANGED <<jobs, attempts, written, crashes>>

-----------------------------------------------------------------------------
(* Environment *)

\* The worker's process dies and starts again; only its memory is lost.
Crash(w) ==
  /\ crashes < MaxCrashes
  /\ workers[w].pc # "idle"
  /\ crashes' = crashes + 1
  /\ workers' = [workers EXCEPT ![w] = IdleWorker]
  /\ UNCHANGED <<jobs, attempts, heartbeats, written>>

Aged(job) ==
  [job EXCEPT !.leaseLeft = IF @ > 0 THEN @ - 1 ELSE 0,
              !.dueIn = IF job.status \in {"pending", "running"} /\ @ > -MaxAge
                        THEN @ - 1 ELSE @]

Tick ==
  /\ jobs' = [j \in Job |-> Aged(jobs[j])]
  /\ UNCHANGED <<attempts, heartbeats, workers, written, crashes>>

Step(w) ==
  \/ Poll(w) \/ ClaimNext(w) \/ Begin(w) \/ ExtendLease(w) \/ FencedWrite(w)
  \/ Complete(w) \/ HandlerThrows(w) \/ Fail(w) \/ Report(w) \/ Crash(w)

Next ==
  \/ \E j \in Job, delay \in Delays : Enqueue(j, delay)
  \/ \E w \in Worker : Step(w)
  \/ Tick

Spec == Init /\ [][Next]_vars

\* What the scheduler and the worker's own code carry on with.
Working(w) ==
  \/ Poll(w) \/ ClaimNext(w) \/ Begin(w) \/ Complete(w)
  \/ HandlerThrows(w) \/ Fail(w) \/ Report(w)

\* Time passes, the scheduler keeps ticking, a handler returns or throws and
\* the code after it runs.  Nothing makes a lease timer or a caller punctual.
Fairness ==
  /\ WF_vars(Tick)
  /\ \A w \in Worker : WF_vars(Working(w))

FairSpec == Spec /\ Fairness

-----------------------------------------------------------------------------
(* Properties *)

\* Every variable keeps to the columns and fields the code gives it.
TypeOK ==
  /\ jobs \in [Job -> JobRow]
  /\ attempts \in [Job -> [AttemptNumber -> AttemptRow]]
  /\ heartbeats \in [Worker -> HeartbeatStatus]
  /\ workers \in [Worker -> WorkerMemory]
  /\ written \in [Job -> 0..MaxAttempts]
  /\ crashes \in 0..MaxCrashes

RowsAgree(j) ==
  LET last == jobs[j].attempts IN
  /\ \A n \in AttemptNumber :
       /\ n < last => attempts[j][n].status = "failed"
       /\ n > last => attempts[j][n].status = "absent"
  /\ jobs[j].status = "absent" => last = 0
  /\ jobs[j].status = "running" =>
       /\ last > 0
       /\ attempts[j][last] = [worker |-> jobs[j].leaseOwner, status |-> "running"]
  /\ jobs[j].status # "running" => jobs[j].leaseOwner = None
  /\ jobs[j].status = "completed" =>
       last > 0 /\ attempts[j][last].status = "completed"
  /\ jobs[j].status \in {"pending", "failed"} /\ last > 0 =>
       attempts[j][last].status = "failed"

\* jobs and job_attempts are two tables written by five transactions.  They
\* always tell one story: the attempts of a job are 1..jobs.attempts, only the
\* last can be running or completed, a running job's last attempt belongs to its
\* lease owner, and a settled job's last attempt has its outcome.
LedgerConsistent == \A j \in Job : RowsAgree(j)

\* What a worker reports as completed is durably completed by its own attempt
\* (docs/operations.md: "a handler that loses authority returns a failed attempt
\* result instead of reporting an uncommitted completion").
ReportedCompletionIsDurable ==
  \A w \in Worker :
    workers[w].pc = "reporting" /\ workers[w].result = "completed" =>
      LET j == workers[w].job
          n == workers[w].attempt IN
      /\ jobs[j].status = "completed"
      /\ jobs[j].attempts = n
      /\ attempts[j][n] = [worker |-> w, status |-> "completed"]

\* Fenced effects of a job are committed in attempt order: once a newer attempt
\* has written, a stale handler of an older one never writes again, and nothing
\* is written to a settled job.
FencedWritesInOrder ==
  [][\A j \in Job : written'[j] # written[j] =>
       /\ written'[j] > written[j]
       /\ jobs[j].status = "running"
       /\ \A n \in AttemptNumber :
            n > written'[j] => attempts[j][n].status = "absent"]_vars

\* The last failure stays on the heartbeat until the worker starts another job
\* (docs/operations.md: "preserves the latest error heartbeat ... across later
\* empty polls").
ErrorHeartbeatSticks ==
  [][\A w \in Worker :
       heartbeats[w] = "error" /\ heartbeats'[w] # "error" =>
         heartbeats'[w] = "running" /\ workers'[w].job # None]_vars

\* The queue implements JobContract: no interleaving of handlers, timers, crashes
\* and polls settles a job twice, loses it, or tries it too often.
Contract == INSTANCE JobContract WITH
  phase <- [j \in Job |-> jobs[j].status],
  tries <- [j \in Job |-> jobs[j].attempts],
  won   <- [j \in Job |-> {n \in AttemptNumber : attempts[j][n].status = "completed"}]

ImplementsContract == Contract!Spec

\* Every enqueued job is eventually completed or failed, whatever crashes.
EveryJobSettles ==
  \A j \in Job :
    jobs[j].status = "pending" ~> jobs[j].status \in {"completed", "failed"}

\* The two tables, the workers' memory and what a worker reports of an attempt
\* agree, whoever polls, dies or answers late.
JobsConsistent == TypeOK /\ LedgerConsistent /\ ReportedCompletionIsDurable

\* What no step of a worker does: write an effect out of order, or hide the last
\* error from the heartbeat.
JobStepsLawful == FencedWritesInOrder /\ ErrorHeartbeatSticks
=============================================================================
