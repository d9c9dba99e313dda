----------------------------- MODULE ModelJobs -----------------------------
(***************************************************************************)
(* The background jobs that call a model: group summaries and automatic     *)
(* memory extraction.  A group's policy opens an epoch; a summary job is    *)
(* bound to one epoch and freezes the messages it will read; an extraction  *)
(* job asks the evaluator about a candidate and writes the memory with the  *)
(* decision.  Both run as attempts of durable jobs whose lease may lapse    *)
(* while the model is answering (src/src/workers/summary-worker.ts,         *)
(* group-summary-job-service.ts, memory-extraction.ts,                      *)
(* src/src/storage/group-summary-policy-repository.ts,                      *)
(* src/src/memory/proposal-service.ts).  One group, one conversation.       *)
(***************************************************************************)
EXTENDS InvocationLedger, Sequences, FiniteSetsExt

CONSTANTS SummaryJob,   \* summary jobs
          ExtractionJob,\* extraction jobs, one candidate each
          Message,      \* messages of the group, by number
          Enqueuer,     \* concurrent calls of enqueueSummary
          None,
          MaxAttempts,  \* jobs.max_attempts
          MinTrigger,   \* minMessagesToTrigger
          MaxWindow,    \* maxMessagesToSummarize
          Workloads,    \* the sets of jobs that may come, one chosen at the start
          MaxGeneration, MaxClock, MaxStalls

Job == SummaryJob \cup ExtractionJob
Time == 0..(2 * MaxGeneration + MaxClock)
Window == SUBSET Message

(* A row of group_summary_job_bindings, with the window of the job's payload*)
BindingRow == [gen : 1..MaxGeneration, after : Time, window : Window, canceled : BOOLEAN]

ASSUME ModelJobsAssumption ==
    /\ Turn = {} /\ Attempt = Job \X (1..MaxAttempts) /\ MaxRounds = 1
    /\ Message \subseteq Nat /\ Workloads \subseteq SUBSET Job
    /\ SummaryJob \cap ExtractionJob = {} /\ None \notin Job \cup Attempt \cup Nat \cup BindingRow
    /\ MaxAttempts \in Nat \ {0} /\ MinTrigger \in Nat \ {0} /\ MaxWindow \in Nat \ {0}
    /\ MaxGeneration \in Nat /\ MaxClock \in Nat /\ MaxStalls \in Nat

VARIABLES clock,        \* Date.now(), in ticks
          created,      \* raw_events.created_at of each message, None before it arrives
          arrived,      \* the policy generation enabled when it arrived, else 0
          policy,       \* the group's row of group_summary_policies
          plan,         \* what each enqueueSummary call captured before it awaited
          job,          \* jobs.status
          tries,        \* jobs.attempts
          bind,         \* group_summary_job_bindings and the frozen window
          busy,         \* the attempt the live worker runs
          pc,           \* where the handler of each attempt is
          verdict,      \* the evaluator's answer, until it is recorded
          stored,       \* summary memories: the window and generation of each
          memory,       \* the memory of each candidate: "stored" active or proposed, or "rejected"
          rejected,     \* candidates with a memory.candidate_rejected audit entry
          stalls,
          linked,       \* the account the messages came from is active and still the user's
          workload      \* the jobs of this behaviour

jobVars == <<workload, linked, job, tries, bind, busy>>
effectVars == <<stored, memory, rejected>>
policyVars == <<clock, created, arrived, policy>>
vars == <<ledgerVars, policyVars, plan, jobVars, pc, verdict, effectVars, stalls>>

Plan == [gen : 1..MaxGeneration, after : Time, window : Window]
Handler == {"none", "begin", "source", "prepared", "call1", "retry", "call2", "store",
            "review1", "review2", "decide", "succeed", "fail", "done"}

(* Shape of every variable.                                                 *)
TypeOK ==
    /\ LedgerTypeOK
    /\ clock \in 0..MaxClock
    /\ created \in [Message -> Time \cup {None}] /\ arrived \in [Message -> 0..MaxGeneration]
    /\ policy \in [enabled : BOOLEAN, gen : 0..MaxGeneration, after : Time, updated : Time]
    /\ plan \in [Enqueuer -> Plan \cup {None}]
    /\ job \in [Job -> {"absent", "pending", "running", "completed", "failed"}]
    /\ tries \in [Job -> 0..MaxAttempts]
    /\ bind \in [SummaryJob -> BindingRow \cup {None}]
    /\ busy \in Attempt \cup {None}
    /\ pc \in [Attempt -> Handler]
    /\ verdict \in [Attempt -> Verdict \cup {"none"}]
    /\ stored \subseteq [window : Window, gen : 1..MaxGeneration]
    /\ memory \in [ExtractionJob -> {"none", "stored", "rejected"}]
    /\ rejected \subseteq ExtractionJob
    /\ stalls \in 0..MaxStalls /\ workload \in Workloads /\ linked \in BOOLEAN

Init ==
    /\ LedgerInit
    /\ clock = 0
    /\ created = [m \in Message |-> None] /\ arrived = [m \in Message |-> 0]
    /\ policy = [enabled |-> FALSE, gen |-> 0, after |-> 0, updated |-> 0]
    /\ plan = [e \in Enqueuer |-> None]
    /\ job = [j \in Job |-> "absent"] /\ tries = [j \in Job |-> 0]
    /\ bind = [j \in SummaryJob |-> None] /\ busy = None
    /\ pc = [a \in Attempt |-> "none"] /\ verdict = [a \in Attempt |-> "none"]
    /\ stored = {} /\ memory = [j \in ExtractionJob |-> "none"] /\ rejected = {}
    /\ stalls = 0 /\ workload \in Workloads /\ linked = TRUE

Goto(a, where) == pc' = [pc EXCEPT ![a] = where]

(***************************************************************************)
(* Time, messages and the policy.                                           *)
(***************************************************************************)

Tick ==
    /\ clock < MaxClock /\ clock' = clock + 1
    /\ UNCHANGED <<ledgerVars, created, arrived, policy, plan, jobVars, pc, verdict, effectVars, stalls>>

(* A group message is persisted with the time of its ingress (only where    *)
(* the workload has summaries to make of it).                               *)
Ingest(m) ==
    /\ workload \cap SummaryJob # {} /\ created[m] = None
    /\ \A k \in Message : k < m => created[k] # None
    /\ created' = [created EXCEPT ![m] = clock]
    /\ arrived' = [arrived EXCEPT ![m] = IF policy.enabled THEN policy.gen ELSE 0]
    /\ UNCHANGED <<ledgerVars, clock, policy, plan, jobVars, pc, verdict, effectVars, stalls>>

Ingested == {m \in Message : created[m] # None}

(* The exclusive logical boundary of a transition: later than now, than the *)
(* last transition and than every message already persisted.                *)
TransitionTime == Max({clock, policy.updated} \cup {created[m] : m \in Ingested}) + 1

(* setEnabled: a no-op when nothing changes; else the next generation, with *)
(* a new epoch on enable, and on disable every pending job bound to the     *)
(* group is failed and its binding canceled, in the same transaction.       *)
CanceledBy(on) ==
    {j \in SummaryJob : ~on /\ job[j] = "pending" /\ bind[j] # None /\ ~bind[j].canceled}

SetEnabled(on) ==
    LET canceled == CanceledBy(on)
    IN  /\ policy.enabled # on /\ policy.gen < MaxGeneration
        /\ policy' = [enabled |-> on, gen |-> policy.gen + 1, updated |-> TransitionTime,
                      after |-> IF on THEN TransitionTime ELSE 0]
        /\ job' = [j \in Job |-> IF j \in canceled THEN "failed" ELSE job[j]]
        /\ bind' = [j \in SummaryJob |->
                       IF j \in canceled THEN [bind[j] EXCEPT !.canceled = TRUE] ELSE bind[j]]
        /\ UNCHANGED <<ledgerVars, clock, created, arrived, plan, workload, linked, tries, busy, pc, verdict,
                       effectVars, stalls>>

(***************************************************************************)
(* enqueueSummary: capture the policy, plan a window, await, then check     *)
(* both again and freeze the window in the transaction that adds the job.   *)
(***************************************************************************)

Bound == {j \in SummaryJob : bind[j] # None}
Reserved == UNION {bind[j].window : j \in {k \in Bound : ~bind[k].canceled}}
Frozen == UNION {bind[j].window : j \in Bound}
Summarized == UNION {s.window : s \in stored}

Eligible(after) == {m \in Ingested : created[m] >= after}

(* loadGroupPlanningMessages: the oldest eligible messages that no summary  *)
(* and no job has taken.                                                    *)
Candidates(after) ==
    LET free == Eligible(after) \ (Summarized \cup Reserved)
    IN  {m \in free : Cardinality({k \in free : k < m}) < MaxWindow}

(* applyTokenBudget: the context builder keeps the last message that is not *)
(* the bot's, and the newest others down to the first that does not fit.    *)
(* What is the bot's and what fits is left open.                            *)
Retained(messages) ==
    {kept \in SUBSET messages :
        \E current \in kept :
            \A m \in kept \ {current}, k \in messages : k > m => k \in kept}

(* planGroupSummaryWindow: a plan only with enough candidates, of those     *)
(* that prepareSummaryContext retained.                                     *)
Plannable(after) == Cardinality(Candidates(after)) >= MinTrigger

(* findReusableActiveWindow.                                                *)
ActiveWindow(gen) ==
    \E j \in Bound : bind[j].gen = gen /\ ~bind[j].canceled /\ job[j] \in {"pending", "running"}

(* requireEnabled and the planning time: the epoch is open and has begun.   *)
PlanAllowed == policy.enabled /\ clock >= policy.after

PlanWindow(e) ==
    /\ plan[e] = None /\ PlanAllowed /\ ~ActiveWindow(policy.gen)
    /\ Plannable(policy.after)
    /\ \E window \in Retained(Candidates(policy.after)) :
         plan' = [plan EXCEPT ![e] = [gen |-> policy.gen, after |-> policy.after, window |-> window]]
    /\ UNCHANGED <<ledgerVars, policyVars, jobVars, pc, verdict, effectVars, stalls>>

SamePolicy(gen, after) == policy.enabled /\ policy.gen = gen /\ policy.after = after

(* Mutant of WindowFree: the window is not compared with other jobs' ones.  *)
WindowFreeOfSummaries(window, after) ==
    /\ window \subseteq Eligible(after)
    /\ window \cap Summarized = {}

(* revalidateFrozenWindow.                                                  *)
WindowFree(window, after) ==
    /\ window \subseteq Eligible(after)
    /\ window \cap (Summarized \cup Frozen) = {}

(* bindSummaryJob.                                                          *)
Binding(p) == [gen |-> p.gen, after |-> p.after, window |-> p.window, canceled |-> FALSE]

(* The transaction: a job with this window's key already there is returned, *)
(* a window that is no longer free is an error, else the job and its        *)
(* binding are added.                                                       *)
EnqueueWindow(e) ==
    LET p == plan[e]
        fresh == {j \in SummaryJob \cap workload : job[j] = "absent"}
        new == CHOOSE j \in fresh : TRUE
    IN  /\ p # None
        /\ plan' = [plan EXCEPT ![e] = None]
        /\ IF SamePolicy(p.gen, p.after) /\ WindowFree(p.window, p.after) /\ fresh # {}
             THEN /\ job' = [job EXCEPT ![new] = "pending"]
                  /\ bind' = [bind EXCEPT ![new] = Binding(p)]
             ELSE UNCHANGED <<job, bind>>
        /\ UNCHANGED <<ledgerVars, policyVars, workload, linked, tries, busy, pc, verdict, effectVars, stalls>>

(* A turn with a first-person statement enqueues its extraction job.        *)
EnqueueExtraction(j) ==
    /\ j \in workload /\ job[j] = "absent"
    /\ job' = [job EXCEPT ![j] = "pending"]
    /\ UNCHANGED <<ledgerVars, policyVars, plan, workload, linked, tries, bind, busy, pc, verdict,
                   effectVars, stalls>>

(***************************************************************************)
(* Attempts.                                                                *)
(***************************************************************************)

Expired(j) == tries[j] > 0 /\ attempt[<<j, tries[j]>>] = "expired"
Exhausted(j) == Expired(j) /\ tries[j] = MaxAttempts

(* claimNext: the live worker runs one job at a time.  It first fails the   *)
(* jobs whose last attempt expired; then it claims a pending job, or a      *)
(* running one whose attempt expired, which it ends.                        *)
Claim(j) ==
    LET a == <<j, tries[j] + 1>>
    IN  /\ busy = None /\ tries[j] < MaxAttempts /\ ~\E k \in Job : Exhausted(k)
        /\ job[j] = "pending" \/ Expired(j)
        /\ job' = [job EXCEPT ![j] = "running"] /\ tries' = [tries EXCEPT ![j] = @ + 1]
        /\ attempt' = [b \in Attempt |-> IF b = a THEN "running"
                                         ELSE IF b[1] = j /\ attempt[b] = "expired" THEN "ended"
                                         ELSE attempt[b]]
        /\ inv' = IF Expired(j) THEN Orphaned(<<j, tries[j]>>) ELSE inv
        /\ busy' = a /\ Goto(a, "begin")
        /\ UNCHANGED <<turn, decision, policyVars, plan, workload, linked, bind, verdict, effectVars, stalls>>

(* failExpiredMaxAttemptLeases.                                             *)
FailExpired(j) ==
    /\ busy = None /\ Exhausted(j)
    /\ attempt' = [attempt EXCEPT ![<<j, tries[j]>>] = "ended"] /\ inv' = Orphaned(<<j, tries[j]>>)
    /\ job' = [job EXCEPT ![j] = "failed"]
    /\ UNCHANGED <<turn, decision, policyVars, plan, workload, linked, tries, bind, busy, pc, verdict,
                   effectVars, stalls>>

(* The process that runs the attempt is suspended past its lease, and       *)
(* another takes over; the old one may go on at any later moment, or never. *)
LeaseLapses ==
    /\ busy # None /\ stalls < MaxStalls
    /\ attempt[busy] = "running"
    /\ attempt' = [attempt EXCEPT ![busy] = "expired"]
    /\ busy' = None /\ stalls' = stalls + 1
    /\ UNCHANGED <<turn, inv, decision, policyVars, plan, workload, linked, job, tries, bind, pc, verdict, effectVars>>

(* What the end of an attempt does to its job.                              *)
RetryOrFail(j) == IF tries[j] < MaxAttempts THEN "pending" ELSE "failed"

(* complete and fail are fenced: they change a job only for its current     *)
(* attempt with an unexpired lease.                                         *)
Settle(a) ==
    /\ pc[a] \in {"succeed", "fail"}
    /\ Goto(a, "done")
    /\ IF OwnerActive(a)
         THEN /\ attempt' = [attempt EXCEPT ![a] = "ended"] /\ inv' = Orphaned(a)
              /\ job' = [job EXCEPT ![a[1]] = IF pc[a] = "succeed" THEN "completed" ELSE RetryOrFail(a[1])]
              /\ busy' = None
         ELSE UNCHANGED <<attempt, inv, job, busy>>
    /\ UNCHANGED <<turn, decision, policyVars, plan, workload, linked, tries, bind, verdict, effectVars, stalls>>

(***************************************************************************)
(* The summary handler, generateSummary.                                    *)
(***************************************************************************)

(* Mutant of Authorized: the binding stands for the policy.                 *)
AuthorizedByBinding(a) == ~bind[a[1]].canceled /\ OwnerActive(a)

(* assertSummaryJobExecutionAllowed: the binding is in force, and the       *)
(* policy is still in the generation the job was bound to.                  *)
ExecutionAllowed(b) == ~b.canceled /\ SamePolicy(b.gen, b.after)

(* assertGroupSummaryAuthorization: so is the attempt.                      *)
Authorized(a) == ExecutionAllowed(bind[a[1]]) /\ OwnerActive(a)

IsSummary(a) == a[1] \in SummaryJob
WindowOf(a) == [window |-> bind[a[1]].window, gen |-> bind[a[1]].gen]

(* findExistingSummaryMemory.                                               *)
AlreadyStored(a) == WindowOf(a) \in stored

(* selectFrozenGroupMessages: the frozen messages that are still eligible.  *)
FrozenMessages(a) == bind[a[1]].window \cap Eligible(bind[a[1]].after)

(* captureGroupSummaryAuthorization and the frozen messages, none of which  *)
(* may be missing; then the context is built.                               *)
BeginSummary(a) ==
    /\ pc[a] = "begin" /\ IsSummary(a)
    /\ Goto(a, IF Authorized(a) /\ FrozenMessages(a) = bind[a[1]].window THEN "prepared" ELSE "fail")
    /\ UNCHANGED <<ledgerVars, policyVars, plan, jobVars, verdict, effectVars, stalls>>

(* A summary of this window is there already: it is the job's result.       *)
ReuseSummary(a) ==
    /\ pc[a] = "prepared" /\ IsSummary(a) /\ AlreadyStored(a)
    /\ Goto(a, IF Authorized(a) THEN "succeed" ELSE "fail")
    /\ UNCHANGED <<ledgerVars, policyVars, plan, jobVars, verdict, effectVars, stalls>>

(* runSummaryTurnWithLedger up to the await: the authorization again, the   *)
(* ledger row, the provider.  A failed first call is retried after a pause. *)
CallProvider(a, c) ==
    LET row == SummaryRow(a, c)
    IN  /\ IsSummary(a)
        /\ IF c = 1 THEN pc[a] = "prepared" /\ ~AlreadyStored(a) ELSE pc[a] = "retry"
        /\ IF Authorized(a) /\ CanStartSummary(a)
             THEN inv' = Started(row) /\ Goto(a, IF c = 1 THEN "call1" ELSE "call2")
             ELSE Goto(a, "fail") /\ UNCHANGED inv
        /\ UNCHANGED <<turn, attempt, decision, policyVars, plan, jobVars, verdict, effectVars, stalls>>

(* The provider answers.  An answer whose row was aborted meanwhile cannot  *)
(* be completed, and counts as a failed call.                               *)
SummaryAnswer(a) ==
    LET c == IF pc[a] = "call1" THEN 1 ELSE 2
        row == SummaryRow(a, c)
        again == IF c = 1 THEN "retry" ELSE "fail"
    IN  /\ pc[a] \in {"call1", "call2"}
        /\ \/ CanComplete(row) /\ inv' = Completed(row) /\ Goto(a, "store")
           \/ /\ inv' = IF CanFail(row) THEN Failed(row, "failed") ELSE inv
              /\ Goto(a, again)
        /\ UNCHANGED <<turn, attempt, decision, policyVars, plan, jobVars, verdict, effectVars, stalls>>

(* assertSelectedRawSourcesEligible and assertFrozenSourceSnapshot.         *)
SourcesHold(a) == bind[a[1]].window \subseteq Eligible(bind[a[1]].after)

(* storeSummaryAsMemory: authorization and sources are checked once more in *)
(* the transaction that writes the memory, whose id is that of its window.  *)
StoreSummary(a) ==
    /\ pc[a] = "store"
    /\ IF Authorized(a) /\ SourcesHold(a) /\ ~AlreadyStored(a)
         THEN stored' = stored \cup {WindowOf(a)} /\ Goto(a, "succeed")
         ELSE Goto(a, "fail") /\ UNCHANGED stored
    /\ UNCHANGED <<ledgerVars, policyVars, plan, jobVars, verdict, memory, rejected, stalls>>

(***************************************************************************)
(* The extraction handler: createMemory and processCandidate.               *)
(***************************************************************************)

(* The user's account is unlinked, by the governance console or the command *)
(* line.                                                                    *)
Unlink ==
    /\ linked /\ workload \cap ExtractionJob # {} /\ linked' = FALSE
    /\ UNCHANGED <<ledgerVars, policyVars, plan, workload, job, tries, bind, busy, pc, verdict,
                   effectVars, stalls>>

(* extractFromChatMessage: the source message's sender is the target still. *)
SourceUsable == linked

(* extractFromTurn: a message without a statement leaves nothing to do.     *)
BeginExtraction(a) ==
    /\ pc[a] = "begin" /\ ~IsSummary(a)
    /\ \/ ~SourceUsable /\ Goto(a, "fail")
       \/ SourceUsable /\ \E where \in {"source", "succeed"} : Goto(a, where)
    /\ UNCHANGED <<ledgerVars, policyVars, plan, jobVars, verdict, effectVars, stalls>>

(* What an earlier attempt left stands: a memory that reuseExactEffect      *)
(* finds, or a rejection whose audit entry is replayed.                     *)
EffectLeft(j) == memory[j] # "none" \/ j \in rejected

(* assertReusableDecisionAuthority: the attempt is the running one, whatever*)
(* its lease, else the effect is reported as a conflict.                    *)
Reusable(a) == memory[a[1]] # "none" => attempt[a] # "ended"

ReuseEffect(a) ==
    /\ pc[a] = "source" /\ EffectLeft(a[1])
    /\ Goto(a, IF Reusable(a) THEN "succeed" ELSE "fail")
    /\ UNCHANGED <<ledgerVars, policyVars, plan, jobVars, verdict, effectVars, stalls>>

(* auditRejectedCandidate: a candidate whose user opted out, or that holds a*)
(* secret, or whose evaluator call fails, is rejected by an audit entry.    *)
Rejected(j) == rejected \cup {j}

RejectCandidate(a) ==
    /\ pc[a] = "source" /\ ~EffectLeft(a[1])
    /\ rejected' = Rejected(a[1]) /\ Goto(a, "succeed")
    /\ UNCHANGED <<ledgerVars, policyVars, plan, jobVars, verdict, stored, memory, stalls>>

(* evaluateCandidate: the evaluator is asked on the attempt's authority.    *)
AskEvaluator(a) ==
    /\ pc[a] = "source" /\ ~EffectLeft(a[1]) /\ CanStartEvaluator(a, 1, 1)
    /\ inv' = Started(EvaluatorRow(a, 1, 1)) /\ Goto(a, "review1")
    /\ UNCHANGED <<turn, attempt, decision, policyVars, plan, jobVars, verdict, effectVars, stalls>>

(* evaluateStructured for an attempt: a valid answer completes the row, one *)
(* with the wrong structure is corrected once, every failure of the call or *)
(* of its record makes processCandidate reject the candidate.               *)
EvaluatorAnswer(a) ==
    LET c == IF pc[a] = "review1" THEN 1 ELSE 2
        row == EvaluatorRow(a, 1, c)
        again == EvaluatorRow(a, 1, 2)
    IN  /\ pc[a] \in {"review1", "review2"}
        /\ \/ /\ CanComplete(row) /\ inv' = Completed(row) /\ Goto(a, "decide")
              /\ \E v \in Verdict : verdict' = [verdict EXCEPT ![a] = v]
              /\ UNCHANGED rejected
           \/ /\ c = 1 /\ CanFail(row) /\ OwnerActive(a)
              /\ inv' = [Failed(row, "invalid") EXCEPT ![again] = "running"]
              /\ Goto(a, "review2") /\ UNCHANGED <<verdict, rejected>>
           \/ /\ inv' = IF CanFail(row) THEN Failed(row, "failed") ELSE inv
              /\ rejected' = Rejected(a[1])
              /\ Goto(a, "succeed") /\ UNCHANGED verdict
        /\ UNCHANGED <<turn, attempt, decision, policyVars, plan, jobVars, stored, memory, stalls>>

(* resolveTargetState and createRejectedMemory.                             *)
MemoryOf(v) == IF v = "approve" THEN "stored" ELSE "rejected"

(* validateMemoryEvaluatorEvidence: the decision's call completed for this  *)
(* candidate, its attempt holds the lease, and the source is usable still.  *)
EvidenceHolds(a, c) == CanDecide(a, 1, c) /\ SourceUsable

(* The effects the validations accept: the candidate's memory, new and with *)
(* its decision - a refused candidate's is stored as rejected - or, where   *)
(* the policy forbids the candidate after the evaluator, one audit entry.   *)
Effect(j, v) ==
    \/ memory' = [memory EXCEPT ![j] = MemoryOf(v)] /\ UNCHANGED rejected
    \/ v = "refuse" /\ rejected' = Rejected(j) /\ UNCHANGED memory

(* Mutant of CommitDecision: a completed call is enough to write both.      *)
CommitDecisionUnfenced(a) ==
    LET j == a[1]
    IN  /\ pc[a] = "decide"
        /\ verdict' = [verdict EXCEPT ![a] = "none"]
        /\ decision' = Decided(a, 1, verdict[a])
        /\ memory' = [memory EXCEPT ![j] = MemoryOf(verdict[a])]
        /\ Goto(a, "succeed")
        /\ UNCHANGED <<turn, attempt, inv, policyVars, plan, jobVars, stored, rejected, stalls>>

(* runWithMemoryDecision: the decision and its effect are one transaction,  *)
(* fenced to the active attempt.                                            *)
WithDecision(a, c) ==
    /\ EvidenceHolds(a, c) /\ memory[a[1]] = "none"
    /\ decision' = Decided(a, 1, verdict[a])
    /\ Effect(a[1], verdict[a])

(* When the transaction fails an effect another attempt left is reused, else*)
(* the attempt fails.                                                       *)
CommitDecision(a) ==
    LET c == IF inv[EvaluatorRow(a, 1, 2)] = "completed" THEN 2 ELSE 1
    IN  /\ pc[a] = "decide"
        /\ verdict' = [verdict EXCEPT ![a] = "none"]
        /\ \/ WithDecision(a, c) /\ Goto(a, "succeed")
           \/ /\ ~EvidenceHolds(a, c) \/ memory[a[1]] # "none"
              /\ Goto(a, IF memory[a[1]] # "none" /\ Reusable(a) THEN "succeed" ELSE "fail")
              /\ UNCHANGED <<decision, memory, rejected>>
        /\ UNCHANGED <<turn, attempt, inv, policyVars, plan, jobVars, stored, stalls>>

Handle(a) ==
    \/ BeginSummary(a) \/ ReuseSummary(a) \/ (\E c \in 1..2 : CallProvider(a, c))
    \/ SummaryAnswer(a) \/ StoreSummary(a)
    \/ BeginExtraction(a) \/ ReuseEffect(a) \/ RejectCandidate(a) \/ AskEvaluator(a)
    \/ EvaluatorAnswer(a) \/ CommitDecision(a) \/ Settle(a)

Next ==
    \/ Tick \/ (\E m \in Message : Ingest(m)) \/ (\E on \in BOOLEAN : SetEnabled(on))
    \/ \E e \in Enqueuer : PlanWindow(e) \/ EnqueueWindow(e)
    \/ \E j \in ExtractionJob : EnqueueExtraction(j)
    \/ \E j \in Job : Claim(j) \/ FailExpired(j)
    \/ LeaseLapses \/ Unlink
    \/ \E a \in Attempt : Handle(a)

Spec == Init /\ [][Next]_vars

-----------------------------------------------------------------------------
(* A group's messages are summarised only if they arrived while the policy  *)
(* was enabled, and only by the generation that was in force then: nothing  *)
(* said before an enable, or between a disable and the next enable, ever    *)
(* reaches a summary.                                                       *)
ConsentHolds == \A s \in stored : \A m \in s.window : arrived[m] = s.gen

(* No message is summarised twice: the frozen windows of two jobs are       *)
(* disjoint however the calls that planned them interleaved, and so are the *)
(* windows of two summaries.                                                *)
SummarizedOnce ==
    /\ \A j, k \in Bound : j # k => bind[j].window \cap bind[k].window = {}
    /\ \A s, t \in stored : s # t => s.window \cap t.window = {}

(* The model is shown a window, and a summary is written, only while the    *)
(* policy is in the generation that froze the window and the attempt holds  *)
(* its lease, though both were checked before the awaits.                   *)
SummaryNeedsAuthority ==
    [][\A a \in Attempt :
          /\ IsSummary(a)
          /\ \/ \E c \in 1..2 : inv[SummaryRow(a, c)] = "none" /\ inv'[SummaryRow(a, c)] = "running"
             \/ pc[a] = "store" /\ pc'[a] = "succeed"
          =>
          /\ policy.enabled /\ policy.gen = bind[a[1]].gen
          /\ attempt[a] = "running"]_vars

(* A candidate is decided at most once, by a completed evaluator call, and  *)
(* the decision and its effect agree: no attempt that lost its lease adds a *)
(* second decision or a memory without one.                                 *)
MemoryHasDecision ==
    \A j \in ExtractionJob :
        LET deciders == {k \in 1..MaxAttempts : decision[<<<<j, k>>, 1>>] # "none"}
        IN  /\ Cardinality(deciders) <= 1
            /\ memory[j] # "none" => deciders # {}
            /\ \A k \in deciders :
                  /\ decision[<<<<j, k>>, 1>>] = "approve" <=> memory[j] = "stored"
                  /\ memory[j] # "none" \/ j \in rejected
                  /\ \E c \in 1..2 : inv[EvaluatorRow(<<j, k>>, 1, c)] = "completed"

(* A memory is written only with a decision of the attempt that holds the   *)
(* lease, about a user whose account is linked at that moment, whatever     *)
(* happened while the evaluator was thinking.                               *)
MemoryNeedsIdentity ==
    [][\A j \in ExtractionJob : memory'[j] # memory[j] =>
          /\ linked
          /\ \E k \in 1..MaxAttempts :
                attempt[<<j, k>>] = "running" /\ decision'[<<<<j, k>>, 1>>] # decision[<<<<j, k>>, 1>>]]_vars

(* What is planned and stored as a summary is what the group allowed, once. *)
SummariesHaveConsent == TypeOK /\ ConsentHolds /\ SummarizedOnce

(* Every memory has its decision, and no call its owner left is open.       *)
DecisionsAreGrounded == MemoryHasDecision /\ NoOrphanCalls

(* A model is asked, and an effect written, only with what authorizes it at *)
(* that moment; what the ledger has settled stays.                          *)
EffectsNeedAuthority == SummaryNeedsAuthority /\ MemoryNeedsIdentity /\ SettledRowsAreFinal
=============================================================================
