# LetheBot in TLA+

LetheBot is a social bot for QQ groups: a single Node.js process over one SQLite
database, with OneBot as its gateway and language models behind a Pi adapter; an operator
governs it through a web console, a command line and release and restore tools. This
directory holds TLA+ modules of the parts of it where order, failure and concurrency
decide whether it is correct, TLC configurations that check them on small instances,
and proofs, checked by TLAPS, of what matters most for every instance.

Paths such as `src/workers/background.ts` are below `src/` of the repository; the
documentation is in `docs/`. `PROJECT.json` names, for each definition, the lines it
translates.

| Part of the system | Modules | Proofs | Run |
| --- | --- | --- | --- |
| job queue and its contract | `JobQueue`, `JobContract` | `SchedulerProofs` | `MCSchedulers` |
| turn admission | `TurnAdmission` | `SchedulerProofs` | `MCSchedulers` |
| how a message comes in, and its life | `EventListener` over `EventPipeline` | `ConversationProofs` | `MCEventPipeline`, `MCEventPipelineStop` |
| delayed attention | `DelayedAttention` | `DeferredWorkProofs` | `MCDeferredWork` |
| memory maintenance | `MemoryMaintenance` | `DeferredWorkProofs` | `MCDeferredWork` |
| a model's answer becomes an action | `ActionDelivery` over `OneBotGateway` | `ActionDeliveryProofs` | `MCActionDelivery` |
| an agent run | `AgentRun` over `InvocationLedger` | `AgentRunProofs` | `MCAgentRun` |
| jobs that call a model | `ModelJobs` over `InvocationLedger` | `ModelJobsProofs` | `MCModelJobs` |
| what a prompt is told | `ContextSelection` over `ContextBudget` | `ConversationProofs` | `MCContextSelection` |
| governance console | `GovernanceConsole` over `GovernanceSessions`, `GovernanceStore` | `GovernanceProofs` | `MCGovernanceConsole` |
| governance page | `GovernanceBrowser` | `GovernanceProofs` | `MCGovernanceBrowser` |
| release tool | `ApplicationRelease` | `OperationsProofs` | `MCOperations` |
| restore handoff | `RestoreHandoff` | `OperationsProofs` | `MCOperations` |
| migration of the database | `SchemaMigration` | `OperationsProofs` | `MCOperations` |
| the release tool's lock | `ActivationLock` | | `MCActivationLock` |

To repeat everything: `tlc -config X.cfg M` for each run of section 3 (the module is named
after the run; `MCEventPipelineStop` is a second configuration of `MCEventPipeline`, and
`MCActivationLock` one of `ActivationLock`), and `tlapm M.tla` for each module of the
third column.

## 1. Inventory

### The running bot

| Component | State | Operations | What makes it correct |
| --- | --- | --- | --- |
| Event ingress and admission (`ingestion/`, `application/turn-application-service.ts`) | `raw_events`, `event_ingress_receipts`, `event_processing_admissions`, `event_processing_failures` | claim, queue, start, settle, turn away | a delivery starts at most one workflow; an accepted event is settled |
| Startup recovery (`ingestion/event-admission-recovery.ts`) | the same rows, the list handed to the ready callback | reconcile one row | never repeats an effect, never gives up what was untouched |
| Turn admission controller (`pi/turn-admission-controller.ts`) | per-key queues, key order, cursor, two counters, idle waiters | schedule, expire, pump, finally, waitForIdle | limits, one turn per conversation, no lost wakeup, no starvation |
| Conversation turn workflow (`application/conversation-turn-service.ts`, `storage/turn-repository.ts`) | `chat_messages`, `agent_turns`, `action_decisions`, `action_executions` | the stages of one turn | the stored conversation tells what happened |
| Action decisions and execution (`actions/`) | decisions, executions, cooldowns, bindings | plan, review, cool down, execute, send, record | nothing risky unreviewed, no false claim to remember, an unknown delivery never taken for a completed or an unsent one |
| Durable job queue and worker (`storage/job-repository.ts`, `workers/background.ts`) | `jobs`, `job_attempts`, `worker_heartbeats`, a worker's memory | enqueue, claim, extend, complete, fail, give up | the tables agree; stale attempts are fenced; every job settles |
| Scheduler (`workers/scheduler.ts`) | timers, in-flight flags | tick, stopAndDrain | a handler never overlaps itself |
| Delayed attention (`attention/`, `application/background-runtime-service.ts`) | `attention_candidates`, `attention_decisions`, their jobs and turns | defer, decide, run the turn, verify its evidence | at most one reply, within the group's budget |
| Start and stop (`index.ts`) | phase, `acceptingIngress`, the promise of stop | recover, listen, ready, stop | no work is in flight when SQLite is closed |
| Pi adapter, tools (`pi/`, `tools/`, `storage/local-tool-effect-coordinator.ts`) | agent slots, rounds, tool calls | run a turn, call a tool, abandon, finalize | a slot serves one turn; what was abandoned settles nothing; effects and records commit together |
| Invocation and evaluator ledgers (`storage/model-invocation-repository.ts`, `evaluator/`) | `model_invocations`, `evaluator_decisions` | start, settle, orphan, decide | settled once, by its owner |
| Memory store and proposals (`memory/`, `storage/memory-*`) | memories, revisions, sources, maintenance proposals | propose, review, apply, roll back, revoke | a decision applies to the revisions it was made on |
| Memory and summary workers (`workers/`) | their jobs' effects, summary policy epochs, vectors | extract, decay, consolidate, summarise, embed | effects only under the lease, the consent and the revision they belong to |
| Context builder (`context/`) | none; reads over many statements | load, match, read routes, filter, fit the budget | only what may be told there, whole, within the budget |
| Attention engine, policy gate | none (pure classification) | | the choice follows the rules |
| Gateway (`gateway/`) | request table, one socket, one timer | call, time out, lose, reconnect, stop | an answer reaches the call that asked; one socket |

### Around it

| Component | State | Operations | What makes it correct |
| --- | --- | --- | --- |
| Governance HTTP application (`http/governance-*`) | sessions, three handle registries | log in, list, preview, confirm | a handle is for one session, one use, one thing shown |
| Governance service and queries (`governance/`) | the governed rows | preview reads, conditional effects | what was shown is what is done |
| Governance page (`http/governance-browser-assets/`) | views, requests in flight, armed workflows | navigate, load, preview, confirm | what is confirmed is what is on screen |
| Release tool (`operations/application-release.ts`, `managed-startup.ts`) | two links, a journal, a snapshot, a permit, a lock | activate, confirm, recover, start | every crash is recoverable; an old release never sees new data |
| Restore handoff (`operations/governance-restore-handoff*.ts`) | a directory of small files | prepare, claim, attempt, complete | nothing newer than the claim is overwritten |
| Migrations (`storage/database.ts`) | the database file, `schema_version` | inspect, repair, migrate, check, commit | a program starts on a wholly migrated database or not at all |
| Retention and maintenance (`operations/sqlite-maintenance.ts`) | the same database | plan, apply | evidence that is still needed is kept |
| Identity, privacy, audit storage; command line | accounts, consents, audit rows | single-row writes | (read and written as others' environment) |

Configuration, logging, deployment scripts: see section 6.

### How they interact

A gateway delivery is **claimed** in one transaction and becomes a task of the **turn
admission controller**. When its turn comes the **workflow** stores the message, **builds
a context** from memories, runs the **agent** (whose tool calls are reviewed and whose
provider calls are entered in the **ledger**), commits a **decision**, sends through the
**gateway**, records the execution and completes the turn: one transaction after another,
with the model and the platform in between. A message nobody addressed to the bot may be
**deferred**: its candidate and its job are stored with it, and a **worker** looks at it
again later, starting a turn through the same controller. Other jobs **extract** memories
and **summarise** groups. At startup **recovery** looks at what the previous process left
and hands the untouched part back, to be queued when the gateway is ready. The operator
changes the same rows through the **console** (whose page holds a copy of them), through
the command line, or by QQ commands; releases and restores replace the program or the
database while it is stopped. All of it shares one database, whose transactions are the
only atomic steps, and a few files, whose renames are.

### What is hard

The process may die between any two transactions or file operations; the platform
redelivers, and its answer may be lost after it has acted; leases expire while the
handler that holds them works on; timers, promise callbacks and `finally` blocks
interleave; retries meet the traces of the attempt before; what was read before an await
(a consent, a memory, a tool's permission, a preview) has changed after it. `PROJECT.json`
lists each of these as a hazard, at its line, with the properties that would notice it
going wrong.

## 2. Modules and code

### `JobQueue` and `JobContract`

`jobs`, `attempts`, `heartbeats` are the tables; `workers[w]` is the memory of a
`BackgroundWorker` between two awaits; `written[j]` is the attempt that last committed an
effect fenced by `hasActiveJobAttemptAuthority`. One action is one transaction:

| Action | Code |
| --- | --- |
| `Enqueue` | `JobRepository.enqueue` |
| `ClaimNext` (gives up what is exhausted, then claims) | `claimNext`, `failExpiredMaxAttemptLeases` |
| `ExtendLease` | `extendLease` from the interval of `startDurableLeaseHeartbeat` |
| `Complete`, `Fail` | `complete`, `fail` and the code around them in `processNextDurable` |
| `Poll`, `Begin`, `HandlerThrows`, `Report` | the rest of `processNextDurable` with its heartbeats |
| `FencedWrite` | any handler's effect that rechecks the authority in its transaction |
| `Crash`, `Tick` | the process dies; time passes |

Time is kept as time remaining, so that a clock that runs for ever has finitely many
states. `MaxAge` caps how overdue a job may look, which only the order of claims reads.

`JobContract` says the same without leases, workers or clocks: phase, number of tries
and the attempt that won. `JobQueue` implements it under the mapping in `Contract`.

### `TurnAdmission`

The variables are the fields of the class: `queues`, `keyOrder`, `activeKeys`, `cursor`,
`active`, `queued`, `waiters`. The class is single-threaded, so a callback is one
action, except `pump()`, whose loop reads a moving clock and is taken one iteration at a
time (`PumpServe`, `PumpDone`); `pc` holds its caller and keeps every other callback
out. `Resolve` and `Release` are two actions because the caller's promise settles before
the `finally` block runs, and the caller may submit again in between. `late` is the set
of items whose deadline has passed; between that moment and the timer, `pump` may meet
them.

### `EventPipeline`

For each message one value per table (`receipts`, `admission`, `chat`, `deferred`,
`turn`, `failure`, `decision`, `execution`, `botChat`), two for the outside world
(`governed`, `sent`), the process (`phase`, `accepting`, `stopping`, `drained`, `scan`,
`recovered`) and the stage of the message's task (`at`). An action ends where the code
commits or talks to the platform.

| Action | Code |
| --- | --- |
| `Deliver` | `EventIngressClaimService.claim`, `claimAndEnqueueEvent` |
| `TurnAway`, `Begin`, `Return` | `TurnApplicationService`: rejection, start, outcome |
| `Ignore` ... `Finish`, `Throw`, `FailTurn`, `RecordFailure` | `ConversationTurnService.handleEvent`, its commits, early returns and catch block, with `ActionExecutor` |
| `Boot`, `Recover`, `Listen`, `Ready` | `recover()` in `index.ts`, one row of `EventAdmissionRecovery`, the adapter's start, the `whenReady` callback |
| `Stop`, `Drain`, `CloseDatabase`, `Crash` | `performStop`; the process dies |

What is abstracted: deadlines are not measured, so any stage may throw and a waiting
task may be turned away at any time; the controller appears as "one task per
conversation" (`Slot`), which `TurnAdmission` establishes; the model's answer is one
step with two outcomes, which `AgentRun` refines; `"rejected"` is the record of whatever
sends nothing, be it forbidden or silent; a database write does not fail by itself.
`TypeOK` also relates the task to its row, which is what a task relies on when it runs.

### `EventListener`

How messages reach the pipeline. With the WebSocket transport `Receive` is `Deliver`. With
HTTP the platform posts: `Arrive` is a request that `ApplicationHttpServer` hands to
`handleOneBotHttpEvent`, `Overflow`, `TimeOut` and `Abandon` end it while its body is being
collected, `Complete` is the end of the body: the event is taken, skipped, rejected, or
turned down because admission closed meanwhile. `ListenerStop`, `ListenerDrain`,
`ListenerCloseDatabase` are `performStop` with the listener in it: `server.close()` waits
for the requests that are being read. Every step of the listener is a step of the pipeline
or leaves it alone, which is proved (`ListenerRefinesPipeline`).

### `DelayedAttention`

A job (as in `JobQueue`, with the lease reduced to "lapsed or not"), the attention
decision, the share of the budget it holds, the turn and its evidence, and the stage of
every attempt's handler: an attempt that lost its lease keeps running while the next one
starts. `Claim`, `GiveUp`, `Complete`, `Fail` are the queue's; `Refuse`, `Reuse`,
`Suppress`, `Respond`, `TurnedAway` are the branches of the recheck handler up to its
decision; `CreateTurn` ... `FailTurn` are the turn. The clock (`Lapse`, `BecomeMoot`,
`LeaveWindow`) may move at any moment.

### `OneBotGateway` and `ActionDelivery`

`OneBotGateway` is the adapter: `socket` and the sockets it let go of, the reconnect
timer, and for each API call where it stands between `callApi` and its settlement. The
WebSocket library and the platform are external: events of a socket come late, also after
the adapter has replaced it; a request may be accepted, refused or never seen, and its
answer lost. `ActionDelivery` EXTENDS it with the decision and its execution.

| Action | Code |
| --- | --- |
| `Start`, `Stop`, `Reconnect`, `OpenWebSocket`, `SocketOpen`, `SocketClose` | the life of the one socket |
| `CallApi`, `Answer`, `CallFails`, `Taken` | `callWsApi`/`callApi`, `handleWebSocketMessage`, the 30 s timer, the awaiting sender |
| `BuildContext`, `Respond`, `Evaluate` | the context trace; `createDecision` with its plans; the review and its verdict |
| `Decide` | `createDecisionSync`: cooldown applied, claims corrected against the memory as it is, decision stored |
| `Executing`, `Execute...`, `Send`, `RecordSend`, `RecordOnly` | `ActionExecutor`, per action type, with binding, policy and record |
| `CooldownsOver`, `Suppressed`, `Takes` | `anchorModifiedActionConstraints`; `ActionCooldownManager.apply` |
| `CooldownExpires`, `ChangeMemory`, `Abandon` | time, other writers, the turn's deadline |

A text is the memory it claims to remember (`Claim`), or none. `ProposeMemory` is what a
tool of the same turn may have stored. A decision holds one plan, as the service builds
it.

The cooldown is kept by key. The code's key of a reply is made of the conversation's type,
the conversation and the type of the reply, and the first two decide the third, so a
conversation stands for it; `OtherKey` are the keys only an evaluator may name. A review may
replace the plan. Over a reply the new plan has the reply's key, whatever the evaluator
returned; over silence, which has none, it has the evaluator's key or no key, and the group's
cooldown does not hold it back. `OneReplyPerWindow` is therefore about interventions: what
is sent for an answer of the model to a message that does not address the bot (`intervening`).
`spent` is a history variable: the conversations that intervened since their entry expired.

### `InvocationLedger`, `AgentRun` and `ModelJobs`

`InvocationLedger` is `ModelInvocationRepository` as guards and new values of the table
(`CanStart...`, `Completed`, `Failed`, `Decided`), and the triggers of migration 007
(`Orphaned`) by which the end of an owner (a turn or a job attempt) aborts its open rows.
Two modules EXTEND it.

`AgentRun` is `PiAdapter.runTurn` for some turns that share the pool of agent slots:
`RunTurn` acquires a slot, `StreamProviderRound` starts a row, `ProviderAnswers` and
`Finalize` settle it, `BeforeToolCall`, `Execute`, `Decide`, `Approved`, `StartHandler`,
`HandlerSettles`, `CommitEffect` are one tool call with its gate, review, handler and
prepared effect, `Deadline` aborts, `Return` releases the slot and `EndTurn` writes the
turn's end. An abandoned provider call or handler goes on and may answer later (`late`).
The Pi agent loop is external.

`ModelJobs` is the jobs that call a model. `SetEnabled` opens and closes epochs of a
group's consent; `PlanWindow` plans a window, that part of the candidates which the context
builder's token budget retains (`Retained`: which messages fit is left open), and
`EnqueueWindow` compares it with the windows frozen meanwhile and freezes it;
`BeginSummary`, `CallProvider`, `SummaryAnswer`, `StoreSummary` execute it, checking the
authorization at each await; `BeginExtraction`, `AskEvaluator`, `EvaluatorAnswer`,
`CommitDecision` are an extraction, whose memory and decision commit together. `Claim`,
`LeaseLapses`, `RetryOrFail`, `FailExpired`, `Settle` are the queue's, as in `JobQueue`.

### `ContextBudget` and `ContextSelection`

`ContextBudget` is the pure part of the builder: sizes stand for texts and costs for the
lines they add; `Packs` is the set of prompts the algorithm can produce (empty where it
throws), built by `KeepCurrent`, `KeepQuote`, `TellAll`, `KeepRecent`, `TellOrDrop`.
`KeepRecent` says what the loop from the newest message back to the first that does not
fit leaves: a message is kept if each newer one was and it fits with all of them.

`ContextSelection` reads the store statement by statement: `StartBuild` loads messages,
`SemanticAnswers` waits for the provider and searches the index, `ReadPolicy`,
`ReadRoute`, `ReadMatches` are the SQL statements, `FinishBuild` filters, ranks and fits.
`StartSearch` ... `FinishSearch` is the `memory.search` tool, `Snapshot` and
`WriteVectors` the embedding worker, `CallTool`, `HandleTool`, `CommitTool` the tools
that propose and disable memories. Between any two steps `GovernMemory`, `ChangeConsent`
and `Unlink`, another process, may write. A message is known by its place in the chat,
and a scene, with which a behaviour starts, is a conversation, its chat and a store whose
records are owned as their scope says (`WellOwned`, the check that each creation passes). `Tellable` is the reference definition: what a conversation
may be told, by scope, visibility, state and consent. A read of many statements cannot
see one moment, so `OnlyTheTellable` asks that each memory told was tellable at *some*
moment of its own build.

### `MemoryMaintenance`

`memory`, `revisions`, `proposal`, `history` are the tables `memory_records`,
`memory_revisions`, `memory_maintenance_proposals` (with its candidates, score and links)
and `memory_maintenance_proposal_revisions`; `withdrawn` is the set of memories for which
`readMemoryImportanceEvidence` finds nothing any more; `claim` is the request the latest
step called carried out.

| Action | Code |
| --- | --- |
| `OwnerChange` | `MemoryRepository.updateStateSync` |
| `Retention` | `applyRetentionPolicy` in `operations/sqlite-maintenance.ts` |
| `Withdraw`, `Reinstate` | the evidence of a score is lost or comes back |
| `Scan`, `Propose` | the conflict, consolidation and decay workers: sample, then `createOrGet` after an await |
| `ProposeImportance` | the importance worker, which reads and files in one transaction |
| `Review`, `Apply`, `Rollback` | `transitionReview`, `applyApproved`, `rollbackApplied` |
| `Unchanged` | the branch of each of the three that recognises an exact retry |
| `Refuse` | `'stale'`, or the transaction throws |

A request carries the state and revision its author saw, now or at any time before, and
is sent again when its answer is lost. A fingerprint is the data it hashes. Left out:
sources, scope and access predicates (one scope, every reviewer sees everything),
memories that are proposed or rejected (no scanner samples them), the `updated_at` of the
proposal itself. The code takes the later of its clock and the rows' timestamps as the
time of a write; the model takes any time not before the records' own, and its clock may
stand still or turn back.

### `GovernanceSessions`, `GovernanceStore`, `GovernanceConsole`, `GovernanceBrowser`

`GovernanceSessions` is memory of the process: sessions, scope handles, resource handles
and single-use preview handles, each with its bound and expiry. `GovernanceStore` is one
row of each governed kind with a version; for each operation `Preview...` is what a
preview reads, `Effect...` what a confirmed operation writes, and `Cli...`, `Qq...` are
the other writers. `GovernanceConsole` puts them together as requests: `Arrive`
authenticates, the body arrives later (`List`, `IssuePreview`, `Confirm`), a
confirmation consumes its handle and compares what was shown with what is, and only then
opens the transaction (`Commit`, `CommitRetention`, `CommitHandoff`), so that others may
write in between.

`GovernanceBrowser` is the other end. The page's functions are operators from a state of
the page to the next (`ClearDetail`, `ResetMemory`, `ShowLogin`, ...), so a handler reads
like its source; requests in flight are answered in any order, or not, and a request
whose sequence number was passed is no longer `live`. The server is taken as
`GovernanceConsole` promises it.

### `ApplicationRelease`, `RestoreHandoff`, `SchemaMigration`, `ActivationLock`

`ApplicationRelease`: an operation is a program, a sequence of named steps, each with one
durable effect (a file created, renamed or removed, a call of the supervisor, a probe).
`Activate`, `Undo`, `Restart` and `Confirm` are the four programs, `StepsOf` names the one
of a mode, and one action for each kind of step carries out the next; a failed activation
goes on in `Undo`, from its beginning or from behind the stop. The variables are the
files: the `current` and `previous` links, the journal and its temporary copy, the
snapshot, the permit, the database. `GateAdmits` is what every start of the application
has to pass. `Killed`, `Died`, `PowerCut` end the operator's process, the application or
both; `BeginRecovery` and `BeginConfirmation` find what is left.

`RestoreHandoff`: each of the small files has a value and a staging name; `PrepareWrite`,
`PrepareLink`, ... are the file operations of the two programs; `target` is the content of
the database, a number equal exactly when digests are. `Write` is the service between two
attempts, `ConsumerCrash` and `ServiceCrash` may come between any two operations.

`SchemaMigration`: `disk` is the file as committed, `work` what the process with the write
lock sees, `stage[p]` where each program is in `runMigrations`. `Inspect`, `BeginImmediate`
and `Busy` come before the transaction; `PrePatch` ... `Search` repair an earlier layout,
`Migrate` applies one migration, `Commit` ends the transaction, and `Throw` or `Exit` may
come at any step of it. A schema is the number of the migrations that made it and what it
lacks; a source of a memory is what it names, and `Resolved` is the backfill of links.

`ActivationLock`: the lock file, the quarantine name, and where each invocation is in
`acquireActivationLock`; `Exit` lets a process end or die.


## 3. Runs

A property in a configuration is often a conjunction: `JobsConsistent`, say, of the type
invariant and the two consistency statements above it in the module, each with its own
comment. TLC names the conjunct that fails.

| Run | Instance | Distinct states | Shows |
| --- | --- | --- | --- |
| `MCSchedulers` | jobs: 2 workers (one with a filter), a job of a known and one of an unknown type, 2 attempts, lease of 2 ticks, 1 crash; turns: 5 items of 3 conversations, 2 deadlines, 2 slots, 2 places | 122 k | `JobsConsistent`, `JobStepsLawful`, `ImplementsContract`, `EveryJobSettles`; `TurnsConsistent`, `TurnsServed` |
| `MCEventPipeline` | a command and an unreadable event in two conversations, delivered twice over a WebSocket, or the command in two HTTP posts; 2 exits | 371 k | `EffectsHappenOnce`, `QuarantineJustified`, `RowsTruthful`; `IngressHonest`, `EverythingSettles` |
| `MCEventPipelineStop` | a command, an ordinary message, 2 exits | violation | `ShutdownLeavesNoWork` fails (section 5) |
| `MCDeferredWork` | attention: 2 questions, budget of 1, 2 attempts each, 1 crash; maintenance: 2 memories, 2 proposals of any kind, 2 reviewers, 1 change by the owner, 2 clock values | 2.0 M | `OneReplyWithEvidence`, `BudgetHolds`; `HistoryIsTrue`, `AppliedIsInForce`, `ReviewsRespectTheOwner` |
| `MCActionDelivery` | 2 turns of one group, its key and one other, 1 memory, 2 sockets, 1 stop, either transport | 3.6 M | `SocketsTidy`, `RecordedMeansPosted`, `OutwardActionsGuarded` |
| `MCAgentRun` | 2 turns, 2 slots, 2 rounds with a call each, a reviewed and an unreviewed tool, 1 mishap | 434 k | `RunsAreTrue`, `RunStepsLawful`, `EveryRunReturns` |
| `MCModelJobs` | 2 summary jobs or an extraction job with 2 attempts each, 2 messages, 3 generations of consent, 1 stall | 1.6 M | `SummariesHaveConsent`, `DecisionsAreGrounded`, `EffectsNeedAuthority` |
| `MCContextSelection` | scenes of one conversation and 3 memories that differ in scope, visibility and owner, 2 foreign writes | 1.3 M | `TellableAndTraced`, `PromptFits`, `WritesAreCurrent` |
| `MCGovernanceConsole` | 2 requests, 2 logins, 3 previews, 15 workloads of operations and writers that meet in one row | 1.0 M | `HandlesSound`, `EvidenceKept`, `EffectsConfirmed` |
| `MCGovernanceBrowser` | 2 scopes, 2 records, 2 proposals, 2 requests in flight, 1 foreign write | 1.4 M | `ScreenIsTheScopes`, `OneCommandOnScreen`, `OutcomesAreTrue` |
| `MCOperations` | release: 3 releases, 2 operations, 2 faults; handoff: 2 handoffs, 3 contents, 2 attempts, 2 crashes; migration: 2 programs, 3 migrations, 2 sources, some fifty kinds of database | 417 k | `ReleaseSound`, `CandidateStartsOnce`; `HandoffSound`, `NothingNewOverwritten`; `OperationsSettle`; `MigrationSound` |
| `MCActivationLock` | 4 invocations, 1 of them killed | violation | `MutualExclusion` fails (section 5) |

Every property has been seen to fail when one definition of its model is changed the way
a bug would change the code; these mutated forms stand before the definitions they
change, and `PROJECT.json` lists which breaks what.

**Several models in one run.** `MCSchedulers`, `MCDeferredWork` and `MCOperations` put
components side by side that share no state: a variable chosen at the start says which of
them moves. A behaviour
is one of one component, so nothing is lost, and the number of states is their sum.

**Why the bounds are enough.** *Jobs:* a stale attempt needs two workers and two
attempts; a lease of two ticks can be extended at full and at half length; a second job
makes one poll give up one job and take another; one crash is a lost attempt on top of
one that merely stalls. *Turns:* the cursor's arithmetic needs a key in front of, at and
behind it, hence three; a full queue of two lets one item expire while another stays; one
conversation has three items, one running, one resolved, one waiting. *Events:* messages
interact only through the conversation slot and the shared process; two exits allow a
crash during the recovery from a crash; of two posts one may be the repetition of the other
or come while the other's body is being read. *Delayed attention:* two candidates are the least
that can overspend a budget of one, two attempts the least that can overlap. *Memory:*
two proposals over the same memories and two reviewers are the least that compete; two
clock values let two writes share a timestamp or not. *Actions:* two turns compete for
one cooldown, a second key lets a review name a wrong one, and two sockets let an old one's
events meet the new one. *Agent runs:* a
slot that was abandoned is reused by the other turn; the second round meets what the
first left; the mishap is a disabled tool or a restart. *Model jobs:* two enqueuers race
for one window, two attempts overlap, and three generations are a consent withdrawn and
renewed. *Context:* routes are separate statements, so one writer who acts twice can take
away and put back what a read has seen; scenes stand for the kinds of record and
conversation, one of them with a budget that two memories fill to the last token.
*Console:* one session is evicted by the other, one preview too many is refused, the one
remembered consumed handle is trimmed; retention meets a memory to be kept, one to be purged,
and each of the rows that need the memory or its sources. *Browser:* two requests in flight are the least
that answer out of order. *Release:* the third release is activated over the second,
whose migration the rollback of the first operation has to undo; two faults allow a crash
during recovery. *Handoff:* the files of the second handoff meet what a crash left of the
first. *Migration:* two programs race for one transaction; three migrations are the repair
of the first, one that changes the schema and one that may find its names taken; of two
sources one can be the evidence of the other. *Lock:* one is killed holding the lock, two
reclaim it and the fourth takes the name that falls free.

**Symmetry** is used where the permuted values are interchangeable and the run checks no
liveness (`MCDeferredWork`, `MCActionDelivery`, `MCModelJobs`, `MCGovernanceConsole`).

**Deadlock** is checked in `MCGovernanceBrowser`. Elsewhere the instance may really stop:
with nothing more to send, nothing waiting and every bound used up, the bot is quiet, the
operator's tools are done, and a message has been answered.

**Fairness.** Only what the code schedules. *Jobs:* time passes; a worker's own steps are
weakly fair, as the scheduler keeps ticking and awaited code continues; a handler returns
or throws; nothing is assumed of lease timers or of callers. *Turns:* a running loop goes
on, timers fire, and every workflow ends, since it has a deadline of its own. *Events:*
tasks run on; the supervisor starts the process again; the gateway connects; a stop
proceeds; a request that nothing else ends is ended by its timer. Nobody has to send, stop
or crash anything. *Agent runs:* the run's own code
proceeds, the deadline timer fires, aborted finalisations and handlers settle, the
evaluator answers within its own timeout; a provider that was not aborted may stay silent
for ever, only a late one answers. *Release:* the program's steps go on; recovery and
confirmation are eventually asked for by somebody, as the documents tell the operator to
do, again and again if they are interrupted (strong fairness, because each fault disables
them for a while). *Handoff:* the consumer's and the preparer's steps go on; the service
manager starts the consumer while the service is down and the service after a crash
(strong fairness again). The other runs check safety only.

## 4. Proofs

Each proof holds for every value of the constants that the assumption of its module
allows; TLC evaluates these assumptions on every run. Most only say that constants are of
the right kind, that `None` is no id, and that a bound is a number. Those with content:
a job has at least one attempt and a lease at least one tick (`JobQueueAssumption`); a run
has at least one round and a turn is no job attempt (`LedgerAssumption`); however the
other turns hold theirs, there is one more session slot, since the pool makes a slot
whenever none is free (`SlotAssumption`); a behaviour of the console begins with a memory
that has not been purged (`GovernanceStoreAssumption`); the items a user of the page meets
are in states a workflow starts from or leads to (`SituationsAssumption`).

Each safety theorem rests on one inductive invariant, which TLC checked before it was
proved. It says how the types, the rows of the database and the memory of the processes
hang together; the property alone is never inductive.

**`SchedulerProofs`, the job queue**, for any jobs, workers, claim filters, leases, delays and limits:

- `TypeCorrect`. Types alone are not inductive: a worker in flight must refer to an
  actual attempt of an actual job (`RefersToAttempt`).
- `LedgerAlwaysConsistent`. `LedgerConsistent` is inductive with the types. The proof
  shows that each action moves each job by one of a few *row moves*, and that each move
  preserves the story the two tables tell, so an action is looked at once.
- `QueueImplementsContract`. The same row moves are moves of `JobContract`.
- `ReportsAreDurable`, `FencedWritesOrdered`. These need to know whose attempt is whose:
  an attempt that is running and current belongs to at most the worker that remembers it,
  and no effect carries a number beyond the current attempt (`OwnsAttempt`,
  `WrittenBounded`).
- `ErrorsStick`. A completion is never reported over an error, because the heartbeat says
  `running` from the start of the handler to the report (`HeartbeatInv`).
- `JobsStayConsistent`, `JobStepsAlwaysLawful` put these together as the run states them.

**`SchedulerProofs`, turn admission**, for any conversations, items, limits and lengths of time:

- `TurnsStayConsistent`. `TurnInv` says that the queue of a key holds exactly the waiting
  items of that key, once each (`Lined`), that `keyOrder` names exactly the keys with work,
  once each (`Ordered`), that the two counters count what they say (`Counted`), and that
  nobody waits while a turn could start (`WorkConserving`): only the item being admitted
  may stand beyond a limit, and then the pump that follows can take one.
- `TurnsNeverRecede`. A turn moves back in no queue and a key in no order, which are facts
  about removal from a sequence without repetitions; the position of an item that is
  removed exists because of `Lined` and `Ordered`. The run checks `TurnNeverRecedes` as a
  part of `TurnsServed`.

**`ConversationProofs`, events**, for any messages, conversations, redeliveries and crashes:
`TypesHold`, `AtMostOnce`, `UnknownDeliveriesFlagged`, `NoOpenTurns`,
`QuarantinesJustified`, `LogTruthful` and their sum `RowsStayTruthful`, all from one
inductive invariant `IInv`. Its heart is `Evidence`: the chat row is written before
anything else the workflow does, so a message without one is untouched; startup hands
back only such messages; hence a workflow that starts has no effect behind it, and within
one workflow each effect has one step (`Effects`). `Startable` says that recovery has the
database to itself, and `Owned` that a row left in `processing` is either some task's or
still ahead of recovery. A step of one message's task leaves the others alone (`TaskOwn`,
`TaskFrame`), so the invariant is proved per message.

The listener with its HTTP requests refines that pipeline (`ListenerRefinesPipeline`:
each of its steps is a step of the pipeline or leaves it alone), so everything above holds
for events that come in that way too (`ListenerKeepsRows`). `IngressAlwaysHonest` says
that a request answered 200 has its event in the database and that nothing is taken in
after the stop; it needs `Gated`: the listener is open only in the phase in which the
process accepts events.

**`ConversationProofs`, context**, for any memories, scenes, limits, budgets and writes of
another process: `ContextInvariant`, and from it `TellableAndTracedAlways`,
`PromptFitsAlways`, `WritesAreCurrentAlways`. The invariant is the conjunction of what
holds of the conversation (`SceneInv`), the store (`StoreInv`), a read (`ReadInv`), a tool
call (`ToolInv`), the index (`IndexInv`) and the consents (`ConsentInv`).

- *The budget.* A pack with more in it costs no less. That takes sums over finite sets of
  numbers and their induction, which is by least numbers here: the library's rule has a
  predicate for a parameter, a set of naturals does as well. From the cost follows, for
  each stage of the algorithm, that it keeps within the budget, and that what a stage
  dropped does not fit now, since later stages only add (`PacksSound`).
- *What may be told.* Each route asks only for what belongs to the conversation or to
  everyone (`RouteOK`, `SearchOK`); a record that a route, the index or a second reading
  by identifier returns is owned as its scope says; and the filter rejects the
  visibilities that are left. Hence every record found was, when it was read, either
  tellable or one that the filter rejects (`FoundInv`), whatever is written afterwards.
- *Writes.* A batch of the embedding worker holds revisions of the past (`IndexInv`), so a
  record whose revision is the batch's has not been touched since; a prepared call is
  compared with the row in the transaction that applies it.

**`DeferredWorkProofs`, delayed attention**, for any questions, attempts, budget and
crashes:

- `OneReplyAlways`. `AtMostOneReply` alone is not inductive: a second attempt of a stalled
  job must find out what the first one did. `Accounted` says how: whatever was sent is
  marked in the turn as decided *before* the send, a turn under way is not completed, and
  only a handler with evidence succeeds; `OneWorkflow` says that the conversation runs one
  of them at a time. `TurnMoves` treats all steps inside a turn alike.
- `BudgetAlwaysHolds` needs only that `spent` is finite.

**`ActionDeliveryProofs`**, for any turns, conversations, memories, sockets and stops:
`SocketsStayTidy`, `RecordedMeansPostedAlways`, `OutwardActionsAlwaysGuarded`. The
invariant `DeliveryInv` has two layers. The gateway: a live connection is the current one,
a call waits only on that one, and an adapter that was started was not closed by hand
(`GatewayInv`). The turns: a call is made by a turn that has made none, so what the
platform posted is what the one answer says (`Posting`); a plan that may act carries, from
the moment it is built, the mark of the review it needs (`Marked`); and an intervention
has its conversation's key from the moment it is built, since a review cannot give it
another (`Anchored`), while whoever has intervened finds that key's entry (`spent` is a
subset of `cooling`).

**`AgentRunProofs`**, for any turns, slots, tools, rounds, permissions and mishaps:

- `RunsStayTrue`. `RunInv` describes, for each round of each turn, where it is
  (`TurnInv`): not begun, then it has no row, call or effect (`Blank`); under way; waiting
  for a finalisation that was given up by the run; completed; or known to the run to have
  failed. Hence a run that answered "completed" has a completed row for each round. `Pooled`
  says that a slot in use names the run that uses it and a slot on the idle stack is there
  once and names nobody who goes on.
- `RunStepsAlwaysLawful`. The permission to start a handler is asked for in the step that
  starts it, the evaluator's recorded answer was placed there by the round's own calls
  (`Staged`, `Told`), and a settled row of the ledger is never written again.

**`DeferredWorkProofs`, memory maintenance**, for any memories, proposals, reviewers,
changes by the owner and clock: `HistoryAlwaysTrue`, `AppliedAlwaysInForce`, `ReviewsAlwaysRespectTheOwner`.
`MaintenanceInv` says that a memory is what its last revision says (`Recorded`), that the
number of decisions about a proposal fits its state and their order is a path of the life
cycle (`Path`), that a proposal names records as they were when it was filed (`Known`), and
that what an applied proposal wrote is still in the history, at the place its links name,
with what it replaced (`Effective`, `Written`). That last part makes the two statements
about later steps true: whatever happens to the memory afterwards, the record tells
whether the application is still in force and what to restore.

**`GovernanceProofs`, the console**, for any requests, sessions, bounds, workloads, other writers and
clock: `HandlesStaySound`, `EvidenceIsKept`, `EffectsAreConfirmed`, from one invariant
`ConsoleInv`.

- Of the handles (`PreviewsOK`): one record to a handle; the record of a handle that let a
  confirmation through stays marked as consumed while it is there, which is why a handle
  is good for one; a scope handle and a preview of a scoped operation go with their
  session, which is why a request that outlived its session finds neither. That no more
  than `MaxConsumed` consumed records stay follows from trimming alone: all that are kept
  but the least are newer than the least, of which there are fewer than `MaxConsumed`.
- Of the previews (`Faithful`): what a preview or a request carries is what its operation
  shows of a row in which the operation is possible. A row that is as expected is then the
  previewed one, and a memory that was purged is not forgotten a second time into being.
- Of retention, `EvidenceKept` is inductive given that. A plan is compared and applied in
  one transaction, and whatever it spares of a memory it spares of the source
  (`PurgedKeeps`).

**`GovernanceProofs`, the page**, for any scopes, items, places, requests in flight and
foreign writes: `BrowserInvariant`, and from it `ScreenIsTheScopesAlways`,
`OneCommandOnScreenAlways` and `OutcomesAreTrueAlways`. The three properties are not
inductive: none says which answers are still to come. `BrowserInv` does.

- *Requests.* An awaited request fits the page (`AllFit`): a list is for the view, the pane
  and the scope that are shown, a detail is awaited only while none is shown, a preview or
  a confirmation only by the workflow that says so. On each channel at most one request is
  awaited (`Single`), so a handler that takes its answer leaves no other that would be
  taken later. What the server has answered is of the kind that was asked for, and an
  answered confirmation is noted in `done` (`AnswerOK`).
- *Waits.* Whatever the page waits for is awaited (`FlowWaits`, `DetailWaits`,
  `LoadWaits`), and while a pane loads it shows no rows (`Backed`): a list that arrives
  meets no detail that belongs to older rows.
- *Workflows.* At most one workflow of a detail is asked for, under way or ready to be
  confirmed (`FlowsOK`). That starting one keeps this rests on the table of competing
  workflows together with the states each starts from: for a detail in a given state every
  other workflow that could hold an authority is a competitor (`ApartOrCompeting`).

The functions of the page call each other several deep, and a handler sends its request in
the middle. Each function has a lemma that says which fields it changes (`Changes`), which
requests it passes (`PassedTo`, `SentTo`) and which parts of the invariant it keeps. Parts
that do not hold within a handler, such as a detail said to be loading whose request has yet
to leave, are left out of `PageSound` and come back with the request that leaves.

**`ModelJobsProofs`**, for any jobs, attempts, messages, concurrent callers, windows,
generations of consent and clock: `SummariesKeepConsent`, `DecisionsStayGrounded`,
`EffectsHaveAuthority`, from one invariant `JobsInv` in three parts.

- `Summaries`. The boundary of a transition is later than every message there is
  (`TransitionFacts`), so a message eligible in the epoch in force arrived in it
  (`Policed`); a frozen window was eligible when it was frozen (`Bindings`), hence what is
  summarised was said under the consent that summarises it. Nothing is asked of the plan: a
  window, whatever part of the candidates it is, is compared with every other when it is
  frozen, so frozen windows are apart and a message is summarised at most once.
- `Attempts`. Only the last attempt of a job is alive (`Numbered`), and where a handler is
  tells which of its calls it has not made (`Placed`).
- `Decisions`. An attempt that decided is past it, and a later attempt finds the effect
  before it asks (`Grounded`). An older attempt that lost its lease cannot decide, since
  the transaction asks for the lease once more.

The permissions of a summary call, a summary and a memory are read in the step that acts
on them, and no other step of the system opens such a row or writes such an effect
(`OnlyProviderCalls`, `OnlyStoreStores`, `OnlyDecisionsWrite`).

**`OperationsProofs`, restore handoff**, for any handoffs, contents, attempts and deaths:
`HandoffsAreSound`, `NothingNewLost`. `HandoffInv` says that every file and everything in
memory is about the latest handoff (`Turns`, `Latest`), that the count of a claim is on disk
before the attempt it is for (`Counted`), and that a claim records what the database was:
what is still as recorded has not been touched since.

**`OperationsProofs`, migration**, for any schema versions, programs and sources:
`DatabasesReady`, `MigrationsAreWhole`, `MigrationsAreSound`. `MigrationInv`: whoever holds
the write lock works on a copy of the older database that was there when it took the lock
(`Locked`, `Copied`); the copy only gains links, and it is of its ledger's version from
the stage on from which alone it is committed.

**`OperationsProofs`, releases**, for any releases, schemas, operations and faults:
`ReleaseInvariant`, and from it `ReleaseSoundAlways` and `CandidateStartsOnceAlways`.
`ReleaseInv` says of each place in the four programs what is true there: the phase of the
journal (`Phased`) and which temporary journal is left (`Written`), where the links point
(`Placed`), which permit there is (`Permitted`), that the files belong to the operation
while the application is stopped (`Stopped`), what snapshot and restored copy hold
(`Snapshots`, `Taken`) and what the database holds (`Stored`). When an operation is
interrupted its place is lost and the phase of the journal is what is left to tell it:
what holds in a phase is what holds at every place where the journal has it. One lemma for
each kind of step shows that it takes what holds at its place to what holds at the next.

**What proving changed.** Several `CASE` expressions had guards that can hold together.
TLC takes the first, the code's `else if` does too, but the semantics of TLA+ leaves the
choice open and no proof can be had of it; they are chains of `IF` now
(`ActionDelivery`, `ApplicationRelease`, `MemoryMaintenance`, `ModelJobs`,
`GovernanceBrowser`). The assumption of `ModelJobs` had to say that `None` is no binding.
The programs of `ApplicationRelease` were built by concatenation, in which the SMT solver
cannot find the n-th step; they are literal sequences now. `ContextBudget` folded over
sequences of memories and messages; what is proved about is a recursive function and a
set, and `WellOwned` had to say of every scope what the store checks of it.

**Only model-checked:** liveness and everything that rests on fairness
(`EveryJobSettles`, `EverythingSettles`, `EveryRunReturns`, `OperationsSettle`, the last
two parts of `TurnsServed`), which TLAPS does not reach.

## 5. Where code and documents disagree

**Stop before ready** (`MCEventPipelineStop`, a bug). `stop()` runs before the gateway is
ready and closes ingress; then the gateway becomes ready and its callback sets
`acceptingIngress` to true again. In TLC's trace `waitForIdle` returns, since no task is
pending, a new message then arrives on the WebSocket, is admitted and queued, and SQLite is
closed beneath its task. The documents say that shutdown closes ingress first and never
closes SQLite beneath unresolved work. Were the callback to come after `waitForIdle` has
returned, the events recovered from an earlier crash would be queued as late; with its second
exit the run allows for that too, but TLC reports the shorter trace. The rows themselves stay
sound: the next start recovers them as after a crash.

**Two holders of the activation lock** (`MCActivationLock`, a bug). `docs/operations.md:2186`
says that activation, confirmation and recovery serialise through the lock. With four invocations, one of them killed while it holds the
lock, two may hold it: the one that finds somebody else's lock in its quarantine puts it back
(`operations/application-release.ts:2795`) after a third has taken the name that fell free.
With three invocations TLC finds no such behaviour.

The following were met while modelling. The models follow the code, and no run is spent
on them.

- *Service order.* The comment of `TurnAdmissionController` says that keys are served
  round-robin. Removing a finished key takes the cursor back with it and new keys go to
  the end, so with one slot a conversation that keeps sending can have the slot twice
  while another waits. `TurnNeverRecedes` is what does hold: no key gets in front of one
  the cursor has yet to reach.
- *Retries of a recheck* (`attention/delayed-attention-service.ts:415`,
  `docs/social-action-model.md:404`). The documents say that a retry reuses the decision
  and the turn. `JobRepository.fail` moves `scheduled_at`, which `assertJobBinding`
  compares with the candidate's `not_before_at`: a retry after a failure is refused before
  it looks at either. A retry after an expired lease behaves as documented.
- *The active state of candidates* (`docs/contracts.md:1116`). The snapshot of a proposal
  compares each record with what it was when the proposal was *filed*, and
  `expected_state` is the constant `'active'`: a memory its owner disabled between scan
  and filing is current ever after. The memory is not harmed, since each update is
  conditional on `state = 'active'`; `applyApproved` then throws where the documents
  promise the answer "stale".
- *Windows of one epoch* (`workers/group-summary-job-service.ts:129`). `enqueueSummary` looks
  for an active window before it plans, and not again in the transaction that freezes the
  plan. If a message comes between the plans of two calls, the token budget may retain
  different messages for each, both windows are frozen, and the epoch has two active ones.
  No message is summarised twice. But `findReusableActiveWindow` (:491) then answers each
  later call with an error, "multiple active frozen windows", until one of the two jobs has
  ended.
- *Decisions about memories.* When the evaluator's call fails, `MemoryProposalService`
  writes the rejection to the audit log without asking whether its job attempt still holds
  the lease; `docs/operations.md:171` says that evaluator effects are fenced to the attempt.
  `MemoryRepository.approve` looks whether the memory is still proposed in a statement of
  its own, before the update: another process may delete or reject it in between, and the
  update then makes it active.
- *The governance page.* After a confirmed application or rollback the refresh of the
  Review pane hides the result it should preserve (`memory.js:1509` preserves approvals and
  rejections only; `docs/governance-ui.md:1932`). In `privacy.js` choosing the empty scope
  returns before the request number moves on, so that an earlier scope's answer is still
  shown; other views share the pattern. A late answer to a logout clears the token of the
  session that was begun meanwhile.
- *Restore handoff.* A staging file torn by a power cut is never recovered, and a leftover
  `.pending.*.tmp` refuses every later handoff, until somebody removes it by hand
  (`NeedsAttention`); `docs/operations.md` calls every window recoverable.

## 6. Not modelled, and the plan

**Limits of the modules.**

- `AgentRun`: `streamTurn`, `abort()` by a caller, several tool calls in one round, and a
  failure while the failure is being recorded.
- `ModelJobs`: one group; a policy change recorded while the evaluator thinks is not asked
  for again at the commit, in the code as in the model.
- `ContextSelection`: proposals with global scope by owner or administrator, the secret
  scan and the expiry of memories, group recent summaries, the ranking of full-text search,
  procedures.
- `GovernanceSessions`: bodies of unscoped routes that arrive after the logout may still
  issue and use a preview, in the code as in the model; `AuthorityIsLive` says so for
  scoped routes only.
- `GovernanceBrowser`: views other than Memory and Privacy, which repeat Privacy's pattern
  or only read. `AuthorityIsOnScreen` is weaker for preference changes, since a catalog that
  is reloaded leaves an authority with no scope chosen.
- `ApplicationRelease`: packaging, and the loss of power with reordered file operations,
  which the documents disclaim (`docs/operations.md`, durability).
- `EventPipeline`: the normaliser of incoming events; failing database writes.
- `EventListener`: the reverse HTTP listener that may run beside the WebSocket, the wait
  for a request whose body is being read, and an address that cannot be bound.

**Not modelled for good:** the contents of messages, prompts and contexts; HTTP parsing
and rendering; configuration, logging, deployment and evidence scripts; the SQL of the
single migrations. SQLite is trusted to make a transaction atomic and durable.

**What is open.** Every safety property that the passing runs check is a theorem. Liveness
stays with TLC, on the instances of section 3.
