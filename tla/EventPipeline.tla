--------------------------- MODULE EventPipeline ---------------------------
(***************************************************************************)
(* The life of an inbound message, across crashes and restarts:            *)
(* EventIngressClaimService (src/src/ingestion/event-ingress-claim.ts)     *)
(* claims it, TurnApplicationService (src/src/application/                 *)
(* turn-application-service.ts) moves its admission,                       *)
(* ConversationTurnService (conversation-turn-service.ts) runs its turn,   *)
(* and EventAdmissionRecovery (src/src/ingestion/                          *)
(* event-admission-recovery.ts) reconciles at startup what a process left  *)
(* behind.  LetheBotApp (src/src/index.ts) orders startup and shutdown.    *)
(*                                                                         *)
(* A step ends where the code commits or talks to the platform: between    *)
(* two steps the process may die.  Deadlines are not measured: a stage may *)
(* throw, and a waiting task may be turned away, at any time.              *)
(***************************************************************************)
EXTENDS Naturals, FiniteSets

CONSTANTS
  Message,         \* platform messages, by the identity raw_events is unique on
  ConversationOf,  \* ConversationOf[m]: the admission key of m
  Command,         \* the messages that are QQ governance commands
  Unreadable,      \* the messages whose stored form fails strict revalidation
  MaxReceipts,     \* bound: how often the platform delivers one message
  MaxExits         \* bound: crashes and shutdowns

ASSUME EventPipelineAssumption ==
  /\ Command \subseteq Message /\ Unreadable \subseteq Message
  /\ DOMAIN ConversationOf = Message
  /\ MaxReceipts \in Nat /\ MaxExits \in Nat

VARIABLES
  \* rows of the database, by message
  receipts,   \* event_ingress_receipts: how many (the first one also claims)
  admission,  \* event_processing_admissions.state, "none" without a raw event
  chat,       \* the messages with a chat_messages row
  deferred,   \* the messages with an attention candidate and its job
  turn,       \* agent_turns.status of the turn the message triggered
  failure,    \* the messages with an event_processing_failures row
  decision,   \* the messages whose turn has an action decision
  execution,  \* action_executions: what is recorded of the reply ("rejected" also
              \* stands for the record of an action that sends nothing)
  botChat,    \* the messages whose reply is in chat_messages
  \* the outside world
  governed,   \* how often the governance command took effect
  sent,       \* how often the platform accepted a reply
  \* the process
  phase,      \* "down", "recovering", "listening" (not ready yet) or "up"
  accepting,  \* acceptingIngress
  stopping,   \* stop() was called
  drained,    \* its waitForIdle has returned
  scan,       \* recovery: the rows it has read and not reconciled
  recovered,  \* the events to enqueue when the gateway is ready
  at,         \* at[m]: the stage of m's task
  exits

rows == <<receipts, admission, chat, deferred, turn, failure, decision, execution, botChat>>
world == <<governed, sent>>
process == <<phase, accepting, stopping, drained, scan, recovered>>
vars == <<rows, world, process, at, exits>>

Terminal == {"completed", "failed", "interrupted_review"}
Admission == {"none", "accepted", "processing"} \cup Terminal
TurnStatus == {"none", "pending", "running", "completed", "failed", "aborted"}
Execution == {"none", "success", "failed", "rejected"}

\* The stages between the start of the handler and its return.
Handling == {"identity", "stored", "created", "running", "inferred", "decided",
             "delivered", "undelivered", "rejected", "executed"}
Stage == {"idle", "waiting"} \cup Handling \cup {"caught", "marked"} \cup {"completed", "failed"}

Init ==
  /\ receipts = [m \in Message |-> 0]
  /\ admission = [m \in Message |-> "none"]
  /\ chat = {} /\ deferred = {} /\ failure = {} /\ decision = {} /\ botChat = {}
  /\ turn = [m \in Message |-> "none"]
  /\ execution = [m \in Message |-> "none"]
  /\ governed = [m \in Message |-> 0]
  /\ sent = [m \in Message |-> 0]
  /\ phase = "down" /\ accepting = FALSE /\ stopping = FALSE /\ drained = FALSE
  /\ scan = {} /\ recovered = {}
  /\ at = [m \in Message |-> "idle"]
  /\ exits = 0

-----------------------------------------------------------------------------
(* Ingress and admission *)

\* claimAndEnqueueEvent: the first delivery claims the message and queues its
\* task; another one only leaves its receipt.
Deliver(m) ==
  /\ accepting
  /\ receipts[m] < MaxReceipts
  /\ receipts' = [receipts EXCEPT ![m] = @ + 1]
  /\ IF admission[m] = "none"
     THEN /\ admission' = [admission EXCEPT ![m] = "accepted"]
          /\ at' = [at EXCEPT ![m] = "waiting"]
     ELSE UNCHANGED <<admission, at>>
  /\ UNCHANGED <<chat, deferred, turn, failure, decision, execution, botChat, world, process, exits>>

\* terminalizeAdmissionRejection: no room in the queue, or the deadline passed.
TurnAway(m) ==
  /\ at[m] = "waiting"
  /\ IF admission[m] = "accepted"
     THEN /\ admission' = [admission EXCEPT ![m] = "failed"]
          /\ failure' = failure \cup {m}
     ELSE UNCHANGED <<admission, failure>>
  /\ at' = [at EXCEPT ![m] = "idle"]
  /\ UNCHANGED <<receipts, chat, deferred, turn, decision, execution, botChat, world, process, exits>>

\* The admission controller runs one task per conversation.
Slot(m) == \A n \in Message \ {m} :
             ConversationOf[n] = ConversationOf[m] => at[n] \in {"idle", "waiting"}

Claimed(m) == [admission EXCEPT ![m] = "processing"]

Begin(m) ==
  /\ at[m] = "waiting" /\ Slot(m)
  /\ IF admission[m] = "accepted"
     THEN /\ admission' = Claimed(m)
          /\ at' = [at EXCEPT ![m] = "identity"]
     ELSE /\ at' = [at EXCEPT ![m] = "idle"]
          /\ UNCHANGED admission
  /\ UNCHANGED <<receipts, chat, deferred, turn, failure, decision, execution, botChat,
                 world, process, exits>>

Outcome(m) == at[m]

\* The handler has returned: the admission becomes terminal.
Return(m) ==
  /\ at[m] \in {"completed", "failed"}
  /\ admission' = IF admission[m] = "processing"
                  THEN [admission EXCEPT ![m] = Outcome(m)] ELSE admission
  /\ at' = [at EXCEPT ![m] = "idle"]
  /\ UNCHANGED <<receipts, chat, deferred, turn, failure, decision, execution, botChat,
                 world, process, exits>>

-----------------------------------------------------------------------------
(* The turn: ConversationTurnService.handleEvent *)

GoTo(m, stage) ==
  /\ at' = [at EXCEPT ![m] = stage]
  /\ UNCHANGED <<receipts, admission, process, exits>>

\* An account that is not active is not answered, and nothing is stored.
Ignore(m) ==
  /\ at[m] = "identity"
  /\ GoTo(m, "completed")
  /\ UNCHANGED <<chat, deferred, turn, failure, decision, execution, botChat, world>>

\* The chat row, and with it in one transaction the delayed-attention candidate
\* of a message that is put off.  Only a message to answer goes on.
Store(m) ==
  /\ at[m] = "identity"
  /\ chat' = chat \cup {m}
  /\ \/ GoTo(m, "stored") /\ UNCHANGED deferred
     \/ m \notin Command /\ GoTo(m, "completed") /\ UNCHANGED deferred
     \/ m \notin Command /\ GoTo(m, "completed") /\ deferred' = deferred \cup {m}
  /\ UNCHANGED <<turn, failure, decision, execution, botChat, world>>

CreateTurn(m) ==
  /\ at[m] = "stored"
  /\ turn' = [turn EXCEPT ![m] = "pending"]
  /\ GoTo(m, "created")
  /\ UNCHANGED <<chat, deferred, failure, decision, execution, botChat, world>>

\* The governance effect and the decision to confirm it, in one transaction.
Govern(m) ==
  /\ at[m] = "created" /\ m \in Command
  /\ governed' = [governed EXCEPT ![m] = @ + 1]
  /\ decision' = decision \cup {m}
  /\ GoTo(m, "decided")
  /\ UNCHANGED <<chat, deferred, turn, failure, execution, botChat, sent>>

\* The context is built and stored.
StartTurn(m) ==
  /\ at[m] = "created" /\ m \notin Command
  /\ turn' = [turn EXCEPT ![m] = "running"]
  /\ GoTo(m, "running")
  /\ UNCHANGED <<chat, deferred, failure, decision, execution, botChat, world>>

\* The model answers, or reports that it could not.
Infer(m) ==
  /\ at[m] = "running"
  /\ \/ GoTo(m, "inferred") /\ UNCHANGED turn
     \/ GoTo(m, "failed") /\ turn' = [turn EXCEPT ![m] = "failed"]
  /\ UNCHANGED <<chat, deferred, failure, decision, execution, botChat, world>>

Decide(m) ==
  /\ at[m] = "inferred"
  /\ decision' = decision \cup {m}
  /\ GoTo(m, "decided")
  /\ UNCHANGED <<chat, deferred, turn, failure, execution, botChat, world>>

\* The platform takes the reply, or its answer is lost, or the send fails; or
\* nothing is sent, because policy forbids it or the decision is to keep silent.
Send(m) ==
  /\ at[m] = "decided"
  /\ \/ GoTo(m, "delivered") /\ sent' = [sent EXCEPT ![m] = @ + 1]
     \/ GoTo(m, "undelivered") /\ sent' = [sent EXCEPT ![m] = @ + 1]
     \/ GoTo(m, "undelivered") /\ UNCHANGED sent
     \/ GoTo(m, "rejected") /\ UNCHANGED sent
  /\ UNCHANGED <<chat, deferred, turn, failure, decision, execution, botChat, governed>>

RecordExecution(m) ==
  /\ at[m] \in {"delivered", "undelivered", "rejected"}
  /\ execution' = [execution EXCEPT ![m] =
       CASE at[m] = "delivered" -> "success"
         [] at[m] = "undelivered" -> "failed"
         [] at[m] = "rejected" -> "rejected"]
  /\ GoTo(m, "executed")
  /\ UNCHANGED <<chat, deferred, turn, failure, decision, botChat, world>>

ReplyStored(m) == IF execution[m] = "success" THEN botChat \cup {m} ELSE botChat

\* The reply's chat row and the completed turn, in one transaction.
Finish(m) ==
  /\ at[m] = "executed"
  /\ botChat' = ReplyStored(m)
  /\ turn' = [turn EXCEPT ![m] = "completed"]
  /\ GoTo(m, "completed")
  /\ UNCHANGED <<chat, deferred, failure, decision, execution, world>>

\* Any stage may throw, the deadline checks between them included.
Throw(m) ==
  /\ at[m] \in Handling
  /\ GoTo(m, "caught")
  /\ UNCHANGED <<chat, deferred, turn, failure, decision, execution, botChat, world>>

\* The catch block: the turn, if there is one, then the failure row.
FailTurn(m) ==
  /\ at[m] = "caught"
  /\ turn' = IF turn[m] = "none" THEN turn ELSE [turn EXCEPT ![m] = "failed"]
  /\ GoTo(m, "marked")
  /\ UNCHANGED <<chat, deferred, failure, decision, execution, botChat, world>>

RecordFailure(m) ==
  /\ at[m] = "marked"
  /\ failure' = failure \cup {m}
  /\ GoTo(m, "failed")
  /\ UNCHANGED <<chat, deferred, turn, decision, execution, botChat, world>>

-----------------------------------------------------------------------------
(* Startup: recover(), the gateway, its ready callback *)

Boot ==
  /\ phase = "down"
  /\ phase' = "recovering"
  /\ scan' = {m \in Message : admission[m] \in {"accepted", "processing"}}
  /\ UNCHANGED <<rows, world, accepting, stopping, drained, recovered, at, exits>>

\* Mutated form: only a recorded failure is evidence of a started workflow.
ReplayableUnlessFailed(m) == m \notin failure \cup Unreadable

\* Mutated form: nothing that was being processed is ever replayed.
ReplayableIfUntouched(m) == admission[m] = "accepted"

\* No chat row, turn or failure row, and a stored event that can be trusted.
Replayable(m) == m \notin chat \cup failure \cup Unreadable /\ turn[m] = "none"

\* Mutated form: an interrupted turn stays as it was.
TurnLeftOpen(m) == turn

\* markAbortedByTriggerEvent
TurnAborted(m) == IF turn[m] \in {"pending", "running"}
                  THEN [turn EXCEPT ![m] = "aborted"] ELSE turn

\* Mutated form: an event that is reset is not handed back.
NothingHandedBack(m) == IF admission[m] = "processing" THEN recovered ELSE recovered \cup {m}

HandedBack(m) == recovered \cup {m}

\* One row of recover: handed back for another run, or left for review.
Recover(m) ==
  /\ phase = "recovering" /\ m \in scan
  /\ scan' = scan \ {m}
  /\ IF Replayable(m)
     THEN /\ admission' = [admission EXCEPT ![m] = "accepted"]
          /\ recovered' = HandedBack(m)
          /\ UNCHANGED turn
     ELSE /\ admission' = [admission EXCEPT ![m] = "interrupted_review"]
          /\ turn' = TurnAborted(m)
          /\ UNCHANGED recovered
  /\ UNCHANGED <<receipts, chat, deferred, failure, decision, execution, botChat, world,
                 phase, accepting, stopping, drained, at, exits>>

Listen ==
  /\ phase = "recovering" /\ scan = {}
  /\ phase' = "listening"
  /\ UNCHANGED <<rows, world, accepting, stopping, drained, scan, recovered, at, exits>>

\* The whenReady callback: what was recovered is queued before ingress opens.
Ready ==
  /\ phase = "listening"
  /\ phase' = "up"
  /\ at' = [m \in Message |-> IF m \in recovered THEN "waiting" ELSE at[m]]
  /\ recovered' = {}
  /\ accepting' = TRUE
  /\ UNCHANGED <<rows, world, stopping, drained, scan, exits>>

-----------------------------------------------------------------------------
(* Shutdown and crashes *)

Exited ==
  /\ phase' = "down" /\ accepting' = FALSE /\ stopping' = FALSE /\ drained' = FALSE
  /\ scan' = {} /\ recovered' = {}
  /\ at' = [m \in Message |-> "idle"]
  /\ UNCHANGED <<rows, world>>

\* performStop up to its Promise.all.
Stop ==
  /\ phase \in {"listening", "up"} /\ ~stopping
  /\ exits < MaxExits
  /\ exits' = exits + 1
  /\ stopping' = TRUE /\ accepting' = FALSE
  /\ UNCHANGED <<rows, world, phase, drained, scan, recovered, at>>

\* waitForIdle sees no pending task.
Drain ==
  /\ stopping /\ ~drained
  /\ \A m \in Message : at[m] = "idle"
  /\ drained' = TRUE
  /\ UNCHANGED <<rows, world, phase, accepting, stopping, scan, recovered, at, exits>>

\* The workers have drained too: the adapter stops, the database is closed and
\* the process exits.
CloseDatabase ==
  /\ drained
  /\ Exited
  /\ UNCHANGED exits

Crash ==
  /\ phase # "down"
  /\ exits < MaxExits
  /\ exits' = exits + 1
  /\ Exited

-----------------------------------------------------------------------------
Step(m) ==
  \/ TurnAway(m) \/ Begin(m) \/ Return(m)
  \/ Ignore(m) \/ Store(m) \/ CreateTurn(m) \/ Govern(m) \/ StartTurn(m) \/ Infer(m)
  \/ Decide(m) \/ Send(m) \/ RecordExecution(m) \/ Finish(m)
  \/ Throw(m) \/ FailTurn(m) \/ RecordFailure(m)

Startup == Boot \/ Listen \/ Ready \/ \E m \in Message : Recover(m)

Next ==
  \/ \E m \in Message : Deliver(m) \/ Step(m)
  \/ Startup
  \/ Stop \/ Drain \/ CloseDatabase \/ Crash

Spec == Init /\ [][Next]_vars

\* Tasks run on, the supervisor starts the process again, and the gateway
\* connects.  Nobody has to send, stop or crash anything.
FairSpec ==
  /\ Spec
  /\ \A m \in Message : WF_vars(Step(m))
  /\ WF_vars(Startup)
  /\ WF_vars(Drain) /\ WF_vars(CloseDatabase)

-----------------------------------------------------------------------------
(* Properties *)

\* Every variable has its type, and a task is never at a stage its admission row
\* does not allow, whatever recovery and the queue did.
TypeOK ==
  /\ receipts \in [Message -> 0..MaxReceipts]
  /\ admission \in [Message -> Admission]
  /\ turn \in [Message -> TurnStatus]
  /\ execution \in [Message -> Execution]
  /\ \A s \in {chat, deferred, failure, decision, botChat, scan, recovered} : s \subseteq Message
  /\ governed \in [Message -> Nat] /\ sent \in [Message -> Nat]
  /\ phase \in {"down", "recovering", "listening", "up"}
  /\ {accepting, stopping, drained} \subseteq BOOLEAN
  /\ at \in [Message -> Stage]
  /\ \A m \in Message : /\ at[m] = "waiting" => admission[m] = "accepted"
                        /\ at[m] \notin {"idle", "waiting"} => admission[m] = "processing"
                        /\ m \in recovered => admission[m] = "accepted" /\ at[m] = "idle"
  /\ exits \in 0..MaxExits

\* However often a message is delivered and whenever the process dies, it gets at
\* most one reply and its command takes effect at most once: what has left durable
\* evidence is never run again.
EffectsHappenOnce == \A m \in Message : sent[m] <= 1 /\ governed[m] <= 1

\* A reply the platform may have taken and nobody recorded is never reported as
\* completed, and never goes back to the queue: the admission ends as failed or
\* waits for review.
UnknownDeliveryIsFlagged ==
  \A m \in Message :
    sent[m] > 0 /\ execution[m] = "none" /\ at[m] = "idle" /\ phase \in {"listening", "up"}
    => admission[m] \in {"failed", "interrupted_review"}

\* An event that is over has no turn that still looks alive, whether its handler
\* ended it or recovery did.
NoTurnLeftOpen ==
  \A m \in Message : admission[m] \in Terminal => turn[m] \notin {"pending", "running"}

\* Recovery gives up only what had started or cannot be read: a message the last
\* process had merely taken is answered by the next one.
QuarantineJustified ==
  \A m \in Message :
    admission[m] = "interrupted_review" => m \in chat \cup failure \cup Unreadable

\* The stored conversation tells what happened: the bot's line is there exactly
\* when the delivery was confirmed and the turn completed with it.
ConversationLogTruthful ==
  \A m \in Message :
    m \in botChat <=> execution[m] = "success" /\ turn[m] = "completed"

\* Every accepted message is settled in the end, through any crash.
EveryEventSettles ==
  \A m \in Message : admission[m] = "accepted" ~> admission[m] \in Terminal

\* Shutdown closes the database only when no event task is in flight.
ShutdownLeavesNoWork ==
  [][drained /\ phase' = "down" /\ exits' = exits => \A m \in Message : at[m] = "idle"]_vars

\* What the rows say of a message is what happened to it, also after a crash
\* between any two commits: its unknown delivery, its turn, the bot's line.
RowsTruthful ==
  TypeOK /\ UnknownDeliveryIsFlagged /\ NoTurnLeftOpen /\ ConversationLogTruthful
=============================================================================
