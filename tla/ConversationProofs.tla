------------------------- MODULE ConversationProofs -------------------------
(***************************************************************************)
(* How a message comes into a conversation, and what its answer may rest   *)
(* on: what EventPipeline and EventListener promise, proved for any set of *)
(* messages and of requests, any number of redeliveries and of crashes,    *)
(* and after it what ContextBudget and ContextSelection promise, for any   *)
(* records, scenes, budgets and writes of another process.                 *)
(*                                                                         *)
(* The argument for the pipeline: the chat row is written before anything  *)
(* else the workflow does, so a message without one is untouched; startup  *)
(* hands back only untouched messages; hence a workflow that starts has no *)
(* effect behind it, and within one workflow each effect has one step.  A  *)
(* request never outlives the listener, the listener never outlives the    *)
(* phase in which events are taken, and no row that was claimed is ever    *)
(* forgotten: so the platform can rely on the 200 it gets.                 *)
(***************************************************************************)
EXTENDS EventListener, ContextSelection, FiniteSetTheorems, SequenceTheorems,
        WellFoundedInduction, TLAPS

\* TypeOK without its last relations, in a form the provers split easily.
Typed ==
  /\ receipts \in [Message -> 0..MaxReceipts]
  /\ admission \in [Message -> Admission]
  /\ turn \in [Message -> TurnStatus]
  /\ execution \in [Message -> Execution]
  /\ chat \subseteq Message /\ deferred \subseteq Message /\ failure \subseteq Message
  /\ decision \subseteq Message /\ botChat \subseteq Message
  /\ scan \subseteq Message /\ recovered \subseteq Message
  /\ governed \in [Message -> Nat] /\ sent \in [Message -> Nat]
  /\ phase \in {"down", "recovering", "listening", "up"}
  /\ accepting \in BOOLEAN /\ stopping \in BOOLEAN /\ drained \in BOOLEAN
  /\ at \in [Message -> Stage]
  /\ exits \in 0..MaxExits

\* Recovery has the database to itself.
Startable ==
  /\ phase \in {"down", "recovering"} => \A m \in Message : at[m] = "idle"
  /\ accepting => phase = "up"
  /\ scan # {} => phase = "recovering"
  /\ recovered # {} => phase \in {"recovering", "listening"}
  /\ scan \cap recovered = {}

\* A task and its admission row agree, and a recovered event is still accepted.
InStep(m) ==
  /\ at[m] = "waiting" => admission[m] = "accepted"
  /\ at[m] \notin {"idle", "waiting"} => admission[m] = "processing"
  /\ m \in recovered => admission[m] = "accepted" /\ at[m] = "idle"

\* Without its chat row, a message is untouched; a message that may still be
\* started is.
Evidence(m) ==
  /\ admission[m] \in {"none", "accepted"} \/ at[m] = "identity" => m \notin chat
  /\ at[m] \in Handling \ {"identity"} => m \in chat
  /\ m \notin chat => turn[m] = "none" /\ sent[m] = 0 /\ governed[m] = 0

\* Each effect has one step.
Effects(m) ==
  /\ at[m] \in {"stored", "created", "running", "inferred", "decided"} => sent[m] = 0
  /\ at[m] \in {"stored", "created"} => governed[m] = 0
  /\ sent[m] <= 1 /\ governed[m] <= 1

\* What is over has no open turn and was rightly given up.
Closed(m) ==
  /\ admission[m] \in Terminal \/ at[m] \in {"marked", "completed", "failed"}
       => turn[m] \notin {"pending", "running"}
  /\ admission[m] = "interrupted_review" => m \in chat \cup failure \cup Unreadable

\* The turn completes last, and with the record of its execution.
Recorded(m) ==
  /\ at[m] \in Handling \ {"executed"} \/ m \notin chat => execution[m] = "none"
  /\ at[m] = "executed" => execution[m] # "none"
  /\ at[m] \in Handling \cup {"caught"} => turn[m] # "completed"
  /\ at[m] = "completed" \/ admission[m] = "completed" => sent[m] = 0 \/ execution[m] # "none"
  /\ m \in botChat <=> execution[m] = "success" /\ turn[m] = "completed"

\* A row that is being processed has a task, or recovery has yet to see it.
Owned(m) ==
  admission[m] = "processing" /\ at[m] = "idle"
    => phase = "down" \/ (phase = "recovering" /\ m \in scan)

Sound(m) == /\ InStep(m) /\ Evidence(m) /\ Effects(m) /\ Closed(m)
            /\ Recorded(m) /\ Owned(m)

IInv == Typed /\ Startable /\ \A m \in Message : Sound(m)

-----------------------------------------------------------------------------
LEMMA InitSound == Init => IInv
<1> SUFFICES ASSUME Init PROVE IInv  OBVIOUS
<1> USE EventPipelineAssumption DEF EventPipelineAssumption
<1>1. Typed
  <2>1. 0 \in 0..MaxReceipts /\ 0 \in 0..MaxExits  OBVIOUS
  <2>2. receipts \in [Message -> 0..MaxReceipts]  BY <2>1 DEF Init
  <2>3. accepting \in BOOLEAN /\ stopping \in BOOLEAN /\ drained \in BOOLEAN  BY DEF Init
  <2> QED  BY <2>1, <2>2, <2>3
           DEF Typed, Init, Terminal, Admission, TurnStatus, Execution, Handling, Stage
<1>2. Startable  BY DEF Init, Startable
<1>3. ASSUME NEW m \in Message PROVE Sound(m)
  BY <1>3 DEF Init, Sound, InStep, Evidence, Effects, Closed, Recorded, Owned, Handling, Terminal
<1> QED  BY <1>1, <1>2, <1>3 DEF IInv

\* A step of m's task keeps the types and disturbs neither startup nor shutdown.
LEMMA TaskTyped ==
  ASSUME Typed, NEW m \in Message, Step(m)
  PROVE  Typed'
<1> USE DEF Typed, Terminal, Admission, TurnStatus, Execution, Handling, Stage
<1>1. CASE TurnAway(m)  BY <1>1 DEF TurnAway, world, process
<1>2. CASE Begin(m)  BY <1>2 DEF Begin, Claimed, world, process
<1>3. CASE Return(m)  BY <1>3 DEF Return, Outcome, world, process
<1>4. CASE Ignore(m)  BY <1>4 DEF Ignore, GoTo, world, process
<1>5. CASE Store(m)  BY <1>5 DEF Store, GoTo, world, process
<1>6. CASE CreateTurn(m)  BY <1>6 DEF CreateTurn, GoTo, world, process
<1>7. CASE Govern(m)  BY <1>7 DEF Govern, GoTo, world, process
<1>8. CASE StartTurn(m)  BY <1>8 DEF StartTurn, GoTo, world, process
<1>9. CASE Infer(m)  BY <1>9 DEF Infer, GoTo, world, process
<1>10. CASE Decide(m)  BY <1>10 DEF Decide, GoTo, world, process
<1>11. CASE Send(m)  BY <1>11 DEF Send, GoTo, world, process
<1>12. CASE RecordExecution(m)  BY <1>12 DEF RecordExecution, GoTo, world, process
<1>13. CASE Finish(m)  BY <1>13 DEF Finish, ReplyStored, GoTo, world, process
<1>14. CASE Throw(m)  BY <1>14 DEF Throw, GoTo, world, process
<1>15. CASE FailTurn(m)  BY <1>15 DEF FailTurn, GoTo, world, process
<1>16. CASE RecordFailure(m)  BY <1>16 DEF RecordFailure, GoTo, world, process
<1> QED  BY <1>1, <1>2, <1>3, <1>4, <1>5, <1>6, <1>7, <1>8, <1>9, <1>10, <1>11, <1>12, <1>13, <1>14, <1>15, <1>16 DEF Step

\* It leaves the other messages, the startup scan and the process alone, and it
\* needs a task.
LEMMA TaskFrame ==
  ASSUME Typed, NEW m \in Message, Step(m)
  PROVE  /\ UNCHANGED process
         /\ at[m] # "idle"
         /\ \A n \in Message \ {m} :
              /\ at'[n] = at[n] /\ admission'[n] = admission[n] /\ turn'[n] = turn[n]
              /\ sent'[n] = sent[n] /\ governed'[n] = governed[n]
              /\ execution'[n] = execution[n]
              /\ n \in chat' <=> n \in chat
              /\ n \in botChat' <=> n \in botChat
              /\ n \in failure' <=> n \in failure
<1> USE DEF Typed
<1>1. CASE TurnAway(m)  BY <1>1 DEF TurnAway, Handling, world, process
<1>2. CASE Begin(m)  BY <1>2 DEF Begin, Claimed, Handling, world, process
<1>3. CASE Return(m)  BY <1>3 DEF Return, Outcome, Handling, world, process
<1>4. CASE Ignore(m)  BY <1>4 DEF Ignore, GoTo, Handling, world, process
<1>5. CASE Store(m)  BY <1>5 DEF Store, GoTo, Handling, world, process
<1>6. CASE CreateTurn(m)  BY <1>6 DEF CreateTurn, GoTo, Handling, world, process
<1>7. CASE Govern(m)  BY <1>7 DEF Govern, GoTo, Handling, world, process
<1>8. CASE StartTurn(m)  BY <1>8 DEF StartTurn, GoTo, Handling, world, process
<1>9. CASE Infer(m)  BY <1>9 DEF Infer, GoTo, Handling, world, process
<1>10. CASE Decide(m)  BY <1>10 DEF Decide, GoTo, Handling, world, process
<1>11. CASE Send(m)  BY <1>11 DEF Send, GoTo, Handling, world, process
<1>12. CASE RecordExecution(m)  BY <1>12 DEF RecordExecution, GoTo, Handling, world, process
<1>13. CASE Finish(m)  BY <1>13 DEF Finish, ReplyStored, GoTo, Handling, world, process
<1>14. CASE Throw(m)  BY <1>14 DEF Throw, GoTo, Handling, world, process
<1>15. CASE FailTurn(m)  BY <1>15 DEF FailTurn, GoTo, Handling, world, process
<1>16. CASE RecordFailure(m)  BY <1>16 DEF RecordFailure, GoTo, Handling, world, process
<1> QED  BY <1>1, <1>2, <1>3, <1>4, <1>5, <1>6, <1>7, <1>8, <1>9, <1>10, <1>11, <1>12, <1>13, <1>14, <1>15, <1>16 DEF Step

\* It keeps what is known of m.
LEMMA TaskOwn ==
  ASSUME Typed, NEW m \in Message, Sound(m), Step(m)
  PROVE  Sound(m)'
<1> USE DEF Typed, Sound, InStep, Evidence, Effects, Closed, Recorded, Owned, Handling, Terminal
<1>1. CASE TurnAway(m)  BY <1>1 DEF TurnAway, world, process
<1>2. CASE Begin(m)  BY <1>2 DEF Begin, Claimed, world, process
<1>3. CASE Return(m)  BY <1>3 DEF Return, Outcome, world, process
<1>4. CASE Ignore(m)  BY <1>4 DEF Ignore, GoTo, world, process
<1>5. CASE Store(m)  BY <1>5 DEF Store, GoTo, world, process
<1>6. CASE CreateTurn(m)  BY <1>6 DEF CreateTurn, GoTo, world, process
<1>7. CASE Govern(m)  BY <1>7 DEF Govern, GoTo, world, process
<1>8. CASE StartTurn(m)  BY <1>8 DEF StartTurn, GoTo, world, process
<1>9. CASE Infer(m)  BY <1>9 DEF Infer, GoTo, world, process
<1>10. CASE Decide(m)  BY <1>10 DEF Decide, GoTo, world, process
<1>11. CASE Send(m)  BY <1>11 DEF Send, GoTo, world, process
<1>12. CASE RecordExecution(m)  BY <1>12 DEF RecordExecution, GoTo, world, process
<1>13. CASE Finish(m)  BY <1>13 DEF Finish, ReplyStored, GoTo, world, process
<1>14. CASE Throw(m)  BY <1>14 DEF Throw, GoTo, world, process
<1>15. CASE FailTurn(m)  BY <1>15 DEF FailTurn, GoTo, world, process
<1>16. CASE RecordFailure(m)  BY <1>16 DEF RecordFailure, GoTo, world, process
<1> QED  BY <1>1, <1>2, <1>3, <1>4, <1>5, <1>6, <1>7, <1>8, <1>9, <1>10, <1>11, <1>12, <1>13, <1>14, <1>15, <1>16 DEF Step

LEMMA TaskSound ==
  ASSUME IInv, NEW m \in Message, Step(m)
  PROVE  IInv'
<1>1. Typed'  BY TaskTyped DEF IInv
<1>2. UNCHANGED process /\ at[m] # "idle"  BY TaskFrame DEF IInv
<1>3. Startable'  BY <1>2, TaskFrame DEF IInv, Startable, process
<1>4. ASSUME NEW n \in Message PROVE Sound(n)'
  <2>1. CASE n = m  BY <2>1, TaskOwn DEF IInv
  <2>2. CASE n # m
    <3>1. /\ at'[n] = at[n] /\ admission'[n] = admission[n] /\ turn'[n] = turn[n]
          /\ sent'[n] = sent[n] /\ governed'[n] = governed[n]
          /\ execution'[n] = execution[n]
          /\ n \in chat' <=> n \in chat
          /\ n \in botChat' <=> n \in botChat
          /\ n \in failure' <=> n \in failure
          /\ UNCHANGED <<phase, scan, recovered>>
      BY <1>2, <2>2, TaskFrame DEF IInv, process
    <3>2. Sound(n)  BY DEF IInv
    <3> QED  BY <3>1, <3>2 DEF Sound, InStep, Evidence, Effects, Closed, Recorded, Owned
  <2> QED  BY <2>1, <2>2
<1> QED  BY <1>1, <1>3, <1>4 DEF IInv
-----------------------------------------------------------------------------
(* Ingress, startup, shutdown *)

LEMMA DeliverSound ==
  ASSUME IInv, NEW m \in Message, Deliver(m)
  PROVE  IInv'
<1> USE EventPipelineAssumption DEF EventPipelineAssumption
<1>1. Typed'
  BY DEF IInv, Typed, Deliver, world, process, Admission, Stage
<1>2. phase = "up" /\ UNCHANGED process  BY DEF IInv, Startable, Deliver
<1>3. Startable'  BY <1>2 DEF IInv, Startable, process
<1>4. ASSUME NEW n \in Message PROVE Sound(n)'
  BY <1>2, <1>4 DEF IInv, Typed, Deliver, world, process, Sound, InStep, Evidence, Effects,
     Closed, Recorded, Owned, Handling, Terminal
<1> QED  BY <1>1, <1>3, <1>4 DEF IInv

LEMMA BootSound ==
  ASSUME IInv, Boot
  PROVE  IInv'
<1> USE EventPipelineAssumption DEF EventPipelineAssumption
<1>1. Typed'  BY DEF IInv, Typed, Boot, rows, world
<1>2. Startable'  BY DEF IInv, Typed, Startable, Boot, rows, world
<1>3. ASSUME NEW n \in Message PROVE Sound(n)'
  <2>1. Sound(n)  BY DEF IInv
  <2> QED  BY <2>1, <1>3 DEF IInv, Typed, Startable, Boot, rows, world,
     Sound, InStep, Evidence, Effects,
     Closed, Recorded, Owned, Handling, Terminal
<1> QED  BY <1>1, <1>2, <1>3 DEF IInv

LEMMA RecoverSound ==
  ASSUME IInv, NEW m \in Message, Recover(m)
  PROVE  IInv'
<1> USE EventPipelineAssumption DEF EventPipelineAssumption
<1>1. Typed'  BY DEF IInv, Typed, Recover, HandedBack, TurnAborted, world, Admission, Terminal, TurnStatus
<1>2. Startable'  BY DEF IInv, Typed, Startable, Recover, Replayable, HandedBack, TurnAborted, rows, world
<1>3. ASSUME NEW n \in Message PROVE Sound(n)'
  <2>1. Sound(n)  BY DEF IInv
  <2> QED  BY <2>1, <1>3 DEF IInv, Typed, Startable, Recover, Replayable, HandedBack, TurnAborted, rows, world,
     Sound, InStep, Evidence, Effects,
     Closed, Recorded, Owned, Handling, Terminal
<1> QED  BY <1>1, <1>2, <1>3 DEF IInv

LEMMA ListenSound ==
  ASSUME IInv, Listen
  PROVE  IInv'
<1> USE EventPipelineAssumption DEF EventPipelineAssumption
<1>1. Typed'  BY DEF IInv, Typed, Listen, rows, world
<1>2. Startable'  BY DEF IInv, Typed, Startable, Listen, rows, world
<1>3. ASSUME NEW n \in Message PROVE Sound(n)'
  <2>1. Sound(n)  BY DEF IInv
  <2> QED  BY <2>1, <1>3 DEF IInv, Typed, Startable, Listen, rows, world,
     Sound, InStep, Evidence, Effects,
     Closed, Recorded, Owned, Handling, Terminal
<1> QED  BY <1>1, <1>2, <1>3 DEF IInv

LEMMA ReadySound ==
  ASSUME IInv, Ready
  PROVE  IInv'
<1> USE EventPipelineAssumption DEF EventPipelineAssumption
<1>1. Typed'  BY DEF IInv, Typed, Ready, rows, world, Stage
<1>2. Startable'  BY DEF IInv, Typed, Startable, Ready, rows, world
<1>3. ASSUME NEW n \in Message PROVE Sound(n)'
  <2>1. Sound(n)  BY DEF IInv
  <2> QED  BY <2>1, <1>3 DEF IInv, Typed, Startable, Ready, rows, world,
     Sound, InStep, Evidence, Effects,
     Closed, Recorded, Owned, Handling, Terminal
<1> QED  BY <1>1, <1>2, <1>3 DEF IInv

LEMMA StopSound ==
  ASSUME IInv, Stop
  PROVE  IInv'
<1> USE EventPipelineAssumption DEF EventPipelineAssumption
<1>0. exits' \in 0..MaxExits  BY DEF IInv, Typed, Stop
<1>1. Typed'  BY <1>0 DEF IInv, Typed, Stop, rows, world
<1>2. Startable'  BY DEF IInv, Typed, Startable, Stop, rows, world
<1>3. ASSUME NEW n \in Message PROVE Sound(n)'
  <2>1. Sound(n)  BY DEF IInv
  <2> QED  BY <2>1, <1>3 DEF IInv, Typed, Startable, Stop, rows, world,
     Sound, InStep, Evidence, Effects,
     Closed, Recorded, Owned, Handling, Terminal
<1> QED  BY <1>1, <1>2, <1>3 DEF IInv

LEMMA DrainSound ==
  ASSUME IInv, Drain
  PROVE  IInv'
<1> USE EventPipelineAssumption DEF EventPipelineAssumption
<1>1. Typed'  BY DEF IInv, Typed, Drain, rows, world
<1>2. Startable'  BY DEF IInv, Typed, Startable, Drain, rows, world
<1>3. ASSUME NEW n \in Message PROVE Sound(n)'
  <2>1. Sound(n)  BY DEF IInv
  <2> QED  BY <2>1, <1>3 DEF IInv, Typed, Startable, Drain, rows, world,
     Sound, InStep, Evidence, Effects,
     Closed, Recorded, Owned, Handling, Terminal
<1> QED  BY <1>1, <1>2, <1>3 DEF IInv

\* A process that exits, in order or not, leaves its rows behind.
LEMMA ExitSound ==
  ASSUME IInv, Exited, UNCHANGED exits \/ (exits < MaxExits /\ exits' = exits + 1)
  PROVE  IInv'
<1> USE EventPipelineAssumption DEF EventPipelineAssumption
<1>0. exits' \in 0..MaxExits  BY DEF IInv, Typed
<1>1. Typed'  BY <1>0 DEF IInv, Typed, Exited, rows, world, Stage
<1>2. Startable'  BY DEF IInv, Typed, Startable, Exited, rows, world
<1>3. ASSUME NEW n \in Message PROVE Sound(n)'
  <2>1. Sound(n)  BY DEF IInv
  <2> QED  BY <2>1, <1>3 DEF IInv, Typed, Startable, Exited, rows, world,
     Sound, InStep, Evidence, Effects,
     Closed, Recorded, Owned, Handling, Terminal
<1> QED  BY <1>1, <1>2, <1>3 DEF IInv

-----------------------------------------------------------------------------
LEMMA NextSound == IInv /\ [Next]_vars => IInv'
<1> SUFFICES ASSUME IInv, [Next]_vars PROVE IInv'  OBVIOUS
<1>1. ASSUME NEW m \in Message, Deliver(m) PROVE IInv'  BY <1>1, DeliverSound
<1>2. ASSUME NEW m \in Message, Step(m) PROVE IInv'  BY <1>2, TaskSound
<1>3. CASE Boot  BY <1>3, BootSound
<1>4. CASE Listen  BY <1>4, ListenSound
<1>5. CASE Ready  BY <1>5, ReadySound
<1>6. ASSUME NEW m \in Message, Recover(m) PROVE IInv'  BY <1>6, RecoverSound
<1>7. CASE Stop  BY <1>7, StopSound
<1>8. CASE Drain  BY <1>8, DrainSound
<1>9. CASE CloseDatabase  BY <1>9, ExitSound DEF CloseDatabase
<1>10. CASE Crash  BY <1>10, ExitSound DEF Crash
<1>11. CASE UNCHANGED vars
  <2>1. UNCHANGED <<rows, world, process, at, exits>>  BY <1>11 DEF vars
  <2> QED  BY <2>1 DEF rows, world, process, IInv, Typed, Startable, Sound, InStep,
     Evidence, Effects, Closed, Recorded, Owned
<1> QED  BY <1>1, <1>2, <1>3, <1>4, <1>5, <1>6, <1>7, <1>8, <1>9, <1>10, <1>11
         DEF Next, Startup

LEMMA Inductive == Spec => []IInv
  BY InitSound, NextSound, PTL DEF Spec

\* Every variable has its type; a task and its admission row always agree, and a
\* recovered event waits, accepted, for the gateway to be ready.
THEOREM TypesHold == Spec => []TypeOK
<1>1. IInv => TypeOK
  BY DEF IInv, Typed, TypeOK, Sound, InStep
<1> QED  BY <1>1, Inductive, PTL

\* At-most-once: no message is answered twice and no command takes effect twice,
\* through any number of redeliveries, crashes and restarts.
THEOREM AtMostOnce == Spec => []EffectsHappenOnce
<1>1. IInv => EffectsHappenOnce
  BY DEF IInv, EffectsHappenOnce, Sound, Effects
<1> QED  BY <1>1, Inductive, PTL

\* A reply that may be out there unrecorded ends as failed or under review, and is
\* never taken for completed.
THEOREM UnknownDeliveriesFlagged == Spec => []UnknownDeliveryIsFlagged
<1>1. IInv => UnknownDeliveryIsFlagged
  <2> SUFFICES ASSUME IInv, NEW m \in Message,
                      sent[m] > 0, execution[m] = "none", at[m] = "idle",
                      phase \in {"listening", "up"}
               PROVE  admission[m] \in {"failed", "interrupted_review"}
    BY DEF UnknownDeliveryIsFlagged
  <2>1. Sound(m) /\ admission[m] \in Admission  BY DEF IInv, Typed
  <2> QED  BY <2>1 DEF Sound, Evidence, Recorded, Owned, Admission, Terminal
<1> QED  BY <1>1, Inductive, PTL

\* When an event is over, so is its turn.
THEOREM NoOpenTurns == Spec => []NoTurnLeftOpen
<1>1. IInv => NoTurnLeftOpen
  BY DEF IInv, NoTurnLeftOpen, Sound, Closed
<1> QED  BY <1>1, Inductive, PTL

\* Recovery quarantines only what had started, failed, or cannot be read.
THEOREM QuarantinesJustified == Spec => []QuarantineJustified
<1>1. IInv => QuarantineJustified
  BY DEF IInv, QuarantineJustified, Sound, Closed
<1> QED  BY <1>1, Inductive, PTL

\* The bot's line is stored exactly with a confirmed delivery and a completed turn.
THEOREM LogTruthful == Spec => []ConversationLogTruthful
<1>1. IInv => ConversationLogTruthful
  BY DEF IInv, ConversationLogTruthful, Sound, Recorded
<1> QED  BY <1>1, Inductive, PTL

\* The rows of every message are truthful, through any crash between commits.
THEOREM RowsStayTruthful == Spec => []RowsTruthful
<1>1. TypeOK /\ UnknownDeliveryIsFlagged /\ NoTurnLeftOpen /\ ConversationLogTruthful
        => RowsTruthful
  BY DEF RowsTruthful
<1> QED  BY <1>1, TypesHold, UnknownDeliveriesFlagged, NoOpenTurns, LogTruthful, PTL

-----------------------------------------------------------------------------
(* The listener *)

\* What the HTTP transport adds to the order of startup and shutdown: admission is
\* open only between the ready callback and the stop, and a drained process stays
\* idle.
Gated ==
  transport = "http" =>
    /\ accepting => phase = "up" /\ ~stopping
    /\ stopping => phase = "up"
    /\ drained => stopping /\ \A m \in Message : at[m] = "idle"

ListenerInv == ListenerTypeOK /\ Gated /\ AcknowledgedIsKept

LEMMA ListenerInitSound == ListenerInit => ListenerInv
<1> SUFFICES ASSUME ListenerInit PROVE ListenerInv  OBVIOUS
<1>1. ListenerTypeOK  BY DEF ListenerInit, ListenerTypeOK, PostStage
<1>2. Gated  BY DEF ListenerInit, Init, Gated
<1>3. AcknowledgedIsKept  BY DEF ListenerInit, AcknowledgedIsKept
<1> QED  BY <1>1, <1>2, <1>3 DEF ListenerInv

\* Every step of the listener is a step of the pipeline or leaves it alone.
LEMMA ListenerStepMaps == [ListenerNext]_listenerVars => [Next]_vars
<1> SUFFICES ASSUME [ListenerNext]_listenerVars PROVE [Next]_vars  OBVIOUS
<1>1. ASSUME NEW p \in Post, Arrive(p) PROVE UNCHANGED vars  BY <1>1 DEF Arrive
<1>2. ASSUME NEW p \in Post, RequestStep(p)
      PROVE  UNCHANGED vars \/ \E m \in Message : Deliver(m)
  BY <1>2 DEF RequestStep, Overflow, TimeOut, Abandon, Complete, Take, Skip, TurnedDown,
              Reject, Over, IsMessage
<1>3. ASSUME NEW m \in Message, Receive(m) \/ ListenerStep(m)
      PROVE  Deliver(m) \/ Step(m)
  BY <1>3 DEF Receive, ListenerStep
<1>4. ListenerStartup \/ ListenerStop \/ ListenerDrain \/ ListenerCloseDatabase \/ ListenerCrash
        => Startup \/ Stop \/ Drain \/ CloseDatabase \/ Crash
  BY DEF ListenerStartup, ListenerStop, ListenerDrain, ListenerCloseDatabase, ListenerCrash
<1>5. CASE UNCHANGED listenerVars  BY <1>5 DEF listenerVars
<1> QED  BY <1>1, <1>2, <1>3, <1>4, <1>5 DEF ListenerNext, Next

\* No step forgets a message that was claimed.
LEMMA ClaimsStay ==
  ASSUME Typed, [Next]_vars, NEW m \in Message, admission[m] # "none"
  PROVE  admission'[m] # "none"
<1> USE DEF Typed
<1>1. ASSUME NEW n \in Message, Deliver(n) PROVE admission'[m] # "none"
  BY <1>1 DEF Deliver
<1>2. ASSUME NEW n \in Message, Step(n) PROVE admission'[m] # "none"
  <2>1. CASE m = n
    <3>1. CASE TurnAway(n)  BY <2>1, <3>1 DEF TurnAway
    <3>2. CASE Begin(n)  BY <2>1, <3>2 DEF Begin, Claimed
    <3>3. CASE Return(n)  BY <2>1, <3>3 DEF Return, Outcome
    <3>4. CASE \/ Ignore(m) \/ Store(m) \/ CreateTurn(m) \/ Govern(m) \/ StartTurn(m)
               \/ Infer(m) \/ Decide(m) \/ Send(m) \/ RecordExecution(m) \/ Finish(m)
               \/ Throw(m) \/ FailTurn(m) \/ RecordFailure(m)
      BY <3>4 DEF Ignore, Store, CreateTurn, Govern, StartTurn, Infer, Decide, Send,
         RecordExecution, Finish, Throw, FailTurn, RecordFailure, GoTo
    <3> QED  BY <1>2, <2>1, <3>1, <3>2, <3>3, <3>4 DEF Step
  <2>2. CASE m # n  BY <1>2, <2>2, TaskFrame
  <2> QED  BY <2>1, <2>2
<1>3. ASSUME NEW n \in Message, Recover(n) PROVE admission'[m] # "none"
  BY <1>3 DEF Recover
<1>4. CASE Boot \/ Listen \/ Ready \/ Stop \/ Drain \/ CloseDatabase \/ Crash
  BY <1>4 DEF Boot, Listen, Ready, Stop, Drain, CloseDatabase, Crash, Exited, rows
<1>5. CASE UNCHANGED vars  BY <1>5 DEF vars, rows
<1> QED  BY <1>1, <1>2, <1>3, <1>4, <1>5 DEF Next, Startup

LEMMA GatedStays ==
  ASSUME Typed, Startable, Gated, [ListenerNext]_listenerVars
  PROVE  Gated'
<1> SUFFICES ASSUME transport = "http", transport' = "http"
             PROVE  /\ accepting' => phase' = "up" /\ ~stopping'
                    /\ stopping' => phase' = "up"
                    /\ drained' => stopping' /\ \A m \in Message : at'[m] = "idle"
  <2>1. UNCHANGED transport
    BY DEF ListenerNext, listenerVars, Arrive, RequestStep, Overflow, TimeOut, Abandon,
       Complete, Take, Skip, TurnedDown, Reject, Over, Receive, ListenerStep, ListenerStartup,
       ListenerStop, ListenerDrain, ListenerCloseDatabase, ListenerCrash, Unposted
  <2> QED  BY <2>1 DEF Gated
<1>1. /\ accepting => phase = "up" /\ ~stopping
      /\ stopping => phase = "up"
      /\ drained => stopping /\ \A m \in Message : at[m] = "idle"
  BY DEF Gated
<1>2. CASE UNCHANGED vars  BY <1>1, <1>2 DEF vars, process
<1>3. ASSUME NEW m \in Message, Deliver(m) PROVE UNCHANGED process /\ ~drained
  BY <1>1, <1>3 DEF Deliver
<1>4. ASSUME NEW m \in Message, Step(m) PROVE UNCHANGED process /\ ~drained
  BY <1>1, <1>4, TaskFrame
<1>5. CASE Startup
  <2>1. CASE Ready  BY <1>1, <2>1 DEF Ready
  <2>2. CASE Boot \/ Listen  BY <1>1, <2>2 DEF Boot, Listen
  <2>3. ASSUME NEW m \in Message, Recover(m)
        PROVE  UNCHANGED <<phase, accepting, stopping, drained, at>>
    BY <2>3 DEF Recover
  <2> QED  BY <1>1, <1>5, <2>1, <2>2, <2>3 DEF Startup
<1>6. CASE ListenerStop  BY <1>1, <1>6 DEF ListenerStop, Stop
<1>7. CASE Drain  BY <1>1, <1>7 DEF Drain
<1>8. CASE CloseDatabase \/ Crash  BY <1>8 DEF CloseDatabase, Crash, Exited
<1>9. ASSUME NEW p \in Post, RequestStep(p)
      PROVE  UNCHANGED vars \/ \E m \in Message : Deliver(m)
  BY <1>9 DEF RequestStep, Overflow, TimeOut, Abandon, Complete, Take, Skip, TurnedDown,
              Reject, Over, IsMessage
<1>10. ASSUME NEW p \in Post, Arrive(p) PROVE UNCHANGED vars  BY <1>10 DEF Arrive
<1>11. CASE UNCHANGED process /\ ~drained  BY <1>1, <1>11 DEF process
<1>12. CASE UNCHANGED listenerVars  BY <1>2, <1>12 DEF listenerVars
<1> QED
  BY <1>2, <1>3, <1>4, <1>5, <1>6, <1>7, <1>8, <1>9, <1>10, <1>11, <1>12
  DEF ListenerNext, Receive, ListenerStep, ListenerStartup, ListenerDrain,
      ListenerCloseDatabase, ListenerCrash

\* A request is read only while the listener serves.
LEMMA ListenerTyped ==
  ASSUME Typed, Startable, Gated, ListenerTypeOK, [ListenerNext]_listenerVars
  PROVE  ListenerTypeOK'
<1> USE DEF ListenerTypeOK, PostStage, Serving
<1>1. ASSUME NEW p \in Post, Arrive(p) PROVE ListenerTypeOK'
  BY <1>1 DEF Arrive, vars, process
<1>2. ASSUME NEW p \in Post, NEW outcome \in {"ok", "refused", "abandoned"}, Over(p, outcome)
      PROVE  ListenerTypeOK'
  BY <1>2 DEF Over, vars, process
<1>3. ASSUME NEW p \in Post, Take(p) PROVE ListenerTypeOK'
  BY <1>3 DEF Take, Deliver, process
<1>4. ASSUME NEW p \in Post, RequestStep(p) PROVE ListenerTypeOK'
  BY <1>2, <1>3, <1>4 DEF RequestStep, Overflow, TimeOut, Abandon, Complete, Skip,
                          TurnedDown, Reject
<1>5. CASE /\ UNCHANGED <<transport, post, body>>
           /\ phase = "up" => phase' = "up"
  BY <1>5
<1>6. CASE ListenerCloseDatabase
  BY <1>6 DEF ListenerCloseDatabase, ListenerClosed, Unposted
<1>7. CASE ListenerCrash
  <2>1. \A p \in Post : post'[p] = IF post[p] = "reading" THEN "abandoned" ELSE post[p]
    BY <1>7 DEF ListenerCrash
  <2>2. post' \in [Post -> PostStage] /\ UNCHANGED <<transport, body>>
    BY <1>7 DEF ListenerCrash
  <2> QED  BY <2>1, <2>2
<1>8. ASSUME NEW m \in Message, Receive(m) \/ ListenerStep(m)
      PROVE  UNCHANGED <<transport, post, body>> /\ UNCHANGED phase
  <2>1. CASE Receive(m)  BY <2>1 DEF Receive, Deliver, process
  <2>2. CASE ListenerStep(m)  BY <2>2, TaskFrame DEF ListenerStep, Unposted, process
  <2> QED  BY <1>8, <2>1, <2>2
<1>9. CASE ListenerStartup
  <2>1. UNCHANGED <<transport, post, body>>  BY <1>9 DEF ListenerStartup, Unposted
  <2>2. phase # "up"  BY <1>9 DEF ListenerStartup, Startup, Boot, Listen, Ready, Recover
  <2> QED  BY <1>5, <2>1, <2>2
<1>10. CASE ListenerStop \/ ListenerDrain
  BY <1>5, <1>10 DEF ListenerStop, ListenerDrain, Stop, Drain, Unposted
<1>11. CASE UNCHANGED listenerVars  BY <1>5, <1>11 DEF listenerVars, vars, process
<1> QED  BY <1>1, <1>4, <1>5, <1>6, <1>7, <1>8, <1>9, <1>10, <1>11 DEF ListenerNext

LEMMA AcknowledgedStays ==
  ASSUME Typed, ListenerTypeOK, AcknowledgedIsKept, [ListenerNext]_listenerVars
  PROVE  AcknowledgedIsKept'
<1> SUFFICES ASSUME NEW p \in Post, post'[p] = "ok", body'[p] \in Message
             PROVE  admission'[body'[p]] # "none"
  BY DEF AcknowledgedIsKept, IsMessage
<1> USE DEF ListenerTypeOK
\* It was answered before, and its body is the same.
<1>1. CASE post[p] = "ok" /\ body'[p] = body[p]
  <2>1. admission[body[p]] # "none"  BY <1>1 DEF AcknowledgedIsKept, IsMessage
  <2> QED  BY <1>1, <2>1, ClaimsStay, ListenerStepMaps
<1>2. CASE Take(p)
  BY <1>2 DEF Take, Deliver, IsMessage, Typed
<1>3. ASSUME NEW q \in Post, Arrive(q) PROVE post[p] = "ok" /\ body'[p] = body[p]
  BY <1>3 DEF Arrive
<1>4. ASSUME NEW q \in Post, RequestStep(q), ~Take(p)
      PROVE  post[p] = "ok" /\ body'[p] = body[p]
  <2>1. CASE Take(q)
    <3>1. q # p  BY <1>4, <2>1
    <3> QED  BY <2>1, <3>1 DEF Take
  <2>2. CASE Skip(q)
    <3>1. body[q] \notin Message /\ UNCHANGED body /\ post' = [post EXCEPT ![q] = "ok"]
      BY <2>2 DEF Skip, Over, IsMessage
    <3>2. q # p  BY <3>1
    <3> QED  BY <3>1, <3>2
  <2>3. CASE Overflow(q) \/ TimeOut(q) \/ Abandon(q) \/ TurnedDown(q) \/ Reject(q)
    BY <2>3 DEF Overflow, TimeOut, Abandon, TurnedDown, Reject, Over
  <2> QED  BY <1>4, <2>1, <2>2, <2>3 DEF RequestStep, Complete
<1>5. CASE ListenerCrash
  <2>1. post'[p] = IF post[p] = "reading" THEN "abandoned" ELSE post[p]
    BY <1>5 DEF ListenerCrash
  <2> QED  BY <1>1, <1>5, <2>1 DEF ListenerCrash
<1>6. CASE \/ \E m \in Message : Receive(m) \/ ListenerStep(m)
           \/ ListenerStartup \/ ListenerStop \/ ListenerDrain \/ ListenerCloseDatabase
           \/ UNCHANGED listenerVars
  <2>1. UNCHANGED <<post, body>>
    BY <1>6 DEF Receive, ListenerStep, ListenerStartup, ListenerStop, ListenerDrain,
       ListenerCloseDatabase, listenerVars, Unposted
  <2> QED  BY <1>1, <2>1
<1> QED  BY <1>1, <1>2, <1>3, <1>4, <1>5, <1>6 DEF ListenerNext

\* No HTTP process takes an event once it is stopping.
LEMMA StoppedTakesNothing ==
  ASSUME Typed, Gated, [ListenerNext]_listenerVars, transport = "http", stopping
  PROVE  receipts' = receipts
<1>1. ~accepting  BY DEF Gated
<1>2. ASSUME NEW m \in Message, Deliver(m) PROVE FALSE  BY <1>1, <1>2 DEF Deliver
<1>3. ASSUME NEW m \in Message, Step(m) PROVE UNCHANGED receipts
  BY <1>3 DEF Step, TurnAway, Begin, Return, Ignore, Store, CreateTurn, Govern, StartTurn,
     Infer, Decide, Send, RecordExecution, Finish, Throw, FailTurn, RecordFailure, GoTo
<1>4. CASE Boot \/ Listen \/ Ready \/ Stop \/ Drain \/ CloseDatabase \/ Crash
  BY <1>4 DEF Boot, Listen, Ready, Stop, Drain, CloseDatabase, Crash, Exited, rows
<1>5. ASSUME NEW m \in Message, Recover(m) PROVE UNCHANGED receipts
  BY <1>5 DEF Recover
<1>6. CASE UNCHANGED vars  BY <1>6 DEF vars, rows
<1> QED  BY <1>2, <1>3, <1>4, <1>5, <1>6, ListenerStepMaps DEF Next, Startup

\* The database of an HTTP process is closed, other than by a crash, with every
\* task and every request at its end.
LEMMA ClosedWhenIdle ==
  ASSUME Typed, Startable, Gated, [ListenerNext]_listenerVars,
         transport = "http", phase = "up", phase' = "down", exits' = exits
  PROVE  /\ \A m \in Message : at[m] = "idle"
         /\ \A p \in Post : post[p] # "reading"
<1>1. CASE ListenerCloseDatabase
  BY <1>1 DEF ListenerCloseDatabase, ListenerClosed, CloseDatabase, Gated
<1>2. CASE ListenerCrash
  <2>1. exits \in Nat /\ exits' = exits + 1
    BY <1>2, EventPipelineAssumption DEF ListenerCrash, Crash, Typed, EventPipelineAssumption
  <2> QED  BY <2>1
<1>3. ASSUME NEW m \in Message, Deliver(m) \/ Step(m) PROVE UNCHANGED phase
  <2>1. CASE Deliver(m)  BY <2>1 DEF Deliver, process
  <2>2. CASE Step(m)  BY <2>2, TaskFrame DEF process
  <2> QED  BY <1>3, <2>1, <2>2
<1>4. CASE ListenerStartup \/ ListenerStop \/ ListenerDrain
  BY <1>4 DEF ListenerStartup, ListenerStop, ListenerDrain, Startup, Boot, Listen, Ready,
     Recover, Stop, Drain
<1>5. ASSUME NEW p \in Post, Arrive(p) \/ RequestStep(p)
      PROVE  UNCHANGED vars \/ \E m \in Message : Deliver(m)
  BY <1>5 DEF Arrive, RequestStep, Overflow, TimeOut, Abandon, Complete, Take, Skip,
              TurnedDown, Reject, Over, IsMessage
<1>6. CASE UNCHANGED vars  BY <1>6 DEF vars, process
<1>7. CASE UNCHANGED listenerVars  BY <1>6, <1>7 DEF listenerVars
<1> QED  BY <1>1, <1>2, <1>3, <1>4, <1>5, <1>6, <1>7 DEF ListenerNext, Receive, ListenerStep

\* With the listener in front of it the pipeline is the one of the theorems above:
\* HTTP requests and the WebSocket only restrict when an event is delivered.
THEOREM ListenerRefinesPipeline == ListenerSpec => Spec
<1>1. ListenerInit => Init  BY DEF ListenerInit
<1> QED  BY <1>1, ListenerStepMaps, PTL DEF ListenerSpec, Spec

LEMMA ListenerInductive == ListenerSpec => [](IInv /\ ListenerInv)
<1>1. IInv /\ ListenerInv /\ [ListenerNext]_listenerVars => ListenerInv'
  <2> SUFFICES ASSUME IInv, ListenerInv, [ListenerNext]_listenerVars PROVE ListenerInv'
    OBVIOUS
  <2>1. Typed /\ Startable  BY DEF IInv
  <2> QED  BY <2>1, ListenerTyped, GatedStays, AcknowledgedStays DEF ListenerInv
<1> QED  BY <1>1, ListenerInitSound, ListenerRefinesPipeline, Inductive, PTL DEF ListenerSpec

\* What the platform was told it may forget is in the database for good; nothing is
\* taken after the stop; SQLite is closed under no task and no request.
THEOREM IngressAlwaysHonest == ListenerSpec => IngressHonest
<1>1. IInv /\ ListenerInv => ListenerTypeOK /\ AcknowledgedIsKept  BY DEF ListenerInv
<1>2. IInv /\ ListenerInv /\ [ListenerNext]_listenerVars
        => [transport = "http" /\ stopping => receipts' = receipts]_listenerVars
  BY StoppedTakesNothing DEF IInv, ListenerInv
<1>3. IInv /\ ListenerInv /\ [ListenerNext]_listenerVars
        => [transport = "http" /\ phase = "up" /\ phase' = "down" /\ exits' = exits =>
              /\ \A m \in Message : at[m] = "idle"
              /\ \A p \in Post : post[p] # "reading"]_listenerVars
  BY ClosedWhenIdle DEF IInv, ListenerInv
<1> QED
  BY <1>1, <1>2, <1>3, ListenerInductive, PTL
  DEF ListenerSpec, IngressHonest, NothingTakenAfterStop, NothingUnderClosedDatabase

\* The rows stay truthful and effects happen once under that listener, too.
THEOREM ListenerKeepsRows == ListenerSpec => [](RowsTruthful /\ EffectsHappenOnce /\ QuarantineJustified)
<1> QED  BY ListenerRefinesPipeline, RowsStayTruthful, AtMostOnce, QuarantinesJustified, PTL

(***************************************************************************)
(* The context of an answer.                                                *)
(*                                                                          *)
(* The argument: a pack costs no less with more in it, which takes sums of  *)
(* finitely many numbers; so a step that adds what fits leaves what does    *)
(* not fit out for good.  A route asks for what belongs to its conversation *)
(* or to everyone, and what it returns is owned as its scope says; the      *)
(* filter or the query's context rejects the visibilities that are left.    *)
(* So every record a read has found was stored, and could be told when it   *)
(* was found unless the filter rejects it - whatever was written since.     *)
(***************************************************************************)

(***************************************************************************)
(* Induction, stated with a set instead of a predicate.                     *)
(***************************************************************************)

\* A set of numbers that is not empty has a least one.
LEMMA LeastNumber ==
    ASSUME NEW T, T \subseteq Nat, T # {}
    PROVE  \E n \in T : \A k \in T : n <= k
<1>1. PICK R : R = OpToRel(<, Nat)  BY Zenon
<1>2. IsWellFoundedOn(R, Nat)  BY <1>1, NatLessThanWellFounded
<1>3. R = {p \in Nat \X Nat : p[1] < p[2]}  BY <1>1, Zenon DEF OpToRel
<1>4. PICK n \in T : \A k \in T : <<k, n>> \notin R  BY <1>2, WFMin, Zenon
<1>5. \A i, j \in Nat : i < j => <<i, j>> \in R  BY <1>3
<1>6. ASSUME NEW k \in T PROVE n <= k
  <2>1. n \in Nat /\ k \in Nat /\ <<k, n>> \notin R  BY <1>4
  <2> QED  BY <1>5, <2>1
<1> QED  BY <1>6

\* What holds of 0 and is handed on to each next number holds of every number:
\* stated of a set, and by the number that would be the least without it.
LEMMA Induction ==
    ASSUME NEW S, 0 \in S, \A n \in Nat : n \in S => n + 1 \in S
    PROVE  Nat \subseteq S
<1> DEFINE T == Nat \ S
<1>1. SUFFICES ASSUME T # {} PROVE FALSE  OBVIOUS
<1>2. PICK n \in T : \A k \in T : n <= k
  <2>1. T \subseteq Nat  OBVIOUS
  <2> HIDE DEF T
  <2> QED  BY <1>1, <2>1, LeastNumber, Zenon
<1>3. n # 0 /\ n - 1 \in Nat  OBVIOUS
<1>4. n - 1 \in S  BY <1>2, <1>3
<1> QED  BY <1>4, <1>3

(***************************************************************************)
(* Sums.                                                                    *)
(***************************************************************************)

\* What the library's sum computes: a function on the subsets of a set that
\* takes one element of each away.
Summing(g, f, S) ==
    g = [s \in SUBSET S |-> IF s = {} THEN 0
                            ELSE f[CHOOSE x \in s : TRUE] + g[s \ {CHOOSE x \in s : TRUE}]]

\* A sum is one of the recursive functions the definition of SumFunction chooses from.
LEMMA SumIsChosen ==
    ASSUME NEW f, NEW S
    PROVE  SumFunctionOnSet(f, S) = (CHOOSE g : Summing(g, f, S))[S]
BY DEF SumFunctionOnSet, FoldFunctionOnSet, MapThenFoldSet, Summing


First(s) == CHOOSE x \in s : TRUE

\* The sum over a set is that over it without one element, and the element's value.
LEMMA SummingStep ==
    ASSUME NEW f, NEW S, NEW g, Summing(g, f, S), NEW s \in SUBSET S
    PROVE  /\ s = {} => g[s] = 0
           /\ s # {} => First(s) \in s /\ g[s] = f[First(s)] + g[s \ {First(s)}]
<1>1. g[s] = IF s = {} THEN 0 ELSE f[First(s)] + g[s \ {First(s)}]
  BY DEF Summing, First
<1>2. s # {} => First(s) \in s  BY DEF First
<1> HIDE DEF First
<1> QED  BY <1>1, <1>2

\* It exists: the subsets of at most n elements are summed one n after the other.
SummingUpTo(g, f, S, n) ==
    g = [s \in {t \in SUBSET S : Cardinality(t) <= n} |->
            IF s = {} THEN 0 ELSE f[First(s)] + g[s \ {First(s)}]]

\* A finite set without one of its elements is smaller by one.
LEMMA SmallerIn ==
    ASSUME NEW S, IsFiniteSet(S), NEW s \in SUBSET S, s # {}, NEW x \in s
    PROVE  /\ Cardinality(s) \in Nat /\ Cardinality(s) # 0
           /\ Cardinality(s \ {x}) = Cardinality(s) - 1
           /\ s \ {x} \in SUBSET S
           /\ IsFiniteSet(s)
<1>1. IsFiniteSet(s)  BY FS_Subset
<1>2. Cardinality(s) \in Nat  BY <1>1, FS_CardinalityType
<1>3. Cardinality(s) # 0  BY <1>1, FS_EmptySet
<1>4. Cardinality(s \ {x}) = Cardinality(s) - 1  BY <1>1, FS_RemoveElement
<1> QED  BY <1>1, <1>2, <1>3, <1>4

\* There is such a function over the sets of at most n elements, for every n.
LEMMA SummingUpToExists ==
    ASSUME NEW f, NEW S, IsFiniteSet(S)
    PROVE  \A n \in Nat : \E g : SummingUpTo(g, f, S, n)
<1> DEFINE N == {n \in Nat : \E g : SummingUpTo(g, f, S, n)}
<1>1. 0 \in N
  <2> DEFINE g == [s \in {t \in SUBSET S : Cardinality(t) <= 0} |-> 0]
  <2>1. \A s \in SUBSET S : Cardinality(s) <= 0 => s = {}
    BY FS_Subset, FS_EmptySet, FS_CardinalityType
  <2>2. SummingUpTo(g, f, S, 0)  BY <2>1 DEF SummingUpTo
  <2> QED  BY <2>2
<1>2. ASSUME NEW n \in Nat, n \in N PROVE n + 1 \in N
  <2>1. PICK h : SummingUpTo(h, f, S, n)  BY <1>2
  <2> DEFINE D == {t \in SUBSET S : Cardinality(t) <= n}
             E == {t \in SUBSET S : Cardinality(t) <= n + 1}
             Next1(s) == IF s = {} THEN 0 ELSE f[First(s)] + h[s \ {First(s)}]
             g == [s \in E |-> Next1(s)]
  <2>2. \A s \in D : h[s] = Next1(s)  BY <2>1 DEF SummingUpTo
  <2>3. ASSUME NEW s \in E, s # {} PROVE s \ {First(s)} \in D
    <3>1. First(s) \in s  BY <2>3 DEF First
    <3>2. s \in SUBSET S /\ Cardinality(s) <= n + 1  OBVIOUS
    <3> HIDE DEF First, E
    <3> QED  BY <2>3, <3>1, <3>2, SmallerIn
  <2>4. D \subseteq E
    <3>1. \A s \in SUBSET S : Cardinality(s) \in Nat  BY FS_Subset, FS_CardinalityType
    <3> QED  BY <3>1
  <2>5. \A s \in D : g[s] = h[s]  BY <2>2, <2>4
  <2>6. g = [s \in E |-> IF s = {} THEN 0 ELSE f[First(s)] + g[s \ {First(s)}]]
    <3> DEFINE k == [s \in E |-> IF s = {} THEN 0 ELSE f[First(s)] + g[s \ {First(s)}]]
    <3>1. ASSUME NEW s \in E PROVE g[s] = k[s]
      <4>1. g[s] = Next1(s)  OBVIOUS
      <4>2. k[s] = IF s = {} THEN 0 ELSE f[First(s)] + g[s \ {First(s)}]  OBVIOUS
      <4>3. s # {} => g[s \ {First(s)}] = h[s \ {First(s)}]  BY <2>3, <2>5
      <4> HIDE DEF g, k, First
      <4> QED  BY <4>1, <4>2, <4>3
    <3>2. g = [s \in E |-> g[s]] /\ k = [s \in E |-> k[s]]  OBVIOUS
    <3> HIDE DEF g, k
    <3>3. [s \in E |-> g[s]] = [s \in E |-> k[s]]  BY <3>1
    <3>4. g = k  BY <3>2, <3>3, Zenon
    <3> QED  BY <3>4, Zenon DEF k
  <2>7. SummingUpTo(g, f, S, n + 1)
    <3> HIDE DEF g
    <3> QED  BY <2>6 DEF SummingUpTo
  <2> HIDE DEF g
  <2> QED  BY <2>7
<1> HIDE DEF N
<1>3. Nat \subseteq N  BY <1>1, <1>2, Induction
<1> QED  BY <1>3 DEF N

\* There is one over all the subsets of a finite set.
LEMMA SummingExists ==
    ASSUME NEW f, NEW S, IsFiniteSet(S)
    PROVE  \E g : Summing(g, f, S)
<1>1. Cardinality(S) \in Nat  BY FS_CardinalityType
<1>2. PICK g : SummingUpTo(g, f, S, Cardinality(S))  BY <1>1, SummingUpToExists
<1>3. {t \in SUBSET S : Cardinality(t) <= Cardinality(S)} = SUBSET S  BY FS_Subset
<1>4. Summing(g, f, S)  BY <1>2, <1>3 DEF SummingUpTo, Summing, First
<1> QED  BY <1>4

\* Any two of them agree.
LEMMA SummingUnique ==
    ASSUME NEW f, NEW S, IsFiniteSet(S), NEW T \in SUBSET S,
           NEW g, Summing(g, f, S), NEW h, Summing(h, f, T)
    PROVE  \A s \in SUBSET T : g[s] = h[s]
<1> DEFINE N == {n \in Nat : \A s \in SUBSET T : Cardinality(s) = n => g[s] = h[s]}
<1>1. IsFiniteSet(T)  BY FS_Subset
<1>2. 0 \in N
  <2>1. \A s \in SUBSET T : Cardinality(s) = 0 => s = {}  BY <1>1, FS_Subset, FS_EmptySet
  <2>2. g[{}] = 0 /\ h[{}] = 0  BY SummingStep
  <2> QED  BY <2>1, <2>2
<1>3. ASSUME NEW n \in Nat, n \in N PROVE n + 1 \in N
  <2>1. SUFFICES ASSUME NEW s \in SUBSET T, Cardinality(s) = n + 1 PROVE g[s] = h[s]
    OBVIOUS
  <2>2. s # {}  BY <2>1, FS_EmptySet
  <2>3. /\ First(s) \in s
        /\ g[s] = f[First(s)] + g[s \ {First(s)}]
        /\ h[s] = f[First(s)] + h[s \ {First(s)}]
    <3>1. s \in SUBSET S  OBVIOUS
    <3> QED  BY <2>2, <3>1, SummingStep
  <2>4. Cardinality(s \ {First(s)}) = n /\ s \ {First(s)} \in SUBSET T
    BY <1>1, <2>1, <2>2, <2>3, SmallerIn
  <2>5. g[s \ {First(s)}] = h[s \ {First(s)}]  BY <1>3, <2>4
  <2> QED  BY <2>3, <2>5
<1> HIDE DEF N
<1>4. Nat \subseteq N  BY <1>2, <1>3, Induction
<1>5. \A s \in SUBSET T : Cardinality(s) \in Nat  BY <1>1, FS_Subset, FS_CardinalityType
<1> QED  BY <1>4, <1>5 DEF N

\* The sum over a set, and what it is without its chosen element.
LEMMA SumStep ==
    ASSUME NEW f, NEW S, IsFiniteSet(S)
    PROVE  /\ S = {} => SumFunctionOnSet(f, S) = 0
           /\ S # {} => /\ First(S) \in S
                        /\ SumFunctionOnSet(f, S)
                             = f[First(S)] + SumFunctionOnSet(f, S \ {First(S)})
<1> DEFINE G(T) == CHOOSE g : Summing(g, f, T)
<1>1. \A T \in SUBSET S : Summing(G(T), f, T)  BY FS_Subset, SummingExists
<1> HIDE DEF G
<1>2. \A T : SumFunctionOnSet(f, T) = G(T)[T]  BY SumIsChosen DEF G
<1>3. S = {} => G(S)[S] = 0  BY <1>1, SummingStep
<1>4. ASSUME S # {}
      PROVE  /\ First(S) \in S
             /\ G(S)[S] = f[First(S)] + G(S \ {First(S)})[S \ {First(S)}]
  <2>1. First(S) \in S /\ G(S)[S] = f[First(S)] + G(S)[S \ {First(S)}]
    BY <1>1, <1>4, SummingStep
  <2> DEFINE T == S \ {First(S)}
  <2>2. T \in SUBSET S  OBVIOUS
  <2>3. Summing(G(S), f, S) /\ Summing(G(T), f, T)  BY <1>1, <2>2
  <2> HIDE DEF T
  <2>4. G(S)[T] = G(T)[T]  BY <2>2, <2>3, SummingUnique
  <2> QED  BY <2>1, <2>4 DEF T
<1> QED  BY <1>2, <1>3, <1>4

\* The order does not matter: any element may be taken away.
LEMMA SumWithout ==
    ASSUME NEW f, NEW S, IsFiniteSet(S), \A x \in S : f[x] \in Int
    PROVE  \A x \in S : /\ SumFunctionOnSet(f, S) = f[x] + SumFunctionOnSet(f, S \ {x})
                        /\ SumFunctionOnSet(f, S \ {x}) \in Int
<1> DEFINE Sum(s) == SumFunctionOnSet(f, s)
           N == {n \in Nat : \A s \in SUBSET S : Cardinality(s) = n =>
                    /\ Sum(s) \in Int
                    /\ \A x \in s : Sum(s) = f[x] + Sum(s \ {x}) /\ Sum(s \ {x}) \in Int}
<1>0. \A s \in SUBSET S : IsFiniteSet(s) /\ Cardinality(s) \in Nat
  BY FS_Subset, FS_CardinalityType
<1>s. \A s \in SUBSET S : /\ s = {} => Sum(s) = 0
                          /\ s # {} => First(s) \in s /\ Sum(s) = f[First(s)] + Sum(s \ {First(s)})
  BY <1>0, SumStep
<1> HIDE DEF Sum
<1>1. 0 \in N
  <2>1. \A s \in SUBSET S : Cardinality(s) = 0 => s = {}  BY <1>0, FS_EmptySet
  <2>2. Sum({}) = 0  BY <1>s
  <2>3. \A s \in SUBSET S : Cardinality(s) = 0 => Sum(s) \in Int /\ \A x \in s : FALSE
    BY <2>1, <2>2
  <2> QED  BY <2>3
<1>2. ASSUME NEW n \in Nat, n \in N PROVE n + 1 \in N
  <2>1. SUFFICES ASSUME NEW s \in SUBSET S, Cardinality(s) = n + 1, NEW x \in s
                 PROVE  Sum(s) = f[x] + Sum(s \ {x}) /\ Sum(s \ {x}) \in Int /\ Sum(s) \in Int
    <3> HIDE DEF N
    <3>1. ASSUME NEW s \in SUBSET S, Cardinality(s) = n + 1
          PROVE  /\ Sum(s) \in Int
                 /\ \A x \in s : Sum(s) = f[x] + Sum(s \ {x}) /\ Sum(s \ {x}) \in Int
      <4>1. PICK y \in s : TRUE  BY <3>1, FS_EmptySet
      <4>2. \A x \in s : /\ Sum(s) = f[x] + Sum(s \ {x}) /\ Sum(s \ {x}) \in Int
                         /\ Sum(s) \in Int
        BY <3>1, <2>1
      <4> QED  BY <4>1, <4>2
    <3> QED  BY <3>1 DEF N
  <2> DEFINE y == First(s)
  <2>2. y \in s /\ Sum(s) = f[y] + Sum(s \ {y})  BY <1>s
  <2> HIDE DEF y
  <2>3. \A z \in s : s \ {z} \in SUBSET S /\ Cardinality(s \ {z}) = n  BY <2>1, SmallerIn
  <2>4. \A z \in s : /\ Sum(s \ {z}) \in Int
                     /\ \A w \in s \ {z} : /\ Sum(s \ {z}) = f[w] + Sum((s \ {z}) \ {w})
                                           /\ Sum((s \ {z}) \ {w}) \in Int
    BY <1>2, <2>3
  <2>5. f[x] \in Int /\ f[y] \in Int  BY <2>2
  <2>6. CASE x = y  BY <2>2, <2>4, <2>5, <2>6
  <2>7. CASE x # y
    <3>1. (s \ {x}) \ {y} = (s \ {y}) \ {x}  OBVIOUS
    <3>2. Sum(s \ {x}) = f[y] + Sum((s \ {x}) \ {y})  BY <2>2, <2>4, <2>7
    <3>3. Sum(s \ {y}) = f[x] + Sum((s \ {x}) \ {y})  BY <2>2, <2>4, <2>7, <3>1
    <3>4. Sum((s \ {x}) \ {y}) \in Int  BY <2>2, <2>4, <2>7
    <3>5. Sum(s \ {x}) \in Int  BY <2>4
    <3> HIDE DEF N
    <3> QED  BY <2>2, <2>5, <3>2, <3>3, <3>4, <3>5
  <2> QED  BY <2>6, <2>7
<1> HIDE DEF N
<1>3. Nat \subseteq N  BY <1>1, <1>2, Induction
<1> QED  BY <1>0, <1>3 DEF N, Sum

\* Nothing adds up to nothing.
LEMMA SumEmpty ==
    ASSUME NEW f
    PROVE  SumFunctionOnSet(f, {}) = 0
BY SumStep, FS_EmptySet

\* A sum of naturals over fewer elements is no greater.
LEMMA SumGrows ==
    ASSUME NEW f, NEW g, NEW T, IsFiniteSet(T), NEW S \in SUBSET T,
           \A x \in T : g[x] \in Nat, \A x \in S : f[x] = g[x]
    PROVE  /\ SumFunctionOnSet(f, S) \in Nat /\ SumFunctionOnSet(g, T) \in Nat
           /\ SumFunctionOnSet(f, S) <= SumFunctionOnSet(g, T)
<1> DEFINE F(s) == SumFunctionOnSet(f, s)
           G(s) == SumFunctionOnSet(g, s)
           N == {n \in Nat : \A t \in SUBSET T : Cardinality(t) = n =>
                    F(t \cap S) \in Nat /\ G(t) \in Nat /\ F(t \cap S) <= G(t)}
<1>0. \A s \in SUBSET T : IsFiniteSet(s) /\ Cardinality(s) \in Nat
  BY FS_Subset, FS_CardinalityType
<1>f. \A s \in SUBSET S : \A x \in s : F(s) = f[x] + F(s \ {x})
  <2>1. ASSUME NEW s \in SUBSET S PROVE \A x \in s : F(s) = f[x] + F(s \ {x})
    <3>1. IsFiniteSet(s)  BY <1>0
    <3>2. \A x \in s : f[x] \in Int  OBVIOUS
    <3> QED  BY <3>1, <3>2, SumWithout
  <2> QED  BY <2>1
<1>g. \A t \in SUBSET T : \A x \in t : G(t) = g[x] + G(t \ {x})
  <2>1. ASSUME NEW t \in SUBSET T PROVE \A x \in t : G(t) = g[x] + G(t \ {x})
    <3>1. IsFiniteSet(t)  BY <1>0
    <3>2. \A x \in t : g[x] \in Int  OBVIOUS
    <3> QED  BY <3>1, <3>2, SumWithout
  <2> QED  BY <2>1
<1>e. F({}) = 0 /\ G({}) = 0  BY SumEmpty
<1> HIDE DEF F, G
<1>1. 0 \in N
  <2>1. \A s \in SUBSET T : Cardinality(s) = 0 => s = {} /\ s \cap S = {}  BY <1>0, FS_EmptySet
  <2> QED  BY <2>1, <1>e
<1>2. ASSUME NEW n \in Nat, n \in N PROVE n + 1 \in N
  <2>1. SUFFICES ASSUME NEW t \in SUBSET T, Cardinality(t) = n + 1
                 PROVE  F(t \cap S) \in Nat /\ G(t) \in Nat /\ F(t \cap S) <= G(t)
    OBVIOUS
  <2>2. t # {}  BY <2>1, FS_EmptySet
  <2>3. PICK x \in t : TRUE  BY <2>2
  <2> DEFINE u == t \ {x}
  <2>4. u \in SUBSET T /\ Cardinality(u) = n  BY <2>1, <2>2, SmallerIn
  <2>5. F(u \cap S) \in Nat /\ G(u) \in Nat /\ F(u \cap S) <= G(u)  BY <1>2, <2>4
  <2>6. G(t) = g[x] + G(u) /\ g[x] \in Nat  BY <1>g
  <2>7. CASE x \in S
    <3>1. t \cap S \in SUBSET S /\ x \in t \cap S /\ (t \cap S) \ {x} = u \cap S  BY <2>7
    <3>2. F(t \cap S) = f[x] + F(u \cap S)  BY <1>f, <3>1
    <3>3. f[x] = g[x]  BY <2>7
    <3> HIDE DEF u, N
    <3> QED  BY <2>5, <2>6, <3>2, <3>3
  <2>8. CASE x \notin S
    <3>1. t \cap S = u \cap S  BY <2>8
    <3>2. F(t \cap S) = F(u \cap S)  BY <3>1, Zenon
    <3> HIDE DEF u, N
    <3> QED  BY <2>5, <2>6, <3>2
  <2> QED  BY <2>7, <2>8
<1> HIDE DEF N
<1>3. Nat \subseteq N  BY <1>1, <1>2, Induction
<1>4. T \cap S = S /\ T \in SUBSET T /\ Cardinality(T) \in Nat  BY <1>0
<1>5. F(T \cap S) \in Nat /\ G(T) \in Nat /\ F(T \cap S) <= G(T)  BY <1>3, <1>4 DEF N
<1> QED  BY <1>4, <1>5 DEF F, G

(***************************************************************************)
(* What a pack costs.                                                       *)
(***************************************************************************)

AskOK(ask) ==
    /\ DOMAIN ask.messages \subseteq Nat \ {0}
    /\ IsFiniteSet(DOMAIN ask.messages)
    /\ \A i \in DOMAIN ask.messages : ask.messages[i].text \in Nat /\ ask.messages[i].name \in Nat

FoundOK(found) ==
    /\ IsFiniteSet(DOMAIN found)
    /\ \A m \in DOMAIN found : found[m].size \in Nat /\ found[m].sure \in Nat

PackOK(ask, found, p) ==
    /\ p = [kept |-> p.kept, told |-> p.told, dropped |-> p.dropped]
    /\ p.kept = [i \in DOMAIN p.kept |-> p.kept[i]]
    /\ DOMAIN p.kept \subseteq DOMAIN ask.messages
    /\ \A i \in DOMAIN p.kept : p.kept[i] \in Nat
    /\ p.told \subseteq DOMAIN found
    /\ p.dropped \subseteq DOMAIN found

\* The one holds all that the other does.
Within(p, q) ==
    /\ DOMAIN p.kept \subseteq DOMAIN q.kept
    /\ \A i \in DOMAIN p.kept : p.kept[i] = q.kept[i]
    /\ p.told \subseteq q.told

\* A product grows with its factor.
LEMMA Times ==
    ASSUME NEW c \in Nat, NEW a \in Nat, NEW b \in Nat, a <= b
    PROVE  c * a \in Nat /\ c * b \in Nat /\ c * a <= c * b
<1>1. PICK d \in Nat : b = a + d  BY b - a \in Nat
<1>2. c * b = c * a + c * d  BY <1>1
<1>3. c * d \in Nat /\ c * a \in Nat  OBVIOUS
<1> QED  BY <1>2, <1>3

\* The values of finitely many arguments are finitely many.
LEMMA ImageIsFinite ==
    ASSUME NEW S, IsFiniteSet(S), NEW f
    PROVE  IsFiniteSet({f[x] : x \in S})
<1> DEFINE T == {f[x] : x \in S}
           h == [x \in S |-> f[x]]
<1>1. h \in Surjection(S, T)  BY DEF Surjection
<1> HIDE DEF T, h
<1>2. IsFiniteSet(T)  BY <1>1, FS_Surjection
<1> QED  BY <1>2 DEF T

\* A sum over more numbers, none of them negative, is no smaller.
LEMMA SumFunctionGrows ==
    ASSUME NEW f, NEW g, IsFiniteSet(DOMAIN g), DOMAIN f \subseteq DOMAIN g,
           \A x \in DOMAIN g : g[x] \in Nat, \A x \in DOMAIN f : f[x] = g[x]
    PROVE  SumFunction(f) \in Nat /\ SumFunction(g) \in Nat /\ SumFunction(f) <= SumFunction(g)
BY SumGrows DEF SumFunction

\* More messages carry no fewer names.
LEMMA NamesGrow ==
    ASSUME NEW ask, AskOK(ask), NEW found, NEW p, NEW q,
           PackOK(ask, found, p), PackOK(ask, found, q), Within(p, q)
    PROVE  /\ Names(ask, p.kept) \in Nat /\ Names(ask, q.kept) \in Nat
           /\ Names(ask, p.kept) <= Names(ask, q.kept)
<1> DEFINE N(i) == IF ask.messages[i].bot THEN 0 ELSE ask.messages[i].name
           f == [i \in DOMAIN p.kept |-> N(i)]
           g == [i \in DOMAIN q.kept |-> N(i)]
<1>1. \A i \in DOMAIN ask.messages : N(i) \in Nat  BY DEF AskOK
<1>2. DOMAIN q.kept \subseteq DOMAIN ask.messages /\ DOMAIN p.kept \subseteq DOMAIN q.kept
  BY DEF PackOK, Within
<1> HIDE DEF N
<1>3. DOMAIN f = DOMAIN p.kept /\ DOMAIN g = DOMAIN q.kept  OBVIOUS
<1>4. \A i \in DOMAIN g : g[i] \in Nat  BY <1>1, <1>2
<1>5. \A i \in DOMAIN f : f[i] = g[i]  BY <1>2
<1>6. IsFiniteSet(DOMAIN g)  BY <1>2, <1>3, FS_Subset DEF AskOK
<1>7. Names(ask, p.kept) = SumFunction(f) /\ Names(ask, q.kept) = SumFunction(g)
  BY DEF Names, N
<1> HIDE DEF f, g
<1>8. DOMAIN f \subseteq DOMAIN g  BY <1>2, <1>3
<1> QED  BY <1>4, <1>5, <1>6, <1>7, <1>8, SumFunctionGrows

\* More memories cost no less.
LEMMA MemoryCostGrows ==
    ASSUME NEW found, FoundOK(found), NEW t, t \subseteq DOMAIN found, NEW s, s \subseteq t
    PROVE  /\ MemoryCost(found, s) \in Nat /\ MemoryCost(found, t) \in Nat
           /\ MemoryCost(found, s) <= MemoryCost(found, t)
<1> DEFINE N(m) == IF IsProfile(found[m]) THEN 2 * found[m].size ELSE found[m].size
           f == [m \in s |-> N(m)]
           g == [m \in t |-> N(m)]
<1>1. \A m \in DOMAIN found : N(m) \in Nat  BY DEF FoundOK
<1>7. MemoryCost(found, s) = SumFunction(f) /\ MemoryCost(found, t) = SumFunction(g)
  BY DEF MemoryCost
<1> HIDE DEF N
<1>3. DOMAIN f = s /\ DOMAIN g = t  OBVIOUS
<1>4. \A m \in t : g[m] \in Nat  BY <1>1
<1>5. \A m \in s : f[m] = g[m]  OBVIOUS
<1>6. IsFiniteSet(t)  BY FS_Subset DEF FoundOK
<1> HIDE DEF f, g
<1> QED  BY <1>3, <1>4, <1>5, <1>6, <1>7, SumFunctionGrows

\* More messages have no fewer authors.
LEMMA ParticipantsGrow ==
    ASSUME NEW ask, AskOK(ask), NEW found, NEW p, NEW q,
           PackOK(ask, found, p), PackOK(ask, found, q), Within(p, q)
    PROVE  /\ Cardinality(Participants(ask, p.kept)) \in Nat
           /\ Cardinality(Participants(ask, q.kept)) \in Nat
           /\ Cardinality(Participants(ask, p.kept)) <= Cardinality(Participants(ask, q.kept))
<1> DEFINE H(kept) == {j \in DOMAIN kept : ~ask.messages[j].bot}
           sp == [i \in DOMAIN ask.messages |-> ask.messages[i].speaker]
           T == {sp[i] : i \in H(q.kept)}
<1>1. H(p.kept) \subseteq H(q.kept) /\ H(q.kept) \subseteq DOMAIN ask.messages
  BY DEF PackOK, Within
<1>2. IsFiniteSet(H(q.kept))  BY <1>1, FS_Subset DEF AskOK
<1>3. \A i \in H(q.kept) : sp[i] = ask.messages[i].speaker  BY <1>1
<1>4. {ask.messages[i].speaker : i \in H(q.kept)} = T  BY <1>3
<1>5. IsFiniteSet(T)
  <2> HIDE DEF H, sp
  <2> QED  BY <1>2, ImageIsFinite
<1>6. {ask.messages[i].speaker : i \in H(p.kept)} \subseteq T  BY <1>1, <1>4
<1>7. IsFiniteSet(Participants(ask, q.kept)) /\ Participants(ask, p.kept) \subseteq Participants(ask, q.kept)
  <2>1. CASE ask.group
    <3>1. Participants(ask, q.kept) = T  BY <2>1, <1>4 DEF Participants
    <3>2. Participants(ask, p.kept) \subseteq T  BY <2>1, <1>6 DEF Participants
    <3> QED  BY <1>5, <3>1, <3>2
  <2>2. CASE ~ask.group
    <3>1. Participants(ask, q.kept) = {} /\ Participants(ask, p.kept) = {}
      BY <2>2 DEF Participants
    <3> QED  BY <3>1, FS_EmptySet
  <2> QED  BY <2>1, <2>2
<1>8. IsFiniteSet(Participants(ask, p.kept))  BY <1>7, FS_Subset
<1> QED  BY <1>7, <1>8, FS_Subset, FS_CardinalityType

\* More messages need no fewer lines.
LEMMA LinesGrow ==
    ASSUME NEW ask, AskOK(ask), NEW found, NEW p, NEW q,
           PackOK(ask, found, p), PackOK(ask, found, q), Within(p, q)
    PROVE  LET L(k) == Cardinality(DOMAIN k.kept) + ReplyLines(ask, k.kept)
           IN  L(p) \in Nat /\ L(q) \in Nat /\ L(p) <= L(q)
<1>1. DOMAIN q.kept \subseteq DOMAIN ask.messages /\ DOMAIN p.kept \subseteq DOMAIN q.kept
  BY DEF PackOK, Within
<1>2. IsFiniteSet(DOMAIN q.kept)  BY <1>1, FS_Subset DEF AskOK
<1>3. IsFiniteSet(DOMAIN p.kept)  BY <1>1, <1>2, FS_Subset
<1>4. /\ Cardinality(DOMAIN p.kept) \in Nat /\ Cardinality(DOMAIN q.kept) \in Nat
      /\ Cardinality(DOMAIN p.kept) <= Cardinality(DOMAIN q.kept)
  BY <1>1, <1>2, <1>3, FS_Subset, FS_CardinalityType
<1>5. /\ ReplyLines(ask, p.kept) \in Nat /\ ReplyLines(ask, q.kept) \in Nat
      /\ ReplyLines(ask, p.kept) <= ReplyLines(ask, q.kept)
  BY <1>1 DEF ReplyLines
<1> QED  BY <1>4, <1>5

\* A pack that holds more costs no less: what fits still fits with less in it.
LEMMA CostGrows ==
    ASSUME NEW ask, AskOK(ask), NEW found, FoundOK(found), NEW p, NEW q,
           PackOK(ask, found, p), PackOK(ask, found, q), Within(p, q)
    PROVE  Fits(ask, found, q) => Fits(ask, found, p)
<1> DEFINE A(k) == SumFunction(k.kept)
           B(k) == Names(ask, k.kept)
           L(k) == Cardinality(DOMAIN k.kept) + ReplyLines(ask, k.kept)
           S(k) == Cardinality(Participants(ask, k.kept))
           M(k) == MemoryCost(found, k.told)
<1>1. A(p) \in Nat /\ A(q) \in Nat /\ A(p) <= A(q)
  <2>1. IsFiniteSet(DOMAIN q.kept)  BY FS_Subset DEF PackOK, AskOK
  <2> QED  BY <2>1, SumFunctionGrows DEF PackOK, Within
<1>2. B(p) \in Nat /\ B(q) \in Nat /\ B(p) <= B(q)  BY NamesGrow
<1>3. L(p) \in Nat /\ L(q) \in Nat /\ L(p) <= L(q)  BY LinesGrow
<1>4. S(p) \in Nat /\ S(q) \in Nat /\ S(p) <= S(q)  BY ParticipantsGrow
<1>5. M(p) \in Nat /\ M(q) \in Nat /\ M(p) <= M(q)  BY MemoryCostGrows DEF PackOK, Within
<1>6. /\ Cost(ask, found, p) = Overhead + A(p) + B(p) + LineCost * L(p) + SpeakerCost * S(p) + M(p)
      /\ Cost(ask, found, q) = Overhead + A(q) + B(q) + LineCost * L(q) + SpeakerCost * S(q) + M(q)
  BY DEF Cost
<1> HIDE DEF A, B, L, S, M
<1>7. LineCost * L(p) \in Nat /\ LineCost * L(q) \in Nat /\ LineCost * L(p) <= LineCost * L(q)
  BY <1>3, BudgetAssumption, Times
<1>8. SpeakerCost * S(p) \in Nat /\ SpeakerCost * S(q) \in Nat /\ SpeakerCost * S(p) <= SpeakerCost * S(q)
  BY <1>4, BudgetAssumption, Times
<1> DEFINE lp == LineCost * L(p)  lq == LineCost * L(q)
           sp == SpeakerCost * S(p)  sq == SpeakerCost * S(q)
<1>9. /\ Cost(ask, found, p) = Overhead + A(p) + B(p) + lp + sp + M(p)
      /\ Cost(ask, found, q) = Overhead + A(q) + B(q) + lq + sq + M(q)
  BY <1>6
<1>10. lp \in Nat /\ lq \in Nat /\ lp <= lq /\ sp \in Nat /\ sq \in Nat /\ sp <= sq  BY <1>7, <1>8
<1> HIDE DEF lp, lq, sp, sq
<1> QED  BY <1>1, <1>2, <1>5, <1>9, <1>10, BudgetAssumption DEF Fits

\* What is found matters to the cost only as far as it is told.
LEMMA FitsByTold ==
    ASSUME NEW ask, NEW found, NEW other, NEW p, \A m \in p.told : found[m] = other[m]
    PROVE  Fits(ask, found, p) <=> Fits(ask, other, p)
<1> DEFINE N(f, m) == IF IsProfile(f[m]) THEN 2 * f[m].size ELSE f[m].size
<1>1. \A m \in p.told : N(found, m) = N(other, m)  OBVIOUS
<1> HIDE DEF N
<1>2. [m \in p.told |-> N(found, m)] = [m \in p.told |-> N(other, m)]  BY <1>1
<1>3. MemoryCost(found, p.told) = MemoryCost(other, p.told)
  <2>1. /\ MemoryCost(found, p.told) = SumFunction([m \in p.told |-> N(found, m)])
        /\ MemoryCost(other, p.told) = SumFunction([m \in p.told |-> N(other, m)])
    BY DEF MemoryCost, N
  <2> QED  BY <1>2, <2>1, Zenon
<1> QED  BY <1>3 DEF Fits, Cost

With(p, m) == [p EXCEPT !.told = @ \cup {m}]
Without(p, m) == [p EXCEPT !.dropped = @ \cup {m}]

\* It fits, and a memory is left out only because it does not.
GoodPack(ask, found, p) ==
    /\ PackOK(ask, found, p)
    /\ Fits(ask, found, p)
    /\ p.told \cap p.dropped = {}
    /\ \A m \in p.dropped : ~Fits(ask, found, With(p, m))

\* A memory more or a memory fewer leaves a pack a pack.
LEMMA WithOK ==
    ASSUME NEW ask, NEW found, NEW p, PackOK(ask, found, p), NEW m \in DOMAIN found
    PROVE  /\ PackOK(ask, found, With(p, m)) /\ PackOK(ask, found, Without(p, m))
           /\ With(p, m).kept = p.kept /\ With(p, m).dropped = p.dropped
           /\ With(p, m).told = p.told \cup {m}
           /\ Without(p, m).kept = p.kept /\ Without(p, m).told = p.told
           /\ Without(p, m).dropped = p.dropped \cup {m}
<1>1. PICK k, t, d : p = [kept |-> k, told |-> t, dropped |-> d]  BY DEF PackOK
<1>2. /\ With(p, m) = [kept |-> p.kept, told |-> p.told \cup {m}, dropped |-> p.dropped]
      /\ Without(p, m) = [kept |-> p.kept, told |-> p.told, dropped |-> p.dropped \cup {m}]
  BY <1>1 DEF With, Without
<1>3. /\ With(p, m).kept = p.kept /\ With(p, m).dropped = p.dropped
      /\ With(p, m).told = p.told \cup {m}
      /\ Without(p, m).kept = p.kept /\ Without(p, m).told = p.told
      /\ Without(p, m).dropped = p.dropped \cup {m}
  BY <1>2
<1> QED  BY <1>2, <1>3 DEF PackOK

\* What does not fit beside a pack does not fit beside a greater one.
LEMMA StaysOut ==
    ASSUME NEW ask, AskOK(ask), NEW found, FoundOK(found), NEW p, NEW q,
           PackOK(ask, found, p), PackOK(ask, found, q), Within(p, q),
           NEW m \in DOMAIN found, ~Fits(ask, found, With(p, m))
    PROVE  ~Fits(ask, found, With(q, m))
<1>1. PackOK(ask, found, With(p, m)) /\ PackOK(ask, found, With(q, m))  BY WithOK
<1>2. Within(With(p, m), With(q, m))
  <2>1. /\ With(p, m).kept = p.kept /\ With(p, m).told = p.told \cup {m}
        /\ With(q, m).kept = q.kept /\ With(q, m).told = q.told \cup {m}
    BY WithOK
  <2> QED  BY <2>1 DEF Within
<1> QED  BY <1>1, <1>2, CostGrows

\* A memory is told if it fits, and dropped only if it does not.
LEMMA TellOrDropSound ==
    ASSUME NEW ask, AskOK(ask), NEW found, FoundOK(found), NEW p, GoodPack(ask, found, p),
           NEW m \in DOMAIN found, m \notin p.told \cup p.dropped
    PROVE  LET q == TellOrDrop(ask, found, p, m)
           IN  /\ GoodPack(ask, found, q)
               /\ q.kept = p.kept
               /\ q.told \cup q.dropped = p.told \cup p.dropped \cup {m}
<1> DEFINE q == TellOrDrop(ask, found, p, m)
<1>0. PackOK(ask, found, p)  BY DEF GoodPack
<1>1. q = IF Fits(ask, found, With(p, m)) THEN With(p, m) ELSE Without(p, m)
  BY DEF TellOrDrop, With, Without
<1>2. /\ PackOK(ask, found, With(p, m)) /\ PackOK(ask, found, Without(p, m))
      /\ With(p, m).kept = p.kept /\ With(p, m).dropped = p.dropped
      /\ With(p, m).told = p.told \cup {m}
      /\ Without(p, m).kept = p.kept /\ Without(p, m).told = p.told
      /\ Without(p, m).dropped = p.dropped \cup {m}
  BY <1>0, WithOK
<1> HIDE DEF q
<1>3. CASE Fits(ask, found, With(p, m))
  <2>1. q = With(p, m)  BY <1>1, <1>3
  <2>2. Within(p, q)  BY <1>2, <2>1 DEF Within
  <2>3. \A n \in q.dropped : ~Fits(ask, found, With(q, n))
    <3>1. ASSUME NEW n \in q.dropped PROVE ~Fits(ask, found, With(q, n))
      <4>1. n \in p.dropped /\ n \in DOMAIN found  BY <1>0, <1>2, <2>1 DEF PackOK
      <4>2. ~Fits(ask, found, With(p, n))  BY <4>1 DEF GoodPack
      <4> QED  BY <1>0, <1>2, <2>1, <2>2, <4>1, <4>2, StaysOut
    <3> QED  BY <3>1
  <2>4. GoodPack(ask, found, q)  BY <1>2, <1>3, <2>1, <2>3 DEF GoodPack
  <2> QED  BY <1>2, <2>1, <2>4 DEF q
<1>4. CASE ~Fits(ask, found, With(p, m))
  <2>1. q = Without(p, m)  BY <1>1, <1>4
  <2>2. Within(p, q) /\ Within(q, p)  BY <1>2, <2>1 DEF Within
  <2>3. \A n \in q.dropped : ~Fits(ask, found, With(q, n))
    <3>1. ASSUME NEW n \in q.dropped PROVE ~Fits(ask, found, With(q, n))
      <4>1. n \in p.dropped \/ n = m  BY <1>2, <2>1
      <4>2. ~Fits(ask, found, With(p, n)) /\ n \in DOMAIN found  BY <1>0, <1>4, <4>1 DEF GoodPack, PackOK
      <4> QED  BY <1>0, <1>2, <2>1, <2>2, <4>2, StaysOut
    <3> QED  BY <3>1
  <2>4. Fits(ask, found, q)  BY <1>0, <1>2, <2>1, <2>2, CostGrows DEF GoodPack
  <2>5. GoodPack(ask, found, q)  BY <1>2, <2>1, <2>3, <2>4 DEF GoodPack
  <2> QED  BY <1>2, <2>1, <2>5 DEF q
<1> QED  BY <1>3, <1>4

(***************************************************************************)
(* Memory after memory.                                                     *)
(***************************************************************************)

Telling(g, ask, found, pack, ms, N) ==
    g = [n \in 0 .. N |-> IF n = 0 THEN pack ELSE TellOrDrop(ask, found, g[n - 1], ms[n])]

\* The packs after one memory, after two, and so on, are well defined and sound.
LEMMA TellingExists ==
    ASSUME NEW ask, NEW found, NEW pack, NEW ms
    PROVE  \A N \in Nat : \E g : Telling(g, ask, found, pack, ms, N)
<1> DEFINE S == {N \in Nat : \E g : Telling(g, ask, found, pack, ms, N)}
           T(p, n) == TellOrDrop(ask, found, p, ms[n])
<1>t. \A g, N : Telling(g, ask, found, pack, ms, N)
                  <=> g = [n \in 0 .. N |-> IF n = 0 THEN pack ELSE T(g[n - 1], n)]
  BY DEF Telling
<1> HIDE DEF T
<1>1. 0 \in S
  <2> DEFINE g == [n \in 0 .. 0 |-> pack]
  <2>1. g = [n \in 0 .. 0 |-> IF n = 0 THEN pack ELSE T(g[n - 1], n)]  OBVIOUS
  <2>2. Telling(g, ask, found, pack, ms, 0)
    <3> HIDE DEF g
    <3> QED  BY <2>1, <1>t
  <2> QED  BY <2>2
<1>2. ASSUME NEW N \in Nat, N \in S PROVE N + 1 \in S
  <2>1. PICK h : Telling(h, ask, found, pack, ms, N)  BY <1>2
  <2>2. h = [n \in 0 .. N |-> IF n = 0 THEN pack ELSE T(h[n - 1], n)]  BY <2>1, <1>t
  <2> DEFINE g == [n \in 0 .. N + 1 |-> IF n = N + 1 THEN T(h[N], N + 1) ELSE h[n]]
             k == [n \in 0 .. N + 1 |-> IF n = 0 THEN pack ELSE T(g[n - 1], n)]
  <2>3. ASSUME NEW n \in 0 .. N + 1 PROVE g[n] = k[n]
    <3>1. CASE n = 0
      <4>1. g[n] = h[0] /\ k[n] = pack /\ 0 \in 0 .. N  BY <3>1
      <4>2. h[0] = pack  BY <2>2, <4>1
      <4> QED  BY <4>1, <4>2
    <3>2. CASE n \in 1 .. N
      <4>1. g[n] = h[n] /\ k[n] = T(g[n - 1], n) /\ g[n - 1] = h[n - 1]  BY <3>2
      <4>2. h[n] = T(h[n - 1], n)  BY <2>2, <3>2
      <4> HIDE DEF g, k
      <4> QED  BY <4>1, <4>2
    <3>3. CASE n = N + 1
      <4>1. g[n] = T(h[N], N + 1) /\ k[n] = T(g[n - 1], n) /\ g[n - 1] = h[N]  BY <3>3
      <4> HIDE DEF g, k
      <4> QED  BY <4>1, <3>3
    <3> QED  BY <3>1, <3>2, <3>3
  <2>4. g = [n \in 0 .. N + 1 |-> g[n]] /\ k = [n \in 0 .. N + 1 |-> k[n]]  OBVIOUS
  <2>5. g = k
    <3> HIDE DEF g, k
    <3>1. [n \in 0 .. N + 1 |-> g[n]] = [n \in 0 .. N + 1 |-> k[n]]  BY <2>3
    <3> QED  BY <2>4, <3>1, Zenon
  <2>6. g = [n \in 0 .. N + 1 |-> IF n = 0 THEN pack ELSE T(g[n - 1], n)]
    <3> HIDE DEF g
    <3> QED  BY <2>5
  <2>7. Telling(g, ask, found, pack, ms, N + 1)
    <3> HIDE DEF g
    <3> QED  BY <2>6, <1>t
  <2> HIDE DEF g
  <2> QED  BY <2>7
<1> HIDE DEF S
<1>3. Nat \subseteq S  BY <1>1, <1>2, Induction
<1> QED  BY <1>3 DEF S

\* All memories of a list are told or dropped, each once.
LEMMA TellAllSound ==
    ASSUME NEW ask, AskOK(ask), NEW found, FoundOK(found),
           NEW pack, GoodPack(ask, found, pack), NEW ms, Len(ms) \in Nat,
           \A i \in 1 .. Len(ms) : /\ ms[i] \in DOMAIN found \ (pack.told \cup pack.dropped)
                                   /\ \A j \in 1 .. Len(ms) : i # j => ms[i] # ms[j]
    PROVE  LET q == TellAll(ask, found, pack, ms)
           IN  /\ GoodPack(ask, found, q)
               /\ q.kept = pack.kept
               /\ q.told \cup q.dropped
                    = pack.told \cup pack.dropped \cup {ms[i] : i \in 1 .. Len(ms)}
<1> DEFINE L == Len(ms)
           g == CHOOSE g : Telling(g, ask, found, pack, ms, L)
<1>1. Telling(g, ask, found, pack, ms, L)  BY TellingExists
<1>2. TellAll(ask, found, pack, ms) = g[L]  BY DEF TellAll, Telling
<1> HIDE DEF g
<1>3. /\ g[0] = pack
      /\ \A n \in 1 .. L : g[n] = TellOrDrop(ask, found, g[n - 1], ms[n])
  BY <1>1 DEF Telling
<1> DEFINE Heard(n) == {ms[i] : i \in 1 .. n}
           Good(n) == /\ GoodPack(ask, found, g[n])
                      /\ g[n].kept = pack.kept
                      /\ g[n].told \cup g[n].dropped = pack.told \cup pack.dropped \cup Heard(n)
           S == {n \in Nat : n <= L => Good(n)}
<1>4. 0 \in S
  <2>1. Heard(0) = {}  OBVIOUS
  <2> HIDE DEF Heard
  <2>2. Good(0)  BY <1>3, <2>1
  <2> QED  BY <2>2
<1>5. ASSUME NEW n \in Nat, n \in S PROVE n + 1 \in S
  <2>1. SUFFICES ASSUME n + 1 <= L PROVE Good(n + 1)  OBVIOUS
  <2>2. Good(n)  BY <1>5, <2>1
  <2> DEFINE m == ms[n + 1]
  <2>3. n + 1 \in 1 .. L /\ (n + 1) - 1 = n  BY <2>1
  <2>4. g[n + 1] = TellOrDrop(ask, found, g[n], m)  BY <1>3, <2>3
  <2>5. m \in DOMAIN found /\ m \notin pack.told \cup pack.dropped  BY <2>3
  <2>6. m \notin Heard(n)  BY <2>3
  <2>7. Heard(n + 1) = Heard(n) \cup {m}  OBVIOUS
  <2> HIDE DEF m, Heard
  <2>8. m \notin g[n].told \cup g[n].dropped  BY <2>2, <2>5, <2>6
  <2>9. /\ GoodPack(ask, found, g[n + 1])
        /\ g[n + 1].kept = g[n].kept
        /\ g[n + 1].told \cup g[n + 1].dropped = g[n].told \cup g[n].dropped \cup {m}
    BY <2>2, <2>4, <2>5, <2>8, TellOrDropSound
  <2> QED  BY <2>2, <2>7, <2>9
<1> HIDE DEF S
<1>6. Nat \subseteq S  BY <1>4, <1>5, Induction
<1>7. Good(L)  BY <1>6 DEF S
<1> QED  BY <1>2, <1>7

(***************************************************************************)
(* Message after message.                                                   *)
(***************************************************************************)

\* What keeping one message makes of a pack.
LEMMA KeepIs ==
    ASSUME NEW ask, NEW found, NEW p, PackOK(ask, found, p),
           NEW i \in DOMAIN ask.messages, NEW n \in Nat
    PROVE  LET q == Keep(p, i, n)
           IN  /\ PackOK(ask, found, q)
               /\ DOMAIN q.kept = DOMAIN p.kept \cup {i}
               /\ q.told = p.told /\ q.dropped = p.dropped
<1>1. PICK k, t, d : p = [kept |-> k, told |-> t, dropped |-> d]  BY DEF PackOK
<1> DEFINE h == [j \in {i} |-> n]
           o == Overlaid(h, k)
<1>2. Keep(p, i, n) = [kept |-> o, told |-> t, dropped |-> d]  BY <1>1 DEF Keep
<1>3. o = [j \in DOMAIN k \cup {i} |-> IF j = i THEN n ELSE k[j]]
  BY DEF Overlaid
<1>4. DOMAIN k \subseteq DOMAIN ask.messages /\ \A j \in DOMAIN k : k[j] \in Nat
  BY <1>1 DEF PackOK
<1> HIDE DEF o
<1>5. /\ DOMAIN o = DOMAIN k \cup {i} /\ \A j \in DOMAIN o : o[j] \in Nat
      /\ o = [j \in DOMAIN o |-> o[j]]
  BY <1>3, <1>4
<1> DEFINE q == Keep(p, i, n)
<1>6. q.kept = o /\ q.told = t /\ q.dropped = d /\ q = [kept |-> o, told |-> t, dropped |-> d]
  BY <1>2
<1>7. p.kept = k /\ p.told = t /\ p.dropped = d  BY <1>1
<1> HIDE DEF q
<1>8. PackOK(ask, found, q)  BY <1>4, <1>5, <1>6, <1>7 DEF PackOK
<1> QED  BY <1>5, <1>6, <1>7, <1>8 DEF q

\* What keeping several messages makes of a pack.
LEMMA KeepAllIs ==
    ASSUME NEW ask, AskOK(ask), NEW found, NEW p, PackOK(ask, found, p),
           NEW is, is \subseteq DOMAIN ask.messages
    PROVE  LET q == KeepAll(ask, p, is)
           IN  /\ PackOK(ask, found, q)
               /\ DOMAIN q.kept = DOMAIN p.kept \cup is
               /\ q.told = p.told /\ q.dropped = p.dropped
               /\ Within(p, q)
               /\ is = {} => q = p
<1>1. PICK k, t, d : p = [kept |-> k, told |-> t, dropped |-> d]  BY DEF PackOK
<1> DEFINE h == [j \in is |-> Sizes(ask)[j]]
           o == Overlaid(k, h)
<1>2. KeepAll(ask, p, is) = [kept |-> o, told |-> t, dropped |-> d]  BY <1>1 DEF KeepAll
<1>3. o = [j \in DOMAIN k \cup is |-> IF j \in DOMAIN k THEN k[j] ELSE Sizes(ask)[j]]
  BY DEF Overlaid
<1>4. /\ DOMAIN k \subseteq DOMAIN ask.messages /\ \A j \in DOMAIN k : k[j] \in Nat
      /\ k = [j \in DOMAIN k |-> k[j]]
  BY <1>1 DEF PackOK
<1>s. \A j \in DOMAIN ask.messages : Sizes(ask)[j] \in Nat  BY DEF Sizes, AskOK
<1> HIDE DEF o
<1>5. /\ DOMAIN o = DOMAIN k \cup is /\ \A j \in DOMAIN o : o[j] \in Nat
      /\ o = [j \in DOMAIN o |-> o[j]]
      /\ \A j \in DOMAIN k : o[j] = k[j]
  BY <1>3, <1>4, <1>s
<1>e. is = {} => o = k
  <2>1. SUFFICES ASSUME is = {} PROVE o = k  OBVIOUS
  <2>2. DOMAIN o = DOMAIN k  BY <1>5, <2>1
  <2>3. [j \in DOMAIN o |-> o[j]] = [j \in DOMAIN k |-> k[j]]  BY <1>5, <2>2
  <2> QED  BY <1>4, <1>5, <2>3, Zenon
<1> DEFINE q == KeepAll(ask, p, is)
<1>6. q.kept = o /\ q.told = t /\ q.dropped = d /\ q = [kept |-> o, told |-> t, dropped |-> d]
  BY <1>2
<1>7. p.kept = k /\ p.told = t /\ p.dropped = d  BY <1>1
<1> HIDE DEF q
<1>8. PackOK(ask, found, q)  BY <1>4, <1>5, <1>6, <1>7 DEF PackOK
<1>9. Within(p, q)  BY <1>5, <1>6, <1>7 DEF Within
<1> QED  BY <1>1, <1>5, <1>e, <1>6, <1>7, <1>8, <1>9 DEF q

\* The newest messages, without a gap.
LEMMA KeepRecentSound ==
    ASSUME NEW ask, AskOK(ask), NEW found, FoundOK(found), NEW p, GoodPack(ask, found, p)
    PROVE  LET q == KeepRecent(ask, found, p)
           IN  /\ GoodPack(ask, found, q)
               /\ q.told = p.told /\ q.dropped = p.dropped
               /\ DOMAIN p.kept \subseteq DOMAIN q.kept
               /\ \A i \in DOMAIN q.kept \ DOMAIN p.kept :
                    \A j \in DOMAIN ask.messages \ {ask.current, ask.quote} :
                        j > i => j \in DOMAIN q.kept
<1> DEFINE Room(j) == Fits(ask, found, KeepAll(ask, p, Since(ask, j)))
           K == {i \in Optional(ask) : \A j \in Since(ask, i) : Room(j)}
           q == KeepAll(ask, p, K)
<1>0. PackOK(ask, found, p) /\ Fits(ask, found, p)  BY DEF GoodPack
<1>1. KeepRecent(ask, found, p) = q  BY DEF KeepRecent
<1>2. Optional(ask) \subseteq DOMAIN ask.messages /\ Optional(ask) \subseteq Nat
  BY DEF Optional, AskOK
<1>3. \A i, j : j \in Since(ask, i) <=> j \in Optional(ask) /\ j >= i  BY DEF Since
<1> HIDE DEF Room
<1>4. /\ K \subseteq Optional(ask)
      /\ \A i \in K : \A j \in Optional(ask) : j >= i => j \in K
  <2>1. K \subseteq Optional(ask)  OBVIOUS
  <2>2. ASSUME NEW i \in K, NEW j \in Optional(ask), j >= i PROVE j \in K
    <3>1. ASSUME NEW l \in Since(ask, j) PROVE Room(l)
      <4>1. l \in Optional(ask) /\ l >= j  BY <1>3
      <4>2. l >= i  BY <1>2, <2>2, <4>1
      <4>3. l \in Since(ask, i)  BY <1>3, <4>1, <4>2
      <4> QED  BY <4>3
    <3> QED  BY <3>1
  <2> QED  BY <2>1, <2>2
<1>5. \A i \in K : Room(i)
  <2>1. \A i \in K : i \in Since(ask, i)  BY <1>2, <1>3, <1>4
  <2> QED  BY <2>1
<1> HIDE DEF K
<1>6. /\ PackOK(ask, found, q)
      /\ DOMAIN q.kept = DOMAIN p.kept \cup K
      /\ q.told = p.told /\ q.dropped = p.dropped
      /\ Within(p, q)
      /\ K = {} => q = p
  <2>1. K \subseteq DOMAIN ask.messages  BY <1>2, <1>4
  <2> QED  BY <1>0, <2>1, KeepAllIs
<1>7. Fits(ask, found, q)
  <2>1. CASE K = {}  BY <1>0, <1>6, <2>1
  <2>2. CASE K # {}
    <3>1. PICK i \in K : \A j \in K : i <= j
      <4>1. K \subseteq Nat  BY <1>2, <1>4
      <4> QED  BY <2>2, <4>1, LeastNumber
    <3>2. K = Since(ask, i)
      <4>1. \A j \in K : j \in Since(ask, i)  BY <1>2, <1>3, <1>4, <3>1
      <4>2. \A j \in Since(ask, i) : j \in K  BY <1>3, <1>4
      <4> QED  BY <4>1, <4>2
    <3> QED  BY <1>5, <3>2 DEF Room
  <2> QED  BY <2>1, <2>2
<1> HIDE DEF q
<1>8. \A m \in q.dropped : ~Fits(ask, found, With(q, m))
  <2>1. ASSUME NEW m \in q.dropped PROVE ~Fits(ask, found, With(q, m))
    <3>1. m \in p.dropped /\ m \in DOMAIN found  BY <1>0, <1>6 DEF PackOK
    <3>2. ~Fits(ask, found, With(p, m))  BY <3>1 DEF GoodPack
    <3> QED  BY <1>0, <1>6, <3>1, <3>2, StaysOut
  <2> QED  BY <2>1
<1>9. GoodPack(ask, found, q)  BY <1>6, <1>7, <1>8 DEF GoodPack
<1>10. ASSUME NEW i \in DOMAIN q.kept \ DOMAIN p.kept,
              NEW j \in DOMAIN ask.messages \ {ask.current, ask.quote}, j > i
       PROVE  j \in DOMAIN q.kept
  <2>1. i \in K /\ j \in Optional(ask)  BY <1>6 DEF Optional
  <2>2. j \in K  BY <1>2, <1>4, <1>10, <2>1
  <2> QED  BY <1>6, <2>2
<1> QED  BY <1>1, <1>6, <1>9, <1>10

\* What must be in the prompt is in it, and nothing else yet.
Required(ask, found, p, is) ==
    /\ PackOK(ask, found, p)
    /\ Fits(ask, found, p)
    /\ DOMAIN p.kept = is
    /\ p.told = {} /\ p.dropped = {}

\* A text is cut to a length that fits.
LEMMA LongestFits ==
    ASSUME NEW ask, NEW found, NEW p, NEW i, NEW size \in Nat,
           NEW n \in Longest(size, LAMBDA k : Fits(ask, found, Keep(p, i, k)))
    PROVE  n \in Nat /\ Fits(ask, found, Keep(p, i, n))
BY BudgetAssumption DEF Longest

\* The current message is kept, and the pack fits.
LEMMA KeepCurrentSound ==
    ASSUME NEW ask, AskOK(ask), NEW found, FoundOK(found), ask.current \in DOMAIN ask.messages,
           Fits(ask, found, Nothing)
    PROVE  \A p \in KeepCurrent(ask, found, Nothing) : Required(ask, found, p, {ask.current})
<1> DEFINE i == ask.current
           size == Sizes(ask)[i]
<1>0. PackOK(ask, found, Nothing) /\ DOMAIN Nothing.kept = {} /\ Nothing.told = {} /\ Nothing.dropped = {}
  BY DEF PackOK, Nothing
<1>1. size \in Nat /\ i # 0  BY DEF Sizes, AskOK
<1>2. \A p \in KeepCurrent(ask, found, Nothing) :
        \E n \in Nat : p = Keep(Nothing, i, n) /\ Fits(ask, found, p)
  <2>1. CASE Fits(ask, found, Keep(Nothing, i, size))
    <3>1. KeepCurrent(ask, found, Nothing) = {Keep(Nothing, i, size)}
      BY <1>1, <2>1 DEF KeepCurrent
    <3> QED  BY <1>1, <2>1, <3>1
  <2>2. CASE ~Fits(ask, found, Keep(Nothing, i, size))
    <3> DEFINE C == Longest(size, LAMBDA k : Fits(ask, found, Keep(Nothing, i, k)))
    <3>1. KeepCurrent(ask, found, Nothing) = {Keep(Nothing, i, n) : n \in C}
      BY <1>1, <2>2 DEF KeepCurrent
    <3>2. \A n \in C : n \in Nat /\ Fits(ask, found, Keep(Nothing, i, n))
      BY <1>1, LongestFits
    <3> HIDE DEF C
    <3> QED  BY <3>1, <3>2
  <2> QED  BY <2>1, <2>2
<1>3. ASSUME NEW p \in KeepCurrent(ask, found, Nothing) PROVE Required(ask, found, p, {i})
  <2>1. PICK n \in Nat : p = Keep(Nothing, i, n) /\ Fits(ask, found, p)  BY <1>2
  <2>2. /\ PackOK(ask, found, p) /\ DOMAIN p.kept = DOMAIN Nothing.kept \cup {i}
        /\ p.told = {} /\ p.dropped = {}
    BY <1>0, <2>1, KeepIs
  <2> QED  BY <1>0, <2>1, <2>2 DEF Required
<1> QED  BY <1>3

\* The quoted message is kept beside the current one, and the pack fits.
LEMMA KeepQuoteSound ==
    ASSUME NEW ask, AskOK(ask), NEW found, FoundOK(found), ask.current \in DOMAIN ask.messages,
           ask.quote \in DOMAIN ask.messages \cup {0},
           NEW p, Required(ask, found, p, {ask.current})
    PROVE  \A q \in KeepQuote(ask, found, p) :
             Required(ask, found, q, {ask.current} \cup ({ask.quote} \ {0}))
<1> DEFINE i == ask.quote
           c == ask.current
           size == Sizes(ask)[i]
           Cut == Longest(size, LAMBDA k : Fits(ask, found, Keep(p, i, k)))
           both == Keep(p, i, MarkerCost)
           Again == Longest(p.kept[c], LAMBDA k : Fits(ask, found, Keep(both, c, k)))
<1>0. PackOK(ask, found, p) /\ Fits(ask, found, p) /\ DOMAIN p.kept = {c} /\ p.told = {} /\ p.dropped = {}
  BY DEF Required
<1>c. c # 0  BY DEF AskOK
<1>1. CASE i \in {0, c}
  <2>1. KeepQuote(ask, found, p) = {p}  BY <1>1 DEF KeepQuote
  <2> QED  BY <1>1, <2>1
<1>2. CASE i \notin {0, c}
  <2>1. i \in DOMAIN ask.messages /\ size \in Nat  BY <1>2 DEF Sizes, AskOK
  <2>2. \A n \in Nat : /\ PackOK(ask, found, Keep(p, i, n))
                       /\ DOMAIN Keep(p, i, n).kept = {c, i}
                       /\ Keep(p, i, n).told = {} /\ Keep(p, i, n).dropped = {}
    <3>1. ASSUME NEW n \in Nat
          PROVE  /\ PackOK(ask, found, Keep(p, i, n))
                 /\ DOMAIN Keep(p, i, n).kept = {c} \cup {i}
                 /\ Keep(p, i, n).told = {} /\ Keep(p, i, n).dropped = {}
      <4> HIDE DEF size, Cut, both, Again
      <4>1. /\ PackOK(ask, found, Keep(p, i, n))
            /\ DOMAIN Keep(p, i, n).kept = DOMAIN p.kept \cup {i}
            /\ Keep(p, i, n).told = p.told /\ Keep(p, i, n).dropped = p.dropped
        BY <1>0, <2>1, KeepIs
      <4> QED  BY <1>0, <4>1
    <3> QED  BY <3>1
  <2>3. CASE Fits(ask, found, Keep(p, i, size))
    <3>1. KeepQuote(ask, found, p) = {Keep(p, i, size)}  BY <1>2, <2>3 DEF KeepQuote
    <3> QED  BY <1>2, <2>1, <2>2, <2>3, <3>1 DEF Required
  <2>4. CASE ~Fits(ask, found, Keep(p, i, size)) /\ Cut # {}
    <3>1. KeepQuote(ask, found, p) = {Keep(p, i, n) : n \in Cut}  BY <1>2, <2>4 DEF KeepQuote
    <3>2. \A n \in Cut : n \in Nat /\ Fits(ask, found, Keep(p, i, n))  BY <2>1, LongestFits
    <3> HIDE DEF Cut
    <3>3. \A n \in Cut : Required(ask, found, Keep(p, i, n), {c, i})  BY <2>2, <3>2 DEF Required
    <3>4. {c, i} = {c} \cup ({i} \ {0})  BY <1>2
    <3> QED  BY <3>1, <3>3, <3>4
  <2>5. CASE ~Fits(ask, found, Keep(p, i, size)) /\ Cut = {}
    <3>1. KeepQuote(ask, found, p) = {Keep(both, c, n) : n \in Again}
      BY <1>2, <1>c, <2>5 DEF KeepQuote
    <3>2. p.kept[c] \in Nat  BY <1>0 DEF PackOK
    <3>3. \A n \in Again : n \in Nat /\ Fits(ask, found, Keep(both, c, n))  BY <3>2, LongestFits
    <3>4. /\ PackOK(ask, found, both) /\ DOMAIN both.kept = {c, i}
          /\ both.told = {} /\ both.dropped = {}
      BY <2>2, BudgetAssumption
    <3> HIDE DEF Again, both
    <3>5. ASSUME NEW n \in Again PROVE Required(ask, found, Keep(both, c, n), {c, i})
      <4>1. n \in Nat /\ Fits(ask, found, Keep(both, c, n))  BY <3>3
      <4>2. /\ PackOK(ask, found, Keep(both, c, n))
            /\ DOMAIN Keep(both, c, n).kept = DOMAIN both.kept \cup {c}
            /\ Keep(both, c, n).told = {} /\ Keep(both, c, n).dropped = {}
        BY <3>4, <4>1, KeepIs
      <4>3. DOMAIN Keep(both, c, n).kept = {c, i}  BY <3>4, <4>2
      <4> QED  BY <4>1, <4>2, <4>3 DEF Required
    <3>6. {c, i} = {c} \cup ({i} \ {0})  BY <1>2
    <3> QED  BY <3>1, <3>5, <3>6
  <2> QED  BY <2>3, <2>4, <2>5
<1> QED  BY <1>1, <1>2

(***************************************************************************)
(* The whole pack.                                                          *)
(***************************************************************************)

\* Finitely many numbers have a greatest.
LEMMA GreatestOf ==
    ASSUME NEW f, NEW S, IsFiniteSet(S), S # {}, \A x \in S : f[x] \in Nat
    PROVE  \E x \in S : \A y \in S : f[x] >= f[y]
<1> DEFINE N == {n \in Nat : \A s \in SUBSET S : Cardinality(s) = n + 1 =>
                    \E x \in s : \A y \in s : f[x] >= f[y]}
<1>0. \A s \in SUBSET S : IsFiniteSet(s) /\ Cardinality(s) \in Nat
  BY FS_Subset, FS_CardinalityType
<1>1. 0 \in N
  <2>1. ASSUME NEW s \in SUBSET S, Cardinality(s) = 0 + 1
        PROVE  \E x \in s : \A y \in s : f[x] >= f[y]
    <3>0. IsFiniteSet(s) /\ Cardinality(s) = 1  BY <1>0, <2>1
    <3>1. PICK x : s = {x}  BY <3>0, FS_Singleton, Zenon
    <3> QED  BY <3>1
  <2> QED  BY <2>1
<1>2. ASSUME NEW n \in Nat, n \in N PROVE n + 1 \in N
  <2>1. ASSUME NEW s \in SUBSET S, Cardinality(s) = (n + 1) + 1
        PROVE  \E x \in s : \A y \in s : f[x] >= f[y]
    <3>1. s # {}  BY <2>1, FS_EmptySet
    <3>2. PICK z \in s : TRUE  BY <3>1
    <3> DEFINE u == s \ {z}
    <3>3. u \in SUBSET S /\ Cardinality(u) = n + 1  BY <2>1, <3>1, SmallerIn
    <3>4. PICK x \in u : \A y \in u : f[x] >= f[y]  BY <1>2, <3>3
    <3>5. x \in s /\ f[x] \in Nat /\ f[z] \in Nat  BY <3>4
    <3>6. \A y \in s : y = z \/ y \in u  OBVIOUS
    <3>7. CASE f[x] >= f[z]
      <4> HIDE DEF u
      <4> QED  BY <3>4, <3>5, <3>6, <3>7
    <3>8. CASE f[z] >= f[x]
      <4>1. ASSUME NEW y \in s PROVE f[z] >= f[y]
        <5>1. CASE y = z  BY <3>5, <5>1
        <5>2. CASE y \in u
          <6>1. f[x] >= f[y] /\ f[y] \in Nat  BY <3>4, <5>2
          <6> QED  BY <3>5, <3>8, <6>1
        <5> QED  BY <3>6, <5>1, <5>2
      <4> QED  BY <3>2, <4>1
    <3> QED  BY <3>5, <3>7, <3>8
  <2> QED  BY <2>1
<1> HIDE DEF N
<1>3. Nat \subseteq N  BY <1>1, <1>2, Induction
<1>4. Cardinality(S) \in Nat /\ Cardinality(S) # 0  BY <1>0, FS_EmptySet
<1>5. PICK n \in Nat : Cardinality(S) = n + 1  BY <1>4, Cardinality(S) - 1 \in Nat
<1> QED  BY <1>3, <1>5 DEF N

\* The priority profiles are memories that were found, each once.
LEMMA ProfilesAre ==
    ASSUME NEW found, FoundOK(found)
    PROVE  LET ms == PriorityProfiles(found)
           IN  /\ Len(ms) \in Nat
               /\ \A i \in 1 .. Len(ms) : /\ ms[i] \in DOMAIN found
                                          /\ \A j \in 1 .. Len(ms) : i # j => ms[i] # ms[j]
               /\ Range(ms) = {ms[i] : i \in 1 .. Len(ms)}
<1> DEFINE S(scope) == {m \in DOMAIN found : found[m].scope = scope /\ found[m].kind = "summary"}
           Pick(scope) == CHOOSE m \in S(scope) : \A n \in S(scope) : found[m].sure >= found[n].sure
           a == Best(found, "user")
           b == Best(found, "group")
<1>1. \A scope : /\ S(scope) = {} => Best(found, scope) = << >>
                 /\ S(scope) # {} => Best(found, scope) = <<Pick(scope)>>
  BY DEF Best
<1>2. \A scope : S(scope) # {} => Pick(scope) \in S(scope)
  <2>1. SUFFICES ASSUME NEW scope, S(scope) # {} PROVE Pick(scope) \in S(scope)
    OBVIOUS
  <2> DEFINE f == [m \in DOMAIN found |-> found[m].sure]
             T == S(scope)
  <2>2. T \subseteq DOMAIN found /\ T # {}  BY <2>1
  <2>3. IsFiniteSet(T)  BY <2>2, FS_Subset DEF FoundOK
  <2>4. \A m \in T : f[m] = found[m].sure /\ f[m] \in Nat  BY <2>2 DEF FoundOK
  <2>5. \E m \in T : \A n \in T : f[m] >= f[n]
    <3> HIDE DEF T, f
    <3> QED  BY <2>2, <2>3, <2>4, GreatestOf
  <2>6. \E m \in T : \A n \in T : found[m].sure >= found[n].sure
    <3> HIDE DEF T, f
    <3> QED  BY <2>4, <2>5
  <2> QED  BY <2>6
<1> HIDE DEF Pick
<1>3. \A scope : /\ Best(found, scope) \in Seq(DOMAIN found)
                 /\ Len(Best(found, scope)) \in {0, 1}
                 /\ Len(Best(found, scope)) = 1 => Best(found, scope)[1] \in S(scope)
  <2>1. SUFFICES ASSUME NEW scope
                 PROVE  /\ Best(found, scope) \in Seq(DOMAIN found)
                        /\ Len(Best(found, scope)) \in {0, 1}
                        /\ Len(Best(found, scope)) = 1 => Best(found, scope)[1] \in S(scope)
    OBVIOUS
  <2>2. CASE S(scope) = {}
    <3>1. Best(found, scope) = << >>  BY <1>1, <2>2
    <3> QED  BY <3>1
  <2>3. CASE S(scope) # {}
    <3>1. Best(found, scope) = <<Pick(scope)>>  BY <1>1, <2>3
    <3>2. Pick(scope) \in S(scope)  BY <1>2, <2>3
    <3>3. Pick(scope) \in DOMAIN found  BY <3>2
    <3> QED  BY <3>1, <3>2, <3>3
  <2> QED  BY <2>2, <2>3
<1>4. /\ a \in Seq(DOMAIN found) /\ Len(a) \in {0, 1} /\ (Len(a) = 1 => a[1] \in S("user"))
      /\ b \in Seq(DOMAIN found) /\ Len(b) \in {0, 1} /\ (Len(b) = 1 => b[1] \in S("group"))
  BY <1>3
<1> DEFINE ms == a \o b
<1>5. PriorityProfiles(found) = ms  BY DEF PriorityProfiles
<1> HIDE DEF a, b, S
<1>6. /\ ms \in Seq(DOMAIN found)
      /\ Len(ms) = Len(a) + Len(b)
      /\ \A i \in 1 .. Len(a) + Len(b) : ms[i] = IF i <= Len(a) THEN a[i] ELSE b[i - Len(a)]
  BY <1>4, ConcatProperties
<1> HIDE DEF ms
<1>7. \A i \in 1 .. Len(ms) : ms[i] \in DOMAIN found  BY <1>6
<1>8. ASSUME NEW i \in 1 .. Len(ms), NEW j \in 1 .. Len(ms), i < j PROVE ms[i] # ms[j]
  <2>1. i = 1 /\ j = 2 /\ Len(a) = 1 /\ Len(b) = 1  BY <1>4, <1>6, <1>8
  <2>2. ms[1] = a[1] /\ ms[2] = b[1]  BY <1>6, <2>1
  <2>3. a[1] \in S("user") /\ b[1] \in S("group")  BY <1>4, <2>1
  <2>4. S("user") \cap S("group") = {}  BY DEF S
  <2> QED  BY <2>1, <2>2, <2>3, <2>4
<1>9. \A i \in 1 .. Len(ms) : \A j \in 1 .. Len(ms) : i # j => ms[i] # ms[j]
  <2>1. ASSUME NEW i \in 1 .. Len(ms), NEW j \in 1 .. Len(ms), i # j PROVE ms[i] # ms[j]
    <3>1. i < j \/ j < i  BY <1>6, <2>1
    <3> QED  BY <1>8, <3>1
  <2> QED  BY <2>1
<1>10. Len(ms) \in Nat /\ DOMAIN ms = 1 .. Len(ms)  BY <1>6
<1> QED  BY <1>5, <1>7, <1>9, <1>10 DEF Range

\* An order of a finite set lists each of its elements once.
LEMMA OrderIs ==
    ASSUME NEW S, IsFiniteSet(S), NEW ms \in SetToSeqs(S)
    PROVE  /\ Len(ms) \in Nat
           /\ \A i \in 1 .. Len(ms) : /\ ms[i] \in S
                                      /\ \A j \in 1 .. Len(ms) : i # j => ms[i] # ms[j]
           /\ {ms[i] : i \in 1 .. Len(ms)} = S
<1> DEFINE n == Cardinality(S)
           D == 1 .. n
<1>1. ms \in [D -> S] /\ \A i, j \in D : i # j => ms[i] # ms[j]  BY DEF SetToSeqs
<1>2. n \in Nat  BY FS_CardinalityType
<1> HIDE DEF n
<1>3. Len(ms) = n /\ DOMAIN ms = D  BY <1>1, <1>2
<1>4. ms \in Injection(D, S)  BY <1>1 DEF Injection, IsInjective
<1>5. Cardinality(D) = Cardinality(S)
  <2>1. Cardinality(D) = n  BY <1>2, FS_Interval
  <2> QED  BY <2>1 DEF n
<1>6. ms \in Surjection(D, S)
  <2> HIDE DEF D
  <2> QED  BY <1>4, <1>5, FS_Injection
<1>7. \A x \in S : \E i \in D : ms[i] = x  BY <1>6 DEF Surjection
<1>8. {ms[i] : i \in D} = S  BY <1>1, <1>7
<1> QED  BY <1>1, <1>2, <1>3, <1>8

\* A pack fits, holds what it must, gives every memory one verdict, and
\* leaves none out that would have fitted.
LEMMA PacksSound ==
    ASSUME NEW ask, AskOK(ask), NEW found, FoundOK(found),
           ask.current \in DOMAIN ask.messages,
           ask.quote \in DOMAIN ask.messages \cup {0},
           NEW ranked \in SetToSeqs(DOMAIN found \ Range(PriorityProfiles(found))),
           NEW p \in Packs(ask, found, ranked)
    PROVE  /\ GoodPack(ask, found, p)
           /\ p.told \cup p.dropped = DOMAIN found
           /\ {ask.current} \cup ({ask.quote} \ {0}) \subseteq DOMAIN p.kept
           /\ \A i \in DOMAIN p.kept \ {ask.current, ask.quote} :
                \A j \in DOMAIN ask.messages \ {ask.current, ask.quote} :
                    j > i => j \in DOMAIN p.kept
<1> DEFINE is == {ask.current} \cup ({ask.quote} \ {0})
           profiles == PriorityProfiles(found)
           rest == DOMAIN found \ Range(profiles)
           told(q) == TellAll(ask, found, q, profiles)
           kept(q) == KeepRecent(ask, found, told(q))
<1>1. PICK c : /\ Fits(ask, found, Nothing)
               /\ c \in KeepCurrent(ask, found, Nothing)
               /\ \E q \in KeepQuote(ask, found, c) : p = TellAll(ask, found, kept(q), ranked)
  <2> DEFINE C == IF Fits(ask, found, Nothing) THEN KeepCurrent(ask, found, Nothing) ELSE {}
             R == UNION {KeepQuote(ask, found, d) : d \in C}
  <2>1. Packs(ask, found, ranked) = {TellAll(ask, found, kept(q), ranked) : q \in R}
    BY DEF Packs
  <2> HIDE DEF kept
  <2>2. PICK q \in R : p = TellAll(ask, found, kept(q), ranked)  BY <2>1
  <2>3. PICK d \in C : q \in KeepQuote(ask, found, d)  BY <2>2
  <2>4. Fits(ask, found, Nothing) /\ d \in KeepCurrent(ask, found, Nothing)  BY <2>3
  <2> QED  BY <2>2, <2>3, <2>4
<1>2. PICK q \in KeepQuote(ask, found, c) : p = TellAll(ask, found, kept(q), ranked)  BY <1>1
<1>3. Required(ask, found, c, {ask.current})  BY <1>1, KeepCurrentSound
<1>4. Required(ask, found, q, is)  BY <1>2, <1>3, KeepQuoteSound
<1>5. GoodPack(ask, found, q) /\ DOMAIN q.kept = is /\ q.told = {} /\ q.dropped = {}
  BY <1>4 DEF GoodPack, Required
<1> DEFINE t == told(q)
           k == kept(q)
           P == {profiles[i] : i \in 1 .. Len(profiles)}
           K == {ranked[i] : i \in 1 .. Len(ranked)}
<1> HIDE DEF profiles
<1>6. /\ Len(profiles) \in Nat
      /\ \A i \in 1 .. Len(profiles) : /\ profiles[i] \in DOMAIN found
                                       /\ \A j \in 1 .. Len(profiles) : i # j => profiles[i] # profiles[j]
      /\ Range(profiles) = P
  BY ProfilesAre DEF profiles
<1>7. /\ GoodPack(ask, found, t) /\ t.kept = q.kept /\ t.told \cup t.dropped = P
  <2>1. \A i \in 1 .. Len(profiles) : /\ profiles[i] \in DOMAIN found \ (q.told \cup q.dropped)
                                      /\ \A j \in 1 .. Len(profiles) : i # j => profiles[i] # profiles[j]
    BY <1>5, <1>6
  <2>2. LET u == TellAll(ask, found, q, profiles)
        IN  /\ GoodPack(ask, found, u)
            /\ u.kept = q.kept
            /\ u.told \cup u.dropped = q.told \cup q.dropped \cup {profiles[i] : i \in 1 .. Len(profiles)}
    BY <1>5, <1>6, <2>1, TellAllSound
  <2> QED  BY <1>5, <2>2
<1> HIDE DEF t, told
<1>8. /\ GoodPack(ask, found, k)
      /\ k.told = t.told /\ k.dropped = t.dropped
      /\ DOMAIN t.kept \subseteq DOMAIN k.kept
      /\ \A i \in DOMAIN k.kept \ DOMAIN t.kept :
           \A j \in DOMAIN ask.messages \ {ask.current, ask.quote} :
               j > i => j \in DOMAIN k.kept
  BY <1>7, KeepRecentSound DEF t
<1> HIDE DEF k, kept
<1>9. /\ Len(ranked) \in Nat
      /\ \A i \in 1 .. Len(ranked) : /\ ranked[i] \in rest
                                     /\ \A j \in 1 .. Len(ranked) : i # j => ranked[i] # ranked[j]
      /\ K = rest
  <2>1. IsFiniteSet(rest)  BY FS_Subset DEF FoundOK
  <2>2. ranked \in SetToSeqs(rest)  BY DEF profiles
  <2> HIDE DEF rest
  <2> QED  BY <2>1, <2>2, OrderIs
<1>10. /\ GoodPack(ask, found, p) /\ p.kept = k.kept
       /\ p.told \cup p.dropped = k.told \cup k.dropped \cup K
  <2>1. p = TellAll(ask, found, k, ranked)  BY <1>2 DEF k
  <2>2. \A i \in 1 .. Len(ranked) : /\ ranked[i] \in DOMAIN found \ (k.told \cup k.dropped)
                                    /\ \A j \in 1 .. Len(ranked) : i # j => ranked[i] # ranked[j]
    BY <1>6, <1>7, <1>8, <1>9
  <2>3. LET u == TellAll(ask, found, k, ranked)
        IN  /\ GoodPack(ask, found, u)
            /\ u.kept = k.kept
            /\ u.told \cup u.dropped = k.told \cup k.dropped \cup {ranked[i] : i \in 1 .. Len(ranked)}
    BY <1>8, <1>9, <2>2, TellAllSound
  <2> QED  BY <2>1, <2>3
<1>11. p.told \cup p.dropped = DOMAIN found
  <2>1. P \subseteq DOMAIN found  BY <1>6
  <2> QED  BY <1>6, <1>7, <1>8, <1>9, <1>10, <2>1
<1>12. DOMAIN t.kept = is  BY <1>5, <1>7
<1>13. is \subseteq DOMAIN p.kept  BY <1>8, <1>10, <1>12
<1>14. \A i \in DOMAIN p.kept \ {ask.current, ask.quote} :
         \A j \in DOMAIN ask.messages \ {ask.current, ask.quote} : j > i => j \in DOMAIN p.kept
  BY <1>8, <1>10, <1>12
<1> QED  BY <1>10, <1>11, <1>13, <1>14

(***************************************************************************)
(* The conversation and the store.                                          *)
(***************************************************************************)

\* What a scene is once its store is out of it.
SceneInv ==
    /\ scene.conv # None
    /\ InGroup => scene.group # None
    /\ scene.chat \in Seq(Range(scene.chat))
    /\ \A m \in Range(scene.chat) \cup {scene.current} : IsChatMessage(m)
    /\ scene.current.conv = scene.conv

StoreInv ==
    /\ mem = [m \in Memory |-> mem[m]]
    /\ \A m \in Memory : IsMemory(mem[m])

\* A behaviour starts in a scene whose records are well owned.
LEMMA SceneInit ==
    ContextInit => SceneInv /\ StoreInv
<1> SUFFICES ASSUME ContextInit PROVE SceneInv /\ StoreInv
  OBVIOUS
<1>1. PICK s \in Scenes : scene = [s EXCEPT !.corpus = None] /\ mem = s.corpus
  BY DEF ContextInit
<1>2. IsScene(s)  BY ContextAssumption
<1>3. PICK ty, us, gr, co, re, ch, cu, cp :
        s = [type |-> ty, user |-> us, group |-> gr, conv |-> co,
             replyTo |-> re, chat |-> ch, current |-> cu, corpus |-> cp]
  BY <1>2, Zenon DEF IsScene
<1>4. /\ scene.type = s.type /\ scene.group = s.group /\ scene.conv = s.conv
      /\ scene.chat = s.chat /\ scene.current = s.current
  BY <1>1, <1>3
<1>5. SceneInv  BY <1>2, <1>4 DEF IsScene, SceneInv, InGroup
<1>6. StoreInv  BY <1>1, <1>2 DEF IsScene, StoreInv
<1> QED  BY <1>5, <1>6

\* The fields of a memory record.
LEMMA FieldsOf ==
    ASSUME NEW sc, NEW vi, NEW us, NEW gr, NEW co, NEW ki, NEW sta, NEW rev, NEW si, NEW ma, NEW ne, NEW su,
           NEW r, r = [scope |-> sc, vis |-> vi, user |-> us, group |-> gr, conv |-> co, kind |-> ki,
                       state |-> sta, revision |-> rev, size |-> si, match |-> ma, near |-> ne, sure |-> su]
    PROVE  /\ r.scope = sc /\ r.vis = vi /\ r.user = us /\ r.group = gr /\ r.conv = co /\ r.kind = ki
           /\ r.state = sta /\ r.revision = rev /\ r.size = si /\ r.match = ma /\ r.near = ne /\ r.sure = su
OBVIOUS

\* A record with a new state and revision keeps what it is about.
LEMMA MovedIs ==
    ASSUME NEW r, IsMemory(r), r.state # "absent",
           NEW st, st \in States, st # "absent", NEW n, n \in Nat \ {0},
           NEW q, q = [r EXCEPT !.state = st, !.revision = n]
    PROVE  IsMemory(q)
<1>1. PICK sc, vi, us, gr, co, ki, sta, rev, si, ma, ne, su :
        r = [scope |-> sc, vis |-> vi, user |-> us, group |-> gr, conv |-> co, kind |-> ki,
             state |-> sta, revision |-> rev, size |-> si, match |-> ma, near |-> ne, sure |-> su]
  BY DEF IsMemory
<1>2. q = [scope |-> sc, vis |-> vi, user |-> us, group |-> gr, conv |-> co, kind |-> ki,
           state |-> st, revision |-> n, size |-> si, match |-> ma, near |-> ne, sure |-> su]
  BY <1>1
<1>4. WellOwned(q)
  <2>1. WellOwned(r)  BY DEF IsMemory
  <2> QED  BY <1>1, <1>2, <2>1 DEF WellOwned
<1>5. /\ q.vis \in Visibilities /\ q.size \in Nat /\ q.match \in Nat /\ q.sure \in Nat
  <2>1. /\ r.vis \in Visibilities /\ r.size \in Nat /\ r.match \in Nat /\ r.sure \in Nat
    BY Zenon DEF IsMemory
  <2>2. q.vis = r.vis /\ q.size = r.size /\ q.match = r.match /\ q.sure = r.sure
    BY <1>1, <1>2
  <2> QED  BY <2>1, <2>2, Zenon
<1>8. q.state = st /\ q.revision = n  BY <1>2
<1>9. st # "absent" /\ st \in States  OBVIOUS
<1>6. q.state = st /\ q.revision = n /\ st # "absent" /\ st \in States  BY <1>8, <1>9
<1>7. q = [scope |-> q.scope, vis |-> q.vis, user |-> q.user, group |-> q.group,
           conv |-> q.conv, kind |-> q.kind, state |-> q.state, revision |-> q.revision,
           size |-> q.size, match |-> q.match, near |-> q.near, sure |-> q.sure]
  BY <1>2
<1> QED  BY <1>1, <1>4, <1>5, <1>6, <1>7 DEF IsMemory

\* A memory record with six of its fields changed.
LEMMA AskedIs ==
    ASSUME NEW sc, NEW vi, NEW us, NEW gr, NEW co, NEW ki, NEW sta, NEW rev, NEW si, NEW ma, NEW ne, NEW su,
           NEW r, r = [scope |-> sc, vis |-> vi, user |-> us, group |-> gr, conv |-> co, kind |-> ki,
                state |-> sta, revision |-> rev, size |-> si, match |-> ma, near |-> ne, sure |-> su],
           NEW a, NEW b, NEW c, NEW d, NEW e, NEW f
    PROVE  [r EXCEPT !.scope = a, !.state = b, !.kind = c, !.vis = d, !.user = e, !.group = f]
             = [scope |-> a, vis |-> d, user |-> e, group |-> f, conv |-> co, kind |-> c,
                state |-> b, revision |-> rev, size |-> si, match |-> ma, near |-> ne, sure |-> su]
<1> DEFINE x1 == [r EXCEPT !.scope = a]
<1>1. x1 = [scope |-> a, vis |-> vi, user |-> us, group |-> gr, conv |-> co, kind |-> ki,
            state |-> sta, revision |-> rev, size |-> si, match |-> ma, near |-> ne, sure |-> su]
  OBVIOUS
<1> HIDE DEF x1
<1> DEFINE x2 == [x1 EXCEPT !.state = b]
<1>2. x2 = [scope |-> a, vis |-> vi, user |-> us, group |-> gr, conv |-> co, kind |-> ki,
            state |-> b, revision |-> rev, size |-> si, match |-> ma, near |-> ne, sure |-> su]
  BY <1>1
<1> HIDE DEF x2
<1> DEFINE x3 == [x2 EXCEPT !.kind = c]
<1>3. x3 = [scope |-> a, vis |-> vi, user |-> us, group |-> gr, conv |-> co, kind |-> c,
            state |-> b, revision |-> rev, size |-> si, match |-> ma, near |-> ne, sure |-> su]
  BY <1>2
<1> HIDE DEF x3
<1> DEFINE x4 == [x3 EXCEPT !.vis = d]
<1>4. x4 = [scope |-> a, vis |-> d, user |-> us, group |-> gr, conv |-> co, kind |-> c,
            state |-> b, revision |-> rev, size |-> si, match |-> ma, near |-> ne, sure |-> su]
  BY <1>3
<1> HIDE DEF x4
<1> DEFINE x5 == [x4 EXCEPT !.user = e]
<1>5. x5 = [scope |-> a, vis |-> d, user |-> e, group |-> gr, conv |-> co, kind |-> c,
            state |-> b, revision |-> rev, size |-> si, match |-> ma, near |-> ne, sure |-> su]
  BY <1>4
<1> HIDE DEF x5
<1> DEFINE x6 == [x5 EXCEPT !.group = f]
<1>6. x6 = [scope |-> a, vis |-> d, user |-> e, group |-> f, conv |-> co, kind |-> c,
            state |-> b, revision |-> rev, size |-> si, match |-> ma, near |-> ne, sure |-> su]
  BY <1>5
<1> HIDE DEF x6
<1> QED  BY <1>6 DEF x1, x2, x3, x4, x5, x6

\* The memory a tool call asks for, as it is created.
LEMMA ProposedIs ==
    ASSUME StoreInv, tool.memory \in Memory, NEW scope \in {"user", "group"},
           NEW vis \in Visibilities, WellOwned(Proposed(scope, vis))
    PROVE  /\ IsMemory(Proposed(scope, vis))
           /\ Proposed(scope, vis).state = "proposed"
           /\ Proposed(scope, vis).revision = 1
           /\ Proposed(scope, vis).scope = scope
           /\ Proposed(scope, vis).vis = SafeVisibility(scope, vis)
           /\ Proposed(scope, vis).user = IF scope = "user" THEN scene.user ELSE None
<1> DEFINE r == mem[tool.memory]
           q == Proposed(scope, vis)
           safe == SafeVisibility(scope, vis)
           usr == IF scope = "user" THEN scene.user ELSE None
           grp == IF scope = "group" \/ safe = "same_group_only" THEN scene.group ELSE None
<1>1. PICK sc, vi, us, gr, co, ki, sta, rev, si, ma, ne, su :
        r = [scope |-> sc, vis |-> vi, user |-> us, group |-> gr, conv |-> co, kind |-> ki,
             state |-> sta, revision |-> rev, size |-> si, match |-> ma, near |-> ne, sure |-> su]
  <2>1. IsMemory(r)  BY Zenon DEF StoreInv
  <2> QED  BY <2>1, Zenon DEF IsMemory
<1>0. q = [[r EXCEPT !.scope = scope, !.state = "proposed", !.kind = "fact", !.vis = safe,
                     !.user = usr, !.group = grp] EXCEPT !.revision = 1]
  BY DEF Proposed, AskedFor
<1>s. safe \in Visibilities  BY DEF SafeVisibility, Visibilities
<1> HIDE DEF safe, usr, grp, q, r
<1> DEFINE asked == [r EXCEPT !.scope = scope, !.state = "proposed", !.kind = "fact", !.vis = safe,
                     !.user = usr, !.group = grp]
<1>a. asked = [scope |-> scope, vis |-> safe, user |-> usr, group |-> grp, conv |-> co, kind |-> "fact",
           state |-> "proposed", revision |-> rev, size |-> si, match |-> ma, near |-> ne, sure |-> su]
  <2> DEFINE fact == "fact"
             proposed == "proposed"
  <2>1. asked = [r EXCEPT !.scope = scope, !.state = proposed, !.kind = fact, !.vis = safe,
                          !.user = usr, !.group = grp]
    OBVIOUS
  <2> HIDE DEF asked, fact, proposed
  <2>2. asked = [scope |-> scope, vis |-> safe, user |-> usr, group |-> grp, conv |-> co, kind |-> fact,
                 state |-> proposed, revision |-> rev, size |-> si, match |-> ma, near |-> ne, sure |-> su]
    BY <1>1, <2>1, AskedIs
  <2> QED  BY <2>2 DEF fact, proposed
<1>b. q = [asked EXCEPT !.revision = 1]  BY <1>0
<1> HIDE DEF asked
<1>2. q = [scope |-> scope, vis |-> safe, user |-> usr, group |-> grp, conv |-> co, kind |-> "fact",
           state |-> "proposed", revision |-> 1, size |-> si, match |-> ma, near |-> ne, sure |-> su]
  BY <1>a, <1>b
<1>3. si \in Nat /\ ma \in Nat /\ su \in Nat
  <2>1. r.size \in Nat /\ r.match \in Nat /\ r.sure \in Nat  BY Zenon DEF StoreInv, IsMemory, r
  <2> QED  BY <1>1, <2>1
<1>4. q = [scope |-> q.scope, vis |-> q.vis, user |-> q.user, group |-> q.group,
           conv |-> q.conv, kind |-> q.kind, state |-> q.state, revision |-> q.revision,
           size |-> q.size, match |-> q.match, near |-> q.near, sure |-> q.sure]
  BY <1>2
<1>5. /\ q.vis = safe /\ q.size = si /\ q.match = ma /\ q.sure = su /\ q.state = "proposed"
      /\ q.revision = 1 /\ q.scope = scope /\ q.user = usr
  BY <1>2
<1>6. WellOwned(q)  BY DEF q
<1>7. IsMemory(q)  BY <1>3, <1>4, <1>5, <1>6, <1>s DEF IsMemory, States
<1> QED  BY <1>5, <1>7 DEF q, safe, usr

(***************************************************************************)
(* What the routes, the search and the index return.                        *)
(***************************************************************************)

\* A route asks for what its conversation owns, or for what is global.
RouteOK(f) ==
    \/ scene.user # None /\ f.user = scene.user
    \/ f.scope = "conversation" /\ f.conv = scene.conv
    \/ InGroup /\ f.scope = "group" /\ f.group = scene.group /\ f.context
    \/ f.scope = "global"

\* A query of the search tool has nothing else.
SearchOK(f) ==
    /\ RouteOK(f) /\ f.context
    /\ f.group \in {None, scene.group} /\ f.conv \in {None, scene.conv}

\* Whatever a route returns belongs to the conversation, or to everyone.
LEMMA OwnersAsked ==
    ASSUME SceneInv, NEW f, RouteOK(f), NEW r, WellOwned(r), Matches(r, f),
           r.vis \in Visibilities
    PROVE  /\ r.state = "active"
           /\ \/ r.scope = "user" /\ r.user = scene.user
              \/ r.scope = "group" /\ InGroup /\ r.group = scene.group
              \/ r.scope = "conversation" /\ r.conv = scene.conv
              \/ r.scope = "global"
           /\ GroupSummary(r) => r.group \in policy
<1>0. None \notin {"user", "group", "conversation", "global"}  BY ContextAssumption
<1>1. r.state = "active"  BY DEF Matches
<1>2. CASE scene.user # None /\ f.user = scene.user
  <2>1. r.user = scene.user /\ r.user # None  BY <1>2 DEF Matches
  <2>2. r.scope = "user"  BY <2>1 DEF WellOwned
  <2> QED  BY <1>1, <2>1, <2>2 DEF GroupSummary
<1>3. CASE f.scope = "conversation" /\ f.conv = scene.conv
  <2>1. r.scope = "conversation" /\ r.conv = scene.conv  BY <1>0, <1>3 DEF Matches, SceneInv
  <2> QED  BY <1>1, <2>1 DEF GroupSummary
<1>4. CASE InGroup /\ f.scope = "group" /\ f.group = scene.group /\ f.context
  <2>1. r.scope = "group" /\ r.group = scene.group  BY <1>0, <1>4 DEF Matches, SceneInv
  <2>2. GroupSummary(r) => r.group \in policy  BY <1>4 DEF Matches, PolicyAllows
  <2> QED  BY <1>1, <1>4, <2>1, <2>2
<1>5. CASE f.scope = "global"
  <2>1. r.scope = "global"  BY <1>0, <1>5 DEF Matches
  <2> QED  BY <1>1, <2>1 DEF GroupSummary
<1> QED  BY <1>2, <1>3, <1>4, <1>5 DEF RouteOK

\* What a route returns and no filter rejects may be told.
LEMMA RouteTellable ==
    ASSUME SceneInv, NEW f, RouteOK(f), NEW r, IsMemory(r), Matches(r, f), ~Rejected(r)
    PROVE  Tellable(r)
<1>1. r.vis \in Visibilities  BY Zenon DEF IsMemory
<1>2. WellOwned(r)
  <2>1. r.state = "active"  BY DEF Matches
  <2> QED  BY <2>1 DEF IsMemory
<1>3. /\ r.state = "active"
      /\ \/ r.scope = "user" /\ r.user = scene.user
         \/ r.scope = "group" /\ InGroup /\ r.group = scene.group
         \/ r.scope = "conversation" /\ r.conv = scene.conv
         \/ r.scope = "global"
      /\ GroupSummary(r) => r.group \in policy
  BY <1>1, <1>2, OwnersAsked
<1>4. CASE r.scope = "user" /\ r.user = scene.user  BY <1>1, <1>3, <1>4 DEF Rejected, Tellable, Visibilities
<1>5. CASE r.scope = "group" /\ InGroup /\ r.group = scene.group
  BY <1>1, <1>3, <1>5 DEF Rejected, Tellable, Visibilities
<1>6. CASE r.scope = "conversation" /\ r.conv = scene.conv
  BY <1>1, <1>3, <1>6 DEF Rejected, Tellable, Visibilities
<1>7. CASE r.scope = "global"  BY <1>1, <1>3, <1>7 DEF Rejected, Tellable, Visibilities
<1> QED  BY <1>3, <1>4, <1>5, <1>6, <1>7

\* What a query of the search tool returns may be told as it is.
LEMMA SearchTellable ==
    ASSUME SceneInv, NEW f, SearchOK(f), NEW r, IsMemory(r), Matches(r, f)
    PROVE  Tellable(r)
<1>1. r.vis \in Visibilities  BY Zenon DEF IsMemory
<1>2. WellOwned(r)
  <2>1. r.state = "active"  BY DEF Matches
  <2> QED  BY <2>1 DEF IsMemory
<1>3. /\ r.state = "active"
      /\ \/ r.scope = "user" /\ r.user = scene.user
         \/ r.scope = "group" /\ InGroup /\ r.group = scene.group
         \/ r.scope = "conversation" /\ r.conv = scene.conv
         \/ r.scope = "global"
      /\ GroupSummary(r) => r.group \in policy
  BY <1>1, <1>2, OwnersAsked DEF SearchOK
<1>s. /\ r.vis \in {"same_user_any_context", "public", "private_only", "same_group_only"}
      /\ r.vis = "private_only" => ~InGroup
      /\ r.vis = "same_group_only" => InGroup /\ (r.group = scene.group \/ r.conv = scene.conv)
  BY <1>1 DEF SearchOK, Matches, Visible, Visibilities
<1>4. CASE r.scope = "user" /\ r.user = scene.user  BY <1>s, <1>3, <1>4 DEF Tellable
<1>5. CASE r.scope = "group" /\ InGroup /\ r.group = scene.group  BY <1>s, <1>3, <1>5 DEF Tellable
<1>6. CASE r.scope = "conversation" /\ r.conv = scene.conv  BY <1>s, <1>3, <1>6 DEF Tellable
<1>7. CASE r.scope = "global"  BY <1>s, <1>3, <1>7 DEF Tellable
<1> QED  BY <1>3, <1>4, <1>5, <1>6, <1>7

\* What the index matches may be told.
LEMMA MatchTellable ==
    ASSUME NEW r, IsMemory(r), Eligible(r), InContext(r)
    PROVE  Tellable(r)
<1>1. r.vis \in Visibilities  BY Zenon DEF IsMemory
<1>s. /\ r.vis \in {"same_user_any_context", "public", "private_only", "same_group_only"}
      /\ r.vis = "private_only" => ~InGroup
      /\ r.vis = "same_group_only" => InGroup /\ (r.group = scene.group \/ r.conv = scene.conv)
  BY <1>1 DEF InContext, Eligible, Visible, Visibilities, Filter
<1>3. /\ r.state = "active"
      /\ GroupSummary(r) => r.group \in policy
      /\ \/ r.scope = "user" /\ r.user = scene.user
         \/ r.scope = "group" /\ InGroup /\ r.group = scene.group
         \/ r.scope = "conversation" /\ r.conv = scene.conv
         \/ r.scope = "global"
  BY DEF Eligible, InContext
<1>4. CASE r.scope = "user" /\ r.user = scene.user  BY <1>s, <1>3, <1>4 DEF Tellable
<1>5. CASE r.scope = "group" /\ InGroup /\ r.group = scene.group  BY <1>s, <1>3, <1>5 DEF Tellable
<1>6. CASE r.scope = "conversation" /\ r.conv = scene.conv  BY <1>s, <1>3, <1>6 DEF Tellable
<1>7. CASE r.scope = "global"  BY <1>s, <1>3, <1>7 DEF Tellable
<1> QED  BY <1>3, <1>4, <1>5, <1>6, <1>7

\* Two lists of routes make one.
LEMMA Joined ==
    ASSUME NEW S, NEW s \in Seq(S), NEW t \in Seq(S)
    PROVE  s \o t \in Seq(S)
BY ConcatProperties

\* Every route of a build asks for what may be asked for.
LEMMA RoutesAre ==
    /\ Len(Routes) \in Nat
    /\ \A i \in 1 .. Len(Routes) : RouteOK(Routes[i])
<1> DEFINE u == scene.user
           g == scene.group
           c == scene.conv
           a1 == Filter(u, None, None, None, TRUE)
           a2 == Filter(u, None, g, None, TRUE)
           a3 == Filter(u, None, None, c, TRUE)
           a4 == Filter(u, None, None, None, FALSE)
           a5 == Filter(None, "conversation", None, c, TRUE)
           a6 == Filter(None, "group", g, None, TRUE)
           a7 == Filter(None, "global", None, None, TRUE)
           a8 == Filter(None, "global", g, None, TRUE)
           a9 == Filter(None, "global", None, c, TRUE)
           a0 == Filter(None, "global", None, None, FALSE)
           S == {f \in {a1, a2, a3, a4, a5, a6, a7, a8, a9, a0} : RouteOK(f)}
           s2 == IF InGroup THEN <<a2>> ELSE <<>>
           s6 == IF InGroup THEN <<a6>> ELSE <<>>
           s8 == IF InGroup THEN <<a8>> ELSE <<>>
           ofUser == <<a1>> \o s2 \o <<a3, a4>>
           s1 == IF u = None THEN <<>> ELSE ofUser
           all == s1 \o <<a5>> \o s6 \o <<a7>> \o s8 \o <<a9, a0>>
<1>1. Routes = all  BY DEF Routes
<1>2. u # None => a1 \in S /\ a2 \in S /\ a3 \in S /\ a4 \in S  BY DEF Filter, RouteOK
<1>3. a5 \in S /\ a7 \in S /\ a8 \in S /\ a9 \in S /\ a0 \in S  BY DEF Filter, RouteOK
<1>4. InGroup => a6 \in S  BY DEF Filter, RouteOK
<1> HIDE DEF a1, a2, a3, a4, a5, a6, a7, a8, a9, a0, S, u, g, c
<1>5. /\ u # None => <<a1>> \in Seq(S) /\ s2 \in Seq(S) /\ <<a3, a4>> \in Seq(S)
      /\ <<a5>> \in Seq(S) /\ s6 \in Seq(S) /\ <<a7>> \in Seq(S) /\ s8 \in Seq(S) /\ <<a9, a0>> \in Seq(S)
  BY <1>2, <1>3, <1>4
<1> HIDE DEF s2, s6, s8
<1>6. s1 \in Seq(S)
  <2>1. CASE u = None  BY <2>1
  <2>2. CASE u # None
    <3>1. <<a1>> \o s2 \in Seq(S)  BY <1>5, <2>2, Joined
    <3>2. ofUser \in Seq(S)
      <4> DEFINE x == <<a1>> \o s2
                 y == <<a3, a4>>
      <4>1. x \in Seq(S) /\ y \in Seq(S)  BY <1>5, <2>2, <3>1
      <4> HIDE DEF x, y
      <4>2. x \o y \in Seq(S)  BY <4>1, Joined
      <4> QED  BY <4>2 DEF x, y
    <3> HIDE DEF ofUser
    <3> QED  BY <2>2, <3>2
  <2> QED  BY <2>1, <2>2
<1> HIDE DEF s1, ofUser
<1>7. all \in Seq(S)
  <2> DEFINE x5 == <<a5>>
             x7 == <<a7>>
             x9 == <<a9, a0>>
             y1 == s1 \o x5
             y2 == y1 \o s6
             y3 == y2 \o x7
             y4 == y3 \o s8
             y5 == y4 \o x9
  <2>0. x5 \in Seq(S) /\ x7 \in Seq(S) /\ x9 \in Seq(S)  BY <1>5
  <2>1. all = y5  OBVIOUS
  <2> HIDE DEF x5, x7, x9, all
  <2>2. y1 \in Seq(S)  BY <2>0, <1>6, Joined
  <2> HIDE DEF y1
  <2>3. y2 \in Seq(S)  BY <2>2, <1>5, Joined
  <2> HIDE DEF y2
  <2>4. y3 \in Seq(S)  BY <2>3, <2>0, Joined
  <2> HIDE DEF y3
  <2>5. y4 \in Seq(S)  BY <2>4, <1>5, Joined
  <2> HIDE DEF y4
  <2>6. y5 \in Seq(S)  BY <2>5, <2>0, Joined
  <2> HIDE DEF y5
  <2> QED  BY <2>1, <2>6
<1> HIDE DEF all
<1>8. Len(all) \in Nat /\ \A i \in 1 .. Len(all) : all[i] \in S  BY <1>7
<1>9. \A f \in S : RouteOK(f)  BY DEF S
<1> QED  BY <1>1, <1>8, <1>9

\* So does every query of the search tool.
LEMMA SearchRoutesAre ==
    /\ Len(SearchRoutes) \in Nat
    /\ \A i \in 1 .. Len(SearchRoutes) : SearchOK(SearchRoutes[i])
<1> DEFINE u == scene.user
           g == scene.group
           a1 == Filter(u, None, None, None, TRUE)
           a2 == Filter(u, None, g, None, TRUE)
           a6 == Filter(None, "group", g, None, TRUE)
           a7 == Filter(None, "global", None, None, TRUE)
           S == {f \in {a1, a2, a6, a7} : SearchOK(f)}
           s2 == IF InGroup THEN <<a2, a6>> ELSE <<>>
           all == IF u = None THEN <<>> ELSE <<a1>> \o s2 \o <<a7>>
<1>1. SearchRoutes = all  BY DEF SearchRoutes
<1>2. u # None => a1 \in S /\ a2 \in S  BY DEF Filter, RouteOK, SearchOK
<1>3. a7 \in S  BY DEF Filter, RouteOK, SearchOK
<1>4. InGroup => a6 \in S  BY DEF Filter, RouteOK, SearchOK
<1>7. all \in Seq(S)
  <2>1. CASE u = None  BY <2>1
  <2>2. CASE u # None
    <3> DEFINE x1 == <<a1>>
               x7 == <<a7>>
               y1 == x1 \o s2
               y2 == y1 \o x7
    <3>0. all = y2  BY <2>2
    <3>1. x1 \in Seq(S) /\ s2 \in Seq(S) /\ x7 \in Seq(S)
      <4> HIDE DEF S, a1, a2, a6, a7, u
      <4> QED  BY <1>2, <1>3, <1>4, <2>2
    <3> HIDE DEF x1, x7, s2, all, S
    <3>2. y1 \in Seq(S)  BY <3>1, Joined
    <3> HIDE DEF y1
    <3>3. y2 \in Seq(S)  BY <3>1, <3>2, Joined
    <3> HIDE DEF y2
    <3> QED  BY <3>0, <3>3
  <2> QED  BY <2>1, <2>2
<1> HIDE DEF all
<1>8. Len(all) \in Nat /\ \A i \in 1 .. Len(all) : all[i] \in S
  <2> HIDE DEF S
  <2> QED  BY <1>7
<1>9. \A f \in S : SearchOK(f)  OBVIOUS
<1> HIDE DEF S
<1> QED  BY <1>1, <1>8, <1>9

(***************************************************************************)
(* The store, as the tools and the other process change it.                 *)
(***************************************************************************)

ToolInv ==
    /\ tool = [at |-> tool.at, call |-> tool.call, memory |-> tool.memory, vis |-> tool.vis]
    /\ tool.at \in {"idle", "review", "prepared", "over"}
    /\ tool.at \in {"review", "prepared"} =>
         \/ tool.call = "disable" /\ tool.memory \in Stored
         \/ tool.call \in {"user", "group"} /\ tool.memory \in Memory \ Stored
              /\ tool.vis \in Visibilities
    /\ tool.at = "prepared" /\ tool.call # "disable" =>
         scene.user # None /\ WellOwned(Proposed(tool.call, tool.vis))

\* Records come and never go, and their revisions grow.
Grows ==
    /\ Stored \subseteq Stored'
    /\ \A m \in Memory : mem[m].revision <= mem'[m].revision

\* Revisions are numbers.
LEMMA RevisionIs ==
    ASSUME StoreInv
    PROVE  \A m \in Memory : mem[m].revision \in Nat
<1>1. SUFFICES ASSUME NEW m \in Memory PROVE mem[m].revision \in Nat
  OBVIOUS
<1>2. mem[m].revision \in IF mem[m].state = "absent" THEN {0} ELSE Nat \ {0}
  BY Zenon DEF StoreInv, IsMemory
<1> QED  BY <1>2

\* A step that leaves the records alone keeps the store.
LEMMA StoreStays ==
    ASSUME StoreInv, UNCHANGED mem
    PROVE  StoreInv' /\ Stored' = Stored /\ Grows
<1>1. StoreInv'  BY DEF StoreInv
<1>2. Stored' = Stored  BY DEF Stored
<1>3. \A m \in Memory : mem[m].revision <= mem'[m].revision  BY RevisionIs
<1> QED  BY <1>1, <1>2, <1>3 DEF Grows

\* One record is replaced.
LEMMA Replaced ==
    ASSUME StoreInv, NEW m \in Memory, NEW q, IsMemory(q),
           mem[m].revision <= q.revision, q.state # "absent",
           mem' = [mem EXCEPT ![m] = q]
    PROVE  /\ StoreInv' /\ Grows
           /\ Stored' = Stored \cup {m}
           /\ mem'[m] = q /\ \A n \in Memory \ {m} : mem'[n] = mem[n]
<1>1. mem' = [n \in Memory |-> IF n = m THEN q ELSE mem[n]]  BY DEF StoreInv
<1>2. mem'[m] = q /\ \A n \in Memory \ {m} : mem'[n] = mem[n]  BY <1>1
<1>3. \A n \in Memory : IsMemory(mem'[n])
  <2>1. \A n \in Memory : IsMemory(mem[n])  BY Zenon DEF StoreInv
  <2> QED  BY <1>2, <2>1, Zenon
<1>4. mem' = [n \in Memory |-> mem'[n]]  BY <1>1
<1>5. StoreInv'  BY <1>3, <1>4, Zenon DEF StoreInv
<1>6. Stored' = Stored \cup {m}  BY <1>2 DEF Stored
<1>7. \A n \in Memory : mem[n].revision <= mem'[n].revision  BY <1>2, RevisionIs
<1> QED  BY <1>2, <1>5, <1>6, <1>7 DEF Grows

\* A record that moves to another state replaces itself.
LEMMA InStateMoves ==
    ASSUME StoreInv, NEW m \in Stored, NEW st, st \in States, st # "absent",
           mem' = [mem EXCEPT ![m] = InState(mem[m], st)]
    PROVE  /\ StoreInv' /\ Grows /\ Stored' = Stored
           /\ mem'[m].state = st
           /\ \A n \in Memory \ {m} : mem'[n] = mem[n]
<1> DEFINE r == mem[m]
           n == r.revision + 1
           q == InState(r, st)
<1>2. m \in Memory /\ r.state # "absent" /\ IsMemory(r)
  <2>1. m \in Memory /\ r.state # "absent"  BY DEF Stored
  <2> QED  BY <2>1, Zenon DEF StoreInv
<1>5. IsMemory(q) /\ q.state = st /\ q.revision = n
  <2>1. q = [r EXCEPT !.state = st, !.revision = n]  BY DEF InState
  <2> HIDE DEF q, n, r
  <2>2. n \in Nat \ {0}  BY <1>2, RevisionIs DEF n, r
  <2>3. IsMemory(q)  BY <1>2, <2>1, <2>2, MovedIs
  <2>6. PICK sc, vi, us, gr, co, ki, sta, rev, si, ma, ne, su :
        r = [scope |-> sc, vis |-> vi, user |-> us, group |-> gr, conv |-> co, kind |-> ki,
             state |-> sta, revision |-> rev, size |-> si, match |-> ma, near |-> ne, sure |-> su]
    BY <1>2 DEF IsMemory
  <2>4. q.state = st /\ q.revision = n  BY <2>1, <2>6
  <2> QED  BY <2>3, <2>4
<1>6. r.revision <= q.revision
  <2>1. r.revision \in Nat  BY <1>2, RevisionIs
  <2> HIDE DEF q
  <2> QED  BY <1>5, <2>1
<1> HIDE DEF q, n
<1>4. mem' = [mem EXCEPT ![m] = q]  BY DEF q
<1>7. /\ StoreInv' /\ Grows /\ Stored' = Stored \cup {m} /\ mem'[m] = q
      /\ \A k \in Memory \ {m} : mem'[k] = mem[k]
  BY <1>2, <1>4, <1>5, <1>6, Replaced
<1> QED  BY <1>5, <1>7

\* The other process moves one record to another state, and creates none.
LEMMA GovernKeeps ==
    ASSUME StoreInv, GovernMemory
    PROVE  /\ StoreInv' /\ Grows /\ Stored' = Stored
           /\ \A n \in Memory \ Stored : mem'[n] = mem[n]
<1>1. PICK m \in Stored, t \in Transitions : mem' = [mem EXCEPT ![m] = InState(mem[m], t[2])]
  BY DEF GovernMemory
<1> DEFINE st == t[2]
<1>2. st \in States /\ st # "absent"  BY DEF Transitions, States
<1>4. mem' = [mem EXCEPT ![m] = InState(mem[m], st)]  BY <1>1
<1> HIDE DEF st
<1>5. StoreInv' /\ Grows /\ Stored' = Stored /\ \A n \in Memory \ {m} : mem'[n] = mem[n]
  BY <1>2, <1>4, InStateMoves
<1> QED  BY <1>5

\* A tool call changes the record its handler prepared for, or none.
LEMMA ToolCommitKeeps ==
    ASSUME StoreInv, ToolInv, CommitTool
    PROVE  /\ StoreInv' /\ Grows
           /\ mem' # mem =>
                \/ mem[tool.memory].state = "active" /\ mem'[tool.memory].state = "disabled"
                \/ /\ tool.call \in {"user", "group"} /\ tool.memory \in Memory \ Stored
                   /\ tool.vis \in Visibilities
                   /\ WellOwned(Proposed(tool.call, tool.vis)) /\ scene.user # None
                   /\ tool.call = "user" => scene.user \notin opted
                   /\ SourceFits(Proposed(tool.call, tool.vis))
                   /\ mem'[tool.memory] = Proposed(tool.call, tool.vis)
<1> DEFINE m == tool.memory
           q == Proposed(tool.call, tool.vis)
<1>1. CASE ~Applies
  <2>1. mem' = mem  BY <1>1 DEF CommitTool
  <2> QED  BY <2>1, StoreStays
<1>2. CASE Applies /\ tool.call = "disable"
  <2>1. m \in Stored
    <3>1. tool.at = "prepared"  BY DEF CommitTool
    <3>2. "disable" \notin {"user", "group"}  OBVIOUS
    <3> QED  BY <1>2, <3>1, <3>2, Zenon DEF ToolInv
  <2>4. mem[m].state = "active"  BY <1>2 DEF Applies
  <2> DEFINE st == "disabled"
  <2>5. mem' = [mem EXCEPT ![m] = InState(mem[m], st)]  BY <1>2 DEF CommitTool, Effect
  <2>2. st \in States /\ st # "absent"  BY DEF States
  <2> HIDE DEF st
  <2>6. StoreInv' /\ Grows /\ mem'[m].state = st  BY <2>1, <2>2, <2>5, InStateMoves
  <2> QED  BY <2>4, <2>6 DEF st
<1>3. CASE Applies /\ tool.call # "disable"
  <2>1. /\ tool.call \in {"user", "group"} /\ m \in Memory \ Stored /\ tool.vis \in Visibilities
        /\ scene.user # None /\ WellOwned(q)
    <3>1. tool.at = "prepared"  BY DEF CommitTool
    <3> QED  BY <1>3, <3>1, Zenon DEF ToolInv
  <2>2. mem' = [mem EXCEPT ![m] = q]  BY <1>3 DEF CommitTool, Effect
  <2>3. /\ IsMemory(q) /\ q.state = "proposed" /\ q.revision = 1
    <3> DEFINE a == tool.call
               b == tool.vis
    <3>1. a \in {"user", "group"} /\ b \in Visibilities /\ WellOwned(Proposed(a, b)) /\ tool.memory \in Memory
      BY <2>1
    <3> HIDE DEF a, b
    <3>2. /\ IsMemory(Proposed(a, b)) /\ Proposed(a, b).state = "proposed" /\ Proposed(a, b).revision = 1
      BY <3>1, ProposedIs
    <3> QED  BY <3>2 DEF a, b
  <2>4. mem[m].revision <= q.revision
    <3>1. mem[m].revision = 0
      <4>1. mem[m].state = "absent" /\ IsMemory(mem[m])  BY <2>1 DEF Stored, StoreInv
      <4>2. mem[m].revision \in IF mem[m].state = "absent" THEN {0} ELSE Nat \ {0}
        BY <4>1, Zenon DEF IsMemory
      <4> QED  BY <4>1, <4>2
    <3> QED  BY <2>3, <3>1
  <2>5. (tool.call = "user" => scene.user \notin opted) /\ SourceFits(q)
    BY <1>3 DEF Applies
  <2> HIDE DEF q
  <2>6. StoreInv' /\ Grows /\ mem'[m] = q  BY <2>1, <2>2, <2>3, <2>4, Replaced
  <2> QED  BY <2>1, <2>5, <2>6 DEF q
<1> QED  BY <1>1, <1>2, <1>3

\* A call waits unharmed while stored records move.
LEMMA ToolStays ==
    ASSUME ToolInv, tool' = tool, scene' = scene, Stored' = Stored,
           \A n \in Memory \ Stored : mem'[n] = mem[n]
    PROVE  ToolInv'
<1>1. /\ tool = [at |-> tool.at, call |-> tool.call, memory |-> tool.memory, vis |-> tool.vis]
      /\ tool.at \in {"idle", "review", "prepared", "over"}
      /\ tool.at \in {"review", "prepared"} =>
           \/ tool.call = "disable" /\ tool.memory \in Stored
           \/ tool.call \in {"user", "group"} /\ tool.memory \in Memory \ Stored
                /\ tool.vis \in Visibilities
      /\ tool.at = "prepared" /\ tool.call # "disable" =>
           scene.user # None /\ WellOwned(Proposed(tool.call, tool.vis))
  BY Zenon DEF ToolInv
<1>2. tool.at = "prepared" /\ tool.call # "disable" =>
         scene'.user # None /\ WellOwned(Proposed(tool.call, tool.vis))'
  <2>1. SUFFICES ASSUME tool.at = "prepared", tool.call # "disable"
                 PROVE  scene.user # None /\ WellOwned(Proposed(tool.call, tool.vis))'
    OBVIOUS
  <2>2. tool.memory \in Memory \ Stored  BY <1>1, <2>1
  <2>3. mem'[tool'.memory] = mem[tool.memory]  BY <2>2
  <2>4. Proposed(tool.call, tool.vis)' = Proposed(tool.call, tool.vis)
    BY <2>3, Zenon DEF Proposed, AskedFor, SafeVisibility, InGroup
  <2>5. WellOwned(Proposed(tool.call, tool.vis))' = WellOwned(Proposed(tool.call, tool.vis))
    BY <2>4, Zenon
  <2> QED  BY <1>1, <2>1, <2>5
<1> QED  BY <1>1, <1>2, Zenon DEF ToolInv

\* The steps of a tool call keep what is known of it.
LEMMA ToolKeeps ==
    ASSUME StoreInv, ToolInv, Tools
    PROVE  ToolInv'
<1>1. CASE CallTool
  <2>1. PICK c, m, v :
          /\ tool' = [at |-> "review", call |-> c, memory |-> m, vis |-> v]
          /\ \/ c = "disable" /\ m \in Stored
             \/ c \in {"user", "group"} /\ m \in Memory \ Stored /\ v \in Visibilities
    BY <1>1 DEF CallTool
  <2>2. tool'.at = "review" /\ tool'.call = c /\ tool'.memory = m /\ tool'.vis = v  BY <2>1
  <2>3. tool' = [at |-> tool'.at, call |-> tool'.call, memory |-> tool'.memory, vis |-> tool'.vis]
    BY <2>1, <2>2
  <2>4. Stored' = Stored  BY <1>1 DEF CallTool, Stored
  <2> QED  BY <2>1, <2>2, <2>3, <2>4 DEF ToolInv
<1>2. CASE HandleTool
  <2>0. UNCHANGED <<mem, scene>>  BY <1>2 DEF HandleTool, ToolRest
  <2>1. PICK c, m, v : tool = [at |-> "review", call |-> c, memory |-> m, vis |-> v]
    BY <1>2 DEF HandleTool, ToolInv
  <2>2. tool.at = "review" /\ tool.call = c /\ tool.memory = m /\ tool.vis = v  BY <2>1
  <2>3. \/ c = "disable" /\ m \in Stored
        \/ c \in {"user", "group"} /\ m \in Memory \ Stored /\ v \in Visibilities
    BY <2>2, Zenon DEF ToolInv
  <2>4. PICK a \in {"prepared", "over"} :
           /\ tool' = [at |-> a, call |-> c, memory |-> m, vis |-> v]
           /\ a = "prepared" => Prepares
    <3>1. CASE Prepares /\ tool' = [tool EXCEPT !.at = "prepared"]  BY <2>1, <3>1
    <3>2. CASE tool' = [tool EXCEPT !.at = "over"]
      <4>1. tool' = [at |-> "over", call |-> c, memory |-> m, vis |-> v]  BY <2>1, <3>2
      <4>2. "over" \in {"prepared", "over"} /\ "over" # "prepared"  OBVIOUS
      <4> QED  BY <4>1, <4>2
    <3> QED  BY <1>2, <3>1, <3>2, Zenon DEF HandleTool
  <2>5. tool'.at = a /\ tool'.call = c /\ tool'.memory = m /\ tool'.vis = v  BY <2>4
  <2>6. Stored' = Stored  BY <2>0 DEF Stored
  <2>7. a = "prepared" /\ c # "disable" => scene'.user # None /\ WellOwned(Proposed(c, v))'
    <3>1. SUFFICES ASSUME a = "prepared", c # "disable"
                   PROVE  scene.user # None /\ WellOwned(Proposed(c, v))'
      BY <2>0
    <3>2. scene.user # None /\ WellOwned(Proposed(c, v))  BY <2>2, <2>4, <3>1 DEF Prepares
    <3>3. mem'[tool'.memory] = mem[tool.memory] /\ scene' = scene  BY <2>0, <2>2, <2>5
    <3>4. Proposed(c, v)' = Proposed(c, v)
      BY <3>3, Zenon DEF Proposed, AskedFor, SafeVisibility, InGroup
    <3>5. WellOwned(Proposed(c, v))' = WellOwned(Proposed(c, v))  BY <3>4, Zenon
    <3> QED  BY <3>2, <3>5
  <2>8. WellOwned(Proposed(c, v))' => WellOwned(Proposed(tool.call, tool.vis))'
    BY <2>5, Zenon
  <2>9. tool' = [at |-> tool'.at, call |-> tool'.call, memory |-> tool'.memory, vis |-> tool'.vis]
    BY <2>4, <2>5
  <2>10. tool'.at \in {"idle", "review", "prepared", "over"}  BY <2>5
  <2>11. tool'.at = "prepared" /\ tool'.call # "disable" =>
           scene'.user # None /\ WellOwned(Proposed(tool.call, tool.vis))'
    BY <2>5, <2>7, <2>8, Zenon
  <2>12. \/ tool'.call = "disable" /\ tool'.memory \in Stored'
         \/ tool'.call \in {"user", "group"} /\ tool'.memory \in Memory \ Stored'
              /\ tool'.vis \in Visibilities
    BY <2>3, <2>5, <2>6
  <2> QED  BY <2>9, <2>10, <2>11, <2>12, Zenon DEF ToolInv
<1>3. CASE CommitTool
  <2>1. PICK c, m, v : tool = [at |-> "prepared", call |-> c, memory |-> m, vis |-> v]
    BY <1>3 DEF CommitTool, ToolInv
  <2>2. tool' = [at |-> "over", call |-> c, memory |-> m, vis |-> v]  BY <1>3, <2>1 DEF CommitTool
  <2>3. tool'.at = "over"  BY <2>2
  <2>4. tool' = [at |-> tool'.at, call |-> tool'.call, memory |-> tool'.memory, vis |-> tool'.vis]
    BY <2>2
  <2> QED  BY <2>3, <2>4 DEF ToolInv
<1> QED  BY <1>1, <1>2, <1>3 DEF Tools

(***************************************************************************)
(* The index and the consents.                                              *)
(***************************************************************************)

IndexInv ==
    /\ index \in [Memory -> Nat]
    /\ DOMAIN worker.batch \subseteq Memory
    /\ \A m \in DOMAIN worker.batch :
         worker.batch[m] \in Nat /\ worker.batch[m] <= mem[m].revision

ConsentInv == opted \subseteq {scene.user} \ {None} /\ None \notin unlinked

\* A batch of the embedding worker is never ahead of the store.
LEMMA IndexKeeps ==
    ASSUME StoreInv, IndexInv, Grows, StoreInv',
           \/ UNCHANGED <<index, worker>>
           \/ Snapshot \/ WriteVectors \/ WorkerFails
    PROVE  IndexInv'
<1>0. \A m \in Memory : mem[m].revision \in Nat  BY RevisionIs
<1>1. \A m \in Memory : mem'[m].revision \in Nat
  <2>1. SUFFICES ASSUME NEW m \in Memory PROVE mem'[m].revision \in Nat
    OBVIOUS
  <2>2. mem'[m].revision \in IF mem'[m].state = "absent" THEN {0} ELSE Nat \ {0}
    BY Zenon DEF StoreInv, IsMemory
  <2> QED  BY <2>2
<1>2. CASE UNCHANGED <<index, worker>>
  <2>1. \A m \in DOMAIN worker.batch : worker.batch[m] <= mem'[m].revision
    BY <1>0, <1>1 DEF IndexInv, Grows
  <2> QED  BY <1>2, <2>1 DEF IndexInv
<1>3. CASE Snapshot
  <2> DEFINE b == [m \in Pending |-> mem[m].revision]
  <2>1. worker' = [at |-> "embedding", batch |-> b] /\ index' = index /\ mem' = mem
    BY <1>3 DEF Snapshot
  <2>2. worker'.batch = b  BY <2>1
  <2>3. Pending \subseteq Memory  BY DEF Pending, Stored
  <2>4. DOMAIN b = Pending /\ \A m \in Pending : b[m] = mem[m].revision  OBVIOUS
  <2> HIDE DEF b
  <2> QED  BY <1>0, <2>1, <2>2, <2>3, <2>4 DEF IndexInv
<1>4. CASE WriteVectors
  <2>1. worker'.batch = <<>>  BY <1>4 DEF WriteVectors
  <2>2. DOMAIN worker'.batch = {}  BY <2>1
  <2>3. index' \in [Memory -> Nat]  BY <1>4 DEF WriteVectors, IndexInv
  <2> QED  BY <2>2, <2>3 DEF IndexInv
<1>5. CASE WorkerFails
  <2>1. worker'.batch = <<>> /\ index' = index  BY <1>5 DEF WorkerFails
  <2>2. DOMAIN worker'.batch = {}  BY <2>1
  <2> QED  BY <2>1, <2>2 DEF IndexInv
<1> QED  BY <1>2, <1>3, <1>4, <1>5

\* Only someone who speaks can opt out or be unlinked.
LEMMA ConsentKeeps ==
    ASSUME ConsentInv, scene' = scene, ChangeConsent \/ Unlink \/ UNCHANGED <<opted, unlinked>>
    PROVE  ConsentInv'
BY DEF ConsentInv, ChangeConsent, Unlink

\* A write after a wait agrees with the store as it is.
LEMMA EmbeddingStep ==
    ASSUME WriteVectors \/ UNCHANGED index
    PROVE  \A m \in Memory : index'[m] # index[m] =>
               index'[m] = mem[m].revision /\ Eligible(mem[m])
BY DEF WriteVectors, Written

\* What a tool call changes after its review, it may still change.
LEMMA ToolStep ==
    ASSUME StoreInv, ToolInv, ConsentInv, CommitTool, mem' # mem
    PROVE  \/ mem[tool.memory].state = "active" /\ mem'[tool.memory].state = "disabled"
           \/ /\ mem[tool.memory].state = "absent"
              /\ mem'[tool.memory].user \notin opted \cup unlinked
              /\ InGroup => \/ mem'[tool.memory].vis = "owner_admin_only"
                            \/ mem'[tool.memory].group = scene.group
<1> DEFINE m == tool.memory
           c == tool.call
           v == tool.vis
           q == Proposed(c, v)
<1>1. \/ mem[m].state = "active" /\ mem'[m].state = "disabled"
      \/ /\ c \in {"user", "group"} /\ m \in Memory \ Stored /\ v \in Visibilities
         /\ WellOwned(q) /\ scene.user # None
         /\ c = "user" => scene.user \notin opted
         /\ SourceFits(q)
         /\ mem'[m] = q
  BY ToolCommitKeeps
<1>2. CASE mem[m].state = "active" /\ mem'[m].state = "disabled"  BY <1>2
<1>3. CASE /\ c \in {"user", "group"} /\ m \in Memory \ Stored /\ v \in Visibilities
           /\ WellOwned(q) /\ scene.user # None
           /\ c = "user" => scene.user \notin opted
           /\ SourceFits(q)
           /\ mem'[m] = q
  <2>1. mem[m].state = "absent"  BY <1>3 DEF Stored
  <2>2. q.scope = c /\ q.user = IF c = "user" THEN scene.user ELSE None
    <3> HIDE DEF c, v
    <3> QED  BY <1>3, ProposedIs DEF q
  <2> HIDE DEF q
  <2>3. CASE c = "user"
    <3>1. q.user = scene.user /\ q.user = ToolEvidence.user  BY <1>3, <2>2, <2>3 DEF SourceFits
    <3>2. scene.user \notin unlinked  BY <1>3, <3>1 DEF ToolEvidence
    <3>3. InGroup => q.vis = "owner_admin_only" \/ q.group = scene.group
      BY <1>3 DEF SourceFits, ToolEvidence
    <3> QED  BY <1>3, <2>1, <2>3, <3>1, <3>2, <3>3
  <2>4. CASE c = "group"
    <3>1. q.user = None  BY <2>2, <2>4
    <3>2. None \notin opted \cup unlinked  BY DEF ConsentInv
    <3>3. InGroup => q.vis = "owner_admin_only" \/ q.group = scene.group
      BY <1>3 DEF SourceFits, ToolEvidence
    <3> QED  BY <1>3, <2>1, <3>1, <3>2, <3>3
  <2> QED  BY <1>3, <2>3, <2>4
<1> QED  BY <1>1, <1>2, <1>3

(***************************************************************************)
(* A read.                                                                  *)
(***************************************************************************)

ReadShape ==
    /\ read = [at |-> read.at, for |-> read.for, next |-> read.next, found |-> read.found,
               matches |-> read.matches, blocked |-> read.blocked, ask |-> read.ask,
               rejected |-> read.rejected, pack |-> read.pack]
    /\ read.at \in {"idle", "asking", "policy", "routes", "filter", "told", "failed"}
    /\ read.at = "routes" => read.next \in Nat \ {0}
    /\ read.at # "idle" => read.for \in {"context", "search"}
    /\ read.at \in {"asking", "policy", "filter"} => read.for = "context"

\* What was found was stored, and what no filter rejects could be told.
FoundInv ==
    /\ DOMAIN read.found \subseteq Stored
    /\ \A m \in DOMAIN read.found : IsMemory(read.found[m])
    /\ read.for = "context" =>
         \A m \in DOMAIN read.found : ~Rejected(read.found[m]) => m \in since
    /\ read.for = "context" => read.matches \subseteq Stored \cap since
    /\ read.for = "search" => DOMAIN read.found \subseteq since

\* What a build asks, and what it tells.
BuildInv ==
    /\ read.for = "context" /\ read.at \notin {"idle", "failed"} => read.ask = Load
    /\ read.at = "told" /\ read.for = "context" =>
         /\ read.rejected = read.blocked \cup Refused
         /\ read.pack.told \cup read.pack.dropped = Selected
         /\ read.pack.told \cap read.pack.dropped = {}
         /\ PromptIsWhole /\ DroppedDoNotFit

\* A read forgets nothing that could be told during it.
LEMMA SinceGrows ==
    ASSUME Noted, read.at # "idle" \/ read'.at = "idle"
    PROVE  since \subseteq since' /\ TellableNow' \subseteq since'
<1>1. since' = since \cup TellableNow'  BY DEF Noted
<1> QED  BY <1>1

\* What was found stays what it was, while others write.
LEMMA FoundStays ==
    ASSUME FoundInv, Grows, read' = read, scene' = scene, since \subseteq since'
    PROVE  FoundInv'
<1>1. Stored \subseteq Stored'  BY DEF Grows
<1>2. \A m \in DOMAIN read.found : Rejected(read.found[m])' = Rejected(read.found[m])
  BY DEF Rejected, InGroup
<1>3. (\A m \in DOMAIN read.found : ~Rejected(read.found[m]) => m \in since)
       => (\A m \in DOMAIN read.found : ~Rejected(read.found[m]) => m \in since)'
  BY <1>2
<1>4. (DOMAIN read.found \subseteq Stored) => (DOMAIN read.found \subseteq Stored)'  BY <1>1
<1>5. (\A m \in DOMAIN read.found : IsMemory(read.found[m]))
       => (\A m \in DOMAIN read.found : IsMemory(read.found[m]))'
  BY Zenon
<1>6. read.matches \subseteq Stored \cap since => (read.matches \subseteq Stored \cap since)'  BY <1>1
<1>7. (DOMAIN read.found \subseteq since) => (DOMAIN read.found \subseteq since)'  OBVIOUS
<1> QED  BY <1>3, <1>4, <1>5, <1>6, <1>7, Zenon DEF FoundInv

\* The messages of a build are those of its scene.
LEMMA LoadStays ==
    ASSUME scene' = scene
    PROVE  Load' = Load
<1>1. OwnMessages' = OwnMessages  BY DEF OwnMessages
<1>2. Target' = Target  BY <1>1, Zenon DEF Target
<1>3. Window' = Window  BY <1>1 DEF Window
<1> DEFINE L(sc, ts, ws) ==
             LET last == Len(sc.chat) + 1
             IN  [messages |-> [i \in ws \cup ts \cup {last} |->
                                   IF i = last THEN sc.current ELSE sc.chat[i]],
                  current |-> last,
                  quote |-> IF ts = {} THEN 0 ELSE CHOOSE i \in ts : TRUE,
                  reply |-> sc.replyTo # None,
                  group |-> sc.type = "group"]
<1>4. Load = L(scene, Target, Window)  BY Zenon DEF Load, InGroup
<1>5. Load' = L(scene', Target', Window')  BY Zenon DEF Load, InGroup
<1> HIDE DEF L
<1> QED  BY <1>2, <1>3, <1>4, <1>5, Zenon

\* What was told stays told.
LEMMA BuildStays ==
    ASSUME BuildInv, read' = read, scene' = scene
    PROVE  BuildInv'
<1>1. Load' = Load  BY LoadStays
<1>2. Refused' = Refused  BY DEF Refused, Rejected, InGroup
<1>3. Selected' = Selected  BY <1>2 DEF Selected
<1>4. PromptIsWhole => PromptIsWhole'  BY DEF PromptIsWhole
<1>5. DroppedDoNotFit => DroppedDoNotFit'  BY DEF DroppedDoNotFit
<1> QED  BY <1>1, <1>2, <1>3, <1>4, <1>5 DEF BuildInv

\* A read that no step touches keeps its shape.
LEMMA ShapeStays == ASSUME ReadShape, read' = read PROVE ReadShape'
BY DEF ReadShape

\* The messages of a build are those of its conversation.
LEMMA LoadOK ==
    ASSUME SceneInv
    PROVE  /\ AskOK(Load)
           /\ Load.current \in DOMAIN Load.messages
           /\ Load.quote \in DOMAIN Load.messages \cup {0}
           /\ \A i \in DOMAIN Load.messages :
                Load.messages[i].conv = scene.conv /\ i <= Load.current
<1> DEFINE last == Len(scene.chat) + 1
           D == Window \cup Target \cup {last}
           f == [i \in D |-> IF i = last THEN scene.current ELSE scene.chat[i]]
           q == IF Target = {} THEN 0 ELSE CHOOSE i \in Target : TRUE
<1>1. Load = [messages |-> f, current |-> last, quote |-> q,
              reply |-> scene.replyTo # None, group |-> InGroup]
  BY DEF Load
<1>2. Load.messages = f /\ Load.current = last /\ Load.quote = q
  <2> HIDE DEF f, last, q
  <2> QED  BY <1>1
<1>3. Len(scene.chat) \in Nat /\ DOMAIN scene.chat = 1 .. Len(scene.chat)
      /\ \A i \in DOMAIN scene.chat : scene.chat[i] \in Range(scene.chat)
  BY DEF SceneInv, Range
<1>4. OwnMessages \subseteq DOMAIN scene.chat /\ \A i \in OwnMessages : scene.chat[i].conv = scene.conv
  BY DEF OwnMessages
<1>5. Window \subseteq OwnMessages /\ Target \subseteq OwnMessages  BY DEF Window, Target
<1>6. D \subseteq 1 .. last /\ last \in D /\ DOMAIN f = D  BY <1>3, <1>4, <1>5
<1>7. \A i \in D : f[i] = IF i = last THEN scene.current ELSE scene.chat[i]  OBVIOUS
<1>8. \A i \in D : i # last => i \in OwnMessages  BY <1>5
<1>9. q \in D \cup {0}  OBVIOUS
<1> HIDE DEF D, f, q
<1>10. \A i \in D : f[i].conv = scene.conv /\ f[i] \in Range(scene.chat) \cup {scene.current}
  BY <1>3, <1>4, <1>7, <1>8 DEF SceneInv
<1>11. \A i \in D : f[i].text \in Nat /\ f[i].name \in Nat
  BY <1>10 DEF SceneInv, IsChatMessage
<1>12. IsFiniteSet(D)
  <2>1. IsFiniteSet(1 .. last)  BY <1>3, FS_Interval
  <2> QED  BY <1>6, <2>1, FS_Subset
<1>13. D \subseteq Nat \ {0} /\ \A i \in D : i <= last  BY <1>3, <1>6
<1> HIDE DEF last
<1>14. DOMAIN Load.messages = D  BY <1>2, <1>6
<1>15. AskOK(Load)  BY <1>2, <1>11, <1>12, <1>13, <1>14 DEF AskOK
<1> QED  BY <1>2, <1>6, <1>9, <1>10, <1>13, <1>14, <1>15

ReadInv == ReadShape /\ FoundInv /\ BuildInv

\* No step of another process disturbs a read.
LEMMA ReadStays ==
    ASSUME StoreInv, ReadInv, Grows, read' = read, scene' = scene, since \subseteq since'
    PROVE  ReadInv'
<1> QED  BY FoundStays, BuildStays, ShapeStays DEF ReadInv

\* What a step of a build or search leaves alone, and what it may tell after it.
LEMMA ReadRest ==
    ASSUME StoreInv, RestUnchanged
    PROVE  /\ scene' = scene /\ mem' = mem /\ policy' = policy
           /\ Stored' = Stored /\ Load' = Load
           /\ \A r : Rejected(r)' = Rejected(r)
           /\ TellableNow' = TellableNow
<1>1. scene' = scene /\ mem' = mem /\ policy' = policy  BY DEF RestUnchanged
<1>2. Stored' = Stored  BY <1>1 DEF Stored
<1>3. \A r : Rejected(r)' = Rejected(r)  BY <1>1 DEF Rejected, InGroup
<1>4. \A r : Tellable(r)' = Tellable(r)  BY <1>1, Zenon DEF Tellable, InGroup, GroupSummary
<1>5. TellableNow' = TellableNow
  <2>1. \A m \in Stored : Tellable(mem[m])' = Tellable(mem[m])  BY <1>1, <1>4, Zenon
  <2> QED  BY <1>2, <2>1 DEF TellableNow
<1>6. Load' = Load  BY <1>1, LoadStays
<1> QED  BY <1>1, <1>2, <1>3, <1>5, <1>6

\* A read that has just started has found nothing.
LEMMA Started ==
    ASSUME NEW f, NEW a, NEW n, NEW k, a \in {"asking", "routes"}, n \in Nat,
           a = "routes" => n \in Nat \ {0},
           f \in {"context", "search"}, a = "asking" => f = "context",
           f = "context" => k = Load',
           read' = [at |-> a, for |-> f, next |-> n, found |-> <<>>, matches |-> {},
                    blocked |-> {}, ask |-> k, rejected |-> {}, pack |-> None]
    PROVE  ReadInv'
<1>1. /\ read'.at = a /\ read'.for = f /\ read'.next = n /\ read'.found = <<>>
      /\ read'.matches = {} /\ read'.blocked = {} /\ read'.ask = k
      /\ read'.rejected = {} /\ read'.pack = None
  OBVIOUS
<1>2. DOMAIN read'.found = {}  BY <1>1
<1>3. ReadShape'  BY <1>1 DEF ReadShape
<1>4. FoundInv'  BY <1>1, <1>2 DEF FoundInv
<1>5. BuildInv'  BY <1>1 DEF BuildInv
<1> QED  BY <1>3, <1>4, <1>5 DEF ReadInv

\* A build or a search starts.
LEMMA StartKeeps ==
    ASSUME StoreInv, StartBuild \/ StartSearch
    PROVE  ReadInv'
<1>1. CASE StartBuild
  <2>1. read' = [at |-> "asking", for |-> "context", next |-> 0, found |-> <<>>, matches |-> {},
                 blocked |-> {}, ask |-> Load, rejected |-> {}, pack |-> None]
    BY <1>1 DEF StartBuild, NoRead
  <2>2. Load' = Load  BY <1>1, ReadRest DEF StartBuild
  <2> DEFINE a == "asking"
             f == "context"
             k == Load
  <2>3. a \in {"asking", "routes"} /\ a # "routes" /\ f = "context" /\ f \in {"context", "search"} /\ k = Load'  BY <2>2
  <2> HIDE DEF a, k, f
  <2>4. read' = [at |-> a, for |-> f, next |-> 0, found |-> <<>>, matches |-> {},
                 blocked |-> {}, ask |-> k, rejected |-> {}, pack |-> None]
    BY <2>1, Zenon DEF a, f, k
  <2> QED  BY <2>3, <2>4, Started
<1>2. CASE StartSearch
  <2>1. read' = [at |-> "routes", for |-> "search", next |-> 1, found |-> <<>>, matches |-> {},
                 blocked |-> {}, ask |-> None, rejected |-> {}, pack |-> None]
    BY <1>2 DEF StartSearch, NoRead
  <2> DEFINE a == "routes"
             f == "search"
  <2>3. a \in {"asking", "routes"} /\ a # "asking" /\ f \in {"context", "search"} /\ f # "context"  OBVIOUS
  <2> HIDE DEF a, f
  <2>4. read' = [at |-> a, for |-> f, next |-> 1, found |-> <<>>, matches |-> {},
                 blocked |-> {}, ask |-> None, rejected |-> {}, pack |-> None]
    BY <2>1, Zenon DEF a, f
  <2> QED  BY <2>3, <2>4, Started
<1> QED  BY <1>1, <1>2

\* A read goes on: what it finds is stored, and may be told unless a filter rejects it.
LEMMA Progress ==
    ASSUME StoreInv, ReadInv, RestUnchanged, Noted,
           read.at \in {"asking", "policy", "routes"},
           NEW a \in {"policy", "routes", "filter"}, NEW n, a = "routes" => n \in Nat \ {0},
           read.for = "context" \/ a = "routes",
           NEW fo, NEW ms, NEW bl,
           read' = [at |-> a, for |-> read.for, next |-> n, found |-> fo, matches |-> ms,
                    blocked |-> bl, ask |-> read.ask, rejected |-> read.rejected,
                    pack |-> read.pack],
           DOMAIN fo \subseteq Stored,
           \A m \in DOMAIN fo : IsMemory(fo[m]),
           read.for = "context" => \A m \in DOMAIN fo : ~Rejected(fo[m]) => m \in since',
           read.for = "context" => ms \subseteq Stored \cap since',
           read.for = "search" => DOMAIN fo \subseteq since'
    PROVE  ReadInv'
<1>1. /\ read'.at = a /\ read'.for = read.for /\ read'.next = n /\ read'.found = fo
      /\ read'.matches = ms /\ read'.blocked = bl /\ read'.ask = read.ask
      /\ read'.rejected = read.rejected /\ read'.pack = read.pack
  OBVIOUS
<1>2. /\ Stored' = Stored /\ Load' = Load
      /\ \A r : Rejected(r)' = Rejected(r)
  BY ReadRest
<1>3. ReadShape'
  <2>1. read' = [at |-> read'.at, for |-> read'.for, next |-> read'.next, found |-> read'.found,
                 matches |-> read'.matches, blocked |-> read'.blocked, ask |-> read'.ask,
                 rejected |-> read'.rejected, pack |-> read'.pack]
    BY <1>1
  <2>2. /\ read'.at \in {"idle", "asking", "policy", "routes", "filter", "told", "failed"}
        /\ read'.at = "routes" => read'.next \in Nat \ {0}
    BY <1>1
  <2>3. read'.for \in {"context", "search"}  BY <1>1 DEF ReadInv, ReadShape
  <2>4. read'.at \in {"asking", "policy", "filter"} => read'.for = "context"
    <3>1. read.at \in {"asking", "policy"} => read.for = "context"  BY DEF ReadInv, ReadShape
    <3> QED  BY <1>1, <3>1
  <2> QED  BY <2>1, <2>2, <2>3, <2>4 DEF ReadShape
<1>4. FoundInv'
  <2>1. DOMAIN read'.found \subseteq Stored'  BY <1>1, <1>2
  <2>2. \A m \in DOMAIN read'.found : IsMemory(read'.found[m])  BY <1>1
  <2>3. read'.for = "context" =>
          \A m \in DOMAIN read'.found : ~Rejected(read.found[m])' => m \in since'
    <3>1. SUFFICES ASSUME read.for = "context", NEW m \in DOMAIN fo, ~Rejected(read.found[m])'
                   PROVE  m \in since'
      BY <1>1
    <3>2. Rejected(read.found[m])' = Rejected(fo[m])
      BY <1>1, RestUnchanged, Zenon DEF RestUnchanged, Rejected, InGroup
    <3> QED  BY <3>1, <3>2
  <2>4. read'.for = "context" => read'.matches \subseteq Stored' \cap since'  BY <1>1, <1>2
  <2>5. read'.for = "search" => DOMAIN read'.found \subseteq since'  BY <1>1
  <2> QED  BY <2>1, <2>2, <2>3, <2>4, <2>5, Zenon DEF FoundInv
<1>5. BuildInv'
  <2>1. read.for = "context" => read.ask = Load  BY DEF ReadInv, BuildInv
  <2>2. read'.at # "told"  BY <1>1
  <2>3. read'.for = "context" => read'.ask = Load'  BY <1>1, <1>2, <2>1
  <2> QED  BY <2>2, <2>3 DEF BuildInv
<1> QED  BY <1>3, <1>4, <1>5 DEF ReadInv

\* The one function over the other.
LEMMA OverlaidIs ==
    ASSUME NEW f, NEW g
    PROVE  /\ DOMAIN Overlaid(f, g) = DOMAIN f \cup DOMAIN g
           /\ \A x \in DOMAIN Overlaid(f, g) :
                \/ x \in DOMAIN f /\ Overlaid(f, g)[x] = f[x]
                \/ x \in DOMAIN g /\ Overlaid(f, g)[x] = g[x]
BY DEF Overlaid

\* What is added to the records found.
LEMMA Finds ==
    ASSUME StoreInv, ReadInv, RestUnchanged, Noted,
           read.at = "routes",
           NEW a \in {"routes", "filter"}, NEW n, a = "routes" => n \in Nat \ {0},
           read.for = "context" \/ a = "routes",
           NEW s, s \subseteq Stored,
           read.for = "context" => \A m \in s : ~Rejected(mem[m]) => m \in since',
           read.for = "search" => s \subseteq since',
           read' = [at |-> a, for |-> read.for, next |-> n,
                    found |-> Overlaid([m \in s |-> mem[m]], read.found), matches |-> read.matches,
                    blocked |-> read.blocked, ask |-> read.ask, rejected |-> read.rejected,
                    pack |-> read.pack]
    PROVE  ReadInv'
<1> DEFINE g == [m \in s |-> mem[m]]
           fo == Overlaid(g, read.found)
<1>1. DOMAIN g = s /\ \A m \in s : g[m] = mem[m]  OBVIOUS
<1>2. read' = [at |-> a, for |-> read.for, next |-> n, found |-> fo, matches |-> read.matches,
               blocked |-> read.blocked, ask |-> read.ask, rejected |-> read.rejected,
               pack |-> read.pack]
  BY Zenon
<1> HIDE DEF g
<1>3. /\ DOMAIN fo = s \cup DOMAIN read.found
      /\ \A m \in DOMAIN fo : \/ m \in s /\ fo[m] = mem[m]
                              \/ m \in DOMAIN read.found /\ fo[m] = read.found[m]
  <2>1. /\ DOMAIN fo = DOMAIN g \cup DOMAIN read.found
        /\ \A m \in DOMAIN fo : \/ m \in DOMAIN g /\ fo[m] = g[m]
                                \/ m \in DOMAIN read.found /\ fo[m] = read.found[m]
    BY OverlaidIs
  <2> HIDE DEF fo
  <2> QED  BY <1>1, <2>1
<1> HIDE DEF fo
<1>4. /\ DOMAIN read.found \subseteq Stored
      /\ \A m \in DOMAIN read.found : IsMemory(read.found[m])
      /\ read.for = "context" =>
           \A m \in DOMAIN read.found : ~Rejected(read.found[m]) => m \in since
      /\ read.for = "context" => read.matches \subseteq Stored \cap since
      /\ read.for = "search" => DOMAIN read.found \subseteq since
  BY Zenon DEF ReadInv, FoundInv
<1>5. since \subseteq since'  BY SinceGrows
<1>6. \A m \in Stored : IsMemory(mem[m])  BY DEF StoreInv, Stored
<1>7. DOMAIN fo \subseteq Stored  BY <1>3, <1>4
<1>8. \A m \in DOMAIN fo : IsMemory(fo[m])
  <2>1. SUFFICES ASSUME NEW m \in DOMAIN fo PROVE IsMemory(fo[m])
    OBVIOUS
  <2>2. CASE m \in s /\ fo[m] = mem[m]
    <3>1. m \in Stored  BY <2>2
    <3> QED  BY <1>6, <2>2, <3>1, Zenon
  <2>3. CASE m \in DOMAIN read.found /\ fo[m] = read.found[m]  BY <1>4, <2>3, Zenon
  <2> QED  BY <1>3, <2>2, <2>3
<1>9. read.for = "context" => \A m \in DOMAIN fo : ~Rejected(fo[m]) => m \in since'
  <2>1. SUFFICES ASSUME read.for = "context", NEW m \in DOMAIN fo, ~Rejected(fo[m]) PROVE m \in since'
    OBVIOUS
  <2>2. CASE m \in s /\ fo[m] = mem[m]
    <3>1. ~Rejected(mem[m])  BY <2>1, <2>2, Zenon
    <3> QED  BY <2>1, <2>2, <3>1
  <2>3. CASE m \in DOMAIN read.found /\ fo[m] = read.found[m]
    <3>1. ~Rejected(read.found[m])  BY <2>1, <2>3, Zenon
    <3> QED  BY <1>4, <1>5, <2>1, <2>3, <3>1
  <2> QED  BY <1>3, <2>2, <2>3
<1>10. read.for = "context" => read.matches \subseteq Stored \cap since'  BY <1>4, <1>5
<1>11. read.for = "search" => DOMAIN fo \subseteq since'  BY <1>3, <1>4, <1>5
<1>12. read.at \in {"asking", "policy", "routes"} /\ a \in {"policy", "routes", "filter"}
  OBVIOUS
<1> QED  BY <1>2, <1>7, <1>8, <1>9, <1>10, <1>11, <1>12, Progress

\* A read with some of its fields changed, field by field.
LEMMA Matched ==
    ASSUME ReadShape, NEW x, NEW y
    PROVE  [read EXCEPT !.at = x, !.matches = y]
             = [at |-> x, for |-> read.for, next |-> read.next, found |-> read.found,
                matches |-> y, blocked |-> read.blocked, ask |-> read.ask,
                rejected |-> read.rejected, pack |-> read.pack]
<1>1. PICK ra, rf, rn, rd, rm, rb, rk, rj, rp :
        read = [at |-> ra, for |-> rf, next |-> rn, found |-> rd, matches |-> rm, blocked |-> rb, ask |-> rk, rejected |-> rj, pack |-> rp]
  BY Zenon DEF ReadShape
<1>2. /\ read.at = ra /\ read.for = rf /\ read.next = rn /\ read.found = rd /\ read.matches = rm
      /\ read.blocked = rb /\ read.ask = rk /\ read.rejected = rj /\ read.pack = rp
  BY <1>1
<1> DEFINE w1 == [read EXCEPT !.at = x]
<1>w1. w1 = [at |-> x, for |-> rf, next |-> rn, found |-> rd, matches |-> rm, blocked |-> rb, ask |-> rk, rejected |-> rj, pack |-> rp]
  BY <1>1
<1> HIDE DEF w1
<1> DEFINE w2 == [w1 EXCEPT !.matches = y]
<1>w2. w2 = [at |-> x, for |-> rf, next |-> rn, found |-> rd, matches |-> y, blocked |-> rb, ask |-> rk, rejected |-> rj, pack |-> rp]
  BY <1>w1
<1> HIDE DEF w2
<1>3. [read EXCEPT !.at = x, !.matches = y] = [at |-> x, for |-> rf, next |-> rn, found |-> rd, matches |-> y, blocked |-> rb, ask |-> rk, rejected |-> rj, pack |-> rp]
  BY <1>w2 DEF w1, w2
<1> QED  BY <1>2, <1>3, Zenon

\* Its place, its next route and what the policy blocks.
LEMMA Blocked ==
    ASSUME ReadShape, NEW x, NEW y, NEW z
    PROVE  [read EXCEPT !.at = x, !.next = y, !.blocked = z]
             = [at |-> x, for |-> read.for, next |-> y, found |-> read.found,
                matches |-> read.matches, blocked |-> z, ask |-> read.ask,
                rejected |-> read.rejected, pack |-> read.pack]
<1>1. PICK ra, rf, rn, rd, rm, rb, rk, rj, rp :
        read = [at |-> ra, for |-> rf, next |-> rn, found |-> rd, matches |-> rm, blocked |-> rb, ask |-> rk, rejected |-> rj, pack |-> rp]
  BY Zenon DEF ReadShape
<1>2. /\ read.at = ra /\ read.for = rf /\ read.next = rn /\ read.found = rd /\ read.matches = rm
      /\ read.blocked = rb /\ read.ask = rk /\ read.rejected = rj /\ read.pack = rp
  BY <1>1
<1> DEFINE w1 == [read EXCEPT !.at = x]
<1>w1. w1 = [at |-> x, for |-> rf, next |-> rn, found |-> rd, matches |-> rm, blocked |-> rb, ask |-> rk, rejected |-> rj, pack |-> rp]
  BY <1>1
<1> HIDE DEF w1
<1> DEFINE w2 == [w1 EXCEPT !.next = y]
<1>w2. w2 = [at |-> x, for |-> rf, next |-> y, found |-> rd, matches |-> rm, blocked |-> rb, ask |-> rk, rejected |-> rj, pack |-> rp]
  BY <1>w1
<1> HIDE DEF w2
<1> DEFINE w3 == [w2 EXCEPT !.blocked = z]
<1>w3. w3 = [at |-> x, for |-> rf, next |-> y, found |-> rd, matches |-> rm, blocked |-> z, ask |-> rk, rejected |-> rj, pack |-> rp]
  BY <1>w2
<1> HIDE DEF w3
<1>3. [read EXCEPT !.at = x, !.next = y, !.blocked = z] = [at |-> x, for |-> rf, next |-> y, found |-> rd, matches |-> rm, blocked |-> z, ask |-> rk, rejected |-> rj, pack |-> rp]
  BY <1>w3 DEF w1, w2, w3
<1> QED  BY <1>2, <1>3, Zenon

\* Its next route and what it has found.
LEMMA Seen ==
    ASSUME ReadShape, NEW x, NEW y
    PROVE  [read EXCEPT !.next = x, !.found = y]
             = [at |-> read.at, for |-> read.for, next |-> x, found |-> y,
                matches |-> read.matches, blocked |-> read.blocked, ask |-> read.ask,
                rejected |-> read.rejected, pack |-> read.pack]
<1>1. PICK ra, rf, rn, rd, rm, rb, rk, rj, rp :
        read = [at |-> ra, for |-> rf, next |-> rn, found |-> rd, matches |-> rm, blocked |-> rb, ask |-> rk, rejected |-> rj, pack |-> rp]
  BY Zenon DEF ReadShape
<1>2. /\ read.at = ra /\ read.for = rf /\ read.next = rn /\ read.found = rd /\ read.matches = rm
      /\ read.blocked = rb /\ read.ask = rk /\ read.rejected = rj /\ read.pack = rp
  BY <1>1
<1> DEFINE w1 == [read EXCEPT !.next = x]
<1>w1. w1 = [at |-> ra, for |-> rf, next |-> x, found |-> rd, matches |-> rm, blocked |-> rb, ask |-> rk, rejected |-> rj, pack |-> rp]
  BY <1>1
<1> HIDE DEF w1
<1> DEFINE w2 == [w1 EXCEPT !.found = y]
<1>w2. w2 = [at |-> ra, for |-> rf, next |-> x, found |-> y, matches |-> rm, blocked |-> rb, ask |-> rk, rejected |-> rj, pack |-> rp]
  BY <1>w1
<1> HIDE DEF w2
<1>3. [read EXCEPT !.next = x, !.found = y] = [at |-> ra, for |-> rf, next |-> x, found |-> y, matches |-> rm, blocked |-> rb, ask |-> rk, rejected |-> rj, pack |-> rp]
  BY <1>w2 DEF w1, w2
<1> QED  BY <1>2, <1>3, Zenon

\* Its place and what it has found.
LEMMA Reread ==
    ASSUME ReadShape, NEW x, NEW y
    PROVE  [read EXCEPT !.at = x, !.found = y]
             = [at |-> x, for |-> read.for, next |-> read.next, found |-> y,
                matches |-> read.matches, blocked |-> read.blocked, ask |-> read.ask,
                rejected |-> read.rejected, pack |-> read.pack]
<1>1. PICK ra, rf, rn, rd, rm, rb, rk, rj, rp :
        read = [at |-> ra, for |-> rf, next |-> rn, found |-> rd, matches |-> rm, blocked |-> rb, ask |-> rk, rejected |-> rj, pack |-> rp]
  BY Zenon DEF ReadShape
<1>2. /\ read.at = ra /\ read.for = rf /\ read.next = rn /\ read.found = rd /\ read.matches = rm
      /\ read.blocked = rb /\ read.ask = rk /\ read.rejected = rj /\ read.pack = rp
  BY <1>1
<1> DEFINE w1 == [read EXCEPT !.at = x]
<1>w1. w1 = [at |-> x, for |-> rf, next |-> rn, found |-> rd, matches |-> rm, blocked |-> rb, ask |-> rk, rejected |-> rj, pack |-> rp]
  BY <1>1
<1> HIDE DEF w1
<1> DEFINE w2 == [w1 EXCEPT !.found = y]
<1>w2. w2 = [at |-> x, for |-> rf, next |-> rn, found |-> y, matches |-> rm, blocked |-> rb, ask |-> rk, rejected |-> rj, pack |-> rp]
  BY <1>w1
<1> HIDE DEF w2
<1>3. [read EXCEPT !.at = x, !.found = y] = [at |-> x, for |-> rf, next |-> rn, found |-> y, matches |-> rm, blocked |-> rb, ask |-> rk, rejected |-> rj, pack |-> rp]
  BY <1>w2 DEF w1, w2
<1> QED  BY <1>2, <1>3, Zenon

\* Its place.
LEMMA Ended ==
    ASSUME ReadShape, NEW x
    PROVE  [read EXCEPT !.at = x]
             = [at |-> x, for |-> read.for, next |-> read.next, found |-> read.found,
                matches |-> read.matches, blocked |-> read.blocked, ask |-> read.ask,
                rejected |-> read.rejected, pack |-> read.pack]
<1>1. PICK ra, rf, rn, rd, rm, rb, rk, rj, rp :
        read = [at |-> ra, for |-> rf, next |-> rn, found |-> rd, matches |-> rm, blocked |-> rb, ask |-> rk, rejected |-> rj, pack |-> rp]
  BY Zenon DEF ReadShape
<1>2. /\ read.at = ra /\ read.for = rf /\ read.next = rn /\ read.found = rd /\ read.matches = rm
      /\ read.blocked = rb /\ read.ask = rk /\ read.rejected = rj /\ read.pack = rp
  BY <1>1
<1> DEFINE w1 == [read EXCEPT !.at = x]
<1>w1. w1 = [at |-> x, for |-> rf, next |-> rn, found |-> rd, matches |-> rm, blocked |-> rb, ask |-> rk, rejected |-> rj, pack |-> rp]
  BY <1>1
<1> HIDE DEF w1
<1>3. [read EXCEPT !.at = x] = [at |-> x, for |-> rf, next |-> rn, found |-> rd, matches |-> rm, blocked |-> rb, ask |-> rk, rejected |-> rj, pack |-> rp]
  BY <1>w1 DEF w1
<1> QED  BY <1>2, <1>3, Zenon

\* Its place, what was rejected and the pack.
LEMMA Packed ==
    ASSUME ReadShape, NEW x, NEW y, NEW z
    PROVE  [read EXCEPT !.at = x, !.rejected = y, !.pack = z]
             = [at |-> x, for |-> read.for, next |-> read.next, found |-> read.found,
                matches |-> read.matches, blocked |-> read.blocked, ask |-> read.ask,
                rejected |-> y, pack |-> z]
<1>1. PICK ra, rf, rn, rd, rm, rb, rk, rj, rp :
        read = [at |-> ra, for |-> rf, next |-> rn, found |-> rd, matches |-> rm, blocked |-> rb, ask |-> rk, rejected |-> rj, pack |-> rp]
  BY Zenon DEF ReadShape
<1>2. /\ read.at = ra /\ read.for = rf /\ read.next = rn /\ read.found = rd /\ read.matches = rm
      /\ read.blocked = rb /\ read.ask = rk /\ read.rejected = rj /\ read.pack = rp
  BY <1>1
<1> DEFINE w1 == [read EXCEPT !.at = x]
<1>w1. w1 = [at |-> x, for |-> rf, next |-> rn, found |-> rd, matches |-> rm, blocked |-> rb, ask |-> rk, rejected |-> rj, pack |-> rp]
  BY <1>1
<1> HIDE DEF w1
<1> DEFINE w2 == [w1 EXCEPT !.rejected = y]
<1>w2. w2 = [at |-> x, for |-> rf, next |-> rn, found |-> rd, matches |-> rm, blocked |-> rb, ask |-> rk, rejected |-> y, pack |-> rp]
  BY <1>w1
<1> HIDE DEF w2
<1> DEFINE w3 == [w2 EXCEPT !.pack = z]
<1>w3. w3 = [at |-> x, for |-> rf, next |-> rn, found |-> rd, matches |-> rm, blocked |-> rb, ask |-> rk, rejected |-> y, pack |-> z]
  BY <1>w2
<1> HIDE DEF w3
<1>3. [read EXCEPT !.at = x, !.rejected = y, !.pack = z] = [at |-> x, for |-> rf, next |-> rn, found |-> rd, matches |-> rm, blocked |-> rb, ask |-> rk, rejected |-> y, pack |-> z]
  BY <1>w3 DEF w1, w2, w3
<1> QED  BY <1>2, <1>3, Zenon

\* The index answers, or does not.
LEMMA SemanticKeeps ==
    ASSUME SceneInv, StoreInv, ReadInv, SemanticAnswers
    PROVE  ReadInv'
<1>1. RestUnchanged /\ Noted /\ read.at = "asking"  BY DEF SemanticAnswers
<1>2. PICK ms \in {SemanticMatches, {}} : read' = [read EXCEPT !.at = "policy", !.matches = ms]
  BY Zenon DEF SemanticAnswers
<1>3. ms \subseteq Stored \cap since'
  <2>1. TellableNow \subseteq since'  BY <1>1, ReadRest, SinceGrows
  <2>2. \A m \in SemanticMatches : m \in Stored /\ m \in TellableNow
    <3>1. SUFFICES ASSUME NEW m \in SemanticMatches PROVE m \in Stored /\ Tellable(mem[m])
      BY DEF TellableNow
    <3>2. m \in Stored /\ Eligible(mem[m]) /\ InContext(mem[m])  BY DEF SemanticMatches
    <3>3. IsMemory(mem[m])  BY <3>2, Zenon DEF StoreInv, Stored
    <3> QED  BY <3>2, <3>3, MatchTellable
  <2> QED  BY <1>2, <2>1, <2>2
<1>4. read' = [at |-> "policy", for |-> read.for, next |-> read.next, found |-> read.found,
               matches |-> ms, blocked |-> read.blocked, ask |-> read.ask,
               rejected |-> read.rejected, pack |-> read.pack]
  BY <1>2, Matched, Zenon DEF ReadInv
<1>5. since \subseteq since'  BY <1>1, SinceGrows
<1>6. /\ DOMAIN read.found \subseteq Stored
      /\ \A m \in DOMAIN read.found : IsMemory(read.found[m])
      /\ read.for = "context" =>
           \A m \in DOMAIN read.found : ~Rejected(read.found[m]) => m \in since'
      /\ read.for = "search" => DOMAIN read.found \subseteq since'
  BY <1>5 DEF ReadInv, FoundInv
<1> DEFINE a == "policy"
<1>7. a \in {"policy", "routes", "filter"} /\ a # "routes" /\ read.for = "context"
  BY <1>1 DEF ReadInv, ReadShape
<1>8. read.at \in {"asking", "policy", "routes"}  BY <1>1
<1> HIDE DEF a
<1>9. read' = [at |-> a, for |-> read.for, next |-> read.next, found |-> read.found,
               matches |-> ms, blocked |-> read.blocked, ask |-> read.ask,
               rejected |-> read.rejected, pack |-> read.pack]
  BY <1>4 DEF a
<1> QED  BY <1>1, <1>3, <1>6, <1>7, <1>8, <1>9, Progress

\* The policy of the group is read.
LEMMA PolicyKeeps ==
    ASSUME SceneInv, StoreInv, ReadInv, ReadPolicy
    PROVE  ReadInv'
<1>1. RestUnchanged /\ Noted /\ read.at = "policy"  BY DEF ReadPolicy
<1>2. read' = [read EXCEPT !.at = "routes", !.next = 1, !.blocked = PolicyBlocked]
  BY DEF ReadPolicy
<1>4. read' = [at |-> "routes", for |-> read.for, next |-> 1, found |-> read.found,
               matches |-> read.matches, blocked |-> PolicyBlocked, ask |-> read.ask,
               rejected |-> read.rejected, pack |-> read.pack]
  BY <1>2, Blocked, Zenon DEF ReadInv
<1>5. since \subseteq since'  BY <1>1, SinceGrows
<1>6. /\ DOMAIN read.found \subseteq Stored
      /\ \A m \in DOMAIN read.found : IsMemory(read.found[m])
      /\ read.for = "context" =>
           \A m \in DOMAIN read.found : ~Rejected(read.found[m]) => m \in since'
      /\ read.for = "context" => read.matches \subseteq Stored \cap since'
      /\ read.for = "search" => DOMAIN read.found \subseteq since'
  BY <1>5 DEF ReadInv, FoundInv
<1> DEFINE a == "routes"
           bl == PolicyBlocked
<1>7. a \in {"policy", "routes", "filter"} /\ a = "routes" /\ 1 \in Nat \ {0}  OBVIOUS
<1>8. read.at \in {"asking", "policy", "routes"}  BY <1>1
<1>9. read' = [at |-> a, for |-> read.for, next |-> 1, found |-> read.found,
               matches |-> read.matches, blocked |-> bl, ask |-> read.ask,
               rejected |-> read.rejected, pack |-> read.pack]
  BY <1>4
<1> HIDE DEF a, bl
<1> QED  BY <1>1, <1>6, <1>7, <1>8, <1>9, Progress

\* The rows of a route may be told, if no filter rejects them.
LEMMA RowsTold ==
    ASSUME SceneInv, StoreInv, NEW f, RouteOK(f)
    PROVE  /\ Rows(f) \subseteq Stored
           /\ \A m \in Rows(f) : ~Rejected(mem[m]) => m \in TellableNow
           /\ SearchOK(f) => Rows(f) \subseteq TellableNow
<1>1. \A m \in Rows(f) : m \in Stored /\ Matches(mem[m], f) /\ IsMemory(mem[m])
  <2>1. SUFFICES ASSUME NEW m \in Rows(f) PROVE m \in Stored /\ Matches(mem[m], f) /\ IsMemory(mem[m])
    OBVIOUS
  <2>2. m \in Stored /\ Matches(mem[m], f)  BY DEF Rows
  <2>3. IsMemory(mem[m])  BY <2>2, Zenon DEF StoreInv, Stored
  <2> QED  BY <2>2, <2>3
<1>2. \A m \in Rows(f) : ~Rejected(mem[m]) => Tellable(mem[m])  BY <1>1, RouteTellable
<1>3. SearchOK(f) => \A m \in Rows(f) : Tellable(mem[m])  BY <1>1, SearchTellable
<1> QED  BY <1>1, <1>2, <1>3 DEF TellableNow

\* A route of a build is read.
LEMMA RouteKeeps ==
    ASSUME SceneInv, StoreInv, ReadInv, ReadRoute
    PROVE  ReadInv'
<1>1. RestUnchanged /\ Noted /\ read.at = "routes" /\ read.for = "context"  BY DEF ReadRoute
<1> DEFINE f == Routes[read.next]
           n == read.next + 1
<1>2. RouteOK(f)
  <2>1. read.next \in Nat \ {0}  BY <1>1 DEF ReadInv, ReadShape
  <2>2. read.next <= Len(Routes)  BY DEF ReadRoute
  <2>3. read.next \in 1 .. Len(Routes)  BY <2>1, <2>2, RoutesAre
  <2> QED  BY <2>3, RoutesAre
<1>3. PICK ranked \in Limited(Rows(f)) :
        read' = [read EXCEPT !.next = n, !.found = Overlaid(Found(f, ranked), read.found)]
  BY Zenon DEF ReadRoute
<1> DEFINE s == ranked \cup (IF f.context THEN {k \in Rows(f) : mem[k].match > 0} ELSE {})
           g == [m \in s |-> mem[m]]
<1>4. s \subseteq Rows(f)  BY DEF Limited
<1>5. Found(f, ranked) = g  BY DEF Found
<1>6. n \in Nat \ {0}  BY <1>1 DEF ReadInv, ReadShape
<1> HIDE DEF n, f, s
<1>7. /\ s \subseteq Stored
      /\ \A m \in s : ~Rejected(mem[m]) => m \in since'
  <2>1. TellableNow \subseteq since'  BY <1>1, ReadRest, SinceGrows
  <2> QED  BY <1>2, <1>4, <2>1, RowsTold
<1>8. read' = [at |-> read.at, for |-> read.for, next |-> n, found |-> Overlaid(g, read.found),
               matches |-> read.matches, blocked |-> read.blocked, ask |-> read.ask,
               rejected |-> read.rejected, pack |-> read.pack]
  <2>1. read' = [read EXCEPT !.next = n, !.found = Overlaid(g, read.found)]  BY <1>3, <1>5, Zenon
  <2> DEFINE o == Overlaid(g, read.found)
  <2> HIDE DEF o
  <2>2. read' = [read EXCEPT !.next = n, !.found = o]  BY <2>1 DEF o
  <2>3. ReadShape  BY DEF ReadInv
  <2>4. read' = [at |-> read.at, for |-> read.for, next |-> n, found |-> o,
                 matches |-> read.matches, blocked |-> read.blocked, ask |-> read.ask,
                 rejected |-> read.rejected, pack |-> read.pack]
    BY <2>2, <2>3, Seen, Zenon
  <2> QED  BY <2>4 DEF o
<1> DEFINE a == read.at
<1>9. a \in {"routes", "filter"} /\ read.for # "search"  BY <1>1
<1>10. read' = [at |-> a, for |-> read.for, next |-> n,
                found |-> Overlaid([m \in s |-> mem[m]], read.found), matches |-> read.matches,
                blocked |-> read.blocked, ask |-> read.ask, rejected |-> read.rejected,
                pack |-> read.pack]
  BY <1>8, Zenon
<1> HIDE DEF a
<1> QED  BY <1>1, <1>6, <1>7, <1>9, <1>10, Finds

\* The matches of the index are read again.
LEMMA MatchesKeep ==
    ASSUME SceneInv, StoreInv, ReadInv, ReadMatches
    PROVE  ReadInv'
<1>1. RestUnchanged /\ Noted /\ read.at = "routes" /\ read.for = "context"  BY DEF ReadMatches
<1> DEFINE s == read.matches
           g == [m \in s |-> mem[m]]
           o == Overlaid(g, read.found)
           a == "filter"
<1>2. read' = [read EXCEPT !.at = a, !.found = o]  BY Zenon DEF ReadMatches
<1>3. s \subseteq Stored \cap since  BY <1>1 DEF ReadInv, FoundInv
<1>4. since \subseteq since'  BY <1>1, SinceGrows
<1>5. s \subseteq Stored /\ \A m \in s : ~Rejected(mem[m]) => m \in since'  BY <1>3, <1>4
<1>6. a \in {"routes", "filter"} /\ a # "routes" /\ read.for # "search"  BY <1>1
<1>7. ReadShape  BY DEF ReadInv
<1> HIDE DEF a, o
<1>8. read' = [at |-> a, for |-> read.for, next |-> read.next, found |-> o,
               matches |-> read.matches, blocked |-> read.blocked, ask |-> read.ask,
               rejected |-> read.rejected, pack |-> read.pack]
  BY <1>2, <1>7, Reread, Zenon
<1>9. read' = [at |-> a, for |-> read.for, next |-> read.next,
               found |-> Overlaid([m \in s |-> mem[m]], read.found), matches |-> read.matches,
               blocked |-> read.blocked, ask |-> read.ask, rejected |-> read.rejected,
               pack |-> read.pack]
  BY <1>8 DEF o
<1> HIDE DEF s
<1> QED  BY <1>1, <1>5, <1>6, <1>9, Finds

\* A query of the search tool is read.
LEMMA SearchKeeps ==
    ASSUME SceneInv, StoreInv, ReadInv, SearchRoute
    PROVE  ReadInv'
<1>1. RestUnchanged /\ Noted /\ read.at = "routes" /\ read.for = "search"  BY DEF SearchRoute
<1> DEFINE f == SearchRoutes[read.next]
           n == read.next + 1
<1>2. SearchOK(f) /\ RouteOK(f)
  <2>1. read.next \in Nat \ {0}  BY <1>1 DEF ReadInv, ReadShape
  <2>2. read.next <= Len(SearchRoutes)  BY DEF SearchRoute
  <2>3. read.next \in 1 .. Len(SearchRoutes)  BY <2>1, <2>2, SearchRoutesAre
  <2> QED  BY <2>3, SearchRoutesAre DEF SearchOK
<1>3. PICK s : /\ s \subseteq Rows(f)
               /\ read' = [read EXCEPT !.next = n, !.found = Overlaid([m \in s |-> mem[m]], read.found)]
  <2> DEFINE ids == Rows(f)
             L == Limited(ids) \cup Limited({m \in ids : mem[m].match > 0})
  <2>1. PICK s \in L :
          read' = [read EXCEPT !.next = n, !.found = Overlaid([m \in s |-> mem[m]], read.found)]
    BY Zenon DEF SearchRoute
  <2>2. s \subseteq ids  BY DEF Limited
  <2> HIDE DEF L, n
  <2> QED  BY <2>1, <2>2, Zenon
<1> DEFINE g == [m \in s |-> mem[m]]
<1>6. n \in Nat \ {0}  BY <1>1 DEF ReadInv, ReadShape
<1> HIDE DEF n, f
<1>7. s \subseteq Stored /\ s \subseteq since'
  <2>1. TellableNow \subseteq since'  BY <1>1, ReadRest, SinceGrows
  <2> QED  BY <1>2, <1>3, <2>1, RowsTold
<1>8. read' = [at |-> read.at, for |-> read.for, next |-> n, found |-> Overlaid(g, read.found),
               matches |-> read.matches, blocked |-> read.blocked, ask |-> read.ask,
               rejected |-> read.rejected, pack |-> read.pack]
  <2> DEFINE o == Overlaid(g, read.found)
  <2>2. read' = [read EXCEPT !.next = n, !.found = o]  BY <1>3
  <2> HIDE DEF o
  <2>3. ReadShape  BY DEF ReadInv
  <2>4. read' = [at |-> read.at, for |-> read.for, next |-> n, found |-> o,
                 matches |-> read.matches, blocked |-> read.blocked, ask |-> read.ask,
                 rejected |-> read.rejected, pack |-> read.pack]
    BY <2>2, <2>3, Seen, Zenon
  <2> QED  BY <2>4 DEF o
<1> DEFINE a == read.at
<1>9. a \in {"routes", "filter"} /\ a = "routes" /\ read.for # "context"  BY <1>1
<1>10. read' = [at |-> a, for |-> read.for, next |-> n,
                found |-> Overlaid([m \in s |-> mem[m]], read.found), matches |-> read.matches,
                blocked |-> read.blocked, ask |-> read.ask, rejected |-> read.rejected,
                pack |-> read.pack]
  BY <1>8, Zenon
<1> HIDE DEF a
<1> QED  BY <1>1, <1>6, <1>7, <1>9, <1>10, Finds

\* The search tool answers.
LEMMA AnswerKeeps ==
    ASSUME SceneInv, StoreInv, ReadInv, FinishSearch
    PROVE  ReadInv'
<1>1. /\ RestUnchanged /\ Noted /\ read.at = "routes" /\ read.for = "search"
      /\ read' = [read EXCEPT !.at = "told"]
  BY DEF FinishSearch
<1>2. read' = [at |-> "told", for |-> read.for, next |-> read.next, found |-> read.found,
               matches |-> read.matches, blocked |-> read.blocked, ask |-> read.ask,
               rejected |-> read.rejected, pack |-> read.pack]
  BY <1>1, Ended, Zenon DEF ReadInv
<1>3. /\ read'.at = "told" /\ read'.for = "search" /\ read'.next = read.next
      /\ read'.found = read.found /\ read'.matches = read.matches
      /\ read'.blocked = read.blocked /\ read'.ask = read.ask
      /\ read'.rejected = read.rejected /\ read'.pack = read.pack
  BY <1>1, <1>2
<1>4. ReadShape'
  <2>1. read' = [at |-> read'.at, for |-> read'.for, next |-> read'.next, found |-> read'.found,
                 matches |-> read'.matches, blocked |-> read'.blocked, ask |-> read'.ask,
                 rejected |-> read'.rejected, pack |-> read'.pack]
    BY <1>2, <1>3
  <2> QED  BY <1>3, <2>1 DEF ReadShape
<1>5. FoundInv'
  <2>1. /\ DOMAIN read.found \subseteq Stored /\ DOMAIN read.found \subseteq since
        /\ \A m \in DOMAIN read.found : IsMemory(read.found[m])
    BY <1>1 DEF ReadInv, FoundInv
  <2>2. Stored' = Stored  BY <1>1, ReadRest
  <2>3. since \subseteq since'  BY <1>1, SinceGrows
  <2> QED  BY <1>3, <2>1, <2>2, <2>3 DEF FoundInv
<1>6. BuildInv'  BY <1>3 DEF BuildInv
<1> QED  BY <1>4, <1>5, <1>6 DEF ReadInv

\* What a pack of the selected memories is.
LEMMA PackTold ==
    ASSUME SceneInv, StoreInv, ReadInv, read.at = "filter",
           NEW r \in Rankings([m \in Selected |-> read.found[m]]),
           NEW p \in Packs(read.ask, [m \in Selected |-> read.found[m]], r)
    PROVE  /\ p.told \cup p.dropped = Selected /\ p.told \cap p.dropped = {}
           /\ Fits(read.ask, read.found, p)
           /\ read.ask.current \in DOMAIN p.kept
           /\ read.ask.quote # 0 => read.ask.quote \in DOMAIN p.kept
           /\ \A i \in DOMAIN p.kept : read.ask.messages[i].conv = scene.conv
           /\ \A i \in DOMAIN p.kept \ {read.ask.quote} :
                \A j \in DOMAIN read.ask.messages : j > i => j \in DOMAIN p.kept
           /\ \A m \in p.dropped : ~Fits(read.ask, read.found, With(p, m))
<1> DEFINE found == [m \in Selected |-> read.found[m]]
           ask == Load
<1>0. read.for = "context"  BY DEF ReadInv, ReadShape
<1>1. read.ask = ask  BY <1>0 DEF ReadInv, BuildInv
<1>2. /\ AskOK(ask)
      /\ ask.current \in DOMAIN ask.messages
      /\ ask.quote \in DOMAIN ask.messages \cup {0}
      /\ \A i \in DOMAIN ask.messages : ask.messages[i].conv = scene.conv /\ i <= ask.current
  BY LoadOK
<1>3. DOMAIN found = Selected /\ \A m \in Selected : found[m] = read.found[m]  OBVIOUS
<1>4. r \in SetToSeqs(DOMAIN found \ Range(PriorityProfiles(found)))  BY DEF Rankings
<1> HIDE DEF found, ask
<1>5. Selected \subseteq DOMAIN read.found /\ DOMAIN read.found \subseteq Memory
  BY DEF Selected, ReadInv, FoundInv, Stored
<1>6. FoundOK(found)
  <2>1. IsFiniteSet(Selected)  BY <1>5, ContextAssumption, FS_Subset
  <2>2. \A m \in Selected : IsMemory(read.found[m])  BY <1>5, Zenon DEF ReadInv, FoundInv
  <2>3. \A m \in Selected : read.found[m].size \in Nat /\ read.found[m].sure \in Nat
    BY <2>2, Zenon DEF IsMemory
  <2> QED  BY <1>3, <2>1, <2>3 DEF FoundOK
<1>7. p \in Packs(ask, found, r)  BY <1>1 DEF found
<1>8. /\ GoodPack(ask, found, p)
      /\ p.told \cup p.dropped = DOMAIN found
      /\ {ask.current} \cup ({ask.quote} \ {0}) \subseteq DOMAIN p.kept
      /\ \A i \in DOMAIN p.kept \ {ask.current, ask.quote} :
            \A j \in DOMAIN ask.messages \ {ask.current, ask.quote} :
                j > i => j \in DOMAIN p.kept
  BY <1>2, <1>4, <1>6, <1>7, PacksSound
<1>9. /\ PackOK(ask, found, p) /\ Fits(ask, found, p) /\ p.told \cap p.dropped = {}
      /\ \A m \in p.dropped : ~Fits(ask, found, With(p, m))
  BY <1>8 DEF GoodPack
<1>10. \A m \in Selected : found[m] = read.found[m]  BY <1>3
<1>11. p.told \subseteq Selected /\ p.dropped \subseteq Selected  BY <1>3, <1>8
<1>12. Fits(ask, read.found, p)
  <2>1. \A m \in p.told : found[m] = read.found[m]  BY <1>10, <1>11
  <2> QED  BY <1>9, <2>1, FitsByTold
<1>13. \A m \in p.dropped : ~Fits(ask, read.found, With(p, m))
  <2>1. SUFFICES ASSUME NEW m \in p.dropped PROVE ~Fits(ask, read.found, With(p, m))
    OBVIOUS
  <2> DEFINE q == With(p, m)
  <2>2. q.told = p.told \cup {m}
    <3>1. PICK k, t, d : p = [kept |-> k, told |-> t, dropped |-> d]  BY <1>9 DEF PackOK
    <3> QED  BY <3>1 DEF With
  <2>3. ~Fits(ask, found, q)  BY <1>9
  <2> HIDE DEF q
  <2>4. \A n \in q.told : found[n] = read.found[n]  BY <1>10, <1>11, <2>2
  <2>5. ~Fits(ask, read.found, q)  BY <2>3, <2>4, FitsByTold
  <2> QED  BY <2>5 DEF q
<1>14. DOMAIN p.kept \subseteq DOMAIN ask.messages  BY <1>9 DEF PackOK
<1>15. \A i \in DOMAIN p.kept \ {ask.quote} :
         \A j \in DOMAIN ask.messages : j > i => j \in DOMAIN p.kept
  <2>1. SUFFICES ASSUME NEW i \in DOMAIN p.kept \ {ask.quote}, NEW j \in DOMAIN ask.messages, j > i
                 PROVE  j \in DOMAIN p.kept
    OBVIOUS
  <2>2. i \in Nat /\ j \in Nat /\ ask.current \in Nat /\ j # 0  BY <1>2, <1>14 DEF AskOK
  <2>3. j <= ask.current  BY <1>2
  <2>4. i # ask.current  BY <2>1, <2>2, <2>3
  <2>5. CASE j \in {ask.current, ask.quote}  BY <1>8, <2>2, <2>5
  <2>6. CASE j \notin {ask.current, ask.quote}  BY <1>8, <2>1, <2>4, <2>6
  <2> QED  BY <2>5, <2>6
<1>16. ask.quote # 0 => ask.quote \in DOMAIN p.kept  BY <1>8
<1>17. ask.current \in DOMAIN p.kept  BY <1>8
<1>18. \A i \in DOMAIN p.kept : ask.messages[i].conv = scene.conv  BY <1>2, <1>14
<1> QED  BY <1>1, <1>3, <1>8, <1>9, <1>12, <1>13, <1>15, <1>16, <1>17, <1>18

\* A build filters, ranks and packs, or fails.
LEMMA BuildKeeps ==
    ASSUME SceneInv, StoreInv, ReadInv, FinishBuild
    PROVE  ReadInv'
<1> DEFINE found == [m \in Selected |-> read.found[m]]
           packs == UNION {Packs(read.ask, found, r) : r \in Rankings(found)}
<1>1. RestUnchanged /\ Noted /\ read.at = "filter"  BY DEF FinishBuild
<1>2. \/ read' = [NoRead EXCEPT !.at = "failed", !.for = "context"]
      \/ \E p \in packs : read' = [read EXCEPT !.at = "told", !.rejected = read.blocked \cup Refused,
                                                !.pack = p]
  BY Zenon DEF FinishBuild
<1>3. CASE read' = [NoRead EXCEPT !.at = "failed", !.for = "context"]
  <2>1. read' = [at |-> "failed", for |-> "context", next |-> 0, found |-> <<>>, matches |-> {},
                 blocked |-> {}, ask |-> None, rejected |-> {}, pack |-> None]
    BY <1>3 DEF NoRead
  <2>2. /\ read'.at = "failed" /\ read'.for = "context" /\ read'.next = 0 /\ read'.found = <<>>
        /\ read'.matches = {} /\ read'.blocked = {} /\ read'.ask = None
        /\ read'.rejected = {} /\ read'.pack = None
    BY <2>1
  <2>3. DOMAIN read'.found = {}  BY <2>2
  <2>4. ReadShape'  BY <2>2, <2>1 DEF ReadShape
  <2>5. FoundInv'  BY <2>2, <2>3 DEF FoundInv
  <2>6. BuildInv'  BY <2>2 DEF BuildInv
  <2> QED  BY <2>4, <2>5, <2>6 DEF ReadInv
<1>4. ASSUME NEW p \in packs,
             read' = [read EXCEPT !.at = "told", !.rejected = read.blocked \cup Refused, !.pack = p]
      PROVE  ReadInv'
  <2>0. read.for = "context"  BY <1>1 DEF ReadInv, ReadShape
  <2>1. PICK r \in Rankings(found) : p \in Packs(read.ask, found, r)  OBVIOUS
  <2> DEFINE x == read.blocked \cup Refused
  <2>2. read' = [at |-> "told", for |-> read.for, next |-> read.next, found |-> read.found,
                 matches |-> read.matches, blocked |-> read.blocked, ask |-> read.ask,
                 rejected |-> x, pack |-> p]
    BY <1>4, Packed, Zenon DEF ReadInv
  <2> HIDE DEF x
  <2>3. /\ read'.at = "told" /\ read'.for = read.for /\ read'.next = read.next
        /\ read'.found = read.found /\ read'.matches = read.matches
        /\ read'.blocked = read.blocked /\ read'.ask = read.ask
        /\ read'.rejected = x /\ read'.pack = p
    BY <2>2
  <2>4. ReadShape'
    <3>1. read' = [at |-> read'.at, for |-> read'.for, next |-> read'.next, found |-> read'.found,
                   matches |-> read'.matches, blocked |-> read'.blocked, ask |-> read'.ask,
                   rejected |-> read'.rejected, pack |-> read'.pack]
      BY <2>2, <2>3
    <3>2. read'.at = "told" /\ read'.for \in {"context", "search"}  BY <2>0, <2>3
    <3> QED  BY <3>1, <3>2 DEF ReadShape
  <2>r. /\ scene' = scene /\ Stored' = Stored /\ Load' = Load  BY <1>1, ReadRest
  <2>5. FoundInv'
    <3>1. since \subseteq since'  BY <1>1, SinceGrows
    <3>2. /\ DOMAIN read.found \subseteq Stored
          /\ \A m \in DOMAIN read.found : IsMemory(read.found[m])
          /\ \A m \in DOMAIN read.found : ~Rejected(read.found[m]) => m \in since
          /\ read.matches \subseteq Stored \cap since
      BY <2>0, Zenon DEF ReadInv, FoundInv
    <3>3. \A m \in DOMAIN read'.found : ~Rejected(read.found[m])' => m \in since'
      <4>1. SUFFICES ASSUME NEW m \in DOMAIN read.found, ~Rejected(read.found[m])' PROVE m \in since'
        BY <2>3
      <4>2. Rejected(read.found[m])' = Rejected(read.found[m])
        BY <2>3, <2>r, Zenon DEF Rejected, InGroup
      <4> QED  BY <3>1, <3>2, <4>1, <4>2
    <3>4. /\ DOMAIN read'.found \subseteq Stored'
          /\ \A m \in DOMAIN read'.found : IsMemory(read'.found[m])
          /\ read'.matches \subseteq Stored' \cap since'
          /\ read'.for # "search"
      BY <2>0, <2>3, <2>r, <3>1, <3>2
    <3> QED  BY <3>3, <3>4, Zenon DEF FoundInv
  <2>6. BuildInv'
    <3>1. read.ask = Load  BY <1>1, <2>0 DEF ReadInv, BuildInv
    <3>2. Refused' = Refused  BY <2>3, <2>r DEF Refused, Rejected, InGroup
    <3>3. Selected' = Selected  BY <2>3, <3>2 DEF Selected
    <3>4. /\ p.told \cup p.dropped = Selected /\ p.told \cap p.dropped = {}
          /\ Fits(read.ask, read.found, p)
          /\ read.ask.current \in DOMAIN p.kept
          /\ read.ask.quote # 0 => read.ask.quote \in DOMAIN p.kept
          /\ \A i \in DOMAIN p.kept : read.ask.messages[i].conv = scene.conv
          /\ \A i \in DOMAIN p.kept \ {read.ask.quote} :
               \A j \in DOMAIN read.ask.messages : j > i => j \in DOMAIN p.kept
          /\ \A m \in p.dropped : ~Fits(read.ask, read.found, With(p, m))
      BY <1>1, <2>1, PackTold
    <3>5. PromptIsWhole'  BY <2>3, <2>r, <3>4 DEF PromptIsWhole
    <3>6. DroppedDoNotFit'  BY <2>3, <3>4 DEF DroppedDoNotFit, With
    <3>7. read'.rejected = read'.blocked \cup Refused'  BY <2>3, <3>2 DEF x
    <3>8. /\ read'.ask = Load'
          /\ read'.pack.told \cup read'.pack.dropped = Selected'
          /\ read'.pack.told \cap read'.pack.dropped = {}
      BY <2>3, <2>r, <3>1, <3>3, <3>4
    <3> QED  BY <3>5, <3>6, <3>7, <3>8, Zenon DEF BuildInv
  <2> QED  BY <2>4, <2>5, <2>6 DEF ReadInv
<1> QED  BY <1>2, <1>3, <1>4

(***************************************************************************)
(* The invariant, and what it is for.                                       *)
(***************************************************************************)

ContextInv == SceneInv /\ StoreInv /\ ReadInv /\ ToolInv /\ IndexInv /\ ConsentInv

\* The invariant holds at the start.
LEMMA ContextStarts ==
    ContextInit => ContextInv
<1> SUFFICES ASSUME ContextInit PROVE ContextInv
  OBVIOUS
<1>1. SceneInv /\ StoreInv  BY SceneInit
<1>2. ReadInv
  <2>1. read = [at |-> "idle", for |-> None, next |-> 0, found |-> <<>>, matches |-> {},
                blocked |-> {}, ask |-> None, rejected |-> {}, pack |-> None]
    BY DEF ContextInit, NoRead
  <2>2. /\ read.at = "idle" /\ read.for = None /\ read.next = 0 /\ read.found = <<>>
        /\ read.matches = {} /\ read.blocked = {} /\ read.ask = None
        /\ read.rejected = {} /\ read.pack = None
    BY <2>1
  <2>3. DOMAIN read.found = {}  BY <2>2
  <2>4. ReadShape  BY <2>1, <2>2 DEF ReadShape
  <2>5. FoundInv  BY <2>2, <2>3 DEF FoundInv
  <2>6. BuildInv  BY <2>2 DEF BuildInv
  <2> QED  BY <2>4, <2>5, <2>6 DEF ReadInv
<1>3. ToolInv
  <2>1. tool = [at |-> "idle", call |-> None, memory |-> None, vis |-> None]  BY DEF ContextInit
  <2>2. tool.at = "idle" /\ tool.call = None /\ tool.memory = None /\ tool.vis = None  BY <2>1
  <2> QED  BY <2>1, <2>2 DEF ToolInv
<1>4. IndexInv
  <2>1. index \in [Memory -> {0, 1}] /\ worker = [at |-> "idle", batch |-> <<>>]  BY DEF ContextInit
  <2>2. worker.batch = <<>>  BY <2>1
  <2>3. DOMAIN worker.batch = {}  BY <2>2
  <2>4. index \in [Memory -> Nat]  BY <2>1
  <2> QED  BY <2>3, <2>4 DEF IndexInv
<1>5. ConsentInv  BY DEF ContextInit, ConsentInv
<1> QED  BY <1>1, <1>2, <1>3, <1>4, <1>5 DEF ContextInv

\* A conversation stays what it is.
LEMMA SceneStays == ASSUME SceneInv, scene' = scene PROVE SceneInv'
BY Zenon DEF SceneInv, InGroup

\* A step that leaves the read alone forgets nothing.
LEMMA NotesGrow == ASSUME Noted, read' = read PROVE since \subseteq since'
BY DEF Noted

\* The steps of a build and of a search keep the invariant.
LEMMA ReadingKeeps ==
    ASSUME ContextInv, Build \/ Search
    PROVE  ContextInv'
<1>1. SceneInv /\ StoreInv /\ ReadInv /\ ToolInv /\ IndexInv /\ ConsentInv  BY DEF ContextInv
<1>2. RestUnchanged
  BY DEF Build, Search, StartBuild, SemanticAnswers, ReadPolicy, ReadRoute, ReadMatches,
         FinishBuild, StartSearch, SearchRoute, FinishSearch
<1>3. UNCHANGED <<scene, mem, policy, opted, unlinked, index, worker, tool>>
  BY <1>2 DEF RestUnchanged
<1>4. ReadInv'
  <2>1. CASE StartBuild \/ StartSearch  BY <1>1, <2>1, StartKeeps
  <2>2. CASE SemanticAnswers  BY <1>1, <2>2, SemanticKeeps
  <2>3. CASE ReadPolicy  BY <1>1, <2>3, PolicyKeeps
  <2>4. CASE ReadRoute  BY <1>1, <2>4, RouteKeeps
  <2>5. CASE ReadMatches  BY <1>1, <2>5, MatchesKeep
  <2>6. CASE FinishBuild  BY <1>1, <2>6, BuildKeeps
  <2>7. CASE SearchRoute  BY <1>1, <2>7, SearchKeeps
  <2>8. CASE FinishSearch  BY <1>1, <2>8, AnswerKeeps
  <2> QED  BY <2>1, <2>2, <2>3, <2>4, <2>5, <2>6, <2>7, <2>8 DEF Build, Search
<1>5. StoreInv' /\ Stored' = Stored /\ Grows  BY <1>1, <1>3, StoreStays
<1>6. SceneInv'  BY <1>1, <1>3, SceneStays
<1>7. ToolInv'  BY <1>1, <1>3, <1>5, ToolStays
<1>8. IndexInv'  BY <1>1, <1>3, <1>5, IndexKeeps
<1>9. ConsentInv'  BY <1>1, <1>3 DEF ConsentInv
<1> QED  BY <1>4, <1>5, <1>6, <1>7, <1>8, <1>9 DEF ContextInv

\* So do those of the worker, the tools and the other process.
LEMMA WritingKeeps ==
    ASSUME ContextInv,
           Index \/ Tools \/ GovernMemory \/ ChangeConsent \/ Unlink \/ UNCHANGED contextVars
    PROVE  ContextInv'
<1>1. SceneInv /\ StoreInv /\ ReadInv /\ ToolInv /\ IndexInv /\ ConsentInv  BY DEF ContextInv
<1>2. scene' = scene /\ read' = read
  BY DEF Index, Snapshot, WriteVectors, WorkerFails, Tools, CallTool, HandleTool, CommitTool,
         ToolRest, GovernMemory, ChangeConsent, Unlink, WriteRest, contextVars
<1>3. since \subseteq since'
  <2>1. CASE UNCHANGED contextVars  BY <2>1 DEF contextVars
  <2>2. CASE Noted  BY <1>2, <2>2, NotesGrow
  <2> QED  BY <2>1, <2>2 DEF Index, Snapshot, WriteVectors, WorkerFails, Tools, CallTool,
         HandleTool, CommitTool, GovernMemory, ChangeConsent, Unlink
<1>4. StoreInv' /\ Grows
  <2>1. CASE GovernMemory  BY <1>1, <2>1, GovernKeeps
  <2>2. CASE CommitTool  BY <1>1, <2>2, ToolCommitKeeps
  <2>3. CASE UNCHANGED mem  BY <1>1, <2>3, StoreStays
  <2> QED  BY <2>1, <2>2, <2>3 DEF Index, Snapshot, WriteVectors, WorkerFails, Tools, CallTool,
         HandleTool, ChangeConsent, Unlink, contextVars
<1>5. ReadInv'  BY <1>1, <1>2, <1>3, <1>4, ReadStays
<1>6. SceneInv'  BY <1>1, <1>2, SceneStays
<1>7. ToolInv'
  <2>1. CASE Tools  BY <1>1, <2>1, ToolKeeps
  <2>2. CASE GovernMemory
    <3>1. Stored' = Stored /\ \A n \in Memory \ Stored : mem'[n] = mem[n]  BY <1>1, <2>2, GovernKeeps
    <3>2. tool' = tool  BY <2>2 DEF GovernMemory, WriteRest
    <3> QED  BY <1>1, <1>2, <3>1, <3>2, ToolStays
  <2>3. CASE UNCHANGED <<mem, tool>>
    <3>1. Stored' = Stored  BY <1>1, <2>3, StoreStays
    <3> QED  BY <1>1, <1>2, <2>3, <3>1, ToolStays
  <2> QED  BY <2>1, <2>2, <2>3 DEF Index, Snapshot, WriteVectors, WorkerFails,
         ChangeConsent, Unlink, WriteRest, contextVars
<1>8. IndexInv'
  <2>1. CASE UNCHANGED <<index, worker>>  BY <1>1, <1>4, <2>1, IndexKeeps
  <2>2. CASE Index  BY <1>1, <1>4, <2>2, IndexKeeps DEF Index
  <2> QED  BY <2>1, <2>2 DEF Tools, CallTool, HandleTool, CommitTool, ToolRest, GovernMemory,
         ChangeConsent, Unlink, WriteRest, contextVars
<1>9. ConsentInv'
  <2>1. CASE UNCHANGED <<opted, unlinked>>  BY <1>1, <1>2, <2>1, ConsentKeeps
  <2>2. CASE ChangeConsent \/ Unlink  BY <1>1, <1>2, <2>2, ConsentKeeps
  <2> QED  BY <2>1, <2>2 DEF Index, Snapshot, WriteVectors, WorkerFails, Tools, CallTool,
         HandleTool, CommitTool, ToolRest, GovernMemory, contextVars
<1> QED  BY <1>4, <1>5, <1>6, <1>7, <1>8, <1>9 DEF ContextInv

\* And so does every step.
LEMMA ContextSteps ==
    ContextInv /\ [ContextNext]_contextVars => ContextInv'
BY ReadingKeeps, WritingKeeps DEF ContextNext

\* What the invariant says of the store, the index and the read holds always.
THEOREM ContextInvariant ==
    ContextSpec => []ContextInv
BY ContextStarts, ContextSteps, PTL DEF ContextSpec

\* The invariant implies what the runs check of builds and searches.
LEMMA ContextSound ==
    ContextInv => TellableAndTraced /\ PromptFits
<1> SUFFICES ASSUME ContextInv PROVE TellableAndTraced /\ PromptFits
  OBVIOUS
<1>1. SceneInv /\ StoreInv /\ ReadShape /\ FoundInv /\ BuildInv /\ ToolInv /\ IndexInv
  BY DEF ContextInv, ReadInv
<1>2. ContextTypeOK
  <2>1. /\ mem = [m \in Memory |-> mem[m]] /\ \A m \in Memory : IsMemory(mem[m])
    BY <1>1, Zenon DEF StoreInv
  <2>2. /\ index \in [Memory -> Nat]
        /\ \A m \in DOMAIN worker.batch : worker.batch[m] <= mem[m].revision
    BY <1>1, Zenon DEF IndexInv
  <2>3. read.at \in {"idle", "asking", "policy", "routes", "filter", "told", "failed"}
    BY <1>1, Zenon DEF ReadShape
  <2>4. DOMAIN read.found \subseteq Stored  BY <1>1, Zenon DEF FoundInv
  <2>5. tool.at \in {"idle", "review", "prepared", "over"}  BY <1>1, Zenon DEF ToolInv
  <2> QED  BY <2>1, <2>2, <2>3, <2>4, <2>5, Zenon DEF ContextTypeOK
<1>3. read.at = "told" => read.for \in {"context", "search"}  BY <1>1 DEF ReadShape
<1>4. read.at = "told" /\ read.for = "context" =>
        /\ read.rejected = read.blocked \cup Refused
        /\ read.pack.told \cup read.pack.dropped = Selected
        /\ read.pack.told \cap read.pack.dropped = {}
        /\ PromptIsWhole /\ DroppedDoNotFit
  BY <1>1, Zenon DEF BuildInv
<1>5. OnlyTheTellable
  <2>1. CASE read.for = "search"
    <3>1. DOMAIN read.found \subseteq since  BY <1>1, <2>1 DEF FoundInv
    <3> QED  BY <2>1, <3>1 DEF OnlyTheTellable, Told
  <2>2. CASE read.at = "told" /\ read.for = "context"
    <3>1. read.pack.told \subseteq Selected  BY <1>4, <2>2
    <3>2. \A m \in Selected : m \in DOMAIN read.found /\ ~Rejected(read.found[m])
      BY DEF Selected, Refused
    <3>3. \A m \in DOMAIN read.found : ~Rejected(read.found[m]) => m \in since
      BY <1>1, <2>2, Zenon DEF FoundInv
    <3>4. read.pack.told \subseteq since  BY <3>1, <3>2, <3>3
    <3> QED  BY <2>2, <3>4 DEF OnlyTheTellable, Told
  <2> QED  BY <1>3, <2>1, <2>2 DEF OnlyTheTellable
<1>6. OneVerdictEach
  <2>1. Refused \subseteq DOMAIN read.found  BY DEF Refused
  <2> QED  BY <1>4, <2>1 DEF OneVerdictEach, Candidates, Selected
<1>7. PromptIsWhole /\ DroppedDoNotFit
  <2>1. CASE read.at = "told" /\ read.for = "context"  BY <1>4, <2>1
  <2>2. CASE ~(read.at = "told" /\ read.for = "context")
    BY <2>2, Zenon DEF PromptIsWhole, DroppedDoNotFit
  <2> QED  BY <2>1, <2>2
<1> QED  BY <1>2, <1>5, <1>6, <1>7 DEF TellableAndTraced, PromptFits

\* Whatever a prompt holds or memory.search answers could have been told in its conversation
\* at some moment of the read, and every candidate has exactly one verdict: for any records,
\* any scenes and any writes of another process between two statements (context-builder.ts).
THEOREM TellableAndTracedAlways ==
    ContextSpec => []TellableAndTraced
<1>1. ContextInv => TellableAndTraced  BY ContextSound
<1> QED  BY <1>1, ContextInvariant, PTL

\* A prompt fits its budget, holds the current message and a resolved quote, leaves no gap
\* in the recent messages, and leaves no memory out that would still fit: for any sizes and
\* any budget (context-budget of context-builder.ts).
THEOREM PromptFitsAlways ==
    ContextSpec => []PromptFits
<1>1. ContextInv => PromptFits  BY ContextSound
<1> QED  BY <1>1, ContextInvariant, PTL

\* An embedding is written only of a record as it is, and a tool call changes only what it may
\* still change when its review is over: for any records and any writes in between.
THEOREM WritesAreCurrentAlways ==
    ContextSpec => WritesAreCurrent
<1>1. ContextInv /\ [ContextNext]_contextVars =>
        [\A m \in Memory : index'[m] # index[m] =>
            index'[m] = mem[m].revision /\ Eligible(mem[m])]_contextVars
  <2>1. ASSUME ContextNext
        PROVE  WriteVectors \/ UNCHANGED index
    BY <2>1 DEF ContextNext, Build, Search, StartBuild, SemanticAnswers, ReadPolicy, ReadRoute,
         ReadMatches, FinishBuild, StartSearch, SearchRoute, FinishSearch, RestUnchanged,
         Index, Snapshot, WorkerFails, Tools, CallTool, HandleTool, CommitTool, ToolRest,
         GovernMemory, ChangeConsent, Unlink, WriteRest
  <2> QED  BY <2>1, EmbeddingStep
<1>2. ContextInv /\ [ContextNext]_contextVars =>
        [tool'.at # tool.at /\ mem' # mem =>
          \/ mem[tool.memory].state = "active" /\ mem'[tool.memory].state = "disabled"
          \/ /\ mem[tool.memory].state = "absent"
             /\ mem'[tool.memory].user \notin opted \cup unlinked
             /\ InGroup => \/ mem'[tool.memory].vis = "owner_admin_only"
                           \/ mem'[tool.memory].group = scene.group]_contextVars
  <2>1. ASSUME ContextNext
        PROVE  CommitTool \/ UNCHANGED mem \/ UNCHANGED tool
    BY <2>1 DEF ContextNext, Build, Search, StartBuild, SemanticAnswers, ReadPolicy, ReadRoute,
         ReadMatches, FinishBuild, StartSearch, SearchRoute, FinishSearch, RestUnchanged,
         Index, Snapshot, WriteVectors, WorkerFails, Tools, CallTool, HandleTool, ToolRest,
         GovernMemory, ChangeConsent, Unlink, WriteRest
  <2>2. ASSUME ContextInv, CommitTool, mem' # mem
        PROVE  \/ mem[tool.memory].state = "active" /\ mem'[tool.memory].state = "disabled"
               \/ /\ mem[tool.memory].state = "absent"
                  /\ mem'[tool.memory].user \notin opted \cup unlinked
                  /\ InGroup => \/ mem'[tool.memory].vis = "owner_admin_only"
                                \/ mem'[tool.memory].group = scene.group
    BY <2>2, ToolStep DEF ContextInv
  <2> QED  BY <2>1, <2>2
<1>3. ContextSpec => EmbeddingsAreOfTheLiving
  BY <1>1, ContextInvariant, PTL DEF ContextSpec, EmbeddingsAreOfTheLiving
<1>4. ContextSpec => ToolsRespectTheMoment
  BY <1>2, ContextInvariant, PTL DEF ContextSpec, ToolsRespectTheMoment
<1> QED  BY <1>3, <1>4 DEF WritesAreCurrent
=============================================================================
