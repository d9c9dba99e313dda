------------------------------ MODULE AgentRun ------------------------------
(***************************************************************************)
(* One agent run of a conversation turn: PiAdapter.runTurn with its pool of *)
(* agent slots, the provider rounds and their finalisation, the tool calls  *)
(* of a round with policy gate, evaluator review, handler, prepared local   *)
(* effect and terminal evidence, the run's deadline and abort, and the end  *)
(* of the turn in the database (src/src/pi/pi-adapter.ts,                   *)
(* src/src/evaluator/model-evaluator.ts, src/src/tools/registry.ts,         *)
(* src/src/storage/local-tool-effect-coordinator.ts, turn-repository.ts).   *)
(* The Pi agent loop itself is a library: it asks for a round, runs the     *)
(* tool the answer names and asks again, until an answer names none.        *)
(***************************************************************************)
EXTENDS InvocationLedger, Sequences

CONSTANTS Slot,         \* agent slots, made on demand and kept for reuse
          Tool,         \* registered tools
          Reviewed,     \* those whose evaluatorPolicy is required
          Permits,      \* <<turn, tool>>: the turn's actor and context may use the tool
          Prepared,     \* those whose handler returns a PreparedLocalToolEffect
          None,         \* no turn, no slot, no tool
          MaxMishaps    \* storage outages, enable / disable calls and crashes, together

ASSUME AgentRunAssumption ==
    /\ Reviewed \subseteq Tool /\ Prepared \subseteq Tool
    /\ Permits \subseteq Turn \X Tool
    /\ None \notin Turn \cup Slot \cup Tool
    /\ MaxMishaps \in Nat

(* A slot is made whenever all others are taken, so there is one however    *)
(* the other turns hold theirs.                                             *)
ASSUME SlotAssumption ==
    /\ Slot # {}
    /\ \A t \in Turn : \A held \in [Turn \ {t} -> Slot] :
          \E s \in Slot : \A u \in Turn \ {t} : held[u] # s

VARIABLES pc,           \* where the run of each turn is
          round,        \* session.providerCallNumber
          call,         \* the evaluator call of the round's request in progress
          tool,         \* the tool the last answer named
          offered,      \* session.providerToolNameToCanonical
          verdict,      \* the evaluator's answer, until it is recorded
          late,         \* deadlineReached, session.providerAbortCode is turn_timeout
          err,          \* agent.state.errorMessage is set
          finErr,       \* session.invocationFinalizationError is set
          fin,          \* session.pendingInvocationFinalizations
          out,          \* what runTurn returned
          slotOf,       \* session.slot
          session,      \* slot.session
          idle,         \* idleAgentSlots, a stack
          disabled,     \* ToolRegistry.disabledTools
          toolCall,     \* tool_calls: the status recorded for a round's call
          audited,      \* audit_log: calls with a tool audit entry
          effect,       \* local effects in the database
          ran,          \* the tool whose handler was started for a call
          mishaps

sessionVars == <<pc, round, call, tool, offered, verdict, late, err, finErr, fin, out, slotOf>>
poolVars == <<session, idle>>
evidenceVars == <<toolCall, audited, effect, ran>>
boundVars == <<disabled, mishaps>>
vars == <<ledgerVars, sessionVars, poolVars, evidenceVars, boundVars>>

InRun == {"loop", "stream", "tool", "execute", "review", "decide", "approved", "handler", "stopped"}
Call == {<<t, n>> : t \in Turn, n \in 1..MaxRounds}
Answer == {"error", "aborted", "tools", "final"}

(* Shape of every variable.                                                 *)
TypeOK ==
    /\ LedgerTypeOK
    /\ pc \in [Turn -> InRun \cup {"none", "ready", "returned", "done"}]
    /\ round \in [Turn -> 0..MaxRounds] /\ call \in [Turn -> 0..2]
    /\ tool \in [Turn -> Tool \cup {None}] /\ offered \in [Turn -> SUBSET Tool]
    /\ verdict \in [Turn -> Verdict \cup {"none"}]
    /\ late \in [Turn -> BOOLEAN] /\ err \in [Turn -> BOOLEAN] /\ finErr \in [Turn -> BOOLEAN]
    /\ fin \in [Turn -> SUBSET ((1..MaxRounds) \X Answer)]
    /\ out \in [Turn -> {"none", "completed", "failed"}]
    /\ slotOf \in [Turn -> Slot \cup {None}]
    /\ session \in [Slot -> Turn \cup {None}]
    /\ idle \in Seq(Slot)
    /\ disabled \subseteq Tool
    /\ toolCall \in [Call -> {"none", "success", "error", "rejected"}]
    /\ audited \subseteq Call /\ effect \subseteq Call /\ ran \in [Call -> Tool \cup {None}]
    /\ mishaps \in 0..MaxMishaps

FirstSlot == CHOOSE s \in Slot : TRUE

Init ==
    /\ LedgerInit
    /\ pc = [t \in Turn |-> "none"]
    /\ round = [t \in Turn |-> 0] /\ call = [t \in Turn |-> 0]
    /\ tool = [t \in Turn |-> None] /\ offered = [t \in Turn |-> {}]
    /\ verdict = [t \in Turn |-> "none"]
    /\ late = [t \in Turn |-> FALSE] /\ err = [t \in Turn |-> FALSE]
    /\ finErr = [t \in Turn |-> FALSE] /\ fin = [t \in Turn |-> {}]
    /\ out = [t \in Turn |-> "none"] /\ slotOf = [t \in Turn |-> None]
    /\ session = [s \in Slot |-> None] /\ idle = <<FirstSlot>>
    /\ disabled = {}
    /\ toolCall = [c \in Call |-> "none"] /\ audited = {} /\ effect = {}
    /\ ran = [c \in Call |-> None]
    /\ mishaps = 0

Goto(t, where) == pc' = [pc EXCEPT ![t] = where]
NoFault == UNCHANGED mishaps

(* n writes of this step fail, in one outage of the storage.                *)
Faults(n) ==
    /\ n > 0 => mishaps < MaxMishaps
    /\ mishaps' = IF n > 0 THEN mishaps + 1 ELSE mishaps

(***************************************************************************)
(* The turn around the run.                                                 *)
(***************************************************************************)

(* handleMessageWithTiming creates the turn row pending, builds the context *)
(* and marks the turn running, or failed when the context cannot be built.  *)
BeginTurn(t) ==
    /\ pc[t] = "none"
    /\ \/ turn' = [turn EXCEPT ![t] = "running"] /\ Goto(t, "ready")
       \/ turn' = [turn EXCEPT ![t] = "failed"] /\ Goto(t, "done")
    /\ UNCHANGED <<attempt, inv, decision, round, call, tool, offered, verdict, late, err,
                   finErr, fin, out, slotOf, poolVars, evidenceVars, boundVars>>

(* markCompletedFromPiInvocations refuses a turn without rounds or with a   *)
(* round that did not complete.                                             *)
PiEvidence(t) ==
    LET rows == {n \in 1..MaxRounds : inv[PiRow(t, n)] # "none"}
    IN  rows # {} /\ \A n \in rows : inv[PiRow(t, n)] = "completed"

(* The turn leaves running: failed when the run did not complete, when a    *)
(* later stage failed or when the ledger does not bear it out, completed    *)
(* otherwise.                                                               *)
EndTurn(t) ==
    /\ pc[t] = "returned"
    /\ \/ /\ out[t] = "completed" /\ PiEvidence(t)
          /\ turn' = [turn EXCEPT ![t] = "completed"]
       \/ turn' = [turn EXCEPT ![t] = "failed"]
    /\ inv' = Orphaned(t)
    /\ Goto(t, "done")
    /\ out' = [out EXCEPT ![t] = "none"]
    /\ UNCHANGED <<attempt, decision, round, call, tool, offered, verdict, late, err, finErr, fin,
                   slotOf, poolVars, evidenceVars, boundVars>>

(***************************************************************************)
(* runTurn and its slot.                                                    *)
(***************************************************************************)

SlotsMade == {idle[i] : i \in 1..Len(idle)} \cup {slotOf[t] : t \in {u \in Turn : pc[u] \in InRun}}

(* acquireTurnSession: the top of the stack, or a new slot.                 *)
Acquired ==
    IF idle # <<>> THEN idle[Len(idle)] ELSE CHOOSE s \in Slot : s \notin SlotsMade

(* checkToolCall: the tool is registered, enabled, and open to the actor.   *)
Allowed(t, x) == x \notin disabled /\ <<t, x>> \in Permits

(* runTurn refuses a deadline that has passed; else it takes a slot, offers *)
(* the tools the actor may use now and starts the agent.                    *)
RunTurn(t) ==
    /\ pc[t] = "ready"
    /\ \/ /\ Goto(t, "returned") /\ out' = [out EXCEPT ![t] = "failed"]
          /\ UNCHANGED <<offered, slotOf, poolVars>>
       \/ /\ Goto(t, "loop")
          /\ slotOf' = [slotOf EXCEPT ![t] = Acquired]
          /\ session' = [session EXCEPT ![Acquired] = t]
          /\ idle' = IF idle # <<>> THEN SubSeq(idle, 1, Len(idle) - 1) ELSE idle
          /\ offered' = [offered EXCEPT ![t] = {x \in Tool : Allowed(t, x)}]
          /\ UNCHANGED out
    /\ UNCHANGED <<ledgerVars, round, call, tool, verdict, late, err, finErr, fin,
                   evidenceVars, boundVars>>

(* releaseTurnSession: the slot goes back on the stack; slot.session keeps  *)
(* naming the session until the slot is taken again.                        *)
Released(t) == IF session[slotOf[t]] = t THEN Append(idle, slotOf[t]) ELSE idle

(* The agent is idle and no finalisation is pending: what runTurn answers.  *)
(* The session's locals end with the call.                                  *)
RunStatus(t) ==
    IF late[t] \/ finErr[t] \/ err[t] THEN "failed" ELSE "completed"

MayReturn(t) == pc[t] = "stopped" /\ fin[t] = {}

Return(t) ==
    /\ MayReturn(t)
    /\ out' = [out EXCEPT ![t] = RunStatus(t)]
    /\ idle' = Released(t)
    /\ Goto(t, "returned")
    /\ round' = [round EXCEPT ![t] = 0] /\ call' = [call EXCEPT ![t] = 0]
    /\ tool' = [tool EXCEPT ![t] = None] /\ offered' = [offered EXCEPT ![t] = {}]
    /\ late' = [late EXCEPT ![t] = FALSE]
    /\ err' = [err EXCEPT ![t] = FALSE] /\ finErr' = [finErr EXCEPT ![t] = FALSE]
    /\ slotOf' = [slotOf EXCEPT ![t] = None]
    /\ UNCHANGED <<ledgerVars, verdict, fin, session, evidenceVars, boundVars>>

(* Mutant of Deadline: no timer is armed.                                   *)
DeadlineNever(t) == FALSE /\ UNCHANGED vars

(* The deadline timer of the run, which aborts the agent.                   *)
Deadline(t) ==
    /\ pc[t] \in InRun /\ ~late[t]
    /\ late' = [late EXCEPT ![t] = TRUE]
    /\ UNCHANGED <<ledgerVars, pc, round, call, tool, offered, verdict, err, finErr, fin, out,
                   slotOf, poolVars, evidenceVars, boundVars>>

(***************************************************************************)
(* Provider rounds.                                                         *)
(***************************************************************************)

(* streamProviderRound: the row is started before the provider is called.   *)
(* When the row cannot be written, or the call itself throws, the agent     *)
(* stops with an error; in the second case the row is failed first.         *)
StreamProviderRound(t) ==
    LET n == round[t] + 1
        row == PiRow(t, n)
    IN  /\ pc[t] = "loop"
        /\ CanStartPiTurn(t, n)
        /\ round' = [round EXCEPT ![t] = n]
        /\ \/ inv' = Started(row) /\ Goto(t, "stream") /\ NoFault /\ UNCHANGED err
           \/ inv' = Failed(row, "failed") /\ Goto(t, "stopped") /\ NoFault
              /\ err' = [err EXCEPT ![t] = TRUE]
           \/ Faults(1) /\ Goto(t, "stopped") /\ err' = [err EXCEPT ![t] = TRUE] /\ UNCHANGED inv
        /\ UNCHANGED <<turn, attempt, decision, call, tool, offered, verdict, late, finErr,
                       fin, out, slotOf, poolVars, evidenceVars, disabled>>

(* The stream ends: its result settles the finalisation promise, and the    *)
(* agent loop goes on with the tool it names or stops.                      *)
ProviderAnswers(t) ==
    /\ pc[t] = "stream"
    /\ \E a \in Answer :
          /\ fin' = [fin EXCEPT ![t] = @ \cup {<<round[t], a>>}]
          /\ err' = [err EXCEPT ![t] = @ \/ a \in {"error", "aborted"}]
          /\ IF a = "tools"
               THEN /\ round[t] < MaxRounds
                    /\ \E x \in offered[t] : tool' = [tool EXCEPT ![t] = x]
                    /\ Goto(t, "tool")
               ELSE Goto(t, "stopped") /\ UNCHANGED tool
    /\ UNCHANGED <<ledgerVars, round, call, offered, verdict, late, finErr, out, slotOf,
                   poolVars, evidenceVars, boundVars>>

(* What terminalizeProviderResult writes for an answer.                     *)
Terminal(a) ==
    CASE a = "error" -> "failed" [] a = "aborted" -> "aborted" [] OTHER -> "completed"

(* writeInvocationTerminal, and its catch: a first write that fails is      *)
(* followed by one that fails the row - aborted when the run was aborted,   *)
(* else failed with the error kept for the run - and that one may fail too. *)
Finalize(t) ==
    \E f \in fin[t] :
        LET row == PiRow(t, f[1])
        IN  /\ fin' = [fin EXCEPT ![t] = @ \ {f}]
            /\ \/ /\ inv' = IF CanFail(row) THEN Failed(row, Terminal(f[2])) ELSE inv
                  /\ NoFault /\ UNCHANGED finErr
               \/ /\ CanFail(row) /\ Faults(1)
                  /\ inv' = Failed(row, IF late[t] THEN "aborted" ELSE "failed")
                  /\ finErr' = [finErr EXCEPT ![t] = @ \/ ~late[t]]
               \/ /\ CanFail(row) /\ Faults(2)
                  /\ finErr' = [finErr EXCEPT ![t] = TRUE]
                  /\ UNCHANGED inv
            /\ UNCHANGED <<turn, attempt, decision, pc, round, call, tool, offered, verdict, late,
                           err, out, slotOf, poolVars, evidenceVars, disabled>>

(***************************************************************************)
(* The tool call of a round.                                                *)
(***************************************************************************)

ThisCall(t) == <<t, round[t]>>

(* auditToolCall without a prepared effect, after n writes that failed: the *)
(* row, then the audit entry, in two writes.                                *)
Recorded(t, status, n) ==
    \/ /\ toolCall' = [toolCall EXCEPT ![ThisCall(t)] = status]
       /\ audited' = audited \cup {ThisCall(t)} /\ Faults(n)
    \/ toolCall' = [toolCall EXCEPT ![ThisCall(t)] = status] /\ Faults(n + 1) /\ UNCHANGED audited
    \/ Faults(n + 1) /\ UNCHANGED <<toolCall, audited>>

(* A call that is refused: the evidence, and an error for the agent loop.   *)
Refuse(t, n) == Recorded(t, "rejected", n) /\ Goto(t, "loop")

(* beforeToolCall.                                                          *)
BeforeToolCall(t) ==
    /\ pc[t] = "tool"
    /\ \/ Allowed(t, tool[t]) /\ Goto(t, "execute") /\ NoFault /\ UNCHANGED <<toolCall, audited>>
       \/ ~Allowed(t, tool[t]) /\ Refuse(t, 0)
    /\ UNCHANGED <<ledgerVars, round, call, tool, offered, verdict, late, err, finErr, fin,
                   out, slotOf, poolVars, effect, ran, disabled>>

(* The handler is started unless the run's signal is already aborted: then  *)
(* the guard throws and the call is recorded as an error.                   *)
StartHandler(t) ==
    \/ /\ ~late[t]
       /\ ran' = [ran EXCEPT ![ThisCall(t)] = tool[t]]
       /\ Goto(t, "handler") /\ NoFault /\ UNCHANGED <<toolCall, audited>>
    \/ late[t] /\ Recorded(t, "error", 0) /\ Goto(t, "loop") /\ UNCHANGED ran

(* The wrapped execute: the policy again, then the evaluator's first call   *)
(* for a tool that requires review, else the handler.                       *)
Execute(t) ==
    LET row == EvaluatorRow(t, round[t], 1)
    IN  /\ pc[t] = "execute"
        /\ \/ ~Allowed(t, tool[t]) /\ Refuse(t, 0) /\ UNCHANGED <<inv, call, ran>>
           \/ /\ Allowed(t, tool[t]) /\ tool[t] \notin Reviewed
              /\ StartHandler(t) /\ UNCHANGED <<inv, call>>
           \/ /\ Allowed(t, tool[t]) /\ tool[t] \in Reviewed
              /\ CanStartEvaluator(t, round[t], 1)
              /\ inv' = Started(row) /\ call' = [call EXCEPT ![t] = 1]
              /\ Goto(t, "review") /\ NoFault /\ UNCHANGED <<toolCall, audited, ran>>
           \/ /\ Allowed(t, tool[t]) /\ tool[t] \in Reviewed
              /\ Refuse(t, 1) /\ UNCHANGED <<inv, call, ran>>
        /\ UNCHANGED <<turn, attempt, decision, round, tool, offered, verdict, late, err,
                       finErr, fin, out, slotOf, poolVars, effect, disabled>>

(* evaluateStructured: a valid answer completes the row; an answer with the *)
(* wrong structure fails it and, the first time, starts the correction      *)
(* call; a provider failure, the evaluator's own deadline, or a row that    *)
(* cannot be completed refuses the tool.  Without a verdict nothing runs.   *)
EvaluatorAnswers(t) ==
    LET row == EvaluatorRow(t, round[t], call[t])
        again == EvaluatorRow(t, round[t], 2)
    IN  /\ pc[t] = "review"
        /\ \/ /\ CanComplete(row) /\ inv' = Completed(row)
              /\ \E v \in Verdict : verdict' = [verdict EXCEPT ![t] = v]
              /\ Goto(t, "decide") /\ NoFault /\ UNCHANGED <<call, toolCall, audited>>
           \/ /\ call[t] = 1 /\ CanFail(row)
              /\ inv' = [Failed(row, "invalid") EXCEPT ![again] = "running"]
              /\ call' = [call EXCEPT ![t] = 2]
              /\ NoFault /\ UNCHANGED <<pc, verdict, toolCall, audited>>
           \/ /\ call[t] = 2 /\ inv' = Failed(row, "invalid")
              /\ Refuse(t, 0) /\ UNCHANGED <<call, verdict>>
           \/ /\ \E s \in {"failed", "aborted"} : inv' = Failed(row, s)
              /\ Refuse(t, 0) /\ UNCHANGED <<call, verdict>>
           \/ /\ inv' \in {inv, Failed(row, "invalid")}
              /\ Refuse(t, 1) /\ UNCHANGED <<call, verdict>>
        /\ UNCHANGED <<turn, attempt, decision, round, tool, offered, late, err, finErr, fin,
                       out, slotOf, poolVars, effect, ran, disabled>>

(* createToolDecision: the decision is bound to the completed call and      *)
(* recorded before it is followed; one that cannot be recorded refuses.     *)
Decide(t) ==
    /\ pc[t] = "decide"
    /\ verdict' = [verdict EXCEPT ![t] = "none"]
    /\ \/ /\ CanDecide(t, round[t], call[t])
          /\ decision' = Decided(t, round[t], verdict[t])
          /\ \/ verdict[t] = "approve" /\ Goto(t, "approved") /\ NoFault /\ UNCHANGED <<toolCall, audited>>
             \/ verdict[t] = "refuse" /\ Refuse(t, 0)
       \/ Refuse(t, 1) /\ UNCHANGED decision
    /\ UNCHANGED <<turn, attempt, inv, round, call, tool, offered, late, err, finErr, fin,
                   out, slotOf, poolVars, effect, ran, disabled>>

(* Mutant of Approved: the policy is not asked again after the review.      *)
ApprovedAtOnce(t) ==
    /\ pc[t] = "approved"
    /\ StartHandler(t)
    /\ UNCHANGED <<ledgerVars, round, call, tool, offered, verdict, late, err, finErr, fin,
                   out, slotOf, poolVars, effect, disabled>>

(* The policy once more: the tool may have been disabled during the review. *)
Approved(t) ==
    /\ pc[t] = "approved"
    /\ \/ Allowed(t, tool[t]) /\ StartHandler(t)
       \/ ~Allowed(t, tool[t]) /\ Refuse(t, 0) /\ UNCHANGED ran
    /\ UNCHANGED <<ledgerVars, round, call, tool, offered, verdict, late, err, finErr, fin,
                   out, slotOf, poolVars, effect, disabled>>

(* throwIfAbortedOrExpired after the handler: a run that was aborted, or a  *)
(* handler that took too long, has no success (timeout counts as error).    *)
HandlerStatus(t) == {"error"} \cup (IF ~late[t] THEN {"success"} ELSE {})

(* Mutant of CommitEffect: the effect is applied outside the transaction.   *)
CommitEffectFirst(t) ==
    /\ effect' = effect \cup {ThisCall(t)}
    /\ \/ /\ toolCall' = [toolCall EXCEPT ![ThisCall(t)] = "success"]
          /\ audited' = audited \cup {ThisCall(t)} /\ NoFault
       \/ /\ toolCall' = [toolCall EXCEPT ![ThisCall(t)] = "error"]
          /\ audited' = audited \cup {ThisCall(t)} /\ Faults(1)

(* commitEffectAndTerminal and commitTerminalPair: the local effect, its    *)
(* row and its audit entry are one transaction; when the effect's own       *)
(* checks refuse it now, or a write fails, the error is recorded as a pair, *)
(* and that may fail too.                                                   *)
CommitEffect(t) ==
    \/ /\ effect' = effect \cup {ThisCall(t)}
       /\ toolCall' = [toolCall EXCEPT ![ThisCall(t)] = "success"]
       /\ audited' = audited \cup {ThisCall(t)} /\ NoFault
    \/ /\ toolCall' = [toolCall EXCEPT ![ThisCall(t)] = "error"]
       /\ audited' = audited \cup {ThisCall(t)} /\ NoFault /\ UNCHANGED effect
    \/ Faults(2) /\ UNCHANGED <<effect, toolCall, audited>>

(* A plain success: its row and audit entry are two writes; when the row    *)
(* fails the error is recorded instead, when the audit entry fails the row  *)
(* already has the call's id and stays.                                     *)
CommitPlain(t) ==
    \/ /\ toolCall' = [toolCall EXCEPT ![ThisCall(t)] = "success"]
       /\ \/ audited' = audited \cup {ThisCall(t)} /\ NoFault
          \/ Faults(1) /\ UNCHANGED audited
    \/ Recorded(t, "error", 1)

(* The error of a handler that returned a prepared effect is a pair, of one *)
(* that threw two writes.                                                   *)
HandlerSettles(t) ==
    /\ pc[t] = "handler"
    /\ \E s \in HandlerStatus(t) :
          IF s = "success"
            THEN IF tool[t] \in Prepared THEN CommitEffect(t) ELSE CommitPlain(t) /\ UNCHANGED effect
            ELSE Recorded(t, s, 0) /\ UNCHANGED effect
    /\ Goto(t, "loop")
    /\ UNCHANGED <<ledgerVars, round, call, tool, offered, verdict, late, err, finErr, fin,
                   out, slotOf, poolVars, ran, disabled>>

(***************************************************************************)
(* The registry, and the process.                                           *)
(***************************************************************************)

(* ToolRegistry.disable and enable.                                         *)
ToggleTool ==
    /\ Faults(1)
    /\ \E x \in Tool : disabled' = IF x \in disabled THEN disabled \ {x} ELSE disabled \cup {x}
    /\ UNCHANGED <<ledgerVars, sessionVars, poolVars, evidenceVars>>

Open == {t \in Turn : pc[t] \notin {"none", "done"}}

(* The process dies and starts again.  Sessions, slots and the disabled set *)
(* are gone; recovery marks each interrupted turn aborted                   *)
(* (markAbortedByTriggerEvent), which aborts the rows it left running.      *)
CrashAndRecover ==
    /\ Open # {} /\ Faults(1)
    /\ turn' = [t \in Turn |-> IF t \in Open THEN "aborted" ELSE turn[t]]
    /\ inv' = [row \in Row |-> IF OwnerOf(row) \in Open THEN Orphaned(OwnerOf(row))[row] ELSE inv[row]]
    /\ pc' = [t \in Turn |-> IF t \in Open THEN "done" ELSE pc[t]]
    /\ round' = [t \in Turn |-> 0] /\ call' = [t \in Turn |-> 0]
    /\ tool' = [t \in Turn |-> None] /\ offered' = [t \in Turn |-> {}]
    /\ verdict' = [t \in Turn |-> "none"]
    /\ late' = [t \in Turn |-> FALSE] /\ err' = [t \in Turn |-> FALSE]
    /\ finErr' = [t \in Turn |-> FALSE] /\ fin' = [t \in Turn |-> {}]
    /\ out' = [t \in Turn |-> "none"] /\ slotOf' = [t \in Turn |-> None]
    /\ session' = [s \in Slot |-> None] /\ idle' = <<FirstSlot>>
    /\ disabled' = {}
    /\ UNCHANGED <<attempt, decision, evidenceVars>>

(* A step of the run's own code, which the event loop always reaches.       *)
Proceed(t) ==
    \/ RunTurn(t) \/ StreamProviderRound(t)
    \/ BeforeToolCall(t) \/ Execute(t) \/ Decide(t) \/ Approved(t)
    \/ Return(t) \/ EndTurn(t)

Next ==
    \/ \E t \in Turn : BeginTurn(t) \/ Proceed(t) \/ Deadline(t) \/ ProviderAnswers(t) \/ Finalize(t)
                       \/ EvaluatorAnswers(t) \/ HandlerSettles(t)
    \/ ToggleTool \/ CrashAndRecover

Spec == Init /\ [][Next]_vars

(* The deadline is a timer, the evaluator races its own timer, the handlers *)
(* settle when their signal is aborted at the latest; a provider that was   *)
(* not aborted may stay silent for ever.                                    *)
FairSpec ==
    /\ Spec
    /\ \A t \in Turn :
          /\ WF_vars(Proceed(t)) /\ WF_vars(Deadline(t)) /\ WF_vars(Finalize(t))
          /\ WF_vars(late[t] /\ ProviderAnswers(t))
          /\ WF_vars(EvaluatorAnswers(t)) /\ WF_vars(HandlerSettles(t))

-----------------------------------------------------------------------------
(* A handler is started only with authority that holds at that moment: the  *)
(* turn is running, the tool is enabled, the run is not aborted, and a tool *)
(* that requires review has a recorded approval that rests on a completed   *)
(* evaluator call - whatever was disabled, aborted or lost during the       *)
(* review.                                                                  *)
StartsAuthorized ==
    [][\A c \in Call : ran'[c] # ran[c] =>
          /\ turn[c[1]] = "running" /\ ~late[c[1]]
          /\ ran'[c] \notin disabled
          /\ ran'[c] \in Reviewed =>
                /\ decision[c] = "approve"
                /\ \E k \in 1..2 : inv[EvaluatorRow(c[1], c[2], k)] = "completed"]_vars

(* A local effect is in the database exactly when its call is recorded as a *)
(* success, and then it is audited: no failed write, timeout or crash       *)
(* leaves an effect that the record denies, or the other way round.         *)
EffectMatchesRecord ==
    /\ \A c \in Call : ran[c] \in Prepared => (c \in effect <=> toolCall[c] = "success")
    /\ effect \subseteq audited

(* A run that answered completed has a completed row for every round it     *)
(* made, so the turn's completion finds the evidence it demands.            *)
AnsweredMeansSettled ==
    \A t \in Turn : pc[t] = "returned" /\ out[t] = "completed" => PiEvidence(t)

(* A slot belongs to one run at a time, and one that waits for reuse has no *)
(* finalisation of its last session in flight.                              *)
SlotsAreExclusive ==
    /\ \A t, u \in Turn : t # u /\ pc[t] \in InRun /\ pc[u] \in InRun => slotOf[t] # slotOf[u]
    /\ \A i, j \in 1..Len(idle) : i # j => idle[i] # idle[j]
    /\ \A i \in 1..Len(idle) :
          /\ \A t \in Turn : pc[t] \in InRun => slotOf[t] # idle[i]
          /\ session[idle[i]] # None => fin[session[idle[i]]] = {}

(* Every turn that was created ends, though the provider may stay silent:   *)
(* the deadline aborts the round.                                           *)
EveryRunReturns == \A t \in Turn : pc[t] # "none" ~> pc[t] = "done"

(* The tables tell what the runs did, and the pool what they hold: effects, *)
(* rounds, open calls and slots, after any deadline, late answer or crash.  *)
RunsAreTrue ==
    TypeOK /\ EffectMatchesRecord /\ AnsweredMeansSettled /\ SlotsAreExclusive /\ NoOrphanCalls

(* What no step of a run does: start a handler without authority, or change *)
(* what the ledger has settled.                                             *)
RunStepsLawful == StartsAuthorized /\ SettledRowsAreFinal
=============================================================================
