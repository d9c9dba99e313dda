--------------------------- MODULE ActionDelivery ---------------------------
(***************************************************************************)
(* From the model's answer to the message on the platform:                 *)
(* SocialDecisionService (src/src/actions/social-decision-service.ts)      *)
(* turns the answer into a plan, has it reviewed and applies the cooldown  *)
(* (cooldown.ts); ActionRepository (action-repository.ts) corrects what    *)
(* the text claims to remember (memory-claim-guard.ts) and stores the      *)
(* decision; ActionExecutor (executor.ts) carries it out through the       *)
(* gateway (OneBotGateway) and records the execution.                      *)
(*                                                                         *)
(* A decision holds one plan: SocialDecisionService builds one, and a      *)
(* review replaces or downgrades it.  The turns of a conversation follow   *)
(* each other (TurnAdmission).  Memory moves on meanwhile: its records     *)
(* are the ones whose content the answer may claim to remember.            *)
(***************************************************************************)
EXTENDS OneBotGateway, FiniteSets

CONSTANTS
  ConversationOf,  \* ConversationOf[t]: the conversation of turn t
  Private,         \* the conversations that are private chats
  OtherKey,        \* cooldown keys of no conversation an evaluator may name
  Memory           \* the memory records with the claimed content

\* A turn sends at most one message: its call has the turn's name.
Turn == Call
Conversation == {ConversationOf[t] : t \in Turn}

\* constraints.cooldownKey: type, conversation and type of reply make the key of a
\* reply, and the conversation decides all three; an evaluator names any key.
Key == Conversation \cup OtherKey
None == "none"

ASSUME ActionDeliveryAssumption ==
  DOMAIN ConversationOf = Call /\ Private \subseteq Conversation /\ None \notin Key

VARIABLES
  stage,      \* stage[t]: how far the turn is
  weak,       \* the turns whose message does not address the bot
  selected,   \* selected[t]: the memories in the turn's context trace
  intervening,  \* the turns that answer a message that does not address the bot
  plan,       \* plan[t]: the plan built, reviewed, then decided
  required,   \* the turns whose plan needs the social evaluator
  passed,     \* the turns whose plan it approved or downgraded
  execution,  \* execution[t]: action_executions.status
  cooling,    \* the keys with a live cooldown entry
  spent,      \* history: the conversations that intervened since their entry expired
  memory      \* memory[m]: its state, and the turn whose tool call proposed it

locals == <<weak, selected, intervening, plan, required, passed>>
delivery == <<stage, locals, execution, cooling, spent, memory>>
vars == <<gatewayVars, delivery>>

\* "reply" stands for reply_short, reply_full and reply_with_tool; an action that is
\* not wired is rejected like one whose payload is not valid.
ActionType == {"reply", "clarify", "dm", "react", "folded", "summary", "task", "digest",
               "memory", "silent"}
\* isCooldownEligible and COOLDOWN_ELIGIBLE_ACTION_TYPES
CooldownEligible == {"reply", "dm", "react", "folded"}
\* OUTWARD_TEXT_ACTIONS
OutwardText == {"reply", "clarify", "dm", "react", "folded"}
Claim == {"none", "durable", "pending", "neutral"}

\* A plan: what to do, the claim its text makes, the key of its cooldown if the
\* constraints give it seconds, and whether target and payload are what the executor
\* requires.
Plan == [type : ActionType, claim : Claim, cooldown : Key \cup {None}, valid : BOOLEAN]
Silent == [type |-> "silent", claim |-> "none", cooldown |-> None, valid |-> TRUE]

Init ==
  /\ GatewayInit
  /\ stage = [t \in Turn |-> "idle"]
  /\ selected = [t \in Turn |-> {}]
  /\ plan = [t \in Turn |-> Silent]
  /\ weak = {} /\ intervening = {} /\ required = {} /\ passed = {}
  /\ cooling = {} /\ spent = {}
  /\ execution = [t \in Turn |-> "none"]
  /\ memory \in [Memory -> {[state |-> "none", by |-> None], [state |-> "active", by |-> None]}]

\* The turn goes on with nothing of its decision but the type of its action.
Reduced(t, type) ==
  /\ selected' = [selected EXCEPT ![t] = {}]
  /\ plan' = [plan EXCEPT ![t] = [Silent EXCEPT !.type = type]]
  /\ weak' = weak \ {t} /\ intervening' = intervening \ {t}
  /\ required' = required \ {t} /\ passed' = passed \ {t}

\* A turn ends: what its code kept in local variables is gone.
Ended(t) ==
  /\ stage' = [stage EXCEPT ![t] = "ended"]
  /\ Reduced(t, "silent")

-----------------------------------------------------------------------------
(* Memory, changed by tool calls, workers and governance while turns run.  *)

\* memory.propose, called by the turn's model: a proposal of this turn.
ProposeMemory(t, m) ==
  /\ stage[t] = "inferring" /\ memory[m].state = "none"
  /\ memory' = [memory EXCEPT ![m] = [state |-> "proposed", by |-> t]]
  /\ UNCHANGED <<gatewayVars, stage, locals, execution, cooling, spent>>

\* A proposal is approved, or a memory is rejected, superseded, deleted or expires.
ChangeMemory(m) ==
  /\ memory[m].state \in {"proposed", "active"}
  /\ \E to \in {"active", "gone"} \ {memory[m].state} :
       memory' = [memory EXCEPT ![m] = [state |-> to, by |-> None]]
  /\ UNCHANGED <<gatewayVars, stage, locals, execution, cooling, spent>>

-----------------------------------------------------------------------------
(* The turn up to its decision.                                            *)

IsPrivate(t) == ConversationOf[t] \in Private

\* A message came in through the started gateway: the context is built from the
\* memories in force and its trace stored; the turn is the only one of its
\* conversation in progress.
BuildContext(t) ==
  /\ stage[t] = "idle" /\ ready
  /\ \A u \in Turn : ConversationOf[u] = ConversationOf[t] => stage[u] \in {"idle", "ended"}
  /\ stage' = [stage EXCEPT ![t] = "inferring"]
  /\ selected' = [selected EXCEPT ![t] = {m \in Memory : memory[m].state = "active"}]
  /\ \/ ~IsPrivate(t) /\ weak' = weak \cup {t}
     \/ UNCHANGED weak
  /\ UNCHANGED <<gatewayVars, intervening, plan, required, passed, execution, cooling, spent, memory>>

\* buildActionPlans: silence, without a key, for an empty answer, else a reply with the
\* conversation's; only one to a group message that does not address the bot has seconds.
BasePlans(t) ==
  LET own == IF t \in weak THEN ConversationOf[t] ELSE None
  IN {Silent} \cup {[type |-> "reply", claim |-> claim, cooldown |-> own, valid |-> TRUE] :
                      claim \in {"none", "durable", "pending"}}

\* requiresEvaluator: the attention engine wants a review, or the reply is an
\* unmentioned intervention.
Reviewed(t, unsure, base) == unsure \/ (t \in weak /\ base.type = "reply")

\* The model answered: createDecision up to the evaluator's call.
Respond(t) ==
  /\ stage[t] = "inferring"
  /\ \E base \in BasePlans(t), unsure \in BOOLEAN :
       /\ plan' = [plan EXCEPT ![t] = base]
       /\ intervening' = IF base.type = "reply" THEN intervening \cup ({t} \cap weak)
                         ELSE intervening
       /\ IF Reviewed(t, unsure, base)
          THEN /\ required' = required \cup {t}
               /\ stage' = [stage EXCEPT ![t] = "evaluating"]
          ELSE /\ stage' = [stage EXCEPT ![t] = "deciding"]
               /\ UNCHANGED required
  /\ UNCHANGED <<gatewayVars, weak, selected, passed, execution, cooling, spent, memory>>

\* A plan without the fields nobody reads for its type.
Normal(p) ==
  [p EXCEPT !.claim = IF p.type \in OutwardText THEN @ ELSE "none",
            !.cooldown = IF p.type \in CooldownEligible THEN @ ELSE None,
            !.valid = @ \/ p.type \in {"digest", "silent"}]

\* anchorModifiedActionConstraints: a review may give a cooldown and takes none away.
\* Its key is the base plan's; over silence, which has none, it is the evaluator's.
CooldownsOver(t, base) ==
  IF base.cooldown # None THEN {base.cooldown}
  ELSE IF base.type = "silent" THEN Key \cup {None}
  ELSE {ConversationOf[t], None}

\* applyPassingSocialEvaluation: the plans an approval or a downgrade may leave.  A
\* downgrade changes the type; an approval may bring another plan, which keeps the
\* target.
Allowed(t, base) ==
  LET Carried == {q \in Plan : q.claim = base.claim /\ q.cooldown \in CooldownsOver(t, base)}
  IN {base} \cup {Normal(q) : q \in Carried}

\* evaluateSocialAction and applyEvaluation: the plan passes, or a rejection, a
\* "propose" verdict or an evaluator that throws silences it.  After a failed
\* review the cooldown is not consulted.
\* Mutated form: when the evaluator throws, the plan goes through unreviewed.
EvaluateFailOpen(t) ==
  /\ stage[t] = "evaluating"
  /\ \/ /\ \E p \in Allowed(t, plan[t]) : plan' = [plan EXCEPT ![t] = p]
        /\ passed' = passed \cup {t}
        /\ UNCHANGED required
     \/ required' = required \ {t} /\ UNCHANGED <<plan, passed>>
  /\ stage' = [stage EXCEPT ![t] = "deciding"]
  /\ UNCHANGED <<gatewayVars, weak, selected, intervening, execution, cooling, spent, memory>>
Evaluate(t) ==
  /\ stage[t] = "evaluating"
  /\ \/ /\ \E p \in Allowed(t, plan[t]) : plan' = [plan EXCEPT ![t] = p]
        /\ passed' = passed \cup {t}
     \/ plan' = [plan EXCEPT ![t] = Silent] /\ UNCHANGED passed
  /\ stage' = [stage EXCEPT ![t] = "deciding"]
  /\ UNCHANGED <<gatewayVars, weak, selected, intervening, required, execution, cooling, spent, memory>>

\* Is the plan one that a cooldown holds back, and does it name one?
Cooled(p) == p.type \in CooldownEligible /\ p.cooldown # None

\* ActionCooldownManager.apply: does the live entry of its key silence the plan?
Suppressed(p) == Cooled(p) /\ p.cooldown \in cooling

\* The key whose entry the plan makes.
Takes(p) == IF Cooled(p) THEN {p.cooldown} ELSE {}

\* readCommittedProposalEvidence: this turn's own proposals that are still pending.
PendingOf(t) == {m \in Memory : memory[m].state = "proposed" /\ memory[m].by = t}

\* readSelectedActiveEvidence: the memories of the context trace still in force.
ActiveOf(t) == {m \in selected[t] : memory[m].state = "active"}

\* guardMemoryClaims: a claim is restated as what exactly one memory supports.
Guarded(t, p) ==
  IF p.type \notin OutwardText \/ p.claim = "none" THEN p
  ELSE [p EXCEPT !.claim =
          IF Cardinality(ActiveOf(t)) + Cardinality(PendingOf(t)) # 1 THEN "neutral"
          ELSE IF PendingOf(t) # {} THEN "pending"
          ELSE "durable"]

\* isCanonicalCooldownSuppression: what the cooldown made of an authorized plan.
CooldownMade(p, q) == q = Silent /\ Cooled(p)

\* validateDecisionAuthority and validateEvaluatorEvidence: a reviewed plan is stored
\* as the review left it or as the cooldown silenced it; without a pass only silence.
EvidenceAdmits(t, p) ==
  t \in required => IF t \in passed THEN p = plan[t] \/ CooldownMade(plan[t], p)
                   ELSE p.type = "silent"

\* The plan is an answer to a message that does not address the bot, and goes out.
Intervenes(t, p) == t \in intervening /\ p.type \in CooldownEligible

\* createDecision after the review: cooldown, evidence, claims, and the rows in one
\* transaction, which may fail; the cooldown entry stays either way.  What only this
\* step reads of the turn is let go.
Decide(t) ==
  /\ stage[t] = "deciding"
  /\ LET p == IF Suppressed(plan[t]) THEN Silent ELSE plan[t]
     IN /\ cooling' = cooling \cup Takes(p)
        /\ \/ /\ EvidenceAdmits(t, p)
              /\ spent' = IF Intervenes(t, p) THEN spent \cup {ConversationOf[t]} ELSE spent
              /\ plan' = [plan EXCEPT ![t] = [Guarded(t, p) EXCEPT !.cooldown = None]]
              /\ stage' = [stage EXCEPT ![t] = "decided"]
              /\ selected' = [selected EXCEPT ![t] = {}] /\ intervening' = intervening \ {t}
              /\ UNCHANGED <<weak, required, passed>>
           \/ Ended(t) /\ UNCHANGED spent
  /\ UNCHANGED <<gatewayVars, execution, memory>>

\* The cooldown entry of a key expires.
CooldownExpires(k) ==
  /\ k \in cooling
  /\ cooling' = cooling \ {k}
  /\ spent' = spent \ {k}
  /\ UNCHANGED <<gatewayVars, stage, locals, execution, memory>>

\* The turn fails before its next step: an error of the model, an evaluator's
\* result that does not match its request, or the turn's deadline.
Abandon(t) ==
  /\ stage[t] \in {"inferring", "evaluating", "decided"}
  /\ Ended(t)
  /\ UNCHANGED <<gatewayVars, execution, cooling, spent, memory>>

-----------------------------------------------------------------------------
(* Execution.                                                              *)

\* getPolicyRejection
PolicyRejects(t) == plan[t].type # "silent" /\ t \in required \ passed

\* assertLinkedEvaluatorAuthority: the stored review agrees with the stored plan, else
\* the turn fails.
AuthorityHolds(t) == t \in required => t \in passed \/ plan[t].type = "silent"

\* The plans that end in a message.  executeReply: target and text are there.
ReplySends(t) == plan[t].type \in {"reply", "clarify"} /\ plan[t].valid

\* executeDirectMessage: only a private chat's target names the user.
DirectMessageSends(t) == plan[t].type = "dm" /\ plan[t].valid /\ IsPrivate(t)

\* executeReaction: the gateway has no sendReaction; a face message is sent instead.
ReactionSends(t) == plan[t].type = "react" /\ plan[t].valid

\* executeFoldedForward: its text is sent as a message.
FoldedForwardSends(t) == plan[t].type = "folded" /\ plan[t].valid

Sends(t) ==
  /\ ~PolicyRejects(t)
  /\ ReplySends(t) \/ DirectMessageSends(t) \/ ReactionSends(t) \/ FoldedForwardSends(t)

Recorded(t, status) ==
  /\ execution' = [execution EXCEPT ![t] = status]
  /\ Ended(t)

\* execute: assertExecutionBinding holds, and the plan's message is sent.
Send(t) ==
  /\ stage[t] = "decided" /\ AuthorityHolds(t) /\ Sends(t)
  /\ CallApi(t)
  /\ stage' = [stage EXCEPT ![t] = "sending"]
  /\ Reduced(t, plan[t].type)
  /\ UNCHANGED <<execution, cooling, spent, memory>>

\* The call settled: the execution is recorded, or the insert fails the turn.
RecordSend(t) ==
  /\ stage[t] = "sending" /\ Taken(t)
  /\ \/ Recorded(t, IF call[t] = "error" THEN "failed"
                     ELSE IF plan[t].type \in {"react", "folded"} THEN "downgraded"
                     ELSE "success")
     \/ Ended(t) /\ UNCHANGED execution
  /\ UNCHANGED <<cooling, spent, memory>>

Executing(t, type) ==
  stage[t] = "decided" /\ AuthorityHolds(t) /\ plan[t].type = type /\ ~PolicyRejects(t)

\* toActionTurnSource: the chat whose message triggered the turn.
TurnSource(t) == IF IsPrivate(t) THEN "private" ELSE "group"

\* A summary is refused if it has no exact target, or names a group without being of
\* its turn; the group's policy may refuse it, or there is no window to summarise.
MayBeRefused(t) == ~plan[t].valid \/ TurnSource(t) = "group"

\* executeProposeMemory: a malformed proposal, an opted-out user or the memory policy
\* rejects it.
ExecuteProposeMemory(t) ==
  /\ Executing(t, "memory")
  /\ \/ plan[t].valid /\ (Recorded(t, "success") \/ Recorded(t, "failed"))
     \/ Recorded(t, "rejected")
  /\ UNCHANGED <<gatewayVars, cooling, spent, memory>>

\* executeAdminDigest: a digest needs no payload.
ExecuteAdminDigest(t) ==
  /\ Executing(t, "digest")
  /\ Recorded(t, "success") \/ Recorded(t, "failed")
  /\ UNCHANGED <<gatewayVars, cooling, spent, memory>>

\* executeScheduleBackgroundTask: a group summary may be refused by its policy.
ExecuteScheduleBackgroundTask(t) ==
  /\ Executing(t, "task")
  /\ \/ plan[t].valid /\ (Recorded(t, "success") \/ Recorded(t, "failed"))
     \/ MayBeRefused(t) /\ Recorded(t, "rejected")
  /\ UNCHANGED <<gatewayVars, cooling, spent, memory>>

\* executeSilentSummarizeLater: the summary of a group goes through its policy.
ExecuteSilentSummarizeLater(t) ==
  /\ Executing(t, "summary")
  /\ \/ plan[t].valid /\ (Recorded(t, "success") \/ Recorded(t, "failed"))
     \/ MayBeRefused(t) /\ Recorded(t, "rejected")
  /\ UNCHANGED <<gatewayVars, cooling, spent, memory>>

Creates(t) ==
  \/ ExecuteProposeMemory(t) \/ ExecuteAdminDigest(t)
  \/ ExecuteScheduleBackgroundTask(t) \/ ExecuteSilentSummarizeLater(t)

\* Everything else leaves only a record: a policy rejection, silence, a folded
\* forward without text, a message that cannot be sent.
RecordOnly(t) ==
  /\ stage[t] = "decided" /\ AuthorityHolds(t) /\ ~Sends(t)
  /\ PolicyRejects(t) \/ plan[t].type \notin {"summary", "task", "digest", "memory"}
  /\ Recorded(t, IF PolicyRejects(t) THEN "rejected"
                  ELSE IF plan[t].type = "silent" THEN "success"
                  ELSE IF plan[t].type = "folded" THEN "downgraded"
                  ELSE "rejected")
  /\ UNCHANGED <<gatewayVars, cooling, spent, memory>>

TurnStep(t) ==
  \/ Respond(t) \/ Evaluate(t) \/ Decide(t) \/ Abandon(t)
  \/ Send(t) \/ RecordSend(t) \/ Creates(t) \/ RecordOnly(t)

Next ==
  \/ GatewayNext /\ UNCHANGED delivery
  \/ \E t \in Turn : BuildContext(t) \/ TurnStep(t) \/ \E m \in Memory : ProposeMemory(t, m)
  \/ \E m \in Memory : ChangeMemory(m)
  \/ \E k \in Key : CooldownExpires(k)

Spec == Init /\ [][Next]_vars

-----------------------------------------------------------------------------
(* Properties.                                                             *)

TypeOK ==
  /\ GatewayTypeOK
  /\ stage \in [Turn -> {"idle", "inferring", "evaluating", "deciding", "decided", "sending", "ended"}]
  /\ weak \subseteq Turn /\ intervening \subseteq Turn
  /\ required \subseteq Turn /\ passed \subseteq required
  /\ selected \in [Turn -> SUBSET Memory]
  /\ plan \in [Turn -> Plan]
  /\ execution \in [Turn -> {"none", "success", "failed", "rejected", "downgraded"}]
  /\ cooling \subseteq Key /\ spent \subseteq Conversation
  /\ memory \in [Memory -> [state : {"none", "proposed", "active", "gone"}, by : Turn \cup {None}]]

\* An execution recorded as carried out was: the platform posted the message, and
\* once.  A late answer, a refusal or a lost connection never turns into a recorded
\* delivery (executor.ts with the request table of onebot-adapter.ts).
RecordedMeansPosted ==
  [][\A t \in Turn :
       /\ accepted'[t] <= 1
       /\ (stage[t] = "sending" /\ execution'[t] \in {"success", "downgraded"}) => accepted[t] = 1]_vars

\* Nothing leaves without its review: a message, a job or a proposal of a plan that
\* needed the social evaluator is made only if the evaluator let it pass; a review
\* that failed leaves nothing behind but the record.
ReviewedBeforeEffect ==
  [][\A t \in weak :
       (\/ t \in request' \ request
        \/ plan[t].type # "silent" /\ execution'[t] \in {"success", "downgraded"} \ {execution[t]})
       => t \in passed]_vars

\* The step stores the turn's decision.
Deciding(t) == stage[t] = "deciding" /\ stage'[t] = "decided"

\* What a stored decision says about memory is true when it is stored, whatever
\* happened to the memory since the turn's context was built: a durable claim is
\* about a memory in force, a pending one about a proposal still pending.
ClaimsAreTrue ==
  [][\A t \in Turn : Deciding(t) =>
       /\ (plan'[t].claim = "durable") => \E m \in Memory : memory[m].state = "active"
       /\ (plan'[t].claim = "pending") => \E m \in Memory : memory[m].state = "proposed"]_vars

\* One cooldown window lets one intervention through: until the entry of a group
\* expires, no second answer to a message that does not address the bot is decided for
\* it, whatever key and whatever kind of message its review proposed.  What a review
\* makes of silence is not held back so: it has the key the evaluator chose, or none.
OneReplyPerWindow ==
  [][\A t \in Turn :
       (Deciding(t) /\ Intervenes(t, plan'[t])) => ConversationOf[t] \notin spent]_vars

\* A message that addresses the bot is not silenced by the cooldown an intervention
\* left behind, unless the review of its own answer added one ("Strong `@bot` and
\* reply-to-bot candidates bypass the local base cooldown", docs/design-decisions.md).
StrongBypassesCooldown ==
  [][\A t \in Turn :
       (Deciding(t) /\ t \notin weak \cup required /\ plan[t].type = "reply") => plan'[t].type = "reply"]_vars

\* The adapter's sockets, timers and pending calls fit together after any order
\* of starts, stops, losses and answers.
SocketsTidy == TypeOK /\ CallsDieWithTheirSocket /\ NoOrphanSocket /\ Reconnecting

\* What the bot does outwardly was reviewed if it had to be, tells the truth
\* about memory and keeps to the cooldown, which silences nobody who addresses it.
OutwardActionsGuarded ==
  ReviewedBeforeEffect /\ ClaimsAreTrue /\ OneReplyPerWindow /\ StrongBypassesCooldown
=============================================================================
