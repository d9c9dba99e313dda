------------------------- MODULE ActionDeliveryProofs -------------------------
(***************************************************************************)
(* What modules OneBotGateway and ActionDelivery promise, proved for any    *)
(* number of turns, conversations, memories, sockets and stops.             *)
(*                                                                          *)
(* The argument has two layers.  The gateway: there is a live connection    *)
(* only while it is the current one, and a call waits only on that one.     *)
(* The turns: a call is made by a turn that has not called before, so what  *)
(* the platform posted is what the one answer says; and a plan that may act *)
(* carries, from the moment it is built, the mark of the review it needs.   *)
(***************************************************************************)
EXTENDS ActionDelivery, FiniteSetTheorems, TLAPS

(* A started adapter was not closed by hand: a close event of its socket    *)
(* schedules the reconnection.                                              *)
Started == ready => ~manuallyClosed

GatewayInv ==
    GatewayTypeOK /\ CallsDieWithTheirSocket /\ NoOrphanSocket /\ Reconnecting /\ Started

(* A turn's call is made once; the platform's answer and the call's result  *)
(* say what the platform did with it.                                       *)
Posting == \A t \in Turn :
    /\ stage[t] \notin {"sending", "ended"} =>
         call[t] = "none" /\ t \notin request /\ answer[t] = "none" /\ accepted[t] = 0
    /\ stage[t] # "ended" => execution[t] = "none"
    /\ t \in request => accepted[t] = 0 /\ answer[t] = "none"
    /\ accepted[t] <= 1
    /\ answer[t] = "ok" \/ call[t] = "ok" => accepted[t] = 1

(* The plan of a turn agrees with the marks the turn carries.               *)
Marked == \A t \in Turn :
    /\ stage[t] \in {"idle", "inferring"} => plan[t] = Silent
    /\ stage[t] = "evaluating" => t \in required
    /\ stage[t] \in {"deciding", "decided"} /\ t \in weak /\ plan[t].type # "silent"
         => t \in required
    /\ stage[t] \in {"sending", "ended"} => t \notin weak
    /\ plan[t].claim # "none" => plan[t].type \in OutwardText
    /\ plan[t].cooldown # None => plan[t].type \in CooldownEligible /\ t \in weak \cup required

(* An intervention names its conversation's cooldown from the moment it is  *)
(* built; a review cannot give it another key.                              *)
Anchored == \A t \in Turn :
    /\ stage[t] \in {"idle", "inferring"} => t \notin intervening
    /\ stage[t] = "evaluating" /\ t \in intervening => plan[t].type = "reply"
    /\ (stage[t] \in {"evaluating", "deciding"} /\ Intervenes(t, plan[t]))
         => plan[t].cooldown = ConversationOf[t]

DeliveryInv == GatewayInv /\ TypeOK /\ Posting /\ Marked /\ Anchored /\ spent \subseteq cooling

-----------------------------------------------------------------------------
(* The gateway                                                             *)

USE OneBotGatewayAssumption, ActionDeliveryAssumption
DEF OneBotGatewayAssumption, ActionDeliveryAssumption

LEMMA GatewayInitSound == GatewayInit => GatewayInv
<1> SUFFICES ASSUME GatewayInit PROVE GatewayInv  OBVIOUS
<1> USE DEF GatewayInit
<1>1. GatewayTypeOK
  <2>1. opened \in 0..MaxSockets /\ stops \in 0..MaxStops /\ socket \in 0..MaxSockets  OBVIOUS
  <2>2. link \in [Socket -> LinkState]  BY DEF LinkState
  <2>3. via \in [Call -> 0..MaxSockets] /\ accepted \in [Call -> Nat]  OBVIOUS
  <2> QED  BY <2>1, <2>2, <2>3 DEF GatewayTypeOK
<1>2. CallsDieWithTheirSocket
  <2>1. call = [c \in Call |-> "none"]  OBVIOUS
  <2>2. ASSUME NEW c \in Call  PROVE call[c] # "waiting"
    <3> HIDE DEF GatewayInit
    <3>1. call[c] = "none"  BY <2>1, Zenon
    <3> QED  BY <3>1
  <2> QED  BY <2>2, Zenon DEF CallsDieWithTheirSocket, Pending
<1>3. NoOrphanSocket  BY DEF NoOrphanSocket
<1>4. Reconnecting /\ Started  BY DEF Reconnecting, Started
<1> QED  BY <1>1, <1>2, <1>3, <1>4 DEF GatewayInv

(* A socket is created only when there is none: it is the only live one,    *)
(* and no call waits.                                                       *)
LEMMA OpenSound ==
    ASSUME GatewayInv, Start \/ Reconnect
    PROVE  GatewayInv'
<1> USE DEF GatewayInv, Start, Reconnect, OpenWebSocket, MayOpen, calls, Pending, Socket, LinkState
<1>1. GatewayTypeOK'
  <2> USE DEF GatewayTypeOK
  <2>1. opened' \in 0..MaxSockets /\ socket' \in 0..MaxSockets  OBVIOUS
  <2>2. link' \in [Socket -> LinkState]  OBVIOUS
  <2>3. reconnectTimer' \in BOOLEAN /\ wsConnected' \in BOOLEAN  OBVIOUS
  <2> QED  BY <2>1, <2>2, <2>3
<1>2. CallsDieWithTheirSocket'  BY <1>1 DEF CallsDieWithTheirSocket, GatewayTypeOK
<1>3. NoOrphanSocket'  BY <1>1 DEF NoOrphanSocket, GatewayTypeOK
<1>4. Reconnecting'
  <2> USE DEF Reconnecting, GatewayTypeOK
  <2>1. SUFFICES ASSUME transport' = "ws", ready', socket' = 0 PROVE reconnectTimer'  BY <1>1
  <2>2. transport = "ws" /\ (ready \/ Start) /\ socket = 0  BY <2>1
  <2>3. CASE Start  BY <2>1, <2>2, <2>3
  <2>4. CASE Reconnect  BY <2>1, <2>2, <2>4
  <2> QED  BY <2>3, <2>4
<1>5. Started'  BY <1>1 DEF Started, GatewayTypeOK
<1> QED  BY <1>1, <1>2, <1>3, <1>4, <1>5

(* Whatever lets go of the socket rejects the calls that wait on it.        *)
LEMMA CloseSound ==
    ASSUME GatewayInv,
           Stop \/ \E s \in Socket : SocketOpen(s) \/ SocketLost(s) \/ SocketClose(s)
    PROVE  GatewayInv'
<1> USE DEF GatewayInv, Stop, Closing, SocketOpen, SocketLost, SocketClose, ClosesCurrent,
            IsCurrentStartedWebSocket, PendingRejected, adapter, calls, Pending, Socket, LinkState
<1>1. GatewayTypeOK'
  <2> USE DEF GatewayTypeOK
  <2>1. link' \in [Socket -> LinkState]  OBVIOUS
  <2>2. call' \in [Call -> {"none", "waiting", "ok", "error"}]  OBVIOUS
  <2>3. stops' \in 0..MaxStops /\ socket' \in 0..MaxSockets  OBVIOUS
  <2>4. /\ reconnectTimer' \in BOOLEAN /\ wsConnected' \in BOOLEAN
        /\ ready' \in BOOLEAN /\ manuallyClosed' \in BOOLEAN
    OBVIOUS
  <2>5. UNCHANGED <<transport, opened, via, request, answer, accepted>>  OBVIOUS
  <2> QED  BY <2>1, <2>2, <2>3, <2>4, <2>5
<1>2. CallsDieWithTheirSocket'  BY <1>1 DEF CallsDieWithTheirSocket, GatewayTypeOK
<1>3. NoOrphanSocket'  BY <1>1 DEF NoOrphanSocket, GatewayTypeOK
<1>4. Reconnecting'
  <2> USE DEF Reconnecting, Started
  <2>1. CASE Stop  BY <2>1
  <2>2. CASE \E s \in Socket : SocketOpen(s) \/ SocketLost(s)
    <3>1. UNCHANGED <<transport, ready, socket, reconnectTimer>>  BY <2>2
    <3> QED  BY <3>1
  <2>3. ASSUME NEW s \in Socket, SocketClose(s)  PROVE Reconnecting'
    <3>1. CASE s = socket
      <4>1. reconnectTimer' = (reconnectTimer \/ (~manuallyClosed /\ ready))  BY <2>3, <3>1
      <4> QED  BY <2>3, <4>1
    <3> QED  BY <2>3, <3>1
  <2> QED  BY <2>1, <2>2, <2>3
<1>5. Started'  BY <1>1 DEF Started, GatewayTypeOK
<1> QED  BY <1>1, <1>2, <1>3, <1>4, <1>5

(* A request is written to the current socket; nothing else moves a call    *)
(* to another one.                                                          *)
LEMMA CallSound ==
    ASSUME GatewayInv, NEW c \in Call,
           CallApi(c) \/ Handle(c) \/ Answer(c) \/ CallFails(c) \/ Taken(c)
    PROVE  GatewayInv'
<1> USE DEF GatewayInv, CallApi, CanCall, Handle, Answer, ApiOk, CallFails, Taken, adapter, Pending,
            Socket, LinkState
<1>1. GatewayTypeOK'
  <2> USE DEF GatewayTypeOK
  <2>1. call' \in [Call -> {"none", "waiting", "ok", "error"}]  OBVIOUS
  <2>2. via' \in [Call -> 0..MaxSockets]
    <3>1. 0 \in 0..MaxSockets /\ socket \in 0..MaxSockets  OBVIOUS
    <3> QED  BY <3>1
  <2>3. request' \subseteq Call /\ answer' \in [Call -> {"none", "ok", "refused"}]  OBVIOUS
  <2>4. accepted' \in [Call -> Nat]  OBVIOUS
  <2>5. UNCHANGED <<adapter, link, opened, stops>>  OBVIOUS
  <2> QED  BY <2>1, <2>2, <2>3, <2>4, <2>5
<1>2. CallsDieWithTheirSocket'  BY <1>1 DEF CallsDieWithTheirSocket, GatewayTypeOK
<1>3. NoOrphanSocket'  BY <1>1 DEF NoOrphanSocket, GatewayTypeOK
<1>4. Reconnecting'  BY <1>1 DEF Reconnecting, GatewayTypeOK
<1>5. Started'  BY <1>1 DEF Started, GatewayTypeOK
<1> QED  BY <1>1, <1>2, <1>3, <1>4, <1>5

LEMMA GatewayStutters ==
    ASSUME GatewayInv, UNCHANGED gatewayVars
    PROVE  GatewayInv'
  BY DEF GatewayInv, gatewayVars, adapter, calls, GatewayTypeOK, CallsDieWithTheirSocket,
         NoOrphanSocket, Reconnecting, Started, Pending

LEMMA GatewayNextSound ==
    ASSUME GatewayInv, GatewayNext
    PROVE  GatewayInv'
  BY OpenSound, CloseSound, CallSound DEF GatewayNext, PlatformNext

-----------------------------------------------------------------------------
(* The turns                                                               *)

LEMMA SilentPlan == Silent \in Plan /\ Silent.type = "silent" /\ Silent.cooldown = None /\ Silent.claim = "none"
  BY DEF Silent, Plan, ActionType, Claim

LEMMA DeliveryInitSound == Init => DeliveryInv
<1> SUFFICES ASSUME Init PROVE DeliveryInv  OBVIOUS
<1>1. GatewayInv  BY GatewayInitSound DEF Init
<1>a. /\ stage = [t \in Turn |-> "idle"] /\ plan = [t \in Turn |-> Silent]
      /\ selected = [t \in Turn |-> {}] /\ execution = [t \in Turn |-> "none"]
      /\ weak = {} /\ intervening = {} /\ required = {} /\ passed = {} /\ cooling = {} /\ spent = {}
  BY DEF Init
<1>b. memory \in [Memory -> [state : {"none", "proposed", "active", "gone"}, by : Turn \cup {None}]]
  BY DEF Init
<1>2. TypeOK  BY <1>1, <1>a, <1>b, SilentPlan DEF TypeOK, GatewayInv
<1>3. Posting
  <2>1. /\ call = [c \in Call |-> "none"] /\ request = {}
        /\ answer = [c \in Call |-> "none"] /\ accepted = [c \in Call |-> 0]
    BY DEF Init, GatewayInit
  <2>2. \A t \in Turn : call[t] = "none" /\ answer[t] = "none" /\ accepted[t] = 0
    BY <2>1 DEF Turn
  <2>3. \A t \in Turn : stage[t] = "idle" /\ execution[t] = "none"  BY <1>a
  <2> QED  BY <2>1, <2>2, <2>3 DEF Posting
<1>4. Marked  BY <1>a, SilentPlan DEF Marked
<1>5. Anchored  BY <1>a DEF Anchored
<1> QED  BY <1>1, <1>2, <1>3, <1>4, <1>5, <1>a DEF DeliveryInv

(* What the outside world does to a call is said by its answer.             *)
LEMMA OutsideSound ==
    ASSUME DeliveryInv, GatewayNext, UNCHANGED delivery
    PROVE  DeliveryInv'
<1> USE DEF DeliveryInv, delivery, locals
<1>1. GatewayInv'  BY GatewayNextSound
<1>2. TypeOK'  BY <1>1 DEF TypeOK, GatewayInv
<1>3. Posting'
  <2> USE DEF Posting, Turn
  <2>1. CASE Start \/ Reconnect \/ \E s \in Socket : SocketOpen(s) \/ SocketLost(s)
    <3>1. UNCHANGED calls  BY <2>1 DEF Start, Reconnect, SocketOpen, SocketLost
    <3> QED  BY <3>1 DEF calls
  <2>2. CASE Stop \/ \E s \in Socket : SocketClose(s)
    BY <2>2 DEF Stop, SocketClose, PendingRejected, Pending, TypeOK, GatewayTypeOK
  <2>3. CASE \E c \in Call : Handle(c)
    BY <2>3 DEF Handle, TypeOK, GatewayTypeOK
  <2>4. CASE \E c \in Call : Answer(c) \/ CallFails(c)
    BY <2>4 DEF Answer, ApiOk, CallFails, TypeOK, GatewayTypeOK
  <2> QED  BY <2>1, <2>2, <2>3, <2>4 DEF GatewayNext, PlatformNext
<1>4. Marked'  BY DEF Marked, Turn
<1>5. Anchored'  BY DEF Anchored, Intervenes, Turn
<1> QED  BY <1>1, <1>2, <1>3, <1>4, <1>5

(* Memory and the clock change nothing of a turn.                           *)
LEMMA MemorySound ==
    ASSUME DeliveryInv,
           \/ \E t \in Turn, m \in Memory : ProposeMemory(t, m)
           \/ \E m \in Memory : ChangeMemory(m)
           \/ \E k \in Key : CooldownExpires(k)
    PROVE  DeliveryInv'
<1> USE DEF DeliveryInv, ProposeMemory, ChangeMemory, CooldownExpires, locals
<1>0. UNCHANGED <<gatewayVars, stage, locals, execution>>  OBVIOUS
<1>1. GatewayInv'  BY <1>0, GatewayStutters
<1>2. TypeOK'  BY <1>1 DEF TypeOK, GatewayInv
<1>3. Posting'  BY <1>0 DEF Posting, gatewayVars, calls
<1>4. Marked'  BY <1>0 DEF Marked
<1>5. (spent \subseteq cooling)'  OBVIOUS
<1>6. Anchored'  BY <1>0 DEF Anchored, Intervenes
<1> QED  BY <1>1, <1>2, <1>3, <1>4, <1>5, <1>6

(* The plan that is built carries the mark of the review it needs, and the  *)
(* review keeps it.                                                         *)
LEMMA PlanSound ==
    ASSUME DeliveryInv, NEW t \in Turn, BuildContext(t) \/ Respond(t) \/ Evaluate(t)
    PROVE  DeliveryInv'
<1> USE SilentPlan DEF DeliveryInv, BuildContext, Respond, Evaluate, locals
<1>0. UNCHANGED gatewayVars  OBVIOUS
<1>1. GatewayInv'  BY <1>0, GatewayStutters
<1>a. ASSUME NEW base \in BasePlans(t)
      PROVE  /\ base \in Plan
             /\ \/ base = Silent
                \/ /\ base.type = "reply"
                   /\ base.cooldown = IF t \in weak THEN ConversationOf[t] ELSE None
  <2> DEFINE own == IF t \in weak THEN ConversationOf[t] ELSE None
  <2>0. own \in Key \cup {None}  BY DEF Key, Conversation
  <2> HIDE DEF BuildContext, Respond, Evaluate, DeliveryInv
  <2>1. CASE base = Silent  BY <2>1
  <2>2. ASSUME NEW c \in {"none", "durable", "pending"},
               base = [type |-> "reply", claim |-> c, cooldown |-> own, valid |-> TRUE]
        PROVE  base \in Plan /\ base.type = "reply" /\ base.cooldown = own
    <3> HIDE DEF own
    <3> QED  BY <2>0, <2>2 DEF Plan, ActionType, Claim
  <2> QED  BY <1>a, <2>1, <2>2 DEF BasePlans
<1>b. ASSUME NEW p \in Allowed(t, plan[t]), plan[t] \in Plan
      PROVE  /\ p \in Plan
             /\ p = plan[t] \/ ((p.claim # "none" => p.type \in OutwardText)
                                /\ (p.cooldown # None => p.type \in CooldownEligible))
             /\ (plan[t].cooldown # None /\ p.type \in CooldownEligible)
                  => p.cooldown = plan[t].cooldown
  <2>1. CASE p = plan[t]  BY <1>b, <2>1
  <2>2. CASE p # plan[t]
    <3>1. PICK q \in Plan : p = Normal(q) /\ q.cooldown \in CooldownsOver(t, plan[t])
      <4>1. p \in {Normal(q) : q \in {r \in Plan : r.claim = plan[t].claim
                                                /\ r.cooldown \in CooldownsOver(t, plan[t])}}
        BY <1>b, <2>2, Zenon DEF Allowed
      <4> QED  BY <4>1, Zenon
    <3>2. /\ p.type = q.type /\ p.claim = (IF q.type \in OutwardText THEN q.claim ELSE "none")
          /\ p.cooldown = (IF q.type \in CooldownEligible THEN q.cooldown ELSE None)
      BY <3>1 DEF Normal, Plan
    <3>3. p \in Plan
      <4>1. /\ p.type \in ActionType /\ p.claim \in Claim /\ p.cooldown \in Key \cup {None}
            /\ p.valid \in BOOLEAN
        BY <3>1, <3>2 DEF Normal, Plan, Claim
      <4>2. p = [type |-> p.type, claim |-> p.claim, cooldown |-> p.cooldown, valid |-> p.valid]
        BY <3>1 DEF Normal, Plan
      <4> QED  BY <4>1, <4>2 DEF Plan
    <3>4. plan[t].cooldown # None => q.cooldown = plan[t].cooldown  BY <3>1 DEF CooldownsOver
    <3> QED  BY <3>2, <3>3, <3>4
  <2> QED  BY <2>1, <2>2
<1>2. TypeOK'  BY <1>1, <1>a, <1>b DEF TypeOK, GatewayInv, Marked
<1>3. Posting'  BY DEF Posting, TypeOK, gatewayVars, calls
<1>4. Marked'
  <2>1. CASE BuildContext(t)  BY <2>1, <1>2 DEF Marked, TypeOK
  <2>2. CASE Respond(t)  BY <2>2, <1>2, <1>a DEF Marked, TypeOK, Reviewed, OutwardText, CooldownEligible
  <2>3. CASE Evaluate(t)  BY <2>3, <1>2, <1>b DEF Marked, TypeOK
  <2> QED  BY <2>1, <2>2, <2>3
<1>5. Anchored'
  <2>1. CASE BuildContext(t)  BY <2>1, <1>2 DEF Anchored, Intervenes, TypeOK, Marked, Silent, CooldownEligible
  <2>2. CASE Respond(t)
    <3>1. PICK base \in BasePlans(t) : /\ plan' = [plan EXCEPT ![t] = base]
                                       /\ intervening' = IF base.type = "reply" THEN intervening \cup ({t} \cap weak) ELSE intervening
      BY <2>2
    <3>2. base = Silent \/ (base.type = "reply" /\ (t \in weak => base.cooldown = ConversationOf[t]))
      BY <1>a
    <3>3. stage[t] = "inferring" /\ t \notin intervening  BY <2>2 DEF Anchored
    <3>4. Silent.type \notin CooldownEligible /\ Silent.type # "reply"  BY SilentPlan DEF CooldownEligible
    <3>5. plan'[t] = base /\ \A u \in Turn \ {t} : plan'[u] = plan[u]  BY <3>1 DEF TypeOK
    <3>6. t \in intervening' => base.type = "reply" /\ t \in weak  BY <3>1, <3>3
    <3>7. stage'[t] \in {"evaluating", "deciding"} /\ \A u \in Turn \ {t} : stage'[u] = stage[u]
      BY <2>2 DEF TypeOK
    <3>8. \A u \in Turn \ {t} : u \in intervening' <=> u \in intervening  BY <3>1
    <3>9. weak' = weak  BY <2>2
    <3> HIDE DEF Respond
    <3>10. ASSUME NEW u \in Turn
           PROVE  /\ stage'[u] \in {"idle", "inferring"} => u \notin intervening'
                  /\ stage'[u] = "evaluating" /\ u \in intervening' => plan'[u].type = "reply"
                  /\ (stage'[u] \in {"evaluating", "deciding"} /\ u \in intervening'
                       /\ plan'[u].type \in CooldownEligible) => plan'[u].cooldown = ConversationOf[u]
      <4>1. CASE u = t  BY <3>2, <3>4, <3>5, <3>6, <3>7, <4>1
      <4>2. CASE u # t  BY <3>5, <3>7, <3>8, <4>2 DEF Anchored, Intervenes
      <4> QED  BY <4>1, <4>2
    <3> QED  BY <3>9, <3>10 DEF Anchored, Intervenes
  <2>3. CASE Evaluate(t)
    <3>1. /\ stage[t] = "evaluating" /\ stage' = [stage EXCEPT ![t] = "deciding"]
          /\ weak' = weak /\ intervening' = intervening
      BY <2>3
    <3>2. PICK p : /\ plan' = [plan EXCEPT ![t] = p]
                   /\ p = Silent \/ p \in Allowed(t, plan[t])
      BY <2>3, Zenon
    <3>3. plan'[t] = p /\ \A u \in Turn \ {t} : plan'[u] = plan[u]  BY <3>2 DEF TypeOK
    <3>4. stage'[t] = "deciding" /\ \A u \in Turn \ {t} : stage'[u] = stage[u]  BY <3>1 DEF TypeOK
    <3>5. Silent.type \notin CooldownEligible  BY SilentPlan DEF CooldownEligible
    <3>6. ASSUME t \in intervening, p.type \in CooldownEligible
          PROVE  p.cooldown = ConversationOf[t]
      <4>1. plan[t].type \in CooldownEligible  BY <3>1, <3>6 DEF Anchored, CooldownEligible
      <4>2. plan[t].cooldown = ConversationOf[t]  BY <3>1, <3>6, <4>1 DEF Anchored, Intervenes
      <4>3. ConversationOf[t] # None
        <5>1. ConversationOf[t] \in Key  BY DEF Key, Conversation
        <5> QED  BY <5>1
      <4>4. plan[t] \in Plan /\ p \in Allowed(t, plan[t])  BY <3>2, <3>5, <3>6 DEF TypeOK
      <4> HIDE DEF Evaluate
      <4> QED  BY <1>b, <3>6, <4>2, <4>3, <4>4
    <3> HIDE DEF Evaluate
    <3>7. ASSUME NEW u \in Turn
          PROVE  /\ stage'[u] \in {"idle", "inferring"} => u \notin intervening
                 /\ stage'[u] = "evaluating" /\ u \in intervening => plan'[u].type = "reply"
                 /\ (stage'[u] \in {"evaluating", "deciding"} /\ u \in intervening
                      /\ plan'[u].type \in CooldownEligible) => plan'[u].cooldown = ConversationOf[u]
      <4>1. CASE u = t  BY <3>3, <3>4, <3>6, <4>1
      <4>2. CASE u # t  BY <3>3, <3>4, <4>2 DEF Anchored, Intervenes
      <4> QED  BY <4>1, <4>2
    <3> QED  BY <3>1, <3>7 DEF Anchored, Intervenes
  <2> QED  BY <2>1, <2>2, <2>3
<1> QED  BY <1>1, <1>2, <1>3, <1>4, <1>5

(* A turn that ends leaves no plan and no mark.                             *)
LEMMA EndedSound ==
    ASSUME TypeOK, Marked, Anchored, NEW t \in Turn, Ended(t)
    PROVE  /\ Marked' /\ Anchored'
           /\ stage' = [stage EXCEPT ![t] = "ended"] /\ plan' \in [Turn -> Plan]
           /\ selected' \in [Turn -> SUBSET Memory]
           /\ weak' \subseteq Turn /\ intervening' \subseteq Turn
           /\ required' \subseteq Turn /\ passed' \subseteq required'
  BY SilentPlan DEF Ended, Reduced, TypeOK, Marked, Anchored, Intervenes, Plan, Silent

LEMMA DecideSound ==
    ASSUME DeliveryInv, NEW t \in Turn, Decide(t)
    PROVE  DeliveryInv'
<1> USE DEF DeliveryInv, locals
<1> DEFINE p == IF Suppressed(plan[t]) THEN Silent ELSE plan[t]
           q == [Guarded(t, p) EXCEPT !.cooldown = None]
<1>0. UNCHANGED <<gatewayVars, execution, memory>>  BY DEF Decide
<1>1. GatewayInv'  BY <1>0, GatewayStutters
<1>a. p \in Plan /\ Guarded(t, p) \in Plan
      /\ Guarded(t, p).type = p.type /\ Guarded(t, p).cooldown = p.cooldown
      /\ (p.type \notin OutwardText \/ p.claim = "none" => Guarded(t, p) = p)
  <2>1. p \in Plan  BY SilentPlan DEF TypeOK
  <2>2. \A r \in Plan, c \in Claim : [r EXCEPT !.claim = c] \in Plan
                                      /\ [r EXCEPT !.claim = c].type = r.type
                                      /\ [r EXCEPT !.claim = c].cooldown = r.cooldown
    BY DEF Plan
  <2> HIDE DEF p
  <2>3. CASE p.type \notin OutwardText \/ p.claim = "none"  BY <2>1, <2>3 DEF Guarded
  <2>4. CASE ~(p.type \notin OutwardText \/ p.claim = "none")
    <3>1. \E c \in Claim : Guarded(t, p) = [p EXCEPT !.claim = c]
      <4>1. {"neutral", "pending", "durable"} \subseteq Claim  BY DEF Claim
      <4> QED  BY <2>4, <4>1 DEF Guarded
    <3> QED  BY <2>1, <2>2, <2>4, <3>1
  <2> QED  BY <2>3, <2>4
<1>b. /\ cooling' = cooling \cup Takes(p)
      /\ \/ /\ plan' = [plan EXCEPT ![t] = q]
            /\ stage[t] = "deciding" /\ stage' = [stage EXCEPT ![t] = "decided"]
            /\ selected' = [selected EXCEPT ![t] = {}]
            /\ intervening' = intervening \ {t} /\ UNCHANGED <<weak, required, passed>>
            /\ spent' = IF Intervenes(t, p) THEN spent \cup {ConversationOf[t]} ELSE spent
         \/ stage[t] = "deciding" /\ Ended(t) /\ spent' = spent
  BY DEF Decide
<1>f. q \in Plan /\ q.type = p.type /\ q.cooldown = None /\ q.claim = Guarded(t, p).claim
  <2>1. \A r \in Plan : LET w == [r EXCEPT !.cooldown = None]
                       IN w \in Plan /\ w.type = r.type /\ w.cooldown = None /\ w.claim = r.claim
    BY DEF Plan
  <2> HIDE DEF p
  <2> QED  BY <1>a, <2>1
<1>c. p = Silent \/ p = plan[t]  OBVIOUS
<1>d. Takes(p) \subseteq Key /\ ConversationOf[t] \in Conversation
  <2> HIDE DEF p
  <2> QED  BY <1>a DEF Takes, Cooled, Plan, Conversation
<1>e. Intervenes(t, p) => ConversationOf[t] \in Takes(p)
  <2>1. SUFFICES ASSUME Intervenes(t, p)  PROVE ConversationOf[t] \in Takes(p)  OBVIOUS
  <2>2. p = plan[t]  BY <1>c, <2>1, SilentPlan DEF Intervenes, CooldownEligible
  <2>3. stage[t] = "deciding"  BY <1>b
  <2> HIDE DEF p
  <2>4. p.cooldown = ConversationOf[t]  BY <2>1, <2>2, <2>3 DEF Anchored
  <2>5. ConversationOf[t] # None
    <3>1. ConversationOf[t] \in Key  BY DEF Key, Conversation
    <3> QED  BY <3>1
  <2> QED  BY <2>1, <2>4, <2>5 DEF Takes, Cooled, Intervenes
<1> HIDE DEF p, q
<1>2. TypeOK'  BY <1>0, <1>1, <1>f, <1>b, <1>d, EndedSound DEF TypeOK, GatewayInv
<1>3. Posting'  BY <1>0, <1>b DEF Posting, Ended, TypeOK, gatewayVars, calls
<1>4. Marked'
  <2>1. CASE Ended(t)  BY <2>1, EndedSound
  <2>2. CASE ~Ended(t)  BY <2>2, <1>2, <1>a, <1>b, <1>c, <1>f, SilentPlan DEF Marked, TypeOK
  <2> QED  BY <2>1, <2>2
<1>5. Anchored'
  <2>1. CASE Ended(t)  BY <2>1, EndedSound
  <2>2. CASE ~Ended(t)  BY <2>2, <1>2, <1>b DEF Anchored, Intervenes, TypeOK
  <2> QED  BY <2>1, <2>2
<1>6. spent' \subseteq cooling'  BY <1>b, <1>e
<1> QED  BY <1>1, <1>2, <1>3, <1>4, <1>5, <1>6

(* A turn calls once, and not before it has decided.                        *)
LEMMA SendSound ==
    ASSUME DeliveryInv, NEW t \in Turn, Send(t)
    PROVE  DeliveryInv'
<1> USE DEF DeliveryInv, Send, locals
<1>1. GatewayInv'  BY CallSound DEF Turn
<1>2. TypeOK'  BY <1>1, SilentPlan DEF TypeOK, GatewayInv, Reduced, Plan, Silent
<1>3. Posting'  BY DEF Posting, TypeOK, GatewayTypeOK, CallApi, Turn
<1>4. Marked'  BY <1>2, SilentPlan DEF Marked, TypeOK, Reduced, Silent
<1>5. Anchored'  BY <1>2 DEF Anchored, Intervenes, TypeOK, Reduced
<1> QED  BY <1>1, <1>2, <1>3, <1>4, <1>5

LEMMA RecordSound ==
    ASSUME DeliveryInv, NEW t \in Turn,
           Abandon(t) \/ RecordSend(t) \/ Creates(t) \/ RecordOnly(t)
    PROVE  DeliveryInv'
<1> USE DEF DeliveryInv, locals
<1>a. /\ Ended(t) /\ UNCHANGED <<cooling, spent, memory>>
      /\ \/ UNCHANGED execution
         \/ \E r \in {"success", "failed", "rejected", "downgraded"} :
              execution' = [execution EXCEPT ![t] = r]
      /\ UNCHANGED gatewayVars \/ Taken(t)
  BY DEF Abandon, RecordSend, Creates, RecordOnly, Recorded, ExecuteProposeMemory,
         ExecuteAdminDigest, ExecuteScheduleBackgroundTask, ExecuteSilentSummarizeLater
<1>1. GatewayInv'  BY <1>a, GatewayStutters, CallSound DEF Turn
<1>2. TypeOK'  BY <1>a, <1>1, EndedSound DEF TypeOK, GatewayInv
<1>3. Posting'  BY <1>a, EndedSound DEF Posting, TypeOK, GatewayTypeOK, Taken, Turn, gatewayVars, calls
<1>4. Marked' /\ Anchored'  BY <1>a, EndedSound
<1> QED  BY <1>1, <1>2, <1>3, <1>4, <1>a

LEMMA DeliveryStep == DeliveryInv /\ [Next]_vars => DeliveryInv'
<1> SUFFICES ASSUME DeliveryInv, [Next]_vars PROVE DeliveryInv'  OBVIOUS
<1>1. CASE UNCHANGED vars
  <2>1. UNCHANGED gatewayVars /\ UNCHANGED delivery  BY <1>1 DEF vars
  <2>2. GatewayInv'  BY <2>1, GatewayStutters DEF DeliveryInv
  <2> QED  BY <2>1, <2>2 DEF DeliveryInv, TypeOK, Posting, Marked, Anchored, Intervenes, delivery, locals, gatewayVars,
                             calls, GatewayInv
<1>2. CASE Next
  BY <1>2, OutsideSound, MemorySound, PlanSound, DecideSound, SendSound, RecordSound
  DEF Next, TurnStep
<1> QED  BY <1>1, <1>2

LEMMA DeliveryAlways == Spec => []DeliveryInv
  BY DeliveryInitSound, DeliveryStep, PTL DEF Spec

-----------------------------------------------------------------------------
(* What follows                                                            *)

(* The adapter's sockets, timers and pending calls fit together after any   *)
(* order of starts, stops, losses and answers: no call waits on a socket    *)
(* the adapter let go of, no live socket is orphaned, and a started adapter *)
(* without a socket is about to reconnect.                                  *)
THEOREM SocketsStayTidy == Spec => []SocketsTidy
<1>1. DeliveryInv => SocketsTidy  BY DEF DeliveryInv, GatewayInv, SocketsTidy
<1> QED  BY <1>1, DeliveryAlways, PTL

(* A recorded delivery was made: only the turn that waits records it, from  *)
(* the result of its one call.                                              *)
LEMMA RecordedStep ==
    ASSUME DeliveryInv, DeliveryInv', Next
    PROVE  \A t \in Turn :
             /\ accepted'[t] <= 1
             /\ (stage[t] = "sending" /\ execution'[t] \in {"success", "downgraded"}) => accepted[t] = 1
<1> SUFFICES ASSUME NEW t \in Turn, stage[t] = "sending", execution'[t] \in {"success", "downgraded"}
             PROVE  accepted[t] = 1
  BY DEF DeliveryInv, Posting
<1>1. execution[t] = "none"  BY DEF DeliveryInv, Posting
<1>2. execution' # execution  BY <1>1
<1>3. PICK u \in Turn : RecordSend(u) \/ Creates(u) \/ RecordOnly(u)
  BY <1>2 DEF Next, TurnStep, delivery, BuildContext, Respond, Evaluate, Decide, Abandon, Send,
              ProposeMemory, ChangeMemory, CooldownExpires
<1>4. stage[u] \in {"sending", "decided"} /\ \A w \in Turn \ {u} : execution'[w] = execution[w]
  BY <1>3 DEF RecordSend, Creates, RecordOnly, Recorded, ExecuteProposeMemory, ExecuteAdminDigest,
              ExecuteScheduleBackgroundTask, ExecuteSilentSummarizeLater, Executing,
              DeliveryInv, TypeOK
<1>5. u = t  BY <1>1, <1>4
<1>6. RecordSend(t)
  BY <1>3, <1>5 DEF Creates, RecordOnly, ExecuteProposeMemory, ExecuteAdminDigest,
                    ExecuteScheduleBackgroundTask, ExecuteSilentSummarizeLater, Executing
<1>7. call[t] = "ok"
  <2>1. call[t] \in {"ok", "error"}  BY <1>6 DEF RecordSend, Taken
  <2>2. execution \in [Turn -> {"none", "success", "failed", "rejected", "downgraded"}]
    BY DEF DeliveryInv, TypeOK
  <2>3. ASSUME call[t] = "error"
        PROVE  execution' = [execution EXCEPT ![t] = "failed"] \/ execution' = execution
    BY <1>6, <2>3 DEF RecordSend, Recorded
  <2> QED  BY <1>1, <2>1, <2>2, <2>3
<1> QED  BY <1>7 DEF DeliveryInv, Posting

(* An execution recorded as carried out was: the platform posted the        *)
(* message, and once.  A late answer, a refusal or a lost connection never  *)
(* turns into a recorded delivery.                                          *)
THEOREM RecordedMeansPostedAlways == Spec => RecordedMeansPosted
<1>1. DeliveryInv /\ DeliveryInv' /\ [Next]_vars =>
        [\A t \in Turn :
           /\ accepted'[t] <= 1
           /\ (stage[t] = "sending" /\ execution'[t] \in {"success", "downgraded"})
                => accepted[t] = 1]_vars
  BY RecordedStep
<1> QED  BY <1>1, DeliveryAlways, PTL DEF Spec, RecordedMeansPosted

-----------------------------------------------------------------------------
(* Outward actions                                                         *)

(* The steps that send a request or record a success act on a decided plan  *)
(* the policy gate lets through.                                            *)
LEMMA ReviewStep ==
    ASSUME DeliveryInv, Next, NEW t \in weak,
           \/ t \in request' \ request
           \/ plan[t].type # "silent" /\ execution'[t] \in {"success", "downgraded"} \ {execution[t]}
    PROVE  t \in passed
<1>0. t \in Turn  BY DEF DeliveryInv, TypeOK
<1>1. CASE t \in request' \ request
  <2>1. Send(t)
    <3>1. PICK u \in Turn : Send(u)
      BY <1>1 DEF Next, TurnStep, GatewayNext, PlatformNext, Start, Stop, Reconnect, SocketOpen,
                  SocketLost, SocketClose, Handle, Answer, CallFails, calls, gatewayVars,
                  BuildContext, Respond, Evaluate, Decide, Abandon, RecordSend, Taken, Creates,
                  RecordOnly, ExecuteProposeMemory, ExecuteAdminDigest,
                  ExecuteScheduleBackgroundTask, ExecuteSilentSummarizeLater,
                  ProposeMemory, ChangeMemory, CooldownExpires
    <3>2. request' \subseteq request \cup {u}  BY <3>1 DEF Send, CallApi
    <3> QED  BY <1>1, <3>1, <3>2
  <2>2. stage[t] = "decided" /\ plan[t].type # "silent" /\ ~PolicyRejects(t)
    BY <2>1 DEF Send, Sends, ReplySends, DirectMessageSends, ReactionSends, FoldedForwardSends
  <2> QED  BY <1>0, <2>2 DEF PolicyRejects, DeliveryInv, Marked
<1>2. CASE plan[t].type # "silent" /\ execution'[t] \in {"success", "downgraded"} \ {execution[t]}
  <2>1. PICK u \in Turn : RecordSend(u) \/ Creates(u) \/ RecordOnly(u)
    BY <1>2 DEF Next, TurnStep, delivery, BuildContext, Respond, Evaluate, Decide, Abandon, Send,
                ProposeMemory, ChangeMemory, CooldownExpires
  <2>2. \A w \in Turn \ {u} : execution'[w] = execution[w]
    BY <2>1 DEF RecordSend, Creates, RecordOnly, Recorded, ExecuteProposeMemory, ExecuteAdminDigest,
                ExecuteScheduleBackgroundTask, ExecuteSilentSummarizeLater, DeliveryInv, TypeOK
  <2>3. u = t  BY <1>0, <1>2, <2>2
  <2>4. stage[t] # "sending"  BY <1>0 DEF DeliveryInv, Marked
  <2>5. stage[t] = "decided" /\ ~PolicyRejects(t)
    <3>1. CASE Creates(t)
      BY <3>1 DEF Creates, ExecuteProposeMemory, ExecuteAdminDigest,
                  ExecuteScheduleBackgroundTask, ExecuteSilentSummarizeLater, Executing
    <3>2. CASE RecordOnly(t)
      <4>1. stage[t] = "decided"  BY <3>2 DEF RecordOnly
      <4>2. ASSUME PolicyRejects(t)  PROVE execution' = [execution EXCEPT ![t] = "rejected"]
        BY <3>2, <4>2 DEF RecordOnly, Recorded
      <4> QED  BY <1>0, <1>2, <4>1, <4>2 DEF DeliveryInv, TypeOK
    <3> QED  BY <2>1, <2>3, <2>4, <3>1, <3>2 DEF RecordSend
  <2> QED  BY <1>0, <1>2, <2>5 DEF PolicyRejects, DeliveryInv, Marked
<1> QED  BY <1>1, <1>2

(* Guarding a plan's claim leaves a plan of its type.                       *)
LEMMA GuardedKeeps ==
    ASSUME NEW t, NEW p \in Plan
    PROVE  Guarded(t, p) \in Plan /\ Guarded(t, p).type = p.type
<1>1. \A c \in Claim : [p EXCEPT !.claim = c] \in Plan /\ [p EXCEPT !.claim = c].type = p.type
  BY DEF Plan
<1>2. {"neutral", "pending", "durable"} \subseteq Claim  BY DEF Claim
<1> QED  BY <1>1, <1>2 DEF Guarded

(* A decision is stored by Decide alone, with the plan the cooldown and the *)
(* memory guard made of the reviewed one.                                   *)
LEMMA DecidingStep ==
    ASSUME DeliveryInv, Next, NEW t \in Turn, Deciding(t)
    PROVE  LET p == IF Suppressed(plan[t]) THEN Silent ELSE plan[t]
           IN  /\ plan'[t].claim = Guarded(t, p).claim /\ plan'[t].type = p.type
               /\ p \in Plan /\ plan[t] \in Plan
<1> DEFINE p == IF Suppressed(plan[t]) THEN Silent ELSE plan[t]
<1>1. PICK u \in Turn : Decide(u)
  BY DEF Deciding, Next, TurnStep, delivery, BuildContext, Respond, Evaluate, Abandon, Send,
         RecordSend, Creates, RecordOnly, ExecuteProposeMemory, ExecuteAdminDigest,
         ExecuteScheduleBackgroundTask, ExecuteSilentSummarizeLater, Recorded, Ended,
         ProposeMemory, ChangeMemory, CooldownExpires, DeliveryInv, TypeOK
<1>2. u = t /\ ~Ended(t)
  BY <1>1 DEF Decide, Deciding, Ended, DeliveryInv, TypeOK
<1>3. plan'[t] = [Guarded(t, p) EXCEPT !.cooldown = None] /\ plan[t] \in Plan
  BY <1>1, <1>2 DEF Decide, DeliveryInv, TypeOK
<1>4. p \in Plan  BY <1>3, SilentPlan
<1> HIDE DEF p
<1>5. Guarded(t, p) \in Plan /\ Guarded(t, p).type = p.type  BY <1>4, GuardedKeeps
<1>6. \A r \in Plan : [r EXCEPT !.cooldown = None].claim = r.claim
                     /\ [r EXCEPT !.cooldown = None].type = r.type
  BY DEF Plan
<1>7. plan'[t].claim = Guarded(t, p).claim /\ plan'[t].type = p.type  BY <1>3, <1>5, <1>6
<1> QED  BY <1>3, <1>4, <1>7 DEF p

(* A claim is kept only if exactly one memory bears it out.                 *)
LEMMA ClaimStep ==
    ASSUME DeliveryInv, Next, NEW t \in Turn, Deciding(t)
    PROVE  /\ plan'[t].claim = "durable" => \E m \in Memory : memory[m].state = "active"
           /\ plan'[t].claim = "pending" => \E m \in Memory : memory[m].state = "proposed"
<1> DEFINE p == IF Suppressed(plan[t]) THEN Silent ELSE plan[t]
<1>1. plan'[t].claim = Guarded(t, p).claim /\ plan[t] \in Plan  BY DecidingStep
<1>2. p \in Plan /\ (p.claim # "none" => p.type \in OutwardText)
  BY <1>1, SilentPlan DEF DeliveryInv, Marked
<1>3. \A c : [p EXCEPT !.claim = c].claim = c  BY <1>2 DEF Plan
<1> HIDE DEF p
<1>4. CASE p.claim = "none"  BY <1>1, <1>4 DEF Guarded
<1>5. CASE p.claim # "none" /\ PendingOf(t) # {}
  <2>1. \E m \in Memory : memory[m].state = "proposed"  BY <1>5 DEF PendingOf
  <2>2. plan'[t].claim \in {"neutral", "pending"}  BY <1>1, <1>2, <1>3, <1>5 DEF Guarded
  <2> QED  BY <2>1, <2>2
<1>6. CASE p.claim # "none" /\ PendingOf(t) = {}
  <2>1. Cardinality(PendingOf(t)) = 0  BY <1>6, FS_EmptySet
  <2>2. ActiveOf(t) = {} => Cardinality(ActiveOf(t)) = 0  BY FS_EmptySet
  <2>3. CASE ActiveOf(t) = {}
    <3>1. Cardinality(ActiveOf(t)) + Cardinality(PendingOf(t)) # 1  BY <2>1, <2>2, <2>3
    <3>2. plan'[t].claim = "neutral"  BY <1>1, <1>2, <1>3, <1>6, <3>1 DEF Guarded
    <3> QED  BY <3>2
  <2>4. CASE ActiveOf(t) # {}
    <3>1. \E m \in Memory : memory[m].state = "active"
      BY <2>4 DEF ActiveOf, DeliveryInv, TypeOK
    <3>2. plan'[t].claim \in {"neutral", "durable"}  BY <1>1, <1>2, <1>3, <1>6 DEF Guarded
    <3> QED  BY <3>1, <3>2
  <2> QED  BY <2>3, <2>4
<1> QED  BY <1>4, <1>5, <1>6

(* An intervention that goes out named its conversation's cooldown and      *)
(* found no entry, and there is one as long as another is remembered; a     *)
(* plan without a cooldown is never silenced.                               *)
LEMMA CooldownStep ==
    ASSUME DeliveryInv, Next, NEW t \in Turn, Deciding(t)
    PROVE  /\ Intervenes(t, plan'[t]) => ConversationOf[t] \notin spent
           /\ (t \notin weak \cup required /\ plan[t].type = "reply") => plan'[t].type = "reply"
<1> DEFINE p == IF Suppressed(plan[t]) THEN Silent ELSE plan[t]
<1>1. p \in Plan /\ plan'[t].type = p.type
  BY DecidingStep
<1>2. plan[t].cooldown # None => t \in weak \cup required
  BY DEF DeliveryInv, Marked
<1>3. CASE Suppressed(plan[t])
  <2>1. p = Silent  BY <1>3
  <2>2. plan'[t].type \notin CooldownEligible  BY <1>1, <2>1, SilentPlan DEF CooldownEligible
  <2> QED  BY <1>2, <1>3, <2>2 DEF Suppressed, Cooled, Intervenes
<1>4. CASE ~Suppressed(plan[t])
  <2>1. p = plan[t]  BY <1>4
  <2>2. ASSUME Intervenes(t, plan'[t])  PROVE ConversationOf[t] \notin spent
    <3>1. stage[t] = "deciding"  BY DEF Deciding
    <3>2. Intervenes(t, plan[t])  BY <1>1, <2>1, <2>2 DEF Intervenes
    <3>3. plan[t].cooldown = ConversationOf[t]  BY <3>1, <3>2 DEF DeliveryInv, Anchored
    <3>4. ConversationOf[t] # None
      <4>1. ConversationOf[t] \in Key  BY DEF Key, Conversation
      <4> QED  BY <4>1
    <3>5. ConversationOf[t] \notin cooling  BY <1>4, <3>2, <3>3, <3>4 DEF Suppressed, Cooled, Intervenes
    <3> QED  BY <3>5 DEF DeliveryInv
  <2> QED  BY <1>1, <2>1, <2>2
<1> QED  BY <1>3, <1>4

(* What the bot does outwardly was reviewed if it had to be, tells the      *)
(* truth about memory, and keeps to the cooldown, which silences nobody who *)
(* addresses it.                                                            *)
THEOREM OutwardActionsAlwaysGuarded == Spec => OutwardActionsGuarded
<1>1. DeliveryInv /\ [Next]_vars =>
        [\A t \in weak :
           (\/ t \in request' \ request
            \/ plan[t].type # "silent" /\ execution'[t] \in {"success", "downgraded"} \ {execution[t]})
           => t \in passed]_vars
  BY ReviewStep
<1>2. DeliveryInv /\ [Next]_vars =>
        [\A t \in Turn : Deciding(t) =>
           /\ (plan'[t].claim = "durable") => \E m \in Memory : memory[m].state = "active"
           /\ (plan'[t].claim = "pending") => \E m \in Memory : memory[m].state = "proposed"]_vars
  BY ClaimStep
<1>3. DeliveryInv /\ [Next]_vars =>
        [\A t \in Turn :
           (Deciding(t) /\ Intervenes(t, plan'[t])) => ConversationOf[t] \notin spent]_vars
  BY CooldownStep
<1>4. DeliveryInv /\ [Next]_vars =>
        [\A t \in Turn :
           (Deciding(t) /\ t \notin weak \cup required /\ plan[t].type = "reply")
             => plan'[t].type = "reply"]_vars
  BY CooldownStep
<1> QED
  BY <1>1, <1>2, <1>3, <1>4, DeliveryAlways, PTL
  DEF Spec, OutwardActionsGuarded, ReviewedBeforeEffect, ClaimsAreTrue, OneReplyPerWindow,
      StrongBypassesCooldown
===============================================================================
