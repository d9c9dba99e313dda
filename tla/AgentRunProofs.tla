---------------------------- MODULE AgentRunProofs ----------------------------
(***************************************************************************)
(* What module AgentRun promises, proved for any turns, slots, tools,       *)
(* rounds, permissions and mishaps.                                         *)
(*                                                                          *)
(* The argument: a row, a call and a local effect belong to one round of    *)
(* one turn.  A round that has not begun has none of them (Blank), a round  *)
(* that was begun is under way, waits for its finalisation, is completed or *)
(* is one the run knows to have failed (Told); so a run without a failure   *)
(* has a completed row for each round, and a handler that has not been      *)
(* started has neither record nor effect.  The slot of a run names the run, *)
(* and a slot on the stack names none that goes on.                         *)
(***************************************************************************)
EXTENDS AgentRun, SequenceTheorems, TLAPS

InTool == {"tool", "execute", "review", "decide", "approved", "handler"}

(* The types, by the part of the state they are about.                      *)
SessionTypes ==
    /\ pc \in [Turn -> InRun \cup {"none", "ready", "returned", "done"}]
    /\ round \in [Turn -> 0..MaxRounds] /\ call \in [Turn -> 0..2]
    /\ tool \in [Turn -> Tool \cup {None}] /\ offered \in [Turn -> SUBSET Tool]
    /\ verdict \in [Turn -> Verdict \cup {"none"}]
    /\ late \in [Turn -> BOOLEAN] /\ err \in [Turn -> BOOLEAN] /\ finErr \in [Turn -> BOOLEAN]
    /\ fin \in [Turn -> SUBSET ((1..MaxRounds) \X Answer)]
    /\ out \in [Turn -> {"none", "completed", "failed"}]
PoolTypes ==
    /\ slotOf \in [Turn -> Slot \cup {None}]
    /\ session \in [Slot -> Turn \cup {None}]
    /\ idle \in Seq(Slot)
EvidenceTypes ==
    /\ disabled \subseteq Tool
    /\ toolCall \in [Call -> {"none", "success", "error", "rejected"}]
    /\ audited \subseteq Call /\ effect \subseteq Call /\ ran \in [Call -> Tool \cup {None}]
    /\ mishaps \in 0..MaxMishaps

Types ==
    /\ LedgerTypeOK
    /\ SessionTypes /\ PoolTypes /\ EvidenceTypes

(* What a call leaves behind when nothing was done about it.                *)
Untouched(c) == toolCall[c] = "none" /\ c \notin effect /\ ran[c] = None

(* Round k of t has not begun.                                              *)
Blank(t, k) ==
    /\ inv[PiRow(t, k)] = "none"
    /\ \A c \in 1..2 : inv[EvaluatorRow(t, k, c)] = "none"
    /\ Untouched(<<t, k>>)

(* Where the turn is, its row says; rounds to come have no rows.            *)
Placed(t) ==
    /\ pc[t] = "none" => turn[t] = "none"
    /\ pc[t] \in InRun \cup {"ready", "returned"} => turn[t] = "running"
    /\ pc[t] \in InRun \cup {"none", "ready"} => \A k \in 1..MaxRounds : k > round[t] => Blank(t, k)
    /\ pc[t] \in {"none", "ready"} => round[t] = 0

(* Where the round is.                                                      *)
Staged(t) ==
    /\ pc[t] \in InRun \ {"loop"} => round[t] >= 1
    /\ pc[t] \in {"loop"} \cup InTool => round[t] < MaxRounds
    /\ pc[t] \in InTool => tool[t] \in Tool
    /\ pc[t] \in {"stream"} \cup (InTool \ {"handler"}) => Untouched(ThisCall(t))
    /\ pc[t] = "handler" =>
          toolCall[ThisCall(t)] = "none" /\ ThisCall(t) \notin effect /\ ran[ThisCall(t)] = tool[t]
    /\ pc[t] \in {"stream", "tool", "execute"} =>
          \A c \in 1..2 : inv[EvaluatorRow(t, round[t], c)] = "none"
    /\ pc[t] \in {"review", "decide"} => call[t] \in 1..2
    /\ pc[t] = "review" =>
          /\ inv[EvaluatorRow(t, round[t], call[t])] = "running"
          /\ call[t] = 1 => inv[EvaluatorRow(t, round[t], 2)] = "none"
    /\ pc[t] = "approved" =>
          /\ decision[ThisCall(t)] = "approve"
          /\ \E k \in 1..2 : inv[EvaluatorRow(t, round[t], k)] = "completed"

(* A round is under way, waits for its finalisation, is completed, or the   *)
(* run knows that it failed.                                                *)
Told(t) ==
    /\ pc[t] = "stream" => inv[PiRow(t, round[t])] = "running"
    /\ \A f \in fin[t] :
          /\ f[1] \in 1..round[t] /\ (pc[t] = "stream" => f[1] # round[t])
          /\ inv[PiRow(t, f[1])] = "running"
          /\ f[2] \in {"error", "aborted"} => err[t]
          /\ \A g \in fin[t] : f[1] = g[1] => f = g
    /\ pc[t] \in InRun /\ ~late[t] /\ ~err[t] /\ ~finErr[t] =>
          \A n \in 1..round[t] :
             \/ inv[PiRow(t, n)] = "completed"
             \/ pc[t] = "stream" /\ n = round[t]
             \/ \E a \in Answer : <<n, a>> \in fin[t]
    /\ pc[t] \notin InRun => fin[t] = {}
    /\ pc[t] = "returned" /\ out[t] = "completed" => PiEvidence(t)

(* Effects and records of the calls of t agree.                             *)
Effective(t) ==
    \A n \in 1..MaxRounds :
       ran[<<t, n>>] \in Prepared => (<<t, n>> \in effect <=> toolCall[<<t, n>>] = "success")

TurnInv(t) == Placed(t) /\ Staged(t) /\ Told(t) /\ Effective(t)

(* A slot is somebody's, or waits with its last session over.               *)
Pooled ==
    /\ \A t \in Turn : pc[t] \in InRun => slotOf[t] \in Slot /\ session[slotOf[t]] = t
    /\ \A i, j \in 1..Len(idle) : i # j => idle[i] # idle[j]
    /\ \A i \in 1..Len(idle) :
          session[idle[i]] # None => pc[session[idle[i]]] \in {"returned", "done"}

RunInv ==
    /\ Types /\ NoOrphanCalls /\ Pooled /\ effect \subseteq audited
    /\ \A t \in Turn : TurnInv(t)

-----------------------------------------------------------------------------
USE LedgerAssumption, AgentRunAssumption DEF LedgerAssumption, AgentRunAssumption

(* The rows of a round are its own.                                         *)
LEMMA RowFacts ==
    ASSUME NEW t \in Turn, NEW n \in 1..MaxRounds
    PROVE  /\ PiRow(t, n) \in Row /\ OwnerOf(PiRow(t, n)) = t
           /\ \A c \in 1..2 : EvaluatorRow(t, n, c) \in Row /\ OwnerOf(EvaluatorRow(t, n, c)) = t
  BY DEF PiRow, EvaluatorRow, OwnerOf, Row, Owner

LEMMA RowsDiffer ==
    ASSUME NEW t, NEW n, NEW m
    PROVE  /\ n # m => PiRow(t, n) # PiRow(t, m)
           /\ \A c : PiRow(t, n) # EvaluatorRow(t, m, c)
           /\ \A c, d : EvaluatorRow(t, n, c) = EvaluatorRow(t, m, d) => n = m /\ c = d
  BY DEF PiRow, EvaluatorRow

LEMMA CallFacts ==
    ASSUME NEW t \in Turn, NEW n \in 1..MaxRounds
    PROVE  /\ <<t, n>> \in Call /\ <<t, n>>[1] = t /\ <<t, n>> \in Request
           /\ \A u \in Turn, m \in 1..MaxRounds : <<t, n>> = <<u, m>> => t = u /\ n = m
  BY DEF Call, Request, Owner

LEMMA FaultFacts ==
    ASSUME Types, NEW n \in Nat, Faults(n)
    PROVE  mishaps' \in 0..MaxMishaps
  BY DEF Types, EvidenceTypes, Faults

(* What a step of t leaves alone.                                           *)
Local(t) ==
    /\ attempt' = attempt
    /\ \A row \in Row : OwnerOf(row) # t => inv'[row] = inv[row]
    /\ \A c \in Call : c[1] # t =>
          /\ toolCall'[c] = toolCall[c] /\ (c \in effect' <=> c \in effect)
          /\ ran'[c] = ran[c] /\ decision'[c] = decision[c]
    /\ \A u \in Turn \ {t} :
          /\ turn'[u] = turn[u] /\ pc'[u] = pc[u] /\ round'[u] = round[u] /\ call'[u] = call[u]
          /\ tool'[u] = tool[u] /\ late'[u] = late[u] /\ err'[u] = err[u]
          /\ finErr'[u] = finErr[u] /\ fin'[u] = fin[u] /\ out'[u] = out[u]
          /\ slotOf'[u] = slotOf[u]

LEMMA OthersKept ==
    ASSUME Types, NEW t \in Turn, Local(t), NEW u \in Turn \ {t}, TurnInv(u)
    PROVE  TurnInv(u)'
<1>1. \A k \in 1..MaxRounds :
        /\ inv'[PiRow(u, k)] = inv[PiRow(u, k)]
        /\ \A c \in 1..2 : inv'[EvaluatorRow(u, k, c)] = inv[EvaluatorRow(u, k, c)]
  BY RowFacts DEF Local
<1>2. \A k \in 1..MaxRounds :
        /\ toolCall'[<<u, k>>] = toolCall[<<u, k>>] /\ ran'[<<u, k>>] = ran[<<u, k>>]
        /\ <<u, k>> \in effect' <=> <<u, k>> \in effect
        /\ decision'[<<u, k>>] = decision[<<u, k>>]
  BY CallFacts DEF Local
<1>3. /\ turn'[u] = turn[u] /\ pc'[u] = pc[u] /\ round'[u] = round[u] /\ call'[u] = call[u]
      /\ tool'[u] = tool[u] /\ late'[u] = late[u] /\ err'[u] = err[u]
      /\ finErr'[u] = finErr[u] /\ fin'[u] = fin[u] /\ out'[u] = out[u]
  BY DEF Local
<1>4. round[u] \in 0..MaxRounds /\ call[u] \in 0..2
      /\ fin[u] \subseteq (1..MaxRounds) \X Answer
  BY DEF Types, SessionTypes
<1>5. \A k \in 1..MaxRounds : Blank(u, k)' <=> Blank(u, k)  BY <1>1, <1>2 DEF Blank, Untouched
<1>6. Placed(u)'  BY <1>3, <1>4, <1>5 DEF TurnInv, Placed
<1>7. Staged(u)'
  <2>1. pc[u] \in InRun \ {"loop"} => round[u] \in 1..MaxRounds  BY <1>4 DEF TurnInv, Staged
  <2>2. ThisCall(u)' = ThisCall(u)  BY <1>3 DEF ThisCall
  <2>3. CASE pc[u] \in InRun \ {"loop"}
    <3>1. Untouched(ThisCall(u))' <=> Untouched(ThisCall(u))
      BY <1>2, <2>1, <2>2, <2>3 DEF Untouched, ThisCall
    <3>2. /\ toolCall'[ThisCall(u)] = toolCall[ThisCall(u)]
          /\ ThisCall(u) \in effect' <=> ThisCall(u) \in effect
          /\ ran'[ThisCall(u)] = ran[ThisCall(u)]
          /\ decision'[ThisCall(u)] = decision[ThisCall(u)]
      BY <1>2, <2>1, <2>3 DEF ThisCall
    <3>3. \A c \in 1..2 : inv'[EvaluatorRow(u, round[u], c)] = inv[EvaluatorRow(u, round[u], c)]
      BY <1>1, <2>1, <2>3
    <3> QED  BY <1>3, <1>4, <2>1, <2>2, <2>3, <3>1, <3>2, <3>3 DEF TurnInv, Staged
  <2>4. CASE pc[u] \notin InRun \ {"loop"}
    BY <1>3, <2>4 DEF TurnInv, Staged, InRun, InTool
  <2> QED  BY <2>3, <2>4
<1>8. Told(u)'
  <2>1. PiEvidence(u)' <=> PiEvidence(u)  BY <1>1 DEF PiEvidence
  <2>2. pc[u] = "stream" => round[u] \in 1..MaxRounds  BY <1>4 DEF TurnInv, Staged, InRun
  <2>3. pc[u] = "stream" => inv'[PiRow(u, round[u])] = inv[PiRow(u, round[u])]  BY <1>1, <2>2
  <2>4. \A f \in fin[u] : inv'[PiRow(u, f[1])] = inv[PiRow(u, f[1])]  BY <1>1, <1>4
  <2>5. \A n \in 1..round[u] : inv'[PiRow(u, n)] = inv[PiRow(u, n)]  BY <1>1, <1>4
  <2> QED  BY <1>3, <1>4, <2>1, <2>3, <2>4, <2>5 DEF TurnInv, Told
<1>9. Effective(u)'  BY <1>2 DEF TurnInv, Effective
<1> QED  BY <1>6, <1>7, <1>8, <1>9 DEF TurnInv

(* A step of t keeps the invariant if it keeps what the invariant says of t.*)
LEMMA StepSound ==
    ASSUME RunInv, Types', NEW t \in Turn, Local(t), TurnInv(t)', Pooled', effect' \subseteq audited',
           \A row \in Row : OwnerOf(row) = t /\ inv'[row] = "running" => turn'[t] = "running"
    PROVE  RunInv'
<1>1. \A u \in Turn \ {t} : TurnInv(u)'  BY OthersKept DEF RunInv
<1>2. NoOrphanCalls'
  <2> SUFFICES ASSUME NEW row \in Row, inv'[row] = "running"
               PROVE  IF OwnerOf(row) \in Turn THEN turn'[OwnerOf(row)] = "running"
                      ELSE attempt'[OwnerOf(row)] \in {"running", "expired"}
    BY DEF NoOrphanCalls
  <2> QED  BY DEF RunInv, NoOrphanCalls, Local
<1> QED  BY <1>1, <1>2 DEF RunInv

(* The pool does not notice steps of a run.                                 *)
LEMMA PoolKept ==
    ASSUME Types, Pooled, NEW t \in Turn, Local(t), UNCHANGED <<session, idle>>,
           slotOf'[t] = slotOf[t], pc'[t] \in InRun => pc[t] \in InRun,
           pc[t] \in {"returned", "done"} => pc'[t] \in {"returned", "done"}
    PROVE  Pooled'
<1>1. \A u \in Turn :
        /\ slotOf'[u] = slotOf[u] /\ (pc'[u] \in InRun => pc[u] \in InRun)
        /\ pc[u] \in {"returned", "done"} => pc'[u] \in {"returned", "done"}
  BY DEF Local
<1>2. \A i \in 1..Len(idle) : idle[i] \in Slot
  BY DEF Types, PoolTypes
<1>3. \A i \in 1..Len(idle) : session[idle[i]] \in Turn \cup {None}  BY <1>2 DEF Types, PoolTypes
<1> QED  BY <1>1, <1>3 DEF Pooled

-----------------------------------------------------------------------------
(* The turn around the run                                                 *)

LEMMA InitSound == Init => RunInv
<1> SUFFICES ASSUME Init PROVE RunInv  OBVIOUS
<1> USE DEF Init, LedgerInit
<1>1. FirstSlot \in Slot  BY SlotAssumption DEF SlotAssumption, FirstSlot
<1>2. Types
  <2>1. LedgerTypeOK
    BY DEF LedgerTypeOK, RowStatus
  <2>2. SessionTypes  BY DEF SessionTypes
  <2>3. PoolTypes  BY <1>1 DEF PoolTypes
  <2>4. EvidenceTypes  BY DEF EvidenceTypes
  <2> QED  BY <2>1, <2>2, <2>3, <2>4 DEF Types
<1>3. NoOrphanCalls  BY DEF NoOrphanCalls
<1>4. Pooled  BY <1>1 DEF Pooled, InRun
<1>5. ASSUME NEW t \in Turn  PROVE TurnInv(t)
  <2>1. \A k \in 1..MaxRounds : Blank(t, k)  BY RowFacts, CallFacts DEF Blank, Untouched
  <2>2. Placed(t)  BY <2>1 DEF Placed, InRun
  <2>3. Staged(t)  BY DEF Staged, InRun, InTool
  <2>4. Told(t)  BY DEF Told, InRun
  <2>5. Effective(t)
    <3>1. None \notin Prepared  OBVIOUS
    <3> QED  BY <3>1, CallFacts DEF Effective
  <2> QED  BY <2>2, <2>3, <2>4, <2>5 DEF TurnInv
<1> QED  BY <1>2, <1>3, <1>4, <1>5 DEF RunInv

LEMMA BeginTurnSound ==
    ASSUME RunInv, NEW t \in Turn, BeginTurn(t)
    PROVE  RunInv'
<1> USE DEF RunInv, BeginTurn, Goto, ledgerVars, poolVars, evidenceVars, boundVars
<1>1. /\ pc[t] = "none"
      /\ \/ turn'[t] = "running" /\ pc'[t] = "ready"
         \/ turn'[t] = "failed" /\ pc'[t] = "done"
  BY DEF Types, LedgerTypeOK, SessionTypes
<1>2. UNCHANGED <<attempt, inv, decision, round, call, tool, offered, verdict, late, err, finErr,
                  fin, out, slotOf, session, idle, toolCall, audited, effect, ran, disabled, mishaps>>
  OBVIOUS
<1>3. Types'
  <2>1. LedgerTypeOK'  BY DEF Types, LedgerTypeOK
  <2>2. SessionTypes'  BY DEF Types, SessionTypes
  <2> QED  BY <1>2, <2>1, <2>2 DEF Types, PoolTypes, EvidenceTypes
<1>4. Local(t)  BY DEF Types, LedgerTypeOK, SessionTypes, Local
<1> HIDE DEF BeginTurn
<1>5. TurnInv(t)'
  <2>1. TurnInv(t)  OBVIOUS
  <2>2. \A k \in 1..MaxRounds : Blank(t, k)' <=> Blank(t, k)  BY <1>2 DEF Blank, Untouched
  <2>3. Placed(t)'  BY <1>1, <1>2, <2>1, <2>2 DEF TurnInv, Placed, InRun
  <2>4. Staged(t)'  BY <1>1 DEF Staged, InRun, InTool
  <2>5. Told(t)'  BY <1>1, <1>2, <2>1 DEF TurnInv, Told, InRun
  <2>6. Effective(t)'  BY <1>2, <2>1 DEF TurnInv, Effective
  <2> QED  BY <2>3, <2>4, <2>5, <2>6 DEF TurnInv
<1>6. Pooled'  BY <1>1, <1>2, <1>4, PoolKept DEF InRun
<1>7. \A row \in Row : OwnerOf(row) = t /\ inv'[row] = "running" => turn'[t] = "running"
  <2>1. turn[t] # "running"  BY <1>1 DEF TurnInv, Placed
  <2> QED  BY <1>2, <2>1 DEF NoOrphanCalls
<1> QED  BY <1>2, <1>3, <1>4, <1>5, <1>6, <1>7, StepSound

LEMMA EndTurnSound ==
    ASSUME RunInv, NEW t \in Turn, EndTurn(t)
    PROVE  RunInv'
<1> USE DEF RunInv, EndTurn, Goto, poolVars, evidenceVars, boundVars
<1>1. /\ pc[t] = "returned" /\ pc'[t] = "done" /\ out'[t] = "none" /\ inv' = Orphaned(t)
      /\ turn'[t] \in {"completed", "failed"}
  BY DEF Types, LedgerTypeOK, SessionTypes
<1>2. UNCHANGED <<attempt, decision, round, call, tool, offered, verdict, late, err, finErr,
                  fin, slotOf, session, idle, toolCall, audited, effect, ran, disabled, mishaps>>
  OBVIOUS
<1>3. /\ inv' \in [Row -> RowStatus]
      /\ \A row \in Row : OwnerOf(row) # t => inv'[row] = inv[row]
      /\ \A row \in Row : OwnerOf(row) = t => inv'[row] # "running"
  BY <1>1 DEF Orphaned, Types, LedgerTypeOK, RowStatus
<1>4. Types'
  <2>1. LedgerTypeOK'
    <3>1. turn' \in [Turn -> {"none", "pending", "running", "completed", "failed", "aborted"}]
      BY DEF Types, LedgerTypeOK
    <3> QED  BY <1>2, <1>3, <3>1 DEF Types, LedgerTypeOK
  <2>2. SessionTypes'  BY DEF Types, SessionTypes
  <2> QED  BY <1>2, <2>1, <2>2 DEF Types, PoolTypes, EvidenceTypes
<1>5. Local(t)  BY <1>3 DEF Types, LedgerTypeOK, SessionTypes, Local
<1> HIDE DEF EndTurn
<1>6. TurnInv(t)'
  <2>1. TurnInv(t)  OBVIOUS
  <2>2. Placed(t)'  BY <1>1 DEF Placed, InRun
  <2>3. Staged(t)'  BY <1>1 DEF Staged, InRun, InTool
  <2>4. Told(t)'  BY <1>1, <1>2, <2>1 DEF TurnInv, Told, InRun
  <2>5. Effective(t)'  BY <1>2, <2>1 DEF TurnInv, Effective
  <2> QED  BY <2>2, <2>3, <2>4, <2>5 DEF TurnInv
<1>7. Pooled'  BY <1>1, <1>2, <1>5, PoolKept DEF InRun
<1> QED  BY <1>2, <1>3, <1>4, <1>5, <1>6, <1>7, StepSound

-----------------------------------------------------------------------------
(* The run and its slot                                                    *)

(* A run that starts takes a slot nobody has.                               *)
LEMMA AcquiredFacts ==
    ASSUME RunInv, NEW t \in Turn, pc[t] = "ready"
    PROVE  /\ Acquired \in Slot
           /\ \A u \in Turn : pc[u] \in InRun => slotOf[u] # Acquired
           /\ idle = <<>> => \A i \in 1..Len(idle) : idle[i] # Acquired
<1> USE DEF RunInv
<1>1. idle \in Seq(Slot)  BY DEF Types, PoolTypes
<1>2. CASE idle # <<>>
  <2>1. Len(idle) \in 1..Len(idle) /\ idle[Len(idle)] \in Slot  BY <1>1, <1>2
  <2>2. Acquired = idle[Len(idle)]  BY <1>2 DEF Acquired
  <2>3. ASSUME NEW u \in Turn, pc[u] \in InRun  PROVE slotOf[u] # Acquired
    <3>1. slotOf[u] = idle[Len(idle)] => session[idle[Len(idle)]] = u  BY <2>3 DEF Pooled
    <3>2. session[idle[Len(idle)]] = u => pc[u] \in {"returned", "done"}  BY <2>1 DEF Pooled
    <3>3. pc[u] \notin {"returned", "done"}  BY <2>3 DEF InRun
    <3> QED  BY <2>2, <3>1, <3>2, <3>3
  <2> QED  BY <1>2, <2>1, <2>2, <2>3
<1>3. CASE idle = <<>>
  <2> DEFINE f == [u \in Turn \ {t} |-> IF pc[u] \in InRun THEN slotOf[u] ELSE FirstSlot]
  <2>1. f \in [Turn \ {t} -> Slot]  BY SlotAssumption DEF SlotAssumption, FirstSlot, Pooled
  <2>a. \A u \in Turn \ {t} : pc[u] \in InRun => f[u] = slotOf[u]  OBVIOUS
  <2> HIDE DEF f
  <2>2. PICK s \in Slot : \A u \in Turn \ {t} : f[u] # s
    BY <2>1, SlotAssumption DEF SlotAssumption
  <2>3. \A u \in Turn : pc[u] \in InRun => slotOf[u] # s
    BY <2>a, <2>2 DEF InRun
  <2>4. s \notin SlotsMade  BY <1>1, <1>3, <2>3 DEF SlotsMade
  <2>5. Acquired = CHOOSE x \in Slot : x \notin SlotsMade  BY <1>3 DEF Acquired
  <2>6. Acquired \in Slot /\ Acquired \notin SlotsMade  BY <2>4, <2>5
  <2>7. \A u \in Turn : pc[u] \in InRun => slotOf[u] # Acquired  BY <2>6 DEF SlotsMade
  <2> QED  BY <1>1, <1>3, <2>6, <2>7
<1> QED  BY <1>2, <1>3

(* The stack without the slot that was taken.                               *)
LEMMA PopFacts ==
    ASSUME Types, Pooled,
           NEW rest, rest = IF idle # <<>> THEN SubSeq(idle, 1, Len(idle) - 1) ELSE idle
    PROVE  /\ rest \in Seq(Slot)
           /\ \A i \in 1..Len(rest) : i \in 1..Len(idle) /\ rest[i] = idle[i]
           /\ idle # <<>> => \A i \in 1..Len(rest) : rest[i] # idle[Len(idle)]
<1>1. idle \in Seq(Slot)  BY DEF Types, PoolTypes
<1>2. CASE idle = <<>>  BY <1>1, <1>2
<1>3. CASE idle # <<>>
  <2>1. Len(idle) \in Nat \ {0} /\ Len(idle) - 1 \in 0..Len(idle)  BY <1>1, <1>3
  <2>2. /\ rest \in Seq(Slot) /\ Len(rest) = Len(idle) - 1
        /\ \A i \in 1..Len(rest) : rest[i] = idle[i]
    <3>1. rest = SubSeq(idle, 1, Len(idle) - 1) /\ Len(idle) - 1 \in Int /\ 1 \in Int  BY <1>3, <2>1
    <3>2. \A i \in 1..(Len(idle) - 1) : idle[i] \in Slot  BY <1>1, <2>1
    <3>3. /\ rest \in Seq(Slot) /\ Len(rest) = IF 1 <= Len(idle) - 1 THEN Len(idle) - 1 - 1 + 1 ELSE 0
          /\ \A i \in 1..(Len(idle) - 1 - 1 + 1) : rest[i] = idle[1 + i - 1]
      BY <3>1, <3>2, SubSeqProperties
    <3>4. Len(rest) = Len(idle) - 1
      <4> DEFINE n == Len(idle)
      <4>1. n \in Nat \ {0} /\ Len(rest) = IF 1 <= n - 1 THEN n - 1 - 1 + 1 ELSE 0  BY <2>1, <3>3
      <4> HIDE DEF n
      <4>2. Len(rest) = n - 1  BY <4>1
      <4> QED  BY <4>2 DEF n
    <3>5. \A i \in 1..Len(rest) : rest[i] = idle[i]
      <4>1. \A i \in 1..Len(rest) : i \in 1..(Len(idle) - 1 - 1 + 1) /\ 1 + i - 1 = i
        BY <2>1, <3>4
      <4> QED  BY <3>3, <4>1
    <3> QED  BY <3>3, <3>4, <3>5
  <2>3. \A i \in 1..Len(rest) : i \in 1..Len(idle) /\ i # Len(idle) /\ Len(idle) \in 1..Len(idle)
    BY <2>1, <2>2
  <2>4. \A i \in 1..Len(rest) : idle[i] # idle[Len(idle)]  BY <2>3 DEF Pooled
  <2> QED  BY <2>2, <2>3, <2>4
<1> QED  BY <1>2, <1>3

LEMMA RunTurnSound ==
    ASSUME RunInv, NEW t \in Turn, RunTurn(t)
    PROVE  RunInv'
<1> DEFINE refused ==
             /\ pc' = [pc EXCEPT ![t] = "returned"] /\ out' = [out EXCEPT ![t] = "failed"]
             /\ UNCHANGED <<offered, slotOf, session, idle>>
           begun ==
             /\ pc' = [pc EXCEPT ![t] = "loop"]
             /\ slotOf' = [slotOf EXCEPT ![t] = Acquired]
             /\ session' = [session EXCEPT ![Acquired] = t]
             /\ idle' = IF idle # <<>> THEN SubSeq(idle, 1, Len(idle) - 1) ELSE idle
             /\ offered' = [offered EXCEPT ![t] = {x \in Tool : Allowed(t, x)}]
             /\ UNCHANGED out
<1>1. /\ pc[t] = "ready" /\ (refused \/ begun)
      /\ UNCHANGED <<turn, attempt, inv, decision, round, call, tool, verdict, late, err, finErr,
                     fin, toolCall, audited, effect, ran, disabled, mishaps>>
  BY DEF RunTurn, Goto, ledgerVars, poolVars, evidenceVars, boundVars
<1> USE DEF RunInv
<1>2. /\ pc'[t] \in {"returned", "loop"} /\ (pc'[t] = "returned" => out'[t] = "failed")
      /\ \A u \in Turn \ {t} : pc'[u] = pc[u] /\ out'[u] = out[u] /\ slotOf'[u] = slotOf[u]
  BY <1>1 DEF Types, SessionTypes, PoolTypes
<1>3. Acquired \in Slot /\ \A u \in Turn : pc[u] \in InRun => slotOf[u] # Acquired
  BY <1>1, AcquiredFacts
<1>4. Types'
  <2>1. LedgerTypeOK'  BY <1>1 DEF Types, LedgerTypeOK
  <2>2. SessionTypes'
    <3>1. pc' \in [Turn -> InRun \cup {"none", "ready", "returned", "done"}]
      BY <1>1 DEF Types, SessionTypes, InRun
    <3>2. out' \in [Turn -> {"none", "completed", "failed"}]  BY <1>1 DEF Types, SessionTypes
    <3> DEFINE may == {x \in Tool : Allowed(t, x)}
    <3>a. may \in SUBSET Tool  OBVIOUS
    <3>b. offered' = [offered EXCEPT ![t] = may] \/ offered' = offered  BY <1>1
    <3> HIDE DEF may
    <3>3. offered' \in [Turn -> SUBSET Tool]  BY <3>a, <3>b DEF Types, SessionTypes
    <3> QED  BY <1>1, <3>1, <3>2, <3>3 DEF Types, SessionTypes
  <2>3. PoolTypes'
    <3>1. slotOf' \in [Turn -> Slot \cup {None}]  BY <1>1, <1>3 DEF Types, PoolTypes
    <3>2. session' \in [Slot -> Turn \cup {None}]  BY <1>1, <1>3 DEF Types, PoolTypes
    <3>3. idle' \in Seq(Slot)  BY <1>1, PopFacts DEF Types, PoolTypes
    <3> QED  BY <3>1, <3>2, <3>3 DEF PoolTypes
  <2>4. EvidenceTypes'  BY <1>1 DEF Types, EvidenceTypes
  <2> QED  BY <2>1, <2>2, <2>3, <2>4 DEF Types
<1>5. Local(t)  BY <1>1, <1>2 DEF Local
<1>6. TurnInv(t)'
  <2>1. TurnInv(t)  OBVIOUS
  <2>2. \A k \in 1..MaxRounds : Blank(t, k)' <=> Blank(t, k)  BY <1>1 DEF Blank, Untouched
  <2>3. round[t] = 0 /\ round'[t] = 0 /\ turn'[t] = "running" /\ fin'[t] = {}
    BY <1>1, <2>1 DEF TurnInv, Placed, Told, InRun
  <2>4. Placed(t)'  BY <1>1, <1>2, <2>1, <2>2, <2>3 DEF TurnInv, Placed, InRun
  <2>5. Staged(t)'  BY <1>2, <2>3 DEF Staged, InRun, InTool
  <2>6. Told(t)'  BY <1>2, <2>3 DEF Told, InRun
  <2>7. Effective(t)'  BY <1>1, <2>1 DEF TurnInv, Effective
  <2> QED  BY <2>4, <2>5, <2>6, <2>7 DEF TurnInv
<1>7. Pooled'
  <2>1. CASE refused
    <3>1. UNCHANGED <<session, idle>> /\ slotOf'[t] = slotOf[t] /\ pc'[t] = "returned"
      BY <2>1 DEF Types, SessionTypes
    <3> QED  BY <1>5, <3>1, PoolKept DEF InRun
  <2>2. CASE begun
    <3>1. /\ slotOf'[t] = Acquired /\ session'[Acquired] = t /\ pc'[t] = "loop"
          /\ \A s \in Slot \ {Acquired} : session'[s] = session[s]
      BY <1>3, <2>2 DEF Types, PoolTypes, SessionTypes
    <3>2. ASSUME NEW u \in Turn, pc'[u] \in InRun  PROVE slotOf'[u] \in Slot /\ session'[slotOf'[u]] = u
      BY <1>2, <1>3, <3>1, <3>2 DEF Pooled
    <3>3. /\ \A i \in 1..Len(idle') : i \in 1..Len(idle) /\ idle'[i] = idle[i]
          /\ idle # <<>> => \A i \in 1..Len(idle') : idle'[i] # idle[Len(idle)]
      BY <2>2, PopFacts
    <3>4. ASSUME NEW i \in 1..Len(idle')  PROVE idle'[i] # Acquired
      <4>1. CASE idle = <<>>
        <5>1. idle' = <<>>  BY <2>2, <4>1
        <5> QED  BY <5>1
      <4>2. CASE idle # <<>>  BY <3>3, <4>2 DEF Acquired
      <4> QED  BY <4>1, <4>2
    <3>5. ASSUME NEW i \in 1..Len(idle'), session'[idle'[i]] # None
          PROVE  pc'[session'[idle'[i]]] \in {"returned", "done"}
      <4>1. idle'[i] \in Slot /\ session'[idle'[i]] = session[idle[i]]
        BY <1>4, <3>1, <3>3, <3>4 DEF Types, PoolTypes
      <4>2. session[idle[i]] \in Turn  BY <3>3, <3>5, <4>1 DEF Types, PoolTypes
      <4>3. pc[session[idle[i]]] \in {"returned", "done"}  BY <3>3, <3>5, <4>1 DEF Pooled
      <4>4. session[idle[i]] # t  BY <1>1, <4>3
      <4> QED  BY <1>2, <4>1, <4>2, <4>3, <4>4
    <3>6. \A i, j \in 1..Len(idle') : i # j => idle'[i] # idle'[j]  BY <3>3 DEF Pooled
    <3> QED  BY <3>2, <3>5, <3>6 DEF Pooled
  <2> QED  BY <1>1, <2>1, <2>2
<1>8. \A row \in Row : OwnerOf(row) = t /\ inv'[row] = "running" => turn'[t] = "running"
  BY <1>1 DEF TurnInv, Placed
<1> QED  BY <1>1, <1>4, <1>5, <1>6, <1>7, <1>8, StepSound

LEMMA ReturnSound ==
    ASSUME RunInv, NEW t \in Turn, Return(t)
    PROVE  RunInv'
<1> USE DEF RunInv
<1>1. /\ pc[t] = "stopped" /\ fin[t] = {}
      /\ out' = [out EXCEPT ![t] = RunStatus(t)]
      /\ idle' = Released(t)
      /\ pc' = [pc EXCEPT ![t] = "returned"]
      /\ round' = [round EXCEPT ![t] = 0] /\ call' = [call EXCEPT ![t] = 0]
      /\ tool' = [tool EXCEPT ![t] = None] /\ offered' = [offered EXCEPT ![t] = {}]
      /\ late' = [late EXCEPT ![t] = FALSE]
      /\ err' = [err EXCEPT ![t] = FALSE] /\ finErr' = [finErr EXCEPT ![t] = FALSE]
      /\ slotOf' = [slotOf EXCEPT ![t] = None]
      /\ UNCHANGED <<turn, attempt, inv, decision, verdict, fin, session, toolCall, audited,
                     effect, ran, disabled, mishaps>>
  BY DEF Return, MayReturn, Goto, ledgerVars, evidenceVars, boundVars
<1>2. /\ pc'[t] = "returned" /\ out'[t] = RunStatus(t) /\ pc[t] \in InRun
      /\ RunStatus(t) \in {"completed", "failed"}
  BY <1>1 DEF Types, SessionTypes, RunStatus, InRun
<1>3. /\ slotOf[t] \in Slot /\ session[slotOf[t]] = t
      /\ idle' = Append(idle, slotOf[t]) /\ idle \in Seq(Slot)
  BY <1>1, <1>2 DEF Pooled, Released, Types, PoolTypes
<1>4. Types'
  <2>1. LedgerTypeOK'  BY <1>1 DEF Types, LedgerTypeOK
  <2>2. SessionTypes'
    <3>1. /\ pc' \in [Turn -> InRun \cup {"none", "ready", "returned", "done"}]
          /\ out' \in [Turn -> {"none", "completed", "failed"}]
      BY <1>1, <1>2 DEF Types, SessionTypes
    <3>2. round' \in [Turn -> 0..MaxRounds] /\ call' \in [Turn -> 0..2]
      BY <1>1 DEF Types, SessionTypes
    <3>3. tool' \in [Turn -> Tool \cup {None}] /\ offered' \in [Turn -> SUBSET Tool]
      BY <1>1 DEF Types, SessionTypes
    <3>4. late' \in [Turn -> BOOLEAN] /\ err' \in [Turn -> BOOLEAN] /\ finErr' \in [Turn -> BOOLEAN]
      BY <1>1 DEF Types, SessionTypes
    <3> QED  BY <1>1, <3>1, <3>2, <3>3, <3>4 DEF Types, SessionTypes
  <2>3. PoolTypes'
    <3>1. slotOf' \in [Turn -> Slot \cup {None}] /\ session' \in [Slot -> Turn \cup {None}]
      BY <1>1 DEF Types, PoolTypes
    <3> QED  BY <1>3, <3>1 DEF PoolTypes
  <2>4. EvidenceTypes'  BY <1>1 DEF Types, EvidenceTypes
  <2> QED  BY <2>1, <2>2, <2>3, <2>4 DEF Types
<1>5. Local(t)
  <2>1. \A u \in Turn \ {t} :
          /\ turn'[u] = turn[u] /\ pc'[u] = pc[u] /\ round'[u] = round[u] /\ call'[u] = call[u]
          /\ tool'[u] = tool[u] /\ fin'[u] = fin[u] /\ out'[u] = out[u] /\ slotOf'[u] = slotOf[u]
    BY <1>1 DEF Types, SessionTypes, PoolTypes
  <2>2. \A u \in Turn \ {t} : late'[u] = late[u] /\ err'[u] = err[u] /\ finErr'[u] = finErr[u]
    BY <1>1 DEF Types, SessionTypes
  <2> QED  BY <1>1, <2>1, <2>2 DEF Local
<1>6. TurnInv(t)'
  <2>1. TurnInv(t)  OBVIOUS
  <2>2. turn'[t] = "running"  BY <1>1, <1>2, <2>1 DEF TurnInv, Placed
  <2>3. Placed(t)'  BY <1>2, <2>2 DEF Placed, InRun
  <2>4. Staged(t)'  BY <1>2 DEF Staged, InRun, InTool
  <2>5. out'[t] = "completed" => PiEvidence(t)'
    <3> SUFFICES ASSUME out'[t] = "completed"  PROVE PiEvidence(t)  BY <1>1 DEF PiEvidence
    <3>1. ~late[t] /\ ~err[t] /\ ~finErr[t]  BY <1>2 DEF RunStatus
    <3>2. round[t] \in 1..MaxRounds
      BY <1>1, <1>2, <2>1 DEF TurnInv, Staged, Types, SessionTypes
    <3>3. \A n \in 1..round[t] : inv[PiRow(t, n)] = "completed"
      BY <1>1, <1>2, <2>1, <3>1 DEF TurnInv, Told
    <3>4. \A n \in 1..MaxRounds : n > round[t] => inv[PiRow(t, n)] = "none"
      BY <1>2, <2>1 DEF TurnInv, Placed, Blank
    <3>5. \A n \in 1..MaxRounds : inv[PiRow(t, n)] # "none" => inv[PiRow(t, n)] = "completed"
      BY <3>2, <3>3, <3>4
    <3>6. inv[PiRow(t, round[t])] = "completed"  BY <3>2, <3>3
    <3> QED  BY <3>2, <3>5, <3>6 DEF PiEvidence
  <2>6. Told(t)'  BY <1>1, <1>2, <2>5 DEF Told, InRun
  <2>7. Effective(t)'  BY <1>1, <2>1 DEF TurnInv, Effective
  <2> QED  BY <2>3, <2>4, <2>6, <2>7 DEF TurnInv
<1>7. Pooled'
  <2>1. /\ Len(idle') = Len(idle) + 1 /\ idle'[Len(idle) + 1] = slotOf[t]
        /\ \A i \in 1..Len(idle) : idle'[i] = idle[i]
    BY <1>3
  <2>2. \A i \in 1..Len(idle) : idle[i] # slotOf[t]
    <3>1. t # None /\ pc[t] \notin {"returned", "done"}  BY <1>1
    <3> QED  BY <1>3, <3>1 DEF Pooled
  <2>3. \A i, j \in 1..Len(idle') : i # j => idle'[i] # idle'[j]
    BY <1>3, <2>1, <2>2 DEF Pooled
  <2>4. \A u \in Turn : pc'[u] \in InRun => slotOf'[u] \in Slot /\ session'[slotOf'[u]] = u
    <3>1. pc'[t] \notin InRun  BY <1>2 DEF InRun
    <3> QED  BY <1>1, <1>5, <3>1 DEF Pooled, Local
  <2>5. ASSUME NEW i \in 1..Len(idle'), session'[idle'[i]] # None
        PROVE  pc'[session'[idle'[i]]] \in {"returned", "done"}
    <3>1. CASE i = Len(idle) + 1  BY <1>1, <1>2, <1>3, <2>1, <3>1
    <3>2. CASE i # Len(idle) + 1
      <4>1. i \in 1..Len(idle) /\ idle'[i] = idle[i] /\ idle[i] \in Slot
        BY <1>3, <2>1, <3>2
      <4>2. session[idle[i]] \in Turn /\ pc[session[idle[i]]] \in {"returned", "done"}
        BY <1>1, <2>5, <4>1 DEF Pooled, Types, PoolTypes
      <4>3. session[idle[i]] # t  BY <1>1, <4>2
      <4> QED  BY <1>1, <1>5, <4>1, <4>2, <4>3 DEF Local
    <3> QED  BY <3>1, <3>2
  <2> QED  BY <2>3, <2>4, <2>5 DEF Pooled
<1>8. \A row \in Row : OwnerOf(row) = t /\ inv'[row] = "running" => turn'[t] = "running"
  BY <1>1, <1>2 DEF TurnInv, Placed
<1> QED  BY <1>1, <1>4, <1>5, <1>6, <1>7, <1>8, StepSound

LEMMA DeadlineSound ==
    ASSUME RunInv, NEW t \in Turn, Deadline(t)
    PROVE  RunInv'
<1> USE DEF RunInv
<1>1. /\ pc[t] \in InRun /\ late' = [late EXCEPT ![t] = TRUE]
      /\ UNCHANGED <<turn, attempt, inv, decision, pc, round, call, tool, offered, verdict, err,
                     finErr, fin, out, slotOf, session, idle, toolCall, audited, effect, ran,
                     disabled, mishaps>>
  BY DEF Deadline, ledgerVars, poolVars, evidenceVars, boundVars
<1>2. late' \in [Turn -> BOOLEAN] /\ late'[t] = TRUE /\ \A u \in Turn \ {t} : late'[u] = late[u]
  BY <1>1 DEF Types, SessionTypes
<1>3. Types'
  BY <1>1, <1>2 DEF Types, LedgerTypeOK, SessionTypes, PoolTypes, EvidenceTypes
<1>4. Local(t)  BY <1>1, <1>2 DEF Local
<1>5. TurnInv(t)'
  <2>1. TurnInv(t)  OBVIOUS
  <2>2. \A k \in 1..MaxRounds : Blank(t, k)' <=> Blank(t, k)  BY <1>1 DEF Blank, Untouched
  <2>3. Placed(t)'  BY <1>1, <2>1, <2>2 DEF TurnInv, Placed
  <2>4. Staged(t)'
    <3>1. Untouched(ThisCall(t))' <=> Untouched(ThisCall(t))  BY <1>1 DEF Untouched, ThisCall
    <3> QED  BY <1>1, <2>1, <3>1 DEF TurnInv, Staged, ThisCall
  <2>5. Told(t)'  BY <1>1, <1>2, <2>1 DEF TurnInv, Told, PiEvidence
  <2>6. Effective(t)'  BY <1>1, <2>1 DEF TurnInv, Effective
  <2> QED  BY <2>3, <2>4, <2>5, <2>6 DEF TurnInv
<1>6. Pooled'  BY <1>1, <1>4, PoolKept
<1>7. \A row \in Row : OwnerOf(row) = t /\ inv'[row] = "running" => turn'[t] = "running"
  BY <1>1 DEF TurnInv, Placed
<1> QED  BY <1>1, <1>3, <1>4, <1>5, <1>6, <1>7, StepSound

-----------------------------------------------------------------------------
(* Provider rounds                                                         *)

(* A row of t is written.                                                   *)
LEMMA RowWritten ==
    ASSUME Types, NEW t \in Turn, NEW row \in Row, OwnerOf(row) = t, NEW s \in RowStatus,
           inv' = [inv EXCEPT ![row] = s]
    PROVE  /\ inv' \in [Row -> RowStatus] /\ inv'[row] = s
           /\ \A other \in Row \ {row} : inv'[other] = inv[other]
           /\ \A other \in Row : OwnerOf(other) # t => inv'[other] = inv[other]
  BY DEF Types, LedgerTypeOK

LEMMA StreamProviderRoundSound ==
    ASSUME RunInv, NEW t \in Turn, StreamProviderRound(t)
    PROVE  RunInv'
<1> USE DEF RunInv
<1> DEFINE n == round[t] + 1
           row == PiRow(t, n)
<1>0. TurnInv(t) /\ pc[t] = "loop" /\ pc[t] \in InRun  BY DEF StreamProviderRound, InRun
<1>1. n \in 1..MaxRounds /\ row \in Row /\ OwnerOf(row) = t /\ round[t] \in 0..MaxRounds
  <2>1. round[t] \in 0..MaxRounds /\ round[t] < MaxRounds
    BY <1>0 DEF TurnInv, Staged, Types, SessionTypes
  <2>2. n \in 1..MaxRounds  BY <2>1
  <2> HIDE DEF n
  <2> QED  BY <2>1, <2>2, RowFacts
<1>2. /\ round' = [round EXCEPT ![t] = n]
      /\ \/ inv' = [inv EXCEPT ![row] = "running"] /\ pc' = [pc EXCEPT ![t] = "stream"]
            /\ err' = err /\ mishaps' = mishaps
         \/ inv' = [inv EXCEPT ![row] = "failed"] /\ pc' = [pc EXCEPT ![t] = "stopped"]
            /\ err' = [err EXCEPT ![t] = TRUE] /\ mishaps' = mishaps
         \/ inv' = inv /\ pc' = [pc EXCEPT ![t] = "stopped"]
            /\ err' = [err EXCEPT ![t] = TRUE] /\ Faults(1)
      /\ UNCHANGED <<turn, attempt, decision, call, tool, offered, verdict, late, finErr, fin, out,
                     slotOf, session, idle, toolCall, audited, effect, ran, disabled>>
  BY DEF StreamProviderRound, Started, Failed, Goto, NoFault, poolVars, evidenceVars
<1> HIDE DEF n, row
<1>3. /\ inv' \in [Row -> RowStatus] /\ mishaps' \in 0..MaxMishaps
      /\ \A other \in Row : other # row => inv'[other] = inv[other]
      /\ \A other \in Row : OwnerOf(other) # t => inv'[other] = inv[other]
  <2>1. "running" \in RowStatus /\ "failed" \in RowStatus  BY DEF RowStatus
  <2>2. inv \in [Row -> RowStatus] /\ mishaps \in 0..MaxMishaps
    BY DEF Types, LedgerTypeOK, EvidenceTypes
  <2>3. Faults(1) => mishaps' \in 0..MaxMishaps  BY FaultFacts
  <2> QED  BY <1>1, <1>2, <2>1, <2>2, <2>3, RowWritten
<1>4. /\ round'[t] = n /\ pc'[t] \in {"stream", "stopped"}
      /\ pc'[t] = "stream" => inv'[row] = "running" /\ err'[t] = err[t]
      /\ pc'[t] = "stopped" => err'[t]
      /\ \A u \in Turn \ {t} : round'[u] = round[u] /\ pc'[u] = pc[u] /\ err'[u] = err[u]
  BY <1>1, <1>2 DEF Types, SessionTypes, LedgerTypeOK
<1>5. Types'
  <2>1. LedgerTypeOK'  BY <1>2, <1>3 DEF Types, LedgerTypeOK
  <2>2. SessionTypes'
    <3>1. pc' \in [Turn -> InRun \cup {"none", "ready", "returned", "done"}]
      BY <1>2 DEF Types, SessionTypes, InRun
    <3>2. round' \in [Turn -> 0..MaxRounds]  BY <1>1, <1>2 DEF Types, SessionTypes
    <3>3. err' \in [Turn -> BOOLEAN]  BY <1>2 DEF Types, SessionTypes
    <3> QED  BY <1>2, <3>1, <3>2, <3>3 DEF Types, SessionTypes
  <2>3. PoolTypes' /\ EvidenceTypes'  BY <1>2, <1>3 DEF Types, PoolTypes, EvidenceTypes
  <2> QED  BY <2>1, <2>2, <2>3 DEF Types
<1>6. Local(t)  BY <1>2, <1>3, <1>4 DEF Local
<1>7. \A k \in 1..MaxRounds :
        /\ k # n => inv'[PiRow(t, k)] = inv[PiRow(t, k)]
        /\ \A c \in 1..2 : inv'[EvaluatorRow(t, k, c)] = inv[EvaluatorRow(t, k, c)]
  BY <1>3, RowFacts, RowsDiffer DEF row
<1>8. \A k \in 1..MaxRounds : k > round[t] => Blank(t, k)  BY <1>0 DEF TurnInv, Placed
<1>9. n = round[t] + 1  BY DEF n
<1>10. \A k \in 1..MaxRounds : k > n => Blank(t, k)'
  <2> SUFFICES ASSUME NEW k \in 1..MaxRounds, k > n  PROVE Blank(t, k)'  OBVIOUS
  <2>1. k # n /\ k > round[t]  BY <1>1, <1>9
  <2> QED  BY <1>2, <1>7, <1>8, <2>1 DEF Blank, Untouched
<1>11. TurnInv(t)'
  <2>1. turn'[t] = "running"  BY <1>0, <1>2 DEF TurnInv, Placed
  <2>2. Placed(t)'  BY <1>4, <1>10, <2>1 DEF Placed, InRun
  <2>3. Staged(t)'
    <3>1. ThisCall(t)' = <<t, n>>  BY <1>4 DEF ThisCall
    <3>2. Blank(t, n)  BY <1>1, <1>8, <1>9
    <3>3. Untouched(ThisCall(t))'  BY <1>2, <3>1, <3>2 DEF Blank, Untouched
    <3>4. \A c \in 1..2 : inv'[EvaluatorRow(t, n, c)] = "none"  BY <1>1, <1>7, <3>2 DEF Blank
    <3> QED  BY <1>1, <1>4, <3>3, <3>4 DEF Staged, InRun, InTool
  <2>4. Told(t)'
    <3>1. fin'[t] = fin[t] /\ late'[t] = late[t] /\ finErr'[t] = finErr[t]  BY <1>2
    <3>2. \A f \in fin[t] : f[1] \in 1..round[t]  BY <1>0 DEF TurnInv, Told
    <3>3. \A m \in 1..round[t] : m # n /\ m \in 1..MaxRounds /\ m \in 1..n
      BY <1>1, <1>9
    <3>4. \A m \in 1..n : m = n \/ m \in 1..round[t]  BY <1>1, <1>9
    <3>5. \A m \in 1..round[t] : inv'[PiRow(t, m)] = inv[PiRow(t, m)]  BY <1>7, <3>3
    <3>6. pc'[t] = "stream" => inv'[PiRow(t, n)] = "running"  BY <1>4 DEF row
    <3>7. pc'[t] \in InRun /\ pc'[t] # "returned"  BY <1>4 DEF InRun
    <3>8. \A f \in fin[t] :
            /\ f[1] \in 1..n /\ f[1] # n /\ inv'[PiRow(t, f[1])] = "running"
            /\ f[2] \in {"error", "aborted"} => err'[t]
            /\ \A g \in fin[t] : f[1] = g[1] => f = g
      BY <1>0, <1>4, <3>2, <3>3, <3>5 DEF TurnInv, Told
    <3>9. ASSUME ~late'[t], ~err'[t], ~finErr'[t], NEW m \in 1..n
          PROVE  \/ inv'[PiRow(t, m)] = "completed"
                 \/ pc'[t] = "stream" /\ m = n
                 \/ \E a \in Answer : <<m, a>> \in fin[t]
      BY <1>0, <1>4, <3>1, <3>4, <3>5, <3>9 DEF TurnInv, Told
    <3> QED  BY <1>4, <3>1, <3>6, <3>7, <3>8, <3>9 DEF Told
  <2>5. Effective(t)'  BY <1>0, <1>2 DEF TurnInv, Effective
  <2> QED  BY <2>2, <2>3, <2>4, <2>5 DEF TurnInv
<1>12. Pooled'
  <2>1. pc[t] # "returned" /\ pc[t] # "done"  BY <1>0
  <2> QED  BY <1>0, <1>2, <1>6, <2>1, PoolKept
<1>13. turn'[t] = "running"  BY <1>0, <1>2 DEF TurnInv, Placed
<1> QED  BY <1>2, <1>5, <1>6, <1>11, <1>12, <1>13, StepSound

LEMMA ProviderAnswersSound ==
    ASSUME RunInv, NEW t \in Turn, ProviderAnswers(t)
    PROVE  RunInv'
<1> USE DEF RunInv
<1>0. TurnInv(t) /\ pc[t] = "stream" /\ pc[t] \in InRun  BY DEF ProviderAnswers, InRun
<1>1. PICK a \in Answer :
        /\ fin' = [fin EXCEPT ![t] = @ \cup {<<round[t], a>>}]
        /\ err' = [err EXCEPT ![t] = @ \/ a \in {"error", "aborted"}]
        /\ IF a = "tools"
             THEN /\ round[t] < MaxRounds
                  /\ \E x \in offered[t] : tool' = [tool EXCEPT ![t] = x]
                  /\ pc' = [pc EXCEPT ![t] = "tool"]
             ELSE pc' = [pc EXCEPT ![t] = "stopped"] /\ UNCHANGED tool
  BY Zenon DEF ProviderAnswers, Goto
<1>2. UNCHANGED <<turn, attempt, inv, decision, round, call, offered, verdict, late, finErr, out,
                  slotOf, session, idle, toolCall, audited, effect, ran, disabled, mishaps>>
  BY DEF ProviderAnswers, ledgerVars, poolVars, evidenceVars, boundVars
<1>3. round[t] \in 1..MaxRounds /\ fin[t] \in SUBSET ((1..MaxRounds) \X Answer)
  BY <1>0 DEF TurnInv, Staged, Types, SessionTypes
<1>4. /\ fin'[t] = fin[t] \cup {<<round[t], a>>}
      /\ err'[t] = (err[t] \/ a \in {"error", "aborted"})
      /\ pc'[t] \in {"tool", "stopped"}
      /\ pc'[t] = "tool" => round[t] < MaxRounds /\ tool'[t] \in Tool
  <2>1. fin'[t] = fin[t] \cup {<<round[t], a>>}  BY <1>1 DEF Types, SessionTypes
  <2>2. err'[t] = (err[t] \/ a \in {"error", "aborted"})  BY <1>1 DEF Types, SessionTypes
  <2>3. /\ pc'[t] \in {"tool", "stopped"}
        /\ pc'[t] = "tool" => round[t] < MaxRounds /\ tool'[t] \in Tool
    <3>1. \A x \in offered[t] : x \in Tool  BY DEF Types, SessionTypes
    <3> QED  BY <1>1, <3>1 DEF Types, SessionTypes
  <2> QED  BY <2>1, <2>2, <2>3
<1>5. Types'
  <2>1. LedgerTypeOK' /\ PoolTypes' /\ EvidenceTypes'
    BY <1>2 DEF Types, LedgerTypeOK, PoolTypes, EvidenceTypes
  <2>2. SessionTypes'
    <3>1. pc' \in [Turn -> InRun \cup {"none", "ready", "returned", "done"}]
      BY <1>1 DEF Types, SessionTypes, InRun
    <3>2. fin' \in [Turn -> SUBSET ((1..MaxRounds) \X Answer)]
      <4> DEFINE new == fin[t] \cup {<<round[t], a>>}
      <4>1. new \in SUBSET ((1..MaxRounds) \X Answer)  BY <1>3
      <4>2. fin' = [fin EXCEPT ![t] = new]  BY <1>1
      <4> HIDE DEF new
      <4> QED  BY <4>1, <4>2 DEF Types, SessionTypes
    <3>3. err' \in [Turn -> BOOLEAN]  BY <1>1 DEF Types, SessionTypes
    <3>4. tool' \in [Turn -> Tool \cup {None}]
      <4>1. \A x \in offered[t] : x \in Tool  BY DEF Types, SessionTypes
      <4> QED  BY <1>1, <4>1 DEF Types, SessionTypes
    <3> QED  BY <1>2, <3>1, <3>2, <3>3, <3>4 DEF Types, SessionTypes
  <2> QED  BY <2>1, <2>2 DEF Types
<1>6. Local(t)
  <2>1. \A u \in Turn \ {t} : pc'[u] = pc[u] /\ err'[u] = err[u]
    BY <1>1 DEF Types, SessionTypes
  <2>2. \A u \in Turn \ {t} : fin'[u] = fin[u] /\ tool'[u] = tool[u]
    BY <1>1 DEF Types, SessionTypes
  <2> QED  BY <1>2, <2>1, <2>2 DEF Local
<1>7. TurnInv(t)'
  <2>1. turn'[t] = "running"  BY <1>0, <1>2 DEF TurnInv, Placed
  <2>2. \A k \in 1..MaxRounds : Blank(t, k)' <=> Blank(t, k)  BY <1>2 DEF Blank, Untouched
  <2>3. Placed(t)'  BY <1>0, <1>2, <1>4, <2>1, <2>2 DEF TurnInv, Placed, InRun
  <2>4. Staged(t)'
    <3>1. Untouched(ThisCall(t))' <=> Untouched(ThisCall(t))  BY <1>2 DEF Untouched, ThisCall
    <3>2. Untouched(ThisCall(t)) /\ \A c \in 1..2 : inv[EvaluatorRow(t, round[t], c)] = "none"
      BY <1>0 DEF TurnInv, Staged
    <3> QED  BY <1>2, <1>3, <1>4, <3>1, <3>2 DEF Staged, InRun, InTool
  <2>5. Told(t)'
    <3>1. pc'[t] \in InRun /\ pc'[t] # "returned" /\ pc'[t] # "stream"  BY <1>4 DEF InRun
    <3>2. \A f \in fin[t] : f[1] # round[t]  BY <1>0 DEF TurnInv, Told
    <3> DEFINE e == <<round[t], a>>
    <3>3. e[1] = round[t] /\ e[2] = a /\ fin'[t] = fin[t] \cup {e}  BY <1>4
    <3>4. inv'[PiRow(t, round[t])] = "running"  BY <1>0, <1>2 DEF TurnInv, Told
    <3>5. \E b \in Answer : <<round[t], b>> \in fin'[t]  BY <1>4
    <3> HIDE DEF e
    <3>a. \A f \in fin[t] :
            /\ f[1] \in 1..round[t] /\ inv'[PiRow(t, f[1])] = "running"
            /\ f[2] \in {"error", "aborted"} => err'[t]
            /\ \A g \in fin[t] : f[1] = g[1] => f = g
      BY <1>0, <1>2, <1>4 DEF TurnInv, Told
    <3>b. /\ e[1] \in 1..round[t] /\ inv'[PiRow(t, e[1])] = "running"
          /\ e[2] \in {"error", "aborted"} => err'[t]
      <4>1. e[2] \in {"error", "aborted"} => err'[t]  BY <1>4, <3>3
      <4> QED  BY <1>3, <3>3, <3>4, <4>1
    <3>6. \A f \in fin'[t] :
            /\ f[1] \in 1..round[t] /\ inv'[PiRow(t, f[1])] = "running"
            /\ f[2] \in {"error", "aborted"} => err'[t]
            /\ \A g \in fin'[t] : f[1] = g[1] => f = g
      BY <3>2, <3>3, <3>a, <3>b
    <3>7. ASSUME ~late'[t], ~err'[t], ~finErr'[t], NEW m \in 1..round[t]
          PROVE  \/ inv'[PiRow(t, m)] = "completed"
                 \/ \E b \in Answer : <<m, b>> \in fin'[t]
      BY <1>0, <1>2, <1>4, <3>5, <3>7 DEF TurnInv, Told
    <3> QED  BY <1>2, <3>1, <3>6, <3>7 DEF Told
  <2>6. Effective(t)'  BY <1>0, <1>2 DEF TurnInv, Effective
  <2> QED  BY <2>3, <2>4, <2>5, <2>6 DEF TurnInv
<1>8. Pooled'
  <2>1. pc[t] # "returned" /\ pc[t] # "done"  BY <1>0
  <2> QED  BY <1>0, <1>2, <1>6, <2>1, PoolKept
<1>9. turn'[t] = "running"  BY <1>0, <1>2 DEF TurnInv, Placed
<1> QED  BY <1>2, <1>5, <1>6, <1>7, <1>8, <1>9, StepSound

LEMMA FinalizeSound ==
    ASSUME RunInv, NEW t \in Turn, Finalize(t)
    PROVE  RunInv'
<1> USE DEF RunInv
<1>1. PICK f \in fin[t] :
        LET row == PiRow(t, f[1])
        IN  /\ fin' = [fin EXCEPT ![t] = @ \ {f}]
            /\ \/ /\ inv' = IF CanFail(row) THEN Failed(row, Terminal(f[2])) ELSE inv
                  /\ NoFault /\ UNCHANGED finErr
               \/ /\ CanFail(row) /\ Faults(1)
                  /\ inv' = Failed(row, IF late[t] THEN "aborted" ELSE "failed")
                  /\ finErr' = [finErr EXCEPT ![t] = @ \/ ~late[t]]
               \/ /\ CanFail(row) /\ Faults(2)
                  /\ finErr' = [finErr EXCEPT ![t] = TRUE]
                  /\ UNCHANGED inv
            /\ UNCHANGED <<turn, attempt, decision, pc, round, call, tool, offered, verdict, late,
                           err, out, slotOf, poolVars, evidenceVars, disabled>>
  BY Zenon DEF Finalize
<1> DEFINE n == f[1]
           row == PiRow(t, n)
<1>2. UNCHANGED <<turn, attempt, decision, pc, round, call, tool, offered, verdict, late, err, out,
                  slotOf, session, idle, toolCall, audited, effect, ran, disabled>>
  BY <1>1 DEF poolVars, evidenceVars
<1>3. /\ TurnInv(t) /\ pc[t] \in InRun /\ n \in 1..round[t] /\ round[t] \in 0..MaxRounds
      /\ f[2] \in Answer /\ inv[row] = "running"
      /\ pc[t] = "stream" => n # round[t]
  <2>1. TurnInv(t) /\ pc[t] \in InRun  BY DEF TurnInv, Told
  <2>2. n \in 1..round[t] /\ inv[row] = "running" /\ (pc[t] = "stream" => n # round[t])
    BY <2>1 DEF TurnInv, Told
  <2>3. round[t] \in 0..MaxRounds /\ f[2] \in Answer  BY DEF Types, SessionTypes
  <2> QED  BY <2>1, <2>2, <2>3
<1>4. row \in Row /\ OwnerOf(row) = t
  <2>1. n \in 1..MaxRounds  BY <1>3
  <2> HIDE DEF n
  <2> QED  BY <2>1, RowFacts
<1>5. /\ fin' = [fin EXCEPT ![t] = fin[t] \ {f}]
      /\ \/ inv' = [inv EXCEPT ![row] = Terminal(f[2])] /\ mishaps' = mishaps /\ finErr' = finErr
         \/ inv' = [inv EXCEPT ![row] = IF late[t] THEN "aborted" ELSE "failed"] /\ Faults(1)
            /\ finErr' = [finErr EXCEPT ![t] = finErr[t] \/ ~late[t]]
         \/ inv' = inv /\ Faults(2) /\ finErr' = [finErr EXCEPT ![t] = TRUE]
  <2>1. fin' = [fin EXCEPT ![t] = fin[t] \ {f}]  BY <1>1
  <2>2. CanFail(row)  BY <1>3 DEF CanFail
  <2>3. \/ inv' = Failed(row, Terminal(f[2])) /\ mishaps' = mishaps /\ finErr' = finErr
        \/ inv' = Failed(row, IF late[t] THEN "aborted" ELSE "failed") /\ Faults(1)
           /\ finErr' = [finErr EXCEPT ![t] = @ \/ ~late[t]]
        \/ inv' = inv /\ Faults(2) /\ finErr' = [finErr EXCEPT ![t] = TRUE]
    BY <1>1, <2>2, Zenon DEF NoFault
  <2>4. \A s : Failed(row, s) = [inv EXCEPT ![row] = s]  BY Zenon DEF Failed
  <2> HIDE DEF row
  <2> QED  BY <2>1, <2>3, <2>4, Zenon
<1> HIDE DEF row
<1>6. /\ inv' \in [Row -> RowStatus] /\ mishaps' \in 0..MaxMishaps
      /\ \A other \in Row : other # row => inv'[other] = inv[other]
      /\ \A other \in Row : OwnerOf(other) # t => inv'[other] = inv[other]
  <2>1. Terminal(f[2]) \in RowStatus /\ "failed" \in RowStatus /\ "aborted" \in RowStatus
    BY <1>3 DEF RowStatus, Terminal, Answer
  <2>2. inv \in [Row -> RowStatus] /\ mishaps \in 0..MaxMishaps
    BY DEF Types, LedgerTypeOK, EvidenceTypes
  <2>3. (Faults(1) \/ Faults(2)) => mishaps' \in 0..MaxMishaps  BY FaultFacts
  <2> QED  BY <1>4, <1>5, <2>1, <2>2, <2>3, RowWritten
<1>7. /\ fin'[t] = fin[t] \ {f} /\ finErr'[t] \in BOOLEAN
      /\ finErr[t] => finErr'[t]
      /\ \A u \in Turn \ {t} : fin'[u] = fin[u] /\ finErr'[u] = finErr[u]
  BY <1>5 DEF Types, SessionTypes
<1>8. late[t] \/ finErr'[t] \/ inv'[row] = Terminal(f[2])
  BY <1>4, <1>5 DEF Types, SessionTypes, LedgerTypeOK
<1>9. Types'
  <2>1. LedgerTypeOK'  BY <1>2, <1>6 DEF Types, LedgerTypeOK
  <2>2. SessionTypes'
    <3>1. fin' \in [Turn -> SUBSET ((1..MaxRounds) \X Answer)]
      <4> DEFINE new == fin[t] \ {f}
      <4>1. new \in SUBSET ((1..MaxRounds) \X Answer)  BY DEF Types, SessionTypes
      <4>2. fin' = [fin EXCEPT ![t] = new]  BY <1>5
      <4> HIDE DEF new
      <4> QED  BY <4>1, <4>2 DEF Types, SessionTypes
    <3>2. finErr' \in [Turn -> BOOLEAN]  BY <1>5 DEF Types, SessionTypes
    <3> QED  BY <1>2, <3>1, <3>2 DEF Types, SessionTypes
  <2>3. PoolTypes' /\ EvidenceTypes'  BY <1>2, <1>6 DEF Types, PoolTypes, EvidenceTypes
  <2> QED  BY <2>1, <2>2, <2>3 DEF Types
<1>10. Local(t)  BY <1>2, <1>6, <1>7 DEF Local
<1>11. \A k \in 1..MaxRounds :
        /\ k # n => inv'[PiRow(t, k)] = inv[PiRow(t, k)]
        /\ \A c \in 1..2 : inv'[EvaluatorRow(t, k, c)] = inv[EvaluatorRow(t, k, c)]
  <2> HIDE DEF n
  <2> QED  BY <1>6, RowFacts, RowsDiffer DEF row
<1> HIDE DEF n
<1>12. TurnInv(t)'
  <2>1. turn'[t] = "running"  BY <1>2, <1>3 DEF TurnInv, Placed
  <2>2. \A k \in 1..MaxRounds : k > round[t] => Blank(t, k)'
    <3>1. \A k \in 1..MaxRounds : k > round[t] => k # n  BY <1>3
    <3>2. \A k \in 1..MaxRounds : k > round[t] => Blank(t, k)  BY <1>3 DEF TurnInv, Placed
    <3> QED  BY <1>2, <1>11, <3>1, <3>2 DEF Blank, Untouched
  <2>3. Placed(t)'  BY <1>2, <1>3, <2>1, <2>2 DEF TurnInv, Placed
  <2>4. Staged(t)'
    <3>1. Untouched(ThisCall(t))' <=> Untouched(ThisCall(t))  BY <1>2 DEF Untouched, ThisCall
    <3>2. \A c \in 1..2 :
            inv'[EvaluatorRow(t, round[t], c)] = inv[EvaluatorRow(t, round[t], c)]
      <4>1. round[t] \in 1..MaxRounds  BY <1>3
      <4> QED  BY <1>11, <4>1
    <3>3. Staged(t) /\ call[t] \in 0..2  BY DEF TurnInv, Types, SessionTypes
    <3> QED  BY <1>2, <3>1, <3>2, <3>3 DEF Staged, ThisCall
  <2>5. Told(t)'
    <3>1. \A g \in fin'[t] : g \in fin[t] /\ g[1] # n
      BY <1>7 DEF TurnInv, Told, n
    <3>2. \A m \in 1..round[t] : m # n => inv'[PiRow(t, m)] = inv[PiRow(t, m)]
      BY <1>3, <1>11
    <3>3. pc[t] = "stream" => inv'[PiRow(t, round[t])] = inv[PiRow(t, round[t])]
      <4>1. round[t] \in 1..round[t]  BY <1>3
      <4> QED  BY <1>3, <3>2, <4>1
    <3>4. \A g \in fin'[t] :
            /\ g[1] \in 1..round[t] /\ (pc[t] = "stream" => g[1] # round[t])
            /\ inv'[PiRow(t, g[1])] = "running"
            /\ g[2] \in {"error", "aborted"} => err[t]
            /\ \A h \in fin'[t] : g[1] = h[1] => g = h
      BY <3>1, <3>2 DEF TurnInv, Told
    <3>5. ASSUME ~late[t], ~err[t], ~finErr'[t], NEW m \in 1..round[t]
          PROVE  \/ inv'[PiRow(t, m)] = "completed"
                 \/ pc[t] = "stream" /\ m = round[t]
                 \/ \E b \in Answer : <<m, b>> \in fin'[t]
      <4>1. CASE m = n
        <5>1. f[2] \notin {"error", "aborted"}  BY <3>5 DEF TurnInv, Told
        <5>2. Terminal(f[2]) = "completed"  BY <1>3, <5>1 DEF Terminal, Answer
        <5> QED  BY <1>8, <3>5, <4>1, <5>2 DEF row
      <4>2. CASE m # n
        <5>1. ~finErr[t]  BY <1>7, <3>5
        <5>2. \A b : <<m, b>> # f  BY <4>2 DEF n
        <5> QED  BY <1>3, <1>7, <3>2, <3>5, <4>2, <5>1, <5>2 DEF TurnInv, Told
      <4> QED  BY <4>1, <4>2
    <3>6. pc[t] # "returned"  BY <1>3 DEF InRun
    <3> QED  BY <1>2, <1>3, <3>3, <3>4, <3>5, <3>6 DEF TurnInv, Told
  <2>6. Effective(t)'  BY <1>2, <1>3 DEF TurnInv, Effective
  <2> QED  BY <2>3, <2>4, <2>5, <2>6 DEF TurnInv
<1>13. Pooled'  BY <1>2, <1>10, PoolKept
<1>14. turn'[t] = "running"  BY <1>2, <1>3 DEF TurnInv, Placed
<1> QED  BY <1>2, <1>9, <1>10, <1>12, <1>13, <1>14, StepSound

-----------------------------------------------------------------------------
(* The tool call of a round                                                *)

(* A step of the tool call: the round, the answers and the pool stay.       *)
ToolStep(t) ==
    /\ pc[t] \in InTool
    /\ UNCHANGED <<turn, attempt, round, tool, offered, late, err, finErr, fin, out,
                   slotOf, session, idle, disabled>>
    /\ pc'[t] \in InTool \cup {"loop"} /\ pc' = [pc EXCEPT ![t] = pc'[t]]

(* What it does to the ledger stays within the round's review.              *)
Reviewing(t) ==
    /\ call' \in [Turn -> 0..2] /\ verdict' \in [Turn -> Verdict \cup {"none"}]
    /\ inv' \in [Row -> RowStatus] /\ decision' \in [Request -> Verdict \cup {"none"}]
    /\ \A u \in Turn \ {t} : call'[u] = call[u]
    /\ \A row \in Row : (\A c \in 1..2 : row # EvaluatorRow(t, round[t], c)) => inv'[row] = inv[row]
    /\ \A c \in Request : c # ThisCall(t) => decision'[c] = decision[c]

(* What it does to the evidence stays within the round's call.              *)
Noted(t) ==
    /\ toolCall' \in [Call -> {"none", "success", "error", "rejected"}]
    /\ audited' \subseteq Call /\ audited \subseteq audited' /\ mishaps' \in 0..MaxMishaps
    /\ \A c \in Call : c # ThisCall(t) => toolCall'[c] = toolCall[c]

RunningOnly(t) ==
    /\ effect' \subseteq audited'
    /\ ran' \in [Call -> Tool \cup {None}]
    /\ \A c \in Call : c # ThisCall(t) => ran'[c] = ran[c] /\ (c \in effect' <=> c \in effect)
    /\ ran'[ThisCall(t)] \in Prepared =>
          (ThisCall(t) \in effect' <=> toolCall'[ThisCall(t)] = "success")

LEMMA ToolPlace ==
    ASSUME RunInv, NEW t \in Turn, pc[t] \in InTool
    PROVE  /\ round[t] \in 1..MaxRounds /\ round[t] < MaxRounds
           /\ tool[t] \in Tool /\ turn[t] = "running" /\ pc[t] \in InRun
           /\ ThisCall(t) \in Call /\ ThisCall(t) \in Request
           /\ pc[t] # "handler" => Untouched(ThisCall(t))
<1>1. pc[t] \in InRun  BY DEF InTool, InRun
<1>2. round[t] \in 1..MaxRounds /\ round[t] < MaxRounds
  <2>1. pc[t] \in InRun \ {"loop"}  BY <1>1 DEF InTool
  <2> QED  BY <2>1 DEF RunInv, TurnInv, Staged, Types, SessionTypes
<1>3. ThisCall(t) \in Call /\ ThisCall(t) \in Request  BY <1>2, CallFacts DEF ThisCall
<1>4. tool[t] \in Tool /\ turn[t] = "running"  BY <1>1 DEF RunInv, TurnInv, Staged, Placed
<1>5. pc[t] # "handler" => Untouched(ThisCall(t))  BY DEF RunInv, TurnInv, Staged
<1> QED  BY <1>1, <1>2, <1>3, <1>4, <1>5

LEMMA ToolStepSound ==
    ASSUME RunInv, NEW t \in Turn, ToolStep(t), Reviewing(t), Noted(t), RunningOnly(t), Staged(t)'
    PROVE  RunInv'
<1>1. /\ round[t] \in 1..MaxRounds /\ turn[t] = "running" /\ pc[t] \in InRun
      /\ ThisCall(t) = <<t, round[t]>>
  BY ToolPlace DEF ToolStep, ThisCall
<1>2. /\ \A u \in Turn \ {t} : pc'[u] = pc[u]
      /\ pc' \in [Turn -> InRun \cup {"none", "ready", "returned", "done"}]
      /\ pc[t] \notin {"none", "ready", "returned", "done", "stream", "loop"}
      /\ pc'[t] \in InRun /\ pc'[t] \notin {"none", "ready", "returned", "done", "stream"}
  BY DEF RunInv, Types, SessionTypes, ToolStep, InTool, InRun
<1>3. Types'
  <2>1. LedgerTypeOK'  BY DEF RunInv, Types, LedgerTypeOK, ToolStep, Reviewing
  <2>2. SessionTypes'  BY <1>2 DEF RunInv, Types, SessionTypes, ToolStep, Reviewing
  <2>3. PoolTypes'  BY DEF RunInv, Types, PoolTypes, ToolStep
  <2>4. EvidenceTypes'  BY DEF RunInv, Types, EvidenceTypes, ToolStep, Noted, RunningOnly
  <2> QED  BY <2>1, <2>2, <2>3, <2>4 DEF Types
<1>4. \A row \in Row : OwnerOf(row) # t => inv'[row] = inv[row]
  <2>1. \A c \in 1..2 : OwnerOf(EvaluatorRow(t, round[t], c)) = t  BY <1>1, RowFacts
  <2> QED  BY <2>1 DEF Reviewing
<1>5. \A c \in Call : c[1] # t => c # ThisCall(t) /\ c \in Request
  BY <1>1 DEF Call, Request, Owner
<1>6. Local(t)
  BY <1>2, <1>4, <1>5 DEF Local, ToolStep, Reviewing, Noted, RunningOnly
<1>7. \A k \in 1..MaxRounds :
        /\ inv'[PiRow(t, k)] = inv[PiRow(t, k)]
        /\ k # round[t] => \A c \in 1..2 : inv'[EvaluatorRow(t, k, c)] = inv[EvaluatorRow(t, k, c)]
  <2> TAKE k \in 1..MaxRounds
  <2>1. \A c \in 1..2 : PiRow(t, k) # EvaluatorRow(t, round[t], c)  BY RowsDiffer, Zenon
  <2>2. \A c, d : EvaluatorRow(t, k, c) = EvaluatorRow(t, round[t], d) => k = round[t]
    BY RowsDiffer, Zenon
  <2>3. PiRow(t, k) \in Row /\ \A c \in 1..2 : EvaluatorRow(t, k, c) \in Row  BY RowFacts, Zenon
  <2>4. inv'[PiRow(t, k)] = inv[PiRow(t, k)]  BY <2>1, <2>3, Zenon DEF Reviewing
  <2>5. ASSUME k # round[t], NEW c \in 1..2
        PROVE  inv'[EvaluatorRow(t, k, c)] = inv[EvaluatorRow(t, k, c)]
    <3>1. \A d \in 1..2 : EvaluatorRow(t, k, c) # EvaluatorRow(t, round[t], d)
      BY <2>2, <2>5, Zenon
    <3> QED  BY <2>3, <3>1, Zenon DEF Reviewing
  <2> QED  BY <2>4, <2>5, Zenon
<1>8. \A k \in 1..MaxRounds : k # round[t] =>
        /\ toolCall'[<<t, k>>] = toolCall[<<t, k>>] /\ ran'[<<t, k>>] = ran[<<t, k>>]
        /\ <<t, k>> \in effect' <=> <<t, k>> \in effect
  BY <1>1, CallFacts DEF Noted, RunningOnly
<1>9. TurnInv(t)'
  <2>1. TurnInv(t)  BY DEF RunInv
  <2>2. \A k \in 1..MaxRounds : k > round[t] => Blank(t, k)'
    <3>1. \A k \in 1..MaxRounds : k > round[t] => Blank(t, k) /\ k # round[t]
      BY <1>1, <2>1 DEF TurnInv, Placed
    <3> QED  BY <1>7, <1>8, <3>1 DEF Blank, Untouched
  <2>3. Placed(t)'  BY <1>1, <1>2, <2>2 DEF Placed, ToolStep
  <2>4. Told(t)'
    <3>1. \A f \in fin[t] : inv'[PiRow(t, f[1])] = inv[PiRow(t, f[1])]
      BY <1>7 DEF RunInv, Types, SessionTypes
    <3>2. \A n \in 1..round[t] : inv'[PiRow(t, n)] = inv[PiRow(t, n)]  BY <1>1, <1>7
    <3>3. fin'[t] = fin[t] /\ round'[t] = round[t] /\ late'[t] = late[t] /\ err'[t] = err[t]
          /\ finErr'[t] = finErr[t]
      BY DEF ToolStep
    <3> QED  BY <1>1, <1>2, <2>1, <3>1, <3>2, <3>3 DEF TurnInv, Told
  <2>5. Effective(t)'
    <3>1. \A n \in 1..MaxRounds : n # round[t] =>
            (ran'[<<t, n>>] \in Prepared => (<<t, n>> \in effect' <=> toolCall'[<<t, n>>] = "success"))
      BY <1>8, <2>1 DEF TurnInv, Effective
    <3> QED  BY <1>1, <3>1 DEF Effective, RunningOnly
  <2> QED  BY <2>1, <2>3, <2>4, <2>5 DEF TurnInv
<1>10. Pooled'  BY <1>1, <1>2, <1>6, PoolKept DEF RunInv, ToolStep
<1>11. turn'[t] = "running" /\ effect' \subseteq audited'  BY <1>1 DEF ToolStep, RunningOnly
<1> QED  BY <1>3, <1>6, <1>9, <1>10, <1>11, StepSound

LEMMA RecordedFacts ==
    ASSUME RunInv, NEW t \in Turn, ThisCall(t) \in Call, NEW status \in {"error", "rejected"},
           NEW n \in Nat, Recorded(t, status, n)
    PROVE  Noted(t) /\ toolCall'[ThisCall(t)] \in {status, toolCall[ThisCall(t)]}
<1>1. mishaps' \in 0..MaxMishaps
  <2>1. Faults(n) \/ Faults(n + 1)  BY DEF Recorded
  <2>2. n + 1 \in Nat  OBVIOUS
  <2> QED  BY <2>1, <2>2, FaultFacts DEF RunInv
<1>2. audited' \subseteq Call /\ audited \subseteq audited'
  BY DEF Recorded, RunInv, Types, EvidenceTypes
<1>3. toolCall' = [toolCall EXCEPT ![ThisCall(t)] = status] \/ toolCall' = toolCall
  BY DEF Recorded
<1>4. toolCall \in [Call -> {"none", "success", "error", "rejected"}]
  BY DEF RunInv, Types, EvidenceTypes
<1> QED  BY <1>1, <1>2, <1>3, <1>4 DEF Noted

LEMMA QuietFacts ==
    ASSUME RunInv, NEW t \in Turn, NoFault, UNCHANGED <<toolCall, audited>>
    PROVE  Noted(t)
  BY DEF NoFault, Noted, RunInv, Types, EvidenceTypes

(* A call that has not reached its handler has no effect to answer for.     *)
LEMMA NothingRan ==
    ASSUME RunInv, NEW t \in Turn, pc[t] \in InTool \ {"handler"}, Noted(t), UNCHANGED <<effect, ran>>
    PROVE  RunningOnly(t)
<1>1. Untouched(ThisCall(t))  BY ToolPlace
<1>2. effect' \subseteq audited' /\ ran' \in [Call -> Tool \cup {None}]
  BY DEF RunInv, Noted, Types, EvidenceTypes
<1>3. ran'[ThisCall(t)] \notin Prepared
  <2>1. None \notin Prepared  OBVIOUS
  <2> QED  BY <1>1, <2>1 DEF Untouched
<1> QED  BY <1>2, <1>3 DEF RunningOnly

(* A refused call asks nothing more of the round.                           *)
LEMMA BackInLoop ==
    ASSUME RunInv, NEW t \in Turn, ToolStep(t), pc'[t] = "loop"
    PROVE  Staged(t)'
<1>1. round'[t] < MaxRounds  BY ToolPlace DEF ToolStep
<1> QED  BY <1>1 DEF Staged, InRun, InTool

LEMMA LedgerKept ==
    ASSUME RunInv, NEW t \in Turn, UNCHANGED <<call, verdict, inv, decision>>
    PROVE  Reviewing(t)
  BY DEF RunInv, Types, LedgerTypeOK, SessionTypes, Reviewing

LEMMA PcMoves ==
    ASSUME RunInv, NEW t \in Turn, NEW where, Goto(t, where)
    PROVE  pc'[t] = where /\ pc' = [pc EXCEPT ![t] = pc'[t]]
  BY DEF RunInv, Types, SessionTypes, Goto

(* What the steps up to the handler share.                                  *)
ToolAlone(t) ==
    /\ pc[t] \in InTool \ {"handler"}
    /\ UNCHANGED <<turn, attempt, round, tool, offered, late, err, finErr, fin, out,
                   slotOf, session, idle, effect, disabled>>

LEMMA RefuseSound ==
    ASSUME RunInv, NEW t \in Turn, ToolAlone(t), Reviewing(t), UNCHANGED ran,
           NEW n \in Nat, Refuse(t, n)
    PROVE  RunInv'
<1>1. pc'[t] = "loop" /\ pc' = [pc EXCEPT ![t] = pc'[t]]  BY PcMoves DEF Refuse
<1>2. ToolStep(t)  BY <1>1 DEF ToolAlone, ToolStep
<1>3. Noted(t)  BY <1>2, ToolPlace, RecordedFacts DEF Refuse, ToolStep
<1>4. RunningOnly(t)  BY <1>3, NothingRan DEF ToolAlone
<1>5. Staged(t)'  BY <1>1, <1>2, BackInLoop
<1> QED  BY <1>2, <1>3, <1>4, <1>5, ToolStepSound

(* A step to the next place before the handler, with nothing recorded.      *)
LEMMA ForwardSound ==
    ASSUME RunInv, NEW t \in Turn, ToolAlone(t), Reviewing(t),
           NEW where \in InTool, pc' = [pc EXCEPT ![t] = where],
           NoFault, UNCHANGED <<toolCall, audited, ran>>, Staged(t)'
    PROVE  RunInv'
<1>1. pc'[t] = where /\ pc' = [pc EXCEPT ![t] = pc'[t]]  BY DEF RunInv, Types, SessionTypes
<1>2. ToolStep(t)  BY <1>1 DEF ToolAlone, ToolStep
<1>3. Noted(t)  BY QuietFacts
<1>4. RunningOnly(t)  BY <1>3, NothingRan DEF ToolAlone
<1> QED  BY <1>2, <1>3, <1>4, ToolStepSound

LEMMA StartHandlerSound ==
    ASSUME RunInv, NEW t \in Turn, ToolAlone(t), Reviewing(t), StartHandler(t)
    PROVE  RunInv'
<1>1. /\ ThisCall(t) \in Call /\ tool[t] \in Tool /\ round[t] < MaxRounds
      /\ Untouched(ThisCall(t)) /\ round[t] >= 1
  BY ToolPlace DEF ToolAlone
<1>2. CASE /\ ran' = [ran EXCEPT ![ThisCall(t)] = tool[t]]
           /\ Goto(t, "handler") /\ NoFault /\ UNCHANGED <<toolCall, audited>>
  <2>1. pc'[t] = "handler" /\ pc' = [pc EXCEPT ![t] = pc'[t]]  BY <1>2, PcMoves
  <2>2. ToolStep(t)  BY <2>1 DEF ToolAlone, ToolStep, InTool
  <2>3. Noted(t)  BY <1>2, QuietFacts
  <2>4. RunningOnly(t)
    <3>1. effect' \subseteq audited'  BY <1>2 DEF ToolAlone, RunInv
    <3>2. ran' \in [Call -> Tool \cup {None}] /\ \A c \in Call : c # ThisCall(t) => ran'[c] = ran[c]
      BY <1>1, <1>2 DEF RunInv, Types, EvidenceTypes
    <3>3. ThisCall(t) \notin effect' /\ toolCall'[ThisCall(t)] # "success"
      BY <1>1, <1>2 DEF ToolAlone, Untouched
    <3> QED  BY <3>1, <3>2, <3>3 DEF RunningOnly, ToolAlone
  <2>5. Staged(t)'
    <3>1. ThisCall(t)' = ThisCall(t)  BY DEF ToolAlone, ThisCall
    <3>2. /\ toolCall'[ThisCall(t)] = "none" /\ ThisCall(t) \notin effect'
          /\ ran'[ThisCall(t)] = tool[t] /\ tool'[t] = tool[t] /\ round'[t] = round[t]
      BY <1>1, <1>2 DEF ToolAlone, Untouched, RunInv, Types, EvidenceTypes
    <3> QED  BY <1>1, <2>1, <3>1, <3>2 DEF Staged, InRun, InTool
  <2> QED  BY <2>2, <2>3, <2>4, <2>5, ToolStepSound
<1>3. CASE Recorded(t, "error", 0) /\ Goto(t, "loop") /\ UNCHANGED ran
  <2>1. pc'[t] = "loop" /\ pc' = [pc EXCEPT ![t] = pc'[t]]  BY <1>3, PcMoves
  <2>2. ToolStep(t)  BY <2>1 DEF ToolAlone, ToolStep
  <2>3. Noted(t)  BY <1>1, <1>3, RecordedFacts
  <2>4. RunningOnly(t)  BY <1>3, <2>3, NothingRan DEF ToolAlone
  <2>5. Staged(t)'  BY <2>1, <2>2, BackInLoop
  <2> QED  BY <2>2, <2>3, <2>4, <2>5, ToolStepSound
<1> QED  BY <1>2, <1>3 DEF StartHandler

LEMMA BeforeToolCallSound ==
    ASSUME RunInv, NEW t \in Turn, BeforeToolCall(t)
    PROVE  RunInv'
<1>1. ToolAlone(t) /\ pc[t] = "tool" /\ UNCHANGED <<call, verdict, inv, decision, ran>>
  BY DEF BeforeToolCall, ToolAlone, ledgerVars, poolVars, InTool
<1>2. Reviewing(t)  BY <1>1, LedgerKept
<1>3. CASE Goto(t, "execute") /\ NoFault /\ UNCHANGED <<toolCall, audited>>
  <2>1. pc'[t] = "execute"  BY <1>3, PcMoves
  <2>2. Staged(t)'
    <3>1. /\ Untouched(ThisCall(t)) /\ tool[t] \in Tool
          /\ round[t] \in 1..MaxRounds /\ round[t] < MaxRounds
      BY <1>1, ToolPlace DEF ToolAlone
    <3>2. Untouched(ThisCall(t))'  BY <1>1, <1>3, <3>1 DEF ToolAlone, Untouched, ThisCall
    <3>3. \A c \in 1..2 : inv[EvaluatorRow(t, round[t], c)] = "none"
      BY <1>1 DEF RunInv, TurnInv, Staged
    <3> QED  BY <1>1, <2>1, <3>1, <3>2, <3>3 DEF ToolAlone, Staged, InRun, InTool
  <2> QED  BY <1>1, <1>2, <1>3, <2>2, ForwardSound DEF Goto, InTool
<1>4. CASE Refuse(t, 0)  BY <1>1, <1>2, <1>4, RefuseSound
<1> QED  BY <1>3, <1>4 DEF BeforeToolCall

(* The review writes rows of its round, and nothing else in the ledger.     *)
LEMMA ReviewWritten ==
    ASSUME RunInv, NEW t \in Turn, pc[t] \in InTool, NEW k \in 1..2, NEW s \in RowStatus,
           inv' = [inv EXCEPT ![EvaluatorRow(t, round[t], k)] = s],
           call' \in [Turn -> 0..2], \A u \in Turn \ {t} : call'[u] = call[u],
           verdict' \in [Turn -> Verdict \cup {"none"}], UNCHANGED decision
    PROVE  /\ Reviewing(t) /\ inv'[EvaluatorRow(t, round[t], k)] = s
           /\ \A c \in 1..2 : c # k =>
                 inv'[EvaluatorRow(t, round[t], c)] = inv[EvaluatorRow(t, round[t], c)]
<1> DEFINE row == EvaluatorRow(t, round[t], k)
<1>1. round[t] \in 1..MaxRounds  BY ToolPlace
<1>2. row \in Row /\ \A c \in 1..2 : EvaluatorRow(t, round[t], c) \in Row
  BY <1>1, RowFacts
<1>3. \A c \in 1..2 : c # k => EvaluatorRow(t, round[t], c) # row  BY RowsDiffer, Zenon
<1>4. inv \in [Row -> RowStatus] /\ decision \in [Request -> Verdict \cup {"none"}]
  BY DEF RunInv, Types, LedgerTypeOK
<1>5. inv' = [inv EXCEPT ![row] = s]  OBVIOUS
<1>6. \A other \in Row : (\A c \in 1..2 : other # EvaluatorRow(t, round[t], c)) => other # row
  BY Zenon
<1> HIDE DEF row
<1>7. /\ inv' \in [Row -> RowStatus] /\ inv'[row] = s
      /\ \A other \in Row : other # row => inv'[other] = inv[other]
  BY <1>2, <1>4, <1>5
<1>8. Reviewing(t)  BY <1>4, <1>6, <1>7 DEF Reviewing
<1>9. inv'[EvaluatorRow(t, round[t], k)] = s  BY <1>7 DEF row
<1> QED  BY <1>2, <1>3, <1>7, <1>8, <1>9

LEMMA ExecuteSound ==
    ASSUME RunInv, NEW t \in Turn, Execute(t)
    PROVE  RunInv'
<1> DEFINE row == EvaluatorRow(t, round[t], 1)
<1>1. /\ ToolAlone(t) /\ pc[t] = "execute" /\ UNCHANGED <<verdict, decision>>
  BY DEF Execute, ToolAlone, poolVars, InTool
<1>2. CASE UNCHANGED <<inv, call>>
  <2>1. Reviewing(t)  BY <1>1, <1>2, LedgerKept
  <2>2. CASE Refuse(t, 0) /\ UNCHANGED ran  BY <1>1, <2>1, <2>2, RefuseSound
  <2>3. CASE Refuse(t, 1) /\ UNCHANGED ran  BY <1>1, <2>1, <2>3, RefuseSound
  <2>4. CASE StartHandler(t)  BY <1>1, <2>1, <2>4, StartHandlerSound
  <2>5. CASE inv' = Started(row) /\ CanStartEvaluator(t, round[t], 1)
    <3>1. inv[row] = "none" /\ row \in Row
      <4>1. round[t] \in 1..MaxRounds  BY <1>1, ToolPlace DEF ToolAlone
      <4> QED  BY <2>5, <4>1, RowFacts DEF CanStartEvaluator
    <3>2. inv'[row] = "running"  BY <2>5, <3>1 DEF Started, RunInv, Types, LedgerTypeOK
    <3> QED  BY <1>2, <3>1, <3>2
  <2> QED  BY <2>2, <2>3, <2>4, <2>5 DEF Execute
<1>3. CASE /\ CanStartEvaluator(t, round[t], 1)
           /\ inv' = Started(row) /\ call' = [call EXCEPT ![t] = 1]
           /\ Goto(t, "review") /\ NoFault /\ UNCHANGED <<toolCall, audited, ran>>
  <2>1. pc'[t] = "review"  BY <1>3, PcMoves
  <2>2. call' \in [Turn -> 0..2] /\ call'[t] = 1 /\ \A u \in Turn \ {t} : call'[u] = call[u]
    BY <1>3 DEF RunInv, Types, SessionTypes
  <2>3. "running" \in RowStatus /\ verdict' \in [Turn -> Verdict \cup {"none"}]
    BY <1>1 DEF RunInv, Types, SessionTypes, RowStatus
  <2>4. inv' = [inv EXCEPT ![EvaluatorRow(t, round[t], 1)] = "running"]  BY <1>3, Zenon DEF Started
  <2>5. /\ Reviewing(t) /\ inv'[EvaluatorRow(t, round[t], 1)] = "running"
        /\ \A c \in 1..2 : c # 1 =>
              inv'[EvaluatorRow(t, round[t], c)] = inv[EvaluatorRow(t, round[t], c)]
    <3>1. 1 \in 1..2 /\ pc[t] \in InTool /\ UNCHANGED decision  BY <1>1 DEF ToolAlone
    <3>2. \A u \in Turn \ {t} : call'[u] = call[u]  BY <2>2
    <3> QED  BY <2>2, <2>3, <2>4, <3>1, <3>2, ReviewWritten, Zenon
  <2>6. Staged(t)'
    <3>1. /\ Untouched(ThisCall(t)) /\ tool[t] \in Tool
          /\ round[t] \in 1..MaxRounds /\ round[t] < MaxRounds
      BY <1>1, ToolPlace DEF ToolAlone
    <3>2. Untouched(ThisCall(t))'  BY <1>1, <1>3, <3>1 DEF ToolAlone, Untouched, ThisCall
    <3>3. inv'[EvaluatorRow(t, round[t], 2)] = "none"
      BY <1>1, <2>5 DEF RunInv, TurnInv, Staged
    <3>4. inv'[EvaluatorRow(t, round'[t], call'[t])] = "running"  BY <1>1, <2>2, <2>5 DEF ToolAlone
    <3> QED  BY <1>1, <2>1, <2>2, <3>1, <3>2, <3>3, <3>4 DEF ToolAlone, Staged, InRun, InTool
  <2> QED  BY <1>1, <1>3, <2>5, <2>6, ForwardSound DEF Goto, InTool
<1> QED  BY <1>2, <1>3 DEF Execute

LEMMA ApprovedSound ==
    ASSUME RunInv, NEW t \in Turn, Approved(t)
    PROVE  RunInv'
<1>1. ToolAlone(t) /\ UNCHANGED <<call, verdict, inv, decision>>
  BY DEF Approved, ToolAlone, ledgerVars, poolVars, InTool
<1>2. Reviewing(t)  BY <1>1, LedgerKept
<1>3. CASE StartHandler(t)  BY <1>1, <1>2, <1>3, StartHandlerSound
<1>4. CASE Refuse(t, 0) /\ UNCHANGED ran  BY <1>1, <1>2, <1>4, RefuseSound
<1> QED  BY <1>3, <1>4 DEF Approved

LEMMA EvaluatorAnswersSound ==
    ASSUME RunInv, NEW t \in Turn, EvaluatorAnswers(t)
    PROVE  RunInv'
<1> DEFINE row == EvaluatorRow(t, round[t], call[t])
           again == EvaluatorRow(t, round[t], 2)
<1>1. /\ ToolAlone(t) /\ pc[t] = "review" /\ pc[t] \in InTool /\ UNCHANGED <<decision, ran>>
  BY DEF EvaluatorAnswers, ToolAlone, poolVars, InTool
<1>2. call[t] \in 1..2 /\ inv[row] = "running"  BY <1>1 DEF RunInv, TurnInv, Staged
<1>3. /\ call \in [Turn -> 0..2] /\ verdict \in [Turn -> Verdict \cup {"none"}]
      /\ inv \in [Row -> RowStatus] /\ decision \in [Request -> Verdict \cup {"none"}]
  BY DEF RunInv, Types, SessionTypes, LedgerTypeOK
<1>4. /\ Untouched(ThisCall(t)) /\ tool[t] \in Tool
      /\ round[t] \in 1..MaxRounds /\ round[t] < MaxRounds
  BY <1>1, ToolPlace DEF ToolAlone
<1>5. ASSUME NEW s \in RowStatus, inv' = [inv EXCEPT ![row] = s],
             UNCHANGED call, verdict' \in [Turn -> Verdict \cup {"none"}]
      PROVE  Reviewing(t)
  <2>1. call' \in [Turn -> 0..2] /\ \A u \in Turn \ {t} : call'[u] = call[u]  BY <1>3, <1>5
  <2> QED  BY <1>1, <1>2, <1>5, <2>1, ReviewWritten, Zenon
<1>6. CASE /\ CanComplete(row) /\ inv' = Completed(row)
           /\ \E v \in Verdict : verdict' = [verdict EXCEPT ![t] = v]
           /\ Goto(t, "decide") /\ NoFault /\ UNCHANGED <<call, toolCall, audited>>
  <2>1. verdict' \in [Turn -> Verdict \cup {"none"}]  BY <1>3, <1>6
  <2>2. inv' = [inv EXCEPT ![row] = "completed"] /\ "completed" \in RowStatus
    BY <1>6 DEF Completed, RowStatus
  <2>3. Reviewing(t)  BY <1>5, <1>6, <2>1, <2>2
  <2>4. pc'[t] = "decide"  BY <1>6, PcMoves
  <2>5. Untouched(ThisCall(t))'  BY <1>1, <1>4, <1>6 DEF ToolAlone, Untouched, ThisCall
  <2>6. call'[t] \in 1..2  BY <1>2, <1>6
  <2>7. Staged(t)'  BY <1>1, <1>4, <2>4, <2>5, <2>6 DEF ToolAlone, Staged, InRun, InTool
  <2> QED  BY <1>1, <1>6, <2>3, <2>7, ForwardSound DEF Goto, InTool
<1>7. CASE /\ call[t] = 1 /\ inv' = [Failed(row, "invalid") EXCEPT ![again] = "running"]
           /\ call' = [call EXCEPT ![t] = 2]
           /\ NoFault /\ UNCHANGED <<pc, verdict, toolCall, audited>>
  <2>1. call' \in [Turn -> 0..2] /\ call'[t] = 2 /\ \A u \in Turn \ {t} : call'[u] = call[u]
    BY <1>3, <1>7
  <2>2. row \in Row /\ again \in Row  BY <1>2, <1>4, RowFacts
  <2>3. "invalid" \in RowStatus /\ "running" \in RowStatus  BY DEF RowStatus
  <2>4. \A other \in Row : (\A c \in 1..2 : other # EvaluatorRow(t, round[t], c)) =>
                             other # row /\ other # again
    <3>1. 2 \in 1..2  OBVIOUS
    <3> QED  BY <1>2, <3>1, Zenon
  <2>5. inv' = [[inv EXCEPT ![row] = "invalid"] EXCEPT ![again] = "running"]
    BY <1>7, Zenon DEF Failed
  <2> HIDE DEF row, again
  <2>6. /\ inv' \in [Row -> RowStatus] /\ inv'[again] = "running"
        /\ \A other \in Row : other # row /\ other # again => inv'[other] = inv[other]
    BY <1>3, <2>2, <2>3, <2>5
  <2>7. Reviewing(t)  BY <1>1, <1>3, <1>7, <2>1, <2>4, <2>6 DEF Reviewing
  <2>8. pc' = [pc EXCEPT ![t] = "review"] /\ pc'[t] = "review"
    BY <1>1, <1>7 DEF RunInv, Types, SessionTypes
  <2>9. Staged(t)'
    <3>1. Untouched(ThisCall(t))'  BY <1>1, <1>4, <1>7 DEF ToolAlone, Untouched, ThisCall
    <3>2. inv'[EvaluatorRow(t, round'[t], call'[t])] = "running"
      BY <1>1, <2>1, <2>6 DEF ToolAlone, again
    <3> QED  BY <1>1, <1>4, <2>1, <2>8, <3>1, <3>2 DEF ToolAlone, Staged, InRun, InTool
  <2> QED  BY <1>1, <1>7, <2>7, <2>8, <2>9, ForwardSound DEF InTool
<1>8. ASSUME NEW n \in Nat, Refuse(t, n), UNCHANGED <<call, verdict>>,
             inv' = inv \/ \E s \in RowStatus : inv' = Failed(row, s)
      PROVE  RunInv'
  <2>1. verdict' \in [Turn -> Verdict \cup {"none"}]  BY <1>3, <1>8
  <2>2. CASE inv' = inv
    <3>1. Reviewing(t)  BY <1>1, <1>8, <2>2, LedgerKept
    <3> QED  BY <1>1, <1>8, <3>1, RefuseSound
  <2>3. CASE \E s \in RowStatus : inv' = Failed(row, s)
    <3>1. PICK s \in RowStatus : inv' = Failed(row, s)  BY <2>3
    <3>2. inv' = [inv EXCEPT ![row] = s]  BY <3>1, Zenon DEF Failed
    <3>3. Reviewing(t)  BY <1>5, <1>8, <2>1, <3>2
    <3> QED  BY <1>1, <1>8, <3>3, RefuseSound
  <2> QED  BY <1>8, <2>2, <2>3
<1>9. "invalid" \in RowStatus /\ {"failed", "aborted"} \subseteq RowStatus  BY DEF RowStatus
<1>10. \/ /\ CanComplete(row) /\ inv' = Completed(row)
          /\ \E v \in Verdict : verdict' = [verdict EXCEPT ![t] = v]
          /\ Goto(t, "decide") /\ NoFault /\ UNCHANGED <<call, toolCall, audited>>
       \/ /\ call[t] = 1 /\ inv' = [Failed(row, "invalid") EXCEPT ![again] = "running"]
          /\ call' = [call EXCEPT ![t] = 2]
          /\ NoFault /\ UNCHANGED <<pc, verdict, toolCall, audited>>
       \/ /\ inv' = Failed(row, "invalid") /\ Refuse(t, 0) /\ UNCHANGED <<call, verdict>>
       \/ /\ \E s \in {"failed", "aborted"} : inv' = Failed(row, s)
          /\ Refuse(t, 0) /\ UNCHANGED <<call, verdict>>
       \/ /\ inv' \in {inv, Failed(row, "invalid")}
          /\ Refuse(t, 1) /\ UNCHANGED <<call, verdict>>
  BY Zenon DEF EvaluatorAnswers
<1>11. 0 \in Nat /\ 1 \in Nat  OBVIOUS
<1> HIDE DEF row, again
<1> QED  BY <1>6, <1>7, <1>8, <1>9, <1>10, <1>11

LEMMA DecideSound ==
    ASSUME RunInv, NEW t \in Turn, Decide(t)
    PROVE  RunInv'
<1>1. /\ ToolAlone(t) /\ pc[t] = "decide" /\ UNCHANGED <<inv, call, ran>>
      /\ verdict' = [verdict EXCEPT ![t] = "none"]
  BY DEF Decide, ToolAlone, poolVars, InTool
<1>2. call[t] \in 1..2  BY <1>1 DEF RunInv, TurnInv, Staged
<1>3. /\ call \in [Turn -> 0..2] /\ verdict \in [Turn -> Verdict \cup {"none"}]
      /\ inv \in [Row -> RowStatus] /\ decision \in [Request -> Verdict \cup {"none"}]
  BY DEF RunInv, Types, SessionTypes, LedgerTypeOK
<1>4. /\ Untouched(ThisCall(t)) /\ tool[t] \in Tool /\ ThisCall(t) \in Request
      /\ round[t] \in 1..MaxRounds /\ round[t] < MaxRounds
  BY <1>1, ToolPlace DEF ToolAlone
<1>5. verdict' \in [Turn -> Verdict \cup {"none"}]  BY <1>1, <1>3
<1>6. ASSUME \/ UNCHANGED decision
             \/ decision' = [decision EXCEPT ![ThisCall(t)] = verdict[t]]
                /\ verdict[t] \in Verdict
      PROVE  Reviewing(t)
  <2>1. decision' \in [Request -> Verdict \cup {"none"}]  BY <1>3, <1>4, <1>6
  <2>2. \A c \in Request : c # ThisCall(t) => decision'[c] = decision[c]  BY <1>3, <1>4, <1>6
  <2> QED  BY <1>1, <1>3, <1>5, <2>1, <2>2 DEF Reviewing
<1>7. CASE /\ CanDecide(t, round[t], call[t])
           /\ decision' = Decided(t, round[t], verdict[t])
           /\ verdict[t] = "approve" /\ Goto(t, "approved") /\ NoFault
           /\ UNCHANGED <<toolCall, audited>>
  <2>1. decision' = [decision EXCEPT ![ThisCall(t)] = verdict[t]]
    BY <1>7, Zenon DEF Decided, ThisCall
  <2>2. Reviewing(t)  BY <1>6, <1>7, <2>1 DEF Verdict
  <2>3. pc'[t] = "approved"  BY <1>7, PcMoves
  <2>4. Staged(t)'
    <3>1. Untouched(ThisCall(t))'  BY <1>1, <1>4, <1>7 DEF ToolAlone, Untouched, ThisCall
    <3>2. decision'[ThisCall(t)] = "approve" /\ ThisCall(t)' = ThisCall(t)
      BY <1>1, <1>3, <1>4, <1>7, <2>1 DEF ToolAlone, ThisCall
    <3>3. inv'[EvaluatorRow(t, round'[t], call[t])] = "completed"
      BY <1>1, <1>7 DEF ToolAlone, CanDecide
    <3> QED  BY <1>1, <1>2, <1>4, <2>3, <3>1, <3>2, <3>3 DEF ToolAlone, Staged, InRun, InTool
  <2> QED  BY <1>1, <1>7, <2>2, <2>4, ForwardSound DEF Goto, InTool
<1>8. CASE /\ decision' = Decided(t, round[t], verdict[t])
           /\ verdict[t] = "refuse" /\ Refuse(t, 0)
  <2>1. decision' = [decision EXCEPT ![ThisCall(t)] = verdict[t]]
    BY <1>8, Zenon DEF Decided, ThisCall
  <2>2. Reviewing(t)  BY <1>6, <1>8, <2>1 DEF Verdict
  <2> QED  BY <1>1, <1>8, <2>2, RefuseSound
<1>9. CASE Refuse(t, 1) /\ UNCHANGED decision
  <2>1. Reviewing(t)  BY <1>6, <1>9
  <2> QED  BY <1>1, <1>9, <2>1, RefuseSound
<1> QED  BY <1>7, <1>8, <1>9, Zenon DEF Decide

LEMMA HandlerSettlesSound ==
    ASSUME RunInv, NEW t \in Turn, HandlerSettles(t)
    PROVE  RunInv'
<1>1. /\ pc[t] = "handler" /\ Goto(t, "loop")
      /\ UNCHANGED <<turn, attempt, inv, decision, round, call, tool, offered, verdict, late, err,
                     finErr, fin, out, slotOf, session, idle, ran, disabled>>
  BY DEF HandlerSettles, ledgerVars, poolVars
<1>2. pc'[t] = "loop" /\ pc' = [pc EXCEPT ![t] = pc'[t]]  BY <1>1, PcMoves
<1>3. ToolStep(t) /\ Reviewing(t)  BY <1>1, <1>2, LedgerKept DEF ToolStep, InTool
<1>4. Staged(t)'  BY <1>2, <1>3, BackInLoop
<1>5. /\ ThisCall(t) \in Call /\ toolCall[ThisCall(t)] = "none" /\ ThisCall(t) \notin effect
      /\ ran[ThisCall(t)] = tool[t]
  BY <1>1, <1>3, ToolPlace DEF ToolStep, RunInv, TurnInv, Staged
<1>6. /\ toolCall \in [Call -> {"none", "success", "error", "rejected"}]
      /\ audited \subseteq Call /\ effect \subseteq Call /\ ran \in [Call -> Tool \cup {None}]
      /\ effect \subseteq audited /\ mishaps \in 0..MaxMishaps
  BY DEF RunInv, Types, EvidenceTypes
<1>7. CASE CommitEffect(t)
  <2>1. mishaps' \in 0..MaxMishaps
    <3>1. CASE NoFault  BY <1>6, <3>1 DEF NoFault
    <3>2. CASE Faults(2)
      <4>1. 2 \in Nat  OBVIOUS
      <4> QED  BY <3>2, <4>1, FaultFacts DEF RunInv
    <3> QED  BY <1>7, <3>1, <3>2 DEF CommitEffect
  <2>2. \/ /\ effect' = effect \cup {ThisCall(t)} /\ audited' = audited \cup {ThisCall(t)}
           /\ toolCall' = [toolCall EXCEPT ![ThisCall(t)] = "success"]
        \/ /\ toolCall' = [toolCall EXCEPT ![ThisCall(t)] = "error"]
           /\ audited' = audited \cup {ThisCall(t)} /\ UNCHANGED effect
        \/ UNCHANGED <<effect, toolCall, audited>>
    BY <1>7, Zenon DEF CommitEffect
  <2>3. Noted(t)  BY <1>5, <1>6, <2>1, <2>2 DEF Noted
  <2>4. RunningOnly(t)  BY <1>1, <1>5, <1>6, <2>2 DEF RunningOnly
  <2> QED  BY <1>3, <1>4, <2>3, <2>4, ToolStepSound
<1>8. CASE tool[t] \notin Prepared /\ CommitPlain(t) /\ UNCHANGED effect
  <2>1. Noted(t)
    <3>1. CASE Recorded(t, "error", 1)
      <4>1. 1 \in Nat  OBVIOUS
      <4> QED  BY <1>5, <3>1, <4>1, RecordedFacts
    <3>2. CASE /\ toolCall' = [toolCall EXCEPT ![ThisCall(t)] = "success"]
               /\ \/ audited' = audited \cup {ThisCall(t)} /\ NoFault
                  \/ Faults(1) /\ UNCHANGED audited
      <4>1. mishaps' \in 0..MaxMishaps
        <5>1. 1 \in Nat  OBVIOUS
        <5> QED  BY <1>6, <3>2, <5>1, FaultFacts DEF NoFault, RunInv
      <4> QED  BY <1>5, <1>6, <3>2, <4>1 DEF Noted
    <3> QED  BY <1>8, <3>1, <3>2 DEF CommitPlain
  <2>2. RunningOnly(t)  BY <1>1, <1>5, <1>6, <1>8, <2>1 DEF RunningOnly, Noted
  <2> QED  BY <1>3, <1>4, <2>1, <2>2, ToolStepSound
<1>9. CASE Recorded(t, "error", 0) /\ UNCHANGED effect
  <2>1. Noted(t) /\ toolCall'[ThisCall(t)] # "success"
    <3>1. 0 \in Nat  OBVIOUS
    <3> QED  BY <1>5, <1>9, <3>1, RecordedFacts
  <2>2. RunningOnly(t)  BY <1>1, <1>5, <1>6, <1>9, <2>1 DEF RunningOnly, Noted
  <2> QED  BY <1>3, <1>4, <2>1, <2>2, ToolStepSound
<1>10. PICK s \in HandlerStatus(t) :
         IF s = "success"
           THEN IF tool[t] \in Prepared THEN CommitEffect(t) ELSE CommitPlain(t) /\ UNCHANGED effect
           ELSE Recorded(t, s, 0) /\ UNCHANGED effect
  BY Zenon DEF HandlerSettles
<1>11. s \in {"success", "error"}  BY DEF HandlerStatus
<1> QED  BY <1>7, <1>8, <1>9, <1>10, <1>11

-----------------------------------------------------------------------------
(* The registry and the process                                            *)

(* Neither the registry nor the outages are what the invariant is about.    *)
LEMMA StillSound ==
    ASSUME RunInv, UNCHANGED <<ledgerVars, sessionVars, poolVars, evidenceVars>>, EvidenceTypes'
    PROVE  RunInv'
<1> USE DEF ledgerVars, sessionVars, poolVars, evidenceVars
<1>1. Types'
  BY DEF RunInv, Types, LedgerTypeOK, SessionTypes, PoolTypes
<1>2. NoOrphanCalls' /\ effect' \subseteq audited'  BY DEF RunInv, NoOrphanCalls
<1>3. Pooled'  BY DEF RunInv, Pooled
<1>4. ASSUME NEW t \in Turn  PROVE TurnInv(t)'
  <2>1. TurnInv(t)  BY DEF RunInv
  <2>2. Placed(t)'  BY <2>1 DEF TurnInv, Placed, Blank, Untouched
  <2>3. Staged(t)'  BY <2>1 DEF TurnInv, Staged, Untouched, ThisCall
  <2>4. Told(t)'  BY <2>1 DEF TurnInv, Told, PiEvidence
  <2>5. Effective(t)'  BY <2>1 DEF TurnInv, Effective
  <2> QED  BY <2>2, <2>3, <2>4, <2>5 DEF TurnInv
<1> QED  BY <1>1, <1>2, <1>3, <1>4 DEF RunInv

LEMMA ToggleToolSound ==
    ASSUME RunInv, ToggleTool
    PROVE  RunInv'
<1>1. mishaps' \in 0..MaxMishaps
  <2>1. 1 \in Nat /\ Faults(1)  BY DEF ToggleTool
  <2> QED  BY <2>1, FaultFacts DEF RunInv
<1>2. disabled' \subseteq Tool  BY DEF ToggleTool, RunInv, Types, EvidenceTypes
<1>3. UNCHANGED <<ledgerVars, sessionVars, poolVars, evidenceVars>>  BY DEF ToggleTool
<1>4. EvidenceTypes'  BY <1>1, <1>2, <1>3 DEF RunInv, Types, EvidenceTypes, evidenceVars
<1> QED  BY <1>3, <1>4, StillSound

(* Whatever was going on is over, and what the tables say of it is settled. *)
LEMMA CrashAndRecoverSound ==
    ASSUME RunInv, CrashAndRecover
    PROVE  RunInv'
<1> DEFINE after(row) == IF OwnerOf(row) \in Open THEN Orphaned(OwnerOf(row))[row] ELSE inv[row]
<1>1. /\ turn' = [t \in Turn |-> IF t \in Open THEN "aborted" ELSE turn[t]]
      /\ inv' = [row \in Row |-> after(row)]
      /\ pc' = [t \in Turn |-> IF t \in Open THEN "done" ELSE pc[t]]
      /\ round' = [t \in Turn |-> 0] /\ call' = [t \in Turn |-> 0]
      /\ tool' = [t \in Turn |-> None] /\ offered' = [t \in Turn |-> {}]
      /\ verdict' = [t \in Turn |-> "none"]
      /\ late' = [t \in Turn |-> FALSE] /\ err' = [t \in Turn |-> FALSE]
      /\ finErr' = [t \in Turn |-> FALSE] /\ fin' = [t \in Turn |-> {}]
      /\ out' = [t \in Turn |-> "none"] /\ slotOf' = [t \in Turn |-> None]
      /\ session' = [s \in Slot |-> None] /\ idle' = <<FirstSlot>>
      /\ disabled' = {} /\ Faults(1)
      /\ UNCHANGED <<attempt, decision, toolCall, audited, effect, ran>>
  BY DEF CrashAndRecover, evidenceVars
<1>2. /\ inv \in [Row -> RowStatus]
      /\ turn \in [Turn -> {"none", "pending", "running", "completed", "failed", "aborted"}]
      /\ pc \in [Turn -> InRun \cup {"none", "ready", "returned", "done"}]
  BY DEF RunInv, Types, LedgerTypeOK, SessionTypes
<1>3. \A row \in Row :
        /\ OwnerOf(row) \notin Open => after(row) = inv[row]
        /\ OwnerOf(row) \in Open => after(row) # "running"
        /\ after(row) \in RowStatus
  BY <1>2 DEF Orphaned, RowStatus
<1> HIDE DEF after
<1>4. /\ inv' \in [Row -> RowStatus]
      /\ \A row \in Row : OwnerOf(row) \notin Open => inv'[row] = inv[row]
      /\ \A row \in Row : OwnerOf(row) \in Open => inv'[row] # "running"
  BY <1>1, <1>3
<1>5. /\ \A t \in Turn : t \in Open => turn'[t] = "aborted" /\ pc'[t] = "done"
      /\ \A t \in Turn : t \notin Open => turn'[t] = turn[t] /\ pc'[t] = pc[t]
      /\ \A t \in Turn : pc'[t] \in {"none", "done"}
      /\ \A t \in Turn : pc'[t] = "none" => t \notin Open
  BY <1>1 DEF Open
<1>6. Types'
  <2>1. LedgerTypeOK'
    <3>1. turn' \in [Turn -> {"none", "pending", "running", "completed", "failed", "aborted"}]
      BY <1>1, <1>2
    <3> QED  BY <1>1, <1>4, <3>1 DEF RunInv, Types, LedgerTypeOK
  <2>2. SessionTypes'
    <3>1. pc' \in [Turn -> InRun \cup {"none", "ready", "returned", "done"}]  BY <1>1, <1>2
    <3>2. round' \in [Turn -> 0..MaxRounds] /\ call' \in [Turn -> 0..2]  BY <1>1
    <3> QED  BY <1>1, <3>1, <3>2 DEF SessionTypes
  <2>3. PoolTypes'
    <3>1. FirstSlot \in Slot  BY SlotAssumption DEF SlotAssumption, FirstSlot
    <3> QED  BY <1>1, <3>1 DEF PoolTypes
  <2>4. EvidenceTypes'
    <3>1. mishaps' \in 0..MaxMishaps
      <4>1. 1 \in Nat  OBVIOUS
      <4> QED  BY <1>1, <4>1, FaultFacts DEF RunInv
    <3> QED  BY <1>1, <3>1 DEF RunInv, Types, EvidenceTypes
  <2> QED  BY <2>1, <2>2, <2>3, <2>4 DEF Types
<1>7. NoOrphanCalls'
  <2> SUFFICES ASSUME NEW row \in Row, inv'[row] = "running"
               PROVE  IF OwnerOf(row) \in Turn THEN turn'[OwnerOf(row)] = "running"
                      ELSE attempt'[OwnerOf(row)] \in {"running", "expired"}
    BY DEF NoOrphanCalls
  <2>1. OwnerOf(row) \notin Open /\ inv[row] = "running"  BY <1>4
  <2> QED  BY <1>1, <1>5, <2>1 DEF RunInv, NoOrphanCalls
<1>8. Pooled'
  <2>1. \A t \in Turn : pc'[t] \notin InRun  BY <1>5 DEF InRun
  <2>2. Len(idle') = 1 /\ idle'[1] = FirstSlot  BY <1>1
  <2>3. session'[FirstSlot] = None
    BY <1>1, SlotAssumption DEF SlotAssumption, FirstSlot
  <2> QED  BY <2>1, <2>2, <2>3 DEF Pooled
<1>9. ASSUME NEW t \in Turn  PROVE TurnInv(t)'
  <2>1. TurnInv(t) /\ pc'[t] \in {"none", "done"} /\ round'[t] = 0 /\ fin'[t] = {} /\ out'[t] = "none"
    BY <1>1, <1>5 DEF RunInv
  <2>2. Placed(t)'
    <3>1. CASE pc'[t] = "done"  BY <3>1 DEF Placed, InRun
    <3>2. CASE pc'[t] = "none"
      <4>1. pc[t] = "none" /\ t \notin Open /\ turn'[t] = turn[t]  BY <1>5, <3>2
      <4>2. turn[t] = "none" /\ round[t] = 0 /\ \A k \in 1..MaxRounds : k > 0 => Blank(t, k)
        BY <2>1, <4>1 DEF TurnInv, Placed
      <4>3. \A k \in 1..MaxRounds : Blank(t, k)' <=> Blank(t, k)
        BY <1>1, <1>4, <4>1, RowFacts DEF Blank, Untouched
      <4> QED  BY <2>1, <3>2, <4>1, <4>2, <4>3 DEF Placed, InRun
    <3> QED  BY <2>1, <3>1, <3>2
  <2>3. Staged(t)'  BY <2>1 DEF Staged, InRun, InTool
  <2>4. Told(t)'  BY <2>1 DEF Told, InRun
  <2>5. Effective(t)'  BY <1>1, <2>1 DEF TurnInv, Effective
  <2> QED  BY <2>2, <2>3, <2>4, <2>5 DEF TurnInv
<1>10. effect' \subseteq audited'  BY <1>1 DEF RunInv
<1> QED  BY <1>6, <1>7, <1>8, <1>9, <1>10 DEF RunInv

-----------------------------------------------------------------------------
(* What follows                                                            *)

LEMMA NextSound ==
    ASSUME RunInv, [Next]_vars
    PROVE  RunInv'
<1>1. CASE UNCHANGED vars
  <2>1. /\ UNCHANGED <<ledgerVars, sessionVars, poolVars, evidenceVars>>
        /\ UNCHANGED <<disabled, mishaps, toolCall, audited, effect, ran>>
    BY <1>1 DEF vars, boundVars, evidenceVars
  <2>2. EvidenceTypes'  BY <2>1 DEF RunInv, Types, EvidenceTypes
  <2> QED  BY <2>1, <2>2, StillSound
<1>2. ASSUME NEW t \in Turn, Proceed(t)  PROVE RunInv'
  BY <1>2, RunTurnSound, StreamProviderRoundSound, BeforeToolCallSound, ExecuteSound, DecideSound,
     ApprovedSound, ReturnSound, EndTurnSound DEF Proceed
<1>3. ASSUME NEW t \in Turn,
             BeginTurn(t) \/ Deadline(t) \/ ProviderAnswers(t) \/ Finalize(t)
             \/ EvaluatorAnswers(t) \/ HandlerSettles(t)
      PROVE  RunInv'
  BY <1>3, BeginTurnSound, DeadlineSound, ProviderAnswersSound, FinalizeSound,
     EvaluatorAnswersSound, HandlerSettlesSound
<1> QED  BY <1>1, <1>2, <1>3, ToggleToolSound, CrashAndRecoverSound DEF Next

LEMMA RunInvAlways == Spec => []RunInv
  BY InitSound, NextSound, PTL DEF Spec

LEMMA RunInvSays == RunInv => RunsAreTrue
<1> SUFFICES ASSUME RunInv PROVE RunsAreTrue  OBVIOUS
<1>1. TypeOK  BY DEF RunInv, Types, SessionTypes, PoolTypes, EvidenceTypes, TypeOK
<1>2. EffectMatchesRecord
  <2>1. ASSUME NEW c \in Call, ran[c] \in Prepared  PROVE c \in effect <=> toolCall[c] = "success"
    <3>1. PICK t \in Turn, n \in 1..MaxRounds : c = <<t, n>>  BY DEF Call
    <3> QED  BY <2>1, <3>1 DEF RunInv, TurnInv, Effective
  <2> QED  BY <2>1 DEF RunInv, EffectMatchesRecord
<1>3. AnsweredMeansSettled  BY DEF RunInv, TurnInv, Told, AnsweredMeansSettled
<1>4. SlotsAreExclusive
  <2>1. \A t \in Turn : pc[t] \in InRun => pc[t] \notin {"returned", "done"}  BY DEF InRun
  <2>2. ASSUME NEW i \in 1..Len(idle)  PROVE session[idle[i]] \in Turn \cup {None}
    <3>1. idle[i] \in Slot  BY DEF RunInv, Types, PoolTypes
    <3> QED  BY <3>1 DEF RunInv, Types, PoolTypes
  <2>3. ASSUME NEW i \in 1..Len(idle), NEW t \in Turn, pc[t] \in InRun  PROVE slotOf[t] # idle[i]
    BY <2>1, <2>3 DEF RunInv, Pooled
  <2>4. ASSUME NEW i \in 1..Len(idle), session[idle[i]] # None  PROVE fin[session[idle[i]]] = {}
    <3>1. session[idle[i]] \in Turn /\ pc[session[idle[i]]] \in {"returned", "done"}
      BY <2>2, <2>4 DEF RunInv, Pooled
    <3>2. pc[session[idle[i]]] \notin InRun  BY <2>1, <3>1
    <3> QED  BY <3>1, <3>2 DEF RunInv, TurnInv, Told
  <2> QED  BY <2>3, <2>4 DEF RunInv, Pooled, SlotsAreExclusive
<1> QED  BY <1>1, <1>2, <1>3, <1>4 DEF RunInv, RunsAreTrue

(* The tables tell what the runs did and the pool what they hold, after any *)
(* order of answers, deadlines, failed writes and crashes: a local effect   *)
(* and its record agree, a run that answered has its completed rounds, and  *)
(* no slot is shared or handed on with a finalisation in flight.            *)
THEOREM RunsStayTrue == Spec => []RunsAreTrue
  BY RunInvAlways, RunInvSays, PTL

-----------------------------------------------------------------------------
(* What a step may do                                                      *)

(* A handler is started by a step of the wrapped execute only.              *)
LEMMA StartStep ==
    ASSUME RunInv, Next, NEW c \in Call, ran'[c] # ran[c]
    PROVE  /\ turn[c[1]] = "running" /\ ~late[c[1]]
           /\ ran'[c] \notin disabled
           /\ ran'[c] \in Reviewed =>
                 /\ decision[c] = "approve"
                 /\ \E k \in 1..2 : inv[EvaluatorRow(c[1], c[2], k)] = "completed"
<1>1. ran' # ran  OBVIOUS
<1>2. PICK t \in Turn : Execute(t) \/ Approved(t)
  BY <1>1 DEF Next, Proceed, BeginTurn, RunTurn, StreamProviderRound, BeforeToolCall, Decide, Return,
              EndTurn, Deadline, ProviderAnswers, Finalize, EvaluatorAnswers, HandlerSettles,
              ToggleTool, CrashAndRecover, evidenceVars
<1>3. /\ Allowed(t, tool[t]) /\ ~late[t] /\ ran' = [ran EXCEPT ![ThisCall(t)] = tool[t]]
      /\ pc[t] = "execute" => tool[t] \notin Reviewed
      /\ pc[t] \in {"execute", "approved"}
  BY <1>1, <1>2 DEF Execute, Approved, StartHandler
<1>4. pc[t] \in InTool  BY <1>3 DEF InTool
<1>5. turn[t] = "running" /\ ThisCall(t) \in Call /\ ran \in [Call -> Tool \cup {None}]
  BY <1>4, ToolPlace DEF RunInv, Types, EvidenceTypes
<1>6. c = ThisCall(t) /\ ran'[c] = tool[t]  BY <1>3, <1>5
<1>7. c[1] = t /\ c[2] = round[t]  BY <1>6 DEF ThisCall
<1>8. pc[t] = "approved" =>
        /\ decision[c] = "approve"
        /\ \E k \in 1..2 : inv[EvaluatorRow(c[1], c[2], k)] = "completed"
  BY <1>6, <1>7 DEF RunInv, TurnInv, Staged
<1> QED  BY <1>3, <1>5, <1>6, <1>7, <1>8 DEF Allowed

(* A write that finds its row open leaves the settled ones alone.           *)
LEMMA OpenRowWritten ==
    ASSUME RunInv, NEW row, inv[row] \notin Settled, NEW s, inv' = [inv EXCEPT ![row] = s]
    PROVE  \A other \in Row : inv[other] \in Settled => inv'[other] = inv[other]
  BY DEF RunInv, Types, LedgerTypeOK

LEMMA OrphanedKeeps ==
    ASSUME NEW o, NEW row \in Row, inv[row] \in Settled
    PROVE  Orphaned(o)[row] = inv[row]
  BY DEF Orphaned, Settled

LEMMA SettledStep ==
    ASSUME RunInv, Next
    PROVE  \A row \in Row : inv[row] \in Settled => inv'[row] = inv[row]
<1>1. CASE inv' = inv  BY <1>1
<1>2. ASSUME NEW t \in Turn, EndTurn(t)
      PROVE  \A row \in Row : inv[row] \in Settled => inv'[row] = inv[row]
  BY <1>2, OrphanedKeeps DEF EndTurn
<1>3. CASE CrashAndRecover
  <2> SUFFICES ASSUME NEW row \in Row, inv[row] \in Settled  PROVE inv'[row] = inv[row]
    OBVIOUS
  <2>1. Orphaned(OwnerOf(row))[row] = inv[row]  BY OrphanedKeeps
  <2> QED  BY <1>3, <2>1 DEF CrashAndRecover
<1>4. ASSUME NEW t \in Turn, StreamProviderRound(t)
      PROVE  \A row \in Row : inv[row] \in Settled => inv'[row] = inv[row]
  <2> DEFINE n == round[t] + 1
             row == PiRow(t, n)
  <2>1. pc[t] = "loop" /\ pc[t] \in InRun  BY <1>4 DEF StreamProviderRound, InRun
  <2>2. n \in 1..MaxRounds /\ n > round[t]
    <3>1. round[t] \in 0..MaxRounds /\ round[t] < MaxRounds
      BY <2>1 DEF RunInv, TurnInv, Staged, Types, SessionTypes
    <3> QED  BY <3>1
  <2>3. \E s : inv' = [inv EXCEPT ![row] = s] \/ inv' = inv
    BY <1>4, Zenon DEF StreamProviderRound, Started, Failed
  <2> HIDE DEF n
  <2>4. Blank(t, n)  BY <2>1, <2>2 DEF RunInv, TurnInv, Placed
  <2>5. inv[row] \notin Settled  BY <2>4 DEF Blank, Settled
  <2> HIDE DEF row
  <2> QED  BY <2>3, <2>5, OpenRowWritten
<1>5. ASSUME NEW t \in Turn, Finalize(t)
      PROVE  \A row \in Row : inv[row] \in Settled => inv'[row] = inv[row]
  <2>1. PICK f \in fin[t] :
          LET row == PiRow(t, f[1])
          IN  \/ inv' = IF CanFail(row) THEN Failed(row, Terminal(f[2])) ELSE inv
              \/ CanFail(row) /\ inv' = Failed(row, IF late[t] THEN "aborted" ELSE "failed")
              \/ UNCHANGED inv
    BY <1>5, Zenon DEF Finalize
  <2> DEFINE row == PiRow(t, f[1])
  <2>2. inv' = inv \/ (inv[row] = "running" /\ \E s : inv' = [inv EXCEPT ![row] = s])
    <3>1. CASE inv' = IF CanFail(row) THEN Failed(row, Terminal(f[2])) ELSE inv
      <4>1. CASE CanFail(row)
        <5>1. inv' = Failed(row, Terminal(f[2]))  BY <3>1, <4>1, Zenon
        <5> QED  BY <4>1, <5>1, Zenon DEF CanFail, Failed
      <4>2. CASE ~CanFail(row)  BY <3>1, <4>2, Zenon
      <4> QED  BY <4>1, <4>2
    <3>2. CASE CanFail(row) /\ inv' = Failed(row, IF late[t] THEN "aborted" ELSE "failed")
      BY <3>2, Zenon DEF CanFail, Failed
    <3> QED  BY <2>1, <3>1, <3>2, Zenon
  <2> HIDE DEF row
  <2>3. "running" \notin Settled  BY DEF Settled
  <2> QED  BY <2>2, <2>3, OpenRowWritten
<1>6. ASSUME NEW t \in Turn, Execute(t)
      PROVE  \A row \in Row : inv[row] \in Settled => inv'[row] = inv[row]
  <2> DEFINE row == EvaluatorRow(t, round[t], 1)
  <2>1. inv' = inv \/ (inv[row] = "none" /\ inv' = [inv EXCEPT ![row] = "running"])
    BY <1>6, Zenon DEF Execute, CanStartEvaluator, Started
  <2> HIDE DEF row
  <2>2. "none" \notin Settled  BY DEF Settled
  <2> QED  BY <2>1, <2>2, OpenRowWritten
<1>7. ASSUME NEW t \in Turn, EvaluatorAnswers(t)
      PROVE  \A row \in Row : inv[row] \in Settled => inv'[row] = inv[row]
  <2> DEFINE row == EvaluatorRow(t, round[t], call[t])
             again == EvaluatorRow(t, round[t], 2)
  <2>1. inv[row] = "running" /\ (call[t] = 1 => inv[again] = "none")
    <3>1. pc[t] = "review"  BY <1>7 DEF EvaluatorAnswers
    <3> QED  BY <3>1 DEF RunInv, TurnInv, Staged
  <2>2. \/ \E s : inv' = [inv EXCEPT ![row] = s]
        \/ inv' = inv
        \/ call[t] = 1 /\ inv' = [[inv EXCEPT ![row] = "invalid"] EXCEPT ![again] = "running"]
    BY <1>7, Zenon DEF EvaluatorAnswers, Completed, Failed
  <2>3. "running" \notin Settled /\ "none" \notin Settled  BY DEF Settled
  <2>4. inv \in [Row -> RowStatus]  BY DEF RunInv, Types, LedgerTypeOK
  <2> HIDE DEF row, again
  <2> QED  BY <2>1, <2>2, <2>3, <2>4, OpenRowWritten
<1>8. \/ inv' = inv
      \/ CrashAndRecover
      \/ \E t \in Turn : EndTurn(t) \/ StreamProviderRound(t) \/ Finalize(t) \/ Execute(t)
                         \/ EvaluatorAnswers(t)
  BY DEF Next, Proceed, BeginTurn, RunTurn, BeforeToolCall, Decide, Approved, Return,
         Deadline, ProviderAnswers, HandlerSettles, ToggleTool, ledgerVars
<1> QED  BY <1>1, <1>2, <1>3, <1>4, <1>5, <1>6, <1>7, <1>8

(* No step of a run starts a handler without authority that holds at that   *)
(* moment, and none changes what the ledger has settled, whatever was       *)
(* disabled, aborted, answered late or lost during the review.              *)
THEOREM RunStepsAlwaysLawful == Spec => RunStepsLawful
<1>1. RunInv /\ [Next]_vars =>
        [\A c \in Call : ran'[c] # ran[c] =>
           /\ turn[c[1]] = "running" /\ ~late[c[1]]
           /\ ran'[c] \notin disabled
           /\ ran'[c] \in Reviewed =>
                 /\ decision[c] = "approve"
                 /\ \E k \in 1..2 : inv[EvaluatorRow(c[1], c[2], k)] = "completed"]_vars
  BY StartStep
<1>2. RunInv /\ [Next]_vars =>
        [\A row \in Row : inv[row] \in Settled => inv'[row] = inv[row]]_ledgerVars
  BY SettledStep DEF vars
<1> QED  BY <1>1, <1>2, RunInvAlways, PTL DEF Spec, RunStepsLawful, StartsAuthorized, SettledRowsAreFinal
=============================================================================
