-------------------------- MODULE GovernanceProofs --------------------------
(***************************************************************************)
(* What the governance console promises, proved for any requests, bounds,   *)
(* workloads and clock.                                                     *)
(*                                                                          *)
(* The argument: a preview says what its row was when it was shown, and     *)
(* that the operation was possible then; handles are never issued twice,    *)
(* and the record of a handle that let a confirmation through is marked as  *)
(* consumed for as long as there is one; and what authorises a scoped       *)
(* operation, the scope handle and the preview, goes with its session.      *)
(***************************************************************************)
EXTENDS GovernanceConsole, GovernanceBrowser, FiniteSetTheorems, WellFoundedInduction, TLAPS

(***************************************************************************)
(* Sets of previews.                                                        *)
(***************************************************************************)

LEMMA SubsetBound ==
    ASSUME NEW S, IsFiniteSet(S), NEW T \in SUBSET S, NEW b \in Nat, Cardinality(S) <= b
    PROVE  IsFiniteSet(T) /\ Cardinality(T) \in Nat /\ Cardinality(T) <= b
<1>1. IsFiniteSet(T) /\ Cardinality(T) <= Cardinality(S)  BY FS_Subset
<1>2. Cardinality(T) \in Nat /\ Cardinality(S) \in Nat  BY <1>1, FS_CardinalityType
<1> QED  BY <1>1, <1>2

LEMMA LeastHandle ==
    ASSUME NEW T, T # {}, \A r \in T : r.handle \in Nat
    PROVE  \E m \in T : \A r \in T : m.handle <= r.handle
<1> DEFINE H == {r.handle : r \in T}
<1>1. H # {} /\ H \subseteq Nat  OBVIOUS
<1>2. PICK R : R = OpToRel(<, Nat)  BY Zenon
<1>3. IsWellFoundedOn(R, Nat)  BY <1>2, NatLessThanWellFounded, Zenon
<1>4. R = {ss \in Nat \X Nat : ss[1] < ss[2]}  BY <1>2, Zenon DEF OpToRel
<1>5. PICK x \in H : \A y \in H : ~(<<y, x>> \in R)
  <2> HIDE DEF H
  <2> QED  BY <1>1, <1>3, WFMin
<1>6. ASSUME NEW y \in H  PROVE x <= y
  <2>1. x \in Nat /\ y \in Nat  BY <1>1
  <2>2. y < x => <<y, x>> \in R
    <3>1. <<y, x>> \in Nat \X Nat /\ <<y, x>>[1] = y /\ <<y, x>>[2] = x  BY <2>1
    <3> QED  BY <1>4, <3>1
  <2> QED  BY <1>5, <2>1, <2>2
<1>7. PICK m \in T : m.handle = x  OBVIOUS
<1> QED  BY <1>6, <1>7

LEMMA TrimmedIsBounded ==
    ASSUME NEW ps, IsFiniteSet(ps), NEW s,
           \A p \in ps : p.handle \in Nat,
           \A p, r \in ps : p.handle = r.handle => p = r
    PROVE  Cardinality(SpentOf(Trimmed(ps, s), s)) <= MaxConsumed
<1> DEFINE U == SpentOf(Trimmed(ps, s), s)
<1>1. U \subseteq SpentOf(ps, s) /\ SpentOf(ps, s) \subseteq ps  BY DEF Trimmed, SpentOf
<1>2. IsFiniteSet(U) /\ IsFiniteSet(SpentOf(ps, s))  BY <1>1, FS_Subset
<1>3. MaxConsumed \in Nat \ {0}  BY GovernanceSessionsAssumption DEF GovernanceSessionsAssumption
<1>4. CASE U = {}
  <2>1. Cardinality(U) = 0  BY <1>4, FS_EmptySet
  <2> QED  BY <2>1, <1>3
<1>5. CASE U # {}
  <2>1. \A r \in U : r.handle \in Nat  BY <1>1
  <2>2. PICK m \in U : \A r \in U : m.handle <= r.handle
    <3> HIDE DEF U
    <3> QED  BY <1>5, <2>1, LeastHandle
  <2>3. U \ {m} \subseteq Newer(ps, s, m)
    <3>1. ASSUME NEW r \in U, r # m  PROVE r \in Newer(ps, s, m)
      <4>1. r.handle # m.handle  BY <1>1, <3>1
      <4>2. r.handle > m.handle  BY <2>1, <2>2, <4>1
      <4> QED  BY <1>1, <4>2 DEF Newer
    <3> QED  BY <3>1
  <2>4. Cardinality(Newer(ps, s, m)) < MaxConsumed  BY <1>1 DEF Trimmed, SpentOf
  <2>5. IsFiniteSet(Newer(ps, s, m))
    <3>1. Newer(ps, s, m) \subseteq SpentOf(ps, s)  BY DEF Newer
    <3> QED  BY <3>1, <1>2, FS_Subset
  <2>6. /\ Cardinality(U \ {m}) <= Cardinality(Newer(ps, s, m))
        /\ Cardinality(Newer(ps, s, m)) \in Nat
    BY <2>3, <2>5, FS_Subset, FS_CardinalityType
  <2>7. Cardinality(U \ {m}) = Cardinality(U) - 1  BY <1>2, FS_RemoveElement
  <2>8. Cardinality(U) \in Nat  BY <1>2, FS_CardinalityType
  <2> QED  BY <1>3, <2>4, <2>6, <2>7, <2>8
<1> QED  BY <1>4, <1>5

(***************************************************************************)
(* The invariant: the rows and what retention works on.                     *)
(***************************************************************************)

Proper(k, state) == state \in RowState(k)

RowsOK ==
    /\ row = [k \in Kind |-> RowOf(row[k].state, row[k].ver)]
    /\ \A k \in Kind : row[k].ver \in Nat /\ Proper(k, row[k].state)

StoreOK ==
    /\ store \in [at : 0..MaxNow, chat : BOOLEAN, raw : BOOLEAN, pin : Pin]
    /\ cli \in Decision /\ handoff \in Nat /\ workload \in Workloads

StoreInv == RowsOK /\ StoreOK /\ EvidenceKept

LEMMA RowIs ==
    ASSUME NEW state, NEW ver
    PROVE  RowOf(state, ver).state = state /\ RowOf(state, ver).ver = ver
BY DEF RowOf

LEMMA StoreTyped == RowsOK /\ StoreOK => StoreTypeOK
<1> SUFFICES ASSUME RowsOK, StoreOK  PROVE StoreTypeOK  OBVIOUS
<1>1. DOMAIN row = Kind  BY DEF RowsOK
<1>2. \A k \in Kind : row[k].ver \in Nat /\ row[k].state \in RowState(k)  BY DEF RowsOK, Proper
<1> QED  BY <1>1, <1>2 DEF StoreTypeOK, StoreOK

LEMMA RowSet ==
    ASSUME RowsOK, NEW k \in Kind, NEW state, Proper(k, state), NEW ver \in Nat,
           row' = [row EXCEPT ![k] = RowOf(state, ver)]
    PROVE  /\ RowsOK'
           /\ row'[k] = RowOf(state, ver)
           /\ \A j \in Kind \ {k} : row'[j] = row[j]
<1>1. DOMAIN row = Kind  BY DEF RowsOK
<1>2. row'[k] = RowOf(state, ver)  BY <1>1
<1>3. \A j \in Kind \ {k} : row'[j] = row[j]  BY <1>1
<1>4. row' = [j \in Kind |-> row'[j]]  BY <1>1
<1>5. ASSUME NEW j \in Kind
      PROVE  row'[j] = RowOf(row'[j].state, row'[j].ver) /\ row'[j].ver \in Nat /\ Proper(j, row'[j].state)
  <2>1. CASE j = k  BY <1>2, <2>1, RowIs
  <2>2. CASE j # k
    <3>1. row'[j] = row[j]  BY <1>3, <2>2
    <3>2. row[j] = RowOf(row[j].state, row[j].ver)  BY DEF RowsOK
    <3>3. row[j].ver \in Nat /\ Proper(j, row[j].state)  BY DEF RowsOK
    <3> QED  BY <3>1, <3>2, <3>3
  <2> QED  BY <2>1, <2>2
<1>6. row' = [j \in Kind |-> RowOf(row'[j].state, row'[j].ver)]
  <2> HIDE DEF RowOf
  <2> QED  BY <1>4, <1>5
<1> QED  BY <1>2, <1>3, <1>5, <1>6 DEF RowsOK

LEMMA RowPairSet ==
    ASSUME RowsOK, NEW k \in Kind, NEW l \in Kind \ {k},
           NEW state, Proper(k, state), NEW ver \in Nat,
           NEW other, Proper(l, other), NEW rev \in Nat,
           row'[k] = RowOf(state, ver), row'[l] = RowOf(other, rev),
           \A j \in Kind \ {k, l} : row'[j] = row[j],
           row' = [j \in Kind |-> row'[j]]
    PROVE  RowsOK'
<1>1. ASSUME NEW j \in Kind
      PROVE  row'[j] = RowOf(row'[j].state, row'[j].ver) /\ row'[j].ver \in Nat /\ Proper(j, row'[j].state)
  <2>1. CASE j = k  BY <2>1, RowIs
  <2>2. CASE j = l  BY <2>2, RowIs
  <2>3. CASE j \notin {k, l}
    <3>1. row'[j] = row[j]  BY <2>3
    <3>2. row[j] = RowOf(row[j].state, row[j].ver)  BY DEF RowsOK
    <3>3. row[j].ver \in Nat /\ Proper(j, row[j].state)  BY DEF RowsOK
    <3> QED  BY <3>1, <3>2, <3>3
  <2> QED  BY <2>1, <2>2, <2>3
<1>2. row' = [j \in Kind |-> RowOf(row'[j].state, row'[j].ver)]
  <2> HIDE DEF RowOf
  <2> QED  BY <1>1
<1> QED  BY <1>1, <1>2 DEF RowsOK

\* A row other than the memory's does not matter to retention.
LEMMA EvidenceOfOthers ==
    ASSUME EvidenceKept, row'["memory"] = row["memory"], store' = store
    PROVE  EvidenceKept'
BY DEF EvidenceKept, ChatPins, RawPins

LEMMA OtherRowSet ==
    ASSUME StoreInv, NEW k \in Kind \ {"memory"}, NEW state, Proper(k, state), NEW ver \in Nat,
           row' = [row EXCEPT ![k] = RowOf(state, ver)], UNCHANGED store, Untouched
    PROVE  StoreInv'
<1>1. RowsOK /\ EvidenceKept /\ StoreOK  BY DEF StoreInv
<1>2. /\ RowsOK'
      /\ \A j \in Kind \ {k} : row'[j] = row[j]
  BY <1>1, RowSet
<1>3. row'["memory"] = row["memory"]  BY <1>2 DEF Kind
<1>4. EvidenceKept'  BY <1>1, <1>3, EvidenceOfOthers
<1> QED  BY <1>1, <1>2, <1>4 DEF StoreInv, StoreOK, Untouched

LEMMA OtherRowBecomes ==
    ASSUME StoreInv, NEW k \in Kind \ {"memory"}, NEW state, Proper(k, state), RowBecomes(k, state)
    PROVE  StoreInv' /\ row' = Bump(k, state)
<1>1. row[k].ver \in Nat  BY DEF StoreInv, RowsOK
<1>2. row' = [row EXCEPT ![k] = RowOf(state, row[k].ver + 1)]  BY DEF RowBecomes, Bump
<1>3. UNCHANGED store /\ Untouched /\ row' = Bump(k, state)  BY DEF RowBecomes
<1>4. row[k].ver + 1 \in Nat  BY <1>1
<1> QED  BY <1>2, <1>3, <1>4, OtherRowSet

LEMMA MemoryMoves ==
    ASSUME StoreInv, now \in 0..MaxNow, row.memory.state # "purged",
           NEW state \in MemoryState \ {"purged"}, NEW ver \in Nat,
           row' = [row EXCEPT !["memory"] = RowOf(state, ver)],
           store' = [store EXCEPT !.at = now], UNCHANGED <<handoff, workload>>, cli' \in Decision
    PROVE  StoreInv'
<1>1. RowsOK /\ EvidenceKept /\ StoreOK  BY DEF StoreInv
<1>2. "memory" \in Kind /\ Proper("memory", state)  BY DEF Kind, Proper, RowState
<1>3. RowsOK'  BY <1>1, <1>2, RowSet
<1>4. /\ store' \in [at : 0..MaxNow, chat : BOOLEAN, raw : BOOLEAN, pin : Pin]
      /\ store'.chat = store.chat /\ store'.raw = store.raw /\ store'.pin = store.pin
  BY <1>1 DEF StoreOK
<1>5. EvidenceKept'
  <2>1. store.chat /\ store.raw  BY <1>1 DEF EvidenceKept
  <2>2. row'["memory"] = RowOf(state, ver)  BY <1>1, <1>2, RowSet
  <2>3. row'["memory"].state # "purged"  BY <2>2, RowIs
  <2> QED  BY <1>4, <2>1, <2>3 DEF EvidenceKept
<1> QED  BY <1>1, <1>3, <1>4, <1>5 DEF StoreInv, StoreOK

LEMMA MemoryBecomesKeeps ==
    ASSUME StoreInv, now \in 0..MaxNow, row.memory.state # "purged",
           NEW state \in MemoryState \ {"purged"}, MemoryBecomes(state)
    PROVE  StoreInv'
<1>1. row["memory"].ver + 1 \in Nat  BY DEF StoreInv, RowsOK, Kind
<1>2. row' = [row EXCEPT !["memory"] = RowOf(state, row["memory"].ver + 1)]
  BY DEF MemoryBecomes, Bump
<1>3. store' = [store EXCEPT !.at = now] /\ UNCHANGED <<handoff, workload>> /\ cli' = cli
  BY DEF MemoryBecomes, Untouched
<1>4. cli' \in Decision  BY <1>3 DEF StoreInv, StoreOK
<1> QED  BY <1>1, <1>2, <1>3, <1>4, MemoryMoves

LEMMA MayBecomeFacts ==
    ASSUME NEW state, MemoryMayBecome(state)
    PROVE  row.memory.state # "purged"
BY DEF MemoryMayBecome

(***************************************************************************)
(* Retention.                                                               *)
(***************************************************************************)

\* A plan of any time takes nothing that is needed after it.
LEMMA PurgedKeeps ==
    ASSUME StoreInv, NEW asOf, Purged(Plan(asOf)), Untouched
    PROVE  StoreInv'
<1> DEFINE plan == Plan(asOf)
<1>1. RowsOK /\ EvidenceKept /\ StoreOK  BY DEF StoreInv
<1>2. /\ "memory" \in plan <=> PurgesMemory(asOf)
      /\ "chat" \in plan <=> PurgesChat(asOf)
      /\ "raw" \in plan <=> PurgesRaw(asOf)
  BY DEF Plan
<1> HIDE DEF plan
<1>3. /\ row' = IF "memory" \in plan THEN [row EXCEPT !["memory"] = RowOf("purged", 0)] ELSE row
      /\ store' = [store EXCEPT !.chat = @ /\ "chat" \notin plan, !.raw = @ /\ "raw" \notin plan]
  BY DEF Purged, plan
<1>4. /\ store' \in [at : 0..MaxNow, chat : BOOLEAN, raw : BOOLEAN, pin : Pin]
      /\ store'.chat <=> store.chat /\ "chat" \notin plan
      /\ store'.raw <=> store.raw /\ "raw" \notin plan
      /\ store'.pin = store.pin
  BY <1>1, <1>3 DEF StoreOK
<1>5. RowsOK' /\ (row'["memory"].state # "purged" =>
                    row["memory"].state # "purged" /\ "memory" \notin plan)
              /\ ("memory" \notin plan => row'["memory"].state = row["memory"].state)
  <2>1. "memory" \in Kind /\ Proper("memory", "purged") /\ 0 \in Nat  BY DEF Kind, Proper, RowState, MemoryState
  <2>2. CASE "memory" \in plan
    <3>1. RowsOK' /\ row'["memory"] = RowOf("purged", 0)  BY <1>1, <1>3, <2>1, <2>2, RowSet
    <3> QED  BY <2>2, <3>1, RowIs
  <2>3. CASE "memory" \notin plan  BY <1>1, <1>3, <2>3 DEF RowsOK
  <2> QED  BY <2>2, <2>3
<1>6. EvidenceKept'
  <2>1. row'["memory"].state # "purged" => store'.chat /\ store'.raw
    BY <1>1, <1>2, <1>4, <1>5 DEF EvidenceKept, PurgesChat, PurgesRaw, SourceNeeded
  <2>2. store'.chat => store'.raw  BY <1>1, <1>2, <1>4 DEF EvidenceKept, PurgesRaw
  <2>3. store'.pin \in ChatPins => store'.chat  BY <1>1, <1>2, <1>4 DEF EvidenceKept, PurgesChat
  <2>4. store'.pin \in RawPins => store'.raw  BY <1>1, <1>2, <1>4 DEF EvidenceKept, PurgesRaw
  <2>5. store'.pin = "proposal" => row'["memory"].state # "purged"
    BY <1>1, <1>2, <1>4, <1>5 DEF EvidenceKept, PurgesMemory
  <2> QED  BY <2>1, <2>2, <2>3, <2>4, <2>5 DEF EvidenceKept
<1> QED  BY <1>1, <1>4, <1>5, <1>6 DEF StoreInv, StoreOK, Untouched

LEMMA NothingHappened ==
    ASSUME StoreInv, UNCHANGED <<row, store, handoff, workload>>, cli' \in Decision
    PROVE  StoreInv'
BY DEF StoreInv, RowsOK, StoreOK, EvidenceKept, ChatPins, RawPins

\* Whoever else writes the rows.
LEMMA OthersKeep ==
    ASSUME StoreInv, now \in 0..MaxNow, Others
    PROVE  StoreInv'
<1> USE DEF MemoryState
<1>1. ASSUME Forget  PROVE StoreInv'  BY <1>1, MemoryBecomesKeeps DEF Forget
<1>2. CASE CliDelete  BY <1>1, <1>2 DEF CliDelete
<1>3. CASE CliEnable
  <2>1. row.memory.state # "purged" /\ MemoryBecomes("active")  BY <1>3 DEF CliEnable
  <2> QED  BY <2>1, MemoryBecomesKeeps
<1>4. CASE CliDisable
  <2>1. MemoryMayBecome("disabled") /\ MemoryBecomes("disabled")  BY <1>4 DEF CliDisable
  <2> QED  BY <2>1, MayBecomeFacts, MemoryBecomesKeeps
<1>5. CASE CliSupersede
  <2>1. MemoryMayBecome("superseded") /\ MemoryBecomes("superseded")  BY <1>5 DEF CliSupersede
  <2> QED  BY <2>1, MayBecomeFacts, MemoryBecomesKeeps
<1>6. CASE \E d \in {"approve", "reject"} : CliDecide(d)
  BY <1>6, NothingHappened DEF CliDecide, Decision
<1>7. CASE CliDecideUpdate
  <2>1. cli' \in Decision /\ UNCHANGED <<handoff, workload>>  BY <1>7 DEF CliDecideUpdate, Decision
  <2>2. CASE MemoryMayBecome(DecisionTarget)
    <3>1. DecisionTarget \in MemoryState \ {"purged"}  BY DEF DecisionTarget
    <3>2. row["memory"].ver + 1 \in Nat  BY DEF StoreInv, RowsOK, Kind
    <3>3. row' = [row EXCEPT !["memory"] = RowOf(DecisionTarget, row["memory"].ver + 1)]
      BY <1>7, <2>2 DEF CliDecideUpdate, Bump
    <3>4. store' = [store EXCEPT !.at = now]  BY <1>7, <2>2 DEF CliDecideUpdate
    <3>5. row.memory.state # "purged"  BY <2>2, MayBecomeFacts
    <3> QED  BY <2>1, <3>1, <3>2, <3>3, <3>4, <3>5, MemoryMoves
  <2>3. CASE ~MemoryMayBecome(DecisionTarget)
    <3>1. UNCHANGED <<row, store>>  BY <1>7, <2>3 DEF CliDecideUpdate
    <3> QED  BY <2>1, <3>1, NothingHappened
  <2> QED  BY <2>2, <2>3
<1>8. CASE \E s \in {"opted_in", "opted_out"} : CliPrivacy(s)
  <2>1. PICK s \in {"opted_in", "opted_out"} : CliPrivacy(s)  BY <1>8
  <2>2. row' = [row EXCEPT !["privacy"] = RowOf(s, now + 1)] /\ UNCHANGED store /\ Untouched
    BY <2>1 DEF CliPrivacy
  <2>3. "privacy" \in Kind \ {"memory"} /\ Proper("privacy", s)  BY DEF Kind, Proper, RowState
  <2>4. now + 1 \in Nat  BY GovernanceSessionsAssumption DEF GovernanceSessionsAssumption
  <2> QED  BY <2>2, <2>3, <2>4, OtherRowSet
<1>9. CASE CliRedact
  <2>1. "profile" \in Kind \ {"memory"} /\ Proper("profile", "redacted")  BY DEF Kind, Proper, RowState
  <2> QED  BY <1>9, <2>1, OtherRowBecomes DEF CliRedact
<1>10. CASE CliUnlink
  <2>1. "account" \in Kind \ {"memory"} /\ Proper("account", "disabled")  BY DEF Kind, Proper, RowState
  <2> QED  BY <1>10, <2>1, OtherRowBecomes DEF CliUnlink
<1>11. CASE CliRetention  BY <1>11, PurgedKeeps DEF CliRetention
<1>12. CASE QqForget  BY <1>1, <1>12 DEF QqForget
<1>13. CASE \E on \in {"enable", "disable"} : QqSummary(on)
  <2>1. PICK on \in {"enable", "disable"} : QqSummary(on)  BY <1>13
  <2>2. "policy" \in Kind \ {"memory"} /\ Proper("policy", PolicyTarget(on))
    BY DEF Kind, Proper, RowState, PolicyTarget
  <2>3. RowBecomes("policy", PolicyTarget(on))  BY <2>1 DEF QqSummary
  <2> QED  BY <2>2, <2>3, OtherRowBecomes
<1>14. CASE Inbound
  <2>1. RowsOK /\ EvidenceKept /\ StoreOK  BY DEF StoreInv
  <2> DEFINE a == row["account"].ver + 1
             b == row["profile"].ver + 1
  <2>2. a \in Nat /\ b \in Nat  BY <2>1 DEF RowsOK, Kind
  <2>3. /\ row' = [row EXCEPT !["account"] = RowOf("active", a), !["profile"] = RowOf("named", b)]
        /\ UNCHANGED store /\ Untouched
    BY <1>14 DEF Inbound
  <2> HIDE DEF a, b
  <2>4. /\ "account" \in Kind /\ "profile" \in Kind \ {"account"}
        /\ Proper("account", "active") /\ Proper("profile", "named")
    BY DEF Kind, Proper, RowState
  <2>5. /\ row'["account"] = RowOf("active", a) /\ row'["profile"] = RowOf("named", b)
        /\ \A j \in Kind \ {"account", "profile"} : row'[j] = row[j]
        /\ row' = [j \in Kind |-> row'[j]]
    BY <2>1, <2>3, <2>4 DEF RowsOK
  <2>6. RowsOK'  BY <2>1, <2>2, <2>4, <2>5, RowPairSet
  <2>7. row'["memory"] = row["memory"]  BY <2>5 DEF Kind
  <2>8. EvidenceKept'  BY <2>1, <2>3, <2>7, EvidenceOfOthers
  <2> QED  BY <2>1, <2>3, <2>6, <2>8 DEF StoreInv, StoreOK, Untouched
<1>15. CASE Unpin
  <2>1. RowsOK /\ EvidenceKept /\ StoreOK  BY DEF StoreInv
  <2>2. /\ store' = [store EXCEPT !.pin = "none"]
        /\ UNCHANGED row /\ Untouched
    BY <1>15 DEF Unpin
  <2>3. /\ store' \in [at : 0..MaxNow, chat : BOOLEAN, raw : BOOLEAN, pin : Pin]
        /\ store'.chat = store.chat /\ store'.raw = store.raw /\ store'.pin = "none"
    BY <2>1, <2>2 DEF StoreOK, Pin
  <2>4. EvidenceKept'  BY <2>1, <2>2, <2>3 DEF EvidenceKept, ChatPins, RawPins
  <2>5. RowsOK'  BY <2>1, <2>2 DEF RowsOK
  <2> QED  BY <2>1, <2>2, <2>3, <2>4, <2>5 DEF StoreInv, StoreOK, Untouched
<1>16. CASE FreezeWindow
  <2>1. RowsOK /\ EvidenceKept /\ StoreOK  BY DEF StoreInv
  <2>2. /\ store' = [store EXCEPT !.pin = "summary"] /\ store.chat /\ store.raw
        /\ UNCHANGED row /\ Untouched
    BY <1>16 DEF FreezeWindow
  <2>3. /\ store' \in [at : 0..MaxNow, chat : BOOLEAN, raw : BOOLEAN, pin : Pin]
        /\ store'.chat = store.chat /\ store'.raw = store.raw /\ store'.pin = "summary"
    BY <2>1, <2>2 DEF StoreOK, Pin
  <2>4. EvidenceKept'  BY <2>1, <2>2, <2>3 DEF EvidenceKept, ChatPins, RawPins
  <2>5. RowsOK'  BY <2>1, <2>2 DEF RowsOK
  <2> QED  BY <2>1, <2>2, <2>3, <2>4, <2>5 DEF StoreInv, StoreOK, Untouched
<1>17. CASE BackupChanges
  <2>1. PICK s \in {"verified", "damaged"} : RowBecomes("backup", s)  BY <1>17 DEF BackupChanges
  <2>2. "backup" \in Kind \ {"memory"} /\ Proper("backup", s)  BY DEF Kind, Proper, RowState
  <2> QED  BY <2>1, <2>2, OtherRowBecomes
<1> QED
  BY <1>2, <1>3, <1>4, <1>5, <1>6, <1>7, <1>8, <1>9, <1>10, <1>11, <1>12, <1>13, <1>14, <1>15,
     <1>16, <1>17 DEF Others

(***************************************************************************)
(* Previews and what is done on them.                                       *)
(***************************************************************************)

\* In which state of its row an operation can be previewed.
MayShow(op, state) ==
    /\ op = "forget" => state \notin {"deleted", "purged"}
    /\ op = "restore" => state \in {"disabled", "rejected", "deleted"}
    /\ op \in {"optIn", "optOut"} => state # PrivacyTarget(op)
    /\ op \in {"enable", "disable"} => state # PolicyTarget(op)
    /\ op = "unlink" => state = "active"
    /\ op \in {"approve", "reject", "expire"} => state = "pending_review"
    /\ op = "apply" => state = "approved"
    /\ op = "rollback" => state = "applied"

\* A preview says nothing but what its operation shows of its row; only the plan of
\* a retention is of a time, and has a body.
Faithful(c) ==
    /\ c \in Content /\ MayShow(c.op, c.state)
    /\ c.op # "retention" =>
          c = [op |-> c.op, state |-> c.state, ver |-> c.ver, at |-> 0, body |-> {}]

LEMMA AlwaysShown == "plan" \in ShownState /\ "available" \in ShownState
BY DEF ShownState

LEMMA ShownFaithful ==
    ASSUME RowsOK, NEW op \in Op \ {"retention"}, NEW k \in Kind, MayShow(op, row[k].state),
           NEW c \in Shown(op, k)
    PROVE  Faithful(c) /\ c.op = op
<1>1. c = [op |-> op, state |-> row[k].state, ver |-> row[k].ver, at |-> 0, body |-> {}]
  BY DEF Shown
<1>2. row[k].ver \in Nat /\ Proper(k, row[k].state)  BY DEF RowsOK
<1>3. row[k].state \in ShownState  BY <1>2 DEF Proper, ShownState
<1>4. c \in Content  BY <1>1, <1>2, <1>3 DEF Content
<1> QED  BY <1>1, <1>4 DEF Faithful

LEMMA PreviewFaithful ==
    ASSUME RowsOK, NEW op \in Op, NEW asOf \in Nat, NEW c \in Preview(op, asOf)
    PROVE  Faithful(c) /\ c.op = op
<1> USE DEF Kind
<1>1. CASE op = "forget"
  <2>1. c \in Shown(op, "memory") /\ MayShow(op, row["memory"].state)
    BY <1>1 DEF Preview, PreviewForget, MayShow
  <2> QED  BY <1>1, <2>1, ShownFaithful
<1>2. CASE op = "restore"
  <2>1. c \in Shown(op, "memory") /\ MayShow(op, row["memory"].state)
    BY <1>2 DEF Preview, PreviewRestore, MayShow
  <2> QED  BY <1>2, <2>1, ShownFaithful
<1>3. CASE op \in {"optIn", "optOut"}
  <2>1. c \in Shown(op, "privacy") /\ MayShow(op, row["privacy"].state)
    BY <1>3 DEF Preview, PreviewPrivacy, MayShow
  <2> QED  BY <1>3, <2>1, ShownFaithful
<1>4. CASE op \in {"enable", "disable"}
  <2>1. c \in Shown(op, "policy") /\ MayShow(op, row["policy"].state)
    BY <1>4 DEF Preview, PreviewPolicy, MayShow
  <2> QED  BY <1>4, <2>1, ShownFaithful
<1>5. CASE op = "redact"
  <2>1. c \in Shown(op, "profile") /\ MayShow(op, row["profile"].state)
    BY <1>5 DEF Preview, PreviewRedact, MayShow
  <2> QED  BY <1>5, <2>1, ShownFaithful
<1>6. CASE op = "unlink"
  <2>1. c \in Shown(op, "account") /\ MayShow(op, row["account"].state)
    BY <1>6 DEF Preview, PreviewUnlink, MayShow
  <2> QED  BY <1>6, <2>1, ShownFaithful
<1>7. CASE op \in {"approve", "reject", "expire", "apply", "rollback"}
  <2>1. c \in Shown(op, "proposal") /\ MayShow(op, row["proposal"].state)
    BY <1>7 DEF Preview, PreviewApprove, PreviewReject, PreviewExpire, PreviewApply,
                PreviewRollback, MayShow
  <2> QED  BY <1>7, <2>1, ShownFaithful
<1>8. CASE op = "retention"
  <2>1. c = [op |-> "retention", state |-> "plan", ver |-> 1, at |-> asOf, body |-> Plan(asOf)]
    BY <1>8 DEF Preview, PreviewRetention
  <2>2. Plan(asOf) \in SUBSET {"memory", "chat", "raw"}  BY DEF Plan
  <2>3. "plan" \in ShownState  BY AlwaysShown
  <2>4. c \in Content
    <3> DEFINE body == Plan(asOf)
    <3> HIDE DEF body
    <3> QED  BY <2>1, <2>2, <2>3 DEF Content, Op, body
  <2>5. c.op = "retention"  BY <2>1
  <2> QED  BY <1>8, <2>4, <2>5 DEF Faithful, MayShow
<1>9. CASE op = "backup"
  <2>1. c = [op |-> "backup", state |-> "available", ver |-> 1, at |-> 0, body |-> {}]
    BY <1>9 DEF Preview, PreviewBackup
  <2>2. "available" \in ShownState  BY AlwaysShown
  <2>3. c \in Content  BY <2>1, <2>2 DEF Content, Op
  <2> QED  BY <1>9, <2>1, <2>3 DEF Faithful, MayShow
<1>10. CASE op = "handoff"
  <2>1. c \in Shown(op, "backup") /\ MayShow(op, row["backup"].state)
    BY <1>10 DEF Preview, PreviewHandoff, MayShow
  <2> QED  BY <1>10, <2>1, ShownFaithful
<1> QED
  BY <1>1, <1>2, <1>3, <1>4, <1>5, <1>6, <1>7, <1>8, <1>9, <1>10 DEF Op

\* What is as expected is what a preview would show.
LEMMA ExpectedIsPreview ==
    ASSUME NEW c, Faithful(c), Expected(c), c.op \notin {"retention", "backup", "handoff"},
           NEW asOf
    PROVE  c \in Preview(c.op, asOf)
<1>1. /\ c.op \in Op /\ MayShow(c.op, c.state)
      /\ c = [op |-> c.op, state |-> c.state, ver |-> c.ver, at |-> 0, body |-> {}]
  BY DEF Faithful, Content
<1>2. row[KindOf(c.op)].state = c.state /\ row[KindOf(c.op)].ver = c.ver  BY DEF Expected
<1>3. c \in Shown(c.op, KindOf(c.op))  BY <1>1, <1>2 DEF Shown
<1> DEFINE op == c.op
<1>4. op \in Op /\ op \notin {"retention", "backup", "handoff"} /\ c \in Shown(op, KindOf(op))
      /\ MayShow(op, row[KindOf(op)].state)
  BY <1>1, <1>2, <1>3
<1>5. c \in Preview(op, asOf)
  <2> HIDE DEF op
  <2>1. CASE op = "forget"
    BY <1>4, <2>1 DEF Preview, KindOf, MayShow, PreviewForget
  <2>2. CASE op = "restore"
    BY <1>4, <2>2 DEF Preview, KindOf, MayShow, PreviewRestore
  <2>3. CASE op \in {"optIn", "optOut"}
    BY <1>4, <2>3 DEF Preview, KindOf, MayShow, PreviewPrivacy
  <2>4. CASE op \in {"enable", "disable"}
    BY <1>4, <2>4 DEF Preview, KindOf, MayShow, PreviewPolicy
  <2>5. CASE op = "redact"
    BY <1>4, <2>5 DEF Preview, KindOf, MayShow, PreviewRedact
  <2>6. CASE op = "unlink"
    BY <1>4, <2>6 DEF Preview, KindOf, MayShow, PreviewUnlink
  <2>7. CASE op \in {"approve", "reject", "expire", "apply", "rollback"}
    BY <1>4, <2>7 DEF Preview, KindOf, MayShow, PreviewApprove, PreviewReject, PreviewExpire,
                      PreviewApply, PreviewRollback
  <2> QED  BY <1>4, <2>1, <2>2, <2>3, <2>4, <2>5, <2>6, <2>7 DEF Op
<1> QED  BY <1>5

LEMMA MaxIs ==
    ASSUME NEW a \in Nat, NEW b \in Nat
    PROVE  Max({a, b}) \in Nat
<1>1. PICK x \in {a, b} : \A y \in {a, b} : x >= y  OBVIOUS
<1>2. Max({a, b}) \in {a, b}  BY <1>1 DEF Max
<1> QED  BY <1>2

LEMMA ProposalAndMemoryKeep ==
    ASSUME StoreInv, now \in 0..MaxNow, row.memory.state # "purged",
           NEW state, Proper("proposal", state), NEW memory \in MemoryState \ {"purged"},
           ProposalAndMemory(state, memory)
    PROVE  StoreInv' /\ row'["proposal"] = RowOf(state, row["proposal"].ver + 1)
<1> DEFINE a == row["proposal"].ver + 1
           b == row["memory"].ver + 1
<1>1. RowsOK /\ EvidenceKept /\ StoreOK  BY DEF StoreInv
<1>2. a \in Nat /\ b \in Nat  BY <1>1 DEF RowsOK, Kind
<1>3. store' = [store EXCEPT !.at = now] /\ Untouched  BY DEF ProposalAndMemory
<1>4. "proposal" \in Kind /\ "memory" \in Kind \ {"proposal"} /\ Proper("memory", memory)
  BY DEF Kind, Proper, RowState
<1> DEFINE mid == Bump("proposal", state)
<1>5. /\ row'["proposal"] = RowOf(state, a) /\ row'["memory"] = RowOf(memory, b)
      /\ RowsOK'
  <2>1. /\ mid["proposal"] = RowOf(state, a) /\ DOMAIN mid = Kind
        /\ \A j \in Kind \ {"proposal"} : mid[j] = row[j]
    BY <1>1, <1>4 DEF RowsOK, Bump
  <2>2. row' = [mid EXCEPT !["memory"] = RowOf(memory, b)]  BY DEF ProposalAndMemory
  <2> HIDE DEF mid, a, b
  <2>3. /\ row'["proposal"] = RowOf(state, a) /\ row'["memory"] = RowOf(memory, b)
        /\ \A j \in Kind \ {"proposal", "memory"} : row'[j] = row[j]
        /\ row' = [j \in Kind |-> row'[j]]
    BY <1>4, <2>1, <2>2
  <2> QED  BY <1>1, <1>2, <1>4, <2>3, RowPairSet
<1> HIDE DEF a, b
<1>6. /\ store' \in [at : 0..MaxNow, chat : BOOLEAN, raw : BOOLEAN, pin : Pin]
      /\ store'.chat = store.chat /\ store'.raw = store.raw /\ store'.pin = store.pin
  BY <1>1, <1>3 DEF StoreOK
<1>7. EvidenceKept'
  <2>1. store.chat /\ store.raw  BY <1>1 DEF EvidenceKept
  <2>2. row'["memory"].state # "purged"  BY <1>5, RowIs
  <2> QED  BY <1>6, <2>1, <2>2 DEF EvidenceKept
<1> QED  BY <1>1, <1>3, <1>5, <1>6, <1>7 DEF StoreInv, StoreOK, Untouched, a

\* The service's transaction, on a preview that still fits.
LEMMA EffectKeeps ==
    ASSUME StoreInv, now \in 0..MaxNow, NEW c, Faithful(c), Effective(c), Effect(c)
    PROVE  StoreInv'
<1> USE DEF MemoryState
<1>1. /\ Expected(c) /\ MayShow(c.op, c.state)
      /\ c.op = "forget" => MayForget
      /\ c.op = "restore" => MayRestore
      /\ c.op = "apply" => ProposalApplies
      /\ c.op = "rollback" => ProposalRollsBack
  BY DEF Effective, Faithful
<1>2. CASE c.op = "forget" /\ EffectForget
  <2>1. row["memory"].state = c.state  BY <1>1, <1>2 DEF Expected, KindOf
  <2>2. c.state # "purged"  BY <1>1, <1>2 DEF MayShow
  <2>3. MemoryBecomes("deleted")  BY <1>2 DEF EffectForget
  <2> QED  BY <2>1, <2>2, <2>3, MemoryBecomesKeeps
<1>3. CASE c.op = "restore" /\ EffectRestore
  <2>1. row.memory.state # "purged"  BY <1>1, <1>3 DEF MayRestore
  <2>2. MemoryBecomes("active")  BY <1>3 DEF EffectRestore
  <2> QED  BY <2>1, <2>2, MemoryBecomesKeeps
<1>4. CASE c.op \in {"optIn", "optOut"} /\ EffectPrivacy(c.op)
  <2> DEFINE state == PrivacyTarget(c.op)
  <2>1. /\ row' = [row EXCEPT !["privacy"] = RowOf(state, PreferenceStamp)]
        /\ UNCHANGED store /\ Untouched
    BY <1>4 DEF EffectPrivacy, PreferenceBecomes
  <2>2. "privacy" \in Kind \ {"memory"} /\ Proper("privacy", state)
    BY DEF Kind, Proper, RowState, PrivacyTarget
  <2>3. PreferenceStamp \in Nat
    <3>1. now + 1 \in Nat /\ row["privacy"].ver + 1 \in Nat
      BY GovernanceSessionsAssumption DEF GovernanceSessionsAssumption, StoreInv, RowsOK, Kind
    <3>2. Max({now + 1, row["privacy"].ver + 1}) \in Nat  BY <3>1, MaxIs
    <3> QED  BY <3>1, <3>2 DEF PreferenceStamp
  <2> HIDE DEF state
  <2> QED  BY <2>1, <2>2, <2>3, OtherRowSet
<1>5. CASE c.op \in {"enable", "disable"} /\ EffectPolicy(c.op)
  <2>1. "policy" \in Kind \ {"memory"} /\ Proper("policy", PolicyTarget(c.op))
    BY DEF Kind, Proper, RowState, PolicyTarget
  <2> QED  BY <1>5, <2>1, OtherRowBecomes DEF EffectPolicy
<1>6. CASE c.op = "redact" /\ EffectRedact
  <2>1. "profile" \in Kind \ {"memory"} /\ Proper("profile", "redacted")  BY DEF Kind, Proper, RowState
  <2> QED  BY <1>6, <2>1, OtherRowBecomes DEF EffectRedact
<1>7. CASE c.op = "unlink" /\ EffectUnlink
  <2>1. "account" \in Kind \ {"memory"} /\ Proper("account", "disabled")  BY DEF Kind, Proper, RowState
  <2> QED  BY <1>7, <2>1, OtherRowBecomes DEF EffectUnlink
<1>8. CASE c.op \in {"approve", "reject", "expire"} /\ EffectReview(c.op)
  <2>1. "proposal" \in Kind \ {"memory"} /\ Proper("proposal", ReviewTarget(c.op))
    BY DEF Kind, Proper, RowState, ReviewTarget
  <2> QED  BY <1>8, <2>1, OtherRowBecomes DEF EffectReview
<1>9. CASE c.op = "apply" /\ EffectApply
  <2>1. row.memory = RowOf("active", 1) /\ ProposalAndMemory("applied", "disabled")
    BY <1>9 DEF EffectApply, ProposalApplies
  <2>2. row.memory.state # "purged" /\ Proper("proposal", "applied")  BY <2>1, RowIs DEF Proper, RowState
  <2> QED  BY <2>1, <2>2, ProposalAndMemoryKeep
<1>10. CASE c.op = "rollback" /\ EffectRollback
  <2>1. row.memory = RowOf("disabled", 2) /\ ProposalAndMemory("rolled_back", "active")
    BY <1>10 DEF EffectRollback, ProposalRollsBack
  <2>2. row.memory.state # "purged" /\ Proper("proposal", "rolled_back")  BY <2>1, RowIs DEF Proper, RowState
  <2> QED  BY <2>1, <2>2, ProposalAndMemoryKeep
<1> QED
  BY <1>2, <1>3, <1>4, <1>5, <1>6, <1>7, <1>8, <1>9, <1>10 DEF Effect

\* A decision that takes effect is the transition its handler looks for.
LEMMA EffectReported ==
    ASSUME StoreInv, now \in 0..MaxNow, NEW c, Faithful(c), Effective(c), Effect(c)
    PROVE  /\ c.op \in {"approve", "reject", "expire"} => ReviewConfirmed(c)
           /\ c.op = "apply" => ApplicationConfirmed(c)
           /\ c.op = "rollback" => RollbackConfirmed(c)
<1>1. Expected(c) /\ MayShow(c.op, c.state)  BY DEF Effective, Faithful
<1>2. DOMAIN row = Kind /\ "proposal" \in Kind  BY DEF StoreInv, RowsOK, Kind
<1>3. CASE c.op \in {"approve", "reject", "expire"}
  <2>1. c.state = "pending_review" /\ row["proposal"].ver = c.ver  BY <1>1, <1>3 DEF MayShow, Expected, KindOf
  <2>2. RowBecomes("proposal", ReviewTarget(c.op))  BY <1>3 DEF Effect, EffectReview
  <2>3. row' = [row EXCEPT !["proposal"] = RowOf(ReviewTarget(c.op), c.ver + 1)]
    BY <2>1, <2>2 DEF RowBecomes, Bump
  <2>4. row'["proposal"] = RowOf(ReviewTarget(c.op), c.ver + 1)  BY <1>2, <2>3
  <2> QED  BY <1>3, <2>1, <2>4 DEF ReviewConfirmed
<1>4. CASE c.op = "apply"
  <2>1. c.state = "approved" /\ row["proposal"].ver = c.ver  BY <1>1, <1>4 DEF MayShow, Expected, KindOf
  <2>2. row.memory = RowOf("active", 1) /\ ProposalAndMemory("applied", "disabled")
    BY <1>4 DEF Effect, EffectApply, ProposalApplies
  <2>3. row.memory.state # "purged" /\ Proper("proposal", "applied")  BY <2>2, RowIs DEF Proper, RowState
  <2>4. row'["proposal"] = RowOf("applied", row["proposal"].ver + 1)
    BY <2>2, <2>3, ProposalAndMemoryKeep DEF MemoryState
  <2> QED  BY <1>4, <2>1, <2>4 DEF ApplicationConfirmed
<1>5. CASE c.op = "rollback"
  <2>1. c.state = "applied" /\ row["proposal"].ver = c.ver  BY <1>1, <1>5 DEF MayShow, Expected, KindOf
  <2>2. row.memory = RowOf("disabled", 2) /\ ProposalAndMemory("rolled_back", "active")
    BY <1>5 DEF Effect, EffectRollback, ProposalRollsBack
  <2>3. row.memory.state # "purged" /\ Proper("proposal", "rolled_back")  BY <2>2, RowIs DEF Proper, RowState
  <2>4. row'["proposal"] = RowOf("rolled_back", row["proposal"].ver + 1)
    BY <2>2, <2>3, ProposalAndMemoryKeep DEF MemoryState
  <2> QED  BY <1>5, <2>1, <2>4 DEF RollbackConfirmed
<1> QED  BY <1>3, <1>4, <1>5

(***************************************************************************)
(* The invariant: sessions, previews and requests.                          *)
(***************************************************************************)

SessionsOK ==
    /\ now \in 0..MaxNow
    /\ expiry \in Seq(0..(MaxNow + SessionTtl)) /\ Len(expiry) <= MaxLogins
    /\ live \subseteq 1..Len(expiry)
    /\ scopes \subseteq Grant /\ resources \subseteq Grant
    /\ issued \in 0..MaxIssued
    /\ \A g \in scopes : g[1] \in live

PreviewRow(handles, logins) ==
    [handle : 1..handles, session : 1..logins, content : Content,
     expires : 0..(MaxNow + PreviewTtl), consumed : BOOLEAN]

\* One record to a handle.
Distinct(ps) == \A p, r \in ps : p.handle = r.handle => p = r

\* What a record says of its operation, its handle and its session.
Sound(p) ==
    /\ Faithful(p.content)
    /\ p.handle \in spent => p.consumed
    /\ Scoped(p.content.op) => p.session \in live

Bounded(ps) ==
    \A s \in Nat :
        /\ Cardinality(ActiveOf(ps, s)) <= MaxPreviews
        /\ Cardinality(SpentOf(ps, s)) <= MaxConsumed

PreviewsOK ==
    /\ previews \subseteq PreviewRow(issued, Len(expiry))
    /\ IsFiniteSet(previews) /\ Distinct(previews) /\ Bounded(previews)
    /\ \A p \in previews : Sound(p)

\* What a request in flight may carry, after so many handles and logins.
InFlight(r, handles, logins) ==
    \/ r = Idle
    \/ r.at = "body" /\ r.session \in 1..logins
    \/ r.at \in {"commit", "backup"} /\ r.handle \in 1..handles /\ Faithful(r.content)

RequestsOK ==
    /\ req = [q \in Request |-> req[q]]
    /\ \A q \in Request : InFlight(req[q], issued, Len(expiry))
    /\ spent \subseteq 1..issued

ConsoleInv == SessionsOK /\ PreviewsOK /\ RequestsOK /\ StoreInv

LEMMA BoundsAre ==
    /\ MaxNow \in Nat /\ SessionTtl \in Nat \ {0} /\ PreviewTtl \in Nat \ {0}
    /\ MaxPreviews \in Nat \ {0} /\ MaxConsumed \in Nat \ {0}
    /\ MaxLogins \in Nat /\ MaxIssued \in Nat
BY GovernanceSessionsAssumption DEF GovernanceSessionsAssumption

LEMMA BoundedSubset ==
    ASSUME NEW ps, IsFiniteSet(ps), Bounded(ps), NEW qs \in SUBSET ps
    PROVE  Bounded(qs)
<1>1. MaxPreviews \in Nat /\ MaxConsumed \in Nat  BY BoundsAre
<1>2. ASSUME NEW s \in Nat
      PROVE  /\ Cardinality(ActiveOf(qs, s)) <= MaxPreviews
             /\ Cardinality(SpentOf(qs, s)) <= MaxConsumed
  <2>1. /\ ActiveOf(ps, s) \subseteq ps /\ ActiveOf(qs, s) \subseteq ActiveOf(ps, s)
        /\ SpentOf(ps, s) \subseteq ps /\ SpentOf(qs, s) \subseteq SpentOf(ps, s)
    BY DEF ActiveOf, Active, SpentOf
  <2>2. IsFiniteSet(ActiveOf(ps, s)) /\ IsFiniteSet(SpentOf(ps, s))  BY <2>1, FS_Subset
  <2>3. Cardinality(ActiveOf(ps, s)) <= MaxPreviews /\ Cardinality(SpentOf(ps, s)) <= MaxConsumed
    BY DEF Bounded
  <2>4. Cardinality(ActiveOf(qs, s)) <= MaxPreviews  BY <1>1, <2>1, <2>2, <2>3, SubsetBound
  <2>5. Cardinality(SpentOf(qs, s)) <= MaxConsumed  BY <1>1, <2>1, <2>2, <2>3, SubsetBound
  <2> QED  BY <2>4, <2>5
<1> QED  BY <1>2 DEF Bounded

LEMMA PreviewsFewer ==
    ASSUME PreviewsOK, previews' \subseteq previews, UNCHANGED <<issued, spent>>,
           Len(expiry) \in Nat, Len(expiry') \in Nat, Len(expiry) <= Len(expiry'),
           \A p \in previews' : p.session \in live => p.session \in live'
    PROVE  PreviewsOK'
<1>1. previews' \subseteq PreviewRow(issued', Len(expiry'))
  <2>1. \A p \in previews : p \in PreviewRow(issued, Len(expiry))  BY DEF PreviewsOK
  <2>2. 1..Len(expiry) \subseteq 1..Len(expiry')  OBVIOUS
  <2>3. PreviewRow(issued, Len(expiry)) \subseteq PreviewRow(issued', Len(expiry'))
    BY <2>2 DEF PreviewRow
  <2> QED  BY <2>1, <2>3
<1>2. IsFiniteSet(previews')  BY FS_Subset DEF PreviewsOK
<1>3. Distinct(previews')  BY DEF PreviewsOK, Distinct
<1>4. Bounded(previews')  BY BoundedSubset DEF PreviewsOK
<1>5. ASSUME NEW p \in previews'  PROVE Sound(p)'
  <2>1. p \in previews /\ Sound(p)  BY DEF PreviewsOK
  <2> QED  BY <2>1 DEF Sound
<1> QED  BY <1>1, <1>2, <1>3, <1>4, <1>5 DEF PreviewsOK

LEMMA RequestsMove ==
    ASSUME RequestsOK, NEW q \in Request, NEW r,
           req' = [req EXCEPT ![q] = r],
           issued \in Nat, issued' \in Nat, issued <= issued',
           Len(expiry) \in Nat, Len(expiry') \in Nat, Len(expiry) <= Len(expiry'),
           InFlight(r, issued', Len(expiry')), spent' \subseteq 1..issued'
    PROVE  RequestsOK' /\ req'[q] = r /\ \A o \in Request \ {q} : req'[o] = req[o]
<1>1. DOMAIN req = Request  BY DEF RequestsOK
<1>2. req'[q] = r /\ (\A o \in Request \ {q} : req'[o] = req[o]) /\ req' = [o \in Request |-> req'[o]]
  BY <1>1
<1>3. ASSUME NEW o \in Request  PROVE InFlight(req'[o], issued', Len(expiry'))
  <2>1. CASE o = q  BY <1>2, <2>1
  <2>2. CASE o # q
    <3>1. req'[o] = req[o] /\ InFlight(req[o], issued, Len(expiry))  BY <1>2, <2>2 DEF RequestsOK
    <3>2. 1..issued \subseteq 1..issued' /\ 1..Len(expiry) \subseteq 1..Len(expiry')  OBVIOUS
    <3> QED  BY <3>1, <3>2 DEF InFlight
  <2> QED  BY <2>1, <2>2
<1> QED  BY <1>2, <1>3 DEF RequestsOK

LEMMA RequestsStay ==
    ASSUME RequestsOK, UNCHANGED <<req, spent, issued>>,
           Len(expiry) \in Nat, Len(expiry') \in Nat, Len(expiry) <= Len(expiry')
    PROVE  RequestsOK'
<1>1. 1..Len(expiry) \subseteq 1..Len(expiry')  OBVIOUS
<1>2. \A q \in Request : InFlight(req'[q], issued', Len(expiry'))
  BY <1>1 DEF RequestsOK, InFlight
<1> QED  BY <1>2 DEF RequestsOK

\* A request that is answered, and nothing else about it.
LEMMA Answered ==
    ASSUME RequestsOK, NEW q \in Request, Answer(q), issued \in Nat, Len(expiry) \in Nat,
           UNCHANGED <<expiry, issued, spent>>
    PROVE  RequestsOK' /\ req'[q] = Idle /\ \A o \in Request \ {q} : req'[o] = req[o]
<1>1. InFlight(Idle, issued', Len(expiry'))  BY DEF InFlight
<1>2. req' = [req EXCEPT ![q] = Idle]  BY DEF Answer
<1>3. spent' \subseteq 1..issued'  BY DEF RequestsOK
<1>4. /\ issued' \in Nat /\ issued <= issued'
      /\ Len(expiry') \in Nat /\ Len(expiry) <= Len(expiry')
  OBVIOUS
<1> QED  BY <1>1, <1>2, <1>3, <1>4, RequestsMove

(***************************************************************************)
(* Sessions come and go.                                                    *)
(***************************************************************************)

LEMMA SessionsAre ==
    ASSUME SessionsOK
    PROVE  /\ Len(expiry) \in Nat /\ issued \in Nat /\ now \in Nat
           /\ \A s \in 1..Len(expiry) : expiry[s] \in 0..(MaxNow + SessionTtl) /\ s \in Session
           /\ \A s \in live : s \in 1..Len(expiry)
<1>1. Len(expiry) \in Nat /\ issued \in Nat /\ now \in Nat  BY BoundsAre DEF SessionsOK
<1>2. ASSUME NEW s \in 1..Len(expiry)  PROVE expiry[s] \in 0..(MaxNow + SessionTtl)
  <2> DEFINE T == 0..(MaxNow + SessionTtl)
  <2>1. expiry \in Seq(T)  BY DEF SessionsOK
  <2> HIDE DEF T
  <2>2. expiry[s] \in T  BY <2>1
  <2> QED  BY <2>2 DEF T
<1>3. \A s \in 1..Len(expiry) : s \in Session  BY <1>1, BoundsAre DEF SessionsOK, Session
<1> QED  BY <1>1, <1>2, <1>3 DEF SessionsOK

LEMMA RevokedKeeps ==
    ASSUME SessionsOK, PreviewsOK, NEW gone, Revoked(gone), UNCHANGED <<now, expiry, issued, spent>>
    PROVE  SessionsOK' /\ PreviewsOK'
<1>1. /\ live' = live \ gone
      /\ scopes' \subseteq scopes /\ resources' \subseteq resources /\ previews' \subseteq previews
      /\ \A g \in scopes' : g[1] \notin gone
      /\ \A p \in previews' : p.session \notin gone
  BY DEF Revoked
<1>2. SessionsOK'  BY <1>1 DEF SessionsOK
<1>3. PreviewsOK'  BY <1>1, SessionsAre, PreviewsFewer
<1> QED  BY <1>2, <1>3

LEMMA LoginKeeps ==
    ASSUME SessionsOK, PreviewsOK, NEW prior, Login(prior), UNCHANGED spent
    PROVE  SessionsOK' /\ PreviewsOK' /\ issued' = issued /\ Len(expiry) <= Len(expiry')
<1> DEFINE gone == Outdated \cup (live \cap {prior})
<1>1. /\ Len(expiry) < MaxLogins
      /\ expiry' = Append(expiry, now + SessionTtl)
      /\ live' = (live \ gone) \cup {Len(expiry) + 1}
      /\ scopes' \subseteq scopes /\ resources' \subseteq resources /\ previews' \subseteq previews
      /\ \A g \in scopes' : g[1] \notin gone
      /\ \A p \in previews' : p.session \notin gone
      /\ now' = now /\ issued' = issued
  BY DEF Login
<1> HIDE DEF gone
<1>2. now + SessionTtl \in 0..(MaxNow + SessionTtl)  BY BoundsAre DEF SessionsOK
<1>3. expiry' \in Seq(0..(MaxNow + SessionTtl)) /\ Len(expiry') = Len(expiry) + 1
  BY <1>1, <1>2 DEF SessionsOK
<1>4. Len(expiry) \in Nat /\ MaxLogins \in Nat  BY SessionsAre, BoundsAre
<1>5. ASSUME NEW s \in live'  PROVE s \in 1..Len(expiry')
  <2>1. s \in 1..Len(expiry) \/ s = Len(expiry) + 1  BY <1>1 DEF SessionsOK
  <2> QED  BY <1>3, <1>4, <2>1
<1>6. \A g \in scopes' : g[1] \in live'  BY <1>1 DEF SessionsOK
<1>7. SessionsOK'
  <2>1. now' \in 0..MaxNow /\ issued' \in 0..MaxIssued  BY <1>1 DEF SessionsOK
  <2>2. Len(expiry') <= MaxLogins  BY <1>1, <1>3, <1>4
  <2>3. live' \subseteq 1..Len(expiry')  BY <1>5
  <2>4. scopes' \subseteq Grant /\ resources' \subseteq Grant  BY <1>1 DEF SessionsOK
  <2> QED  BY <1>3, <1>6, <2>1, <2>2, <2>3, <2>4 DEF SessionsOK, Grant, Session
<1>8. PreviewsOK'  BY <1>1, <1>3, <1>4, PreviewsFewer
<1> QED  BY <1>1, <1>3, <1>4, <1>7, <1>8

LEMMA ScopesStayGranted ==
    ASSUME SessionsOK, NEW s \in live, NEW k \in Kind
    PROVE  /\ WithScope(s, k) \subseteq Grant /\ \A g \in WithScope(s, k) : g[1] \in live
           /\ Unexpired(scopes) \subseteq scopes
<1>1. <<s, k>> \in Grant
  BY SessionsAre, GovernanceStoreAssumption DEF GovernanceStoreAssumption, Grant
<1>2. Unexpired(scopes) \subseteq scopes  BY DEF Unexpired
<1>3. \A g \in WithScope(s, k) : g \in scopes \/ g = <<s, k>>  BY <1>2 DEF WithScope
<1> QED  BY <1>1, <1>2, <1>3 DEF SessionsOK

LEMMA ResourcesStayGranted ==
    ASSUME SessionsOK, NEW s \in 1..Len(expiry), NEW k \in Kind
    PROVE  WithResource(s, k) \subseteq Grant
<1>1. <<s, k>> \in Grant
  BY SessionsAre, GovernanceStoreAssumption DEF GovernanceStoreAssumption, Grant
<1>2. \A g \in WithResource(s, k) : g \in resources \/ g = <<s, k>>  BY DEF WithResource, Unexpired
<1> QED  BY <1>1, <1>2 DEF SessionsOK

(***************************************************************************)
(* A handle is issued, and used.                                            *)
(***************************************************************************)

LEMMA MinIs ==
    ASSUME NEW a \in Nat, NEW b \in Nat
    PROVE  Min({a, b}) \in 0..b
<1>1. PICK x \in {a, b} : \A y \in {a, b} : x =< y  OBVIOUS
<1>2. Min({a, b}) \in {a, b} /\ \A y \in {a, b} : Min({a, b}) =< y  BY <1>1 DEF Min
<1> QED  BY <1>2

\* The scope handle of a scoped route is of a session that is logged in.
LEMMA ResolvedIsLive ==
    ASSUME SessionsOK, NEW s, NEW op \in Op, Scoped(op), Resolved(s, op)
    PROVE  s \in live
<1>1. \A k \in Kind : ScopeResolves(s, k) => s \in live
  <2>1. ASSUME NEW k \in Kind, ScopeResolves(s, k)  PROVE s \in live
    <3>1. <<s, k>> \in scopes  BY <2>1 DEF ScopeResolves, Unexpired
    <3>2. <<s, k>>[1] \in live  BY <3>1 DEF SessionsOK
    <3> QED  BY <3>2
  <2> QED  BY <2>1
<1>2. \E k \in Kind : ScopeResolves(s, k)
  <2> HIDE DEF ScopeResolves
  <2>1. CASE op \in {"forget", "restore"}
    BY <2>1 DEF Resolved, KindOf, Scoped, RecordRoute, Kind
  <2>2. CASE op \in {"optIn", "optOut"}
    BY <2>2 DEF Resolved, KindOf, Scoped, PrivacyRoute, Kind
  <2>3. CASE op \in {"enable", "disable"}
    BY <2>3 DEF Resolved, KindOf, Scoped, PolicyRoute, Kind
  <2>4. CASE op = "redact"
    BY <2>4 DEF Resolved, KindOf, Scoped, ProfileRoute, Kind
  <2>5. CASE op \in {"approve", "reject", "expire", "apply", "rollback"}
    BY <2>5 DEF Resolved, KindOf, Scoped, ReviewRoute, Kind
  <2> QED  BY <2>1, <2>2, <2>3, <2>4, <2>5 DEF Scoped, Op
<1> QED  BY <1>1, <1>2

LEMMA BodyIs ==
    ASSUME RequestsOK, NEW q \in Request, req[q].at = "body"
    PROVE  req[q].session \in 1..Len(expiry)
<1>1. InFlight(req[q], issued, Len(expiry))  BY DEF RequestsOK
<1>2. Idle.at = "idle"  BY DEF Idle
<1> QED  BY <1>1, <1>2 DEF InFlight

LEMMA FreshIsSound ==
    ASSUME PreviewsOK
    PROVE  /\ Fresh(previews) \subseteq previews /\ IsFiniteSet(Fresh(previews))
           /\ Distinct(Fresh(previews)) /\ Bounded(Fresh(previews))
           /\ \A p \in Fresh(previews) : p \in PreviewRow(issued, Len(expiry)) /\ Sound(p)
<1>1. Fresh(previews) \subseteq previews  BY DEF Fresh
<1>2. IsFiniteSet(Fresh(previews))  BY <1>1, FS_Subset DEF PreviewsOK
<1>3. Distinct(Fresh(previews))  BY <1>1 DEF PreviewsOK, Distinct
<1>4. Bounded(Fresh(previews))  BY <1>1, BoundedSubset DEF PreviewsOK
<1> QED  BY <1>1, <1>2, <1>3, <1>4 DEF PreviewsOK

LEMMA IssuedKeeps ==
    ASSUME SessionsOK, PreviewsOK, spent \subseteq 1..issued,
           NEW s \in 1..Len(expiry), MayIssue(s), NEW c, Faithful(c),
           Scoped(c.op) => s \in live,
           previews' = WithPreview(s, c), issued' = issued + 1, UNCHANGED <<expiry, live, spent>>
    PROVE  PreviewsOK'
<1> DEFINE F == Fresh(previews)
           new == [handle |-> issued + 1, session |-> s, content |-> c,
                   expires |-> PreviewExpiry(s), consumed |-> FALSE]
<1>1. previews' = F \cup {new}  BY DEF WithPreview
<1>2. /\ F \subseteq previews /\ IsFiniteSet(F) /\ Distinct(F) /\ Bounded(F)
      /\ \A p \in F : p \in PreviewRow(issued, Len(expiry)) /\ Sound(p)
  BY FreshIsSound
<1>3. /\ new.handle = issued + 1 /\ new.session = s /\ new.content = c /\ ~new.consumed
      /\ new \in PreviewRow(issued + 1, Len(expiry))
  <2>1. expiry[s] \in Nat /\ now + PreviewTtl \in Nat /\ now + PreviewTtl <= MaxNow + PreviewTtl
    BY SessionsAre, BoundsAre DEF SessionsOK
  <2>2. PreviewExpiry(s) \in 0..(now + PreviewTtl)  BY <2>1, MinIs DEF PreviewExpiry
  <2>3. PreviewExpiry(s) \in 0..(MaxNow + PreviewTtl)
    <3> DEFINE e == PreviewExpiry(s)
    <3> HIDE DEF e
    <3>1. e \in 0..(now + PreviewTtl)  BY <2>2 DEF e
    <3>2. e \in 0..(MaxNow + PreviewTtl)  BY <2>1, <3>1, BoundsAre
    <3> QED  BY <3>2 DEF e
  <2>4. issued + 1 \in 1..(issued + 1)  BY SessionsAre
  <2>5. c \in Content  BY DEF Faithful
  <2> QED  BY <2>3, <2>4, <2>5 DEF PreviewRow
<1>4. /\ Cardinality(ActiveOf(F, s)) < MaxPreviews
  BY DEF MayIssue, HasRoom
<1> HIDE DEF F, new
<1>5. issued \in Nat /\ Len(expiry) \in Nat  BY SessionsAre
<1>6. ASSUME NEW p \in F  PROVE p.handle \in 1..issued /\ p \in PreviewRow(issued + 1, Len(expiry))
  <2>1. p \in PreviewRow(issued, Len(expiry))  BY <1>2
  <2>2. 1..issued \subseteq 1..(issued + 1)  BY <1>5
  <2> QED  BY <2>1, <2>2 DEF PreviewRow
<1>7. previews' \subseteq PreviewRow(issued', Len(expiry'))  BY <1>1, <1>3, <1>6
<1>8. IsFiniteSet(previews')  BY <1>1, <1>2, FS_AddElement
<1>9. Distinct(previews')  BY <1>1, <1>2, <1>3, <1>5, <1>6 DEF Distinct
<1>10. Bounded(previews')
  <2> SUFFICES ASSUME NEW o \in Nat
               PROVE  /\ Cardinality(ActiveOf(previews', o)) <= MaxPreviews
                      /\ Cardinality(SpentOf(previews', o)) <= MaxConsumed
    BY DEF Bounded
  <2>1. /\ Cardinality(ActiveOf(F, o)) <= MaxPreviews /\ Cardinality(SpentOf(F, o)) <= MaxConsumed
    BY <1>2 DEF Bounded
  <2>2. SpentOf(previews', o) = SpentOf(F, o)  BY <1>1, <1>3 DEF SpentOf
  <2>3. CASE o # s
    <3>1. ActiveOf(previews', o) = ActiveOf(F, o)  BY <1>1, <1>3, <2>3 DEF ActiveOf, Active
    <3> QED  BY <2>1, <2>2, <3>1
  <2>4. CASE o = s
    <3>1. ActiveOf(previews', s) = ActiveOf(F, s) \cup {new}  BY <1>1, <1>3 DEF ActiveOf, Active
    <3>2. ActiveOf(F, s) \subseteq F  BY DEF ActiveOf, Active
    <3>3. IsFiniteSet(ActiveOf(F, s))  BY <1>2, <3>2, FS_Subset
    <3>4. new \notin ActiveOf(F, s)  BY <1>3, <1>5, <1>6, <3>2
    <3>5. Cardinality(ActiveOf(previews', s)) = Cardinality(ActiveOf(F, s)) + 1
      BY <3>1, <3>3, <3>4, FS_AddElement
    <3>6. Cardinality(ActiveOf(F, s)) \in Nat  BY <3>3, FS_CardinalityType
    <3> QED  BY <1>4, <2>1, <2>2, <2>4, <3>5, <3>6, BoundsAre
  <2> QED  BY <2>3, <2>4
<1>11. ASSUME NEW p \in previews'  PROVE Sound(p)'
  <2>1. CASE p \in F
    <3>1. Sound(p)  BY <1>2, <2>1
    <3> QED  BY <3>1 DEF Sound
  <2>2. CASE p = new
    <3>1. issued + 1 \notin spent  BY <1>5
    <3> QED  BY <1>3, <2>2, <3>1 DEF Sound
  <2> QED  BY <1>1, <2>1, <2>2
<1> QED  BY <1>7, <1>8, <1>9, <1>10, <1>11 DEF PreviewsOK

LEMMA ConsumedKeeps ==
    ASSUME SessionsOK, PreviewsOK, NEW p \in Fresh(previews), ~p.consumed,
           previews' = Consumed(p, p.session), spent' \subseteq spent \cup {p.handle},
           UNCHANGED <<expiry, live, issued>>
    PROVE  PreviewsOK'
<1> DEFINE F == Fresh(previews)
           mark == [p EXCEPT !.consumed = TRUE]
           C == (F \ {p}) \cup {mark}
           s == p.session
<1>1. previews' = Trimmed(C, s)  BY DEF Consumed
<1>2. /\ F \subseteq previews /\ IsFiniteSet(F) /\ Distinct(F) /\ Bounded(F)
      /\ \A r \in F : r \in PreviewRow(issued, Len(expiry)) /\ Sound(r)
  BY FreshIsSound
<1>3. p \in F  OBVIOUS
<1>4. /\ mark \in PreviewRow(issued, Len(expiry))
      /\ mark.handle = p.handle /\ mark.session = p.session /\ mark.content = p.content /\ mark.consumed
  BY <1>2 DEF PreviewRow
<1> HIDE DEF F, mark
<1>5. \A r \in C : r = mark \/ (r \in F /\ r # p /\ r.handle # p.handle)
  BY <1>2, <1>3 DEF Distinct
<1>6. IsFiniteSet(C)
  <2>1. IsFiniteSet(F \ {p})  BY <1>2, FS_Subset
  <2> QED  BY <2>1, FS_AddElement
<1>7. Distinct(C)  BY <1>2, <1>4, <1>5 DEF Distinct
<1>8. \A r \in C : r \in PreviewRow(issued, Len(expiry))  BY <1>2, <1>4, <1>5
<1>9. previews' \subseteq C  BY <1>1 DEF Trimmed
<1> HIDE DEF C
<1>10. previews' \subseteq PreviewRow(issued', Len(expiry'))  BY <1>8, <1>9
<1>11. IsFiniteSet(previews')  BY <1>6, <1>9, FS_Subset
<1>12. Distinct(previews')  BY <1>7, <1>9 DEF Distinct
<1>13. Bounded(previews')
  <2> SUFFICES ASSUME NEW o \in Nat
               PROVE  /\ Cardinality(ActiveOf(previews', o)) <= MaxPreviews
                      /\ Cardinality(SpentOf(previews', o)) <= MaxConsumed
    BY DEF Bounded
  <2>1. /\ Cardinality(ActiveOf(F, o)) <= MaxPreviews /\ Cardinality(SpentOf(F, o)) <= MaxConsumed
    BY <1>2 DEF Bounded
  <2>2. /\ ActiveOf(F, o) \subseteq F /\ SpentOf(F, o) \subseteq F
        /\ IsFiniteSet(ActiveOf(F, o)) /\ IsFiniteSet(SpentOf(F, o))
    <3>1. ActiveOf(F, o) \subseteq F /\ SpentOf(F, o) \subseteq F  BY DEF ActiveOf, Active, SpentOf
    <3> QED  BY <1>2, <3>1, FS_Subset
  <2>3. Cardinality(ActiveOf(previews', o)) <= MaxPreviews
    <3>1. ActiveOf(previews', o) \subseteq ActiveOf(F, o)
      BY <1>4, <1>5, <1>9 DEF ActiveOf, Active
    <3> QED  BY <2>1, <2>2, <3>1, SubsetBound, BoundsAre
  <2>4. CASE o # s
    <3>1. SpentOf(previews', o) \subseteq SpentOf(F, o)
      BY <1>4, <1>5, <1>9, <2>4 DEF SpentOf
    <3>2. Cardinality(SpentOf(previews', o)) <= MaxConsumed
      BY <2>1, <2>2, <3>1, SubsetBound, BoundsAre
    <3> QED  BY <2>3, <3>2
  <2>5. CASE o = s
    <3>1. \A r \in C : r.handle \in Nat  BY <1>8, SessionsAre DEF PreviewRow
    <3>2. Cardinality(SpentOf(Trimmed(C, s), s)) <= MaxConsumed
      BY <1>6, <1>7, <3>1, TrimmedIsBounded DEF Distinct
    <3> QED  BY <1>1, <2>3, <2>5, <3>2
  <2> QED  BY <2>4, <2>5
<1>14. ASSUME NEW r \in previews'  PROVE Sound(r)'
  <2>1. CASE r = mark
    <3>1. Sound(p)  BY <1>2, <1>3
    <3> QED  BY <1>4, <2>1, <3>1 DEF Sound
  <2>2. CASE r \in F /\ r.handle # p.handle
    <3>1. Sound(r)  BY <1>2, <2>2
    <3> QED  BY <2>2, <3>1 DEF Sound
  <2> QED  BY <1>5, <1>9, <2>1, <2>2
<1> QED  BY <1>10, <1>11, <1>12, <1>13, <1>14 DEF PreviewsOK

(***************************************************************************)
(* Every step.                                                              *)
(***************************************************************************)

\* What a step may do to a request: act as previewed, and be reported; let a
\* confirmation through once, in time, under a session that is logged in.
StepSound ==
    \A q \in Request :
        /\ Acts(q) =>
              LET c == req[q].content
              IN  /\ c \in Preview(c.op, c.at)
                  /\ c.op \in {"approve", "reject", "expire"} => ReviewConfirmed(c)
                  /\ c.op = "apply" => ApplicationConfirmed(c)
                  /\ c.op = "rollback" => RollbackConfirmed(c)
        /\ LetThrough(q) =>
              /\ req'[q].handle \notin spent
              /\ \E p \in previews : p.handle = req'[q].handle /\ p.expires > now
              /\ Scoped(req'[q].content.op) => req'[q].session \in live

LEMMA IdleIs == Idle.at = "idle"  BY DEF Idle

\* Most steps act on nothing and let nothing through.
LEMMA Silent ==
    ASSUME UNCHANGED row \/ UNCHANGED req,
           \A q \in Request : req'[q] = req[q] \/ req'[q].at \in {"idle", "body"}
    PROVE  StepSound
<1>1. ASSUME NEW q \in Request, Acts(q)  PROVE FALSE
  <2>1. req[q].at = "commit" /\ req'[q] = Idle /\ row' # row  BY <1>1 DEF Acts
  <2> QED  BY <2>1, IdleIs
<1>2. ASSUME NEW q \in Request, LetThrough(q)  PROVE FALSE
  <2>1. req[q].at = "body" /\ req'[q].at \in {"commit", "backup"}  BY <1>2 DEF LetThrough
  <2>2. req'[q] = req[q] \/ req'[q].at \in {"idle", "body"}  OBVIOUS
  <2> QED  BY <2>1, <2>2
<1> QED  BY <1>1, <1>2 DEF StepSound

LEMMA StoreSame ==
    ASSUME StoreInv, UNCHANGED storeVars
    PROVE  StoreInv'
BY NothingHappened DEF storeVars, StoreInv, StoreOK

LEMMA SessionsSame ==
    ASSUME SessionsOK, PreviewsOK, UNCHANGED <<sessionVars, spent>>
    PROVE  SessionsOK' /\ PreviewsOK'
<1>1. UNCHANGED <<now, expiry, live, scopes, resources, previews, issued, spent>>  BY DEF sessionVars
<1>2. SessionsOK'  BY <1>1 DEF SessionsOK
<1>3. PreviewsOK'  BY <1>1, SessionsAre, PreviewsFewer
<1> QED  BY <1>2, <1>3

LEMMA SessionStepKeeps ==
    ASSUME ConsoleInv, SessionStep
    PROVE  ConsoleInv' /\ StepSound
<1>1. SessionsOK /\ PreviewsOK /\ RequestsOK /\ StoreInv  BY DEF ConsoleInv
<1>2. UNCHANGED <<storeVars, req, spent>>  BY DEF SessionStep, Elsewhere
<1>3. StoreInv'  BY <1>1, <1>2, StoreSame
<1>4. StepSound  BY <1>2, Silent DEF storeVars
<1>5. Len(expiry) \in Nat  BY <1>1, SessionsAre
<1>6. SessionsOK' /\ PreviewsOK' /\ issued' = issued /\ Len(expiry) <= Len(expiry')
  <2>1. CASE Tick
    <3>1. now' = now + 1 /\ now < MaxNow /\ UNCHANGED <<expiry, live, scopes, resources, previews, issued>>
      BY <2>1 DEF Tick
    <3>2. now' \in 0..MaxNow  BY <1>1, <3>1, BoundsAre DEF SessionsOK
    <3>3. SessionsOK'  BY <1>1, <3>1, <3>2 DEF SessionsOK
    <3>4. PreviewsOK'  BY <1>1, <1>2, <1>5, <3>1, PreviewsFewer
    <3> QED  BY <1>5, <3>1, <3>3, <3>4
  <2>2. CASE Unauthorized
    <3>1. Revoked(Outdated) /\ UNCHANGED <<now, expiry, issued, spent>>  BY <1>2, <2>2 DEF Unauthorized
    <3> QED  BY <1>1, <1>5, <3>1, RevokedKeeps
  <2>3. CASE \E p \in live \cup {0} : Len(expiry) < workload.logins /\ Login(p)
    <3>1. PICK p \in live \cup {0} : Login(p)  BY <2>3
    <3> QED  BY <1>1, <1>2, <3>1, LoginKeeps
  <2>4. CASE \E s \in live : Logout(s)
    <3>1. PICK s \in live : Logout(s)  BY <2>4
    <3>2. Revoked(Outdated \cup {s}) /\ UNCHANGED <<now, expiry, issued, spent>>
      BY <1>2, <3>1 DEF Logout
    <3> QED  BY <1>1, <1>5, <3>2, RevokedKeeps
  <2> QED  BY <2>1, <2>2, <2>3, <2>4 DEF SessionStep
<1>7. Len(expiry') \in Nat  BY <1>6, SessionsAre DEF SessionsOK
<1>8. RequestsOK'  BY <1>1, <1>2, <1>5, <1>6, <1>7, RequestsStay
<1> QED  BY <1>3, <1>4, <1>6, <1>8 DEF ConsoleInv

LEMMA OtherStepKeeps ==
    ASSUME ConsoleInv, OtherStep
    PROVE  ConsoleInv' /\ StepSound
<1>1. SessionsOK /\ PreviewsOK /\ RequestsOK /\ StoreInv  BY DEF ConsoleInv
<1>2. Others /\ UNCHANGED <<sessionVars, req, spent>>  BY DEF OtherStep
<1>3. UNCHANGED <<expiry, issued>>  BY <1>2 DEF sessionVars
<1>4. StoreInv'  BY <1>1, <1>2, OthersKeep DEF SessionsOK
<1>5. SessionsOK' /\ PreviewsOK'  BY <1>1, <1>2, SessionsSame
<1>6. RequestsOK'  BY <1>1, <1>2, <1>3, SessionsAre, RequestsStay
<1>7. StepSound  BY <1>2, Silent
<1> QED  BY <1>4, <1>5, <1>6, <1>7 DEF ConsoleInv

LEMMA RestartKeeps ==
    ASSUME ConsoleInv, Restart
    PROVE  ConsoleInv' /\ StepSound
<1>1. SessionsOK /\ PreviewsOK /\ RequestsOK /\ StoreInv  BY DEF ConsoleInv
<1>2. /\ live' = {} /\ scopes' = {} /\ resources' = {} /\ previews' = {}
      /\ UNCHANGED <<now, expiry, issued>> /\ UNCHANGED storeVars /\ UNCHANGED spent
      /\ req' = [q \in Request |-> Idle]
  BY DEF Restart, Cleared
<1>3. StoreInv'  BY <1>1, <1>2, StoreSame
<1>4. SessionsOK'  BY <1>1, <1>2 DEF SessionsOK
<1>5. PreviewsOK'  BY <1>1, <1>2, SessionsAre, PreviewsFewer
<1>6. \A q \in Request : req'[q] = Idle  BY <1>2
<1>7. RequestsOK'
  <2>1. req' = [q \in Request |-> req'[q]]  BY <1>2
  <2>2. \A q \in Request : InFlight(req'[q], issued', Len(expiry'))  BY <1>6 DEF InFlight
  <2>3. spent' \subseteq 1..issued'  BY <1>1, <1>2 DEF RequestsOK
  <2> QED  BY <2>1, <2>2, <2>3 DEF RequestsOK
<1>8. StepSound  BY <1>2, <1>6, IdleIs, Silent DEF storeVars
<1> QED  BY <1>3, <1>4, <1>5, <1>7, <1>8 DEF ConsoleInv

LEMMA DiscoverKeeps ==
    ASSUME ConsoleInv, NEW s \in live, NEW k \in Kind, Discover(s, k)
    PROVE  ConsoleInv' /\ StepSound
<1>1. SessionsOK /\ PreviewsOK /\ RequestsOK /\ StoreInv  BY DEF ConsoleInv
<1>2. /\ scopes' = WithScope(s, k)
      /\ UNCHANGED <<now, expiry, live, resources, previews, issued>>
      /\ UNCHANGED storeVars /\ UNCHANGED <<req, spent>>
  BY DEF Discover, Elsewhere
<1>3. SessionsOK'  BY <1>1, <1>2, ScopesStayGranted DEF SessionsOK
<1>4. PreviewsOK'  BY <1>1, <1>2, SessionsAre, PreviewsFewer
<1>5. RequestsOK'  BY <1>1, <1>2, SessionsAre, RequestsStay
<1>6. StoreInv'  BY <1>1, <1>2, StoreSame
<1>7. StepSound  BY <1>2, Silent DEF storeVars
<1> QED  BY <1>3, <1>4, <1>5, <1>6, <1>7 DEF ConsoleInv

LEMMA ListKeeps ==
    ASSUME ConsoleInv, NEW s \in live, NEW k \in Kind, List(s, k)
    PROVE  ConsoleInv' /\ StepSound
<1>1. SessionsOK /\ PreviewsOK /\ RequestsOK /\ StoreInv  BY DEF ConsoleInv
<1>2. /\ resources' = WithResource(s, k) /\ scopes' = Unexpired(scopes)
      /\ UNCHANGED <<now, expiry, live, previews, issued>>
      /\ UNCHANGED storeVars /\ UNCHANGED <<req, spent>>
  BY DEF List, Elsewhere
<1>3. SessionsOK'
  <2>1. s \in 1..Len(expiry)  BY <1>1, SessionsAre
  <2>2. resources' \subseteq Grant  BY <1>1, <1>2, <2>1, ResourcesStayGranted
  <2>3. scopes' \subseteq scopes  BY <1>2 DEF Unexpired
  <2> QED  BY <1>1, <1>2, <2>2, <2>3 DEF SessionsOK, Grant, Session
<1>4. PreviewsOK'  BY <1>1, <1>2, SessionsAre, PreviewsFewer
<1>5. RequestsOK'  BY <1>1, <1>2, SessionsAre, RequestsStay
<1>6. StoreInv'  BY <1>1, <1>2, StoreSame
<1>7. StepSound  BY <1>2, Silent DEF storeVars
<1> QED  BY <1>3, <1>4, <1>5, <1>6, <1>7 DEF ConsoleInv

LEMMA ArriveKeeps ==
    ASSUME ConsoleInv, NEW q \in Request, NEW s \in live, Arrive(q, s)
    PROVE  ConsoleInv' /\ StepSound
<1> DEFINE r == [at |-> "body", session |-> s]
<1>1. SessionsOK /\ PreviewsOK /\ RequestsOK /\ StoreInv  BY DEF ConsoleInv
<1>2. /\ Revoked(Outdated) /\ req' = [req EXCEPT ![q] = r]
      /\ UNCHANGED <<now, expiry, issued, spent>> /\ UNCHANGED storeVars
  BY DEF Arrive, storeVars
<1>3. SessionsOK' /\ PreviewsOK'  BY <1>1, <1>2, RevokedKeeps
<1>4. r.at = "body" /\ InFlight(r, issued', Len(expiry'))
  BY <1>1, <1>2, SessionsAre DEF InFlight
<1>5. spent' \subseteq 1..issued'  BY <1>1, <1>2 DEF RequestsOK
<1>6. /\ Len(expiry) \in Nat /\ Len(expiry') \in Nat /\ Len(expiry) <= Len(expiry')
      /\ issued \in Nat /\ issued' \in Nat /\ issued <= issued'
  BY <1>1, <1>2, SessionsAre
<1> HIDE DEF r
<1>7. RequestsOK' /\ req'[q] = r /\ \A o \in Request \ {q} : req'[o] = req[o]
  BY <1>1, <1>2, <1>4, <1>5, <1>6, RequestsMove
<1>8. StoreInv'  BY <1>1, <1>2, StoreSame
<1>9. StepSound  BY <1>2, <1>4, <1>7, Silent DEF storeVars
<1> QED  BY <1>3, <1>7, <1>8, <1>9 DEF ConsoleInv

\* A request that is answered without effect.
LEMMA RefusedKeeps ==
    ASSUME ConsoleInv, NEW q \in Request, Answer(q), UNCHANGED <<sessionVars, storeVars, spent>>
    PROVE  ConsoleInv' /\ StepSound
<1>1. SessionsOK /\ PreviewsOK /\ RequestsOK /\ StoreInv  BY DEF ConsoleInv
<1>2. UNCHANGED <<expiry, issued, spent>>  BY DEF sessionVars
<1>3. RequestsOK' /\ req'[q] = Idle /\ \A o \in Request \ {q} : req'[o] = req[o]
  BY <1>1, <1>2, SessionsAre, Answered
<1>4. SessionsOK' /\ PreviewsOK'  BY <1>1, SessionsSame
<1>5. StoreInv'  BY <1>1, StoreSame
<1>6. StepSound  BY <1>3, IdleIs, Silent DEF storeVars
<1> QED  BY <1>3, <1>4, <1>5, <1>6 DEF ConsoleInv

LEMMA IssueKeeps ==
    ASSUME ConsoleInv, NEW q \in Request, NEW op \in Op, IssuePreview(q, op)
    PROVE  ConsoleInv' /\ StepSound
<1> DEFINE s == req[q].session
<1>1. SessionsOK /\ PreviewsOK /\ RequestsOK /\ StoreInv  BY DEF ConsoleInv
<1>2. /\ req[q].at = "body" /\ Resolved(s, op) /\ MayIssue(s)
      /\ issued' = issued + 1 /\ resources' = AlsoIssued(s, op) /\ Answer(q)
      /\ UNCHANGED <<now, expiry, live, scopes>> /\ UNCHANGED storeVars /\ UNCHANGED spent
  BY DEF IssuePreview
<1>3. PICK c \in Preview(op, now) : previews' = WithPreview(s, c)  BY DEF IssuePreview
<1>4. s \in 1..Len(expiry)  BY <1>1, <1>2, BodyIs
<1> HIDE DEF s
<1>5. RowsOK /\ now \in Nat  BY <1>1, SessionsAre DEF StoreInv
<1>6. Faithful(c) /\ c.op = op  BY <1>3, <1>5, PreviewFaithful
<1>7. Scoped(c.op) => s \in live  BY <1>1, <1>2, <1>6, ResolvedIsLive
<1>8. spent \subseteq 1..issued  BY <1>1 DEF RequestsOK
<1>9. PreviewsOK'  BY <1>1, <1>2, <1>3, <1>4, <1>6, <1>7, <1>8, IssuedKeeps
<1>10. issued \in Nat /\ issued' \in 0..MaxIssued /\ issued <= issued' /\ Len(expiry) \in Nat
  BY <1>1, <1>2, SessionsAre, BoundsAre DEF MayIssue, SessionsOK
<1>11. SessionsOK'
  <2>1. resources' \subseteq Grant
    <3>1. "account" \in Kind  BY DEF Kind
    <3>2. WithResource(s, "account") \subseteq Grant  BY <1>1, <1>4, <3>1, ResourcesStayGranted
    <3> QED  BY <1>1, <1>2, <3>2 DEF AlsoIssued, SessionsOK
  <2> QED  BY <1>1, <1>2, <1>10, <2>1 DEF SessionsOK, Grant, Session
<1>12. RequestsOK' /\ req'[q] = Idle /\ \A o \in Request \ {q} : req'[o] = req[o]
  <2>1. InFlight(Idle, issued', Len(expiry'))  BY DEF InFlight
  <2>2. req' = [req EXCEPT ![q] = Idle]  BY <1>2 DEF Answer
  <2>3. issued' \in Nat  BY <1>10, BoundsAre
  <2>4. spent' \subseteq 1..issued'  BY <1>2, <1>8, <1>10, <2>3
  <2>5. Len(expiry') \in Nat /\ Len(expiry) <= Len(expiry')  BY <1>2, <1>10
  <2> QED  BY <1>1, <1>10, <2>1, <2>2, <2>3, <2>4, <2>5, RequestsMove
<1>13. StoreInv'  BY <1>1, <1>2, StoreSame
<1>14. StepSound  BY <1>2, <1>12, IdleIs, Silent DEF storeVars
<1> QED  BY <1>9, <1>11, <1>12, <1>13, <1>14 DEF ConsoleInv

LEMMA ConfirmKeeps ==
    ASSUME ConsoleInv, NEW q \in Request, NEW op \in Op, NEW h \in Handle, Confirm(q, op, h)
    PROVE  ConsoleInv' /\ StepSound
<1> DEFINE s == req[q].session
<1>1. SessionsOK /\ PreviewsOK /\ RequestsOK /\ StoreInv  BY DEF ConsoleInv
<1>2. /\ req[q].at = "body"
      /\ UNCHANGED <<now, expiry, live, scopes, resources, issued>> /\ UNCHANGED storeVars
  BY DEF Confirm
<1>3. PICK p \in Held(h, s) :
         /\ Confirmable(p, op) /\ previews' = Consumed(p, s)
         /\ \/ /\ spent' = spent \cup {h}
               /\ req' = [req EXCEPT ![q] =
                             [at |-> IF op = "backup" THEN "backup" ELSE "commit",
                              session |-> s, handle |-> h, content |-> p.content]]
            \/ Answer(q) /\ spent' = spent
  BY DEF Confirm
<1>4. /\ p \in Fresh(previews) /\ p \in previews /\ p.handle = h /\ p.session = s
      /\ ~p.consumed /\ p.expires > now
  BY <1>3 DEF Held, Fresh, Confirmable
<1>5. p \in PreviewRow(issued, Len(expiry)) /\ Sound(p)  BY <1>1, <1>4 DEF PreviewsOK
<1>6. /\ h \in 1..issued /\ h \notin spent /\ Faithful(p.content)
      /\ Scoped(p.content.op) => s \in live
  BY <1>4, <1>5 DEF PreviewRow, Sound
<1> HIDE DEF s
<1>7. PreviewsOK'
  <2>1. spent' \subseteq spent \cup {h}  BY <1>3
  <2> QED  BY <1>1, <1>2, <1>3, <1>4, <2>1, ConsumedKeeps
<1>8. SessionsOK'  BY <1>1, <1>2 DEF SessionsOK, Grant, Session
<1>9. StoreInv'  BY <1>1, <1>2, StoreSame
<1>10. /\ issued \in Nat /\ issued' \in Nat /\ issued <= issued'
       /\ Len(expiry) \in Nat /\ Len(expiry') \in Nat /\ Len(expiry) <= Len(expiry')
  BY <1>1, <1>2, SessionsAre
<1>11. CASE spent' = spent \cup {h}
            /\ req' = [req EXCEPT ![q] =
                          [at |-> IF op = "backup" THEN "backup" ELSE "commit",
                           session |-> s, handle |-> h, content |-> p.content]]
  <2> DEFINE at == IF op = "backup" THEN "backup" ELSE "commit"
             r == [at |-> at, session |-> s, handle |-> h, content |-> p.content]
  <2>1. /\ r.at \in {"commit", "backup"} /\ r.session = s /\ r.handle = h /\ r.content = p.content
    OBVIOUS
  <2>2. req' = [req EXCEPT ![q] = r]  BY <1>11
  <2> HIDE DEF r
  <2>3. InFlight(r, issued', Len(expiry'))  BY <1>2, <1>6, <2>1 DEF InFlight
  <2>4. spent' \subseteq 1..issued'  BY <1>1, <1>2, <1>6, <1>11 DEF RequestsOK
  <2>5. RequestsOK' /\ req'[q] = r /\ \A o \in Request \ {q} : req'[o] = req[o]
    BY <1>1, <1>10, <2>2, <2>3, <2>4, RequestsMove
  <2>6. StepSound
    <3>1. ASSUME NEW o \in Request, Acts(o)  PROVE FALSE
      BY <1>2, <3>1 DEF Acts, storeVars
    <3>2. ASSUME NEW o \in Request, LetThrough(o)
          PROVE  /\ req'[o].handle \notin spent
                 /\ \E x \in previews : x.handle = req'[o].handle /\ x.expires > now
                 /\ Scoped(req'[o].content.op) => req'[o].session \in live
      <4>1. req[o].at = "body" /\ req'[o].at \in {"commit", "backup"}  BY <3>2 DEF LetThrough
      <4>2. o = q  BY <2>5, <4>1
      <4>3. req'[o].handle = h /\ req'[o].content = p.content /\ req'[o].session = s
        BY <2>1, <2>5, <4>2
      <4>4. \E x \in previews : x.handle = h /\ x.expires > now  BY <1>4
      <4> QED  BY <1>6, <4>3, <4>4
    <3> QED  BY <3>1, <3>2 DEF StepSound
  <2> QED  BY <1>7, <1>8, <1>9, <2>5, <2>6 DEF ConsoleInv
<1>12. CASE Answer(q) /\ spent' = spent
  <2>1. RequestsOK' /\ req'[q] = Idle /\ \A o \in Request \ {q} : req'[o] = req[o]
    BY <1>1, <1>2, <1>10, <1>12, Answered
  <2>2. StepSound  BY <1>2, <2>1, IdleIs, Silent DEF storeVars
  <2> QED  BY <1>7, <1>8, <1>9, <2>1, <2>2 DEF ConsoleInv
<1> QED  BY <1>3, <1>11, <1>12

\* A request acts and is answered: what is left to show is about the rows.
LEMMA ActedKeeps ==
    ASSUME ConsoleInv, NEW q \in Request, Answer(q), UNCHANGED <<sessionVars, spent>>, StoreInv',
           Acts(q) => LET c == req[q].content
                      IN  /\ c \in Preview(c.op, c.at)
                          /\ c.op \in {"approve", "reject", "expire"} => ReviewConfirmed(c)
                          /\ c.op = "apply" => ApplicationConfirmed(c)
                          /\ c.op = "rollback" => RollbackConfirmed(c)
    PROVE  ConsoleInv' /\ StepSound
<1>1. SessionsOK /\ PreviewsOK /\ RequestsOK /\ StoreInv  BY DEF ConsoleInv
<1>2. UNCHANGED <<expiry, issued, spent>>  BY DEF sessionVars
<1>3. RequestsOK' /\ req'[q] = Idle /\ \A o \in Request \ {q} : req'[o] = req[o]
  BY <1>1, <1>2, SessionsAre, Answered
<1>4. SessionsOK' /\ PreviewsOK'  BY <1>1, SessionsSame
<1>5. ASSUME NEW o \in Request, Acts(o)  PROVE o = q
  <2>1. req[o].at = "commit" /\ req'[o] = Idle  BY <1>5 DEF Acts
  <2> QED  BY <1>3, <2>1, IdleIs
<1>6. ASSUME NEW o \in Request, LetThrough(o)  PROVE FALSE
  <2>1. req[o].at = "body" /\ req'[o].at \in {"commit", "backup"}  BY <1>6 DEF LetThrough
  <2> QED  BY <1>3, <2>1, IdleIs
<1>7. StepSound
  <2> SUFFICES ASSUME NEW o \in Request, Acts(o)
               PROVE  LET c == req[o].content
                      IN  /\ c \in Preview(c.op, c.at)
                          /\ c.op \in {"approve", "reject", "expire"} => ReviewConfirmed(c)
                          /\ c.op = "apply" => ApplicationConfirmed(c)
                          /\ c.op = "rollback" => RollbackConfirmed(c)
    BY <1>6, Zenon DEF StepSound
  <2>1. o = q  BY <1>5
  <2> QED  BY <2>1
<1> QED  BY <1>3, <1>4, <1>7 DEF ConsoleInv

LEMMA CarriedIs ==
    ASSUME RequestsOK, NEW q \in Request, req[q].at = "commit"
    PROVE  Faithful(req[q].content)
<1>1. InFlight(req[q], issued, Len(expiry))  BY DEF RequestsOK
<1> QED  BY <1>1, IdleIs DEF InFlight

LEMMA CommitKeeps ==
    ASSUME ConsoleInv, NEW q \in Request, Commit(q)
    PROVE  ConsoleInv' /\ StepSound
<1> DEFINE c == req[q].content
<1>1. SessionsOK /\ PreviewsOK /\ RequestsOK /\ StoreInv  BY DEF ConsoleInv
<1>2. /\ req[q].at = "commit" /\ c.op \notin {"retention", "handoff"} /\ Effective(c) /\ Effect(c)
      /\ Answer(q) /\ UNCHANGED <<sessionVars, spent>>
  BY DEF Commit
<1>3. Faithful(c)  BY <1>1, <1>2, CarriedIs
<1> HIDE DEF c
<1>4. now \in 0..MaxNow  BY <1>1 DEF SessionsOK
<1>5. StoreInv'  BY <1>1, <1>2, <1>3, <1>4, EffectKeeps
<1>6. c.op # "backup"  BY <1>2 DEF Effect
<1>7. c \in Preview(c.op, c.at)
  <2>1. Expected(c)  BY <1>2 DEF Effective
  <2> QED  BY <1>2, <1>3, <1>6, <2>1, ExpectedIsPreview
<1>8. /\ c.op \in {"approve", "reject", "expire"} => ReviewConfirmed(c)
      /\ c.op = "apply" => ApplicationConfirmed(c)
      /\ c.op = "rollback" => RollbackConfirmed(c)
  BY <1>1, <1>2, <1>3, <1>4, EffectReported
<1> QED  BY <1>2, <1>5, <1>7, <1>8, ActedKeeps DEF c

LEMMA RetentionKeeps ==
    ASSUME ConsoleInv, NEW q \in Request, CommitRetention(q)
    PROVE  ConsoleInv' /\ StepSound
<1> DEFINE c == req[q].content
<1>1. SessionsOK /\ PreviewsOK /\ RequestsOK /\ StoreInv  BY DEF ConsoleInv
<1>2. /\ c.op = "retention" /\ Answer(q) /\ UNCHANGED <<sessionVars, spent>>
      /\ UNCHANGED <<cli, handoff, workload>>
      /\ IF c \in PreviewRetention(c.at) THEN Purged(c.body) ELSE UNCHANGED <<row, store>>
  BY DEF CommitRetention, sessionVars
<1> HIDE DEF c
<1>3. CASE c \in PreviewRetention(c.at)
  <2>1. c.body = Plan(c.at)  BY <1>3 DEF PreviewRetention
  <2>2. StoreInv'  BY <1>1, <1>2, <1>3, <2>1, PurgedKeeps DEF Untouched
  <2>3. c \in Preview(c.op, c.at)  BY <1>2, <1>3 DEF Preview
  <2> QED  BY <1>2, <2>2, <2>3, ActedKeeps DEF c
<1>4. CASE c \notin PreviewRetention(c.at)
  <2>1. UNCHANGED storeVars  BY <1>2, <1>4 DEF storeVars
  <2> QED  BY <1>2, <2>1, RefusedKeeps
<1> QED  BY <1>3, <1>4

LEMMA BackupKeeps ==
    ASSUME ConsoleInv, NEW q \in Request, BackupDone(q)
    PROVE  ConsoleInv' /\ StepSound
<1>1. /\ req[q].at = "backup" /\ Answer(q) /\ UNCHANGED <<sessionVars, spent>>
      /\ RowBecomes("backup", "verified") \/ UNCHANGED storeVars
  BY DEF BackupDone
<1>2. "backup" \in Kind \ {"memory"} /\ Proper("backup", "verified")  BY DEF Kind, Proper, RowState
<1>3. StoreInv'  BY <1>1, <1>2, OtherRowBecomes, StoreSame DEF ConsoleInv
<1>4. ~Acts(q)  BY <1>1 DEF Acts
<1> QED  BY <1>1, <1>3, <1>4, ActedKeeps

LEMMA HandoffKeeps ==
    ASSUME ConsoleInv, NEW q \in Request, CommitHandoff(q)
    PROVE  ConsoleInv' /\ StepSound
<1>1. SessionsOK /\ PreviewsOK /\ RequestsOK /\ StoreInv  BY DEF ConsoleInv
<1>2. /\ req[q].at = "commit" /\ Answer(q) /\ UNCHANGED <<sessionVars, spent>>
      /\ handoff' = IF handoff = 0 THEN req[q].content.ver ELSE handoff
      /\ UNCHANGED <<row, store, cli, workload>>
  BY DEF CommitHandoff, sessionVars
<1>3. req[q].content.ver \in Nat  BY <1>1, <1>2, CarriedIs DEF Faithful, Content
<1>4. StoreInv'  BY <1>1, <1>2, <1>3 DEF StoreInv, RowsOK, StoreOK, EvidenceKept, ChatPins, RawPins
<1>5. ~Acts(q)  BY <1>2 DEF Acts
<1> QED  BY <1>2, <1>4, <1>5, ActedKeeps

LEMMA ConsoleStep ==
    ASSUME ConsoleInv, [Next]_vars
    PROVE  ConsoleInv' /\ StepSound
<1> USE DEF Kind
<1>1. CASE SessionStep  BY <1>1, SessionStepKeeps
<1>2. CASE OtherStep  BY <1>2, OtherStepKeeps
<1>3. CASE Restart  BY <1>3, RestartKeeps
<1>4. ASSUME NEW s \in live,
             \/ DiscoverMemory(s) \/ DiscoverReviews(s) \/ DiscoverPrivacy(s)
             \/ DiscoverPolicy(s) \/ DiscoverProfiles(s)
      PROVE  ConsoleInv' /\ StepSound
  <2>1. \E k \in Kind : Discover(s, k)
    BY <1>4 DEF DiscoverMemory, DiscoverReviews, DiscoverPrivacy, DiscoverPolicy, DiscoverProfiles
  <2> QED  BY <2>1, DiscoverKeeps
<1>5. ASSUME NEW s \in live, ListMemory(s) \/ ListReviews(s) \/ ListProfiles(s)
      PROVE  ConsoleInv' /\ StepSound
  <2>1. \E k \in Kind : List(s, k)  BY <1>5 DEF ListMemory, ListReviews, ListProfiles
  <2> QED  BY <2>1, ListKeeps
<1>6. ASSUME NEW q \in Request, NEW s \in live, Arrive(q, s)
      PROVE  ConsoleInv' /\ StepSound
  BY <1>6, ArriveKeeps
<1>7. ASSUME NEW q \in Request,
             \/ BadBody(q) \/ CommitStale(q)
             \/ \E op \in Op : PreviewRefused(q, op)
             \/ \E op \in Op, h \in Handle : ConfirmRefused(q, op, h)
      PROVE  ConsoleInv' /\ StepSound
  <2>1. Answer(q) /\ UNCHANGED <<sessionVars, storeVars, spent>>
    BY <1>7 DEF BadBody, CommitStale, PreviewRefused, ConfirmRefused
  <2> QED  BY <2>1, RefusedKeeps
<1>8. ASSUME NEW q \in Request, NEW op \in Op, IssuePreview(q, op)
      PROVE  ConsoleInv' /\ StepSound
  BY <1>8, IssueKeeps
<1>9. ASSUME NEW q \in Request, NEW op \in Op, NEW h \in Handle, Confirm(q, op, h)
      PROVE  ConsoleInv' /\ StepSound
  BY <1>9, ConfirmKeeps
<1>10. ASSUME NEW q \in Request,
              Commit(q) \/ CommitRetention(q) \/ BackupDone(q) \/ CommitHandoff(q)
       PROVE  ConsoleInv' /\ StepSound
  BY <1>10, CommitKeeps, RetentionKeeps, BackupKeeps, HandoffKeeps
<1>11. CASE UNCHANGED vars
  <2>1. UNCHANGED <<sessionVars, spent>> /\ UNCHANGED storeVars /\ UNCHANGED req  BY <1>11 DEF vars
  <2>2. UNCHANGED <<expiry, issued>>  BY <2>1 DEF sessionVars
  <2>3. SessionsOK' /\ PreviewsOK'  BY <2>1, SessionsSame DEF ConsoleInv
  <2>4. RequestsOK'  BY <2>1, <2>2, SessionsAre, RequestsStay DEF ConsoleInv
  <2>5. StoreInv'  BY <2>1, StoreSame DEF ConsoleInv
  <2>6. StepSound  BY <2>1, Silent DEF storeVars
  <2> QED  BY <2>3, <2>4, <2>5, <2>6 DEF ConsoleInv
<1> QED
  BY <1>1, <1>2, <1>3, <1>4, <1>5, <1>6, <1>7, <1>8, <1>9, <1>10, <1>11, Zenon DEF Next

LEMMA ConsoleBegins == Init => ConsoleInv
<1> SUFFICES ASSUME Init  PROVE ConsoleInv  OBVIOUS
<1>1. /\ now = 0 /\ expiry = << >> /\ live = {}
      /\ scopes = {} /\ resources = {} /\ previews = {} /\ issued = 0
      /\ req = [q \in Request |-> Idle] /\ spent = {}
      /\ StoreInit
  BY DEF Init, SessionsInit
<1>2. SessionsOK
  <2>1. << >> \in Seq(0..(MaxNow + SessionTtl)) /\ Len(<< >>) = 0  OBVIOUS
  <2> QED  BY <1>1, <2>1, BoundsAre DEF SessionsOK
<1>3. PreviewsOK
  <2>1. IsFiniteSet({}) /\ Cardinality({}) = 0  BY FS_EmptySet
  <2>2. \A s \in Nat : ActiveOf({}, s) = {} /\ SpentOf({}, s) = {}  BY DEF ActiveOf, Active, SpentOf
  <2>3. Bounded({})  BY <2>1, <2>2, BoundsAre DEF Bounded
  <2> QED  BY <1>1, <2>1, <2>3 DEF PreviewsOK, Distinct
<1>4. RequestsOK  BY <1>1 DEF RequestsOK, InFlight
<1>5. StoreInv
  <2>1. /\ workload \in Workloads
        /\ row = [memory |-> RowOf(workload.memory, 1), privacy |-> RowOf("opted_in", 0),
                  policy |-> RowOf("disabled", 0), profile |-> RowOf("named", 1),
                  account |-> RowOf("active", 1), proposal |-> RowOf("pending_review", 1),
                  backup |-> RowOf("none", 0)]
        /\ store = [at |-> 0, chat |-> TRUE, raw |-> TRUE, pin |-> workload.pin]
        /\ cli = "none" /\ handoff = 0
    BY <1>1 DEF StoreInit
  <2>2. workload.memory \in MemoryState \ {"purged"} /\ workload.pin \in Pin
    BY <2>1, GovernanceStoreAssumption DEF GovernanceStoreAssumption
  <2>3. RowsOK
    <3>1. \A k \in Kind : /\ row[k] = RowOf(row[k].state, row[k].ver)
                          /\ row[k].ver \in Nat /\ Proper(k, row[k].state)
      BY <2>1, <2>2 DEF Kind, Proper, RowState, RowOf
    <3>2. row = [k \in Kind |-> row[k]]  BY <2>1 DEF Kind
    <3>3. row = [k \in Kind |-> RowOf(row[k].state, row[k].ver)]
      <4> HIDE DEF RowOf
      <4> QED  BY <3>1, <3>2
    <3> QED  BY <3>1, <3>3 DEF RowsOK
  <2>4. StoreOK  BY <2>1, <2>2, BoundsAre DEF StoreOK, Decision
  <2>5. EvidenceKept
    <3>1. store.chat /\ store.raw  BY <2>1
    <3>2. row.memory.state # "purged"  BY <2>1, <2>2 DEF RowOf
    <3> QED  BY <3>1, <3>2 DEF EvidenceKept
  <2> QED  BY <2>3, <2>4, <2>5 DEF StoreInv
<1> QED  BY <1>2, <1>3, <1>4, <1>5 DEF ConsoleInv

LEMMA ConsoleAlways == Spec => []ConsoleInv
<1>1. ConsoleInv /\ [Next]_vars => ConsoleInv'  BY ConsoleStep
<1> QED  BY ConsoleBegins, <1>1, PTL DEF Spec

LEMMA InvIsSound == ConsoleInv => HandlesSound /\ EvidenceKept
<1> SUFFICES ASSUME ConsoleInv  PROVE HandlesSound /\ EvidenceKept  OBVIOUS
<1>1. SessionsOK /\ PreviewsOK /\ RequestsOK /\ StoreInv  BY DEF ConsoleInv
<1>2. \A p \in previews : p \in PreviewRow(issued, Len(expiry)) /\ Sound(p)
  BY <1>1 DEF PreviewsOK
<1>3. SessionsTypeOK(Content)
  <2>1. previews \subseteq PreviewRow(issued, Len(expiry))  BY <1>1 DEF PreviewsOK
  <2> QED  BY <1>1, <2>1 DEF SessionsTypeOK, SessionsOK, PreviewRow
<1>4. StoreTypeOK  BY <1>1, StoreTyped DEF StoreInv
<1>5. TypeOK
  <2>1. DOMAIN req = Request /\ spent \subseteq 1..issued  BY <1>1 DEF RequestsOK
  <2>2. ASSUME NEW q \in Request
        PROVE  \/ req[q] = Idle
               \/ req[q].at = "body" /\ req[q].session \in 1..Len(expiry)
               \/ /\ req[q].at \in {"commit", "backup"}
                  /\ req[q].handle \in 1..issued /\ req[q].content \in Content
    BY <1>1 DEF RequestsOK, InFlight, Faithful
  <2> QED  BY <1>3, <1>4, <2>1, <2>2 DEF TypeOK
<1>6. PreviewsBounded
  <2>1. \A s \in 1..Len(expiry) : s \in Nat  BY <1>1, SessionsAre
  <2> QED  BY <1>1, <2>1 DEF PreviewsBounded, PreviewsOK, Bounded
<1>7. HandlesDieWithSession
  BY <1>1, <1>2 DEF HandlesDieWithSession, SessionsOK, Sound
<1> QED  BY <1>1, <1>5, <1>6, <1>7 DEF HandlesSound, StoreInv

(***************************************************************************)
(* The theorems.                                                            *)
(***************************************************************************)

(* The handles in memory are bounded and belong to sessions that live, for  *)
(* any number of sessions, requests, handles and operations in any order    *)
(* (governance-preview-handle-registry.ts; governance-http-server.ts,       *)
(* removeSession).                                                          *)
THEOREM HandlesStaySound == Spec => []HandlesSound
<1>1. ConsoleInv => HandlesSound  BY InvIsSound
<1> QED  BY ConsoleAlways, <1>1, PTL

(* Retention never takes evidence that is needed, for any retention days,   *)
(* any workload and any other writer between preview and confirmation       *)
(* (sqlite-maintenance.ts planRetentionPolicy).                             *)
THEOREM EvidenceIsKept == Spec => []EvidenceKept
<1>1. ConsoleInv => EvidenceKept  BY InvIsSound
<1> QED  BY ConsoleAlways, <1>1, PTL

(* An operation takes effect as previewed, once, under a live session, and  *)
(* is reported, for any requests and any other writers                      *)
(* (governance-authorized-handler.ts; service.ts).                          *)
THEOREM EffectsAreConfirmed == Spec => EffectsConfirmed
<1>1. ConsoleInv /\ [Next]_vars =>
        [\A q \in Request : Acts(q) => req[q].content \in Preview(req[q].content.op, req[q].content.at)]_vars
  BY ConsoleStep DEF StepSound
<1>2. ConsoleInv /\ [Next]_vars =>
        [\A q \in Request : Acts(q) =>
            LET c == req[q].content
            IN  /\ c.op \in {"approve", "reject", "expire"} => ReviewConfirmed(c)
                /\ c.op = "apply" => ApplicationConfirmed(c)
                /\ c.op = "rollback" => RollbackConfirmed(c)]_vars
  BY ConsoleStep DEF StepSound
<1>3. ConsoleInv /\ [Next]_vars => [\A q \in Request : LetThrough(q) => req'[q].handle \notin spent]_vars
  BY ConsoleStep DEF StepSound
<1>4. ConsoleInv /\ [Next]_vars =>
        [\A q \in Request : LetThrough(q) =>
            /\ \E p \in previews : p.handle = req'[q].handle /\ p.expires > now
            /\ Scoped(req'[q].content.op) => req'[q].session \in live]_vars
  BY ConsoleStep DEF StepSound
<1> QED
  BY <1>1, <1>2, <1>3, <1>4, ConsoleAlways, PTL
  DEF Spec, EffectsConfirmed, EffectMatchesPreview, OneEffectPerPreview, AuthorityIsLive,
      DecisionsAreReported

-----------------------------------------------------------------------------
(***************************************************************************)
(* The page in the browser (GovernanceBrowser).                            *)
(***************************************************************************)

\* The fields of a page, and that only those of F differ between two of them.
PageFields == {"page", "csrf", "loginBusy", "logoutBusy", "overview", "calls", "pane", "load",
               "catalog", "scope", "list", "sel", "detail", "detailLoading", "wf", "prefs"}
Changes(u, v, F) == DOMAIN v = PageFields /\ \A x \in PageFields \ F : v[x] = u[x]

Channels == {"login", "session", "logout", "overview", "catalog", "list", "detail", "preview",
             "confirm"}
Key(c) == <<c.chan, c.of>>

\* What an answer carries; D is what the server has done.
AnswerOK(c, D) ==
    /\ c.chan = "catalog" => c.data \subseteq Scopes
    /\ c.chan = "list" /\ c.of \in Panes =>
          \A e \in c.data : e \in Shows /\ e.ref \in PaneItems(c.of) /\ Home[e.ref] = c.on
    /\ c.chan = "list" /\ c.of = "privacy" => \E x \in Shows : c.data = {x}
    /\ c.chan \in {"detail", "preview"} => \E x \in Shows : c.data = {x}
    /\ c.chan = "confirm" => [by |-> c.of, ref |-> c.on, rev |-> c.rev + 1] \in D

\* A request: its channel, what it asks for, and, once answered, what the answer carries.
CallOK(c, D) ==
    /\ c = [chan |-> c.chan, of |-> c.of, on |-> c.on, rev |-> c.rev, live |-> c.live,
            status |-> c.status, data |-> c.data]
    /\ c.chan \in Channels /\ c.on \in OnPage /\ c.rev \in Nat /\ c.live \in BOOLEAN
    /\ c.status \in {"sent", "ok"}
    /\ c.chan \in {"catalog", "list"} => c.of \in Panes \cup {"privacy"}
    /\ c.chan = "overview" => c.of = None
    /\ c.chan = "detail" => c.of \in Panes
    /\ c.chan \in {"preview", "confirm"} => c.of \in Workflows
    /\ c.chan \in {"detail", "preview", "confirm"} => c.on \in Items \cup Scopes
    /\ c.chan = "list" /\ c.of = "privacy" => c.on \in Items \cup Scopes
    /\ c.status = "ok" => AnswerOK(c, D)

CallsOK(S, D) == \A c \in S : CallOK(c, D)

\* No two requests of one channel are live.
Single(S) == \A c, d \in S : c.live /\ d.live /\ c.chan = d.chan /\ c.of = d.of => c = d

\* T is S after the channels of C were passed.
PassedTo(S, C, T) ==
    /\ \A c \in T : c.live => c \in S /\ Key(c) \notin C
    /\ \A c \in S : c.live /\ Key(c) \notin C => c \in T

\* The request that "fetch" sends.
NewCall(chan, of, on, rev) ==
    [chan |-> chan, of |-> of, on |-> on, rev |-> rev, live |-> TRUE, status |-> "sent", data |-> {}]

\* T is S after a request has left.
SentTo(S, n, T) ==
    /\ n \in T
    /\ \A c \in T : c.live => c = n \/ (c \in S /\ Key(c) # Key(n))
    /\ \A c \in S : c.live /\ Key(c) # Key(n) => c \in T

\* A request after the number of its channel has moved.
Passing(c, C) == IF <<c.chan, c.of>> \in C THEN [c EXCEPT !.live = FALSE] ELSE c

\* Records with a field replaced, for the provers.
LEMMA CallExcept ==
  ASSUME NEW a, NEW b, NEW c, NEW d, NEW e, NEW f, NEW g, NEW h
  PROVE  [[chan |-> a, of |-> b, on |-> c, rev |-> d, live |-> e, status |-> f, data |-> g]
             EXCEPT !.live = h]
           = [chan |-> a, of |-> b, on |-> c, rev |-> d, live |-> h, status |-> f, data |-> g]
OBVIOUS

LEMMA CallPassed ==
  ASSUME NEW c, NEW h,
         c = [chan |-> c.chan, of |-> c.of, on |-> c.on, rev |-> c.rev, live |-> c.live,
              status |-> c.status, data |-> c.data]
  PROVE  [c EXCEPT !.live = h]
           = [chan |-> c.chan, of |-> c.of, on |-> c.on, rev |-> c.rev, live |-> h,
              status |-> c.status, data |-> c.data]
BY CallExcept

\* A passed request is still a request, and no longer awaited.
LEMMA PassingFacts ==
  ASSUME NEW c, NEW C, NEW D, CallOK(c, D)
  PROVE  /\ CallOK(Passing(c, C), D)
         /\ Passing(c, C).live => Passing(c, C) = c /\ Key(c) \notin C
         /\ c.live /\ Key(c) \notin C => Passing(c, C) = c
<1> DEFINE d == [c EXCEPT !.live = FALSE]
<1>7. d = [chan |-> c.chan, of |-> c.of, on |-> c.on, rev |-> c.rev, live |-> FALSE,
           status |-> c.status, data |-> c.data]
  BY CallPassed, Zenon DEF CallOK
<1>1. /\ d.chan = c.chan /\ d.of = c.of /\ d.on = c.on /\ d.rev = c.rev /\ d.live = FALSE
      /\ d.status = c.status /\ d.data = c.data
  BY <1>7
<1>2. Passing(c, C) = IF Key(c) \in C THEN d ELSE c
  BY DEF Passing, Key
<1> HIDE DEF d
<1>3. CallOK(d, D)
  BY <1>1, <1>7 DEF CallOK, AnswerOK
<1>4. QED
  BY <1>1, <1>2, <1>3

\* What "++requestSequence" changes: the requests of the channels, nothing else.
LEMMA BumpSequenceFacts ==
  ASSUME NEW u, DOMAIN u = PageFields, NEW C, NEW D, CallsOK(u.calls, D), Single(u.calls)
  PROVE  /\ Changes(u, BumpSequence(u, C), {"calls"})
         /\ PassedTo(u.calls, C, BumpSequence(u, C).calls)
         /\ CallsOK(BumpSequence(u, C).calls, D) /\ Single(BumpSequence(u, C).calls)
<1> DEFINE T == {Passing(c, C) : c \in u.calls}
<1>1. Changes(u, BumpSequence(u, C), {"calls"}) /\ BumpSequence(u, C).calls = T
  BY DEF BumpSequence, Changes, PageFields, Passing
<1>2. CallsOK(T, D)
  BY PassingFacts DEF CallsOK
<1>3. PassedTo(u.calls, C, T)
  BY PassingFacts DEF CallsOK, PassedTo
<1>4. Single(T)
  BY <1>3 DEF Single, PassedTo
<1>5. QED
  BY <1>1, <1>2, <1>3, <1>4

\* What a request that leaves changes: it is the only one awaited on its channel.
LEMMA SendFacts ==
  ASSUME NEW u, DOMAIN u = PageFields, NEW D, CallsOK(u.calls, D), Single(u.calls),
         NEW chan, NEW of, NEW on, NEW rev, CallOK(NewCall(chan, of, on, rev), D)
  PROVE  LET v == Send(u, chan, of, on, rev)
         IN  /\ Changes(u, v, {"calls"})
             /\ SentTo(u.calls, NewCall(chan, of, on, rev), v.calls)
             /\ CallsOK(v.calls, D) /\ Single(v.calls)
<1> DEFINE n == NewCall(chan, of, on, rev)
           b == BumpSequence(u, {<<chan, of>>})
           v == Send(u, chan, of, on, rev)
<1>1. n.live /\ n.chan = chan /\ n.of = of /\ Key(n) = <<chan, of>>
  BY DEF NewCall, Key
<1>2. /\ Changes(u, b, {"calls"}) /\ PassedTo(u.calls, {<<chan, of>>}, b.calls)
      /\ CallsOK(b.calls, D) /\ Single(b.calls)
  BY BumpSequenceFacts
<1>3. v = [b EXCEPT !.calls = @ \cup {n}]
  BY DEF Send, NewCall
<1> HIDE DEF b, n, v
<1>4. Changes(u, v, {"calls"}) /\ v.calls = b.calls \cup {n}
  BY <1>2, <1>3 DEF Changes, PageFields
<1>5. SentTo(u.calls, n, v.calls)
  BY <1>1, <1>2, <1>4 DEF SentTo, PassedTo
<1>6. CallsOK(v.calls, D)
  BY <1>2, <1>4 DEF CallsOK, n
<1>7. Single(v.calls)
  BY <1>1, <1>2, <1>4 DEF Single, PassedTo, Key
<1>8. QED
  BY <1>4, <1>5, <1>6, <1>7 DEF v, n

\* The page a request belongs to, and what its answer is awaited by.
Fits(u, c) ==
    /\ c.chan = "overview" => u.page = "overview"
    /\ c.chan \in {"catalog", "list", "detail"} /\ c.of \in Panes => u.page = "memory" /\ c.of = u.pane
    /\ c.chan = "list" /\ c.of \in Panes => c.on = u.scope[u.pane]
    /\ c.chan \in {"catalog", "list"} /\ c.of = "privacy" => u.page = "privacy"
    /\ c.chan = "detail" => u.detail = None
    /\ c.chan = "preview" => u.wf[c.of].loading
    /\ c.chan = "confirm" => u.wf[c.of].busy
    /\ c.chan = "preview" /\ c.of = "change" => u.prefs.scope \in {c.on, None}

\* Every awaited request fits the page.
AllFit(u) == \A c \in u.calls : c.live => Fits(u, c)

\* An authority to confirm; a workflow of a detail; the Privacy view.
Authority == [on : Items \cup Scopes, rev : Nat, due : BOOLEAN]
Flow == [loading : BOOLEAN, auth : Authority \cup {None}, busy : BOOLEAN,
         result : Shows \cup {None}]
Preferences == [catalog : SUBSET Scopes, scope : Scopes \cup {None}, shown : Shows \cup {None},
                load : {"none", "scopes", "list"}, off : BOOLEAN]

\* The types of the page.
Typed(u) ==
    /\ DOMAIN u = PageFields
    /\ u.page \in {"login", "overview", "memory", "privacy"} /\ u.overview \in {"loading", "settled"}
    /\ u.csrf \in BOOLEAN /\ u.loginBusy \in BOOLEAN /\ u.logoutBusy \in BOOLEAN
    /\ u.pane \in Panes /\ u.load \in {"none", "scopes", "list"} /\ u.detailLoading \in BOOLEAN
    /\ u.catalog \in [Panes -> SUBSET Scopes] /\ u.scope \in [Panes -> Scopes \cup {None}]
    /\ \A x \in Panes : u.scope[x] \in u.catalog[x] \cup {None}
    /\ u.list \subseteq Shows /\ u.sel \in Items \cup {None} /\ u.detail \in Shows \cup {None}
    /\ u.wf \in [Workflows -> Flow]
    /\ u.prefs \in Preferences /\ u.prefs.scope \in u.prefs.catalog \cup {None}

\* The rows of the chosen scope, and the detail of the row that was clicked.
PageRowsOK(u) ==
    /\ \A e \in u.list : e.ref \in PaneItems(u.pane) /\ Home[e.ref] = u.scope[u.pane]
    /\ u.detail # None => Row(u) = {u.detail}
    /\ u.page # "memory" => u.list = {} /\ u.detail = None
    /\ u.page # "privacy" => u.prefs.shown = None

\* A workflow that is asked for, under way or ready to be confirmed.
Engaged(f) == f.loading \/ f.busy \/ f.auth # None

\* Where a workflow is under way, for what, and what it says it has done.
FlowsOK(u, D) ==
    /\ \A w \in MemoryWorkflows : u.wf[w] # IdleFlow => u.page = "memory" /\ w \in OfPane(u.pane)
    /\ u.wf["change"] # IdleFlow => u.page = "privacy"
    /\ \A w \in Workflows : u.wf[w].auth # None => ~u.wf[w].loading /\ ~u.wf[w].busy
    /\ \A w \in Workflows : ~(u.wf[w].loading /\ u.wf[w].busy)
    /\ \A w \in MemoryWorkflows :
          u.wf[w].auth # None => Current(u, u.wf[w].auth) /\ u.detail.st \in From(w)
    /\ u.wf["change"].auth # None => u.prefs.scope \in {u.wf["change"].auth.on, None}
    /\ \A w, x \in MemoryWorkflows : Engaged(u.wf[w]) /\ Engaged(u.wf[x]) => w = x
    /\ \A w \in Workflows : u.wf[w].result # None =>
          [by |-> w, ref |-> u.wf[w].result.ref, rev |-> u.wf[w].result.rev] \in D

\* What holds of the page after every step of a handler, before its waits are restored.
PageSound(u, D) ==
    Typed(u) /\ CallsOK(u.calls, D) /\ Single(u.calls) /\ AllFit(u) /\ PageRowsOK(u) /\ FlowsOK(u, D)

\* What a preview or a confirmation waits for is on its way ...
FlowWaits(u) ==
    \A w \in Workflows : /\ u.wf[w].loading => Live(u, "preview", w)
                         /\ u.wf[w].busy => Live(u, "confirm", w)
\* ... a detail ...
DetailWaits(u) == u.page = "memory" /\ u.detailLoading => Live(u, "detail", u.pane)

\* ... and a view.
LoadWaits(u) ==
    /\ u.page = "memory" => /\ u.load = "scopes" => Live(u, "catalog", u.pane)
                            /\ u.load = "list" => Live(u, "list", u.pane)
    /\ u.page = "privacy" => /\ u.prefs.load = "scopes" => Live(u, "catalog", "privacy")
                             /\ u.prefs.load = "list" => Live(u, "list", "privacy")

\* No answer for the Memory view is awaited but the one it waits for.
Backed(u) ==
    /\ \A c \in u.calls : c.live /\ c.of \in Panes =>
          /\ c.chan = "catalog" => u.load = "scopes"
          /\ c.chan = "list" => u.load = "list"
    /\ u.load # "none" => u.list = {}

\* What holds of the page between two events.
PageInv(u, D) == PageSound(u, D) /\ Backed(u) /\ FlowWaits(u) /\ DetailWaits(u) /\ LoadWaits(u)

LEMMA WorkflowFacts ==
  /\ MemoryWorkflows = {"forget", "restore", "approve", "reject", "apply", "rollback", "expire"}
  /\ Workflows = MemoryWorkflows \cup {"change"} /\ "change" \notin MemoryWorkflows
  /\ \A p \in Panes : OfPane(p) \subseteq MemoryWorkflows
BY DEF MemoryWorkflows, Workflows, OfPane, Panes

\* What an idle workflow is.
LEMMA IdleFacts ==
  /\ IdleFlow.loading = FALSE /\ IdleFlow.auth = None /\ IdleFlow.busy = FALSE /\ IdleFlow.result = None
  /\ ~Engaged(IdleFlow) /\ IdleFlow \in Flow
BY DEF IdleFlow, Engaged, Flow

\* An idle workflow that may show a result.
LEMMA ResultExcept ==
  ASSUME NEW a, NEW b, NEW c, NEW d, NEW e
  PROVE  [[loading |-> a, auth |-> b, busy |-> c, result |-> d] EXCEPT !.result = e]
           = [loading |-> a, auth |-> b, busy |-> c, result |-> e]
OBVIOUS

LEMMA WithResult ==
  ASSUME NEW r
  PROVE  [IdleFlow EXCEPT !.result = r] = [loading |-> FALSE, auth |-> None, busy |-> FALSE, result |-> r]
<1> DEFINE no == FALSE
<1>1. IdleFlow = [loading |-> no, auth |-> None, busy |-> no, result |-> None]
  BY DEF IdleFlow
<1> HIDE DEF no
<1>2. [IdleFlow EXCEPT !.result = r] = [loading |-> no, auth |-> None, busy |-> no, result |-> r]
  BY <1>1, ResultExcept
<1>3. QED
  BY <1>2 DEF no

LEMMA ResultFacts ==
  ASSUME NEW r \in Shows \cup {None}
  PROVE  LET f == [IdleFlow EXCEPT !.result = r]
         IN  f.loading = FALSE /\ f.auth = None /\ f.busy = FALSE /\ f.result = r /\ f \in Flow
             /\ ~Engaged(f) /\ (r = None => f = IdleFlow)
<1> DEFINE f == [IdleFlow EXCEPT !.result = r]
<1>1. f = [loading |-> FALSE, auth |-> None, busy |-> FALSE, result |-> r]
  BY WithResult
<1>2. r = None => f = IdleFlow
  BY <1>1 DEF IdleFlow
<1>3. QED
  BY <1>1, <1>2 DEF Engaged, Flow

\* What clearing leaves of a workflow.
FlowCleared(g, f, keep) ==
    /\ g.loading = FALSE /\ g.auth = None /\ g.busy = FALSE /\ ~Engaged(g)
    /\ g.result = IF keep THEN f.result ELSE None
    /\ g = IdleFlow \/ f # IdleFlow
    /\ ~keep => g = IdleFlow
    /\ g \in Flow

LEMMA ClearedFacts ==
  ASSUME NEW f \in Flow, NEW keep \in BOOLEAN
  PROVE  FlowCleared([IdleFlow EXCEPT !.result = IF keep THEN f.result ELSE None], f, keep)
<1> DEFINE r == IF keep THEN f.result ELSE None
           g == [IdleFlow EXCEPT !.result = r]
<1>1. r \in Shows \cup {None}
  BY DEF Flow
<1>2. g.loading = FALSE /\ g.auth = None /\ g.busy = FALSE /\ g.result = r /\ g \in Flow
      /\ ~Engaged(g) /\ (r = None => g = IdleFlow)
  BY <1>1, ResultFacts
<1> HIDE DEF g
<1>3. g = IdleFlow \/ f # IdleFlow
  BY <1>2, IdleFacts
<1>4. FlowCleared(g, f, keep)
  BY <1>2, <1>3 DEF FlowCleared
<1>5. QED
  BY <1>4 DEF g

Clearing(W) == {"preview", "confirm"} \X W

LEMMA KeyIn ==
  ASSUME NEW c, NEW W
  PROVE  Key(c) \in Clearing(W) <=> c.chan \in {"preview", "confirm"} /\ c.of \in W
BY DEF Key, Clearing

\* Live is a matter of the live calls.
LEMMA StaysLive ==
  ASSUME NEW u, NEW v, NEW C, PassedTo(u.calls, C, v.calls), NEW chan, NEW of,
         Live(u, chan, of), <<chan, of>> \notin C
  PROVE  Live(v, chan, of)
BY DEF Live, PassedTo, Key

\* clear(): the workflows of W are idle, and no preview or confirmation of theirs is awaited.
LEMMA ClearWorkflowsFacts ==
  ASSUME NEW u, NEW W \in SUBSET Workflows, NEW keep \in BOOLEAN, NEW D, PageSound(u, D)
  PROVE  LET v == ClearWorkflows(u, W, keep)
         IN  /\ Changes(u, v, {"calls", "wf"})
             /\ PassedTo(u.calls, Clearing(W), v.calls)
             /\ CallsOK(v.calls, D) /\ Single(v.calls)
             /\ v.wf \in [Workflows -> Flow]
             /\ \A w \in W : FlowCleared(v.wf[w], u.wf[w], keep)
             /\ \A w \in Workflows \ W : v.wf[w] = u.wf[w]
<1> DEFINE b == BumpSequence(u, Clearing(W))
           wf == [w \in Workflows |-> IF w \in W
                    THEN [IdleFlow EXCEPT !.result = IF keep THEN u.wf[w].result ELSE None]
                    ELSE u.wf[w]]
           v == ClearWorkflows(u, W, keep)
<1>1. DOMAIN u = PageFields /\ u.wf \in [Workflows -> Flow]
  BY DEF PageSound, Typed
<1>2. /\ Changes(u, b, {"calls"}) /\ PassedTo(u.calls, Clearing(W), b.calls)
      /\ CallsOK(b.calls, D) /\ Single(b.calls)
  BY <1>1, BumpSequenceFacts DEF PageSound
<1>3. v = [b EXCEPT !.wf = wf]
  BY DEF ClearWorkflows, Clearing
<1>4. \A w \in W : FlowCleared(wf[w], u.wf[w], keep)
  BY <1>1, ClearedFacts
<1>5. \A w \in Workflows \ W : wf[w] = u.wf[w]
  OBVIOUS
<1>6. wf \in [Workflows -> Flow]
  <2>1. ASSUME NEW w \in Workflows PROVE wf[w] \in Flow
    BY <1>1, <1>4, <1>5 DEF FlowCleared
  <2>2. wf = [w \in Workflows |-> wf[w]]
    OBVIOUS
  <2> HIDE DEF wf
  <2>3. QED
    BY <2>1, <2>2
<1> HIDE DEF b, v, wf
<1>7. Changes(u, v, {"calls", "wf"}) /\ v.wf = wf /\ v.calls = b.calls
  BY <1>2, <1>3 DEF Changes, PageFields
<1>8. QED
  BY <1>2, <1>4, <1>5, <1>6, <1>7 DEF v

\* Clearing keeps what holds of a page.
LEMMA ClearWorkflowsSound ==
  ASSUME NEW u, NEW W \in SUBSET Workflows, NEW keep \in BOOLEAN, NEW D, PageSound(u, D)
  PROVE  LET v == ClearWorkflows(u, W, keep)
         IN  /\ PageSound(v, D)
             /\ FlowWaits(u) => FlowWaits(v)
             /\ DetailWaits(u) => DetailWaits(v)
             /\ LoadWaits(u) => LoadWaits(v)
             /\ Backed(u) => Backed(v)
<1> DEFINE v == ClearWorkflows(u, W, keep)
<1>1. /\ Changes(u, v, {"calls", "wf"})
      /\ PassedTo(u.calls, Clearing(W), v.calls)
      /\ CallsOK(v.calls, D) /\ Single(v.calls)
      /\ v.wf \in [Workflows -> Flow]
      /\ \A w \in W : FlowCleared(v.wf[w], u.wf[w], keep)
      /\ \A w \in Workflows \ W : v.wf[w] = u.wf[w]
  BY ClearWorkflowsFacts
<1> HIDE DEF v
<1>2. /\ v.page = u.page /\ v.pane = u.pane /\ v.load = u.load /\ v.scope = u.scope /\ v.list = u.list
      /\ v.sel = u.sel /\ v.detail = u.detail /\ v.detailLoading = u.detailLoading /\ v.prefs = u.prefs
      /\ v.csrf = u.csrf /\ v.loginBusy = u.loginBusy /\ v.logoutBusy = u.logoutBusy
      /\ v.overview = u.overview /\ v.catalog = u.catalog /\ DOMAIN v = PageFields
  BY <1>1 DEF Changes, PageFields
<1>3. Typed(v)
  BY <1>1, <1>2 DEF PageSound, Typed
<1>4. \A w \in Workflows : v.wf[w] = u.wf[w] \/ FlowCleared(v.wf[w], u.wf[w], keep)
  BY <1>1
<1>5. AllFit(v)
  <2> SUFFICES ASSUME NEW c \in v.calls, c.live PROVE Fits(v, c)
    BY DEF AllFit
  <2>1. c \in u.calls /\ Key(c) \notin Clearing(W)
    BY <1>1 DEF PassedTo
  <2>2. Fits(u, c) /\ CallOK(c, D)
    BY <2>1 DEF PageSound, AllFit, CallsOK
  <2>3. c.chan \in {"preview", "confirm"} => c.of \in Workflows \ W
    BY <2>1, <2>2, KeyIn DEF CallOK
  <2>4. c.chan \in {"preview", "confirm"} => v.wf[c.of] = u.wf[c.of]
    BY <1>1, <2>3
  <2>5. QED
    BY <2>2, <2>4, <1>2 DEF Fits
<1>6. PageRowsOK(v)
  BY <1>2 DEF PageSound, PageRowsOK, Row
<1>7. FlowsOK(v, D)
  <2>1. \A w \in Workflows : v.wf[w] # IdleFlow => u.wf[w] # IdleFlow
    BY <1>4 DEF FlowCleared
  <2>2. \A w \in Workflows : v.wf[w].auth # None => v.wf[w] = u.wf[w]
    BY <1>4 DEF FlowCleared
  <2>3. \A w \in Workflows : Engaged(v.wf[w]) => v.wf[w] = u.wf[w]
    BY <1>4 DEF FlowCleared
  <2>4. \A w \in Workflows : v.wf[w].result # None => v.wf[w].result = u.wf[w].result
    BY <1>4 DEF FlowCleared
  <2>5. \A a : Current(u, a) => Current(v, a)
    BY <1>2 DEF Current, Row
  <2>6. FlowsOK(u, D)
    BY DEF PageSound
  <2> USE WorkflowFacts
  <2>7. \A w \in MemoryWorkflows : v.wf[w] # IdleFlow => v.page = "memory" /\ w \in OfPane(v.pane)
    BY <2>1, <2>6, <1>2 DEF FlowsOK
  <2>8. v.wf["change"] # IdleFlow => v.page = "privacy"
    BY <2>1, <2>6, <1>2 DEF FlowsOK
  <2>9. \A w \in Workflows : v.wf[w].auth # None => ~v.wf[w].loading /\ ~v.wf[w].busy
    BY <2>2, <2>6 DEF FlowsOK
  <2>10. \A w \in MemoryWorkflows :
            v.wf[w].auth # None => Current(v, v.wf[w].auth) /\ v.detail.st \in From(w)
    BY <2>2, <2>5, <2>6, <1>2 DEF FlowsOK
  <2>11. v.wf["change"].auth # None => v.prefs.scope \in {v.wf["change"].auth.on, None}
    BY <2>2, <2>6, <1>2 DEF FlowsOK
  <2>12. \A w, x \in MemoryWorkflows : Engaged(v.wf[w]) /\ Engaged(v.wf[x]) => w = x
    BY <2>3, <2>6 DEF FlowsOK
  <2>13. \A w \in Workflows : v.wf[w].result # None =>
            [by |-> w, ref |-> v.wf[w].result.ref, rev |-> v.wf[w].result.rev] \in D
    BY <2>4, <2>6 DEF FlowsOK
  <2>14. \A w \in Workflows : ~(v.wf[w].loading /\ v.wf[w].busy)
    BY <1>4, <2>6 DEF FlowsOK, FlowCleared
  <2>15. QED
    BY <2>7, <2>8, <2>9, <2>10, <2>11, <2>12, <2>13, <2>14 DEF FlowsOK
<1>8. ASSUME FlowWaits(u) PROVE FlowWaits(v)
  <2> SUFFICES ASSUME NEW w \in Workflows
               PROVE  /\ v.wf[w].loading => Live(v, "preview", w)
                      /\ v.wf[w].busy => Live(v, "confirm", w)
    BY DEF FlowWaits
  <2>1. CASE w \in W
    BY <1>1, <2>1 DEF FlowCleared
  <2>2. CASE w \notin W
    <3>1. v.wf[w] = u.wf[w] /\ <<"preview", w>> \notin Clearing(W) /\ <<"confirm", w>> \notin Clearing(W)
      BY <1>1, <2>2 DEF Clearing
    <3>2. QED
      BY <3>1, <1>1, <1>8, StaysLive DEF FlowWaits
  <2>3. QED
    BY <2>1, <2>2
<1>9. \A chan, of : chan \notin {"preview", "confirm"} /\ Live(u, chan, of) => Live(v, chan, of)
  <2> TAKE chan, of
  <2> HAVE chan \notin {"preview", "confirm"} /\ Live(u, chan, of)
  <2>1. <<chan, of>> \notin Clearing(W)
    BY DEF Clearing
  <2>2. QED
    BY <1>1, <2>1, StaysLive
<1>10. DetailWaits(u) => DetailWaits(v)
  BY <1>2, <1>9 DEF DetailWaits
<1>11. LoadWaits(u) => LoadWaits(v)
  BY <1>2, <1>9 DEF LoadWaits
<1>12. Backed(u) => Backed(v)
  BY <1>1, <1>2 DEF Backed, PassedTo
<1>13. QED
  BY <1>1, <1>3, <1>5, <1>6, <1>7, <1>8, <1>10, <1>11, <1>12 DEF PageSound, v

(* Changes of a page, one field or a few at a time. *)

\* What only the shell reads.
LEMMA ShellChange ==
  ASSUME NEW u, NEW v, NEW D, PageSound(u, D),
         Changes(u, v, {"csrf", "loginBusy", "logoutBusy", "overview"}),
         v.csrf \in BOOLEAN, v.loginBusy \in BOOLEAN, v.logoutBusy \in BOOLEAN,
         v.overview \in {"loading", "settled"}
  PROVE  /\ PageSound(v, D)
         /\ FlowWaits(u) => FlowWaits(v)
         /\ DetailWaits(u) => DetailWaits(v)
         /\ LoadWaits(u) => LoadWaits(v)
         /\ Backed(u) => Backed(v)
<1>1. /\ v.page = u.page /\ v.pane = u.pane /\ v.load = u.load /\ v.scope = u.scope /\ v.list = u.list
      /\ v.sel = u.sel /\ v.detail = u.detail /\ v.detailLoading = u.detailLoading /\ v.prefs = u.prefs
      /\ v.catalog = u.catalog /\ v.wf = u.wf /\ v.calls = u.calls /\ DOMAIN v = PageFields
  BY DEF Changes, PageFields
<1>2. Typed(v)
  BY <1>1 DEF PageSound, Typed
<1>3. AllFit(v)
  BY <1>1 DEF PageSound, AllFit, Fits
<1>4. PageRowsOK(v)
  BY <1>1 DEF PageSound, PageRowsOK, Row
<1>5. FlowsOK(v, D)
  BY <1>1 DEF PageSound, FlowsOK, Current, Row
<1>6. PageSound(v, D)
  BY <1>1, <1>2, <1>3, <1>4, <1>5 DEF PageSound
<1>7. QED
  BY <1>1, <1>6 DEF FlowWaits, DetailWaits, LoadWaits, Backed, Live

\* The rows and the detail, while the pane has no authority.
LEMMA RowsChange ==
  ASSUME NEW u, NEW v, NEW D, PageSound(u, D),
         Changes(u, v, {"list", "sel", "detail", "detailLoading"}),
         v.list \subseteq Shows, v.sel \in Items \cup {None}, v.detail \in Shows \cup {None},
         v.detailLoading \in BOOLEAN, PageRowsOK(v),
         \A w \in OfPane(u.pane) : u.wf[w].auth = None,
         v.detail # None => \A c \in u.calls : c.live => c.chan # "detail"
  PROVE  /\ PageSound(v, D)
         /\ FlowWaits(u) => FlowWaits(v)
         /\ LoadWaits(u) => LoadWaits(v)
         /\ Backed(u) /\ (u.load # "none" => v.list = {}) => Backed(v)
<1>1. /\ v.page = u.page /\ v.pane = u.pane /\ v.load = u.load /\ v.scope = u.scope
      /\ v.csrf = u.csrf /\ v.loginBusy = u.loginBusy /\ v.logoutBusy = u.logoutBusy
      /\ v.overview = u.overview /\ v.prefs = u.prefs
      /\ v.catalog = u.catalog /\ v.wf = u.wf /\ v.calls = u.calls /\ DOMAIN v = PageFields
  BY DEF Changes, PageFields
<1>2. Typed(v)
  BY <1>1 DEF PageSound, Typed
<1>3. AllFit(v)
  BY <1>1 DEF PageSound, AllFit, Fits
<1>4. FlowsOK(v, D)
  <2>1. \A w \in MemoryWorkflows : v.wf[w].auth = None
    BY <1>1, IdleFacts DEF PageSound, FlowsOK
  <2>2. FlowsOK(u, D)
    BY DEF PageSound
  <2>3. QED
    BY <1>1, <2>1, <2>2 DEF FlowsOK
<1>5. PageSound(v, D)
  BY <1>1, <1>2, <1>3, <1>4 DEF PageSound
<1>6. QED
  BY <1>1, <1>5 DEF FlowWaits, LoadWaits, Backed, Live

\* How far the Memory view has loaded.
LEMMA LoadChange ==
  ASSUME NEW u, NEW v, NEW D, PageSound(u, D), Changes(u, v, {"load"}),
         v.load \in {"none", "scopes", "list"}
  PROVE  /\ PageSound(v, D)
         /\ FlowWaits(u) => FlowWaits(v)
         /\ DetailWaits(u) => DetailWaits(v)
<1>1. /\ v.page = u.page /\ v.pane = u.pane /\ v.scope = u.scope /\ v.list = u.list
      /\ v.sel = u.sel /\ v.detail = u.detail /\ v.detailLoading = u.detailLoading /\ v.prefs = u.prefs
      /\ v.csrf = u.csrf /\ v.loginBusy = u.loginBusy /\ v.logoutBusy = u.logoutBusy
      /\ v.overview = u.overview
      /\ v.catalog = u.catalog /\ v.wf = u.wf /\ v.calls = u.calls /\ DOMAIN v = PageFields
  BY DEF Changes, PageFields
<1>2. Typed(v)
  BY <1>1 DEF PageSound, Typed
<1>3. AllFit(v)
  BY <1>1 DEF PageSound, AllFit, Fits
<1>4. PageRowsOK(v)
  BY <1>1 DEF PageSound, PageRowsOK, Row
<1>5. FlowsOK(v, D)
  BY <1>1 DEF PageSound, FlowsOK, Current, Row
<1>6. PageSound(v, D)
  BY <1>1, <1>2, <1>3, <1>4, <1>5 DEF PageSound
<1>7. QED
  BY <1>1, <1>6 DEF FlowWaits, DetailWaits, Live

\* The scopes and the chosen one, while no rows are shown or awaited.
LEMMA ScopeChange ==
  ASSUME NEW u, NEW v, NEW D, PageSound(u, D), Changes(u, v, {"catalog", "scope"}),
         v.catalog \in [Panes -> SUBSET Scopes], v.scope \in [Panes -> Scopes \cup {None}],
         \A x \in Panes : v.scope[x] \in v.catalog[x] \cup {None},
         u.list = {},
         \A c \in u.calls : c.live /\ c.of \in Panes => c.chan # "list"
  PROVE  /\ PageSound(v, D)
         /\ FlowWaits(u) => FlowWaits(v)
         /\ DetailWaits(u) => DetailWaits(v)
         /\ LoadWaits(u) => LoadWaits(v)
         /\ Backed(u) => Backed(v)
<1>1. /\ v.page = u.page /\ v.pane = u.pane /\ v.load = u.load /\ v.list = u.list
      /\ v.sel = u.sel /\ v.detail = u.detail /\ v.detailLoading = u.detailLoading /\ v.prefs = u.prefs
      /\ v.csrf = u.csrf /\ v.loginBusy = u.loginBusy /\ v.logoutBusy = u.logoutBusy
      /\ v.overview = u.overview
      /\ v.wf = u.wf /\ v.calls = u.calls /\ DOMAIN v = PageFields
  BY DEF Changes, PageFields
<1>2. Typed(v)
  BY <1>1 DEF PageSound, Typed
<1>3. AllFit(v)
  BY <1>1 DEF PageSound, AllFit, Fits
<1>4. PageRowsOK(v)
  BY <1>1 DEF PageSound, PageRowsOK, Row
<1>5. FlowsOK(v, D)
  BY <1>1 DEF PageSound, FlowsOK, Current, Row
<1>6. PageSound(v, D)
  BY <1>1, <1>2, <1>3, <1>4, <1>5 DEF PageSound
<1>7. QED
  BY <1>1, <1>6 DEF FlowWaits, DetailWaits, LoadWaits, Backed, Live

\* The Privacy view.
LEMMA PrefsChange ==
  ASSUME NEW u, NEW v, NEW D, PageSound(u, D), Changes(u, v, {"prefs"}),
         v.prefs \in Preferences, v.prefs.scope \in v.prefs.catalog \cup {None},
         u.page # "privacy" => v.prefs.shown = None,
         \/ v.prefs.scope \in {u.prefs.scope, None}
         \/ /\ u.wf["change"].auth = None
            /\ \A c \in u.calls : c.live /\ c.chan = "preview" => c.of # "change"
  PROVE  /\ PageSound(v, D)
         /\ FlowWaits(u) => FlowWaits(v)
         /\ DetailWaits(u) => DetailWaits(v)
         /\ LoadWaits(u) /\ (v.prefs.load = u.prefs.load \/ u.page # "privacy") => LoadWaits(v)
         /\ Backed(u) => Backed(v)
<1>1. /\ v.page = u.page /\ v.pane = u.pane /\ v.load = u.load /\ v.scope = u.scope /\ v.list = u.list
      /\ v.sel = u.sel /\ v.detail = u.detail /\ v.detailLoading = u.detailLoading
      /\ v.csrf = u.csrf /\ v.loginBusy = u.loginBusy /\ v.logoutBusy = u.logoutBusy
      /\ v.overview = u.overview
      /\ v.catalog = u.catalog /\ v.wf = u.wf /\ v.calls = u.calls /\ DOMAIN v = PageFields
  BY DEF Changes, PageFields
<1>2. Typed(v)
  BY <1>1 DEF PageSound, Typed
<1>3. AllFit(v)
  BY <1>1 DEF PageSound, AllFit, Fits
<1>4. PageRowsOK(v)
  BY <1>1 DEF PageSound, PageRowsOK, Row
<1>5. FlowsOK(v, D)
  BY <1>1 DEF PageSound, FlowsOK, Current, Row
<1>6. PageSound(v, D)
  BY <1>1, <1>2, <1>3, <1>4, <1>5 DEF PageSound
<1>7. QED
  BY <1>1, <1>6 DEF FlowWaits, DetailWaits, LoadWaits, Backed, Live

\* A view or pane that has nothing under way is left for another.
LEMMA PageChange ==
  ASSUME NEW u, NEW v, NEW D, PageSound(u, D), Changes(u, v, {"page", "pane"}),
         v.page \in {"login", "overview", "memory", "privacy"}, v.pane \in Panes,
         v.page # "overview" => \A c \in u.calls : c.live => c.chan # "overview",
         (v.page # "memory" \/ v.pane # u.pane) =>
            /\ u.list = {} /\ u.detail = None
            /\ \A w \in MemoryWorkflows : u.wf[w] = IdleFlow
            /\ \A c \in u.calls : c.live /\ c.chan \in {"catalog", "list", "detail"} => c.of \notin Panes,
         v.page # "privacy" =>
            /\ u.prefs.shown = None /\ u.wf["change"] = IdleFlow
            /\ \A c \in u.calls : c.live /\ c.chan \in {"catalog", "list"} => c.of # "privacy"
  PROVE  /\ PageSound(v, D)
         /\ FlowWaits(u) => FlowWaits(v)
         /\ Backed(u) => Backed(v)
<1>1. /\ v.load = u.load /\ v.scope = u.scope /\ v.list = u.list
      /\ v.sel = u.sel /\ v.detail = u.detail /\ v.detailLoading = u.detailLoading /\ v.prefs = u.prefs
      /\ v.csrf = u.csrf /\ v.loginBusy = u.loginBusy /\ v.logoutBusy = u.logoutBusy
      /\ v.overview = u.overview
      /\ v.catalog = u.catalog /\ v.wf = u.wf /\ v.calls = u.calls /\ DOMAIN v = PageFields
  BY DEF Changes, PageFields
<1>2. Typed(v)
  BY <1>1 DEF PageSound, Typed
<1>3. AllFit(v)
  <2> SUFFICES ASSUME NEW c \in v.calls, c.live PROVE Fits(v, c)
    BY DEF AllFit
  <2>1. Fits(u, c) /\ CallOK(c, D)
    BY <1>1 DEF PageSound, AllFit, CallsOK
  <2>2. QED
    BY <1>1, <2>1 DEF Fits, CallOK
<1>4. PageRowsOK(v)
  BY <1>1 DEF PageSound, PageRowsOK, Row
<1>5. FlowsOK(v, D)
  BY <1>1, IdleFacts DEF PageSound, FlowsOK, Current, Row
<1>6. PageSound(v, D)
  BY <1>1, <1>2, <1>3, <1>4, <1>5 DEF PageSound
<1>7. QED
  BY <1>1, <1>6 DEF FlowWaits, Backed, Live

\* Requests are passed.
LEMMA PassChange ==
  ASSUME NEW u, NEW v, NEW D, PageSound(u, D), Changes(u, v, {"calls"}), NEW C,
         PassedTo(u.calls, C, v.calls), CallsOK(v.calls, D), Single(v.calls)
  PROVE  /\ PageSound(v, D)
         /\ Backed(u) => Backed(v)
<1>1. /\ v.page = u.page /\ v.pane = u.pane /\ v.load = u.load /\ v.scope = u.scope /\ v.list = u.list
      /\ v.sel = u.sel /\ v.detail = u.detail /\ v.detailLoading = u.detailLoading /\ v.prefs = u.prefs
      /\ v.csrf = u.csrf /\ v.loginBusy = u.loginBusy /\ v.logoutBusy = u.logoutBusy
      /\ v.overview = u.overview
      /\ v.catalog = u.catalog /\ v.wf = u.wf /\ DOMAIN v = PageFields
  BY DEF Changes, PageFields
<1>2. Typed(v)
  BY <1>1 DEF PageSound, Typed
<1>3. AllFit(v)
  BY <1>1 DEF PageSound, AllFit, Fits, PassedTo
<1>4. PageRowsOK(v)
  BY <1>1 DEF PageSound, PageRowsOK, Row
<1>5. FlowsOK(v, D)
  BY <1>1 DEF PageSound, FlowsOK, Current, Row
<1>6. PageSound(v, D)
  BY <1>1, <1>2, <1>3, <1>4, <1>5 DEF PageSound
<1>7. QED
  BY <1>1, <1>6 DEF Backed, PassedTo

\* A request that fits the page leaves.
LEMMA SendChange ==
  ASSUME NEW u, NEW v, NEW D, PageSound(u, D), Changes(u, v, {"calls"}), NEW n,
         SentTo(u.calls, n, v.calls), CallsOK(v.calls, D), Single(v.calls), Fits(u, n)
  PROVE  PageSound(v, D)
<1>1. /\ v.page = u.page /\ v.pane = u.pane /\ v.load = u.load /\ v.scope = u.scope /\ v.list = u.list
      /\ v.sel = u.sel /\ v.detail = u.detail /\ v.detailLoading = u.detailLoading /\ v.prefs = u.prefs
      /\ v.csrf = u.csrf /\ v.loginBusy = u.loginBusy /\ v.logoutBusy = u.logoutBusy
      /\ v.overview = u.overview
      /\ v.catalog = u.catalog /\ v.wf = u.wf /\ DOMAIN v = PageFields
  BY DEF Changes, PageFields
<1>2. Typed(v)
  BY <1>1 DEF PageSound, Typed
<1>3. AllFit(v)
  <2>1. ASSUME NEW c, Fits(u, c) PROVE Fits(v, c)
    BY <1>1, <2>1 DEF Fits
  <2>2. QED
    BY <2>1 DEF PageSound, AllFit, SentTo
<1>4. PageRowsOK(v)
  BY <1>1 DEF PageSound, PageRowsOK, Row
<1>5. FlowsOK(v, D)
  BY <1>1 DEF PageSound, FlowsOK, Current, Row
<1>6. QED
  BY <1>1, <1>2, <1>3, <1>4, <1>5 DEF PageSound

\* A workflow goes on.
LEMMA FlowChange ==
  ASSUME NEW u, NEW v, NEW D, PageSound(u, D), Changes(u, v, {"wf"}), NEW w \in Workflows,
         v.wf[w] \in Flow, v.wf \in [Workflows -> Flow],
         \A x \in Workflows \ {w} : v.wf[x] = u.wf[x],
         \A c \in u.calls : c.live /\ c.of = w => /\ c.chan = "preview" => v.wf[w].loading
                                                  /\ c.chan = "confirm" => v.wf[w].busy,
         w \in MemoryWorkflows /\ v.wf[w] # IdleFlow => u.page = "memory" /\ w \in OfPane(u.pane),
         w = "change" /\ v.wf[w] # IdleFlow => u.page = "privacy",
         ~(v.wf[w].loading /\ v.wf[w].busy),
         v.wf[w].auth # None =>
            /\ ~v.wf[w].loading /\ ~v.wf[w].busy
            /\ w \in MemoryWorkflows => Current(u, v.wf[w].auth) /\ u.detail.st \in From(w)
            /\ w = "change" => u.prefs.scope \in {v.wf[w].auth.on, None},
         Engaged(v.wf[w]) /\ w \in MemoryWorkflows =>
            \A x \in MemoryWorkflows \ {w} : ~Engaged(u.wf[x]),
         v.wf[w].result # None =>
            [by |-> w, ref |-> v.wf[w].result.ref, rev |-> v.wf[w].result.rev] \in D
  PROVE  /\ PageSound(v, D)
         /\ DetailWaits(u) => DetailWaits(v)
         /\ LoadWaits(u) => LoadWaits(v)
         /\ Backed(u) => Backed(v)
<1>1. /\ v.page = u.page /\ v.pane = u.pane /\ v.load = u.load /\ v.scope = u.scope /\ v.list = u.list
      /\ v.sel = u.sel /\ v.detail = u.detail /\ v.detailLoading = u.detailLoading /\ v.prefs = u.prefs
      /\ v.csrf = u.csrf /\ v.loginBusy = u.loginBusy /\ v.logoutBusy = u.logoutBusy
      /\ v.overview = u.overview
      /\ v.catalog = u.catalog /\ v.calls = u.calls /\ DOMAIN v = PageFields
  BY DEF Changes, PageFields
<1>2. Typed(v)
  BY <1>1 DEF PageSound, Typed
<1>3. AllFit(v)
  <2> SUFFICES ASSUME NEW c \in v.calls, c.live PROVE Fits(v, c)
    BY DEF AllFit
  <2>1. Fits(u, c) /\ CallOK(c, D)
    BY <1>1 DEF PageSound, AllFit, CallsOK
  <2>2. c.chan = "preview" => v.wf[c.of].loading
    BY <1>1, <2>1 DEF Fits, CallOK
  <2>3. c.chan = "confirm" => v.wf[c.of].busy
    BY <1>1, <2>1 DEF Fits, CallOK
  <2>4. QED
    BY <1>1, <2>1, <2>2, <2>3 DEF Fits
<1>4. PageRowsOK(v)
  BY <1>1 DEF PageSound, PageRowsOK, Row
<1>5. FlowsOK(v, D)
  <2> USE WorkflowFacts
  <2>1. FlowsOK(u, D)
    BY DEF PageSound
  <2>2. \A a : Current(u, a) => Current(v, a)
    BY <1>1 DEF Current, Row
  <2>7. \A x \in MemoryWorkflows : v.wf[x] # IdleFlow => v.page = "memory" /\ x \in OfPane(v.pane)
    BY <2>1, <1>1 DEF FlowsOK
  <2>8. v.wf["change"] # IdleFlow => v.page = "privacy"
    BY <2>1, <1>1 DEF FlowsOK
  <2>9. \A x \in Workflows : v.wf[x].auth # None => ~v.wf[x].loading /\ ~v.wf[x].busy
    BY <2>1 DEF FlowsOK
  <2>10. \A x \in MemoryWorkflows :
            v.wf[x].auth # None => Current(v, v.wf[x].auth) /\ v.detail.st \in From(x)
    BY <2>1, <2>2, <1>1 DEF FlowsOK
  <2>11. v.wf["change"].auth # None => v.prefs.scope \in {v.wf["change"].auth.on, None}
    BY <2>1, <1>1 DEF FlowsOK
  <2>12. \A x, y \in MemoryWorkflows : Engaged(v.wf[x]) /\ Engaged(v.wf[y]) => x = y
    BY <2>1 DEF FlowsOK
  <2>13. \A x \in Workflows : v.wf[x].result # None =>
            [by |-> x, ref |-> v.wf[x].result.ref, rev |-> v.wf[x].result.rev] \in D
    BY <2>1 DEF FlowsOK
  <2>14. \A x \in Workflows : ~(v.wf[x].loading /\ v.wf[x].busy)
    BY <2>1 DEF FlowsOK
  <2>15. QED
    BY <2>7, <2>8, <2>9, <2>10, <2>11, <2>12, <2>13, <2>14 DEF FlowsOK
<1>6. PageSound(v, D)
  BY <1>1, <1>2, <1>3, <1>4, <1>5 DEF PageSound
<1>7. QED
  BY <1>1, <1>6 DEF DetailWaits, LoadWaits, Backed, Live

(* The functions of the page. *)

LEMMA ChangesTwice ==
  ASSUME NEW u, NEW v, NEW w, NEW F, NEW G, Changes(u, v, F), Changes(v, w, G)
  PROVE  Changes(u, w, F \cup G)
BY DEF Changes

LEMMA PassedTwice ==
  ASSUME NEW S, NEW T, NEW U, NEW B, NEW C, PassedTo(S, B, T), PassedTo(T, C, U)
  PROVE  PassedTo(S, B \cup C, U)
BY DEF PassedTo

\* Passing requests keeps a sound page sound ...
LEMMA BumpSound ==
  ASSUME NEW u, NEW C, NEW D, PageSound(u, D)
  PROVE  LET v == BumpSequence(u, C)
         IN  /\ Changes(u, v, {"calls"}) /\ PassedTo(u.calls, C, v.calls)
             /\ PageSound(v, D)
             /\ Backed(u) => Backed(v)
<1>1. DOMAIN u = PageFields /\ CallsOK(u.calls, D) /\ Single(u.calls)
  BY DEF PageSound, Typed
<1>2. /\ Changes(u, BumpSequence(u, C), {"calls"}) /\ PassedTo(u.calls, C, BumpSequence(u, C).calls)
      /\ CallsOK(BumpSequence(u, C).calls, D) /\ Single(BumpSequence(u, C).calls)
  BY <1>1, BumpSequenceFacts
<1>3. QED
  BY <1>2, PassChange

\* Waits that C does not pass.
LEMMA PassedWaits ==
  ASSUME NEW u, NEW v, NEW C, Changes(u, v, {"calls"}), PassedTo(u.calls, C, v.calls)
  PROVE  /\ FlowWaits(u) /\ C \cap Clearing(Workflows) = {} => FlowWaits(v)
         /\ DetailWaits(u) /\ <<"detail", u.pane>> \notin C => DetailWaits(v)
         /\ LoadWaits(u) /\ C \cap ({"catalog", "list"} \X (Panes \cup {"privacy"})) = {}
              /\ u.pane \in Panes => LoadWaits(v)
<1>1. /\ v.page = u.page /\ v.pane = u.pane /\ v.load = u.load /\ v.wf = u.wf
      /\ v.detailLoading = u.detailLoading /\ v.prefs = u.prefs
  BY DEF Changes, PageFields
<1>2. ASSUME FlowWaits(u), C \cap Clearing(Workflows) = {} PROVE FlowWaits(v)
  <2> SUFFICES ASSUME NEW w \in Workflows
               PROVE  /\ v.wf[w].loading => Live(v, "preview", w)
                      /\ v.wf[w].busy => Live(v, "confirm", w)
    BY DEF FlowWaits
  <2>1. <<"preview", w>> \notin C /\ <<"confirm", w>> \notin C
    BY <1>2 DEF Clearing
  <2>2. QED
    BY <1>1, <1>2, <2>1, StaysLive DEF FlowWaits
<1>3. ASSUME DetailWaits(u), <<"detail", u.pane>> \notin C PROVE DetailWaits(v)
  BY <1>1, <1>3, StaysLive DEF DetailWaits
<1>4. ASSUME LoadWaits(u), C \cap ({"catalog", "list"} \X (Panes \cup {"privacy"})) = {},
             u.pane \in Panes
      PROVE  LoadWaits(v)
  <2>1. \A x \in {"catalog", "list"}, y \in Panes \cup {"privacy"} : Live(u, x, y) => Live(v, x, y)
    <3> TAKE x \in {"catalog", "list"}, y \in Panes \cup {"privacy"}
    <3>1. <<x, y>> \notin C
      BY <1>4
    <3>2. QED
      BY <3>1, StaysLive
  <2>2. QED
    BY <1>1, <1>4, <2>1 DEF LoadWaits
<1>5. QED
  BY <1>2, <1>3, <1>4

\* ... and so does a request that fits the page.
LEMMA SendSound ==
  ASSUME NEW u, NEW D, PageSound(u, D), NEW chan \in Channels, NEW of, NEW on \in OnPage, NEW rev \in Nat,
         chan \in {"catalog", "list"} => of \in Panes \cup {"privacy"},
         chan = "detail" => of \in Panes,
         chan \in {"preview", "confirm"} => of \in Workflows,
         chan \in {"detail", "preview", "confirm"} => on \in Items \cup Scopes,
         chan = "list" /\ of = "privacy" => on \in Items \cup Scopes,
         chan = "overview" => of = None /\ u.page = "overview",
         chan \in {"catalog", "list", "detail"} /\ of \in Panes => u.page = "memory" /\ of = u.pane,
         chan = "list" /\ of \in Panes => on = u.scope[u.pane],
         chan \in {"catalog", "list"} /\ of = "privacy" => u.page = "privacy",
         chan = "detail" => u.detail = None,
         chan = "preview" => u.wf[of].loading,
         chan = "confirm" => u.wf[of].busy,
         chan = "preview" /\ of = "change" => u.prefs.scope \in {on, None}
  PROVE  LET v == Send(u, chan, of, on, rev)
         IN  /\ Changes(u, v, {"calls"}) /\ SentTo(u.calls, NewCall(chan, of, on, rev), v.calls)
             /\ PageSound(v, D)
             /\ Live(v, chan, of)
             /\ \A x, y : Live(u, x, y) => Live(v, x, y)
<1> DEFINE n == NewCall(chan, of, on, rev)
           v == Send(u, chan, of, on, rev)
<1>1. /\ CallOK(n, D) /\ n.live /\ Key(n) = <<chan, of>>
      /\ n.chan = chan /\ n.of = of /\ n.on = on /\ n.rev = rev
  BY DEF NewCall, CallOK, Key
<1>2. DOMAIN u = PageFields /\ CallsOK(u.calls, D) /\ Single(u.calls)
  BY DEF PageSound, Typed
<1>3. /\ Changes(u, v, {"calls"}) /\ SentTo(u.calls, n, v.calls)
      /\ CallsOK(v.calls, D) /\ Single(v.calls)
  BY <1>1, <1>2, SendFacts
<1> HIDE DEF n, v
<1>4. Fits(u, n)
  BY <1>1 DEF Fits
<1>5. PageSound(v, D)
  BY <1>3, <1>4, SendChange
<1>6. Live(v, chan, of)
  BY <1>1, <1>3 DEF Live, SentTo
<1>7. \A x, y : Live(u, x, y) => Live(v, x, y)
  BY <1>1, <1>3 DEF Live, SentTo, Key
<1>8. QED
  BY <1>3, <1>5, <1>6, <1>7 DEF n, v

\* Nothing that is awaited is lost when a request leaves.
LEMMA SentWaits ==
  ASSUME NEW u, NEW v, Changes(u, v, {"calls"}), \A x, y : Live(u, x, y) => Live(v, x, y)
  PROVE  /\ FlowWaits(u) => FlowWaits(v)
         /\ DetailWaits(u) => DetailWaits(v)
         /\ LoadWaits(u) => LoadWaits(v)
<1>1. /\ v.page = u.page /\ v.pane = u.pane /\ v.load = u.load /\ v.wf = u.wf
      /\ v.detailLoading = u.detailLoading /\ v.prefs = u.prefs
  BY DEF Changes, PageFields
<1>2. QED
  BY <1>1 DEF FlowWaits, DetailWaits, LoadWaits

\* The pane of the Memory view has neither preview, authority nor confirmation.
PaneCalm(u) == \A w \in OfPane(u.pane) : FlowCleared(u.wf[w], u.wf[w], TRUE)
\* The workflows of a pane are idle.
PaneIdle(u) == \A w \in OfPane(u.pane) : u.wf[w] = IdleFlow

LEMMA IdleFlowSame == [IdleFlow EXCEPT !.result = None] = IdleFlow
BY WithResult DEF IdleFlow

\* clearRecordDetailContent, clearReviewDetailContent keep a sound page sound.
LEMMA ClearDetailFacts ==
  ASSUME NEW u, NEW keep \in BOOLEAN, NEW D, PageSound(u, D)
  PROVE  LET v == ClearDetail(u, keep)
         IN  /\ Changes(u, v, {"calls", "wf", "detail", "detailLoading"})
             /\ PassedTo(u.calls, Clearing(OfPane(u.pane)), v.calls)
             /\ v.detail = None /\ v.detailLoading = FALSE /\ PaneCalm(v)
             /\ ~keep => PaneIdle(v)
             /\ \A w \in Workflows \ OfPane(u.pane) : v.wf[w] = u.wf[w]
             /\ PageSound(v, D)
             /\ FlowWaits(u) => FlowWaits(v)
             /\ DetailWaits(v)
             /\ LoadWaits(u) => LoadWaits(v)
             /\ Backed(u) => Backed(v)
<1> DEFINE W == OfPane(u.pane)
           x == ClearWorkflows(u, W, keep)
           y == [x EXCEPT !.detail = None]
           v == ClearDetail(u, keep)
<1>0. u.pane \in Panes /\ W \in SUBSET Workflows
  BY WorkflowFacts DEF PageSound, Typed
<1>1. /\ Changes(u, x, {"calls", "wf"})
      /\ PassedTo(u.calls, Clearing(W), x.calls)
      /\ \A w \in W : FlowCleared(x.wf[w], u.wf[w], keep)
      /\ \A w \in Workflows \ W : x.wf[w] = u.wf[w]
  BY <1>0, ClearWorkflowsFacts
<1>2. /\ PageSound(x, D)
      /\ FlowWaits(u) => FlowWaits(x)
      /\ LoadWaits(u) => LoadWaits(x)
      /\ Backed(u) => Backed(x)
  BY <1>0, ClearWorkflowsSound
<1>3. v = [y EXCEPT !.detailLoading = FALSE]
  BY DEF ClearDetail
<1> HIDE DEF x, v
<1>4. /\ Changes(x, v, {"detail", "detailLoading"}) /\ v.detail = None /\ v.detailLoading = FALSE
  BY <1>1, <1>3 DEF Changes, PageFields
<1>5. x.pane = u.pane /\ v.pane = u.pane /\ v.wf = x.wf /\ v.calls = x.calls /\ v.list = x.list
      /\ v.sel = x.sel /\ v.page = x.page /\ v.scope = x.scope /\ v.prefs = x.prefs
      /\ x.load = u.load /\ x.list = u.list
  BY <1>1, <1>4 DEF Changes, PageFields
<1>6. Changes(x, v, {"list", "sel", "detail", "detailLoading"})
  BY <1>4 DEF Changes
<1>7. PageRowsOK(v)
  BY <1>2, <1>4, <1>5 DEF PageSound, PageRowsOK
<1>8. v.list \subseteq Shows /\ v.sel \in Items \cup {None}
  BY <1>2, <1>5 DEF PageSound, Typed
<1>9. \A w \in OfPane(x.pane) : x.wf[w].auth = None
  BY <1>1, <1>5 DEF FlowCleared
<1>10. /\ PageSound(v, D)
       /\ FlowWaits(x) => FlowWaits(v)
       /\ LoadWaits(x) => LoadWaits(v)
       /\ Backed(x) /\ (x.load # "none" => v.list = {}) => Backed(v)
  BY <1>2, <1>4, <1>6, <1>7, <1>8, <1>9, RowsChange
<1>11. DetailWaits(v)
  BY <1>4 DEF DetailWaits
<1>12. Changes(u, v, {"calls", "wf", "detail", "detailLoading"})
  BY <1>1, <1>4 DEF Changes
<1>13. Backed(u) => Backed(v)
  BY <1>2, <1>5, <1>10 DEF Backed
<1>14. PaneCalm(v) /\ (~keep => PaneIdle(v))
  BY <1>1, <1>5 DEF PaneCalm, PaneIdle, FlowCleared
<1>15. QED
  BY <1>1, <1>2, <1>4, <1>5, <1>10, <1>11, <1>12, <1>13, <1>14 DEF v

DetailKeys == {<<"detail", pane>> : pane \in Panes}

\* clearRecordDetail, clearReviewDetail: nor is a detail awaited.
LEMMA ClearRowsFacts ==
  ASSUME NEW u, NEW keepRef \in BOOLEAN, NEW keep \in BOOLEAN, NEW D, PageSound(u, D)
  PROVE  LET v == ClearRows(u, keepRef, keep)
         IN  /\ Changes(u, v, {"calls", "wf", "detail", "detailLoading", "list", "sel"})
             /\ PassedTo(u.calls, DetailKeys \cup Clearing(OfPane(u.pane)), v.calls)
             /\ v.list = {} /\ v.detail = None /\ v.detailLoading = FALSE
             /\ PaneCalm(v)
             /\ ~keep => PaneIdle(v)
             /\ \A w \in Workflows \ OfPane(u.pane) : v.wf[w] = u.wf[w]
             /\ PageSound(v, D)
             /\ FlowWaits(u) => FlowWaits(v)
             /\ DetailWaits(v)
             /\ LoadWaits(u) => LoadWaits(v)
             /\ Backed(u) => Backed(v)
<1> DEFINE b == BumpSequence(u, {<<"detail", pane>> : pane \in Panes})
           x == ClearDetail(b, keep)
           sel == IF keepRef THEN x.sel ELSE None
           y == [x EXCEPT !.list = {}]
           v == ClearRows(u, keepRef, keep)
<1>1. Changes(u, b, {"calls"}) /\ PassedTo(u.calls, DetailKeys, b.calls) /\ PageSound(b, D)
      /\ (Backed(u) => Backed(b))
  BY BumpSound DEF DetailKeys
<1>2. FlowWaits(u) => FlowWaits(b)
  <2>1. DetailKeys \cap Clearing(Workflows) = {}
    BY DEF DetailKeys, Clearing
  <2>2. QED
    BY <1>1, <2>1, PassedWaits
<1>3. LoadWaits(u) => LoadWaits(b)
  <2>1. DetailKeys \cap ({"catalog", "list"} \X (Panes \cup {"privacy"})) = {}
    BY DEF DetailKeys
  <2>2. u.pane \in Panes
    BY DEF PageSound, Typed
  <2>3. QED
    BY <1>1, <2>1, <2>2, PassedWaits
<1>4. b.pane = u.pane /\ b.wf = u.wf
  BY <1>1 DEF Changes, PageFields
<1> HIDE DEF b
<1>5. /\ Changes(b, x, {"calls", "wf", "detail", "detailLoading"})
      /\ PassedTo(b.calls, Clearing(OfPane(b.pane)), x.calls)
      /\ x.detail = None /\ x.detailLoading = FALSE /\ PaneCalm(x)
      /\ ~keep => PaneIdle(x)
      /\ \A w \in Workflows \ OfPane(b.pane) : x.wf[w] = b.wf[w]
      /\ PageSound(x, D)
      /\ FlowWaits(b) => FlowWaits(x)
      /\ DetailWaits(x)
      /\ LoadWaits(b) => LoadWaits(x)
      /\ Backed(b) => Backed(x)
  BY <1>1, ClearDetailFacts
<1>6. v = [y EXCEPT !.sel = sel]
  BY DEF ClearRows, b
<1> HIDE DEF x, v
<1>7. Changes(x, v, {"list", "sel"}) /\ v.list = {} /\ v.sel = sel
  BY <1>5, <1>6 DEF Changes, PageFields
<1>8. v.pane = x.pane /\ v.wf = x.wf /\ v.calls = x.calls /\ v.detail = x.detail /\ x.pane = b.pane
      /\ v.detailLoading = x.detailLoading /\ v.page = x.page /\ v.scope = x.scope /\ v.prefs = x.prefs
  BY <1>5, <1>7 DEF Changes, PageFields
<1>9. Changes(x, v, {"list", "sel", "detail", "detailLoading"})
  BY <1>7 DEF Changes
<1>10. PageRowsOK(v)
  BY <1>5, <1>7, <1>8 DEF PageSound, PageRowsOK, Row
<1>11. v.sel \in Items \cup {None} /\ v.detail \in Shows \cup {None} /\ v.list \subseteq Shows
  BY <1>5, <1>7, <1>8 DEF PageSound, Typed
<1>12. \A w \in OfPane(x.pane) : x.wf[w].auth = None
  BY <1>5 DEF PaneCalm, FlowCleared
<1>13. /\ PageSound(v, D)
       /\ FlowWaits(x) => FlowWaits(v)
       /\ LoadWaits(x) => LoadWaits(v)
       /\ Backed(x) => Backed(v)
  BY <1>5, <1>7, <1>8, <1>9, <1>10, <1>11, <1>12, RowsChange
<1>14. DetailWaits(v)
  BY <1>5, <1>8 DEF DetailWaits
<1>15. PaneCalm(v) /\ (~keep => PaneIdle(v))
  BY <1>5, <1>8 DEF PaneCalm, PaneIdle
<1>16. Changes(u, v, {"calls", "wf", "detail", "detailLoading", "list", "sel"})
  BY <1>1, <1>5, <1>7 DEF Changes
<1>17. PassedTo(u.calls, DetailKeys \cup Clearing(OfPane(u.pane)), v.calls)
  BY <1>1, <1>4, <1>5, <1>8, PassedTwice
<1>18. QED
  BY <1>1, <1>2, <1>3, <1>4, <1>5, <1>7, <1>8, <1>13, <1>14, <1>15, <1>16, <1>17 DEF v

\* A detail is awaited, for the row that is chosen.
LEMMA LoadDetailFacts ==
  ASSUME NEW u, NEW D, PageSound(u, D), u.page = "memory", u.sel \in Items
  PROVE  LET v == LoadDetail(u)
         IN  /\ PageSound(v, D)
             /\ FlowWaits(u) => FlowWaits(v)
             /\ DetailWaits(v)
             /\ LoadWaits(u) => LoadWaits(v)
             /\ Backed(u) => Backed(v)
<1> DEFINE x == ClearDetail(u, FALSE)
           y == [x EXCEPT !.detailLoading = TRUE]
           v == LoadDetail(u)
<1>1. /\ Changes(u, x, {"calls", "wf", "detail", "detailLoading"})
      /\ x.detail = None /\ PaneCalm(x)
      /\ PageSound(x, D)
      /\ FlowWaits(u) => FlowWaits(x)
      /\ LoadWaits(u) => LoadWaits(x)
      /\ Backed(u) => Backed(x)
  BY ClearDetailFacts
<1>2. v = Send(y, "detail", u.pane, u.sel, 0)
  BY DEF LoadDetail
<1> HIDE DEF x, v
<1>3. /\ Changes(x, y, {"detailLoading"}) /\ y.detailLoading = TRUE
      /\ Changes(x, y, {"list", "sel", "detail", "detailLoading"})
  BY <1>1 DEF Changes, PageFields
<1> HIDE DEF y
<1>4. /\ y.page = u.page /\ y.sel = u.sel /\ y.pane = u.pane /\ y.pane = x.pane /\ y.detail = None
      /\ y.list = x.list /\ y.scope = x.scope /\ y.prefs = x.prefs /\ y.page = x.page
      /\ y.sel = x.sel /\ y.calls = x.calls /\ x.load = u.load /\ x.list = u.list /\ y.load = x.load
  BY <1>1, <1>3 DEF Changes, PageFields
<1>5. PageRowsOK(y) /\ y.list \subseteq Shows /\ y.sel \in Items \cup {None} /\ y.pane \in Panes
  BY <1>1, <1>4 DEF PageSound, PageRowsOK, Typed
<1>6. \A w \in OfPane(x.pane) : x.wf[w].auth = None
  BY <1>1 DEF PaneCalm, FlowCleared
<1>7. /\ PageSound(y, D)
      /\ FlowWaits(x) => FlowWaits(y)
      /\ LoadWaits(x) => LoadWaits(y)
      /\ Backed(x) /\ (x.load # "none" => y.list = {}) => Backed(y)
  BY <1>1, <1>3, <1>4, <1>5, <1>6, RowsChange
<1>8. Backed(u) => Backed(y)
  BY <1>1, <1>4, <1>7 DEF Backed
<1>9. /\ Changes(y, v, {"calls"}) /\ SentTo(y.calls, NewCall("detail", u.pane, u.sel, 0), v.calls)
      /\ PageSound(v, D) /\ Live(v, "detail", u.pane)
      /\ \A a, b : Live(y, a, b) => Live(v, a, b)
  <2>1. "detail" \in Channels /\ u.sel \in OnPage /\ 0 \in Nat /\ u.sel \in Items \cup Scopes
    BY DEF Channels, OnPage
  <2>2. u.pane \in Panes /\ "privacy" \notin Panes
    BY <1>4, <1>5 DEF Panes
  <2>3. QED
    BY <1>2, <1>4, <1>7, <2>1, <2>2, SendSound
<1>10. v.pane = u.pane /\ v.load = y.load /\ v.list = y.list
  BY <1>4, <1>9 DEF Changes, PageFields
<1>11. DetailWaits(v)
  BY <1>9, <1>10 DEF DetailWaits
<1>12. /\ FlowWaits(y) => FlowWaits(v)
       /\ LoadWaits(y) => LoadWaits(v)
  BY <1>9, SentWaits
<1>13. Backed(y) => Backed(v)
  BY <1>9, <1>10 DEF Backed, SentTo, NewCall
<1>14. QED
  BY <1>1, <1>7, <1>8, <1>9, <1>11, <1>12, <1>13 DEF v

\* The rows of the chosen scope are awaited.
LEMMA LoadListFacts ==
  ASSUME NEW u, NEW D, PageSound(u, D), u.page = "memory",
         \A c \in u.calls : c.live /\ c.of \in Panes => c.chan # "catalog"
  PROVE  LET v == LoadList(u)
         IN  /\ PageSound(v, D) /\ DetailWaits(v) /\ LoadWaits(v) /\ Backed(v)
             /\ FlowWaits(u) => FlowWaits(v)
<1> DEFINE keep == ResultVisible(u)
           x == ClearRows(u, TRUE, keep)
           y == [x EXCEPT !.load = "list"]
           v == LoadList(u)
<1>0. keep \in BOOLEAN
  BY DEF ResultVisible
<1>1. /\ Changes(u, x, {"calls", "wf", "detail", "detailLoading", "list", "sel"})
      /\ PassedTo(u.calls, DetailKeys \cup Clearing(OfPane(u.pane)), x.calls)
      /\ x.list = {} /\ x.detail = None
      /\ PageSound(x, D)
      /\ FlowWaits(u) => FlowWaits(x)
      /\ DetailWaits(x)
  BY <1>0, ClearRowsFacts
<1>2. v = Send(y, "list", u.pane, u.scope[u.pane], 0)
  BY DEF LoadList
<1> HIDE DEF x, v, keep
<1>3. Changes(x, y, {"load"}) /\ y.load = "list"
  BY <1>1 DEF Changes, PageFields
<1> HIDE DEF y
<1>4. /\ PageSound(y, D)
      /\ FlowWaits(x) => FlowWaits(y)
      /\ DetailWaits(x) => DetailWaits(y)
  BY <1>1, <1>3, LoadChange
<1>5. /\ y.page = "memory" /\ y.pane = u.pane /\ y.scope = u.scope /\ y.list = {} /\ y.calls = x.calls
      /\ y.prefs = u.prefs
  BY <1>1, <1>3 DEF Changes, PageFields
<1>6. u.pane \in Panes /\ u.scope[u.pane] \in Scopes \cup {None}
  BY DEF PageSound, Typed
<1>7. /\ Changes(y, v, {"calls"})
      /\ SentTo(y.calls, NewCall("list", u.pane, u.scope[u.pane], 0), v.calls)
      /\ PageSound(v, D) /\ Live(v, "list", u.pane)
      /\ \A a, b : Live(y, a, b) => Live(v, a, b)
  <2>1. "list" \in Channels /\ u.scope[u.pane] \in OnPage /\ 0 \in Nat
    BY <1>6 DEF Channels, OnPage
  <2>2. "privacy" \notin Panes
    BY DEF Panes
  <2>3. QED
    BY <1>2, <1>4, <1>5, <1>6, <2>1, <2>2, SendSound
<1>8. v.pane = u.pane /\ v.load = "list" /\ v.list = {} /\ v.page = "memory"
  BY <1>3, <1>5, <1>7 DEF Changes, PageFields
<1>9. LoadWaits(v)
  BY <1>7, <1>8 DEF LoadWaits
<1>10. Backed(v)
  BY <1>1, <1>5, <1>7, <1>8 DEF Backed, SentTo, NewCall, PassedTo
<1>11. /\ FlowWaits(y) => FlowWaits(v)
       /\ DetailWaits(y) => DetailWaits(v)
  BY <1>7, SentWaits
<1>12. QED
  BY <1>1, <1>4, <1>7, <1>9, <1>10, <1>11 DEF v

\* The scopes of the pane are awaited.
LEMMA LoadCatalogFacts ==
  ASSUME NEW u, NEW keep \in BOOLEAN, NEW D, PageSound(u, D), u.page = "memory"
  PROVE  LET v == LoadCatalog(u, keep)
         IN  /\ PageSound(v, D) /\ DetailWaits(v) /\ LoadWaits(v) /\ Backed(v)
             /\ FlowWaits(u) => FlowWaits(v)
<1> DEFINE b == BumpSequence(u, {<<"list", u.pane>>})
           x == ClearRows(b, TRUE, keep)
           y == [x EXCEPT !.load = "scopes"]
           v == LoadCatalog(u, keep)
<1>1. /\ Changes(u, b, {"calls"}) /\ PassedTo(u.calls, {<<"list", u.pane>>}, b.calls) /\ PageSound(b, D)
  BY BumpSound
<1>2. FlowWaits(u) => FlowWaits(b)
  <2>1. {<<"list", u.pane>>} \cap Clearing(Workflows) = {}
    BY DEF Clearing
  <2>2. QED
    BY <1>1, <2>1, PassedWaits
<1>3. v = Send(y, "catalog", u.pane, None, 0)
  BY DEF LoadCatalog
<1> HIDE DEF b
<1>4. /\ Changes(b, x, {"calls", "wf", "detail", "detailLoading", "list", "sel"})
      /\ PassedTo(b.calls, DetailKeys \cup Clearing(OfPane(b.pane)), x.calls)
      /\ x.list = {} /\ x.detail = None
      /\ PageSound(x, D)
      /\ FlowWaits(b) => FlowWaits(x)
      /\ DetailWaits(x)
  BY <1>1, ClearRowsFacts
<1> HIDE DEF x, v
<1>5. Changes(x, y, {"load"}) /\ y.load = "scopes"
  BY <1>4 DEF Changes, PageFields
<1> HIDE DEF y
<1>6. /\ PageSound(y, D)
      /\ FlowWaits(x) => FlowWaits(y)
      /\ DetailWaits(x) => DetailWaits(y)
  BY <1>4, <1>5, LoadChange
<1>7. /\ y.page = "memory" /\ y.pane = u.pane /\ y.list = {} /\ y.calls = x.calls
  BY <1>1, <1>4, <1>5 DEF Changes, PageFields
<1>8. u.pane \in Panes
  BY DEF PageSound, Typed
<1>9. /\ Changes(y, v, {"calls"})
      /\ SentTo(y.calls, NewCall("catalog", u.pane, None, 0), v.calls)
      /\ PageSound(v, D) /\ Live(v, "catalog", u.pane)
      /\ \A a, c : Live(y, a, c) => Live(v, a, c)
  <2>1. "catalog" \in Channels /\ None \in OnPage /\ 0 \in Nat
    BY DEF Channels, OnPage
  <2>2. "privacy" \notin Panes
    BY DEF Panes
  <2>3. QED
    BY <1>3, <1>6, <1>7, <1>8, <2>1, <2>2, SendSound
<1>10. v.pane = u.pane /\ v.load = "scopes" /\ v.list = {} /\ v.page = "memory"
  BY <1>5, <1>7, <1>9 DEF Changes, PageFields
<1>11. LoadWaits(v)
  BY <1>9, <1>10 DEF LoadWaits
<1>12. Backed(v)
  <2>1. ASSUME NEW c \in v.calls, c.live, c.of \in Panes, c.chan = "list" PROVE FALSE
    <3>1. c \in u.calls /\ Key(c) # <<"list", u.pane>>
      BY <1>1, <1>4, <1>7, <1>9, <2>1 DEF SentTo, PassedTo, NewCall
    <3>2. c.of = u.pane
      BY <2>1, <3>1 DEF PageSound, AllFit, Fits
    <3>3. QED
      BY <2>1, <3>1, <3>2 DEF Key
  <2>2. QED
    BY <1>10, <2>1 DEF Backed
<1>13. /\ FlowWaits(y) => FlowWaits(v)
       /\ DetailWaits(y) => DetailWaits(v)
  BY <1>9, SentWaits
<1>14. QED
  BY <1>2, <1>4, <1>6, <1>9, <1>11, <1>12, <1>13 DEF v

\* The Memory view has nothing on it and nothing under way.
MemoryQuiet(u) ==
    /\ u.list = {} /\ u.detail = None /\ u.detailLoading = FALSE
    /\ \A w \in MemoryWorkflows : u.wf[w] = IdleFlow
    /\ \A c \in u.calls : c.live /\ c.chan \in {"catalog", "list", "detail"} => c.of \notin Panes

\* Nothing is shown, chosen or awaited in the Privacy view.
PrivacyQuiet(u) ==
    /\ u.prefs.shown = None /\ u.prefs.load = "none" /\ u.wf["change"] = IdleFlow
    /\ \A c \in u.calls : c.live /\ c.chan \in {"catalog", "list"} => c.of # "privacy"

\* A pane is shown without rows, and nothing of the other one is awaited.
LEMMA SelectPaneFacts ==
  ASSUME NEW u, NEW pane \in Panes, NEW D, PageSound(u, D),
         u.pane # "reviews" \/ pane # "reviews"
  PROVE  LET v == SelectPane(u, pane)
         IN  /\ PageSound(v, D)
             /\ Changes(u, v, {"calls", "wf", "detail", "detailLoading", "list", "sel", "pane", "load"})
             /\ v.load = "none" /\ v.pane = pane /\ DetailWaits(v)
             /\ v.list = {} /\ v.detail = None /\ v.detailLoading = FALSE
             /\ \A w \in MemoryWorkflows : v.wf[w] = IdleFlow
             /\ v.wf["change"] = u.wf["change"]
             /\ \A c \in v.calls : c.live => c \in u.calls
             /\ FlowWaits(u) => FlowWaits(v)
<1> DEFINE C == UNION {PaneChannels(x) : x \in Panes \ {pane}}
           b == BumpSequence(u, C)
           x == ClearRows(b, FALSE, FALSE)
           y == [x EXCEPT !.pane = pane]
           v == SelectPane(u, pane)
<1>1. Changes(u, b, {"calls"}) /\ PassedTo(u.calls, C, b.calls) /\ PageSound(b, D)
  BY BumpSound
<1>2. FlowWaits(u) => FlowWaits(b)
  <2>1. C \cap Clearing(Workflows) = {}
    BY DEF PaneChannels, Clearing
  <2>2. QED
    BY <1>1, <2>1, PassedWaits
<1>3. /\ Changes(b, x, {"calls", "wf", "detail", "detailLoading", "list", "sel"})
      /\ PassedTo(b.calls, DetailKeys \cup Clearing(OfPane(b.pane)), x.calls)
      /\ x.list = {} /\ x.detail = None /\ x.detailLoading = FALSE
      /\ PaneIdle(x)
      /\ \A w \in Workflows \ OfPane(b.pane) : x.wf[w] = b.wf[w]
      /\ PageSound(x, D)
      /\ FlowWaits(b) => FlowWaits(x)
  <2> HIDE DEF b
  <2>1. QED
    BY <1>1, ClearRowsFacts
<1>4. v = [x EXCEPT !.pane = pane, !.load = "none"]
  BY DEF SelectPane
<1> HIDE DEF b, x, v
<1>5. \A w \in MemoryWorkflows : x.wf[w] = IdleFlow
  BY <1>3 DEF PaneIdle, PageSound, FlowsOK
<1>7. Changes(x, y, {"pane"}) /\ y.pane = pane
  BY <1>3 DEF Changes, PageFields
<1>8. Changes(y, v, {"load"}) /\ v.load = "none"
  BY <1>4, <1>7 DEF Changes, PageFields
<1> HIDE DEF y
<1>11. \A c \in x.calls : c.live /\ c.chan \in {"catalog", "list", "detail"} /\ c.of \in Panes =>
          c.of = pane /\ c.of = x.pane
  <2> TAKE c \in x.calls
  <2> HAVE c.live /\ c.chan \in {"catalog", "list", "detail"} /\ c.of \in Panes
  <2>1. c \in b.calls /\ c \in u.calls /\ Key(c) \notin C /\ Key(c) \notin DetailKeys
    BY <1>1, <1>3 DEF PassedTo
  <2>2. c.of = x.pane
    BY <1>3 DEF PageSound, AllFit, Fits
  <2>3. c.chan # "detail"
    BY <2>1 DEF Key, DetailKeys
  <2>4. c.of = pane
    BY <2>1, <2>3 DEF Key, PaneChannels
  <2>5. QED
    BY <2>2, <2>4
<1>12. \A c \in x.calls : c.live => c \in u.calls
  BY <1>1, <1>3 DEF PassedTo
<1>13. y.page = x.page /\ y.pane = pane /\ x.page \in {"login", "overview", "memory", "privacy"}
  BY <1>3, <1>7 DEF Changes, PageFields, PageSound, Typed
<1>14. PageSound(y, D) /\ (FlowWaits(x) => FlowWaits(y))
  <2>1. Changes(x, y, {"page", "pane"})
    BY <1>7 DEF Changes
  <2>2. x.page # "overview" => \A c \in x.calls : c.live => c.chan # "overview"
    BY <1>3 DEF PageSound, AllFit, Fits
  <2>3. (x.page # "memory" \/ pane # x.pane) =>
            \A c \in x.calls : c.live /\ c.chan \in {"catalog", "list", "detail"} => c.of \notin Panes
    BY <1>3, <1>11 DEF PageSound, AllFit, Fits
  <2>4. x.page # "privacy" =>
            /\ x.prefs.shown = None /\ x.wf["change"] = IdleFlow
            /\ \A c \in x.calls : c.live /\ c.chan \in {"catalog", "list"} => c.of # "privacy"
    BY <1>3 DEF PageSound, AllFit, Fits, PageRowsOK, FlowsOK
  <2>5. QED
    BY <1>3, <1>5, <1>13, <2>1, <2>2, <2>3, <2>4, PageChange
<1>15. PageSound(v, D) /\ (FlowWaits(y) => FlowWaits(v))
  BY <1>8, <1>14, LoadChange
<1>17. /\ v.load = "none" /\ v.pane = pane /\ v.list = {} /\ v.detail = None /\ v.detailLoading = FALSE
       /\ v.wf = x.wf /\ v.calls = x.calls
       /\ Changes(u, v, {"calls", "wf", "detail", "detailLoading", "list", "sel", "pane", "load"})
  BY <1>1, <1>3, <1>7, <1>8 DEF Changes, PageFields
<1>18. v.wf["change"] = u.wf["change"]
  <2>1. "change" \in Workflows \ OfPane(b.pane)
    BY <1>1, WorkflowFacts DEF PageSound, Typed
  <2>2. QED
    BY <1>1, <1>3, <1>17, <2>1 DEF Changes, PageFields
<1>19. DetailWaits(v)
  BY <1>17 DEF DetailWaits
<1>20. QED
  BY <1>2, <1>3, <1>5, <1>12, <1>14, <1>15, <1>17, <1>18, <1>19 DEF v

\* Review, selected once more, keeps its rows and its detail.
LEMMA SelectAgainFacts ==
  ASSUME NEW u, NEW pane \in Panes, NEW D, PageSound(u, D), u.pane = "reviews", pane = "reviews"
  PROVE  LET v == SelectPane(u, pane)
         IN  /\ PageSound(v, D)
             /\ Changes(u, v, {"calls", "load"})
             /\ FlowWaits(u) => FlowWaits(v)
<1> DEFINE C == UNION {PaneChannels(x) : x \in Panes \ {pane}}
           b == BumpSequence(u, C)
           y == [b EXCEPT !.pane = pane]
           v == SelectPane(u, pane)
<1>1. Changes(u, b, {"calls"}) /\ PassedTo(u.calls, C, b.calls) /\ PageSound(b, D)
  BY BumpSound
<1>2. FlowWaits(u) => FlowWaits(b)
  <2>1. C \cap Clearing(Workflows) = {}
    BY DEF PaneChannels, Clearing
  <2>2. QED
    BY <1>1, <2>1, PassedWaits
<1>3. v = [y EXCEPT !.load = "none"]
  BY DEF SelectPane
<1> HIDE DEF b, v
<1>4. Changes(b, y, {}) /\ y.calls = b.calls
  BY <1>1 DEF Changes, PageFields
<1> HIDE DEF y
<1>5. Changes(b, v, {"load"}) /\ v.load = "none"
  BY <1>3, <1>4 DEF Changes, PageFields
<1>6. PageSound(v, D) /\ (FlowWaits(b) => FlowWaits(v))
  BY <1>1, <1>5, LoadChange
<1>7. Changes(u, v, {"calls", "load"})
  BY <1>1, <1>5 DEF Changes, PageFields
<1>8. QED
  BY <1>2, <1>6, <1>7 DEF v

\* Nothing of the Memory view is awaited.
LEMMA CancelMemoryFacts ==
  ASSUME NEW u, NEW D, PageSound(u, D)
  PROVE  LET v == CancelMemory(u)
         IN  /\ PageSound(v, D) /\ MemoryQuiet(v)
             /\ Changes(u, v, {"calls", "wf", "detail", "detailLoading", "list", "sel"})
             /\ v.wf["change"] = u.wf["change"]
             /\ \A c \in v.calls : c.live => c \in u.calls
             /\ FlowWaits(u) => FlowWaits(v)
             /\ Backed(u) => Backed(v)
<1> DEFINE C == UNION {PaneChannels(x) : x \in Panes}
           b == BumpSequence(u, C)
           v == CancelMemory(u)
<1>1. /\ Changes(u, b, {"calls"}) /\ PassedTo(u.calls, C, b.calls) /\ PageSound(b, D)
      /\ Backed(u) => Backed(b)
  BY BumpSound
<1>2. FlowWaits(u) => FlowWaits(b)
  <2>1. C \cap Clearing(Workflows) = {}
    BY DEF PaneChannels, Clearing
  <2>2. QED
    BY <1>1, <2>1, PassedWaits
<1>3. v = ClearRows(b, FALSE, FALSE)
  BY DEF CancelMemory
<1> HIDE DEF b, v
<1>4. /\ Changes(b, v, {"calls", "wf", "detail", "detailLoading", "list", "sel"})
      /\ PassedTo(b.calls, DetailKeys \cup Clearing(OfPane(b.pane)), v.calls)
      /\ v.list = {} /\ v.detail = None /\ v.detailLoading = FALSE
      /\ PaneIdle(v)
      /\ \A w \in Workflows \ OfPane(b.pane) : v.wf[w] = b.wf[w]
      /\ PageSound(v, D)
      /\ FlowWaits(b) => FlowWaits(v)
      /\ Backed(b) => Backed(v)
  BY <1>1, <1>3, ClearRowsFacts
<1>5. \A w \in MemoryWorkflows : v.wf[w] = IdleFlow
  BY <1>4 DEF PaneIdle, PageSound, FlowsOK
<1>6. \A c \in v.calls : c.live => c \in u.calls
  BY <1>1, <1>4 DEF PassedTo
<1>7. \A c \in v.calls : c.live /\ c.chan \in {"catalog", "list", "detail"} => c.of \notin Panes
  <2> TAKE c \in v.calls
  <2> HAVE c.live /\ c.chan \in {"catalog", "list", "detail"}
  <2>1. Key(c) \notin C /\ Key(c) \notin DetailKeys
    BY <1>1, <1>4 DEF PassedTo
  <2>2. QED
    BY <2>1 DEF Key, PaneChannels, DetailKeys
<1>8. v.wf["change"] = u.wf["change"]
  <2>1. "change" \in Workflows \ OfPane(b.pane)
    BY <1>1, WorkflowFacts DEF PageSound, Typed
  <2>2. QED
    BY <1>1, <1>4, <2>1 DEF Changes, PageFields
<1>9. Changes(u, v, {"calls", "wf", "detail", "detailLoading", "list", "sel"})
  BY <1>1, <1>4 DEF Changes
<1>10. QED
  BY <1>1, <1>2, <1>4, <1>5, <1>6, <1>7, <1>8, <1>9 DEF v, MemoryQuiet

PrivacyKeys == {<<"catalog", "privacy">>, <<"list", "privacy">>}

\* The preferences as a reset leaves them.
NoPreferences == [catalog |-> {}, scope |-> None, shown |-> None, load |-> "none", off |-> TRUE]

\* The Privacy view is reset.
LEMMA ResetPrivacyFacts ==
  ASSUME NEW u, NEW D, PageSound(u, D)
  PROVE  LET v == ResetPrivacy(u)
         IN  /\ PageSound(v, D) /\ PrivacyQuiet(v)
             /\ Changes(u, v, {"calls", "wf", "prefs"})
             /\ \A w \in MemoryWorkflows : v.wf[w] = u.wf[w]
             /\ \A c \in v.calls : c.live => c \in u.calls
             /\ FlowWaits(u) => FlowWaits(v)
             /\ DetailWaits(u) => DetailWaits(v)
             /\ LoadWaits(u) => LoadWaits(v)
             /\ Backed(u) => Backed(v)
<1> DEFINE b == BumpSequence(u, PrivacyKeys)
           x == ClearWorkflows(b, {"change"}, FALSE)
           v == ResetPrivacy(u)
<1>1. /\ Changes(u, b, {"calls"}) /\ PassedTo(u.calls, PrivacyKeys, b.calls) /\ PageSound(b, D)
      /\ Backed(u) => Backed(b)
  BY BumpSound
<1>2. (FlowWaits(u) => FlowWaits(b)) /\ (DetailWaits(u) => DetailWaits(b))
  <2>1. PrivacyKeys \cap Clearing(Workflows) = {} /\ <<"detail", u.pane>> \notin PrivacyKeys
    BY DEF PrivacyKeys, Clearing
  <2>2. QED
    BY <1>1, <2>1, PassedWaits
<1>3. v = [x EXCEPT !.prefs = NoPreferences]
  BY DEF ResetPrivacy, NoPreferences, PrivacyKeys
<1> HIDE DEF b
<1>4. {"change"} \in SUBSET Workflows
  BY WorkflowFacts
<1>5. /\ Changes(b, x, {"calls", "wf"})
      /\ PassedTo(b.calls, Clearing({"change"}), x.calls)
      /\ \A w \in {"change"} : FlowCleared(x.wf[w], b.wf[w], FALSE)
      /\ \A w \in Workflows \ {"change"} : x.wf[w] = b.wf[w]
  BY <1>1, <1>4, ClearWorkflowsFacts
<1>6. /\ PageSound(x, D)
      /\ FlowWaits(b) => FlowWaits(x)
      /\ DetailWaits(b) => DetailWaits(x)
      /\ Backed(b) => Backed(x)
  BY <1>1, <1>4, ClearWorkflowsSound
<1> HIDE DEF x, v
<1>7. Changes(x, v, {"prefs"}) /\ v.prefs = NoPreferences
  BY <1>5, <1>3 DEF Changes, PageFields
<1>8. x.wf["change"] = IdleFlow /\ v.wf = x.wf /\ v.calls = x.calls
  BY <1>5, <1>7 DEF FlowCleared, Changes, PageFields
<1>9. \A c \in v.calls : c.live => c \in u.calls /\ Key(c) \notin PrivacyKeys /\ Key(c) \notin Clearing({"change"})
  BY <1>1, <1>5, <1>8 DEF PassedTo
<1>10. /\ PageSound(v, D)
       /\ FlowWaits(x) => FlowWaits(v)
       /\ DetailWaits(x) => DetailWaits(v)
       /\ Backed(x) => Backed(v)
  <2>1. v.prefs \in Preferences /\ v.prefs.scope \in v.prefs.catalog \cup {None} /\ v.prefs.shown = None
        /\ v.prefs.scope = None
    BY <1>7 DEF NoPreferences, Preferences
  <2>2. QED
    BY <1>6, <1>7, <2>1, PrefsChange
<1>11. PrivacyQuiet(v)
  <2>1. v.prefs.shown = None /\ v.prefs.load = "none"
    BY <1>7 DEF NoPreferences
  <2>2. ASSUME NEW c \in v.calls, c.live, c.chan \in {"catalog", "list"} PROVE c.of # "privacy"
    BY <1>9, <2>2 DEF Key, PrivacyKeys
  <2>3. QED
    BY <1>8, <2>1, <2>2 DEF PrivacyQuiet
<1>12. Changes(u, v, {"calls", "wf", "prefs"})
  BY <1>1, <1>5, <1>7 DEF Changes
<1>13. \A w \in MemoryWorkflows : v.wf[w] = u.wf[w]
  BY <1>1, <1>5, <1>8, WorkflowFacts DEF Changes, PageFields
<1>14. LoadWaits(u) => LoadWaits(v)
  <2>1. \A chan \in {"catalog", "list"}, of \in Panes : Live(u, chan, of) => Live(v, chan, of)
    <3> TAKE chan \in {"catalog", "list"}, of \in Panes
    <3>1. <<chan, of>> \notin PrivacyKeys /\ <<chan, of>> \notin Clearing({"change"})
      BY DEF PrivacyKeys, Clearing, Panes
    <3>2. Live(u, chan, of) => Live(b, chan, of)
      BY <1>1, <3>1, StaysLive
    <3>3. Live(b, chan, of) => Live(x, chan, of)
      BY <1>5, <3>1, StaysLive
    <3>4. QED
      BY <1>8, <3>2, <3>3 DEF Live
  <2>2. v.page = u.page /\ v.pane = u.pane /\ v.load = u.load
    BY <1>12 DEF Changes, PageFields
  <2>3. u.pane \in Panes /\ v.prefs.load = "none"
    BY <1>7 DEF PageSound, Typed, NoPreferences
  <2>4. QED
    BY <2>1, <2>2, <2>3 DEF LoadWaits
<1>15. QED
  BY <1>1, <1>2, <1>6, <1>9, <1>10, <1>11, <1>12, <1>13, <1>14 DEF v

\* Another view is selected: nothing of the others is awaited or left.
LEMMA SelectViewFacts ==
  ASSUME NEW u, NEW page \in {"overview", "memory", "privacy"}, NEW D, PageSound(u, D)
  PROVE  LET v == SelectView(u, page)
         IN  /\ PageSound(v, D) /\ v.page = page
             /\ FlowWaits(u) => FlowWaits(v)
             /\ Backed(u) => Backed(v)
<1> DEFINE a == IF page # "overview" THEN BumpSequence(u, {<<"overview", None>>}) ELSE u
           m == IF page # "memory" THEN CancelMemory(a) ELSE a
           x == IF page # "privacy" THEN ResetPrivacy(m) ELSE m
           v == SelectView(u, page)
<1>1. /\ PageSound(a, D)
      /\ FlowWaits(u) => FlowWaits(a)
      /\ Backed(u) => Backed(a)
      /\ page # "overview" => \A c \in a.calls : c.live => Key(c) # <<"overview", None>>
  <2>1. CASE page = "overview"
    BY <2>1
  <2>2. CASE page # "overview"
    <3> DEFINE b == BumpSequence(u, {<<"overview", None>>})
    <3>1. a = b
      BY <2>2
    <3>2. /\ Changes(u, b, {"calls"}) /\ PassedTo(u.calls, {<<"overview", None>>}, b.calls) /\ PageSound(b, D)
          /\ Backed(u) => Backed(b)
      BY BumpSound
    <3>3. FlowWaits(u) => FlowWaits(b)
      <4>1. {<<"overview", None>>} \cap Clearing(Workflows) = {}
        BY DEF Clearing
      <4>2. QED
        BY <3>2, <4>1, PassedWaits
    <3> HIDE DEF b, a
    <3>4. QED
      BY <3>1, <3>2, <3>3 DEF PassedTo
  <2>3. QED
    BY <2>1, <2>2
<1> HIDE DEF a
<1>2. /\ PageSound(m, D)
      /\ FlowWaits(a) => FlowWaits(m)
      /\ Backed(a) => Backed(m)
      /\ page # "memory" => MemoryQuiet(m)
      /\ \A c \in m.calls : c.live => c \in a.calls
  <2>1. CASE page = "memory"
    BY <1>1, <2>1
  <2>2. CASE page # "memory"
    BY <1>1, <2>2, CancelMemoryFacts
  <2>3. QED
    BY <2>1, <2>2
<1> HIDE DEF m
<1>3. /\ PageSound(x, D)
      /\ FlowWaits(m) => FlowWaits(x)
      /\ Backed(m) => Backed(x)
      /\ page # "memory" => MemoryQuiet(x)
      /\ page # "privacy" => PrivacyQuiet(x)
      /\ \A c \in x.calls : c.live => c \in m.calls
  <2>1. CASE page = "privacy"
    BY <1>2, <2>1
  <2>2. CASE page # "privacy"
    <3> DEFINE r == ResetPrivacy(m)
    <3>1. x = r
      BY <2>2
    <3>2. /\ PageSound(r, D) /\ PrivacyQuiet(r)
          /\ Changes(m, r, {"calls", "wf", "prefs"})
          /\ \A w \in MemoryWorkflows : r.wf[w] = m.wf[w]
          /\ \A c \in r.calls : c.live => c \in m.calls
          /\ FlowWaits(m) => FlowWaits(r)
          /\ Backed(m) => Backed(r)
      BY <1>2, ResetPrivacyFacts
    <3> HIDE DEF r, x
    <3>3. MemoryQuiet(m) => MemoryQuiet(r)
      BY <3>2 DEF MemoryQuiet, Changes, PageFields
    <3>4. QED
      BY <1>2, <3>1, <3>2, <3>3
  <2>3. QED
    BY <2>1, <2>2
<1>4. v = [x EXCEPT !.page = page]
  BY DEF SelectView, x, m, a
<1> HIDE DEF x, v
<1>5. Changes(x, v, {"page"}) /\ v.page = page
  BY <1>3, <1>4 DEF Changes, PageFields, PageSound, Typed
<1>6. PageSound(v, D) /\ (FlowWaits(x) => FlowWaits(v)) /\ (Backed(x) => Backed(v))
  <2>1. Changes(x, v, {"page", "pane"}) /\ v.pane = x.pane
    BY <1>5 DEF Changes, PageFields
  <2>2. v.pane \in Panes
    BY <1>3, <2>1 DEF PageSound, Typed
  <2>3. ASSUME page # "overview" PROVE \A c \in x.calls : c.live => c.chan # "overview"
    <3> TAKE c \in x.calls
    <3> HAVE c.live
    <3>1. SUFFICES ASSUME c.chan = "overview" PROVE FALSE
      OBVIOUS
    <3>2. x.page = "overview"
      BY <1>3, <3>1 DEF PageSound, AllFit, Fits
    <3>3. c \in a.calls /\ Key(c) # <<"overview", None>>
      BY <1>1, <1>2, <1>3, <2>3
    <3>4. c.of = None
      BY <1>3, <3>1 DEF PageSound, CallsOK, CallOK
    <3>5. QED
      BY <3>1, <3>3, <3>4 DEF Key
  <2>4. page # "memory" =>
            /\ x.list = {} /\ x.detail = None
            /\ \A w \in MemoryWorkflows : x.wf[w] = IdleFlow
            /\ \A c \in x.calls : c.live /\ c.chan \in {"catalog", "list", "detail"} => c.of \notin Panes
    BY <1>3 DEF MemoryQuiet
  <2>5. page # "privacy" =>
            /\ x.prefs.shown = None /\ x.wf["change"] = IdleFlow
            /\ \A c \in x.calls : c.live /\ c.chan \in {"catalog", "list"} => c.of # "privacy"
    BY <1>3 DEF PrivacyQuiet
  <2>6. page \in {"login", "overview", "memory", "privacy"}
    OBVIOUS
  <2>7. QED
    BY <1>3, <1>5, <2>1, <2>2, <2>3, <2>4, <2>5, <2>6, PageChange
<1>7. QED
  BY <1>1, <1>2, <1>3, <1>5, <1>6 DEF v

\* memoryFeature.reset selects the Records pane.
LEMMA SelectFirstFacts ==
  ASSUME NEW u, NEW D, PageSound(u, D)
  PROVE  LET v == SelectPane(u, "records")
         IN  /\ PageSound(v, D) /\ v.load = "none" /\ v.list = {} /\ v.detail = None
             /\ v.detailLoading = FALSE
             /\ \A w \in MemoryWorkflows : v.wf[w] = IdleFlow
             /\ \A c \in v.calls : c.live => c \in u.calls
<1> DEFINE first == "records"
           v == SelectPane(u, first)
<1>1. first \in Panes /\ first # "reviews"
  BY DEF Panes
<1> HIDE DEF first
<1>2. /\ PageSound(v, D)
      /\ Changes(u, v, {"calls", "wf", "detail", "detailLoading", "list", "sel", "pane", "load"})
      /\ v.load = "none" /\ v.pane = first /\ DetailWaits(v)
      /\ v.list = {} /\ v.detail = None /\ v.detailLoading = FALSE
      /\ \A w \in MemoryWorkflows : v.wf[w] = IdleFlow
      /\ v.wf["change"] = u.wf["change"]
      /\ \A c \in v.calls : c.live => c \in u.calls
      /\ FlowWaits(u) => FlowWaits(v)
  BY <1>1, SelectPaneFacts
<1>3. QED
  BY <1>2 DEF first

\* The login page is shown whatever was on the page.
LEMMA ShowLoginFacts ==
  ASSUME NEW u, NEW D, PageSound(u, D)
  PROVE  PageInv(ShowLogin(u), D)
<1> DEFINE b == BumpSequence(u, {<<"overview", None>>})
           m == CancelMemory(b)
           first == "records"
           s == SelectPane(m, first)
           s1 == [s EXCEPT !.catalog = [x \in Panes |-> {}]]
           r == ResetMemory(m)
           p == ResetPrivacy(r)
           p1 == [p EXCEPT !.page = "login"]
           p2 == [p1 EXCEPT !.csrf = FALSE]
           v == ShowLogin(u)
<1>1. /\ PageSound(b, D)
      /\ \A c \in b.calls : c.live => Key(c) # <<"overview", None>>
  BY BumpSound DEF PassedTo
<1>v. v = [p2 EXCEPT !.loginBusy = FALSE]
  BY DEF ShowLogin
<1> HIDE DEF b
<1>2. PageSound(m, D) /\ MemoryQuiet(m) /\ \A c \in m.calls : c.live => c \in b.calls
  BY <1>1, CancelMemoryFacts
<1>r. r = [s1 EXCEPT !.scope = [x \in Panes |-> None]]
  BY DEF ResetMemory
<1> HIDE DEF m
<1>3. /\ PageSound(s, D) /\ s.load = "none" /\ s.list = {} /\ s.detail = None /\ s.detailLoading = FALSE
      /\ \A w \in MemoryWorkflows : s.wf[w] = IdleFlow
      /\ \A c \in s.calls : c.live => c \in m.calls
  BY <1>2, SelectFirstFacts
<1> HIDE DEF s, r
<1>4. /\ Changes(s, r, {"catalog", "scope"}) /\ r.catalog = [x \in Panes |-> {}]
      /\ r.scope = [x \in Panes |-> None]
  BY <1>3, <1>r DEF Changes, PageFields, PageSound, Typed
<1>5. MemoryQuiet(s)
  BY <1>2, <1>3 DEF MemoryQuiet
<1>6. PageSound(r, D)
  <2>1. /\ r.catalog \in [Panes -> SUBSET Scopes] /\ r.scope \in [Panes -> Scopes \cup {None}]
        /\ \A x \in Panes : r.scope[x] \in r.catalog[x] \cup {None}
    BY <1>4
  <2>2. \A c \in s.calls : c.live /\ c.of \in Panes => c.chan # "list"
    BY <1>5 DEF MemoryQuiet
  <2>3. QED
    BY <1>3, <1>4, <2>1, <2>2, ScopeChange
<1>7. MemoryQuiet(r) /\ r.load = "none" /\ \A c \in r.calls : c.live => c \in s.calls
  BY <1>3, <1>4, <1>5 DEF MemoryQuiet, Changes, PageFields
<1>8. /\ PageSound(p, D) /\ PrivacyQuiet(p)
      /\ Changes(r, p, {"calls", "wf", "prefs"})
      /\ \A w \in MemoryWorkflows : p.wf[w] = r.wf[w]
      /\ \A c \in p.calls : c.live => c \in r.calls
  BY <1>6, ResetPrivacyFacts
<1> HIDE DEF p, v
<1>9. MemoryQuiet(p) /\ p.load = "none"
  BY <1>7, <1>8 DEF MemoryQuiet, Changes, PageFields
<1>10. Changes(p, p1, {"page"}) /\ p1.page = "login"
  BY <1>8 DEF Changes, PageFields
<1> HIDE DEF p1
<1>11. PageSound(p1, D)
  <2>1. Changes(p, p1, {"page", "pane"}) /\ p1.pane = p.pane /\ p1.pane \in Panes
    BY <1>8, <1>10 DEF Changes, PageFields, PageSound, Typed
  <2>2. \A c \in p.calls : c.live => c.chan # "overview"
    BY <1>1, <1>2, <1>3, <1>7, <1>8 DEF PageSound, CallsOK, CallOK, Key
  <2>3. QED
    BY <1>8, <1>9, <1>10, <2>1, <2>2, PageChange DEF MemoryQuiet, PrivacyQuiet
<1>12. /\ Changes(p1, v, {"csrf", "loginBusy", "logoutBusy", "overview"})
       /\ v.csrf = FALSE /\ v.loginBusy = FALSE /\ v.logoutBusy = p1.logoutBusy /\ v.overview = p1.overview
  BY <1>10, <1>v DEF Changes, PageFields
<1>13. PageSound(v, D)
  <2>1. p1.logoutBusy \in BOOLEAN /\ p1.overview \in {"loading", "settled"}
    BY <1>11 DEF PageSound, Typed
  <2>2. QED
    BY <1>11, <1>12, <2>1, ShellChange
<1>14. v.page = "login" /\ v.wf = p.wf /\ v.calls = p.calls /\ v.load = "none"
  BY <1>9, <1>10, <1>12 DEF Changes, PageFields
<1>15. FlowWaits(v)
  BY <1>8, <1>9, <1>14, WorkflowFacts, IdleFacts DEF FlowWaits, MemoryQuiet, PrivacyQuiet
<1>16. DetailWaits(v) /\ LoadWaits(v)
  BY <1>14 DEF DetailWaits, LoadWaits
<1>17. Backed(v)
  BY <1>9, <1>14 DEF Backed, MemoryQuiet
<1>18. QED
  BY <1>13, <1>15, <1>16, <1>17 DEF PageInv, v

\* The overview is awaited.
LEMMA LoadOverviewFacts ==
  ASSUME NEW u, NEW D, PageInv(u, D), u.page = "overview"
  PROVE  PageInv(LoadOverview(u), D)
<1> DEFINE x == [u EXCEPT !.overview = "loading"]
           v == LoadOverview(u)
<1>0. PageSound(u, D)
  BY DEF PageInv
<1>1. v = Send(x, "overview", None, None, 0)
  BY DEF LoadOverview
<1>2. Changes(u, x, {"overview"}) /\ x.overview = "loading"
  BY <1>0 DEF Changes, PageFields, PageSound, Typed
<1> HIDE DEF x, v
<1>3. /\ Changes(u, x, {"csrf", "loginBusy", "logoutBusy", "overview"}) /\ x.page = "overview"
      /\ x.csrf = u.csrf /\ x.loginBusy = u.loginBusy /\ x.logoutBusy = u.logoutBusy
  BY <1>2 DEF Changes, PageFields
<1>4. PageInv(x, D)
  <2>1. x.csrf \in BOOLEAN /\ x.loginBusy \in BOOLEAN /\ x.logoutBusy \in BOOLEAN
    BY <1>0, <1>3 DEF PageSound, Typed
  <2>2. QED
    BY <1>2, <1>3, <2>1, ShellChange DEF PageInv
<1>5. /\ Changes(x, v, {"calls"}) /\ SentTo(x.calls, NewCall("overview", None, None, 0), v.calls)
      /\ PageSound(v, D)
      /\ \A a, b : Live(x, a, b) => Live(v, a, b)
  <2>1. "overview" \in Channels /\ None \in OnPage /\ 0 \in Nat /\ PageSound(x, D)
    BY <1>4 DEF Channels, OnPage, PageInv
  <2>2. QED
    BY <1>1, <1>3, <2>1, SendSound
<1>6. FlowWaits(v) /\ DetailWaits(v) /\ LoadWaits(v)
  BY <1>4, <1>5, SentWaits DEF PageInv
<1>7. Backed(v)
  <2>1. v.load = x.load /\ v.list = x.list
    BY <1>5 DEF Changes, PageFields
  <2>2. QED
    BY <1>4, <1>5, <2>1 DEF Backed, SentTo, NewCall, PageInv
<1>8. QED
  BY <1>5, <1>6, <1>7 DEF PageInv, v

\* A list or a catalog that cannot be shown.
LEMMA ListErrorFacts ==
  ASSUME NEW u, NEW D, PageSound(u, D), u.page = "memory",
         \A c \in u.calls : c.live /\ c.of \in Panes => c.chan \notin {"catalog", "list"}
  PROVE  LET v == ListError(u)
         IN  /\ PageSound(v, D) /\ DetailWaits(v) /\ LoadWaits(v) /\ Backed(v)
             /\ FlowWaits(u) => FlowWaits(v)
<1> DEFINE keep == ResultVisible(u)
           x == ClearRows(u, FALSE, keep)
           v == ListError(u)
<1>0. keep \in BOOLEAN /\ v = [x EXCEPT !.load = "none"]
  BY DEF ResultVisible, ListError
<1> HIDE DEF keep
<1>1. /\ Changes(u, x, {"calls", "wf", "detail", "detailLoading", "list", "sel"})
      /\ PassedTo(u.calls, DetailKeys \cup Clearing(OfPane(u.pane)), x.calls)
      /\ x.list = {}
      /\ PageSound(x, D)
      /\ FlowWaits(u) => FlowWaits(x)
      /\ DetailWaits(x)
  BY <1>0, ClearRowsFacts
<1> HIDE DEF x, v
<1>2. Changes(x, v, {"load"}) /\ v.load = "none"
  BY <1>0, <1>1 DEF Changes, PageFields
<1>3. /\ PageSound(v, D)
      /\ FlowWaits(x) => FlowWaits(v)
      /\ DetailWaits(x) => DetailWaits(v)
  BY <1>1, <1>2, LoadChange
<1>4. v.page = "memory" /\ v.calls = x.calls
  BY <1>1, <1>2 DEF Changes, PageFields
<1>5. LoadWaits(v)
  BY <1>2, <1>4 DEF LoadWaits
<1>6. Backed(v)
  BY <1>1, <1>2, <1>4 DEF Backed, PassedTo
<1>7. QED
  BY <1>1, <1>3, <1>5, <1>6 DEF v

\* A clicked row's detail is awaited.
LEMMA SelectRowFacts ==
  ASSUME NEW u, NEW i \in Items, NEW D, PageInv(u, D), u.page = "memory"
  PROVE  PageInv(SelectRow(u, i), D)
<1> DEFINE x == IF i # u.sel THEN ClearDetail(u, FALSE) ELSE u
           y == [x EXCEPT !.sel = i]
           v == SelectRow(u, i)
<1>1. v = LoadDetail(y)
  BY DEF SelectRow
<1>2. /\ PageSound(x, D) /\ FlowWaits(x) /\ LoadWaits(x) /\ Backed(x) /\ x.page = "memory"
      /\ i # u.sel => x.detail = None /\ PaneCalm(x)
      /\ i = u.sel => x.sel = i
  <2>1. CASE i = u.sel
    BY <2>1 DEF PageInv
  <2>2. CASE i # u.sel
    <3> DEFINE z == ClearDetail(u, FALSE)
    <3>1. /\ Changes(u, z, {"calls", "wf", "detail", "detailLoading"})
          /\ z.detail = None /\ PaneCalm(z)
          /\ PageSound(z, D) /\ FlowWaits(z) /\ LoadWaits(z) /\ Backed(z)
      BY ClearDetailFacts DEF PageInv
    <3>2. x = z
      BY <2>2
    <3> HIDE DEF x, z
    <3>3. z.page = "memory"
      BY <3>1 DEF Changes, PageFields
    <3>4. QED
      BY <2>2, <3>1, <3>2, <3>3
  <2>3. QED
    BY <2>1, <2>2
<1> HIDE DEF x, v
<1>3. Changes(x, y, {"sel"}) /\ y.sel = i
  BY <1>2 DEF Changes, PageFields, PageSound, Typed
<1> HIDE DEF y
<1>4. /\ y.page = "memory" /\ y.pane = x.pane /\ y.list = x.list /\ y.scope = x.scope /\ y.detail = x.detail
      /\ y.prefs = x.prefs /\ y.detailLoading = x.detailLoading /\ y.wf = x.wf /\ y.calls = x.calls
      /\ y.load = x.load /\ y.page = x.page
  BY <1>2, <1>3 DEF Changes, PageFields
<1>5. PageSound(y, D) /\ FlowWaits(y) /\ LoadWaits(y) /\ Backed(y)
  <2>1. CASE i = u.sel
    <3>1. /\ Changes(x, y, {"csrf", "loginBusy", "logoutBusy", "overview"})
          /\ y.csrf = x.csrf /\ y.loginBusy = x.loginBusy /\ y.logoutBusy = x.logoutBusy
          /\ y.overview = x.overview
      BY <1>2, <1>3, <2>1 DEF Changes, PageFields
    <3>2. /\ x.csrf \in BOOLEAN /\ x.loginBusy \in BOOLEAN /\ x.logoutBusy \in BOOLEAN
          /\ x.overview \in {"loading", "settled"}
      BY <1>2 DEF PageSound, Typed
    <3>3. QED
      BY <1>2, <3>1, <3>2, ShellChange
  <2>2. CASE i # u.sel
    <3>1. Changes(x, y, {"list", "sel", "detail", "detailLoading"})
      BY <1>3 DEF Changes
    <3>2. PageRowsOK(y)
      BY <1>2, <1>4, <2>2 DEF PageSound, PageRowsOK
    <3>3. /\ y.list \subseteq Shows /\ y.sel \in Items \cup {None} /\ y.detail = None
          /\ y.detail \in Shows \cup {None} /\ y.detailLoading \in BOOLEAN
      BY <1>2, <1>3, <1>4, <2>2 DEF PageSound, Typed
    <3>4. \A w \in OfPane(x.pane) : x.wf[w].auth = None
      BY <1>2, <2>2 DEF PaneCalm, FlowCleared
    <3>5. x.load # "none" => y.list = {}
      BY <1>2, <1>4 DEF Backed
    <3>6. QED
      BY <1>2, <3>1, <3>2, <3>3, <3>4, <3>5, RowsChange
  <2>3. QED
    BY <2>1, <2>2
<1>6. /\ PageSound(LoadDetail(y), D)
      /\ FlowWaits(y) => FlowWaits(LoadDetail(y))
      /\ DetailWaits(LoadDetail(y))
      /\ LoadWaits(y) => LoadWaits(LoadDetail(y))
      /\ Backed(y) => Backed(LoadDetail(y))
  BY <1>3, <1>4, <1>5, LoadDetailFacts
<1>7. QED
  BY <1>1, <1>5, <1>6 DEF PageInv, v


\* Choosing a scope, in a form the provers use.
LEMMA ScopeExcept ==
  ASSUME NEW u, DOMAIN u = PageFields, NEW p, NEW s
  PROVE  LET v == [u EXCEPT !.scope[p] = s]
         IN  Changes(u, v, {"scope"}) /\ v.scope = [u.scope EXCEPT ![p] = s]
<1>1. [u EXCEPT !.scope[p] = s] = [u EXCEPT !.scope = [u.scope EXCEPT ![p] = s]]
  BY DEF PageFields
<1>2. QED
  BY <1>1 DEF Changes, PageFields

\* A chosen scope's rows are awaited; without one, none.
LEMMA ChooseScopeFacts ==
  ASSUME NEW u, NEW D, PageInv(u, D), u.page = "memory", u.load # "scopes",
         NEW s \in u.catalog[u.pane] \cup {None}, s # u.scope[u.pane]
  PROVE  PageInv(ChooseScope(u, s), D)
<1> DEFINE p == u.pane
           C == {<<"list", p>>}
           b == BumpSequence(u, C)
           y == ClearRows(b, FALSE, FALSE)
           x == [y EXCEPT !.scope[p] = s]
           z == IF p = "records" THEN ClearRows(x, FALSE, FALSE) ELSE x
           n == [z EXCEPT !.load = "none"]
           v == ChooseScope(u, s)
<1>0. PageSound(u, D) /\ FlowWaits(u) /\ Backed(u) /\ p \in Panes
  BY DEF PageInv, PageSound, Typed
<1>1. v = IF s # None THEN LoadList(x) ELSE n
  BY DEF ChooseScope
<1>2. /\ Changes(u, b, {"calls"}) /\ PassedTo(u.calls, C, b.calls)
      /\ PageSound(b, D)
  BY <1>0, BumpSound
<1>3. FlowWaits(b)
  <2>1. C \cap Clearing(Workflows) = {}
    BY DEF Clearing
  <2>2. QED
    BY <1>0, <1>2, <2>1, PassedWaits
<1>4. b.pane = p /\ b.scope = u.scope /\ b.catalog = u.catalog /\ b.page = "memory" /\ b.load = u.load
  BY <1>2 DEF Changes, PageFields
<1> HIDE DEF b
<1>5. /\ Changes(b, y, {"calls", "wf", "detail", "detailLoading", "list", "sel"})
      /\ PassedTo(b.calls, DetailKeys \cup Clearing(OfPane(b.pane)), y.calls)
      /\ y.list = {} /\ y.detail = None
      /\ PageSound(y, D)
      /\ FlowWaits(y)
      /\ DetailWaits(y)
  BY <1>2, <1>3, ClearRowsFacts
<1> HIDE DEF y
<1>6. y.pane = p /\ y.scope = u.scope /\ y.catalog = u.catalog /\ y.page = "memory" /\ y.load = u.load
  BY <1>4, <1>5 DEF Changes, PageFields
<1>7. Changes(y, x, {"scope"}) /\ x.scope = [y.scope EXCEPT ![p] = s]
  <2>1. DOMAIN y = PageFields
    BY <1>5 DEF PageSound, Typed
  <2>2. QED
    BY <2>1, ScopeExcept
<1> HIDE DEF x
<1>8. /\ Changes(y, x, {"catalog", "scope"}) /\ x.catalog = y.catalog /\ x.pane = p /\ x.page = "memory"
      /\ x.load = u.load /\ x.calls = y.calls /\ x.list = {} /\ x.detail = None
  BY <1>5, <1>6, <1>7 DEF Changes, PageFields
<1>9. \A c \in y.calls : c.live /\ c.of \in Panes => c.chan # "list"
  BY <1>2, <1>5, <1>0 DEF PassedTo, Key, PageSound, AllFit, Fits
<1>10. /\ PageSound(x, D) /\ FlowWaits(x) /\ DetailWaits(x)
  <2>1. /\ y.catalog \in [Panes -> SUBSET Scopes] /\ y.scope \in [Panes -> Scopes \cup {None}]
        /\ \A q \in Panes : y.scope[q] \in y.catalog[q] \cup {None}
    BY <1>5 DEF PageSound, Typed
  <2>2. s \in y.catalog[p] \cup {None} /\ s \in Scopes \cup {None}
    BY <1>0, <1>6, <2>1
  <2>3. x.catalog \in [Panes -> SUBSET Scopes] /\ x.scope \in [Panes -> Scopes \cup {None}]
    BY <1>7, <1>8, <2>1, <2>2
  <2>4. \A q \in Panes : x.scope[q] \in x.catalog[q] \cup {None}
    BY <1>7, <1>8, <2>1, <2>2
  <2>5. QED
    BY <1>5, <1>8, <1>9, <2>3, <2>4, ScopeChange
<1>11. \A c \in x.calls : c.live /\ c.of \in Panes => c.chan \notin {"catalog", "list"}
  BY <1>0, <1>2, <1>5, <1>8, <1>9 DEF PassedTo, Backed
<1>12. CASE s # None
  <2>1. \A c \in x.calls : c.live /\ c.of \in Panes => c.chan # "catalog"
    BY <1>11
  <2>2. LET w == LoadList(x)
        IN  /\ PageSound(w, D) /\ DetailWaits(w) /\ LoadWaits(w) /\ Backed(w)
            /\ FlowWaits(x) => FlowWaits(w)
    BY <1>8, <1>10, <2>1, LoadListFacts
  <2>3. QED
    BY <1>1, <1>10, <1>12, <2>2 DEF PageInv
<1>13. CASE s = None
  <2>1. /\ PageSound(z, D) /\ FlowWaits(z) /\ DetailWaits(z) /\ z.list = {} /\ z.page = "memory"
        /\ \A c \in z.calls : c.live => c \in x.calls
    <3>1. CASE p = "records"
      <4> DEFINE t == ClearRows(x, FALSE, FALSE)
      <4>1. /\ Changes(x, t, {"calls", "wf", "detail", "detailLoading", "list", "sel"})
            /\ PassedTo(x.calls, DetailKeys \cup Clearing(OfPane(x.pane)), t.calls)
            /\ t.list = {}
            /\ PageSound(t, D)
            /\ FlowWaits(t)
            /\ DetailWaits(t)
        BY <1>10, ClearRowsFacts
      <4>2. z = t
        BY <3>1
      <4> HIDE DEF t, z
      <4>3. t.page = "memory"
        BY <1>8, <4>1 DEF Changes, PageFields
      <4>4. QED
        BY <4>1, <4>2, <4>3 DEF PassedTo
    <3>2. CASE p # "records"
      BY <1>8, <1>10, <3>2
    <3>3. QED
      BY <3>1, <3>2
  <2> HIDE DEF z
  <2>2. Changes(z, n, {"load"}) /\ n.load = "none"
    BY <2>1 DEF Changes, PageFields, PageSound, Typed
  <2> HIDE DEF n
  <2>3. PageSound(n, D) /\ FlowWaits(n) /\ DetailWaits(n)
    BY <2>1, <2>2, LoadChange
  <2>4. n.page = "memory" /\ n.calls = z.calls
    BY <2>1, <2>2 DEF Changes, PageFields
  <2>5. LoadWaits(n) /\ Backed(n)
    BY <1>11, <2>1, <2>2, <2>4 DEF LoadWaits, Backed
  <2>6. QED
    BY <1>1, <1>13, <2>3, <2>5 DEF PageInv
<1>14. QED
  BY <1>12, <1>13

\* A field of the Privacy view replaced, for the provers.
LEMMA PrefsExcept ==
  ASSUME NEW u, DOMAIN u = PageFields, NEW x
  PROVE  /\ Changes(u, [u EXCEPT !.prefs.off = x], {"prefs"})
         /\ [u EXCEPT !.prefs.off = x].prefs = [u.prefs EXCEPT !.off = x]
         /\ Changes(u, [u EXCEPT !.prefs.shown = x], {"prefs"})
         /\ [u EXCEPT !.prefs.shown = x].prefs = [u.prefs EXCEPT !.shown = x]
         /\ Changes(u, [u EXCEPT !.prefs.load = x], {"prefs"})
         /\ [u EXCEPT !.prefs.load = x].prefs = [u.prefs EXCEPT !.load = x]
         /\ Changes(u, [u EXCEPT !.prefs.scope = x], {"prefs"})
         /\ [u EXCEPT !.prefs.scope = x].prefs = [u.prefs EXCEPT !.scope = x]
         /\ Changes(u, [u EXCEPT !.prefs.catalog = x], {"prefs"})
         /\ [u EXCEPT !.prefs.catalog = x].prefs = [u.prefs EXCEPT !.catalog = x]
<1>1. /\ [u EXCEPT !.prefs.off = x] = [u EXCEPT !.prefs = [u.prefs EXCEPT !.off = x]]
      /\ [u EXCEPT !.prefs.shown = x] = [u EXCEPT !.prefs = [u.prefs EXCEPT !.shown = x]]
      /\ [u EXCEPT !.prefs.load = x] = [u EXCEPT !.prefs = [u.prefs EXCEPT !.load = x]]
      /\ [u EXCEPT !.prefs.scope = x] = [u EXCEPT !.prefs = [u.prefs EXCEPT !.scope = x]]
      /\ [u EXCEPT !.prefs.catalog = x] = [u EXCEPT !.prefs = [u.prefs EXCEPT !.catalog = x]]
  BY DEF PageFields
<1>2. \A q : LET w == [u EXCEPT !.prefs = q] IN Changes(u, w, {"prefs"}) /\ w.prefs = q
  BY DEF Changes, PageFields
<1>3. QED
  BY <1>1, <1>2, Zenon

\* The preferences after one field was set.
LEMMA PrefsOff ==
  ASSUME NEW p \in Preferences, NEW x \in BOOLEAN
  PROVE  LET q == [p EXCEPT !.off = x]
         IN  /\ q \in Preferences /\ q.catalog = p.catalog /\ q.scope = p.scope /\ q.shown = p.shown
             /\ q.load = p.load /\ q.off = x
BY DEF Preferences

\* Replacing the preferences that are shown ...
LEMMA PrefsShown ==
  ASSUME NEW p \in Preferences, NEW x \in Shows \cup {None}
  PROVE  LET q == [p EXCEPT !.shown = x]
         IN  /\ q \in Preferences /\ q.catalog = p.catalog /\ q.scope = p.scope /\ q.shown = x
             /\ q.load = p.load
BY DEF Preferences

\* ... what is awaited ...
LEMMA PrefsLoad ==
  ASSUME NEW p \in Preferences, NEW x \in {"none", "scopes", "list"}
  PROVE  LET q == [p EXCEPT !.load = x]
         IN  /\ q \in Preferences /\ q.catalog = p.catalog /\ q.scope = p.scope /\ q.shown = p.shown
             /\ q.load = x
BY DEF Preferences

\* ... the scope ...
LEMMA PrefsScope ==
  ASSUME NEW p \in Preferences, NEW x \in Scopes \cup {None}
  PROVE  LET q == [p EXCEPT !.scope = x]
         IN  /\ q \in Preferences /\ q.catalog = p.catalog /\ q.scope = x /\ q.shown = p.shown
             /\ q.load = p.load
BY DEF Preferences

\* ... and the scopes to choose from.
LEMMA PrefsCatalog ==
  ASSUME NEW p \in Preferences, NEW x \in SUBSET Scopes
  PROVE  LET q == [p EXCEPT !.catalog = x]
         IN  /\ q \in Preferences /\ q.catalog = x /\ q.scope = p.scope /\ q.shown = p.shown
             /\ q.load = p.load
BY DEF Preferences

\* update() enables or disables the preview button, nothing else.
LEMMA UpdateFacts ==
  ASSUME NEW u, NEW D, PageSound(u, D)
  PROVE  LET v == Update(u)
         IN  /\ Changes(u, v, {"prefs"}) /\ v.prefs.load = u.prefs.load /\ v.prefs.scope = u.prefs.scope
             /\ PageSound(v, D)
             /\ FlowWaits(u) => FlowWaits(v)
             /\ DetailWaits(u) => DetailWaits(v)
             /\ LoadWaits(u) => LoadWaits(v)
             /\ Backed(u) => Backed(v)
<1> DEFINE o == u.prefs.scope = None \/ u.wf["change"].auth # None
           v == [u EXCEPT !.prefs.off = o]
<1>0. DOMAIN u = PageFields /\ u.prefs \in Preferences /\ u.prefs.scope \in u.prefs.catalog \cup {None}
      /\ (u.page # "privacy" => u.prefs.shown = None)
  BY DEF PageSound, Typed, PageRowsOK
<1>1. o \in BOOLEAN
  OBVIOUS
<1>2. Update(u) = v
  BY DEF Update
<1> HIDE DEF o
<1>3. Changes(u, v, {"prefs"}) /\ v.prefs = [u.prefs EXCEPT !.off = o]
  BY <1>0, PrefsExcept, Zenon
<1> HIDE DEF v
<1>4. /\ v.prefs \in Preferences /\ v.prefs.catalog = u.prefs.catalog /\ v.prefs.scope = u.prefs.scope
      /\ v.prefs.shown = u.prefs.shown /\ v.prefs.load = u.prefs.load
  BY <1>0, <1>1, <1>3, PrefsOff
<1>5. /\ PageSound(v, D)
      /\ FlowWaits(u) => FlowWaits(v)
      /\ DetailWaits(u) => DetailWaits(v)
      /\ LoadWaits(u) => LoadWaits(v)
      /\ Backed(u) => Backed(v)
  BY <1>0, <1>3, <1>4, PrefsChange
<1>6. QED
  BY <1>2, <1>3, <1>4, <1>5

\* update() keeps the invariant.
LEMMA UpdateKeeps ==
  ASSUME NEW u, NEW D, PageInv(u, D)
  PROVE  PageInv(Update(u), D)
<1> DEFINE v == Update(u)
<1>1. /\ PageSound(v, D)
      /\ FlowWaits(u) => FlowWaits(v)
      /\ DetailWaits(u) => DetailWaits(v)
      /\ LoadWaits(u) => LoadWaits(v)
      /\ Backed(u) => Backed(v)
  BY UpdateFacts DEF PageInv
<1>2. QED
  BY <1>1 DEF PageInv

\* The change workflow is given up.
LEMMA ClearedChange ==
  ASSUME NEW u, NEW keep \in BOOLEAN, NEW D, PageInv(u, D)
  PROVE  LET v == ClearWorkflows(u, {"change"}, keep)
         IN  /\ PageInv(v, D)
             /\ Changes(u, v, {"calls", "wf"})
             /\ v.wf["change"].auth = None /\ ~Engaged(v.wf["change"])
             /\ ~keep => v.wf["change"] = IdleFlow
             /\ \A c \in v.calls : c.live => c.of # "change" \/ c.chan \notin {"preview", "confirm"}
<1> DEFINE W == {"change"}
           v == ClearWorkflows(u, W, keep)
<1>0. W \in SUBSET Workflows /\ "change" \in W /\ PageSound(u, D) /\ W = {"change"}
  BY DEF Workflows, PageInv
<1> HIDE DEF W
<1>1. /\ Changes(u, v, {"calls", "wf"})
      /\ PassedTo(u.calls, Clearing(W), v.calls)
      /\ CallsOK(v.calls, D) /\ Single(v.calls)
      /\ v.wf \in [Workflows -> Flow]
      /\ \A w \in W : FlowCleared(v.wf[w], u.wf[w], keep)
      /\ \A w \in Workflows \ W : v.wf[w] = u.wf[w]
  BY <1>0, ClearWorkflowsFacts
<1>2. /\ PageSound(v, D)
      /\ FlowWaits(u) => FlowWaits(v)
      /\ DetailWaits(u) => DetailWaits(v)
      /\ LoadWaits(u) => LoadWaits(v)
      /\ Backed(u) => Backed(v)
  BY <1>0, ClearWorkflowsSound
<1> HIDE DEF v
<1>3. PageInv(v, D)
  BY <1>2 DEF PageInv
<1>4. v.wf["change"].auth = None /\ ~Engaged(v.wf["change"]) /\ (~keep => v.wf["change"] = IdleFlow)
  BY <1>0, <1>1 DEF FlowCleared
<1>5. \A c \in v.calls : c.live => c.of # "change" \/ c.chan \notin {"preview", "confirm"}
  BY <1>0, <1>1, KeyIn DEF PassedTo
<1>6. QED
  BY <1>0, <1>1, <1>3, <1>4, <1>5 DEF v

\* A request of no pane of the Memory view.
LEMMA SentBacked ==
  ASSUME NEW u, NEW v, Changes(u, v, {"calls"}), NEW n, SentTo(u.calls, n, v.calls), n.of \notin Panes,
         Backed(u)
  PROVE  Backed(v)
<1>1. v.load = u.load /\ v.list = u.list
  BY DEF Changes, PageFields
<1>2. QED
  BY <1>1 DEF Backed, SentTo

\* "privacy" is not a pane.
LEMMA NotPanes ==
  /\ "privacy" \notin Panes /\ None \in OnPage /\ 0 \in Nat
  /\ \A w \in Workflows : w \notin Panes
BY DEF Panes, OnPage, Workflows, MemoryWorkflows, OfPane

\* clearChoice() keeps the invariant.
LEMMA ClearChoiceFacts ==
  ASSUME NEW u, NEW D, PageInv(u, D)
  PROVE  PageInv(ClearChoice(u), D)
<1> DEFINE x == ClearWorkflows(u, {"change"}, FALSE)
<1>1. PageInv(x, D)
  BY ClearedChange
<1>2. ClearChoice(u) = Update(x)
  BY DEF ClearChoice
<1> HIDE DEF x
<1>3. QED
  BY <1>1, <1>2, UpdateKeeps

\* The Privacy view waits for what it has asked for.
LEMMA LoadSet ==
  ASSUME NEW u, NEW D, PageSound(u, D), Backed(u), FlowWaits(u), u.page = "privacy",
         NEW l \in {"scopes", "list"},
         l = "scopes" => Live(u, "catalog", "privacy"),
         l = "list" => Live(u, "list", "privacy")
  PROVE  PageInv([u EXCEPT !.prefs.load = l], D)
<1> DEFINE v == [u EXCEPT !.prefs.load = l]
<1>0. DOMAIN u = PageFields /\ u.prefs \in Preferences /\ u.prefs.scope \in u.prefs.catalog \cup {None}
  BY DEF PageSound, Typed
<1>1. Changes(u, v, {"prefs"}) /\ v.prefs = [u.prefs EXCEPT !.load = l]
  BY <1>0, PrefsExcept, Zenon
<1> HIDE DEF v
<1>2. /\ v.prefs \in Preferences /\ v.prefs.catalog = u.prefs.catalog /\ v.prefs.scope = u.prefs.scope
      /\ v.prefs.shown = u.prefs.shown /\ v.prefs.load = l
  <2>1. l \in {"none", "scopes", "list"}
    OBVIOUS
  <2> DEFINE q == [u.prefs EXCEPT !.load = l]
  <2>2. /\ q \in Preferences /\ q.catalog = u.prefs.catalog /\ q.scope = u.prefs.scope
        /\ q.shown = u.prefs.shown /\ q.load = l
    BY <1>0, <2>1, PrefsLoad, Zenon
  <2>3. v.prefs = q
    BY <1>1
  <2> HIDE DEF q
  <2>4. QED
    BY <2>2, <2>3
<1>3. PageSound(v, D) /\ FlowWaits(v) /\ Backed(v)
  BY <1>0, <1>1, <1>2, PrefsChange
<1>4. v.page = "privacy" /\ v.calls = u.calls
  BY <1>1 DEF Changes, PageFields
<1>5. DetailWaits(v) /\ LoadWaits(v)
  BY <1>2, <1>4 DEF DetailWaits, LoadWaits, Live
<1>6. QED
  BY <1>3, <1>5 DEF PageInv, v

\* The preferences shown are taken away.
LEMMA ShownCleared ==
  ASSUME NEW u, NEW D, PageSound(u, D)
  PROVE  LET v == [u EXCEPT !.prefs.shown = None]
         IN  /\ Changes(u, v, {"prefs"}) /\ v.prefs.scope = u.prefs.scope /\ v.prefs.load = u.prefs.load
             /\ PageSound(v, D)
             /\ FlowWaits(u) => FlowWaits(v)
             /\ DetailWaits(u) => DetailWaits(v)
             /\ LoadWaits(u) => LoadWaits(v)
             /\ Backed(u) => Backed(v)
<1> DEFINE v == [u EXCEPT !.prefs.shown = None]
<1>0. DOMAIN u = PageFields /\ u.prefs \in Preferences /\ u.prefs.scope \in u.prefs.catalog \cup {None}
  BY DEF PageSound, Typed
<1>1. Changes(u, v, {"prefs"}) /\ v.prefs = [u.prefs EXCEPT !.shown = None]
  BY <1>0, PrefsExcept, Zenon
<1> HIDE DEF v
<1>2. /\ v.prefs \in Preferences /\ v.prefs.catalog = u.prefs.catalog /\ v.prefs.scope = u.prefs.scope
      /\ v.prefs.shown = None /\ v.prefs.load = u.prefs.load
  BY <1>0, <1>1, PrefsShown
<1>3. /\ PageSound(v, D)
      /\ FlowWaits(u) => FlowWaits(v)
      /\ DetailWaits(u) => DetailWaits(v)
      /\ LoadWaits(u) => LoadWaits(v)
      /\ Backed(u) => Backed(v)
  BY <1>0, <1>1, <1>2, PrefsChange
<1>4. QED
  BY <1>1, <1>2, <1>3 DEF v

\* loadPreferences() keeps the invariant, with a scope and without.
LEMMA LoadPreferencesFacts ==
  ASSUME NEW u, NEW D, PageInv(u, D), u.page = "privacy"
  PROVE  PageInv(LoadPreferences(u), D)
<1> DEFINE a == ClearWorkflows(u, {"change"}, TRUE)
           s == u.prefs.scope
           x == [a EXCEPT !.prefs.shown = None]
           y == Send(x, "list", "privacy", s, 0)
<1>1. PageInv(a, D) /\ Changes(u, a, {"calls", "wf"})
  BY ClearedChange
<1>2. LoadPreferences(u) = IF s = None THEN Update(x) ELSE [y EXCEPT !.prefs.load = "list"]
  BY DEF LoadPreferences, ClearChange
<1> HIDE DEF a
<1>3. /\ PageInv(x, D)
      /\ Changes(a, x, {"prefs"})
  BY <1>1, ShownCleared DEF PageInv
<1> HIDE DEF x
<1>4. x.page = "privacy"
  BY <1>1, <1>3 DEF Changes, PageFields
<1>5. CASE s = None
  BY <1>2, <1>3, <1>5, UpdateKeeps
<1>6. CASE s # None
  <2>1. s \in Items \cup Scopes /\ s \in OnPage
    BY <1>6 DEF PageInv, PageSound, Typed, Preferences, OnPage
  <2>2. /\ Changes(x, y, {"calls"}) /\ SentTo(x.calls, NewCall("list", "privacy", s, 0), y.calls)
        /\ PageSound(y, D)
        /\ Live(y, "list", "privacy")
        /\ \A i, j : Live(x, i, j) => Live(y, i, j)
    <3>1. "list" \in Channels /\ PageSound(x, D)
      BY <1>3 DEF Channels, PageInv
    <3>2. QED
      BY <1>4, <2>1, <3>1, NotPanes, SendSound
  <2> HIDE DEF y
  <2>3. FlowWaits(y)
    BY <1>3, <2>2, SentWaits DEF PageInv
  <2>4. Backed(y)
    <3>1. NewCall("list", "privacy", s, 0).of \notin Panes
      BY NotPanes DEF NewCall
    <3>2. QED
      BY <1>3, <2>2, <3>1, SentBacked DEF PageInv
  <2>5. y.page = "privacy"
    BY <1>4, <2>2 DEF Changes, PageFields
  <2>6. PageInv([y EXCEPT !.prefs.load = "list"], D)
    BY <2>2, <2>3, <2>4, <2>5, LoadSet
  <2>7. QED
    BY <1>2, <1>6, <2>6
<1>7. QED
  BY <1>5, <1>6

\* loadCatalog() of the Privacy view: its scopes are awaited.
LEMMA LoadPrivacyFacts ==
  ASSUME NEW u, NEW D, PageSound(u, D), Backed(u), FlowWaits(u), u.page = "privacy"
  PROVE  PageInv(LoadPrivacy(u), D)
<1> DEFINE C == {<<"list", "privacy">>}
           W == {"change"}
           b == BumpSequence(u, C)
           a == ClearWorkflows(b, W, FALSE)
           y == Send(a, "catalog", "privacy", None, 0)
           x == [y EXCEPT !.prefs.shown = None]
           v == LoadPrivacy(u)
<1>1. v = [x EXCEPT !.prefs.load = "scopes"]
  BY DEF LoadPrivacy
<1>2. /\ Changes(u, b, {"calls"}) /\ PageSound(b, D) /\ Backed(b) /\ FlowWaits(b)
  <2>1. /\ Changes(u, b, {"calls"}) /\ PassedTo(u.calls, C, b.calls) /\ PageSound(b, D) /\ Backed(b)
    BY BumpSound
  <2>2. C \cap Clearing(Workflows) = {}
    BY DEF Clearing
  <2>3. QED
    BY <2>1, <2>2, PassedWaits
<1> HIDE DEF b
<1>3. Changes(b, a, {"calls", "wf"}) /\ PageSound(a, D) /\ Backed(a) /\ FlowWaits(a)
  <2>1. W \in SUBSET Workflows /\ FALSE \in BOOLEAN
    BY DEF Workflows
  <2> HIDE DEF W
  <2>2. QED
    BY <1>2, <2>1, ClearWorkflowsFacts, ClearWorkflowsSound
<1> HIDE DEF a, v
<1>4. a.page = "privacy"
  BY <1>2, <1>3 DEF Changes, PageFields
<1>5. /\ Changes(a, y, {"calls"}) /\ SentTo(a.calls, NewCall("catalog", "privacy", None, 0), y.calls)
      /\ PageSound(y, D)
      /\ Live(y, "catalog", "privacy")
      /\ \A i, j : Live(a, i, j) => Live(y, i, j)
  <2>1. "catalog" \in Channels
    BY DEF Channels
  <2>2. QED
    BY <1>3, <1>4, <2>1, NotPanes, SendSound
<1> HIDE DEF y
<1>6. FlowWaits(y) /\ Backed(y) /\ y.page = "privacy"
  <2>1. NewCall("catalog", "privacy", None, 0).of \notin Panes
    BY NotPanes DEF NewCall
  <2>2. Backed(y)
    BY <1>3, <1>5, <2>1, SentBacked
  <2>3. y.page = "privacy"
    BY <1>4, <1>5 DEF Changes, PageFields
  <2>4. QED
    BY <1>3, <1>5, <2>2, <2>3, SentWaits
<1>7. Changes(y, x, {"prefs"}) /\ PageSound(x, D) /\ FlowWaits(x) /\ Backed(x)
  BY <1>5, <1>6, ShownCleared
<1> HIDE DEF x
<1>8. x.page = "privacy" /\ Live(x, "catalog", "privacy")
  BY <1>5, <1>6, <1>7 DEF Changes, PageFields, Live
<1>9. QED
  BY <1>1, <1>7, <1>8, LoadSet DEF v

\* Another scope is chosen in the Privacy view.
LEMMA PickPreferencesFacts ==
  ASSUME NEW u, NEW D, PageInv(u, D), u.page = "privacy", NEW s \in u.prefs.catalog \cup {None}
  PROVE  PageInv(LoadPreferences(ClearChoice([u EXCEPT !.prefs.scope = s])), D)
<1> DEFINE W == {"change"}
           a == ClearWorkflows(u, W, FALSE)
           t == [u EXCEPT !.prefs.scope = s]
           x == ClearWorkflows(t, W, FALSE)
<1>0. /\ DOMAIN u = PageFields /\ u.prefs \in Preferences /\ s \in Scopes \cup {None}
      /\ (u.page # "privacy" => u.prefs.shown = None)
  BY DEF PageInv, PageSound, Typed, PageRowsOK, Preferences
<1>1. Changes(u, t, {"prefs"}) /\ t.prefs = [u.prefs EXCEPT !.scope = s]
  BY <1>0, PrefsExcept, Zenon
<1> HIDE DEF t
<1>2. /\ PageInv(a, D) /\ Changes(u, a, {"calls", "wf"}) /\ a.wf["change"].auth = None
      /\ \A c \in a.calls : c.live => c.of # "change" \/ c.chan \notin {"preview", "confirm"}
  BY ClearedChange
<1>3. Changes(a, x, {"prefs"}) /\ x.prefs = [u.prefs EXCEPT !.scope = s]
  <2>1. t.calls = u.calls /\ t.wf = u.wf /\ DOMAIN t = PageFields /\ \A f \in PageFields \ {"prefs"} : t[f] = u[f]
    BY <1>1 DEF Changes, PageFields
  <2> DEFINE C == {"preview", "confirm"} \X W
             S == {IF <<c.chan, c.of>> \in C THEN [c EXCEPT !.live = FALSE] ELSE c : c \in u.calls}
             g == [w \in Workflows |-> IF w \in W
                     THEN [IdleFlow EXCEPT !.result = IF FALSE THEN u.wf[w].result ELSE None] ELSE u.wf[w]]
  <2>2. a = [[u EXCEPT !.calls = S] EXCEPT !.wf = g]
    BY DEF ClearWorkflows, BumpSequence
  <2>3. x = [[t EXCEPT !.calls = S] EXCEPT !.wf = g]
    BY <2>1 DEF ClearWorkflows, BumpSequence
  <2> HIDE DEF S, g, a, x
  <2>4. /\ DOMAIN x = PageFields /\ x.calls = S /\ x.wf = g /\ a.calls = S /\ a.wf = g
        /\ \A f \in PageFields \ {"calls", "wf"} : a[f] = u[f] /\ x[f] = t[f]
    BY <1>0, <2>1, <2>2, <2>3 DEF PageFields
  <2>5. \A f \in PageFields \ {"prefs"} : x[f] = a[f]
    BY <2>1, <2>4
  <2>6. x.prefs = t.prefs
    BY <2>4 DEF PageFields
  <2>7. QED
    BY <1>1, <2>4, <2>5, <2>6 DEF Changes
<1>c. ClearChoice(t) = Update(x)
  BY DEF ClearChoice
<1> HIDE DEF a, x, W
<1>4. a.prefs = u.prefs /\ a.page = "privacy" /\ x.page = "privacy"
  BY <1>2, <1>3 DEF Changes, PageFields
<1>5. /\ x.prefs \in Preferences /\ x.prefs.catalog = u.prefs.catalog /\ x.prefs.scope = s
      /\ x.prefs.shown = u.prefs.shown /\ x.prefs.load = u.prefs.load
  BY <1>0, <1>3, PrefsScope
<1>6. PageInv(x, D)
  <2>1. \A c \in a.calls : c.live /\ c.chan = "preview" => c.of # "change"
    BY <1>2
  <2>2. x.prefs.scope \in x.prefs.catalog \cup {None}
    BY <1>5
  <2>3. a.page # "privacy" => x.prefs.shown = None
    BY <1>4
  <2>4. QED
    BY <1>2, <1>3, <1>4, <1>5, <2>1, <2>2, <2>3, PrefsChange DEF PageInv
<1>7. PageInv(Update(x), D) /\ Update(x).page = "privacy"
  <2>1. Changes(x, Update(x), {"prefs"})
    BY <1>6, UpdateFacts DEF PageInv
  <2>2. QED
    BY <1>4, <1>6, <2>1, UpdateKeeps DEF Changes, PageFields
<1>8. QED
  BY <1>7, <1>c, LoadPreferencesFacts DEF t

(* What the user does. *)

\* A request of the shell keeps the invariant ...
LEMMA ShellSend ==
  ASSUME NEW u, NEW D, PageInv(u, D), NEW chan \in {"login", "session", "logout"}
  PROVE  PageInv(Send(u, chan, None, None, 0), D)
<1> DEFINE v == Send(u, chan, None, None, 0)
<1>1. chan \in Channels /\ PageSound(u, D) /\ Backed(u)
  BY DEF Channels, PageInv
<1>2. /\ Changes(u, v, {"calls"}) /\ SentTo(u.calls, NewCall(chan, None, None, 0), v.calls)
      /\ PageSound(v, D)
      /\ \A x, y : Live(u, x, y) => Live(v, x, y)
  BY <1>1, NotPanes, SendSound
<1> HIDE DEF v
<1>3. v.load = u.load /\ v.list = u.list
  BY <1>2 DEF Changes, PageFields
<1>4. Backed(v)
  BY <1>1, <1>2, <1>3 DEF Backed, SentTo, NewCall
<1>5. FlowWaits(v) /\ DetailWaits(v) /\ LoadWaits(v)
  BY <1>2, SentWaits DEF PageInv
<1>6. QED
  BY <1>2, <1>4, <1>5 DEF PageInv, v

\* ... and so do the shell's own fields.
LEMMA ShellKeeps ==
  ASSUME NEW u, NEW v, NEW D, PageInv(u, D), Changes(u, v, {"csrf", "loginBusy", "logoutBusy", "overview"}),
         v.csrf \in BOOLEAN, v.loginBusy \in BOOLEAN, v.logoutBusy \in BOOLEAN,
         v.overview \in {"loading", "settled"}
  PROVE  PageInv(v, D)
BY ShellChange DEF PageInv

\* Setting one of them keeps the invariant.
LEMMA ShellFields ==
  ASSUME NEW u, NEW D, PageInv(u, D), NEW x \in BOOLEAN
  PROVE  /\ PageInv([u EXCEPT !.csrf = x], D) /\ PageInv([u EXCEPT !.loginBusy = x], D)
         /\ PageInv([u EXCEPT !.logoutBusy = x], D)
         /\ PageInv([u EXCEPT !.overview = "settled"], D)
         /\ [u EXCEPT !.overview = "settled"].page = u.page
<1>1. /\ DOMAIN u = PageFields /\ u.csrf \in BOOLEAN /\ u.loginBusy \in BOOLEAN
      /\ u.logoutBusy \in BOOLEAN /\ u.overview \in {"loading", "settled"}
  BY DEF PageInv, PageSound, Typed
<1>2. PageInv([u EXCEPT !.csrf = x], D)
  <2> DEFINE v == [u EXCEPT !.csrf = x]
  <2>1. /\ Changes(u, v, {"csrf", "loginBusy", "logoutBusy", "overview"}) /\ v.csrf = x
        /\ v.loginBusy = u.loginBusy /\ v.logoutBusy = u.logoutBusy /\ v.overview = u.overview
    BY <1>1 DEF Changes, PageFields
  <2> HIDE DEF v
  <2>2. PageInv(v, D)
    BY <1>1, <2>1, ShellKeeps
  <2>3. QED
    BY <2>2 DEF v
<1>3. PageInv([u EXCEPT !.loginBusy = x], D)
  <2> DEFINE v == [u EXCEPT !.loginBusy = x]
  <2>1. /\ Changes(u, v, {"csrf", "loginBusy", "logoutBusy", "overview"}) /\ v.loginBusy = x
        /\ v.csrf = u.csrf /\ v.logoutBusy = u.logoutBusy /\ v.overview = u.overview
    BY <1>1 DEF Changes, PageFields
  <2> HIDE DEF v
  <2>2. PageInv(v, D)
    BY <1>1, <2>1, ShellKeeps
  <2>3. QED
    BY <2>2 DEF v
<1>4. PageInv([u EXCEPT !.logoutBusy = x], D)
  <2> DEFINE v == [u EXCEPT !.logoutBusy = x]
  <2>1. /\ Changes(u, v, {"csrf", "loginBusy", "logoutBusy", "overview"}) /\ v.logoutBusy = x
        /\ v.csrf = u.csrf /\ v.loginBusy = u.loginBusy /\ v.overview = u.overview
    BY <1>1 DEF Changes, PageFields
  <2> HIDE DEF v
  <2>2. PageInv(v, D)
    BY <1>1, <2>1, ShellKeeps
  <2>3. QED
    BY <2>2 DEF v
<1>5. PageInv([u EXCEPT !.overview = "settled"], D) /\ [u EXCEPT !.overview = "settled"].page = u.page
  <2> DEFINE v == [u EXCEPT !.overview = "settled"]
  <2>1. /\ Changes(u, v, {"csrf", "loginBusy", "logoutBusy", "overview"}) /\ v.overview = "settled"
        /\ v.csrf = u.csrf /\ v.loginBusy = u.loginBusy /\ v.logoutBusy = u.logoutBusy /\ v.page = u.page
    BY <1>1 DEF Changes, PageFields
  <2> HIDE DEF v
  <2>2. PageInv(v, D)
    BY <1>1, <2>1, ShellKeeps
  <2>3. QED
    BY <2>1, <2>2 DEF v
<1>6. QED
  BY <1>2, <1>3, <1>4, <1>5

\* PickPane keeps the invariant.
LEMMA SelectPaneLoads ==
  ASSUME NEW u, NEW D, PageSound(u, D), FlowWaits(u), u.page = "memory", NEW pane \in Panes
  PROVE  PageInv(LoadCatalog(SelectPane(u, pane), FALSE), D)
<1> DEFINE x == SelectPane(u, pane)
           v == LoadCatalog(x, FALSE)
<1>1. /\ PageSound(x, D)
      /\ Changes(u, x, {"calls", "wf", "detail", "detailLoading", "list", "sel", "pane", "load"})
      /\ FlowWaits(x)
  <2>1. CASE u.pane = "reviews" /\ pane = "reviews"
    <3>1. PageSound(x, D) /\ Changes(u, x, {"calls", "load"}) /\ FlowWaits(x)
      BY <2>1, SelectAgainFacts
    <3> HIDE DEF x
    <3>2. QED
      BY <3>1 DEF Changes
  <2>2. CASE u.pane # "reviews" \/ pane # "reviews"
    BY <2>2, SelectPaneFacts
  <2>3. QED
    BY <2>1, <2>2
<1> HIDE DEF x
<1>2. x.page = "memory"
  BY <1>1 DEF Changes, PageFields
<1>3. FALSE \in BOOLEAN
  OBVIOUS
<1>4. /\ PageSound(v, D) /\ DetailWaits(v) /\ LoadWaits(v) /\ Backed(v)
      /\ FlowWaits(x) => FlowWaits(v)
  BY <1>1, <1>2, <1>3, LoadCatalogFacts
<1>5. QED
  BY <1>1, <1>4 DEF PageInv, x

\* SignIn and SignOut keep the invariant.
LEMMA SignInFacts ==
  ASSUME NEW u, NEW D, PageInv(u, D)
  PROVE  /\ PageInv([Send(u, "login", None, None, 0) EXCEPT !.loginBusy = TRUE], D)
         /\ PageInv([Send(u, "logout", None, None, 0) EXCEPT !.logoutBusy = TRUE], D)
<1> DEFINE x == Send(u, "login", None, None, 0)
           y == Send(u, "logout", None, None, 0)
           yes == TRUE
<1>1. PageInv(x, D) /\ PageInv(y, D)
  BY ShellSend
<1>2. yes \in BOOLEAN
  OBVIOUS
<1> HIDE DEF x, y, yes
<1>3. PageInv([x EXCEPT !.loginBusy = yes], D) /\ PageInv([y EXCEPT !.logoutBusy = yes], D)
  BY <1>1, <1>2, ShellFields
<1>4. QED
  BY <1>3 DEF x, y, yes

\* Navigate to the overview keeps the invariant ...
LEMMA OverviewSelected ==
  ASSUME NEW u, NEW D, PageSound(u, D), FlowWaits(u), Backed(u)
  PROVE  PageInv(SelectView(u, "overview"), D) /\ SelectView(u, "overview").page = "overview"
<1> DEFINE page == "overview"
           v == SelectView(u, page)
<1>1. page \in {"overview", "memory", "privacy"}
  OBVIOUS
<1> HIDE DEF page
<1>2. /\ PageSound(v, D) /\ v.page = page
      /\ FlowWaits(u) => FlowWaits(v)
      /\ Backed(u) => Backed(v)
  BY <1>1, SelectViewFacts
<1>3. DetailWaits(v) /\ LoadWaits(v)
  BY <1>2 DEF DetailWaits, LoadWaits, page
<1>4. QED
  BY <1>2, <1>3 DEF PageInv, page

\* ... and so does it to the Memory and the Privacy view.
LEMMA NavigateFacts ==
  ASSUME NEW u, NEW D, PageInv(u, D)
  PROVE  /\ PageInv(LoadCatalog(SelectPane(SelectView(u, "memory"), "records"), FALSE), D)
         /\ PageInv(LoadPrivacy(SelectView(u, "privacy")), D)
<1>0. PageSound(u, D) /\ FlowWaits(u) /\ Backed(u)
  BY DEF PageInv
<1>1. \A page \in {"overview", "memory", "privacy"} :
         LET v == SelectView(u, page)
         IN  PageSound(v, D) /\ v.page = page /\ FlowWaits(v) /\ Backed(v)
  BY <1>0, SelectViewFacts
<1>2. PageInv(LoadCatalog(SelectPane(SelectView(u, "memory"), "records"), FALSE), D)
  <2> DEFINE x == SelectView(u, "memory")
             first == "records"
  <2>1. PageSound(x, D) /\ x.page = "memory" /\ FlowWaits(x)
    BY <1>1
  <2>2. first \in Panes
    BY DEF Panes
  <2> HIDE DEF x, first
  <2>3. PageInv(LoadCatalog(SelectPane(x, first), FALSE), D)
    BY <2>1, <2>2, SelectPaneLoads
  <2>4. QED
    BY <2>3 DEF x, first
<1>3. PageInv(LoadPrivacy(SelectView(u, "privacy")), D)
  <2> DEFINE x == SelectView(u, "privacy")
  <2>1. PageSound(x, D) /\ x.page = "privacy" /\ FlowWaits(x) /\ Backed(x)
    BY <1>1
  <2> HIDE DEF x
  <2>2. PageInv(LoadPrivacy(x), D)
    BY <2>1, LoadPrivacyFacts
  <2>3. QED
    BY <2>2 DEF x
<1>4. QED
  BY <1>2, <1>3

\* Refresh keeps the invariant.
LEMMA RefreshFacts ==
  ASSUME NEW u, NEW D, PageInv(u, D), u.page = "memory", NEW keep \in BOOLEAN
  PROVE  PageInv(LoadCatalog(u, keep), D)
<1> DEFINE v == LoadCatalog(u, keep)
<1>1. /\ PageSound(v, D) /\ DetailWaits(v) /\ LoadWaits(v) /\ Backed(v)
      /\ FlowWaits(u) => FlowWaits(v)
  BY LoadCatalogFacts DEF PageInv
<1>2. QED
  BY <1>1 DEF PageInv

(* Workflows. *)

\* A workflow with a field replaced, for the provers.
LEMMA FlowExcept ==
  ASSUME NEW u, DOMAIN u = PageFields, u.wf \in [Workflows -> Flow], NEW w \in Workflows, NEW g
  PROVE  LET v == [u EXCEPT !.wf[w] = g]
         IN  /\ Changes(u, v, {"wf"}) /\ v.wf = [u.wf EXCEPT ![w] = g]
             /\ v.wf[w] = g /\ \A x \in Workflows \ {w} : v.wf[x] = u.wf[x]
             /\ g \in Flow => v.wf \in [Workflows -> Flow]
<1> DEFINE f == [u.wf EXCEPT ![w] = g]
<1>1. [u EXCEPT !.wf[w] = g] = [u EXCEPT !.wf = f]
  BY DEF PageFields
<1>2. /\ f[w] = g /\ \A x \in Workflows \ {w} : f[x] = u.wf[x]
      /\ g \in Flow => f \in [Workflows -> Flow]
  OBVIOUS
<1> HIDE DEF f
<1>3. Changes(u, [u EXCEPT !.wf = f], {"wf"}) /\ [u EXCEPT !.wf = f].wf = f
  BY DEF Changes, PageFields
<1>4. QED
  BY <1>1, <1>2, <1>3 DEF f

\* A workflow that has asked for a preview or a confirmation.
Waiting(chan) == [loading |-> chan = "preview", auth |-> None, busy |-> chan = "confirm", result |-> None]

LEMMA LoadingExcept ==
  ASSUME NEW a, NEW b, NEW c, NEW d, NEW e
  PROVE  [[loading |-> a, auth |-> b, busy |-> c, result |-> d] EXCEPT !.loading = e]
           = [loading |-> e, auth |-> b, busy |-> c, result |-> d]
OBVIOUS

LEMMA BusyExcept ==
  ASSUME NEW a, NEW b, NEW c, NEW d, NEW e
  PROVE  [[loading |-> a, auth |-> b, busy |-> c, result |-> d] EXCEPT !.busy = e]
           = [loading |-> a, auth |-> b, busy |-> e, result |-> d]
OBVIOUS

LEMMA AuthExcept ==
  ASSUME NEW a, NEW b, NEW c, NEW d, NEW e
  PROVE  [[loading |-> a, auth |-> b, busy |-> c, result |-> d] EXCEPT !.auth = e]
           = [loading |-> a, auth |-> e, busy |-> c, result |-> d]
OBVIOUS

\* A workflow that waits for a preview or a confirmation.
LEMMA WaitingFacts ==
  /\ [IdleFlow EXCEPT !.loading = TRUE] = Waiting("preview")
  /\ [IdleFlow EXCEPT !.busy = TRUE] = Waiting("confirm")
  /\ \A chan \in {"preview", "confirm"} :
        /\ Waiting(chan) \in Flow /\ Waiting(chan).auth = None /\ Waiting(chan).result = None
        /\ Waiting(chan).loading = (chan = "preview") /\ Waiting(chan).busy = (chan = "confirm")
<1> DEFINE no == FALSE
           yes == TRUE
<1>1. IdleFlow = [loading |-> no, auth |-> None, busy |-> no, result |-> None]
  BY DEF IdleFlow
<1> HIDE DEF no, yes
<1>2. /\ [IdleFlow EXCEPT !.loading = yes] = [loading |-> yes, auth |-> None, busy |-> no, result |-> None]
      /\ [IdleFlow EXCEPT !.busy = yes] = [loading |-> no, auth |-> None, busy |-> yes, result |-> None]
  <2>1. [IdleFlow EXCEPT !.loading = yes] = [loading |-> yes, auth |-> None, busy |-> no, result |-> None]
    BY <1>1, LoadingExcept
  <2>2. [IdleFlow EXCEPT !.busy = yes] = [loading |-> no, auth |-> None, busy |-> yes, result |-> None]
    BY <1>1, BusyExcept
  <2>3. QED
    BY <2>1, <2>2
<1>3. /\ Waiting("preview") = [loading |-> yes, auth |-> None, busy |-> no, result |-> None]
      /\ Waiting("confirm") = [loading |-> no, auth |-> None, busy |-> yes, result |-> None]
  BY DEF Waiting, yes, no
<1>4. \A chan \in {"preview", "confirm"} :
        /\ Waiting(chan) \in Flow /\ Waiting(chan).auth = None /\ Waiting(chan).result = None
        /\ Waiting(chan).loading = (chan = "preview") /\ Waiting(chan).busy = (chan = "confirm")
  BY DEF Waiting, Flow
<1>5. QED
  BY <1>2, <1>3, <1>4 DEF yes

\* A workflow of a cleared page sends its preview or its confirmation.
LEMMA FlowSends ==
  ASSUME NEW u, NEW D, PageInv(u, D), NEW w \in Workflows, u.wf[w] = IdleFlow,
         NEW chan \in {"preview", "confirm"},
         NEW v, Changes(u, v, {"wf"}), v.wf[w] = Waiting(chan), v.wf \in [Workflows -> Flow],
         \A x \in Workflows \ {w} : v.wf[x] = u.wf[x],
         NEW on \in Items \cup Scopes, NEW rev \in Nat,
         w \in MemoryWorkflows =>
            /\ u.page = "memory" /\ w \in OfPane(u.pane)
            /\ \A x \in MemoryWorkflows \ {w} : ~Engaged(u.wf[x]),
         w = "change" => u.page = "privacy" /\ u.prefs.scope = on
  PROVE  PageInv(Send(v, chan, w, on, rev), D) /\ Changes(v, Send(v, chan, w, on, rev), {"calls"})
<1> DEFINE s == Send(v, chan, w, on, rev)
<1>0. PageSound(u, D) /\ Backed(u) /\ FlowWaits(u) /\ DetailWaits(u) /\ LoadWaits(u)
  BY DEF PageInv
<1>1. /\ Waiting(chan) \in Flow /\ Waiting(chan).auth = None /\ Waiting(chan).result = None
      /\ Waiting(chan).loading = (chan = "preview") /\ Waiting(chan).busy = (chan = "confirm")
  BY WaitingFacts
<1>2. PageSound(v, D) /\ DetailWaits(v) /\ LoadWaits(v) /\ Backed(v)
  <2>1. \A c \in u.calls : c.live /\ c.of = w => c.chan # "preview" /\ c.chan # "confirm"
    BY <1>0, IdleFacts DEF PageSound, AllFit, Fits
  <2>2. v.wf[w] \in Flow /\ v.wf[w].auth = None /\ v.wf[w].result = None
    BY <1>1
  <2>3. \A c \in u.calls : c.live /\ c.of = w => /\ c.chan = "preview" => v.wf[w].loading
                                                 /\ c.chan = "confirm" => v.wf[w].busy
    BY <2>1
  <2>4. w \in MemoryWorkflows /\ v.wf[w] # IdleFlow => u.page = "memory" /\ w \in OfPane(u.pane)
    OBVIOUS
  <2>5. w = "change" /\ v.wf[w] # IdleFlow => u.page = "privacy"
    OBVIOUS
  <2>6. Engaged(v.wf[w]) /\ w \in MemoryWorkflows => \A x \in MemoryWorkflows \ {w} : ~Engaged(u.wf[x])
    OBVIOUS
  <2>7. v.wf[w].auth # None =>
            /\ ~v.wf[w].loading /\ ~v.wf[w].busy
            /\ w \in MemoryWorkflows => Current(u, v.wf[w].auth) /\ u.detail.st \in From(w)
            /\ w = "change" => u.prefs.scope \in {v.wf[w].auth.on, None}
    BY <2>2
  <2>8. v.wf[w].result # None =>
            [by |-> w, ref |-> v.wf[w].result.ref, rev |-> v.wf[w].result.rev] \in D
    BY <2>2
  <2>a. ~(v.wf[w].loading /\ v.wf[w].busy)
    BY <1>1
  <2> HIDE DEF Waiting
  <2>9. /\ PageSound(v, D)
        /\ DetailWaits(u) => DetailWaits(v)
        /\ LoadWaits(u) => LoadWaits(v)
        /\ Backed(u) => Backed(v)
    BY <1>0, <2>2, <2>3, <2>4, <2>5, <2>6, <2>7, <2>8, <2>a, FlowChange
  <2>10. QED
    BY <1>0, <2>9
<1>3. v.page = u.page /\ v.pane = u.pane /\ v.prefs = u.prefs /\ v.calls = u.calls
  BY DEF Changes, PageFields
<1>4. /\ Changes(v, s, {"calls"}) /\ SentTo(v.calls, NewCall(chan, w, on, rev), s.calls)
      /\ PageSound(s, D)
      /\ Live(s, chan, w)
      /\ \A x, y : Live(v, x, y) => Live(s, x, y)
  <2>1. chan \in Channels /\ on \in OnPage
    BY DEF Channels, OnPage
  <2>2. chan = "preview" => v.wf[w].loading
    BY <1>1
  <2>3. chan = "confirm" => v.wf[w].busy
    BY <1>1
  <2>4. chan = "preview" /\ w = "change" => v.prefs.scope \in {on, None}
    BY <1>3
  <2>5. chan \notin {"catalog", "list", "detail", "overview"}
    OBVIOUS
  <2>6. QED
    BY <1>2, <2>1, <2>2, <2>3, <2>4, <2>5, SendSound
<1> HIDE DEF s
<1>5. DetailWaits(s) /\ LoadWaits(s)
  BY <1>2, <1>4, SentWaits
<1>6. Backed(s)
  <2>1. NewCall(chan, w, on, rev).of \notin Panes
    BY NotPanes DEF NewCall
  <2>2. QED
    BY <1>2, <1>4, <2>1, SentBacked
<1>7. FlowWaits(s)
  <2> SUFFICES ASSUME NEW x \in Workflows
               PROVE  /\ s.wf[x].loading => Live(s, "preview", x)
                      /\ s.wf[x].busy => Live(s, "confirm", x)
    BY DEF FlowWaits
  <2>1. s.wf = v.wf
    BY <1>4 DEF Changes, PageFields
  <2>2. CASE x = w
    BY <1>1, <1>4, <2>1, <2>2
  <2>3. CASE x # w
    <3>1. s.wf[x] = u.wf[x]
      BY <2>1, <2>3
    <3>2. \A a, b : Live(u, a, b) => Live(s, a, b)
      BY <1>3, <1>4 DEF Live
    <3>3. QED
      BY <1>0, <3>1, <3>2 DEF FlowWaits
  <2>4. QED
    BY <2>2, <2>3
<1>8. QED
  BY <1>2, <1>4, <1>5, <1>6, <1>7 DEF PageInv, s

\* Workflows of a pane that do not compete start from different states.
LEMMA ApartOrCompeting ==
  ASSUME NEW p \in Panes, NEW w \in OfPane(p), NEW x \in OfPane(p), x # w, x \notin Competes(w)
  PROVE  From(w) \cap From(x) = {}
<1>1. CASE p = "records"
  BY <1>1 DEF OfPane, Competes, From
<1>2. CASE p = "reviews"
  BY <1>2 DEF OfPane, Competes, From
<1>3. QED
  BY <1>1, <1>2 DEF Panes

\* A workflow competes with workflows of its own pane.
LEMMA CompetesFacts ==
  \A p \in Panes : \A w \in OfPane(p) : Competes(w) \subseteq OfPane(p)
BY DEF Competes, OfPane, Panes

\* The detail shown is the clicked row's.
LEMMA DetailFacts ==
  ASSUME NEW u, NEW D, PageSound(u, D), u.detail # None
  PROVE  /\ u.detail \in Shows /\ u.detail \in u.list /\ u.detail.ref = u.sel /\ u.sel \in Items
         /\ u.detail.rev \in Nat /\ Row(u) # {}
<1>1. u.detail \in Row(u) /\ u.detail \in Shows /\ u.detail.rev \in Nat
  BY DEF PageSound, Typed, PageRowsOK, Shows
<1>2. u.detail \in u.list /\ u.detail.ref = u.sel
  BY <1>1 DEF Row
<1>3. u.sel \in Items
  BY <1>2 DEF PageSound, PageRowsOK, PaneItems, Items
<1>4. QED
  BY <1>1, <1>2, <1>3

\* A workflow is given up: what is left of the page.
LEMMA ClearedFlows ==
  ASSUME NEW u, NEW W \in SUBSET Workflows, NEW D, PageInv(u, D)
  PROVE  LET v == ClearWorkflows(u, W, FALSE)
         IN  /\ PageInv(v, D)
             /\ Changes(u, v, {"calls", "wf"})
             /\ v.page = u.page /\ v.pane = u.pane /\ v.prefs = u.prefs /\ v.detail = u.detail
             /\ v.wf \in [Workflows -> Flow]
             /\ \A w \in W : v.wf[w] = IdleFlow
             /\ \A w \in Workflows \ W : v.wf[w] = u.wf[w]
<1> DEFINE v == ClearWorkflows(u, W, FALSE)
           no == FALSE
<1>0. PageSound(u, D) /\ no \in BOOLEAN /\ ~no
  BY DEF PageInv
<1>1. v = ClearWorkflows(u, W, no)
  OBVIOUS
<1> HIDE DEF v, no
<1>2. /\ Changes(u, v, {"calls", "wf"})
      /\ PassedTo(u.calls, Clearing(W), v.calls)
      /\ CallsOK(v.calls, D) /\ Single(v.calls)
      /\ v.wf \in [Workflows -> Flow]
      /\ \A w \in W : FlowCleared(v.wf[w], u.wf[w], no)
      /\ \A w \in Workflows \ W : v.wf[w] = u.wf[w]
  BY <1>0, <1>1, ClearWorkflowsFacts
<1>3. /\ PageSound(v, D)
      /\ FlowWaits(u) => FlowWaits(v)
      /\ DetailWaits(u) => DetailWaits(v)
      /\ LoadWaits(u) => LoadWaits(v)
      /\ Backed(u) => Backed(v)
  BY <1>0, <1>1, ClearWorkflowsSound
<1>4. PageInv(v, D)
  BY <1>3 DEF PageInv
<1>5. \A w \in W : v.wf[w] = IdleFlow
  BY <1>0, <1>2 DEF FlowCleared
<1>6. v.page = u.page /\ v.pane = u.pane /\ v.prefs = u.prefs /\ v.detail = u.detail
  BY <1>2 DEF Changes, PageFields
<1>7. QED
  BY <1>2, <1>4, <1>5, <1>6 DEF v

LEMMA FlowPath ==
  ASSUME NEW u, DOMAIN u = PageFields, u.wf \in [Workflows -> Flow], NEW w \in Workflows, NEW x
  PROVE  /\ [u EXCEPT !.wf[w].loading = x] = [u EXCEPT !.wf[w] = [u.wf[w] EXCEPT !.loading = x]]
         /\ [u EXCEPT !.wf[w].busy = x] = [u EXCEPT !.wf[w] = [u.wf[w] EXCEPT !.busy = x]]
         /\ [u EXCEPT !.wf[w].auth.due = x]
              = [u EXCEPT !.wf[w] = [u.wf[w] EXCEPT !.auth = [u.wf[w].auth EXCEPT !.due = x]]]
<1> DEFINE f == u.wf
           g == u.wf[w]
<1>1. "wf" \in DOMAIN u /\ w \in DOMAIN f
  BY DEF PageFields
<1>2. /\ DOMAIN g = {"loading", "auth", "busy", "result"}
  BY DEF Flow
<1>3. QED
  BY <1>1, <1>2

LEMMA StartsPreview ==
  ASSUME NEW u, DOMAIN u = PageFields, u.wf \in [Workflows -> Flow], NEW w \in Workflows,
         u.wf[w] = IdleFlow
  PROVE  [u EXCEPT !.wf[w].loading = TRUE] = [u EXCEPT !.wf[w] = Waiting("preview")]
<1> DEFINE yes == TRUE
           p == Waiting("preview")
<1>1. [IdleFlow EXCEPT !.loading = yes] = p
  BY WaitingFacts
<1> HIDE DEF yes, p
<1>2. [u EXCEPT !.wf[w].loading = yes] = [u EXCEPT !.wf[w] = p]
  BY <1>1, FlowPath
<1>3. QED
  BY <1>2 DEF yes, p

LEMMA StartsConfirm ==
  ASSUME NEW u, DOMAIN u = PageFields, u.wf \in [Workflows -> Flow], NEW w \in Workflows,
         u.wf[w] = IdleFlow
  PROVE  [u EXCEPT !.wf[w].busy = TRUE] = [u EXCEPT !.wf[w] = Waiting("confirm")]
<1> DEFINE yes == TRUE
           p == Waiting("confirm")
<1>1. [IdleFlow EXCEPT !.busy = yes] = p
  BY WaitingFacts
<1> HIDE DEF yes, p
<1>2. [u EXCEPT !.wf[w].busy = yes] = [u EXCEPT !.wf[w] = p]
  BY <1>1, FlowPath
<1>3. QED
  BY <1>2 DEF yes, p

\* StartPreview keeps the invariant: the competing workflows are idle before the preview leaves.
LEMMA StartPreviewFacts ==
  ASSUME NEW u, NEW D, PageInv(u, D), NEW w, u.page = "memory", w \in OfPane(u.pane), MayPreview(u, w)
  PROVE  LET v == ClearWorkflows(u, Competes(w) \cup {w}, FALSE)
         IN  PageInv(Send([v EXCEPT !.wf[w].loading = TRUE], "preview", w, u.sel, u.detail.rev), D)
<1> DEFINE W == Competes(w) \cup {w}
           v == ClearWorkflows(u, W, FALSE)
           x == [v EXCEPT !.wf[w].loading = TRUE]
           chan == "preview"
<1>0. /\ PageSound(u, D) /\ u.pane \in Panes /\ u.detail # None /\ u.detail.st \in From(w)
      /\ \A y \in OfPane(u.pane) : ~Busy(u, y)
  BY DEF PageInv, PageSound, Typed, MayPreview, MayCommand
<1>1. w \in MemoryWorkflows /\ w \in Workflows /\ w # "change"
  BY <1>0, WorkflowFacts
<1>2. W \in SUBSET Workflows /\ w \in W
  BY <1>0, <1>1, CompetesFacts, WorkflowFacts
<1>3. u.detail.rev \in Nat /\ u.sel \in Items \cup Scopes
  BY <1>0, DetailFacts
<1>4. \A y \in MemoryWorkflows \ W : ~Engaged(u.wf[y])
  <2> SUFFICES ASSUME NEW y \in MemoryWorkflows \ W PROVE ~Engaged(u.wf[y])
    OBVIOUS
  <2>1. CASE y \in OfPane(u.pane)
    <3>1. From(w) \cap From(y) = {}
      BY <1>0, <1>2, <2>1, ApartOrCompeting
    <3>2. u.wf[y].auth = None
      BY <1>0, <3>1, <2>1 DEF PageSound, FlowsOK
    <3>3. QED
      BY <1>0, <2>1, <3>2 DEF Engaged, Busy
  <2>2. CASE y \notin OfPane(u.pane)
    BY <1>0, <2>2, IdleFacts DEF PageSound, FlowsOK
  <2>3. QED
    BY <2>1, <2>2
<1> HIDE DEF W
<1>5. /\ PageInv(v, D)
      /\ Changes(u, v, {"calls", "wf"})
      /\ v.page = u.page /\ v.pane = u.pane /\ v.prefs = u.prefs /\ v.detail = u.detail
      /\ v.wf \in [Workflows -> Flow]
      /\ \A y \in W : v.wf[y] = IdleFlow
      /\ \A y \in Workflows \ W : v.wf[y] = u.wf[y]
  BY <1>2, ClearedFlows
<1> HIDE DEF v
<1>6. v.wf[w] = IdleFlow /\ \A y \in MemoryWorkflows \ {w} : ~Engaged(v.wf[y])
  BY <1>2, <1>4, <1>5, IdleFacts, WorkflowFacts
<1>y. DOMAIN v = PageFields
  BY <1>5 DEF Changes
<1>x. x = [v EXCEPT !.wf[w] = Waiting(chan)] /\ Waiting(chan) \in Flow
  BY <1>y, <1>0, <1>1, <1>5, <1>6, WaitingFacts, StartsPreview
<1> HIDE DEF x
<1>7. /\ Changes(v, x, {"wf"}) /\ x.wf[w] = Waiting(chan) /\ x.wf \in [Workflows -> Flow]
      /\ \A y \in Workflows \ {w} : x.wf[y] = v.wf[y]
  BY <1>x, <1>y, <1>0, <1>1, <1>5, FlowExcept
<1>8. chan \in {"preview", "confirm"}
  OBVIOUS
<1> HIDE DEF chan
<1>9. PageInv(Send(x, chan, w, u.sel, u.detail.rev), D)
  BY <1>1, <1>3, <1>5, <1>6, <1>7, <1>8, FlowSends
<1>10. QED
  BY <1>9 DEF x, v, W, chan

\* ConfirmCommand keeps the invariant: the authority is spent before the request leaves.
LEMMA ConfirmFacts ==
  ASSUME NEW u, NEW D, PageInv(u, D), NEW w \in MemoryWorkflows, u.wf[w].auth # None
  PROVE  LET a == u.wf[w].auth
             v == ClearWorkflows(u, {w}, FALSE)
         IN  /\ PageInv(v, D)
             /\ Current(u, a) => PageInv(Send([v EXCEPT !.wf[w].busy = TRUE], "confirm", w, a.on, a.rev), D)
<1> DEFINE W == {w}
           a == u.wf[w].auth
           v == ClearWorkflows(u, W, FALSE)
           x == [v EXCEPT !.wf[w].busy = TRUE]
           chan == "confirm"
<1>0. /\ PageSound(u, D) /\ w \in Workflows /\ w # "change" /\ W \in SUBSET Workflows /\ w \in W
      /\ \A y \in Workflows : y \in W => y = w
  BY WorkflowFacts DEF PageInv
<1>1. Engaged(u.wf[w]) /\ u.wf[w] # IdleFlow
  BY IdleFacts DEF Engaged
<1>2. u.page = "memory" /\ w \in OfPane(u.pane) /\ \A y \in MemoryWorkflows \ {w} : ~Engaged(u.wf[y])
  BY <1>0, <1>1 DEF PageSound, FlowsOK
<1>3. a.on \in Items \cup Scopes /\ a.rev \in Nat
  BY <1>0 DEF PageSound, Typed, Flow, Authority
<1> HIDE DEF W, a
<1>5. /\ PageInv(v, D)
      /\ Changes(u, v, {"calls", "wf"})
      /\ v.page = u.page /\ v.pane = u.pane /\ v.prefs = u.prefs /\ v.detail = u.detail
      /\ v.wf \in [Workflows -> Flow]
      /\ \A y \in W : v.wf[y] = IdleFlow
      /\ \A y \in Workflows \ W : v.wf[y] = u.wf[y]
  BY <1>0, ClearedFlows
<1> HIDE DEF v
<1>6. v.wf[w] = IdleFlow /\ \A y \in MemoryWorkflows \ {w} : ~Engaged(v.wf[y])
  BY <1>0, <1>2, <1>5, WorkflowFacts
<1>y. DOMAIN v = PageFields
  BY <1>5 DEF Changes
<1>x. x = [v EXCEPT !.wf[w] = Waiting(chan)] /\ Waiting(chan) \in Flow
  BY <1>y, <1>0, <1>1, <1>5, <1>6, WaitingFacts, StartsConfirm
<1> HIDE DEF x
<1>7. /\ Changes(v, x, {"wf"}) /\ x.wf[w] = Waiting(chan) /\ x.wf \in [Workflows -> Flow]
      /\ \A y \in Workflows \ {w} : x.wf[y] = v.wf[y]
  BY <1>x, <1>y, <1>0, <1>1, <1>5, FlowExcept
<1>8. chan \in {"preview", "confirm"}
  OBVIOUS
<1> HIDE DEF chan
<1>9. PageInv(Send(x, chan, w, a.on, a.rev), D)
  BY <1>0, <1>2, <1>3, <1>5, <1>6, <1>7, <1>8, FlowSends
<1>10. QED
  BY <1>5, <1>9 DEF x, v, W, a, chan

\* ConfirmChange keeps the invariant.
LEMMA ConfirmChangeFacts ==
  ASSUME NEW u, NEW D, PageInv(u, D), u.wf["change"].auth # None
  PROVE  LET a == u.wf["change"].auth
             v == ClearWorkflows(u, {"change"}, FALSE)
         IN  /\ PageInv(v, D)
             /\ u.prefs.scope = a.on =>
                   PageInv(Send([v EXCEPT !.wf["change"].busy = TRUE], "confirm", "change", a.on, a.rev), D)
<1> DEFINE w == "change"
           W == {w}
           a == u.wf[w].auth
           v == ClearWorkflows(u, W, FALSE)
           x == [v EXCEPT !.wf[w].busy = TRUE]
           chan == "confirm"
<1>0. /\ PageSound(u, D) /\ w \in Workflows /\ w \notin MemoryWorkflows /\ W \in SUBSET Workflows /\ w \in W
  BY WorkflowFacts DEF PageInv
<1>2. u.page = "privacy"
  BY <1>0, IdleFacts DEF PageSound, FlowsOK
<1>3. a.on \in Items \cup Scopes /\ a.rev \in Nat
  BY <1>0 DEF PageSound, Typed, Flow, Authority
<1> HIDE DEF W, a, w
<1>5. /\ PageInv(v, D)
      /\ Changes(u, v, {"calls", "wf"})
      /\ v.page = u.page /\ v.pane = u.pane /\ v.prefs = u.prefs /\ v.detail = u.detail
      /\ v.wf \in [Workflows -> Flow]
      /\ \A y \in W : v.wf[y] = IdleFlow
      /\ \A y \in Workflows \ W : v.wf[y] = u.wf[y]
  BY <1>0, ClearedFlows
<1> HIDE DEF v
<1>6. v.wf[w] = IdleFlow
  BY <1>0, <1>5
<1>y. DOMAIN v = PageFields
  BY <1>5 DEF Changes
<1>x. x = [v EXCEPT !.wf[w] = Waiting(chan)] /\ Waiting(chan) \in Flow
  BY <1>y, <1>0, <1>5, <1>6, WaitingFacts, StartsConfirm
<1> HIDE DEF x
<1>7. /\ Changes(v, x, {"wf"}) /\ x.wf[w] = Waiting(chan) /\ x.wf \in [Workflows -> Flow]
      /\ \A y \in Workflows \ {w} : x.wf[y] = v.wf[y]
  BY <1>x, <1>y, <1>0, <1>5, FlowExcept
<1>8. chan \in {"preview", "confirm"}
  OBVIOUS
<1> HIDE DEF chan
<1>9. u.prefs.scope = a.on => PageInv(Send(x, chan, w, a.on, a.rev), D)
  BY <1>0, <1>2, <1>3, <1>5, <1>6, <1>7, <1>8, FlowSends
<1>10. QED
  BY <1>5, <1>9 DEF x, v, W, a, chan, w

\* What a request in flight is does not depend on the rest of the page.
LEMMA SendShape ==
  ASSUME NEW u, DOMAIN u = PageFields, NEW x, DOMAIN x = PageFields, x.calls = u.calls,
         NEW chan, NEW of, NEW on, NEW rev
  PROVE  LET s == Send(u, chan, of, on, rev)
             t == Send(x, chan, of, on, rev)
         IN  Changes(u, s, {"calls"}) /\ Changes(x, t, {"calls"}) /\ s.calls = t.calls
<1> DEFINE K == {<<chan, of>>}
           S == {IF <<c.chan, c.of>> \in K THEN [c EXCEPT !.live = FALSE] ELSE c : c \in u.calls}
           n == [chan |-> chan, of |-> of, on |-> on, rev |-> rev,
                 live |-> TRUE, status |-> "sent", data |-> {}]
           s == Send(u, chan, of, on, rev)
           t == Send(x, chan, of, on, rev)
           b == BumpSequence(u, K)
           d == BumpSequence(x, K)
<1>1. s = [b EXCEPT !.calls = @ \cup {n}] /\ t = [d EXCEPT !.calls = @ \cup {n}]
  BY DEF Send
<1>2. b = [u EXCEPT !.calls = S] /\ d = [x EXCEPT !.calls = S]
  BY DEF BumpSequence
<1> HIDE DEF S, n, s, t, b, d
<1>3. Changes(u, b, {"calls"}) /\ b.calls = S /\ Changes(x, d, {"calls"}) /\ d.calls = S
  BY <1>2 DEF Changes, PageFields
<1>4. /\ Changes(b, s, {"calls"}) /\ s.calls = S \cup {n} /\ Changes(d, t, {"calls"})
      /\ t.calls = S \cup {n}
  BY <1>1, <1>3 DEF Changes, PageFields
<1>5. QED
  BY <1>3, <1>4 DEF Changes, s, t

\* The preview button of the Privacy view is set.
LEMMA OffSet ==
  ASSUME NEW u, NEW v, NEW D, PageInv(u, D), Changes(u, v, {"prefs"}), NEW x \in BOOLEAN,
         v.prefs = [u.prefs EXCEPT !.off = x]
  PROVE  PageInv(v, D)
<1>1. /\ u.prefs \in Preferences /\ u.prefs.scope \in u.prefs.catalog \cup {None}
      /\ (u.page # "privacy" => u.prefs.shown = None)
  BY DEF PageInv, PageSound, Typed, PageRowsOK
<1>2. /\ v.prefs \in Preferences /\ v.prefs.catalog = u.prefs.catalog /\ v.prefs.scope = u.prefs.scope
      /\ v.prefs.shown = u.prefs.shown /\ v.prefs.load = u.prefs.load
  BY <1>1, PrefsOff
<1>3. /\ PageSound(v, D)
      /\ FlowWaits(u) => FlowWaits(v)
      /\ DetailWaits(u) => DetailWaits(v)
      /\ LoadWaits(u) => LoadWaits(v)
      /\ Backed(u) => Backed(v)
  BY <1>1, <1>2, PrefsChange DEF PageInv
<1>4. QED
  BY <1>3 DEF PageInv

\* StartChange keeps the invariant.
LEMMA StartChangeFacts ==
  ASSUME NEW u, NEW D, PageInv(u, D), u.page = "privacy", u.prefs.scope # None
  PROVE  LET v == ClearWorkflows(u, {"change"}, FALSE)
         IN  PageInv([Send(v, "preview", "change", u.prefs.scope, 0)
                        EXCEPT !.wf["change"].loading = TRUE, !.prefs.off = TRUE], D)
<1> DEFINE w == "change"
           W == {w}
           on == u.prefs.scope
           chan == "preview"
           v == ClearWorkflows(u, W, FALSE)
           f == Waiting(chan)
           x == [v EXCEPT !.wf[w] = f]
           y == Send(x, chan, w, on, 0)
           s == Send(v, chan, w, on, 0)
           s1 == [s EXCEPT !.wf[w].loading = TRUE]
           yes == TRUE
           z == [s1 EXCEPT !.prefs.off = yes]
<1>0. /\ w \in Workflows /\ w \notin MemoryWorkflows /\ W \in SUBSET Workflows /\ w \in W
      /\ on \in Items \cup Scopes /\ chan \in {"preview", "confirm"} /\ 0 \in Nat
  BY WorkflowFacts DEF PageInv, PageSound, Typed, Preferences
<1>z. z = [s EXCEPT !.wf[w].loading = TRUE, !.prefs.off = TRUE]
  OBVIOUS
<1>1. /\ PageInv(v, D)
      /\ Changes(u, v, {"calls", "wf"})
      /\ v.page = u.page /\ v.pane = u.pane /\ v.prefs = u.prefs /\ v.detail = u.detail
      /\ v.wf \in [Workflows -> Flow]
      /\ \A q \in W : v.wf[q] = IdleFlow
      /\ \A q \in Workflows \ W : v.wf[q] = u.wf[q]
  BY <1>0, ClearedFlows
<1> HIDE DEF v
<1>2. DOMAIN v = PageFields /\ v.wf[w] = IdleFlow /\ f \in Flow
  BY <1>0, <1>1, WaitingFacts DEF Changes
<1> HIDE DEF f
<1>3. /\ Changes(v, x, {"wf"}) /\ x.wf = [v.wf EXCEPT ![w] = f]
      /\ x.wf[w] = f /\ \A q \in Workflows \ {w} : x.wf[q] = v.wf[q]
      /\ f \in Flow => x.wf \in [Workflows -> Flow]
  BY <1>0, <1>1, <1>2, FlowExcept
<1> HIDE DEF x
<1>4. PageInv(y, D)
  <2>1. x.wf[w] = Waiting(chan)
    BY <1>3 DEF f
  <2>2. x.wf \in [Workflows -> Flow]
    BY <1>2, <1>3
  <2> HIDE DEF on, chan, w
  <2>3. w \notin MemoryWorkflows /\ v.page = "privacy" /\ v.prefs.scope = on
    BY <1>0, <1>1 DEF on
  <2>4. QED
    BY <1>0, <1>1, <1>2, <1>3, <2>1, <2>2, <2>3, FlowSends
<1>5. Changes(v, s, {"calls"}) /\ Changes(x, y, {"calls"}) /\ s.calls = y.calls
  <2>1. DOMAIN x = PageFields /\ x.calls = v.calls
    BY <1>3 DEF Changes, PageFields
  <2>2. QED
    BY <1>2, <2>1, SendShape
<1> HIDE DEF s, y
<1>6. Changes(s, s1, {"wf"}) /\ s1.wf = [s.wf EXCEPT ![w] = f] /\ s.wf = v.wf
  <2>1. s.wf = v.wf /\ DOMAIN s = PageFields
    BY <1>5 DEF Changes, PageFields
  <2>2. s1 = [s EXCEPT !.wf[w] = f]
    BY <1>0, <1>1, <1>2, <2>1, StartsPreview DEF f
  <2> DEFINE t == [s EXCEPT !.wf[w] = f]
  <2>3. Changes(s, t, {"wf"}) /\ t.wf = [s.wf EXCEPT ![w] = f]
    BY <1>0, <1>1, <2>1, FlowExcept
  <2>4. QED
    BY <2>1, <2>2, <2>3
<1> HIDE DEF s1
<1>7. DOMAIN s1 = PageFields /\ \A q \in PageFields : s1[q] = y[q]
  <2>1. s1.wf = y.wf /\ s1.calls = y.calls
    BY <1>3, <1>5, <1>6 DEF Changes, PageFields
  <2>2. \A q \in PageFields \ {"wf", "calls"} : s1[q] = y[q]
    BY <1>3, <1>5, <1>6 DEF Changes
  <2>3. QED
    BY <1>6, <2>1, <2>2 DEF Changes
<1>8. Changes(y, z, {"prefs"}) /\ z.prefs = [y.prefs EXCEPT !.off = yes] /\ yes \in BOOLEAN
  <2>1. Changes(s1, z, {"prefs"}) /\ z.prefs = [s1.prefs EXCEPT !.off = yes]
    <3> HIDE DEF yes
    <3>1. QED
      BY <1>7, PrefsExcept, Zenon
  <2>2. s1.prefs = y.prefs
    BY <1>7 DEF PageFields
  <2>3. QED
    BY <1>7, <2>1, <2>2 DEF Changes
<1> HIDE DEF z, yes
<1>9. PageInv(z, D)
  BY <1>4, <1>8, OffSet
<1>10. QED
  BY <1>9, <1>z DEF s, v, W, w, on, chan

\* What a preview or a confirmation of w waits for.
FlowWaitsOf(u, w) == /\ u.wf[w].loading => Live(u, "preview", w)
                     /\ u.wf[w].busy => Live(u, "confirm", w)

\* A workflow comes to rest: nothing of it is under way any more.
LEMMA FlowSettles ==
  ASSUME NEW u, NEW D, PageSound(u, D), NEW w \in Workflows, NEW f \in Flow, ~f.loading, ~f.busy,
         \A c \in u.calls : c.live /\ c.chan \in {"preview", "confirm"} => c.of # w,
         w \in MemoryWorkflows /\ f # IdleFlow => u.page = "memory" /\ w \in OfPane(u.pane),
         w = "change" /\ f # IdleFlow => u.page = "privacy",
         w \in MemoryWorkflows /\ f.auth # None =>
            /\ Current(u, f.auth) /\ u.detail.st \in From(w)
            /\ \A x \in MemoryWorkflows \ {w} : ~Engaged(u.wf[x]),
         w = "change" /\ f.auth # None => u.prefs.scope \in {f.auth.on, None},
         f.result # None => [by |-> w, ref |-> f.result.ref, rev |-> f.result.rev] \in D
  PROVE  LET v == [u EXCEPT !.wf[w] = f]
         IN  /\ PageSound(v, D) /\ Changes(u, v, {"wf"})
             /\ DetailWaits(u) => DetailWaits(v)
             /\ LoadWaits(u) => LoadWaits(v)
             /\ Backed(u) => Backed(v)
             /\ (\A x \in Workflows \ {w} : FlowWaitsOf(u, x)) => FlowWaits(v)
<1> DEFINE v == [u EXCEPT !.wf[w] = f]
<1>0. DOMAIN u = PageFields /\ u.wf \in [Workflows -> Flow]
  BY DEF PageSound, Typed
<1>1. /\ Changes(u, v, {"wf"}) /\ v.wf = [u.wf EXCEPT ![w] = f]
      /\ v.wf[w] = f /\ \A x \in Workflows \ {w} : v.wf[x] = u.wf[x]
      /\ f \in Flow => v.wf \in [Workflows -> Flow]
  BY <1>0, FlowExcept
<1> HIDE DEF v
<1>2. /\ PageSound(v, D)
      /\ DetailWaits(u) => DetailWaits(v)
      /\ LoadWaits(u) => LoadWaits(v)
      /\ Backed(u) => Backed(v)
  <2>1. v.wf[w] \in Flow /\ v.wf \in [Workflows -> Flow] /\ \A x \in Workflows \ {w} : v.wf[x] = u.wf[x]
    BY <1>1
  <2>2. \A c \in u.calls : c.live /\ c.of = w => /\ c.chan = "preview" => v.wf[w].loading
                                                 /\ c.chan = "confirm" => v.wf[w].busy
    OBVIOUS
  <2>3. w \in MemoryWorkflows /\ v.wf[w] # IdleFlow => u.page = "memory" /\ w \in OfPane(u.pane)
    BY <1>1
  <2>4. w = "change" /\ v.wf[w] # IdleFlow => u.page = "privacy"
    BY <1>1
  <2>5. v.wf[w].auth # None =>
            /\ ~v.wf[w].loading /\ ~v.wf[w].busy
            /\ w \in MemoryWorkflows => Current(u, v.wf[w].auth) /\ u.detail.st \in From(w)
            /\ w = "change" => u.prefs.scope \in {v.wf[w].auth.on, None}
    BY <1>1
  <2>6. Engaged(v.wf[w]) /\ w \in MemoryWorkflows => \A x \in MemoryWorkflows \ {w} : ~Engaged(u.wf[x])
    BY <1>1 DEF Engaged
  <2>7. v.wf[w].result # None => [by |-> w, ref |-> v.wf[w].result.ref, rev |-> v.wf[w].result.rev] \in D
    BY <1>1
  <2>8. ~(v.wf[w].loading /\ v.wf[w].busy)
    BY <1>1
  <2>9. QED
    BY <1>1, <2>1, <2>2, <2>3, <2>4, <2>5, <2>6, <2>7, <2>8, FlowChange
<1>3. ASSUME \A x \in Workflows \ {w} : FlowWaitsOf(u, x)
      PROVE  FlowWaits(v)
  <2>1. v.calls = u.calls
    BY <1>1 DEF Changes, PageFields
  <2>2. \A x \in Workflows : /\ v.wf[x].loading => Live(v, "preview", x)
                             /\ v.wf[x].busy => Live(v, "confirm", x)
    BY <1>1, <1>3, <2>1 DEF FlowWaitsOf, Live
  <2>3. QED
    BY <2>2 DEF FlowWaits
<1>4. QED
  BY <1>1, <1>2, <1>3 DEF v

\* The waits of the workflows, one by one.
LEMMA WaitsOfAll ==
  ASSUME NEW u, FlowWaits(u)
  PROVE  \A x \in Workflows : FlowWaitsOf(u, x)
BY DEF FlowWaits, FlowWaitsOf

\* What is known of an authority.
LEMMA AuthorityFacts ==
  ASSUME NEW u, NEW D, PageSound(u, D), NEW w \in Workflows, u.wf[w].auth # None
  PROVE  /\ u.wf[w] \in Flow /\ u.wf[w].auth \in Authority /\ u.wf[w].auth.on \in Items \cup Scopes
         /\ ~u.wf[w].loading /\ ~u.wf[w].busy /\ Engaged(u.wf[w]) /\ u.wf[w] # IdleFlow
         /\ \A c \in u.calls : c.live /\ c.chan \in {"preview", "confirm"} => c.of # w
<1>1. u.wf[w] \in Flow /\ u.wf[w].auth \in Authority
  BY DEF PageSound, Typed, Flow
<1>2. ~u.wf[w].loading /\ ~u.wf[w].busy
  BY DEF PageSound, FlowsOK
<1>3. \A c \in u.calls : c.live /\ c.chan \in {"preview", "confirm"} => c.of # w
  BY <1>2 DEF PageSound, AllFit, Fits
<1>4. QED
  BY <1>1, <1>2, <1>3, IdleFacts DEF Engaged, Authority

\* ExpiryTimer gives the authority up ...
LEMMA ExpiryTimerFacts ==
  ASSUME NEW u, NEW D, PageInv(u, D), NEW w \in Workflows, u.wf[w].auth # None
  PROVE  PageInv([u EXCEPT !.wf[w] = IdleFlow], D)
<1> DEFINE v == [u EXCEPT !.wf[w] = IdleFlow]
<1>0. PageSound(u, D)
  BY DEF PageInv
<1>1. \A c \in u.calls : c.live /\ c.chan \in {"preview", "confirm"} => c.of # w
  BY <1>0, AuthorityFacts
<1>2. /\ PageSound(v, D) /\ Changes(u, v, {"wf"})
      /\ DetailWaits(u) => DetailWaits(v)
      /\ LoadWaits(u) => LoadWaits(v)
      /\ Backed(u) => Backed(v)
      /\ (\A x \in Workflows \ {w} : FlowWaitsOf(u, x)) => FlowWaits(v)
  BY <1>0, <1>1, IdleFacts, FlowSettles
<1>3. \A x \in Workflows \ {w} : FlowWaitsOf(u, x)
  BY WaitsOfAll DEF PageInv
<1>4. QED
  BY <1>2, <1>3 DEF PageInv

\* ... and ExpiryPasses marks it.
LEMMA ExpiryPassesFacts ==
  ASSUME NEW u, NEW D, PageInv(u, D), NEW w \in Workflows, u.wf[w].auth # None
  PROVE  PageInv([u EXCEPT !.wf[w].auth.due = TRUE], D)
<1> DEFINE g == u.wf[w]
           a == g.auth
           yes == TRUE
           b == [a EXCEPT !.due = yes]
           f == [g EXCEPT !.auth = b]
           v == [u EXCEPT !.wf[w] = f]
<1>0. PageSound(u, D) /\ yes \in BOOLEAN
  BY DEF PageInv
<1>1. /\ g \in Flow /\ a \in Authority
      /\ ~g.loading /\ ~g.busy /\ Engaged(g) /\ g # IdleFlow
      /\ \A c \in u.calls : c.live /\ c.chan \in {"preview", "confirm"} => c.of # w
  BY <1>0, AuthorityFacts
<1> HIDE DEF yes
<1>p. [u EXCEPT !.wf[w].auth.due = yes] = v
  <2>1. DOMAIN u = PageFields /\ u.wf \in [Workflows -> Flow]
    BY <1>0 DEF PageSound, Typed
  <2>2. QED
    BY <2>1, FlowPath
<1>2. b \in Authority /\ b.on = a.on /\ b.rev = a.rev
  <2> HIDE DEF a
  <2>1. QED
    BY <1>0, <1>1 DEF Authority
<1>3. f \in Flow /\ f.auth = b /\ f.loading = g.loading /\ f.busy = g.busy /\ f.result = g.result
  <2> HIDE DEF b, g
  <2>1. QED
    BY <1>1, <1>2 DEF Flow
<1>4. a # None /\ g = u.wf[w] /\ a = g.auth
  OBVIOUS
<1>5. FlowsOK(u, D)
  BY <1>0 DEF PageSound
<1> HIDE DEF f, b, a, g
<1>6. \A c : Current(u, c) /\ b.on = c.on /\ b.rev = c.rev => Current(u, b)
  BY DEF Current
<1>7. w \in MemoryWorkflows /\ f.auth # None =>
         /\ Current(u, f.auth) /\ u.detail.st \in From(w)
         /\ \A x \in MemoryWorkflows \ {w} : ~Engaged(u.wf[x])
  BY <1>1, <1>2, <1>3, <1>4, <1>5, <1>6 DEF FlowsOK
<1>8. w = "change" /\ f.auth # None => u.prefs.scope \in {f.auth.on, None}
  BY <1>2, <1>3, <1>4, <1>5 DEF FlowsOK
<1>9. /\ w \in MemoryWorkflows /\ f # IdleFlow => u.page = "memory" /\ w \in OfPane(u.pane)
      /\ w = "change" /\ f # IdleFlow => u.page = "privacy"
  BY <1>1, <1>4, <1>5 DEF FlowsOK
<1>10. f.result # None => [by |-> w, ref |-> f.result.ref, rev |-> f.result.rev] \in D
  BY <1>3, <1>4, <1>5 DEF FlowsOK
<1>11. /\ PageSound(v, D) /\ Changes(u, v, {"wf"})
       /\ DetailWaits(u) => DetailWaits(v)
       /\ LoadWaits(u) => LoadWaits(v)
       /\ Backed(u) => Backed(v)
       /\ (\A x \in Workflows \ {w} : FlowWaitsOf(u, x)) => FlowWaits(v)
  BY <1>0, <1>1, <1>3, <1>7, <1>8, <1>9, <1>10, FlowSettles
<1>12. \A x \in Workflows \ {w} : FlowWaitsOf(u, x)
  BY WaitsOfAll DEF PageInv
<1>13. QED
  BY <1>11, <1>12, <1>p DEF PageInv, yes

(* Answers. *)

\* What is known of an answer, whatever came of its request.
AnswerShape(c, D) ==
    /\ c.chan \in Channels /\ c.on \in OnPage /\ c.rev \in Nat
    /\ c.chan \in {"catalog", "list"} => c.of \in Panes \cup {"privacy"}
    /\ c.chan = "overview" => c.of = None
    /\ c.chan = "detail" => c.of \in Panes
    /\ c.chan \in {"preview", "confirm"} => c.of \in Workflows /\ c.on \in Items \cup Scopes
    /\ Good(c) => AnswerOK(c, D)

\* The page when the answer of a request that was not passed is handled: what it waited for may be
\* that very answer, everything else is still on its way.
CallAnswered(u, c, D) ==
    /\ PageSound(u, D) /\ AnswerShape(c, D) /\ Fits(u, c)
    /\ \A d \in u.calls : d.live => Key(d) # Key(c)
    /\ Backed(u)
    /\ c.chan = "catalog" /\ c.of \in Panes => u.load = "scopes"
    /\ c.chan = "list" /\ c.of \in Panes => u.load = "list"
    /\ \A w \in Workflows : FlowWaitsOf(u, w) \/ (c.of = w /\ c.chan \in {"preview", "confirm"})
    /\ DetailWaits(u) \/ c.chan = "detail"
    /\ LoadWaits(u) \/ c.chan \in {"catalog", "list"}

\* An answer nothing else on the page waits for.
LEMMA AnsweredShell ==
  ASSUME NEW u, NEW c, NEW D, CallAnswered(u, c, D), c.chan \in {"login", "session", "logout", "overview"}
  PROVE  PageInv(u, D)
<1>1. FlowWaits(u)
  BY DEF CallAnswered, FlowWaits, FlowWaitsOf
<1>2. QED
  BY <1>1 DEF CallAnswered, PageInv

\* An answer to neither a preview nor a confirmation leaves every workflow its request.
LEMMA AnsweredFlows ==
  ASSUME NEW u, NEW c, NEW D, CallAnswered(u, c, D), c.chan \notin {"preview", "confirm"}
  PROVE  FlowWaits(u)
BY DEF CallAnswered, FlowWaits, FlowWaitsOf

\* Taking an answer off the wire keeps the page sound; only its own wait is open.
LEMMA ReceivedFacts ==
  ASSUME NEW u, NEW D, PageInv(u, D), NEW c \in u.calls
  PROVE  LET r == Received(u, c)
         IN  /\ Changes(u, r, {"calls"}) /\ r.calls = u.calls \ {c}
             /\ ~c.live => PageInv(r, D)
             /\ c.live =>
                   /\ PageSound(r, D) /\ Backed(r) /\ Fits(r, c)
                   /\ \A d \in r.calls : d.live => Key(d) # Key(c)
                   /\ c.chan = "catalog" /\ c.of \in Panes => r.load = "scopes"
                   /\ c.chan = "list" /\ c.of \in Panes => r.load = "list"
                   /\ \A w \in Workflows : FlowWaitsOf(r, w) \/ (c.of = w /\ c.chan \in {"preview", "confirm"})
                   /\ DetailWaits(r) \/ c.chan = "detail"
                   /\ LoadWaits(r) \/ c.chan \in {"catalog", "list"}
<1> DEFINE r == Received(u, c)
<1>0. PageSound(u, D) /\ Backed(u) /\ FlowWaits(u) /\ DetailWaits(u) /\ LoadWaits(u)
  BY DEF PageInv
<1>1. Changes(u, r, {"calls"}) /\ r.calls = u.calls \ {c}
  BY <1>0 DEF Received, Changes, PageFields, PageSound, Typed
<1> HIDE DEF r
<1>2. CallsOK(r.calls, D) /\ Single(r.calls)
  BY <1>0, <1>1 DEF PageSound, CallsOK, Single
<1>3. /\ r.page = u.page /\ r.pane = u.pane /\ r.load = u.load /\ r.wf = u.wf /\ r.prefs = u.prefs
      /\ r.detailLoading = u.detailLoading /\ r.detail = u.detail /\ r.scope = u.scope
  BY <1>1 DEF Changes, PageFields
<1>4. ASSUME ~c.live PROVE PageInv(r, D)
  <2>1. PassedTo(u.calls, {}, r.calls)
    BY <1>1, <1>4 DEF PassedTo
  <2>2. PageSound(r, D) /\ Backed(r)
    BY <1>0, <1>1, <1>2, <2>1, PassChange
  <2>3. \A x, y : Live(u, x, y) => Live(r, x, y)
    BY <1>1, <1>4 DEF Live
  <2>4. FlowWaits(r) /\ DetailWaits(r) /\ LoadWaits(r)
    BY <1>0, <1>1, <2>3, SentWaits
  <2>5. QED
    BY <2>2, <2>4 DEF PageInv
<1>5. ASSUME c.live
      PROVE  /\ PageSound(r, D) /\ Backed(r) /\ Fits(r, c)
             /\ \A d \in r.calls : d.live => Key(d) # Key(c)
             /\ c.chan = "catalog" /\ c.of \in Panes => r.load = "scopes"
             /\ c.chan = "list" /\ c.of \in Panes => r.load = "list"
             /\ \A w \in Workflows : FlowWaitsOf(r, w) \/ (c.of = w /\ c.chan \in {"preview", "confirm"})
             /\ DetailWaits(r) \/ c.chan = "detail"
             /\ LoadWaits(r) \/ c.chan \in {"catalog", "list"}
  <2>1. \A d \in r.calls : d.live => Key(d) # Key(c)
    BY <1>0, <1>1, <1>5 DEF PageSound, Single, Key
  <2>2. PassedTo(u.calls, {Key(c)}, r.calls)
    BY <1>1, <2>1 DEF PassedTo
  <2>3. PageSound(r, D) /\ Backed(r)
    BY <1>0, <1>1, <1>2, <2>2, PassChange
  <2>4. Fits(u, c)
    BY <1>0, <1>5 DEF PageSound, AllFit
  <2>5. Fits(r, c)
    BY <1>3, <2>4 DEF Fits
  <2>6. \A x, y : Live(u, x, y) /\ Key(c) # <<x, y>> => Live(r, x, y)
    BY <1>1 DEF Live, Key
  <2>7. \A w \in Workflows : FlowWaitsOf(r, w) \/ (c.of = w /\ c.chan \in {"preview", "confirm"})
    <3> TAKE w \in Workflows
    <3>1. CASE c.of = w /\ c.chan \in {"preview", "confirm"}
      BY <3>1
    <3>2. CASE ~(c.of = w /\ c.chan \in {"preview", "confirm"})
      <4>1. Key(c) # <<"preview", w>> /\ Key(c) # <<"confirm", w>>
        BY <3>2 DEF Key
      <4>2. FlowWaitsOf(u, w)
        BY <1>0, WaitsOfAll
      <4>3. FlowWaitsOf(r, w)
        BY <1>3, <2>6, <4>1, <4>2 DEF FlowWaitsOf
      <4>4. QED
        BY <4>3
    <3>3. QED
      BY <3>1, <3>2
  <2>8. DetailWaits(r) \/ c.chan = "detail"
    BY <1>0, <1>3, <2>6 DEF DetailWaits, Key
  <2>9. LoadWaits(r) \/ c.chan \in {"catalog", "list"}
    BY <1>0, <1>3, <2>6 DEF LoadWaits, Key
  <2>10. /\ c.chan = "catalog" /\ c.of \in Panes => r.load = "scopes"
         /\ c.chan = "list" /\ c.of \in Panes => r.load = "list"
    BY <1>0, <1>3, <1>5 DEF Backed
  <2>11. QED
    BY <2>1, <2>3, <2>5, <2>7, <2>8, <2>9, <2>10
<1>6. QED
  BY <1>1, <1>4, <1>5 DEF r

\* CatalogAnswered keeps the invariant.
LEMMA CatalogAnsweredFacts ==
  ASSUME NEW u, NEW c, NEW D, CallAnswered(u, c, D), c.chan = "catalog", c.of \in Panes
  PROVE  PageInv(CatalogAnswered(u, c), D)
<1> DEFINE p == u.pane
           s == IF u.scope[p] \in c.data THEN u.scope[p] ELSE None
           v == [u EXCEPT !.catalog[p] = c.data, !.scope[p] = s]
<1>0. /\ PageSound(u, D) /\ u.page = "memory" /\ c.of = p /\ p \in Panes /\ u.load = "scopes" /\ u.list = {}
      /\ DOMAIN u = PageFields
      /\ u.catalog \in [Panes -> SUBSET Scopes] /\ u.scope \in [Panes -> Scopes \cup {None}]
      /\ \A x \in Panes : u.scope[x] \in u.catalog[x] \cup {None}
  BY DEF CallAnswered, Fits, PageSound, Typed, Backed
<1>1. \A d \in u.calls : d.live /\ d.of \in Panes => d.chan \notin {"catalog", "list"}
  BY <1>0 DEF CallAnswered, Backed, Key, PageSound, AllFit, Fits
<1>2. FlowWaits(u)
  BY AnsweredFlows
<1>3. CatalogAnswered(u, c) = IF ~Good(c) THEN ListError(u) ELSE IF s = None THEN ListError(v) ELSE LoadList(v)
  BY DEF CatalogAnswered
<1>4. CASE ~Good(c)
  <2>1. LET x == ListError(u)
        IN  /\ PageSound(x, D) /\ DetailWaits(x) /\ LoadWaits(x) /\ Backed(x)
            /\ FlowWaits(u) => FlowWaits(x)
    BY <1>0, <1>1, ListErrorFacts
  <2>2. QED
    BY <1>2, <1>3, <1>4, <2>1 DEF PageInv
<1>5. CASE Good(c)
  <2>1. c.data \subseteq Scopes
    BY <1>5 DEF CallAnswered, AnswerShape, AnswerOK
  <2>2. s \in c.data \cup {None} /\ s \in Scopes \cup {None}
    BY <2>1
  <2> HIDE DEF s
  <2>3. /\ Changes(u, v, {"catalog", "scope"}) /\ v.catalog = [u.catalog EXCEPT ![p] = c.data]
        /\ v.scope = [u.scope EXCEPT ![p] = s]
    <3> DEFINE x == c.data
    <3>1. v = [u EXCEPT !.catalog[p] = x, !.scope[p] = s]
      OBVIOUS
    <3>d. DOMAIN u = PageFields
      BY <1>0
    <3> HIDE DEF p, v, x
    <3> DEFINE g == [u.catalog EXCEPT ![p] = x]
               h == [u.scope EXCEPT ![p] = s]
               y == [u EXCEPT !.catalog = g]
               z == [y EXCEPT !.scope = h]
    <3>2. v = z
      BY <3>d, <3>1 DEF PageFields
    <3> HIDE DEF g, h
    <3>3. Changes(u, y, {"catalog"}) /\ y.catalog = g
      BY <3>d DEF Changes, PageFields
    <3> HIDE DEF y
    <3>4. Changes(y, z, {"scope"}) /\ z.scope = h
      BY <3>3 DEF Changes, PageFields
    <3> HIDE DEF z
    <3>5. Changes(u, v, {"catalog", "scope"}) /\ v.catalog = g /\ v.scope = h
      BY <3>2, <3>3, <3>4 DEF Changes, PageFields
    <3>6. QED
      BY <3>5 DEF g, h, x
  <2> HIDE DEF v
  <2>4. /\ v.catalog \in [Panes -> SUBSET Scopes] /\ v.scope \in [Panes -> Scopes \cup {None}]
        /\ \A x \in Panes : v.scope[x] \in v.catalog[x] \cup {None}
    BY <1>0, <2>1, <2>2, <2>3
  <2>5. PageSound(v, D) /\ FlowWaits(v)
    <3>1. \A d \in u.calls : d.live /\ d.of \in Panes => d.chan # "list"
      BY <1>1
    <3>2. QED
      BY <1>0, <1>2, <2>3, <2>4, <3>1, ScopeChange
  <2>6. v.page = "memory" /\ v.calls = u.calls
    BY <1>0, <2>3 DEF Changes, PageFields
  <2>7. PageInv(ListError(v), D)
    <3>1. \A d \in v.calls : d.live /\ d.of \in Panes => d.chan \notin {"catalog", "list"}
      BY <1>1, <2>6
    <3>2. LET x == ListError(v)
          IN  /\ PageSound(x, D) /\ DetailWaits(x) /\ LoadWaits(x) /\ Backed(x)
              /\ FlowWaits(v) => FlowWaits(x)
      BY <2>5, <2>6, <3>1, ListErrorFacts
    <3>3. QED
      BY <2>5, <3>2 DEF PageInv
  <2>8. PageInv(LoadList(v), D)
    <3>1. \A d \in v.calls : d.live /\ d.of \in Panes => d.chan # "catalog"
      BY <1>1, <2>6
    <3>2. LET x == LoadList(v)
          IN  /\ PageSound(x, D) /\ DetailWaits(x) /\ LoadWaits(x) /\ Backed(x)
              /\ FlowWaits(v) => FlowWaits(x)
      BY <2>5, <2>6, <3>1, LoadListFacts
    <3>3. QED
      BY <2>5, <3>2 DEF PageInv
  <2>9. QED
    BY <1>3, <1>5, <2>7, <2>8
<1>6. QED
  BY <1>4, <1>5

\* Without a detail there is no authority in the pane.
LEMMA NoAuthority ==
  ASSUME NEW u, NEW D, PageSound(u, D), u.detail = None
  PROVE  \A w \in OfPane(u.pane) : u.wf[w].auth = None
<1>1. u.pane \in Panes
  BY DEF PageSound, Typed
<1>2. QED
  BY <1>1, WorkflowFacts DEF PageSound, FlowsOK, Current

\* ListAnswered keeps the invariant.
LEMMA ListAnsweredFacts ==
  ASSUME NEW u, NEW c, NEW D, CallAnswered(u, c, D), c.chan = "list", c.of \in Panes
  PROVE  PageInv(ListAnswered(u, c), D)
<1> DEFINE y == [u EXCEPT !.load = "none"]
           v == [y EXCEPT !.list = c.data]
           k == ResultVisible(v)
           e == ClearDetail(v, k)
           x == [e EXCEPT !.sel = None]
<1>0. /\ PageSound(u, D) /\ u.page = "memory" /\ c.of = u.pane /\ u.load = "list" /\ u.list = {}
      /\ c.on = u.scope[u.pane]
  BY DEF CallAnswered, Fits, Backed
<1>1. \A d \in u.calls : d.live /\ d.of \in Panes => d.chan \notin {"catalog", "list"}
  BY <1>0 DEF CallAnswered, Backed, Key, PageSound, AllFit, Fits
<1>2. FlowWaits(u) /\ DetailWaits(u)
  BY AnsweredFlows DEF CallAnswered
<1>3. ListAnswered(u, c) = IF ~Good(c) THEN ListError(u)
                           ELSE IF c.data = {} THEN ClearRows(v, FALSE, k)
                           ELSE IF Row(v) # {} THEN LoadDetail(v)
                           ELSE x
  <2>1. [u EXCEPT !.list = c.data, !.load = "none"] = v
    BY <1>0 DEF PageSound, Typed, PageFields
  <2> HIDE DEF v, k
  <2>2. QED
    BY <2>1 DEF ListAnswered, k
<1>4. CASE ~Good(c)
  <2>1. LET t == ListError(u)
        IN  /\ PageSound(t, D) /\ DetailWaits(t) /\ LoadWaits(t) /\ Backed(t)
            /\ FlowWaits(u) => FlowWaits(t)
    BY <1>0, <1>1, ListErrorFacts
  <2>2. QED
    BY <1>2, <1>3, <1>4, <2>1 DEF PageInv
<1>5. CASE Good(c)
  <2>1. \A r \in c.data : r \in Shows /\ r.ref \in PaneItems(u.pane) /\ Home[r.ref] = u.scope[u.pane]
    BY <1>0, <1>5 DEF CallAnswered, AnswerShape, AnswerOK
  <2>2. Changes(u, y, {"load"}) /\ y.load = "none"
    BY <1>0 DEF Changes, PageFields, PageSound, Typed
  <2> HIDE DEF y
  <2>3. PageSound(y, D) /\ FlowWaits(y) /\ DetailWaits(y)
    BY <1>0, <1>2, <2>2, LoadChange
  <2>4. y.calls = u.calls /\ y.page = "memory" /\ y.pane = u.pane /\ y.scope = u.scope /\ y.list = {}
    BY <1>0, <2>2 DEF Changes, PageFields
  <2>5. Backed(y) /\ LoadWaits(y)
    BY <1>1, <2>2, <2>4 DEF Backed, LoadWaits
  <2>6. Changes(y, v, {"list"}) /\ v.list = c.data
    BY <2>2 DEF Changes, PageFields
  <2> HIDE DEF v
  <2>7. /\ Changes(y, v, {"list", "sel", "detail", "detailLoading"}) /\ v.sel = y.sel /\ v.detail = y.detail
        /\ v.detailLoading = y.detailLoading /\ v.page = y.page /\ v.pane = y.pane /\ v.scope = y.scope
        /\ v.prefs = y.prefs /\ v.load = y.load /\ v.calls = y.calls
    BY <2>6 DEF Changes, PageFields
  <2>8. y.detail = None
    BY <2>3, <2>4, DetailFacts
  <2>9. PageSound(v, D) /\ FlowWaits(v) /\ LoadWaits(v) /\ Backed(v) /\ DetailWaits(v)
    <3>1. v.list \subseteq Shows /\ v.sel \in Items \cup {None} /\ v.detail \in Shows \cup {None}
          /\ v.detailLoading \in BOOLEAN
      BY <2>1, <2>3, <2>6, <2>7 DEF PageSound, Typed
    <3>2. PageRowsOK(v)
      BY <2>1, <2>3, <2>4, <2>6, <2>7, <2>8 DEF PageSound, PageRowsOK
    <3>3. \A w \in OfPane(y.pane) : y.wf[w].auth = None
      BY <2>3, <2>8, NoAuthority
    <3>4. DetailWaits(v)
      BY <2>3, <2>7 DEF DetailWaits, Live
    <3>5. QED
      BY <2>2, <2>3, <2>5, <2>7, <2>8, <3>1, <3>2, <3>3, <3>4, RowsChange
  <2>10. k \in BOOLEAN
    BY DEF ResultVisible
  <2> HIDE DEF k
  <2>11. PageInv(ClearRows(v, FALSE, k), D)
    <3> DEFINE t == ClearRows(v, FALSE, k)
    <3>1. /\ PageSound(t, D)
          /\ FlowWaits(v) => FlowWaits(t)
          /\ DetailWaits(t)
          /\ LoadWaits(v) => LoadWaits(t)
          /\ Backed(v) => Backed(t)
      BY <2>9, <2>10, ClearRowsFacts
    <3>2. QED
      BY <2>9, <3>1 DEF PageInv
  <2>12. CASE Row(v) # {}
    <3>1. v.sel \in Items
      BY <2>9, <2>12 DEF Row, PageSound, PageRowsOK, PaneItems, Items
    <3>2. LET t == LoadDetail(v)
          IN  /\ PageSound(t, D)
              /\ FlowWaits(v) => FlowWaits(t)
              /\ DetailWaits(t)
              /\ LoadWaits(v) => LoadWaits(t)
              /\ Backed(v) => Backed(t)
      BY <2>4, <2>7, <2>9, <3>1, LoadDetailFacts
    <3>3. PageInv(LoadDetail(v), D)
      BY <2>9, <3>2 DEF PageInv
    <3>4. QED
      BY <1>3, <1>5, <2>11, <2>12, <3>3
  <2>13. CASE Row(v) = {}
    <3>1. /\ Changes(v, e, {"calls", "wf", "detail", "detailLoading"})
          /\ e.detail = None /\ e.detailLoading = FALSE /\ PaneCalm(e)
          /\ PageSound(e, D) /\ FlowWaits(e) /\ DetailWaits(e) /\ LoadWaits(e) /\ Backed(e)
      BY <2>9, <2>10, ClearDetailFacts
    <3> HIDE DEF e
    <3>2. Changes(e, x, {"sel"}) /\ x.sel = None
      BY <3>1 DEF Changes, PageFields, PageSound, Typed
    <3> HIDE DEF x
    <3>3. /\ Changes(e, x, {"list", "sel", "detail", "detailLoading"}) /\ x.list = e.list
          /\ x.detail = None /\ x.detailLoading = FALSE /\ x.page = e.page /\ x.pane = e.pane
          /\ x.scope = e.scope /\ x.prefs = e.prefs /\ e.load = v.load
      BY <3>1, <3>2 DEF Changes, PageFields
    <3>4. x.list \subseteq Shows /\ x.sel \in Items \cup {None} /\ x.detail \in Shows \cup {None}
          /\ x.detailLoading \in BOOLEAN
      BY <3>1, <3>2, <3>3 DEF PageSound, Typed
    <3>5. PageRowsOK(x)
      BY <3>1, <3>3 DEF PageSound, PageRowsOK
    <3>6. \A w \in OfPane(e.pane) : e.wf[w].auth = None
      BY <3>1, NoAuthority
    <3>7. PageSound(x, D) /\ FlowWaits(x) /\ LoadWaits(x) /\ Backed(x)
      BY <2>2, <2>7, <3>1, <3>3, <3>4, <3>5, <3>6, RowsChange
    <3>8. DetailWaits(x)
      BY <3>3 DEF DetailWaits
    <3>9. QED
      BY <1>3, <1>5, <2>11, <2>13, <3>7, <3>8 DEF PageInv
  <2>14. QED
    BY <2>12, <2>13
<1>6. QED
  BY <1>4, <1>5

\* DetailAnswered keeps the invariant: the detail is the row's.
LEMMA DetailAnsweredFacts ==
  ASSUME NEW u, NEW c, NEW D, CallAnswered(u, c, D), c.chan = "detail"
  PROVE  PageInv(DetailAnswered(u, c), D)
<1> DEFINE d == IF Good(c) /\ Row(u) = c.data THEN The(c) ELSE None
           no == FALSE
           y == [u EXCEPT !.detailLoading = no]
           v == [y EXCEPT !.detail = d]
<1>0. /\ PageSound(u, D) /\ u.page = "memory" /\ c.of = u.pane /\ u.detail = None /\ Backed(u) /\ LoadWaits(u)
      /\ DOMAIN u = PageFields /\ no \in BOOLEAN
  BY DEF CallAnswered, AnswerShape, Fits, PageSound, Typed
<1>1. FlowWaits(u)
  BY AnsweredFlows
<1>2. DetailAnswered(u, c) = v
  BY DEF DetailAnswered
<1>3. d \in Shows \cup {None} /\ (d # None => Row(u) = {d})
  <2>1. CASE Good(c) /\ Row(u) = c.data
    <3>1. PICK x \in Shows : c.data = {x}
      BY <2>1 DEF CallAnswered, AnswerShape, AnswerOK
    <3>2. The(c) = x
      BY <3>1 DEF The
    <3>3. QED
      BY <2>1, <3>1, <3>2
  <2>2. CASE ~(Good(c) /\ Row(u) = c.data)
    BY <2>2
  <2>3. QED
    BY <2>1, <2>2
<1> HIDE DEF d, no
<1>4. /\ Changes(u, v, {"list", "sel", "detail", "detailLoading"}) /\ v.detail = d /\ v.detailLoading = no
      /\ v.list = u.list /\ v.sel = u.sel /\ v.page = u.page /\ v.pane = u.pane /\ v.scope = u.scope
      /\ v.prefs = u.prefs
  BY <1>0 DEF Changes, PageFields
<1> HIDE DEF v
<1>5. v.list \subseteq Shows /\ v.sel \in Items \cup {None} /\ v.detail \in Shows \cup {None}
      /\ v.detailLoading \in BOOLEAN
  BY <1>0, <1>3, <1>4 DEF PageSound, Typed
<1>6. PageRowsOK(v)
  BY <1>0, <1>3, <1>4 DEF PageSound, PageRowsOK, Row
<1>7. \A w \in OfPane(u.pane) : u.wf[w].auth = None
  BY <1>0, NoAuthority
<1>8. v.detail # None => \A x \in u.calls : x.live => x.chan # "detail"
  BY <1>0 DEF CallAnswered, Key, PageSound, AllFit, Fits, CallsOK, CallOK
<1>9. PageSound(v, D) /\ FlowWaits(v) /\ LoadWaits(v) /\ Backed(v)
  BY <1>0, <1>1, <1>4, <1>5, <1>6, <1>7, <1>8, RowsChange DEF Backed
<1>10. DetailWaits(v)
  BY <1>4 DEF DetailWaits, no
<1>11. QED
  BY <1>2, <1>9, <1>10 DEF PageInv

\* An authority for the detail on the page.
LEMMA AuthExceptFacts ==
  ASSUME NEW a \in Authority
  PROVE  LET f == [IdleFlow EXCEPT !.auth = a]
         IN  f \in Flow /\ f.loading = FALSE /\ f.busy = FALSE /\ f.auth = a /\ f.result = None
<1> DEFINE no == FALSE
           f == [IdleFlow EXCEPT !.auth = a]
<1>1. IdleFlow = [loading |-> no, auth |-> None, busy |-> no, result |-> None]
  BY DEF IdleFlow
<1> HIDE DEF no
<1>2. f = [loading |-> no, auth |-> a, busy |-> no, result |-> None]
  BY <1>1, AuthExcept
<1>3. QED
  BY <1>2 DEF no, Flow

\* The workflow an answer is for was under way, and nothing else of it is.
LEMMA AnsweredFlow ==
  ASSUME NEW u, NEW c, NEW D, CallAnswered(u, c, D), c.chan \in {"preview", "confirm"}
  PROVE  /\ c.of \in Workflows /\ c.on \in Items \cup Scopes /\ c.rev \in Nat
         /\ PageSound(u, D) /\ Backed(u) /\ DetailWaits(u) /\ LoadWaits(u)
         /\ u.wf[c.of] # IdleFlow /\ Engaged(u.wf[c.of])
         /\ \A d \in u.calls : d.live /\ d.chan \in {"preview", "confirm"} => d.of # c.of
         /\ \A x \in Workflows \ {c.of} : FlowWaitsOf(u, x)
         /\ c.of \in MemoryWorkflows =>
               /\ u.page = "memory" /\ c.of \in OfPane(u.pane)
               /\ \A x \in MemoryWorkflows \ {c.of} : ~Engaged(u.wf[x])
         /\ c.of = "change" => u.page = "privacy"
<1> DEFINE w == c.of
<1>0. /\ w \in Workflows /\ c.on \in Items \cup Scopes /\ c.rev \in Nat
      /\ PageSound(u, D) /\ Backed(u) /\ DetailWaits(u) /\ LoadWaits(u)
  BY DEF CallAnswered, AnswerShape
<1>1. /\ c.chan = "preview" => u.wf[w].loading
      /\ c.chan = "confirm" => u.wf[w].busy
  BY DEF CallAnswered, Fits
<1>2. u.wf[w] # IdleFlow /\ Engaged(u.wf[w])
  BY <1>1, IdleFacts DEF Engaged
<1>3. \A d \in u.calls : d.live /\ d.chan \in {"preview", "confirm"} => d.of # w
  <2> SUFFICES ASSUME NEW d \in u.calls, d.live, d.chan \in {"preview", "confirm"}, d.of = w PROVE FALSE
    OBVIOUS
  <2>1. d.chan # c.chan
    BY DEF CallAnswered, Key
  <2>2. /\ d.chan = "preview" => u.wf[w].loading
        /\ d.chan = "confirm" => u.wf[w].busy
    BY <1>0 DEF PageSound, AllFit, Fits
  <2>3. ~(u.wf[w].loading /\ u.wf[w].busy)
    BY <1>0 DEF PageSound, FlowsOK
  <2>4. QED
    BY <1>1, <2>1, <2>2, <2>3
<1>4. \A x \in Workflows \ {w} : FlowWaitsOf(u, x)
  BY DEF CallAnswered
<1>5. FlowsOK(u, D)
  BY <1>0 DEF PageSound
<1>6. w \in MemoryWorkflows =>
               /\ u.page = "memory" /\ w \in OfPane(u.pane)
               /\ \A x \in MemoryWorkflows \ {w} : ~Engaged(u.wf[x])
  BY <1>2, <1>5 DEF FlowsOK
<1>7. w = "change" => u.page = "privacy"
  BY <1>2, <1>5 DEF FlowsOK
<1>8. QED
  BY <1>0, <1>2, <1>3, <1>4, <1>6, <1>7

\* PreviewAnswered keeps the invariant: the authority is for the row and the detail shown.
LEMMA PreviewAnsweredFacts ==
  ASSUME NEW u, NEW c, NEW D, CallAnswered(u, c, D), c.chan = "preview", c.of # "change"
  PROVE  PageInv(PreviewAnswered(u, c), D)
<1> DEFINE w == c.of
           a == [on |-> c.on, rev |-> The(c).rev, due |-> FALSE]
           g == [IdleFlow EXCEPT !.auth = a]
           f == IF Accepted(u, w, c) THEN g ELSE IdleFlow
           v == [u EXCEPT !.wf[w] = f]
<1>0. /\ w \in Workflows /\ c.on \in Items \cup Scopes /\ c.rev \in Nat
      /\ PageSound(u, D) /\ Backed(u) /\ DetailWaits(u) /\ LoadWaits(u)
      /\ \A d \in u.calls : d.live /\ d.chan \in {"preview", "confirm"} => d.of # w
      /\ \A x \in Workflows \ {w} : FlowWaitsOf(u, x)
  BY AnsweredFlow
<1>1. w \in MemoryWorkflows /\ w # "change"
  BY <1>0, WorkflowFacts
<1>2. /\ u.page = "memory" /\ w \in OfPane(u.pane)
      /\ \A x \in MemoryWorkflows \ {w} : ~Engaged(u.wf[x])
  BY <1>1, AnsweredFlow
<1>3. PreviewAnswered(u, c) = v
  BY DEF PreviewAnswered
<1>4. /\ f \in Flow /\ ~f.loading /\ ~f.busy /\ f.result = None
      /\ f.auth # None => Current(u, f.auth) /\ u.detail.st \in From(w)
  <2>1. CASE Accepted(u, w, c)
    <3>1. Current(u, c) /\ c.data = {u.detail} /\ u.detail.st \in From(w)
      BY <2>1 DEF Accepted
    <3>2. The(c) = u.detail
      BY <3>1 DEF The
    <3>3. a.on = c.on /\ a.rev = c.rev /\ c.rev = u.detail.rev
      BY <3>1, <3>2 DEF Current
    <3>4. a \in Authority
      BY <1>0, <3>3 DEF Authority
    <3>5. f = g
      BY <2>1
    <3> HIDE DEF a
    <3>6. g \in Flow /\ g.loading = FALSE /\ g.busy = FALSE /\ g.auth = a /\ g.result = None
      BY <3>4, AuthExceptFacts
    <3> HIDE DEF f, g
    <3>7. Current(u, a)
      BY <3>1, <3>3 DEF Current
    <3>8. QED
      BY <3>1, <3>5, <3>6, <3>7
  <2>2. CASE ~Accepted(u, w, c)
    BY <2>2, IdleFacts
  <2>3. QED
    BY <2>1, <2>2
<1> HIDE DEF f, w
<1>5. /\ PageSound(v, D) /\ Changes(u, v, {"wf"})
      /\ DetailWaits(u) => DetailWaits(v)
      /\ LoadWaits(u) => LoadWaits(v)
      /\ Backed(u) => Backed(v)
      /\ (\A x \in Workflows \ {w} : FlowWaitsOf(u, x)) => FlowWaits(v)
  BY <1>0, <1>1, <1>2, <1>4, FlowSettles
<1>6. QED
  BY <1>0, <1>3, <1>5 DEF PageInv

\* What a confirmation that succeeded shows was done.
LEMMA OutcomeFacts ==
  ASSUME NEW c, NEW D, AnswerShape(c, D), c.chan = "confirm"
  PROVE  /\ Outcome(c) \in Flow /\ ~Outcome(c).loading /\ ~Outcome(c).busy /\ Outcome(c).auth = None
         /\ Outcome(c).result # None =>
               [by |-> c.of, ref |-> Outcome(c).result.ref, rev |-> Outcome(c).result.rev] \in D
<1> DEFINE r == IF Succeeded(c) THEN The(c) ELSE None
           o == Outcome(c)
<1>1. r \in Shows \cup {None} /\ (r # None => [by |-> c.of, ref |-> r.ref, rev |-> r.rev] \in D)
  <2>1. CASE Succeeded(c)
    <3> DEFINE t == [ref |-> c.on, st |-> To(c.of), rev |-> c.rev + 1]
    <3>1. c.data = {t} /\ Good(c)
      BY <2>1 DEF Succeeded
    <3>2. The(c) = t
      BY <3>1 DEF The
    <3>3. t \in Shows
      BY DEF AnswerShape, Shows, ItemStates
    <3>4. [by |-> c.of, ref |-> t.ref, rev |-> t.rev] \in D
      BY <3>1 DEF AnswerShape, AnswerOK
    <3>5. QED
      BY <2>1, <3>2, <3>3, <3>4
  <2>2. CASE ~Succeeded(c)
    BY <2>2
  <2>3. QED
    BY <2>1, <2>2
<1>2. o = [IdleFlow EXCEPT !.result = r]
  BY DEF Outcome
<1> HIDE DEF r
<1>3. LET f == [IdleFlow EXCEPT !.result = r]
      IN  f.loading = FALSE /\ f.auth = None /\ f.busy = FALSE /\ f.result = r /\ f \in Flow
          /\ ~Engaged(f) /\ (r = None => f = IdleFlow)
  BY <1>1, ResultFacts
<1>4. QED
  BY <1>1, <1>2, <1>3

\* A confirmation was answered, whatever the answer.
LEMMA OutcomeShown ==
  ASSUME NEW u, NEW c, NEW D, CallAnswered(u, c, D), c.chan = "confirm"
  PROVE  LET v == [u EXCEPT !.wf[c.of] = Outcome(c)]
         IN  PageInv(v, D) /\ v.page = u.page
<1> DEFINE w == c.of
           f == Outcome(c)
           v == [u EXCEPT !.wf[w] = f]
<1>0. /\ w \in Workflows
      /\ PageSound(u, D) /\ Backed(u) /\ DetailWaits(u) /\ LoadWaits(u)
      /\ \A d \in u.calls : d.live /\ d.chan \in {"preview", "confirm"} => d.of # w
      /\ \A x \in Workflows \ {w} : FlowWaitsOf(u, x)
      /\ w \in MemoryWorkflows => u.page = "memory" /\ w \in OfPane(u.pane)
      /\ w = "change" => u.page = "privacy"
  BY AnsweredFlow
<1>1. /\ f \in Flow /\ ~f.loading /\ ~f.busy /\ f.auth = None
      /\ f.result # None => [by |-> w, ref |-> f.result.ref, rev |-> f.result.rev] \in D
  BY OutcomeFacts DEF CallAnswered
<1> HIDE DEF f, w
<1>2. /\ PageSound(v, D) /\ Changes(u, v, {"wf"})
      /\ DetailWaits(u) => DetailWaits(v)
      /\ LoadWaits(u) => LoadWaits(v)
      /\ Backed(u) => Backed(v)
      /\ (\A x \in Workflows \ {w} : FlowWaitsOf(u, x)) => FlowWaits(v)
  BY <1>0, <1>1, FlowSettles
<1>3. v.page = u.page
  BY <1>2 DEF Changes, PageFields
<1>4. QED
  BY <1>0, <1>2, <1>3 DEF PageInv, f, w

\* ConfirmAnswered keeps the invariant: a success is one the server has noted.
LEMMA ConfirmAnsweredFacts ==
  ASSUME NEW u, NEW c, NEW D, CallAnswered(u, c, D), c.chan = "confirm", c.of # "change"
  PROVE  PageInv(ConfirmAnswered(u, c), D)
<1> DEFINE v == [u EXCEPT !.wf[c.of] = Outcome(c)]
           keep == c.of \in {"approve", "reject"}
           yes == TRUE
           x == ClearRows(v, FALSE, yes)
<1>0. PageInv(v, D) /\ v.page = u.page
  BY OutcomeShown
<1>1. u.page = "memory"
  BY AnsweredFlow, WorkflowFacts
<1>2. ConfirmAnswered(u, c) = IF ~Succeeded(c) THEN v ELSE LoadCatalog(x, keep)
  BY DEF ConfirmAnswered
<1>3. keep \in BOOLEAN /\ yes \in BOOLEAN /\ PageSound(v, D) /\ FlowWaits(v)
  BY <1>0 DEF PageInv
<1> HIDE DEF v, keep, yes
<1>4. /\ Changes(v, x, {"calls", "wf", "detail", "detailLoading", "list", "sel"})
      /\ PageSound(x, D)
      /\ FlowWaits(x)
  BY <1>3, ClearRowsFacts
<1> HIDE DEF x
<1>5. x.page = "memory"
  BY <1>0, <1>1, <1>4 DEF Changes, PageFields
<1>6. LET t == LoadCatalog(x, keep)
      IN  /\ PageSound(t, D) /\ DetailWaits(t) /\ LoadWaits(t) /\ Backed(t)
          /\ FlowWaits(x) => FlowWaits(t)
  BY <1>3, <1>4, <1>5, LoadCatalogFacts
<1>7. PageInv(LoadCatalog(x, keep), D)
  BY <1>4, <1>6 DEF PageInv
<1>8. QED
  BY <1>0, <1>2, <1>7

\* ChangeConfirmed keeps the invariant ...
LEMMA ChangeConfirmedFacts ==
  ASSUME NEW u, NEW c, NEW D, CallAnswered(u, c, D), c.chan = "confirm", c.of = "change"
  PROVE  PageInv(ChangeConfirmed(u, c), D)
<1> DEFINE v == [u EXCEPT !.wf["change"] = Outcome(c)]
<1>0. PageInv(v, D) /\ v.page = u.page
  <2>1. v = [u EXCEPT !.wf[c.of] = Outcome(c)]
    OBVIOUS
  <2> HIDE DEF v
  <2>2. QED
    BY <2>1, OutcomeShown
<1>1. u.page = "privacy"
  BY AnsweredFlow
<1>2. ChangeConfirmed(u, c) = IF ~Succeeded(c) THEN Update(v) ELSE LoadPreferences(v)
  BY DEF ChangeConfirmed
<1> HIDE DEF v
<1>3. PageInv(Update(v), D) /\ PageInv(LoadPreferences(v), D)
  BY <1>0, <1>1, UpdateKeeps, LoadPreferencesFacts
<1>4. QED
  BY <1>2, <1>3

\* ... and so does ChangePreviewed.
LEMMA ChangePreviewedFacts ==
  ASSUME NEW u, NEW c, NEW D, CallAnswered(u, c, D), c.chan = "preview", c.of = "change"
  PROVE  PageInv(ChangePreviewed(u, c), D)
<1> DEFINE w == "change"
           a == [on |-> c.on, rev |-> The(c).rev, due |-> FALSE]
           g == [IdleFlow EXCEPT !.auth = a]
           v == [u EXCEPT !.wf[w] = g]
           x == [u EXCEPT !.wf[w] = IdleFlow]
           no == FALSE
           z == [x EXCEPT !.prefs.off = no]
<1>0. /\ w \in Workflows /\ w \notin MemoryWorkflows /\ c.on \in Items \cup Scopes /\ c.rev \in Nat
      /\ PageSound(u, D) /\ Backed(u) /\ DetailWaits(u) /\ LoadWaits(u)
      /\ \A d \in u.calls : d.live /\ d.chan \in {"preview", "confirm"} => d.of # w
      /\ \A y \in Workflows \ {w} : FlowWaitsOf(u, y)
      /\ u.page = "privacy"
  BY AnsweredFlow, WorkflowFacts
<1>1. u.prefs.scope \in {c.on, None}
  BY DEF CallAnswered, Fits
<1>2. ChangePreviewed(u, c) = IF Good(c) THEN v ELSE z
  BY DEF ChangePreviewed
<1>3. CASE Good(c)
  <2>1. PICK t \in Shows : c.data = {t}
    BY <1>3 DEF CallAnswered, AnswerShape, AnswerOK
  <2>2. The(c) = t /\ t.rev \in Nat
    BY <2>1 DEF The, Shows
  <2>3. a \in Authority /\ a.on = c.on
    BY <1>0, <2>2 DEF Authority
  <2> HIDE DEF a, w
  <2>4. g \in Flow /\ g.loading = FALSE /\ g.busy = FALSE /\ g.auth = a /\ g.result = None
    BY <2>3, AuthExceptFacts
  <2> HIDE DEF g
  <2>5. /\ PageSound(v, D) /\ Changes(u, v, {"wf"})
        /\ DetailWaits(u) => DetailWaits(v)
        /\ LoadWaits(u) => LoadWaits(v)
        /\ Backed(u) => Backed(v)
        /\ (\A y \in Workflows \ {w} : FlowWaitsOf(u, y)) => FlowWaits(v)
    BY <1>0, <1>1, <2>3, <2>4, FlowSettles
  <2>6. QED
    BY <1>0, <1>2, <1>3, <2>5 DEF PageInv
<1>4. CASE ~Good(c)
  <2> HIDE DEF w, no, v
  <2>1. /\ PageSound(x, D) /\ Changes(u, x, {"wf"})
        /\ DetailWaits(u) => DetailWaits(x)
        /\ LoadWaits(u) => LoadWaits(x)
        /\ Backed(u) => Backed(x)
        /\ (\A y \in Workflows \ {w} : FlowWaitsOf(u, y)) => FlowWaits(x)
    BY <1>0, IdleFacts, FlowSettles
  <2>2. PageInv(x, D) /\ DOMAIN x = PageFields
    BY <1>0, <2>1 DEF PageInv, Changes
  <2> HIDE DEF x
  <2>3. Changes(x, z, {"prefs"}) /\ z.prefs = [x.prefs EXCEPT !.off = no]
    BY <2>2, PrefsExcept, Zenon
  <2>4. no \in BOOLEAN
    BY DEF no
  <2> HIDE DEF z
  <2>5. PageInv(z, D)
    BY <2>2, <2>3, <2>4, OffSet
  <2>6. QED
    BY <1>2, <1>4, <2>5
<1>5. QED
  BY <1>3, <1>4

\* The Privacy view has its answer.
LEMMA LoadedPrivacy ==
  ASSUME NEW u, NEW c, NEW D, CallAnswered(u, c, D), c.chan \in {"catalog", "list"}, c.of = "privacy"
  PROVE  LET v == [u EXCEPT !.prefs.load = "none"]
         IN  PageInv(v, D) /\ v.page = "privacy"
<1> DEFINE none == "none"
           v == [u EXCEPT !.prefs.load = none]
<1>0. /\ PageSound(u, D) /\ u.page = "privacy" /\ Backed(u) /\ DetailWaits(u) /\ DOMAIN u = PageFields
      /\ u.prefs \in Preferences /\ u.prefs.scope \in u.prefs.catalog \cup {None}
      /\ none \in {"none", "scopes", "list"}
  BY DEF CallAnswered, Fits, PageSound, Typed
<1>1. FlowWaits(u)
  BY AnsweredFlows
<1> HIDE DEF none
<1>2. Changes(u, v, {"prefs"}) /\ v.prefs = [u.prefs EXCEPT !.load = none]
  BY <1>0, PrefsExcept, Zenon
<1> HIDE DEF v
<1>3. /\ v.prefs \in Preferences /\ v.prefs.catalog = u.prefs.catalog /\ v.prefs.scope = u.prefs.scope
      /\ v.prefs.shown = u.prefs.shown /\ v.prefs.load = none
  <2> DEFINE q == [u.prefs EXCEPT !.load = none]
  <2>1. /\ q \in Preferences /\ q.catalog = u.prefs.catalog /\ q.scope = u.prefs.scope
        /\ q.shown = u.prefs.shown /\ q.load = none
    BY <1>0, PrefsLoad, Zenon
  <2>2. v.prefs = q
    BY <1>2
  <2> HIDE DEF q
  <2>3. QED
    BY <2>1, <2>2
<1>4. PageSound(v, D) /\ FlowWaits(v) /\ DetailWaits(v) /\ Backed(v)
  BY <1>0, <1>1, <1>2, <1>3, PrefsChange
<1>5. v.page = "privacy"
  BY <1>0, <1>2 DEF Changes, PageFields
<1>6. LoadWaits(v)
  BY <1>3, <1>5 DEF LoadWaits, none
<1>7. QED
  BY <1>4, <1>5, <1>6 DEF PageInv, v, none

\* PrefCatalogAnswered keeps the invariant ...
LEMMA PrefCatalogAnsweredFacts ==
  ASSUME NEW u, NEW c, NEW D, CallAnswered(u, c, D), c.chan = "catalog", c.of = "privacy"
  PROVE  PageInv(PrefCatalogAnswered(u, c), D)
<1> DEFINE v == [u EXCEPT !.prefs.load = "none"]
           k == c.data
           y == [v EXCEPT !.prefs.catalog = k]
           z == [y EXCEPT !.prefs.scope = None]
<1>1. PageInv(v, D) /\ v.page = "privacy"
  BY LoadedPrivacy
<1>2. PrefCatalogAnswered(u, c) = IF Good(c) THEN Update([v EXCEPT !.prefs.catalog = k, !.prefs.scope = None]) ELSE v
  BY DEF PrefCatalogAnswered
<1> HIDE DEF v, k
<1>z. z = [v EXCEPT !.prefs.catalog = k, !.prefs.scope = None]
  OBVIOUS
<1>3. ASSUME Good(c) PROVE PageInv(Update(z), D)
  <2>1. k \in SUBSET Scopes
    BY <1>3 DEF CallAnswered, AnswerShape, AnswerOK, k
  <2>2. DOMAIN v = PageFields /\ v.prefs \in Preferences
    BY <1>1 DEF PageInv, PageSound, Typed
  <2>3. Changes(v, y, {"prefs"}) /\ y.prefs = [v.prefs EXCEPT !.catalog = k]
    BY <2>2, PrefsExcept, Zenon
  <2> HIDE DEF y
  <2>4. /\ y.prefs \in Preferences /\ y.prefs.catalog = k /\ y.prefs.scope = v.prefs.scope
        /\ y.prefs.shown = v.prefs.shown /\ y.prefs.load = v.prefs.load
    BY <2>1, <2>2, <2>3, PrefsCatalog
  <2>5. Changes(y, z, {"prefs"}) /\ z.prefs = [y.prefs EXCEPT !.scope = None]
    <3>1. DOMAIN y = PageFields
      BY <2>3 DEF Changes
    <3>2. QED
      BY <3>1, PrefsExcept, Zenon
  <2> HIDE DEF z
  <2>6. /\ z.prefs \in Preferences /\ z.prefs.catalog = k /\ z.prefs.scope = None
        /\ z.prefs.shown = v.prefs.shown /\ z.prefs.load = v.prefs.load
    <3>1. None \in Scopes \cup {None}
      OBVIOUS
    <3>2. QED
      BY <2>4, <2>5, <3>1, PrefsScope
  <2>7. Changes(v, z, {"prefs"})
    BY <2>3, <2>5 DEF Changes
  <2>8. PageInv(z, D)
    BY <1>1, <2>6, <2>7, PrefsChange DEF PageInv
  <2>9. QED
    BY <2>8, UpdateKeeps
<1>4. QED
  BY <1>1, <1>2, <1>3, <1>z

\* ... and so does PreferencesAnswered.
LEMMA PreferencesAnsweredFacts ==
  ASSUME NEW u, NEW c, NEW D, CallAnswered(u, c, D), c.chan = "list", c.of = "privacy"
  PROVE  PageInv(PreferencesAnswered(u, c), D)
<1> DEFINE v == [u EXCEPT !.prefs.load = "none"]
           s == The(c)
           z == [v EXCEPT !.prefs.shown = s]
<1>1. PageInv(v, D) /\ v.page = "privacy"
  BY LoadedPrivacy
<1>2. PreferencesAnswered(u, c) = IF Good(c) THEN Update(z) ELSE v
  BY DEF PreferencesAnswered
<1> HIDE DEF v
<1>3. ASSUME Good(c) PROVE PageInv(Update(z), D)
  <2>0. s \in Shows \cup {None}
    <3>1. PICK t \in Shows : c.data = {t}
      BY <1>3 DEF CallAnswered, AnswerShape, AnswerOK
    <3>2. QED
      BY <3>1 DEF The
  <2> HIDE DEF s
  <2>2. DOMAIN v = PageFields /\ v.prefs \in Preferences /\ v.prefs.scope \in v.prefs.catalog \cup {None}
    BY <1>1 DEF PageInv, PageSound, Typed
  <2>3. Changes(v, z, {"prefs"}) /\ z.prefs = [v.prefs EXCEPT !.shown = s]
    BY <2>2, PrefsExcept, Zenon
  <2> HIDE DEF z
  <2>4. /\ z.prefs \in Preferences /\ z.prefs.catalog = v.prefs.catalog /\ z.prefs.scope = v.prefs.scope
        /\ z.prefs.shown = s /\ z.prefs.load = v.prefs.load
    BY <2>0, <2>2, <2>3, PrefsShown
  <2>5. PageInv(z, D)
    BY <1>1, <2>2, <2>3, <2>4, PrefsChange DEF PageInv
  <2>6. QED
    BY <2>5, UpdateKeeps
<1>4. QED
  BY <1>1, <1>2, <1>3

\* LoginAnswered, SessionAnswered, LogoutAnswered and OverviewAnswered keep the invariant.
LEMMA ShellAnswered ==
  ASSUME NEW u, NEW c, NEW D, PageInv(u, D)
  PROVE  /\ PageInv(LoginAnswered(u, c), D) /\ PageInv(SessionAnswered(u, c), D)
         /\ PageInv(LogoutAnswered(u, c), D) /\ PageInv(OverviewAnswered(u, c), D)
<1>1. PageInv(ShowLogin(u), D)
  BY ShowLoginFacts DEF PageInv
<1>2. PageInv(LoginAnswered(u, c), D)
  <2> DEFINE yes == TRUE
             x == [u EXCEPT !.csrf = yes]
             session1 == "session"
  <2>1. LoginAnswered(u, c) = IF Good(c) THEN Send(x, session1, None, None, 0) ELSE ShowLogin(u)
    BY DEF LoginAnswered
  <2>2. yes \in BOOLEAN /\ session1 \in {"login", "session", "logout"}
    OBVIOUS
  <2> HIDE DEF yes, session1
  <2>3. PageInv(x, D)
    BY <2>2, ShellFields
  <2> HIDE DEF x
  <2>4. PageInv(Send(x, session1, None, None, 0), D)
    BY <2>2, <2>3, ShellSend
  <2>5. QED
    BY <1>1, <2>1, <2>4
<1>3. PageInv(SessionAnswered(u, c), D)
  <2> DEFINE x == SelectView(u, "overview")
  <2>1. PageInv(x, D) /\ x.page = "overview"
    BY OverviewSelected DEF PageInv
  <2>2. SessionAnswered(u, c) = IF Good(c) THEN LoadOverview(x) ELSE ShowLogin(u)
    BY DEF SessionAnswered
  <2> HIDE DEF x
  <2>3. PageInv(LoadOverview(x), D)
    BY <2>1, LoadOverviewFacts
  <2>4. QED
    BY <1>1, <2>2, <2>3
<1>4. PageInv(LogoutAnswered(u, c), D)
  <2> DEFINE no == FALSE
             x == [u EXCEPT !.logoutBusy = no]
  <2>1. LogoutAnswered(u, c) = ShowLogin(x)
    BY DEF LogoutAnswered
  <2>2. no \in BOOLEAN
    OBVIOUS
  <2> HIDE DEF no
  <2>3. PageInv(x, D)
    BY <2>2, ShellFields
  <2> HIDE DEF x
  <2>4. QED
    BY <2>1, <2>3, ShowLoginFacts DEF PageInv
<1>5. PageInv(OverviewAnswered(u, c), D)
  <2>1. OverviewAnswered(u, c) = [u EXCEPT !.overview = "settled"]
    BY DEF OverviewAnswered
  <2>2. TRUE \in BOOLEAN
    OBVIOUS
  <2>3. PageInv([u EXCEPT !.overview = "settled"], D)
    BY <2>2, ShellFields
  <2>4. QED
    BY <2>1, <2>3
<1>6. QED
  BY <1>2, <1>3, <1>4, <1>5

\* Any answer keeps the invariant, whichever request it is to and however late it comes.
LEMMA HandledFacts ==
  ASSUME NEW u, NEW D, PageInv(u, D), NEW c \in u.calls, NEW status, status = "ok" => c.status = "ok"
  PROVE  PageInv(Handled(Received(u, c), [c EXCEPT !.status = status]), D)
<1> DEFINE r == Received(u, c)
           d == [c EXCEPT !.status = status]
<1>0. CallOK(c, D)
  BY DEF PageInv, PageSound, CallsOK
<1>1. /\ d.chan = c.chan /\ d.of = c.of /\ d.on = c.on /\ d.rev = c.rev /\ d.live = c.live
      /\ d.status = status /\ d.data = c.data
  <2>1. c = [chan |-> c.chan, of |-> c.of, on |-> c.on, rev |-> c.rev, live |-> c.live,
             status |-> c.status, data |-> c.data]
    BY <1>0 DEF CallOK
  <2>2. QED
    BY <2>1
<1> HIDE DEF d
<1>2. /\ ~c.live => PageInv(r, D)
      /\ c.live =>
            /\ PageSound(r, D) /\ Backed(r) /\ Fits(r, c)
            /\ \A x \in r.calls : x.live => Key(x) # Key(c)
            /\ c.chan = "catalog" /\ c.of \in Panes => r.load = "scopes"
            /\ c.chan = "list" /\ c.of \in Panes => r.load = "list"
            /\ \A w \in Workflows : FlowWaitsOf(r, w) \/ (c.of = w /\ c.chan \in {"preview", "confirm"})
            /\ DetailWaits(r) \/ c.chan = "detail"
            /\ LoadWaits(r) \/ c.chan \in {"catalog", "list"}
  BY ReceivedFacts
<1> HIDE DEF r
<1>3. CASE ~c.live
  <2>1. Handled(r, d) = r
    BY <1>1, <1>3 DEF Handled, Passed
  <2>2. QED
    BY <1>2, <1>3, <2>1 DEF r, d
<1>4. CASE c.live
  <2>1. CallAnswered(r, d, D)
    <3>1. AnswerShape(d, D)
      BY <1>0, <1>1 DEF CallOK, AnswerShape, AnswerOK, Good
    <3>2. Fits(r, d)
      BY <1>1, <1>2, <1>4 DEF Fits
    <3>3. Key(d) = Key(c)
      BY <1>1 DEF Key
    <3>4. QED
      BY <1>1, <1>2, <1>4, <3>1, <3>2, <3>3 DEF CallAnswered
  <2>2. PageSound(r, D)
    BY <2>1 DEF CallAnswered
  <2>3. ~Passed(d)
    BY <1>1, <1>4 DEF Passed
  <2>4. CASE d.chan \notin {"login", "session", "logout"} /\ d.status = "expired"
    <3>1. Handled(r, d) = ShowLogin(r)
      BY <2>3, <2>4 DEF Handled
    <3>2. QED
      BY <2>2, <3>1, ShowLoginFacts DEF r, d
  <2>5. CASE ~(d.chan \notin {"login", "session", "logout"} /\ d.status = "expired")
    <3>1. CASE d.chan \in {"login", "session", "logout", "overview"}
      <4>1. PageInv(r, D)
        BY <2>1, <3>1, AnsweredShell
      <4>2. /\ PageInv(LoginAnswered(r, d), D) /\ PageInv(SessionAnswered(r, d), D)
            /\ PageInv(LogoutAnswered(r, d), D) /\ PageInv(OverviewAnswered(r, d), D)
        BY <4>1, ShellAnswered
      <4>3. \/ d.chan = "login" /\ Handled(r, d) = LoginAnswered(r, d)
            \/ d.chan = "session" /\ Handled(r, d) = SessionAnswered(r, d)
            \/ d.chan = "logout" /\ Handled(r, d) = LogoutAnswered(r, d)
            \/ d.chan = "overview" /\ Handled(r, d) = OverviewAnswered(r, d)
        BY <2>3, <2>5, <3>1 DEF Handled
      <4>4. QED
        BY <4>2, <4>3 DEF r, d
    <3>2. CASE d.chan = "catalog"
      <4>1. CASE d.of \in Panes
        <5>1. Handled(r, d) = CatalogAnswered(r, d)
          BY <2>3, <2>5, <3>2, <4>1, NotPanes DEF Handled
        <5>2. QED
          BY <2>1, <3>2, <4>1, <5>1, CatalogAnsweredFacts DEF r, d
      <4>2. CASE d.of = "privacy"
        <5>1. Handled(r, d) = PrefCatalogAnswered(r, d)
          BY <2>3, <2>5, <3>2, <4>2, NotPanes DEF Handled
        <5>2. QED
          BY <2>1, <3>2, <4>2, <5>1, PrefCatalogAnsweredFacts DEF r, d
      <4>3. QED
        BY <2>1, <3>2, <4>1, <4>2 DEF CallAnswered, AnswerShape
    <3>3. CASE d.chan = "list"
      <4>1. CASE d.of \in Panes
        <5>1. Handled(r, d) = ListAnswered(r, d)
          BY <2>3, <2>5, <3>3, <4>1, NotPanes DEF Handled
        <5>2. QED
          BY <2>1, <3>3, <4>1, <5>1, ListAnsweredFacts DEF r, d
      <4>2. CASE d.of = "privacy"
        <5>1. Handled(r, d) = PreferencesAnswered(r, d)
          BY <2>3, <2>5, <3>3, <4>2, NotPanes DEF Handled
        <5>2. QED
          BY <2>1, <3>3, <4>2, <5>1, PreferencesAnsweredFacts DEF r, d
      <4>3. QED
        BY <2>1, <3>3, <4>1, <4>2 DEF CallAnswered, AnswerShape
    <3>4. CASE d.chan = "detail"
      <4>1. Handled(r, d) = DetailAnswered(r, d)
        BY <2>3, <2>5, <3>4 DEF Handled
      <4>2. QED
        BY <2>1, <3>4, <4>1, DetailAnsweredFacts DEF r, d
    <3>5. CASE d.chan = "preview"
      <4>1. CASE d.of # "change"
        <5>1. Handled(r, d) = PreviewAnswered(r, d)
          BY <2>3, <2>5, <3>5, <4>1 DEF Handled
        <5>2. QED
          BY <2>1, <3>5, <4>1, <5>1, PreviewAnsweredFacts DEF r, d
      <4>2. CASE d.of = "change"
        <5>1. Handled(r, d) = ChangePreviewed(r, d)
          BY <2>3, <2>5, <3>5, <4>2 DEF Handled
        <5>2. QED
          BY <2>1, <3>5, <4>2, <5>1, ChangePreviewedFacts DEF r, d
      <4>3. QED
        BY <4>1, <4>2
    <3>6. CASE d.chan = "confirm"
      <4>1. CASE d.of # "change"
        <5>1. Handled(r, d) = ConfirmAnswered(r, d)
          BY <2>3, <2>5, <3>6, <4>1 DEF Handled
        <5>2. QED
          BY <2>1, <3>6, <4>1, <5>1, ConfirmAnsweredFacts DEF r, d
      <4>2. CASE d.of = "change"
        <5>1. Handled(r, d) = ChangeConfirmed(r, d)
          BY <2>3, <2>5, <3>6, <4>2 DEF Handled
        <5>2. QED
          BY <2>1, <3>6, <4>2, <5>1, ChangeConfirmedFacts DEF r, d
      <4>3. QED
        BY <4>1, <4>2
    <3>7. d.chan \in Channels
      BY <2>1 DEF CallAnswered, AnswerShape
    <3>8. QED
      BY <3>1, <3>2, <3>3, <3>4, <3>5, <3>6, <3>7 DEF Channels
  <2>6. QED
    BY <2>4, <2>5
<1>5. QED
  BY <1>3, <1>4

(* The server. *)

\* What was done stays done.
LEMMA Grown ==
  ASSUME NEW u, NEW D, NEW E, D \subseteq E, PageInv(u, D)
  PROVE  PageInv(u, E)
<1>1. CallsOK(u.calls, E)
  BY DEF PageInv, PageSound, CallsOK, CallOK, AnswerOK
<1>2. FlowsOK(u, E)
  BY DEF PageInv, PageSound, FlowsOK
<1>3. QED
  BY <1>1, <1>2 DEF PageInv, PageSound

\* The server's answer, not yet handled, keeps the invariant.
LEMMA AnsweringFacts ==
  ASSUME NEW u, NEW D, PageInv(u, D), NEW c \in u.calls, NEW data, NEW n,
         n = [c EXCEPT !.status = "ok", !.data = data], AnswerOK(n, D)
  PROVE  PageInv([u EXCEPT !.calls = (@ \ {c}) \cup {n}], D)
<1> DEFINE S == (u.calls \ {c}) \cup {n}
           v == [u EXCEPT !.calls = (@ \ {c}) \cup {n}]
<1>0. PageSound(u, D) /\ Backed(u) /\ FlowWaits(u) /\ DetailWaits(u) /\ LoadWaits(u) /\ CallOK(c, D)
  BY DEF PageInv, PageSound, CallsOK
<1>1. /\ n.chan = c.chan /\ n.of = c.of /\ n.on = c.on /\ n.rev = c.rev /\ n.live = c.live
      /\ n.status = "ok" /\ n.data = data
      /\ n = [chan |-> n.chan, of |-> n.of, on |-> n.on, rev |-> n.rev, live |-> n.live,
              status |-> n.status, data |-> n.data]
  <2>1. c = [chan |-> c.chan, of |-> c.of, on |-> c.on, rev |-> c.rev, live |-> c.live,
             status |-> c.status, data |-> c.data]
    BY <1>0 DEF CallOK
  <2>2. QED
    BY <2>1
<1>2. CallOK(n, D)
  BY <1>0, <1>1 DEF CallOK
<1>3. Changes(u, v, {"calls"}) /\ v.calls = S
  BY <1>0 DEF Changes, PageFields, PageSound, Typed
<1> HIDE DEF v
<1>4. /\ v.page = u.page /\ v.pane = u.pane /\ v.load = u.load /\ v.scope = u.scope /\ v.list = u.list
      /\ v.sel = u.sel /\ v.detail = u.detail /\ v.detailLoading = u.detailLoading /\ v.prefs = u.prefs
      /\ v.csrf = u.csrf /\ v.loginBusy = u.loginBusy /\ v.logoutBusy = u.logoutBusy
      /\ v.overview = u.overview
      /\ v.catalog = u.catalog /\ v.wf = u.wf /\ DOMAIN v = PageFields
  BY <1>3 DEF Changes, PageFields
<1>5. CallsOK(v.calls, D)
  BY <1>0, <1>2, <1>3 DEF PageSound, CallsOK
<1>6. \A d \in v.calls : d = n \/ (d \in u.calls /\ d # c)
  BY <1>3
<1>7. Single(v.calls)
  BY <1>0, <1>1, <1>6 DEF PageSound, Single
<1>8. Fits(u, c) <=> Fits(u, n)
  BY <1>1 DEF Fits
<1>9. \A d \in v.calls : d.live => Fits(u, d)
  BY <1>0, <1>1, <1>6, <1>8 DEF PageSound, AllFit
<1>10. AllFit(v)
  BY <1>4, <1>9 DEF AllFit, Fits
<1>11. Typed(v)
  BY <1>0, <1>4 DEF PageSound, Typed
<1>12. PageRowsOK(v)
  BY <1>0, <1>4 DEF PageSound, PageRowsOK, Row
<1>13. FlowsOK(v, D)
  BY <1>0, <1>4 DEF PageSound, FlowsOK, Current, Row
<1>14. PageSound(v, D)
  BY <1>5, <1>7, <1>10, <1>11, <1>12, <1>13 DEF PageSound
<1>15. \A x, y : Live(u, x, y) => Live(v, x, y)
  BY <1>1, <1>3 DEF Live
<1>16. FlowWaits(v) /\ DetailWaits(v) /\ LoadWaits(v)
  BY <1>0, <1>3, <1>15, SentWaits
<1>17. Backed(v)
  BY <1>0, <1>1, <1>4, <1>6 DEF Backed
<1>18. QED
  BY <1>14, <1>16, <1>17 DEF PageInv, v

HeldItem == [st : ItemStates, rev : Nat]

\* The inductive invariant of the page and the server.
BrowserInv ==
    /\ PageInv(ui, done)
    /\ db \in [Items \cup Scopes -> HeldItem]
    /\ session \in BOOLEAN
    /\ done \subseteq [by : Workflows, ref : Items \cup Scopes, rev : Nat]

\* A workflow leads to a state of an item.
LEMMA StateFacts ==
  /\ \A w \in Workflows : To(w) \in ItemStates
  /\ "set" \in ItemStates
<1>1. \A w \in Workflows : To(w) \in ItemStates
  BY DEF ItemStates
<1>2. "change" \in Workflows /\ To("change") = "set"
  BY DEF Workflows, To
<1>3. QED
  BY <1>1, <1>2

LEMMA ShownFacts ==
  ASSUME db \in [Items \cup Scopes -> HeldItem], NEW i \in Items \cup Scopes
  PROVE  ShownItem(i) \in Shows /\ ShownItem(i).ref = i
BY DEF ShownItem, Shows, HeldItem

\* What the server replies is what the page expects of an answer.
LEMMA ReplyFacts ==
  ASSUME db \in [Items \cup Scopes -> HeldItem], NEW D, NEW c, CallOK(c, D), c.chan \notin {"login", "logout"},
         NEW n, n = [c EXCEPT !.status = "ok", !.data = Reply(c)],
         NEW E, c.chan = "confirm" => [by |-> c.of, ref |-> c.on, rev |-> c.rev + 1] \in E
  PROVE  AnswerOK(n, E)
<1>1. /\ n.chan = c.chan /\ n.of = c.of /\ n.on = c.on /\ n.rev = c.rev /\ n.data = Reply(c)
  <2>1. c = [chan |-> c.chan, of |-> c.of, on |-> c.on, rev |-> c.rev, live |-> c.live,
             status |-> c.status, data |-> c.data]
    BY DEF CallOK
  <2>2. QED
    BY <2>1
<1>2. c.chan = "catalog" => Reply(c) \subseteq Scopes
  <2>1. \A p \in Panes : PaneItems(p) \subseteq Items
    BY DEF PaneItems, Items
  <2>2. Home \in [Items -> Scopes]
    BY GovernanceBrowserAssumption
  <2>3. c.chan = "catalog" => Reply(c) = IF c.of = "privacy" THEN Scopes ELSE {Home[i] : i \in PaneItems(c.of)}
    BY DEF Reply
  <2>4. c.chan = "catalog" => c.of \in Panes \cup {"privacy"}
    BY DEF CallOK
  <2>5. QED
    BY <2>1, <2>2, <2>3, <2>4
<1>3. c.chan = "list" /\ c.of \in Panes =>
          \A e \in Reply(c) : e \in Shows /\ e.ref \in PaneItems(c.of) /\ Home[e.ref] = c.on
  <2> SUFFICES ASSUME c.chan = "list", c.of \in Panes, NEW e \in Reply(c)
               PROVE  e \in Shows /\ e.ref \in PaneItems(c.of) /\ Home[e.ref] = c.on
    OBVIOUS
  <2>1. Reply(c) = {ShownItem(i) : i \in {x \in PaneItems(c.of) : Home[x] = c.on}}
    BY NotPanes DEF Reply
  <2>2. PICK i \in PaneItems(c.of) : e = ShownItem(i) /\ Home[i] = c.on
    BY <2>1
  <2>3. i \in Items \cup Scopes
    BY DEF PaneItems, Items
  <2>4. QED
    BY <2>2, <2>3, ShownFacts
<1>4. (c.chan = "list" /\ c.of = "privacy") \/ c.chan \in {"detail", "preview"} =>
         \E x \in Shows : Reply(c) = {x}
  <2> SUFFICES ASSUME (c.chan = "list" /\ c.of = "privacy") \/ c.chan \in {"detail", "preview"}
               PROVE  \E x \in Shows : Reply(c) = {x}
    OBVIOUS
  <2>1. c.on \in Items \cup Scopes
    BY DEF CallOK
  <2>2. Reply(c) = {ShownItem(c.on)}
    BY DEF Reply
  <2>3. QED
    BY <2>1, <2>2, ShownFacts
<1>5. QED
  BY <1>1, <1>2, <1>3, <1>4 DEF AnswerOK

\* The invariant holds at first.
LEMMA BrowserInitSound == BrowserInit => BrowserInv
<1> SUFFICES ASSUME BrowserInit PROVE BrowserInv
  OBVIOUS
<1>1. /\ DOMAIN ui = PageFields
      /\ ui.page = "login" /\ ui.csrf = FALSE /\ ui.loginBusy = FALSE /\ ui.logoutBusy = FALSE
      /\ ui.overview = "settled" /\ ui.calls = {} /\ ui.pane = "records" /\ ui.load = "none"
      /\ ui.catalog = [x \in Panes |-> {}] /\ ui.scope = [x \in Panes |-> None]
      /\ ui.list = {} /\ ui.sel = None /\ ui.detail = None /\ ui.detailLoading = FALSE
      /\ ui.wf = [w \in Workflows |-> IdleFlow]
      /\ ui.prefs = [catalog |-> {}, scope |-> None, shown |-> None, load |-> "none", off |-> TRUE]
  BY DEF BrowserInit, PageFields
<1>2. session = FALSE /\ done = {}
  BY DEF BrowserInit
<1>3. \A w \in Workflows : ui.wf[w] = IdleFlow
  BY <1>1
<1>4. Typed(ui)
  <2>1. ui.wf \in [Workflows -> Flow]
    BY <1>1, IdleFacts
  <2>2. ui.prefs \in Preferences /\ ui.prefs.scope \in ui.prefs.catalog \cup {None}
    BY <1>1 DEF Preferences
  <2>3. /\ ui.catalog \in [Panes -> SUBSET Scopes] /\ ui.scope \in [Panes -> Scopes \cup {None}]
        /\ \A x \in Panes : ui.scope[x] \in ui.catalog[x] \cup {None}
    BY <1>1
  <2>4. QED
    BY <1>1, <2>1, <2>2, <2>3 DEF Typed, Panes
<1>5. PageRowsOK(ui)
  BY <1>1 DEF PageRowsOK
<1>6. FlowsOK(ui, done)
  BY <1>3, IdleFacts, WorkflowFacts DEF FlowsOK
<1>7. CallsOK(ui.calls, done) /\ Single(ui.calls) /\ AllFit(ui)
  BY <1>1 DEF CallsOK, Single, AllFit
<1>8. FlowWaits(ui) /\ DetailWaits(ui) /\ LoadWaits(ui) /\ Backed(ui)
  BY <1>1, <1>3, IdleFacts DEF FlowWaits, DetailWaits, LoadWaits, Backed
<1>9. PageInv(ui, done)
  BY <1>4, <1>5, <1>6, <1>7, <1>8 DEF PageInv, PageSound
<1>10. db \in [Items \cup Scopes -> HeldItem]
  <2>1. PICK x \in Situations :
           db = [i \in Items \cup Scopes |-> [st |-> IF i \in Items THEN x.st[i] ELSE "set", rev |-> 1]]
    BY DEF BrowserInit
  <2>2. \A i \in Items : x.st[i] \in ItemStates
    BY SituationsAssumption
  <2>3. \A i \in Items \cup Scopes : [st |-> IF i \in Items THEN x.st[i] ELSE "set", rev |-> 1] \in HeldItem
    BY <2>2, StateFacts DEF HeldItem
  <2>4. QED
    BY <2>1, <2>3
<1>11. QED
  BY <1>2, <1>9, <1>10 DEF BrowserInv

\* What the user does, and what time does, changes the page alone.
LEMMA PageStep ==
  ASSUME BrowserInv, NEW u, PageInv(u, done), ui' = u, UNCHANGED <<db, session, done>>
  PROVE  BrowserInv'
BY DEF BrowserInv

\* An action of the user.
LEMMA ActsStep ==
  ASSUME BrowserInv, NEW u, PageInv(u, done), PageActs(u)
  PROVE  BrowserInv'
BY PageStep DEF PageActs

\* Every action of the user keeps the invariant ...
LEMMA UserStep ==
  ASSUME BrowserInv,
         \/ SignIn \/ SignOut \/ RefreshOverview \/ Refresh \/ ChangeChoice \/ StartChange \/ ConfirmChange
         \/ \E page \in {"overview", "memory", "privacy"} : Navigate(page)
         \/ \E pane \in Panes : PickPane(pane)
         \/ \E s \in Scopes \cup {None} : PickScope(s) \/ PickPreferences(s)
         \/ \E i \in Items : PickRow(i)
         \/ \E w \in MemoryWorkflows : StartPreview(w) \/ ConfirmCommand(w)
  PROVE  BrowserInv'
<1>0. PageInv(ui, done) /\ PageSound(ui, done)
  BY DEF BrowserInv, PageInv
<1>1. CASE SignIn
  <2> DEFINE x == [Send(ui, "login", None, None, 0) EXCEPT !.loginBusy = TRUE]
  <2>1. PageActs(x)
    BY <1>1 DEF SignIn
  <2>2. PageInv(x, done)
    BY <1>0, SignInFacts
  <2> HIDE DEF x
  <2>3. QED
    BY <2>1, <2>2, ActsStep
<1>2. CASE SignOut
  <2> DEFINE x == [Send(ui, "logout", None, None, 0) EXCEPT !.logoutBusy = TRUE]
             y == ShowLogin(ui)
  <2>1. PageActs(IF ui.csrf THEN x ELSE y)
    BY <1>2 DEF SignOut
  <2>2. PageInv(x, done) /\ PageInv(y, done)
    BY <1>0, SignInFacts, ShowLoginFacts
  <2> HIDE DEF x, y
  <2>3. PageActs(x) \/ PageActs(y)
    BY <2>1
  <2>4. QED
    BY <2>2, <2>3, ActsStep
<1>3. CASE RefreshOverview
  BY <1>0, <1>3, LoadOverviewFacts, ActsStep DEF RefreshOverview
<1>4. CASE Refresh
  <2>1. ui.page = "memory" /\ PageActs(LoadCatalog(ui, FALSE)) /\ FALSE \in BOOLEAN
    BY <1>4 DEF Refresh
  <2>2. PageInv(LoadCatalog(ui, FALSE), done)
    BY <1>0, <2>1, RefreshFacts
  <2>3. QED
    BY <2>1, <2>2, ActsStep
<1>5. CASE ChangeChoice
  BY <1>0, <1>5, ClearChoiceFacts, ActsStep DEF ChangeChoice
<1>6. CASE StartChange
  <2> DEFINE v == ClearWorkflows(ui, {"change"}, FALSE)
             x == [Send(v, "preview", "change", ui.prefs.scope, 0)
                      EXCEPT !.wf["change"].loading = TRUE, !.prefs.off = TRUE]
  <2>1. ui.page = "privacy" /\ ui.prefs.scope # None /\ PageActs(x)
    BY <1>6 DEF StartChange
  <2>2. PageInv(x, done)
    BY <1>0, <2>1, StartChangeFacts
  <2> HIDE DEF x
  <2>3. QED
    BY <2>1, <2>2, ActsStep
<1>7. CASE ConfirmChange
  <2> DEFINE a == ui.wf["change"].auth
             v == ClearWorkflows(ui, {"change"}, FALSE)
             x == Send([v EXCEPT !.wf["change"].busy = TRUE], "confirm", "change", a.on, a.rev)
             given == a.due \/ ui.prefs.scope # a.on
  <2>1. a # None /\ PageActs(IF given THEN v ELSE x)
    BY <1>7 DEF ConfirmChange
  <2>2. PageInv(v, done) /\ (ui.prefs.scope = a.on => PageInv(x, done))
    BY <1>0, <2>1, ConfirmChangeFacts
  <2>3. ~given => ui.prefs.scope = a.on
    OBVIOUS
  <2> HIDE DEF a, v, x, given
  <2>4. (given /\ PageActs(v)) \/ (~given /\ PageActs(x))
    BY <2>1
  <2>5. QED
    BY <2>2, <2>3, <2>4, ActsStep
<1>8. CASE \E page \in {"overview", "memory", "privacy"} : Navigate(page)
  <2> DEFINE x == SelectView(ui, "overview")
             y == LoadCatalog(SelectPane(SelectView(ui, "memory"), "records"), FALSE)
             z == LoadPrivacy(SelectView(ui, "privacy"))
  <2>1. PageActs(x) \/ PageActs(y) \/ PageActs(z)
    BY <1>8 DEF Navigate
  <2>2. PageInv(x, done)
    BY <1>0, OverviewSelected DEF PageInv
  <2>3. PageInv(y, done) /\ PageInv(z, done)
    BY <1>0, NavigateFacts
  <2> HIDE DEF x, y, z
  <2>4. QED
    BY <2>1, <2>2, <2>3, ActsStep
<1>9. CASE \E pane \in Panes : PickPane(pane)
  <2>1. PICK pane \in Panes : PickPane(pane)
    BY <1>9
  <2>2. ui.page = "memory" /\ PageActs(LoadCatalog(SelectPane(ui, pane), FALSE))
    BY <2>1 DEF PickPane
  <2>3. PageInv(LoadCatalog(SelectPane(ui, pane), FALSE), done)
    BY <1>0, <2>2, SelectPaneLoads DEF PageInv
  <2>4. QED
    BY <2>2, <2>3, ActsStep
<1>10. CASE \E s \in Scopes \cup {None} : PickScope(s) \/ PickPreferences(s)
  <2>1. PICK s \in Scopes \cup {None} : PickScope(s) \/ PickPreferences(s)
    BY <1>10
  <2>2. CASE PickScope(s)
    <3>1. /\ ui.page = "memory" /\ ui.load # "scopes" /\ s \in ui.catalog[ui.pane] \cup {None}
          /\ s # ui.scope[ui.pane] /\ PageActs(ChooseScope(ui, s))
      BY <2>2 DEF PickScope
    <3>2. PageInv(ChooseScope(ui, s), done)
      BY <1>0, <3>1, ChooseScopeFacts
    <3>3. QED
      BY <3>1, <3>2, ActsStep
  <2>3. CASE PickPreferences(s)
    <3> DEFINE x == LoadPreferences(ClearChoice([ui EXCEPT !.prefs.scope = s]))
    <3>1. ui.page = "privacy" /\ s \in ui.prefs.catalog \cup {None} /\ PageActs(x)
      BY <2>3 DEF PickPreferences
    <3>2. PageInv(x, done)
      BY <1>0, <3>1, PickPreferencesFacts
    <3> HIDE DEF x
    <3>3. QED
      BY <3>1, <3>2, ActsStep
  <2>4. QED
    BY <2>1, <2>2, <2>3
<1>11. CASE \E i \in Items : PickRow(i)
  <2>1. PICK i \in Items : PickRow(i)
    BY <1>11
  <2>2. ui.page = "memory" /\ PageActs(SelectRow(ui, i))
    BY <2>1 DEF PickRow
  <2>3. PageInv(SelectRow(ui, i), done)
    BY <1>0, <2>2, SelectRowFacts
  <2>4. QED
    BY <2>2, <2>3, ActsStep
<1>12. CASE \E w \in MemoryWorkflows : StartPreview(w) \/ ConfirmCommand(w)
  <2>1. PICK w \in MemoryWorkflows : StartPreview(w) \/ ConfirmCommand(w)
    BY <1>12
  <2>2. CASE StartPreview(w)
    <3> DEFINE v == ClearWorkflows(ui, Competes(w) \cup {w}, FALSE)
               x == Send([v EXCEPT !.wf[w].loading = TRUE], "preview", w, ui.sel, ui.detail.rev)
    <3>1. ui.page = "memory" /\ w \in OfPane(ui.pane) /\ MayPreview(ui, w) /\ PageActs(x)
      BY <2>2 DEF StartPreview
    <3>2. PageInv(x, done)
      BY <1>0, <3>1, StartPreviewFacts
    <3> HIDE DEF x
    <3>3. QED
      BY <3>1, <3>2, ActsStep
  <2>3. CASE ConfirmCommand(w)
    <3> DEFINE a == ui.wf[w].auth
               v == ClearWorkflows(ui, {w}, FALSE)
               x == Send([v EXCEPT !.wf[w].busy = TRUE], "confirm", w, a.on, a.rev)
               given == a.due \/ ~Current(ui, a)
    <3>1. a # None /\ PageActs(IF given THEN v ELSE x)
      BY <2>3 DEF ConfirmCommand
    <3>2. PageInv(v, done) /\ (Current(ui, a) => PageInv(x, done))
      BY <1>0, <3>1, ConfirmFacts
    <3>3. ~given => Current(ui, a)
      OBVIOUS
    <3> HIDE DEF a, v, x, given
    <3>4. (given /\ PageActs(v)) \/ (~given /\ PageActs(x))
      BY <3>1
    <3>5. QED
      BY <3>2, <3>3, <3>4, ActsStep
  <2>4. QED
    BY <2>1, <2>2, <2>3
<1>13. QED
  BY <1>1, <1>2, <1>3, <1>4, <1>5, <1>6, <1>7, <1>8, <1>9, <1>10, <1>11, <1>12

\* ... and so does time ...
LEMMA TimeStep ==
  ASSUME BrowserInv, NEW w \in Workflows, ExpiryPasses(w) \/ ExpiryTimer(w)
  PROVE  BrowserInv'
<1>0. PageInv(ui, done)
  BY DEF BrowserInv
<1>1. CASE ExpiryPasses(w)
  <2> DEFINE x == [ui EXCEPT !.wf[w].auth.due = TRUE]
  <2>1. ui.wf[w].auth # None /\ ui' = x /\ UNCHANGED <<db, session, done>>
    BY <1>1 DEF ExpiryPasses
  <2>2. PageInv(x, done)
    BY <1>0, <2>1, ExpiryPassesFacts
  <2> HIDE DEF x
  <2>3. QED
    BY <2>1, <2>2, PageStep
<1>2. CASE ExpiryTimer(w)
  <2> DEFINE x == [ui EXCEPT !.wf[w] = IdleFlow]
  <2>1. /\ ui.wf[w].auth # None /\ ui' = IF w = "change" THEN Update(x) ELSE x
        /\ UNCHANGED <<db, session, done>>
    BY <1>2 DEF ExpiryTimer
  <2>2. PageInv(x, done)
    BY <1>0, <2>1, ExpiryTimerFacts
  <2> HIDE DEF x
  <2>3. PageInv(Update(x), done)
    BY <2>2, UpdateKeeps
  <2>4. QED
    BY <2>1, <2>2, <2>3, PageStep
<1>3. QED
  BY <1>1, <1>2

\* ... an answer that arrives ...
LEMMA AnswerStep ==
  ASSUME BrowserInv, NEW status, Arrives(status)
  PROVE  BrowserInv'
<1>0. PageInv(ui, done)
  BY DEF BrowserInv
<1>1. PICK c \in ui.calls :
          /\ status = "ok" => c.status = "ok"
          /\ ui' = Handled(Received(ui, c), [c EXCEPT !.status = status])
          /\ UNCHANGED <<db, session, done>>
  BY DEF Arrives
<1> DEFINE x == Handled(Received(ui, c), [c EXCEPT !.status = status])
<1>2. ui' = x /\ UNCHANGED <<db, session, done>>
  BY <1>1
<1>3. PageInv(x, done)
  BY <1>0, <1>1, HandledFacts
<1> HIDE DEF x
<1>4. QED
  BY <1>2, <1>3, PageStep

\* The server answers a login or a logout.
LEMMA LoginStep ==
  ASSUME BrowserInv, NEW c \in ui.calls, ServeLogin(c) \/ ServeLogout(c)
  PROVE  BrowserInv'
<1> DEFINE n == [c EXCEPT !.status = "ok", !.data = {}]
           x == [ui EXCEPT !.calls = (@ \ {c}) \cup {n}]
<1>0. PageInv(ui, done) /\ CallOK(c, done)
  BY DEF BrowserInv, PageInv, PageSound, CallsOK
<1>1. c.chan \in {"login", "logout"} /\ ui' = x /\ UNCHANGED <<db, done>> /\ session' \in BOOLEAN
  BY DEF ServeLogin, ServeLogout, Answering
<1>2. n.chan = c.chan
  <2>1. c = [chan |-> c.chan, of |-> c.of, on |-> c.on, rev |-> c.rev, live |-> c.live,
             status |-> c.status, data |-> c.data]
    BY <1>0 DEF CallOK
  <2>2. QED
    BY <2>1
<1>3. AnswerOK(n, done)
  BY <1>1, <1>2 DEF AnswerOK
<1>4. n = [c EXCEPT !.status = "ok", !.data = {}]
  OBVIOUS
<1> HIDE DEF n
<1>5. PageInv(x, done)
  BY <1>0, <1>3, <1>4, AnsweringFacts
<1> HIDE DEF x
<1>6. QED
  BY <1>1, <1>5 DEF BrowserInv

\* A write keeps the type of what the server holds.
LEMMA Written ==
  ASSUME db \in [Items \cup Scopes -> HeldItem], NEW i \in Items \cup Scopes, NEW w \in Workflows,
         NEW rev \in Nat
  PROVE  [db EXCEPT ![i] = [st |-> To(w), rev |-> rev]] \in [Items \cup Scopes -> HeldItem]
<1>1. [st |-> To(w), rev |-> rev] \in HeldItem
  BY StateFacts DEF HeldItem
<1>2. QED
  BY <1>1

\* The server answers any other request; of a confirmation it notes what was done.
LEMMA ServeStep ==
  ASSUME BrowserInv, NEW c \in ui.calls, Serve(c)
  PROVE  BrowserInv'
<1> DEFINE data == Reply(c)
           n == [c EXCEPT !.status = "ok", !.data = data]
           x == [ui EXCEPT !.calls = (@ \ {c}) \cup {n}]
           fact == [by |-> c.of, ref |-> c.on, rev |-> c.rev + 1]
           db1 == [db EXCEPT ![c.on] = [st |-> To(c.of), rev |-> c.rev + 1]]
<1>0. PageInv(ui, done) /\ CallOK(c, done)
  BY DEF BrowserInv, PageInv, PageSound, CallsOK
<1>1. c.chan \notin {"login", "logout"} /\ ui' = x /\ UNCHANGED session
  BY DEF Serve, Answering
<1>2. /\ c.chan = "confirm" => db' = db1 /\ done' = done \cup {fact}
      /\ c.chan # "confirm" => UNCHANGED <<db, done>>
  BY DEF Serve
<1>3. c.chan = "confirm" => c.of \in Workflows /\ c.on \in Items \cup Scopes /\ c.rev + 1 \in Nat
  BY <1>0 DEF CallOK
<1>4. db \in [Items \cup Scopes -> HeldItem] /\ session \in BOOLEAN
      /\ done \subseteq [by : Workflows, ref : Items \cup Scopes, rev : Nat]
  BY DEF BrowserInv
<1>5. c.chan = "confirm" => db1 \in [Items \cup Scopes -> HeldItem]
  BY <1>3, <1>4, Written
<1>6. c.chan = "confirm" => fact \in [by : Workflows, ref : Items \cup Scopes, rev : Nat]
  BY <1>3
<1>7. c.chan = "confirm" => [by |-> c.of, ref |-> c.on, rev |-> c.rev + 1] \in done'
  BY <1>2
<1>8. n = [c EXCEPT !.status = "ok", !.data = Reply(c)]
  OBVIOUS
<1> HIDE DEF n
<1>9. AnswerOK(n, done')
  BY <1>0, <1>1, <1>4, <1>7, <1>8, ReplyFacts
<1> HIDE DEF fact, db1
<1>10. done \subseteq done'
  BY <1>2
<1>11. PageInv(ui, done')
  BY <1>0, <1>10, Grown
<1>12. n = [c EXCEPT !.status = "ok", !.data = data]
  BY <1>8
<1> HIDE DEF data
<1>13. PageInv(x, done')
  BY <1>9, <1>11, <1>12, AnsweringFacts
<1> HIDE DEF x
<1>14. PageInv(ui', done')
  BY <1>1, <1>13
<1>15. /\ db' \in [Items \cup Scopes -> HeldItem] /\ session' \in BOOLEAN
       /\ done' \subseteq [by : Workflows, ref : Items \cup Scopes, rev : Nat]
  BY <1>1, <1>2, <1>4, <1>5, <1>6
<1>16. QED
  BY <1>14, <1>15 DEF BrowserInv

\* Somebody else's write keeps the invariant.
LEMMA OtherWriteStep ==
  ASSUME BrowserInv, NEW i \in Items \cup Scopes, OtherWrite(i)
  PROVE  BrowserInv'
<1>1. db \in [Items \cup Scopes -> HeldItem]
  BY DEF BrowserInv
<1>2. PICK w \in Workflows : db' = [db EXCEPT ![i] = [st |-> To(w), rev |-> @.rev + 1]]
  BY DEF OtherWrite
<1>3. db[i].rev + 1 \in Nat
  BY <1>1 DEF HeldItem
<1>4. db' \in [Items \cup Scopes -> HeldItem]
  <2> DEFINE rev == db[i].rev + 1
  <2>1. db' = [db EXCEPT ![i] = [st |-> To(w), rev |-> rev]]
    BY <1>2
  <2>2. rev \in Nat
    BY <1>3
  <2> HIDE DEF rev
  <2>3. QED
    BY <1>1, <2>1, <2>2, Written
<1>5. UNCHANGED <<ui, session, done>>
  BY DEF OtherWrite
<1>6. QED
  BY <1>4, <1>5 DEF BrowserInv

\* Every step keeps the invariant.
LEMMA BrowserStep == BrowserInv /\ [BrowserNext]_browserVars => BrowserInv'
<1> SUFFICES ASSUME BrowserInv, [BrowserNext]_browserVars PROVE BrowserInv'
  OBVIOUS
<1>1. CASE \/ SignIn \/ SignOut \/ RefreshOverview \/ Refresh \/ ChangeChoice \/ StartChange
           \/ ConfirmChange
           \/ \E page \in {"overview", "memory", "privacy"} : Navigate(page)
           \/ \E pane \in Panes : PickPane(pane)
           \/ \E s \in Scopes \cup {None} : PickScope(s) \/ PickPreferences(s)
           \/ \E i \in Items : PickRow(i)
           \/ \E w \in MemoryWorkflows : StartPreview(w) \/ ConfirmCommand(w)
  BY <1>1, UserStep, Zenon
<1>2. CASE \E w \in Workflows : ExpiryPasses(w) \/ ExpiryTimer(w)
  BY <1>2, TimeStep
<1>3. CASE \E status \in {"ok", "failed", "expired"} : Arrives(status)
  BY <1>3, AnswerStep
<1>4. CASE \E c \in ui.calls : ServeLogin(c) \/ ServeLogout(c) \/ Serve(c)
  BY <1>4, LoginStep, ServeStep
<1>5. CASE SessionEnds
  BY <1>5 DEF SessionEnds, BrowserInv
<1>6. CASE \E i \in Items \cup Scopes : OtherWrite(i)
  BY <1>6, OtherWriteStep
<1>7. CASE UNCHANGED browserVars
  BY <1>7 DEF browserVars, BrowserInv
<1>8. QED
  BY <1>1, <1>2, <1>3, <1>4, <1>5, <1>6, <1>7, Zenon DEF BrowserNext

\* The invariant of the page: types, requests that fit the page, one awaited request of a kind,
\* rows and details of the chosen scope, at most one command of a detail (BrowserInv).
THEOREM BrowserInvariant == BrowserSpec => []BrowserInv
<1>1. QED
  BY BrowserInitSound, BrowserStep, PTL DEF BrowserSpec

\* The three properties follow from the invariant.
LEMMA ScreenFollows == BrowserInv => ScreenIsTheScopes
<1> SUFFICES ASSUME BrowserInv PROVE ScreenIsTheScopes
  OBVIOUS
<1>1. Typed(ui) /\ CallsOK(ui.calls, done) /\ AllFit(ui) /\ PageRowsOK(ui) /\ FlowsOK(ui, done)
  BY DEF BrowserInv, PageInv, PageSound
<1>2. BrowserTypeOK
  <2>1. \A w \in Workflows :
            /\ ui.wf[w].loading \in BOOLEAN /\ ui.wf[w].busy \in BOOLEAN
            /\ ui.wf[w].auth \in [on : OnPage, rev : Nat, due : BOOLEAN] \cup {None}
            /\ ui.wf[w].result \in Shows \cup {None}
    <3> SUFFICES ASSUME NEW w \in Workflows
                 PROVE  /\ ui.wf[w].loading \in BOOLEAN /\ ui.wf[w].busy \in BOOLEAN
                        /\ ui.wf[w].auth \in [on : OnPage, rev : Nat, due : BOOLEAN] \cup {None}
                        /\ ui.wf[w].result \in Shows \cup {None}
      OBVIOUS
    <3>1. ui.wf[w] \in Flow
      BY <1>1 DEF Typed
    <3>2. /\ ui.wf[w].loading \in BOOLEAN /\ ui.wf[w].busy \in BOOLEAN
          /\ ui.wf[w].auth \in Authority \cup {None} /\ ui.wf[w].result \in Shows \cup {None}
      BY <3>1 DEF Flow
    <3>3. Authority \subseteq [on : OnPage, rev : Nat, due : BOOLEAN]
      BY DEF Authority, OnPage
    <3>4. QED
      BY <3>2, <3>3
  <2>2. \A c \in ui.calls : /\ c.on \in OnPage /\ c.rev \in Nat /\ c.live \in BOOLEAN
                            /\ c.status \in {"sent", "ok"}
    BY <1>1 DEF CallsOK, CallOK
  <2>3. /\ ui.prefs.catalog \subseteq Scopes /\ ui.prefs.scope \in ui.prefs.catalog \cup {None}
        /\ ui.prefs.shown \in Shows \cup {None} /\ ui.prefs.off \in BOOLEAN
    BY <1>1 DEF Typed, Preferences
  <2>4. /\ db \in [Items \cup Scopes -> [st : ItemStates, rev : Nat]] /\ session \in BOOLEAN
        /\ done \subseteq [by : Workflows, ref : Items \cup Scopes, rev : Nat]
    BY DEF BrowserInv, HeldItem
  <2>5. QED
    BY <1>1, <2>1, <2>2, <2>3, <2>4, Zenon DEF BrowserTypeOK, Typed
<1>3. RowsAreTheScopes
  BY <1>1 DEF PageRowsOK, RowsAreTheScopes
<1>4. LoginIsClean
  <2> SUFFICES ASSUME ui.page = "login"
               PROVE  /\ ui.list = {} /\ ui.detail = None /\ ui.prefs.shown = None
                      /\ \A w \in Workflows : ui.wf[w] = IdleFlow
                      /\ \A c \in ui.calls : c.live => c.chan \in {"login", "session", "logout"}
    BY DEF LoginIsClean
  <2>1. ui.list = {} /\ ui.detail = None /\ ui.prefs.shown = None
    BY <1>1 DEF PageRowsOK
  <2>2. \A w \in Workflows : ui.wf[w] = IdleFlow
    BY <1>1, WorkflowFacts DEF FlowsOK
  <2>3. ASSUME NEW c \in ui.calls, c.live PROVE c.chan \in {"login", "session", "logout"}
    <3>1. CallOK(c, done) /\ Fits(ui, c)
      BY <1>1, <2>3 DEF CallsOK, AllFit
    <3>2. c.chan \notin {"overview", "catalog", "list", "detail"}
      BY <3>1 DEF CallOK, Fits
    <3>3. c.chan \notin {"preview", "confirm"}
      BY <2>2, <3>1, IdleFacts DEF CallOK, Fits
    <3>4. QED
      BY <3>1, <3>2, <3>3 DEF CallOK, Channels
  <2>4. QED
    BY <2>1, <2>2, <2>3
<1>5. QED
  BY <1>2, <1>3, <1>4 DEF ScreenIsTheScopes

LEMMA CommandFollows == BrowserInv => OneCommandOnScreen
<1> SUFFICES ASSUME BrowserInv PROVE OneCommandOnScreen
  OBVIOUS
<1>1. FlowsOK(ui, done)
  BY DEF BrowserInv, PageInv, PageSound
<1>2. AuthorityIsOnScreen
  <2>1. ASSUME NEW w \in Workflows, ui.wf[w].auth # None
        PROVE  IF w = "change" THEN ui.page = "privacy" /\ ui.prefs.scope \in {ui.wf[w].auth.on, None}
               ELSE ui.page = "memory" /\ w \in OfPane(ui.pane) /\ Current(ui, ui.wf[w].auth)
    <3>1. ui.wf[w] # IdleFlow
      BY <2>1, IdleFacts
    <3>2. CASE w = "change"
      BY <1>1, <2>1, <3>1, <3>2 DEF FlowsOK
    <3>3. CASE w # "change"
      <4>1. w \in MemoryWorkflows
        BY <3>3, WorkflowFacts
      <4>2. QED
        BY <1>1, <2>1, <3>1, <3>3, <4>1 DEF FlowsOK
    <3>4. QED
      BY <3>2, <3>3
  <2>2. QED
    BY <2>1 DEF AuthorityIsOnScreen
<1>3. OneDecision
  BY <1>1 DEF FlowsOK, OneDecision, Busy, Engaged
<1>4. QED
  BY <1>2, <1>3 DEF OneCommandOnScreen

LEMMA OutcomesFollow == BrowserInv => OutcomesAreTrue
<1> SUFFICES ASSUME BrowserInv PROVE OutcomesAreTrue
  OBVIOUS
<1>1. FlowsOK(ui, done) /\ FlowWaits(ui) /\ DetailWaits(ui) /\ LoadWaits(ui)
  BY DEF BrowserInv, PageInv, PageSound
<1>2. SuccessIsTrue
  BY <1>1 DEF FlowsOK, SuccessIsTrue
<1>3. NothingWaitsInVain
  BY <1>1 DEF FlowWaits, DetailWaits, LoadWaits, NothingWaitsInVain
<1>4. QED
  BY <1>2, <1>3 DEF OutcomesAreTrue

\* In whatever order answers come, and however many were passed, lost or refused, what the page
\* shows is of the session, the view and the scope it stands for (ScreenIsTheScopes).
THEOREM ScreenIsTheScopesAlways == BrowserSpec => []ScreenIsTheScopes
<1>1. QED
  BY BrowserInvariant, ScreenFollows, PTL

\* What can be confirmed is one command, for the row, the detail and the revision on the page
\* (OneCommandOnScreen).
THEOREM OneCommandOnScreenAlways == BrowserSpec => []OneCommandOnScreen
<1>1. QED
  BY BrowserInvariant, CommandFollows, PTL

\* The page reports only what the server did, and waits only for a request whose answer it will
\* use (OutcomesAreTrue).
THEOREM OutcomesAreTrueAlways == BrowserSpec => []OutcomesAreTrue
<1>1. QED
  BY BrowserInvariant, OutcomesFollow, PTL
=============================================================================
