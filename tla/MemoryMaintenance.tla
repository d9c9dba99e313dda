-------------------------- MODULE MemoryMaintenance --------------------------
(***************************************************************************)
(* Governed maintenance of long-term memories: scanners propose, reviewers *)
(* approve, reject, expire, apply and roll back                            *)
(* (src/src/storage/memory-maintenance-proposal-repository.ts), while the  *)
(* owner keeps changing the memories (storage/memory-repository.ts) and    *)
(* retention deletes old ones (operations/sqlite-maintenance.ts).          *)
(*                                                                         *)
(* Every operation on the database is one immediate transaction, hence one *)
(* step; what a scanner or a reviewer has read may be old when it is used. *)
(* All memories share one scope and every reviewer may see every proposal. *)
(* A fingerprint is the data it is the hash of.                            *)
(***************************************************************************)
EXTENDS Naturals, Sequences, FiniteSets

CONSTANTS
  Memory,          \* memory_records of one scope
  Proposal,        \* room for proposals
  Reviewer,        \* callers of the governance service
  Nobody,          \* no memory is named as the one to retain
  MaxTime,         \* bound: distinct values of a clock that may stand or turn back
  MaxOwnerChanges, \* bound: changes of state the owner makes
  ImportanceApplicationEnabled

ASSUME MemoryMaintenanceAssumption ==
  /\ Nobody \notin Memory
  /\ "owner" \notin Proposal
  /\ MaxTime \in Nat /\ MaxOwnerChanges \in Nat
  /\ ImportanceApplicationEnabled \in BOOLEAN

Time == 0..MaxTime
Kind == {"conflict", "consolidation", "decay", "importance"}
MemoryState == {"active", "disabled", "superseded", "deleted"}
Importance == {"base", "raised"}
Lifecycle ==
  {"pending_review", "approved", "rejected", "expired", "applied", "rolled_back"}
ReviewOp == {"approve", "reject", "expire"}
Op == ReviewOp \cup {"apply", "rollback"}

\* The columns of memory_records that this code writes, and one without a row.
Row == [state : MemoryState, importance : Importance, updated : Time]
Purged == [state |-> "purged", importance |-> "base", updated |-> 0]

VARIABLES
  memory,     \* memory[m]: its row
  revisions,  \* revisions[m]: memory_revisions, each with its author
  withdrawn,  \* memories whose owner has taken the statement back or opted out
  proposal,   \* proposal[p]: its row, candidates, score and apply links
  history,    \* history[p]: memory_maintenance_proposal_revisions
  claim       \* the request the latest step called carried out, and whose it was

maintenanceVars == <<memory, revisions, withdrawn, proposal, history, claim>>

NoProposal ==
  [state |-> "none", revision |-> 0, kind |-> "none", keep |-> Nobody,
   candidates |-> {}, snapshot |-> <<>>, scored |-> 0, links |-> <<>>]

NoClaim == {}

\* Every memory is active, created in revision 1.
MaintenanceInit ==
  /\ memory \in [Memory -> [state : {"active"}, importance : {"base"}, updated : {0}]]
  /\ revisions = [m \in Memory |->
       <<[by |-> "owner", previous |-> Purged, new |-> memory[m]]>>]
  /\ withdrawn = {}
  /\ proposal = [p \in Proposal |-> NoProposal]
  /\ history = [p \in Proposal |-> <<>>]
  /\ claim = NoClaim

OnFile == {p \in Proposal : proposal[p].state \notin {"none", "scanned"}}

-----------------------------------------------------------------------------
(* The owner and the operator *)

\* assertAllowedStateTransition, among the states a candidate can be in.
Allowed(state) ==
  CASE state = "active" -> {"disabled", "deleted", "superseded"}
    [] state = "disabled" -> {"active", "deleted"}
    [] state = "superseded" -> {"deleted"}
    [] state = "deleted" -> {"active"}
    [] OTHER -> {}

Revised(m, who, row) ==
  Append(revisions[m], [by |-> who, previous |-> memory[m], new |-> row])

\* A memory has a revision per application, rollback and change of its owner.
OwnerChanges ==
  {x \in Memory \X (2..(MaxOwnerChanges + 1 + 2 * Cardinality(Proposal))) :
     LET log == revisions[x[1]] IN x[2] <= Len(log) /\ log[x[2]].by = "owner"}

\* updateStateSync, at whatever time the clock shows.
OwnerChange(m) ==
  /\ Cardinality(OwnerChanges) < MaxOwnerChanges
  /\ \E s \in Allowed(memory[m].state), t \in Time :
       LET row == [memory[m] EXCEPT !.state = s, !.updated = t] IN
       /\ memory' = [memory EXCEPT ![m] = row]
       /\ revisions' = [revisions EXCEPT ![m] = Revised(m, "owner", row)]
  /\ claim' = NoClaim
  /\ UNCHANGED <<withdrawn, proposal, history>>

\* A later message contradicts the memory, its owner opts out or the score
\* expires: readMemoryImportanceEvidence finds no evidence for it.
\* It matters to a memory with a score; one without is just not proposed.
Withdraw(m) ==
  /\ m \notin withdrawn
  /\ \E p \in OnFile : proposal[p].kind = "importance" /\ m \in proposal[p].candidates
  /\ withdrawn' = withdrawn \cup {m}
  /\ claim' = NoClaim
  /\ UNCHANGED <<memory, revisions, proposal, history>>

\* The owner opts in again, or a new window holds new evidence.
Reinstate(m) ==
  /\ m \in withdrawn
  /\ withdrawn' = withdrawn \ {m}
  /\ claim' = NoClaim
  /\ UNCHANGED <<memory, revisions, proposal, history>>

\* Candidates of any proposal on file are kept.
Pinned(m) == \E p \in OnFile : m \in proposal[p].candidates

\* applyRetentionPolicy: plan and deletion are one transaction.  Any age may
\* have passed the cutoff.
Retention(m) ==
  /\ memory[m].state \in {"disabled", "deleted"}
  /\ ~Pinned(m)
  /\ memory' = [memory EXCEPT ![m] = Purged]
  /\ revisions' = [revisions EXCEPT ![m] = <<>>]
  /\ claim' = NoClaim
  /\ UNCHANGED <<withdrawn, proposal, history>>

-----------------------------------------------------------------------------
(* The scanners *)

\* What the kinds name: a pair in conflict, duplicates with the one to retain,
\* or a single memory.
WellFormed(kind, candidates, keep) ==
  /\ candidates # {}
  /\ kind \in {"decay", "importance"} => Cardinality(candidates) = 1 /\ keep = Nobody
  /\ kind = "conflict" => Cardinality(candidates) = 2 /\ keep = Nobody
  /\ kind = "consolidation" => Cardinality(candidates) >= 2 /\ keep \in candidates

\* A conflict, consolidation or decay scan samples active memories.
Scan(p) ==
  /\ proposal[p].state = "none"
  /\ \E kind \in Kind \ {"importance"}, candidates \in SUBSET Memory,
        keep \in Memory \cup {Nobody} :
       /\ WellFormed(kind, candidates, keep)
       /\ \A m \in candidates : memory[m].state = "active"
       /\ proposal' = [proposal EXCEPT
            ![p] = [@ EXCEPT !.state = "scanned", !.kind = kind,
                             !.candidates = candidates, !.keep = keep]]
  /\ claim' = NoClaim
  /\ UNCHANGED <<memory, revisions, withdrawn, history>>

\* The proposal's id hashes its kind, its candidates' snapshot and its effect.
AlreadyOnFile(new) == \E q \in OnFile :
  /\ proposal[q].kind = new.kind /\ proposal[q].keep = new.keep
  /\ proposal[q].snapshot = new.snapshot /\ proposal[q].scored = new.scored

Snapshot(candidates) == [m \in candidates |-> memory[m]]

File(p, new) ==
  /\ ~AlreadyOnFile(new)
  /\ proposal' = [proposal EXCEPT ![p] = new]
  /\ history' = [history EXCEPT ![p] =
       <<[op |-> "propose", by |-> "worker", from |-> "none",
          new |-> "pending_review", keep |-> Nobody]>>]
  /\ claim' = NoClaim
  /\ UNCHANGED <<memory, revisions, withdrawn>>

\* createMemoryMaintenanceProposal, for each sampled group after the awaits of
\* the ones before it: the snapshot is of the records as they are by then.
Propose(p) ==
  /\ proposal[p].state = "scanned"
  /\ \A m \in proposal[p].candidates : memory[m] # Purged
  /\ File(p, [proposal[p] EXCEPT !.state = "pending_review", !.revision = 1,
                !.snapshot = Snapshot(proposal[p].candidates)])

\* readMemoryImportanceEvidence
HasEvidence(m) ==
  memory[m].state = "active" /\ memory[m].importance = "base" /\ m \notin withdrawn

\* The importance worker reads and files in one transaction; its batch is taken
\* one memory at a time.
ProposeImportance(p) ==
  /\ proposal[p].state = "none"
  /\ \E m \in Memory :
       /\ HasEvidence(m)
       /\ File(p, [NoProposal EXCEPT !.state = "pending_review", !.revision = 1,
                     !.kind = "importance", !.candidates = {m},
                     !.snapshot = Snapshot({m}), !.scored = Len(revisions[m])])

-----------------------------------------------------------------------------
(* What a transaction checks *)

\* Mutated form: the records are not compared with the proposal's snapshot.
SnapshotUnchecked(p) == \A m \in proposal[p].candidates : memory[m] # Purged

\* candidateSnapshotIsCurrent; expected_state is the constant 'active'.
SnapshotIsCurrent(p) == Snapshot(proposal[p].candidates) = proposal[p].snapshot

\* MemoryImportanceRepository.isCurrent; the other kinds have no score.
ScoreIsCurrent(p) == proposal[p].kind = "importance" =>
  \A m \in proposal[p].candidates :
    HasEvidence(m) /\ Len(revisions[m]) = proposal[p].scored

\* The revision of m that the last apply or rollback of p wrote.
Linked(p, m) == revisions[m][proposal[p].links[m]]

\* revisionEffectEvidenceIsCurrent
EffectsAreCurrent(p) == \A m \in proposal[p].candidates :
  proposal[p].links[m] = Len(revisions[m]) /\ memory[m] = Linked(p, m).new

\* The proposal is still at the state and revision the caller has seen.
Matches(r) ==
  /\ proposal[r.proposal].state = r.expected
  /\ proposal[r.proposal].revision = r.revision

Target(op) ==
  CASE op = "approve" -> "approved"
    [] op = "reject" -> "rejected"
    [] op = "expire" -> "expired"
    [] op = "apply" -> "applied"
    [] op = "rollback" -> "rolled_back"

Entry(a, r) == [op |-> r.op, by |-> a, from |-> r.expected,
                new |-> Target(r.op), keep |-> r.keep]

\* Mutated form: an exact retry does not ask whose decision it repeats.
RetryOfAnyone(a, r) ==
  /\ proposal[r.proposal].state = Target(r.op)
  /\ proposal[r.proposal].revision = r.revision + 1
  /\ history[r.proposal][r.revision + 1].op = r.op

\* The exact request is what brought the proposal to where it is now.
IsExactRetry(a, r) ==
  /\ proposal[r.proposal].state = Target(r.op)
  /\ proposal[r.proposal].revision = r.revision + 1
  /\ history[r.proposal][r.revision + 1] = Entry(a, r)
  /\ r.op = "rollback" => EffectsAreCurrent(r.proposal)

-----------------------------------------------------------------------------
(* The reviewers *)

\* The operations that start from a state.
OpsFrom(state) ==
  CASE state = "pending_review" -> ReviewOp
    [] state = "approved" -> {"expire", "apply"}
    [] state = "applied" -> {"rollback"}
    [] OTHER -> {}

\* Only a conflict leaves the reviewer the choice of the memory to retain.
Choice(p, op) ==
  IF op = "apply" /\ proposal[p].kind = "conflict"
  THEN proposal[p].candidates ELSE {Nobody}

\* What a reviewer may ask of p: an operation that starts from a state and
\* revision of p the reviewer has seen, now or earlier.  A request whose answer
\* was lost is sent again.
Requests(p) == UNION {UNION {
  {[op |-> op, proposal |-> p, expected |-> history[p][i].new, revision |-> i, keep |-> keep] :
     keep \in Choice(p, op)} : op \in OpsFrom(history[p][i].new)} : i \in 1..Len(history[p])}

\* 'transitioned' and 'unchanged' tell a that r has been carried out.
Done(a, r) == claim' = {[by |-> a, request |-> r]}

\* The update of the proposal's row and the insert of its revision.
Transition(a, r, links) ==
  /\ proposal' = [proposal EXCEPT
       ![r.proposal] = [@ EXCEPT !.state = Target(r.op), !.revision = r.revision + 1,
                                 !.links = links]]
  /\ history' = [history EXCEPT ![r.proposal] = Append(@, Entry(a, r))]
  /\ Done(a, r)

\* transitionReview: only the approval of a score looks at the memory.
ReviewHolds(r) ==
  /\ r.op \in ReviewOp /\ Matches(r)
  /\ r.op = "approve" /\ proposal[r.proposal].kind = "importance" =>
       SnapshotIsCurrent(r.proposal) /\ ScoreIsCurrent(r.proposal)

Review(a, r) ==
  /\ ReviewHolds(r)
  /\ Transition(a, r, proposal[r.proposal].links)
  /\ UNCHANGED <<memory, revisions, withdrawn>>

\* Writes row[m] to every candidate m, with a revision by the proposal, and
\* links the revisions to the proposal.
Write(a, r, row) ==
  LET p == r.proposal
      C == proposal[p].candidates IN
  /\ memory' = [m \in Memory |-> IF m \in C THEN row[m] ELSE memory[m]]
  /\ revisions' = [m \in Memory |->
       IF m \in C THEN Revised(m, p, row[m]) ELSE revisions[m]]
  /\ Transition(a, r, [m \in C |-> Len(revisions[m]) + 1])
  /\ UNCHANGED withdrawn

\* The time of a write is not before the records' own.
NotBefore(C) == {t \in Time : \A m \in C : memory[m].updated <= t}

\* Mutated form: the memory a consolidation names is ignored.
ReviewersChoice(r) == r.keep

\* The memory that stays active: the reviewer's choice or the scanner's.
Retained(r) == IF proposal[r.proposal].kind = "consolidation"
               THEN proposal[r.proposal].keep ELSE r.keep

\* resolveApplyEffects
Effect(r, m, t) ==
  LET kind == proposal[r.proposal].kind IN
  IF kind = "importance" THEN [memory[m] EXCEPT !.importance = "raised"]
  ELSE [memory[m] EXCEPT !.updated = t,
                         !.state = IF kind = "decay" THEN "disabled"
                                   ELSE IF m = Retained(r) THEN @ ELSE "superseded"]

ApplyHolds(r) ==
  /\ r.op = "apply" /\ Matches(r)
  /\ SnapshotIsCurrent(r.proposal)
  /\ proposal[r.proposal].kind = "importance" => ImportanceApplicationEnabled
  /\ ScoreIsCurrent(r.proposal)

\* The update of each record is conditional on state = 'active'.
AllActive(r) == \A m \in proposal[r.proposal].candidates : memory[m].state = "active"

Apply(a, r) ==
  /\ ApplyHolds(r) /\ AllActive(r)
  /\ \E t \in NotBefore(proposal[r.proposal].candidates) :
       Write(a, r, [m \in proposal[r.proposal].candidates |-> Effect(r, m, t)])

RollbackHolds(r) == r.op = "rollback" /\ Matches(r) /\ EffectsAreCurrent(r.proposal)

\* The row after the rollback: an importance comes from the linked revision.
Restored(p, m, t) ==
  IF proposal[p].kind = "importance"
  THEN [memory[m] EXCEPT !.state = "active",
                         !.importance = Linked(p, m).previous.importance]
  ELSE [memory[m] EXCEPT !.state = "active", !.updated = t]

Rollback(a, r) ==
  /\ RollbackHolds(r)
  /\ \E t \in NotBefore(proposal[r.proposal].candidates) :
       Write(a, r, [m \in proposal[r.proposal].candidates |->
                      Restored(r.proposal, m, t)])

\* The request was carried out before and its answer lost.
Unchanged(a, r) ==
  /\ ~Matches(r) /\ IsExactRetry(a, r)
  /\ Done(a, r)
  /\ UNCHANGED <<memory, revisions, withdrawn, proposal, history>>

\* 'stale': the proposal or what it is about has moved on.
IsStale(a, r) ==
  /\ ~ReviewHolds(r) /\ ~ApplyHolds(r) /\ ~RollbackHolds(r)
  /\ Matches(r) \/ ~IsExactRetry(a, r)

\* "apply lost candidate state authority": the transaction is rolled back.
Throws(r) == ApplyHolds(r) /\ ~AllActive(r)

\* Some request is refused, with no effect on the database.
RefuseRequest ==
  /\ {r \in UNION {Requests(p) : p \in Proposal} :
       \E a \in Reviewer : IsStale(a, r) \/ Throws(r)} # {}
  /\ claim' = NoClaim
  /\ UNCHANGED <<memory, revisions, withdrawn, proposal, history>>

MaintenanceNext ==
  \/ \E m \in Memory : OwnerChange(m) \/ Withdraw(m) \/ Reinstate(m) \/ Retention(m)
  \/ \E p \in Proposal : Scan(p) \/ Propose(p) \/ ProposeImportance(p)
  \/ \E p \in Proposal : \E r \in Requests(p), a \in Reviewer :
       \/ Review(a, r)
       \/ Apply(a, r)
       \/ Rollback(a, r)
       \/ Unchanged(a, r)
  \/ RefuseRequest

MaintenanceSpec == MaintenanceInit /\ [][MaintenanceNext]_maintenanceVars

-----------------------------------------------------------------------------
(* Properties *)

\* Types of the variables; no proposal has more than four revisions, the
\* longest path of its lifecycle: propose, approve, apply, rollback.
MaintenanceTypeOK ==
  /\ memory \in [Memory -> Row \cup {Purged}]
  /\ \A m \in Memory : \A i \in 1..Len(revisions[m]) :
       /\ revisions[m][i].by \in Proposal \cup {"owner"}
       /\ revisions[m][i].previous \in Row \cup {Purged}
       /\ revisions[m][i].new \in Row
  /\ withdrawn \subseteq Memory
  /\ \A p \in Proposal :
       /\ proposal[p].state \in Lifecycle \cup {"none", "scanned"}
       /\ proposal[p].revision \in 0..4
       /\ proposal[p].kind \in Kind \cup {"none"}
       /\ proposal[p].keep \in Memory \cup {Nobody}
       /\ proposal[p].candidates \subseteq Memory
       /\ proposal[p].scored \in Nat
  /\ \A c \in claim : c.by \in Reviewer

\* The transition graph of the proposal's history (docs/sqlite-schema.md).
Edge == {<<"none", "propose", "pending_review">>,
         <<"pending_review", "approve", "approved">>,
         <<"pending_review", "reject", "rejected">>,
         <<"pending_review", "expire", "expired">>,
         <<"approved", "expire", "expired">>,
         <<"approved", "apply", "applied">>,
         <<"applied", "rollback", "rolled_back">>}

\* With any number of reviewers working from old readings, the history of a
\* proposal is one path of that graph that ends in the proposal's state.
HistoryIsOnePath == \A p \in OnFile :
  LET h == history[p] IN
  /\ Len(h) = proposal[p].revision
  /\ h[Len(h)].new = proposal[p].state
  /\ \A i \in 1..Len(h) :
       /\ <<h[i].from, h[i].op, h[i].new>> \in Edge
       /\ h[i].from = IF i = 1 THEN "none" ELSE h[i - 1].new

\* A reviewer who is told "transitioned" or "unchanged" is the author of that
\* very revision: of two who compete for one revision, at most one is told so.
AnswersAreTrue == \A c \in claim :
  LET r == c.request IN
  /\ r.revision < Len(history[r.proposal])
  /\ history[r.proposal][r.revision + 1] = Entry(c.by, r)

\* While nobody has touched the candidates of an applied proposal, they are as
\* it was decided: the memory retained, by the reviewer or the scanner, active
\* and every other superseded, the decayed one disabled, the scored one raised.
AppliedIsInForce == \A p \in Proposal :
  /\ proposal[p].state = "applied"
  /\ \A m \in proposal[p].candidates : proposal[p].links[m] = Len(revisions[m])
  => \A m \in proposal[p].candidates :
       CASE proposal[p].kind = "importance" ->
              memory[m].state = "active" /\ memory[m].importance = "raised"
         [] proposal[p].kind = "decay" -> memory[m].state = "disabled"
         [] proposal[p].kind = "consolidation" ->
              (memory[m].state = "active") <=> (m = proposal[p].keep)
         [] proposal[p].kind = "conflict" ->
              (memory[m].state = "active")
                <=> (m = history[p][proposal[p].revision].keep)

\* A proposal's memories are there as long as the proposal is: what was decided
\* about them stays explainable.
CandidatesAreKept == \A p \in OnFile : \A m \in proposal[p].candidates :
  memory[m] # Purged /\ revisions[m] # <<>>

\* A rollback undoes its own application and nothing else: it comes right after
\* it in each memory's revisions, and leaves each memory with the state and the
\* importance it had when the proposal was made.
RollbackUndoesItsApply == [][\A p \in Proposal :
  proposal[p].state = "applied" /\ proposal'[p].state = "rolled_back" =>
    \A m \in proposal[p].candidates :
      /\ Len(revisions'[m]) = proposal[p].links[m] + 1
      /\ memory'[m].state = proposal[p].snapshot[m].state
      /\ memory'[m].importance = proposal[p].snapshot[m].importance]_maintenanceVars

\* What the owner took out of retrieval, only the owner brings back: a proposal
\* makes a memory active only if the same proposal made it inactive.
OwnersDecisionStands == [][\A m \in Memory :
  memory[m].state # "active" /\ memory'[m].state = "active" =>
    revisions'[m][Len(revisions'[m])].by \in
      {"owner", revisions[m][Len(revisions[m])].by}]_maintenanceVars

\* While its owner has taken a statement back, no proposal, not even one
\* approved before, raises the importance of the memory.
WithdrawalStops == [][\A m \in withdrawn :
  memory[m].importance = "base" => memory'[m].importance = "base"]_maintenanceVars

\* What is on file about a proposal is true: its history, what its reviewers were
\* told, and the memories it is about.
HistoryIsTrue == MaintenanceTypeOK /\ HistoryIsOnePath /\ AnswersAreTrue /\ CandidatesAreKept

\* The review of proposals never overrules the owner of a memory: a rollback
\* undoes only its own application, nothing revives or raises against the owner.
ReviewsRespectTheOwner == RollbackUndoesItsApply /\ OwnersDecisionStands /\ WithdrawalStops
=============================================================================
