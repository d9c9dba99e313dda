-------------------------- MODULE GovernanceStore --------------------------
(***************************************************************************)
(* The rows the governance console acts on, what a preview reads of them,   *)
(* what a confirmed effect does to them, and everybody else who writes      *)
(* them: the command line (another process), QQ commands, inbound messages  *)
(* (src/src/governance/query-service.ts, query-snapshots.ts, service.ts,    *)
(* operations-coordinator.ts, src/src/operations/sqlite-maintenance.ts,     *)
(* src/src/cli/governance.ts).                                              *)
(*                                                                          *)
(* One row of each kind, as a state and a version: a memory's revision, a   *)
(* preference's updated_at (one more than the tick; 0 while it is implicit), *)
(* a policy's generation, the fingerprint of a display profile, an account  *)
(* or a backup file, a proposal's revision.                                 *)
(***************************************************************************)
EXTENDS GovernanceSessions

CONSTANTS MaxVersion, Workloads

MemoryState == {"proposed", "active", "rejected", "disabled", "superseded", "deleted", "purged"}
Pin == {"none", "extraction", "summary", "attention", "turn", "admission", "proposal"}
Op == {"forget", "restore", "optIn", "optOut", "enable", "disable", "redact",
       "approve", "reject", "expire", "apply", "rollback",
       "unlink", "retention", "backup", "handoff"}

Kind == {"memory", "privacy", "policy", "profile", "account", "proposal", "backup"}

(* A behaviour begins with a memory that is there, pinned or not; zero days *)
(* of retention mean for ever; there is a purpose for each kind of row.     *)
ASSUME GovernanceStoreAssumption ==
    /\ MaxVersion \in Nat /\ Kind \subseteq Purpose
    /\ \A w \in Workloads :
          /\ w.ops \subseteq Op
          /\ w.memory \in MemoryState \ {"purged"} /\ w.pin \in Pin
          /\ w.days.memory \in Nat /\ w.days.chat \in Nat /\ w.days.raw \in Nat
          /\ w.clock \in 0..MaxNow

VARIABLES row,       \* the rows: a state and a version each
          store,     \* what retention works on: the memory's updated_at, its source message, and who needs it
          cli,       \* the command-line decision between its check and its update
          handoff,   \* the fingerprint bound by the prepared restore handoff, 0: none
          workload   \* the operations of this behaviour

storeVars == <<row, store, cli, handoff, workload>>

RowOf(state, ver) == [state |-> state, ver |-> ver]

Decision == {"none", "approve", "reject"}

(* The states of a row of each kind.                                        *)
RowState(k) ==
    CASE k = "memory" -> MemoryState
      [] k = "privacy" -> {"opted_in", "opted_out"}
      [] k = "policy" -> {"enabled", "disabled"}
      [] k = "profile" -> {"named", "redacted"}
      [] k = "account" -> {"active", "disabled"}
      [] k = "proposal" -> {"pending_review", "approved", "rejected", "expired", "applied", "rolled_back"}
      [] OTHER -> {"none", "verified", "damaged"}

(* What a preview can show: a row's state, or that there is a plan or room. *)
ShownState == {"plan", "available"} \cup UNION {RowState(k) : k \in Kind}

Content == [op : Op, state : ShownState, ver : Nat, at : Nat, body : SUBSET {"memory", "chat", "raw"}]

StoreTypeOK ==
    /\ DOMAIN row = Kind
    /\ \A k \in Kind : row[k].ver \in Nat /\ row[k].state \in RowState(k)
    /\ store \in [at : 0..MaxNow, chat : BOOLEAN, raw : BOOLEAN, pin : Pin]
    /\ cli \in Decision /\ handoff \in Nat
    /\ workload \in Workloads

(* A workload is a set of console operations, a set of other writers, the   *)
(* memory's first state, what pins it, and the retention days.              *)
StoreInit ==
    /\ workload \in Workloads
    /\ row = [memory |-> RowOf(workload.memory, 1), privacy |-> RowOf("opted_in", 0),
              policy |-> RowOf("disabled", 0), profile |-> RowOf("named", 1),
              account |-> RowOf("active", 1), proposal |-> RowOf("pending_review", 1),
              backup |-> RowOf("none", 0)]
    /\ store = [at |-> 0, chat |-> TRUE, raw |-> TRUE, pin |-> workload.pin]
    /\ cli = "none" /\ handoff = 0

(***************************************************************************)
(* Retention: which rows are old enough, and which of those somebody needs. *)
(***************************************************************************)

(* cutoffMs: zero days mean for ever.                                       *)
Older(at, days, asOf) == days # 0 /\ at < asOf - days

ChatPins == {"extraction", "summary", "attention"}
RawPins == {"turn", "admission", "summary", "attention"}

(* memoryCandidatePredicate                                                 *)
PurgesMemory(asOf) ==
    /\ row.memory.state \in {"rejected", "disabled", "deleted"}
    /\ Older(store.at, workload.days.memory, asOf)
    /\ store.pin # "proposal"

(* Mutant of SourceNeeded: only live memories keep their source.            *)
SourceNeededByLive(asOf) == row.memory.state \in {"proposed", "active", "superseded"}

(* buildMemorySourceGuard: a memory that the same plan does not purge.      *)
SourceNeeded(asOf) == row.memory.state # "purged" /\ ~PurgesMemory(asOf)

PurgesChat(asOf) ==
    /\ store.chat /\ Older(0, workload.days.chat, asOf)
    /\ ~SourceNeeded(asOf) /\ store.pin \notin ChatPins

(* A raw event goes only when every chat message of it goes or is gone.     *)
PurgesRaw(asOf) ==
    /\ store.raw /\ Older(0, workload.days.raw, asOf)
    /\ ~SourceNeeded(asOf) /\ store.pin \notin RawPins
    /\ store.chat => PurgesChat(asOf)

(* planRetentionPolicy: the candidates, as the fingerprints show them.      *)
Plan(asOf) ==
    {c \in {"memory", "chat", "raw"} :
        CASE c = "memory" -> PurgesMemory(asOf)
          [] c = "chat" -> PurgesChat(asOf)
          [] OTHER -> PurgesRaw(asOf)}

(* applyRetentionPlanInCurrentTransaction                                   *)
Purged(plan) ==
    /\ row' = IF "memory" \in plan THEN [row EXCEPT !.memory = RowOf("purged", 0)] ELSE row
    /\ store' = [store EXCEPT !.chat = @ /\ "chat" \notin plan, !.raw = @ /\ "raw" \notin plan]

(***************************************************************************)
(* Previews: what the query service shows of the row an operation is about, *)
(* or nothing when the operation is not possible.                           *)
(***************************************************************************)

Shown(op, k) == {[op |-> op, state |-> row[k].state, ver |-> row[k].ver, at |-> 0, body |-> {}]}

(* getMemoryRecordForgetPreviewForScope                                     *)
PreviewForget == IF row.memory.state \notin {"deleted", "purged"} THEN Shown("forget", "memory") ELSE {}

(* getMemoryRecordRestorePreviewForScope                                    *)
PreviewRestore == IF row.memory.state \in {"disabled", "rejected", "deleted"}
                  THEN Shown("restore", "memory") ELSE {}

PrivacyTarget(op) == IF op = "optIn" THEN "opted_in" ELSE "opted_out"
PolicyTarget(op) == IF op = "enable" THEN "enabled" ELSE "disabled"

(* getPrivacyPreferenceChangePreviewForScope                                *)
PreviewPrivacy(op) == IF row.privacy.state # PrivacyTarget(op) THEN Shown(op, "privacy") ELSE {}

(* getGroupSummaryPolicyChangePreviewForScope                               *)
PreviewPolicy(op) == IF row.policy.state # PolicyTarget(op) THEN Shown(op, "policy") ELSE {}

(* getDisplayProfileTargetRedactionPreviewForScope: a fingerprint of every  *)
(* row of the target.                                                       *)
PreviewRedact == Shown("redact", "profile")

(* getPlatformAccountUnlinkPreview                                          *)
PreviewUnlink == IF row.account.state = "active" THEN Shown("unlink", "account") ELSE {}

(* getMemoryMaintenanceApprovalPreview, ...RejectionPreview,                *)
(* ...ExpirationPreview                                                     *)
PreviewApprove == IF row.proposal.state = "pending_review" THEN Shown("approve", "proposal") ELSE {}
PreviewReject == IF row.proposal.state = "pending_review" THEN Shown("reject", "proposal") ELSE {}
PreviewExpire == IF row.proposal.state = "pending_review" THEN Shown("expire", "proposal") ELSE {}

(* resolveMemoryMaintenanceApplication, getMemoryMaintenanceRollbackPreview *)
PreviewApply == IF row.proposal.state = "approved" THEN Shown("apply", "proposal") ELSE {}
PreviewRollback == IF row.proposal.state = "applied" THEN Shown("rollback", "proposal") ELSE {}

(* previewConfiguredRetention: the plan as of a time that goes with it.     *)
PreviewRetention(asOf) ==
    {[op |-> "retention", state |-> "plan", ver |-> 1, at |-> asOf, body |-> Plan(asOf)]}

(* previewVerifiedBackup: nothing that could change.                        *)
PreviewBackup == {[op |-> "backup", state |-> "available", ver |-> 1, at |-> 0, body |-> {}]}

(* previewServerOwnedBackupRestore: the digest covers the artifact's bytes. *)
PreviewHandoff == IF row.backup.state = "verified" THEN Shown("handoff", "backup") ELSE {}

(* The preview of an operation, as of the given time where that matters.    *)
Preview(op, asOf) ==
    CASE op = "forget" -> PreviewForget
      [] op = "restore" -> PreviewRestore
      [] op \in {"optIn", "optOut"} -> PreviewPrivacy(op)
      [] op \in {"enable", "disable"} -> PreviewPolicy(op)
      [] op = "redact" -> PreviewRedact
      [] op = "unlink" -> PreviewUnlink
      [] op = "approve" -> PreviewApprove
      [] op = "reject" -> PreviewReject
      [] op = "expire" -> PreviewExpire
      [] op = "apply" -> PreviewApply
      [] op = "rollback" -> PreviewRollback
      [] op = "retention" -> PreviewRetention(asOf)
      [] op = "backup" -> PreviewBackup
      [] OTHER -> PreviewHandoff

KindOf(op) ==
    CASE op \in {"forget", "restore"} -> "memory"
      [] op \in {"optIn", "optOut"} -> "privacy"
      [] op \in {"enable", "disable"} -> "policy"
      [] op = "redact" -> "profile"
      [] op = "unlink" -> "account"
      [] op \in {"approve", "reject", "expire", "apply", "rollback"} -> "proposal"
      [] op = "retention" -> "memory"
      [] OTHER -> "backup"

(***************************************************************************)
(* Effects.                                                                 *)
(***************************************************************************)

Bump(k, state) == [row EXCEPT ![k] = RowOf(state, @.ver + 1)]

Untouched == UNCHANGED <<cli, handoff, workload>>

(* updateStateSync: a new revision, and updated_at.                         *)
MemoryBecomes(state) ==
    /\ row' = Bump("memory", state)
    /\ store' = [store EXCEPT !.at = now] /\ Untouched

(* assertAllowedStateTransition                                             *)
MemoryMayBecome(state) ==
    <<row.memory.state, state>> \in
        {<<"proposed", "active">>, <<"proposed", "rejected">>, <<"proposed", "deleted">>,
         <<"active", "disabled">>, <<"active", "deleted">>, <<"active", "superseded">>,
         <<"rejected", "active">>, <<"rejected", "deleted">>,
         <<"disabled", "active">>, <<"disabled", "deleted">>,
         <<"superseded", "deleted">>, <<"deleted", "active">>}

RowBecomes(k, state) == row' = Bump(k, state) /\ UNCHANGED store /\ Untouched

(* setPreferenceAtExpectedSnapshot: a stored preference's updated_at always *)
(* moves on.                                                                *)
PreferenceStamp == IF row.privacy.ver = 0 THEN now + 1 ELSE Max({now + 1, row.privacy.ver + 1})

PreferenceBecomes(state) ==
    /\ row' = [row EXCEPT !.privacy = RowOf(state, PreferenceStamp)]
    /\ UNCHANGED store /\ Untouched

(* applyApproved and rollbackApplied of a decay proposal: the candidate is  *)
(* as the proposal recorded it (revision 1), or as the application left it.  *)
ProposalApplies == row.memory = RowOf("active", 1)
ProposalRollsBack == row.memory = RowOf("disabled", 2)

ProposalAndMemory(state, memory) ==
    /\ row' = [Bump("proposal", state) EXCEPT !.memory = RowOf(memory, row.memory.ver + 1)]
    /\ store' = [store EXCEPT !.at = now] /\ Untouched

(* Mutant of Expected: the update is not conditional.                       *)
ExpectedAnything(c) == TRUE

(* The conditional part of every service transaction: the row is still as   *)
(* the preview recorded it.                                                 *)
Expected(c) == row[KindOf(c.op)].state = c.state /\ row[KindOf(c.op)].ver = c.ver

(* What each service transaction does when the row is as expected, and what *)
(* it asks of the row besides.  forgetMemory and restoreMemory:             *)
MayForget == row.memory.state # "deleted"
MayRestore == row.memory.state \in {"disabled", "rejected", "deleted"}
EffectForget == MayForget /\ MemoryBecomes("deleted")
EffectRestore == MayRestore /\ MemoryBecomes("active")

(* setPrivacyPreferenceAtExpectedSnapshot, setGroupSummaryPolicy...         *)
EffectPrivacy(op) == PreferenceBecomes(PrivacyTarget(op))
EffectPolicy(op) == RowBecomes("policy", PolicyTarget(op))

(* redactDisplayProfileAtExpectedSnapshot                                   *)
EffectRedact == RowBecomes("profile", "redacted")

(* unlinkPlatformAccountAtExpectedSnapshot                                  *)
MayUnlink == row.account.state = "active"
EffectUnlink == MayUnlink /\ RowBecomes("account", "disabled")

ReviewTarget(op) == CASE op = "approve" -> "approved"
                      [] op = "reject" -> "rejected"
                      [] OTHER -> "expired"

(* transitionReview                                                         *)
EffectReview(op) == RowBecomes("proposal", ReviewTarget(op))

(* applyApproved, rollbackApplied                                           *)
EffectApply == ProposalApplies /\ ProposalAndMemory("applied", "disabled")
EffectRollback == ProposalRollsBack /\ ProposalAndMemory("rolled_back", "active")

Effect(c) ==
    \/ c.op = "forget" /\ EffectForget
    \/ c.op = "restore" /\ EffectRestore
    \/ c.op \in {"optIn", "optOut"} /\ EffectPrivacy(c.op)
    \/ c.op \in {"enable", "disable"} /\ EffectPolicy(c.op)
    \/ c.op = "redact" /\ EffectRedact
    \/ c.op = "unlink" /\ EffectUnlink
    \/ c.op \in {"approve", "reject", "expire"} /\ EffectReview(c.op)
    \/ c.op = "apply" /\ EffectApply
    \/ c.op = "rollback" /\ EffectRollback

Effective(c) ==
    /\ Expected(c)
    /\ c.op = "forget" => MayForget
    /\ c.op = "restore" => MayRestore
    /\ c.op = "unlink" => MayUnlink
    /\ c.op = "apply" => ProposalApplies
    /\ c.op = "rollback" => ProposalRollsBack

(* project...Confirmation: what the handler makes of the proposal that the  *)
(* transaction returned.  There is nothing to show, and the answer is       *)
(* "unavailable", unless the proposal is one revision past the preview, by  *)
(* the transition of the action.                                            *)
ReviewConfirmed(c) ==
    /\ c.state = "pending_review"
    /\ row'.proposal = RowOf(ReviewTarget(c.op), c.ver + 1)
ApplicationConfirmed(c) ==
    c.state = "approved" /\ row'.proposal = RowOf("applied", c.ver + 1)
RollbackConfirmed(c) ==
    c.state = "applied" /\ row'.proposal = RowOf("rolled_back", c.ver + 1)

(***************************************************************************)
(* Everybody else.                                                          *)
(***************************************************************************)

Writes(w) == w \in workload.others

MemoryHasRoom == row.memory.ver < MaxVersion

(* cli deleteMemory, QQ forget: forgetMemory without an expectation.        *)
Forget ==
    /\ row.memory.state \notin {"deleted", "purged"} /\ MemoryHasRoom
    /\ MemoryBecomes("deleted")

CliDelete == Writes("delete") /\ Forget

(* cli enableMemory, restoreMemory                                          *)
CliEnable ==
    /\ Writes("enable") /\ MemoryHasRoom
    /\ row.memory.state \in {"disabled", "rejected", "deleted"} /\ MemoryBecomes("active")

(* cli disableMemory: updateState, whatever the state was when it looked.   *)
CliDisable ==
    /\ Writes("disable") /\ MemoryHasRoom /\ MemoryMayBecome("disabled") /\ MemoryBecomes("disabled")

(* cli supersedeMemory                                                      *)
CliSupersede ==
    /\ Writes("supersede") /\ MemoryHasRoom /\ MemoryMayBecome("superseded") /\ MemoryBecomes("superseded")

(* cli approveMemory and rejectMemory: assertProposedForDecision reads the  *)
(* state in a statement of its own.                                         *)
CliDecide(d) ==
    /\ Writes("decide") /\ cli = "none" /\ row.memory.state = "proposed" /\ MemoryHasRoom
    /\ cli' = d /\ UNCHANGED <<row, store, handoff, workload>>

DecisionTarget == IF cli = "approve" THEN "active" ELSE "rejected"

(* updateState: the transition table is asked again, not the decision's     *)
(* condition; the same state is a no-op.                                    *)
CliDecideUpdate ==
    /\ cli # "none" /\ cli' = "none"
    /\ IF MemoryMayBecome(DecisionTarget)
       THEN row' = Bump("memory", DecisionTarget) /\ store' = [store EXCEPT !.at = now]
       ELSE UNCHANGED <<row, store>>
    /\ UNCHANGED <<handoff, workload>>

(* cli privacy opt-out and clear: no expectation, updated_at is now.        *)
CliPrivacy(state) ==
    /\ Writes("privacy")
    /\ row' = [row EXCEPT !.privacy = RowOf(state, now + 1)] /\ UNCHANGED store /\ Untouched

(* cli redact                                                               *)
CliRedact == Writes("redact") /\ row.profile.ver < MaxVersion /\ RowBecomes("profile", "redacted")

(* cli unlink: unlinkPlatformAccountAsLocalAdmin without an expectation.    *)
CliUnlink == Writes("unlink") /\ row.account.state = "active" /\ RowBecomes("account", "disabled")

(* ops:maintenance retention: plan and apply in one transaction.            *)
CliRetention ==
    /\ Writes("retention") /\ Plan(now) # {} /\ Purged(Plan(now)) /\ Untouched

(* readQqCommandSource, resolveQqAuthority: the sender's account is active; *)
(* an owner or a group admin.                                               *)
QqSender == Writes("qq") /\ row.account.state = "active"

QqForget == QqSender /\ Forget

QqSummary(on) ==
    /\ QqSender /\ row.policy.ver < MaxVersion
    /\ row.policy.state # PolicyTarget(on) /\ RowBecomes("policy", PolicyTarget(on))

(* An inbound message of an active account: last_seen_at, and the display   *)
(* name it carries.                                                         *)
Inbound ==
    /\ Writes("inbound") /\ row.account.state = "active"
    /\ row.account.ver < MaxVersion /\ row.profile.ver < MaxVersion
    /\ row' = [row EXCEPT !.account = RowOf("active", @.ver + 1), !.profile = RowOf("named", @.ver + 1)]
    /\ UNCHANGED store /\ Untouched

(* The job, summary, candidate or event that needed the message is settled; *)
(* a summary window may freeze an old message.                              *)
Unpin ==
    /\ store.pin \in {"extraction", "summary", "attention", "admission"} /\ Writes("worker")
    /\ store' = [store EXCEPT !.pin = "none"] /\ UNCHANGED row /\ Untouched

FreezeWindow ==
    /\ store.pin = "none" /\ store.chat /\ store.raw /\ Writes("worker")
    /\ store' = [store EXCEPT !.pin = "summary"] /\ UNCHANGED row /\ Untouched

(* The operator replaces or damages a managed backup file.                  *)
BackupChanges ==
    /\ Writes("operator") /\ row.backup.state = "verified" /\ row.backup.ver < MaxVersion
    /\ \E s \in {"verified", "damaged"} : RowBecomes("backup", s)

Others ==
    \/ CliDelete
    \/ CliEnable
    \/ CliDisable
    \/ CliSupersede
    \/ \E d \in {"approve", "reject"} : CliDecide(d)
    \/ CliDecideUpdate
    \/ \E s \in {"opted_in", "opted_out"} : CliPrivacy(s)
    \/ CliRedact
    \/ CliUnlink
    \/ CliRetention
    \/ QqForget
    \/ \E on \in {"enable", "disable"} : QqSummary(on)
    \/ Inbound
    \/ Unpin
    \/ FreezeWindow
    \/ BackupChanges
=============================================================================
