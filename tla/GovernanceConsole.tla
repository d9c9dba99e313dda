------------------------- MODULE GovernanceConsole -------------------------
(***************************************************************************)
(* The governance console: an operator previews an operation, is handed a   *)
(* single-use handle for exactly what was shown, and confirms it            *)
(* (src/src/http/governance-http-server.ts handleRequest,                   *)
(* governance-authorized-handler.ts, governance-unscoped-handler.ts).  A    *)
(* request holds its session from authentication on, while its body is      *)
(* still arriving; a confirmation consumes the handle and compares before   *)
(* it opens the transaction that acts.                                      *)
(***************************************************************************)
EXTENDS GovernanceStore

CONSTANTS Request

VARIABLES req,    \* what each request in flight has come to
          spent   \* handles a confirmation was let through on (history)

vars == <<sessionVars, storeVars, req, spent>>

Idle == [at |-> "idle"]

Scoped(op) == op \notin {"unlink", "retention", "backup", "handoff"}

(* The action name a preview handle is bound to: the target of a change of  *)
(* a preference or a policy is in the digest, not in the name.              *)
ActionOf(op) == IF op \in {"optIn", "optOut", "enable", "disable"} THEN KindOf(op) ELSE op

(* Shape of every variable.                                                 *)
TypeOK ==
    /\ SessionsTypeOK(Content) /\ StoreTypeOK
    /\ DOMAIN req = Request
    /\ \A q \in Request :
          \/ req[q] = Idle
          \/ req[q].at = "body" /\ req[q].session \in 1..Len(expiry)
          \/ /\ req[q].at \in {"commit", "backup"}
             /\ req[q].handle \in 1..issued /\ req[q].content \in Content
    /\ spent \subseteq 1..issued

Init ==
    /\ SessionsInit /\ StoreInit
    /\ req = [q \in Request |-> Idle] /\ spent = {}

(***************************************************************************)
(* Sessions and reads.                                                      *)
(***************************************************************************)

Elsewhere == UNCHANGED <<storeVars, req, spent>>

SessionStep ==
    /\ \/ now < workload.clock /\ Tick
       \/ Unauthorized
       \/ \E p \in live \cup {0} : Len(expiry) < workload.logins /\ Login(p)
       \/ \E s \in live : Logout(s)
    /\ Elsewhere

(* The discovery routes: a scope handle for each scope that has a row.      *)
Discover(s, k) ==
    /\ Authenticates(s) /\ Outdated = {} /\ <<s, k>> \notin scopes
    /\ \E op \in workload.ops : Scoped(op) /\ KindOf(op) = k
    /\ scopes' = WithScope(s, k)
    /\ UNCHANGED <<now, expiry, live, resources, previews, issued>> /\ Elsewhere

DiscoverMemory(s) == row.memory.state # "purged" /\ Discover(s, "memory")
DiscoverReviews(s) == Discover(s, "proposal")
DiscoverPrivacy(s) == Discover(s, "privacy")
DiscoverPolicy(s) == Discover(s, "policy")
DiscoverProfiles(s) == Discover(s, "profile")

(* The listing routes: a resource handle for each row of the scope.         *)
List(s, k) ==
    /\ Authenticates(s) /\ Outdated = {} /\ ScopeResolves(s, k)
    /\ <<s, k>> \notin resources
    /\ resources' = WithResource(s, k) /\ scopes' = Unexpired(scopes)
    /\ UNCHANGED <<now, expiry, live, previews, issued>> /\ Elsewhere

ListMemory(s) == row.memory.state # "purged" /\ List(s, "memory")
ListReviews(s) == List(s, "proposal")
ListProfiles(s) == List(s, "profile")

(***************************************************************************)
(* Mutating requests.                                                       *)
(***************************************************************************)

Answer(q) == req' = [req EXCEPT ![q] = Idle]

(* handleRequest, up to the body: the session and its token are checked.    *)
Arrive(q, s) ==
    /\ req[q] = Idle /\ Authenticates(s)
    /\ Revoked(Outdated)
    /\ req' = [req EXCEPT ![q] = [at |-> "body", session |-> s]]
    /\ UNCHANGED <<now, expiry, issued, storeVars, spent>>

(* readJsonBody: too long, too late, malformed or aborted.                  *)
BadBody(q) ==
    /\ req[q].at = "body" /\ Answer(q)
    /\ UNCHANGED <<sessionVars, storeVars, spent>>

(* handleRequest, from the body on: a scoped route needs its scope handle,  *)
(* and a resource route its resource handle, at this time.                  *)
RecordRoute(s) == ScopeResolves(s, "memory") /\ ResourceResolves(s, "memory")
ReviewRoute(s) == ScopeResolves(s, "proposal") /\ ResourceResolves(s, "proposal")
ProfileRoute(s) == ScopeResolves(s, "profile") /\ ResourceResolves(s, "profile")
PrivacyRoute(s) == ScopeResolves(s, "privacy")
PolicyRoute(s) == ScopeResolves(s, "policy")

Resolved(s, op) ==
    CASE KindOf(op) = "memory" /\ Scoped(op) -> RecordRoute(s)
      [] KindOf(op) = "proposal" -> ReviewRoute(s)
      [] KindOf(op) = "profile" -> ProfileRoute(s)
      [] KindOf(op) = "privacy" -> PrivacyRoute(s)
      [] KindOf(op) = "policy" -> PolicyRoute(s)
      [] OTHER -> TRUE

(* An unlink preview issues the account's resource handle too.              *)
AlsoIssued(s, op) == IF op = "unlink" THEN WithResource(s, "account") ELSE resources

(* Every route that previews: the query service's projection, and a handle  *)
(* for it.                                                                  *)
IssuePreview(q, op) ==
    /\ req[q].at = "body" /\ op \in workload.ops
    /\ LET s == req[q].session
       IN  /\ Resolved(s, op) /\ MayIssue(s)
           /\ \E c \in Preview(op, now) : previews' = WithPreview(s, c)
           /\ issued' = issued + 1
           /\ resources' = AlsoIssued(s, op)
    /\ Answer(q)
    /\ UNCHANGED <<now, expiry, live, scopes, storeVars, spent>>

(* The same, when something is missing: the answer is an error.             *)
PreviewRefused(q, op) ==
    /\ req[q].at = "body" /\ op \in workload.ops
    /\ LET s == req[q].session
       IN  ~Resolved(s, op) \/ Preview(op, now) = {} \/ expiry[s] <= now
              \/ ~HasRoom(Fresh(previews), s)
    /\ Answer(q)
    /\ UNCHANGED <<sessionVars, storeVars, spent>>

(* consumeWithOutcome = consumed                                            *)
Confirmable(p, op) == ActionOf(p.content.op) = ActionOf(op) /\ ~p.consumed

(* What a confirmation may act on: the preview read again is the one that   *)
(* was shown.  Each route compares its own.                                 *)
ForgetCompares(c) == c \in PreviewForget
RestoreCompares(c) == c \in PreviewRestore
PrivacyCompares(c, op) == c \in PreviewPrivacy(op)
PolicyCompares(c, op) == c \in PreviewPolicy(op)
RedactCompares(c) == c \in PreviewRedact
UnlinkCompares(c) == c \in PreviewUnlink
ReviewCompares(c, op) == c \in Preview(op, now)
BackupCompares(c) == c \in PreviewBackup
HandoffCompares(c) == c \in PreviewHandoff

(* Retention compares inside its transaction.                               *)
Compares(c, op) ==
    CASE op = "forget" -> ForgetCompares(c)
      [] op = "restore" -> RestoreCompares(c)
      [] KindOf(op) = "privacy" -> PrivacyCompares(c, op)
      [] KindOf(op) = "policy" -> PolicyCompares(c, op)
      [] op = "redact" -> RedactCompares(c)
      [] op = "unlink" -> UnlinkCompares(c)
      [] KindOf(op) = "proposal" -> ReviewCompares(c, op)
      [] op = "backup" -> BackupCompares(c)
      [] op = "handoff" -> HandoffCompares(c)
      [] OTHER -> TRUE

(* An unlink confirmation also resolves the account's resource handle.      *)
ConfirmResolved(s, op) ==
    /\ Resolved(s, op)
    /\ op = "unlink" => ResourceResolves(s, "account")

(* Every route that confirms: consume the handle, read the preview again,   *)
(* compare.  Retention plans, compares and deletes in one transaction.      *)
Confirm(q, op, h) ==
    /\ req[q].at = "body" /\ op \in workload.ops
    /\ LET s == req[q].session
       IN  /\ ConfirmResolved(s, op)
           /\ \E p \in Held(h, s) :
                 LET c == p.content
                 IN  /\ Confirmable(p, op)
                     /\ previews' = Consumed(p, s)
                     /\ IF Compares(c, op)
                        THEN /\ spent' = spent \cup {h}
                             /\ req' = [req EXCEPT ![q] =
                                           [at |-> IF op = "backup" THEN "backup" ELSE "commit",
                                            session |-> s, handle |-> h, content |-> c]]
                        ELSE Answer(q) /\ UNCHANGED spent
    /\ UNCHANGED <<now, expiry, live, scopes, resources, issued, storeVars>>

ConfirmRefused(q, op, h) ==
    /\ req[q].at = "body" /\ op \in workload.ops
    /\ LET s == req[q].session
       IN  ~ConfirmResolved(s, op) \/ \A p \in Held(h, s) : ~Confirmable(p, op)
    /\ Answer(q)
    /\ UNCHANGED <<sessionVars, storeVars, spent>>

(* The service's transaction, when the row is as expected, and when not.    *)
Commit(q) ==
    /\ req[q].at = "commit" /\ req[q].content.op \notin {"retention", "handoff"}
    /\ Effective(req[q].content) /\ Effect(req[q].content)
    /\ Answer(q)
    /\ UNCHANGED <<sessionVars, spent>>

CommitStale(q) ==
    /\ req[q].at = "commit" /\ req[q].content.op \notin {"retention", "handoff"}
    /\ ~Effective(req[q].content)
    /\ Answer(q)
    /\ UNCHANGED <<sessionVars, storeVars, spent>>

(* confirmConfiguredRetention: one immediate transaction plans, compares    *)
(* and deletes; a difference is a conflict.                                 *)
CommitRetention(q) ==
    /\ req[q].at = "commit" /\ req[q].content.op = "retention"
    /\ IF req[q].content \in PreviewRetention(req[q].content.at)
       THEN Purged(req[q].content.body)
       ELSE UNCHANGED <<row, store>>
    /\ Answer(q)
    /\ UNCHANGED <<sessionVars, cli, handoff, workload, spent>>

(* createServerOwnedVerifiedBackup: an asynchronous copy into a fresh file, *)
(* verified, or reported as needing attention.                              *)
BackupDone(q) ==
    /\ req[q].at = "backup"
    /\ \/ row.backup.ver < MaxVersion /\ RowBecomes("backup", "verified")
       \/ UNCHANGED storeVars
    /\ Answer(q)
    /\ UNCHANGED <<sessionVars, spent>>

(* prepareGovernanceRestoreHandoff: the envelope binds the digest of the    *)
(* preview; an earlier envelope still in the directory is an error.         *)
CommitHandoff(q) ==
    /\ req[q].at = "commit" /\ req[q].content.op = "handoff"
    /\ handoff' = IF handoff = 0 THEN req[q].content.ver ELSE handoff
    /\ Answer(q)
    /\ UNCHANGED <<sessionVars, row, store, cli, workload, spent>>

(* The process stops: sessions, handles and requests in flight are gone.    *)
Restart ==
    /\ Cleared /\ req' = [q \in Request |-> Idle]
    /\ UNCHANGED <<storeVars, spent>>

OtherStep == Others /\ UNCHANGED <<sessionVars, req, spent>>

Next ==
    \/ SessionStep
    \/ OtherStep
    \/ Restart
    \/ \E s \in live :
          \/ DiscoverMemory(s)
          \/ DiscoverReviews(s)
          \/ DiscoverPrivacy(s)
          \/ DiscoverPolicy(s)
          \/ DiscoverProfiles(s)
          \/ ListMemory(s)
          \/ ListReviews(s)
          \/ ListProfiles(s)
    \/ \E q \in Request :
          \/ \E s \in live : Arrive(q, s)
          \/ BadBody(q)
          \/ \E op \in Op : IssuePreview(q, op)
          \/ \E op \in Op : PreviewRefused(q, op)
          \/ \E op \in Op, h \in Handle : Confirm(q, op, h)
          \/ \E op \in Op, h \in Handle : ConfirmRefused(q, op, h)
          \/ Commit(q)
          \/ CommitStale(q)
          \/ CommitRetention(q)
          \/ BackupDone(q)
          \/ CommitHandoff(q)

Spec == Init /\ [][Next]_vars

(***************************************************************************)
(* Properties.                                                              *)
(***************************************************************************)

Acts(q) == req[q].at = "commit" /\ req'[q] = Idle /\ row' # row

(* A confirmed operation finds the row, or the plan of deletions, exactly   *)
(* as the operator saw it in the preview, whoever wrote in between: the     *)
(* command line between the comparison and the transaction, a QQ command,   *)
(* an inbound message (governance-authorized-handler.ts, the confirm        *)
(* routes; service.ts, the expected... variants).                           *)
EffectMatchesPreview ==
    [][\A q \in Request : Acts(q) => req[q].content \in Preview(req[q].content.op, req[q].content.at)]_vars

(* A decision that took effect is reported as one: whatever happened to the *)
(* proposal between preview and transaction, the handler finds in the       *)
(* returned proposal the transition it asked for, and never answers         *)
(* "unavailable" to an operator whose decision stands                       *)
(* (governance-authorized-handler.ts, query-service.ts project...).         *)
DecisionsAreReported ==
    [][\A q \in Request : Acts(q) =>
          LET c == req[q].content
          IN  /\ c.op \in {"approve", "reject", "expire"} => ReviewConfirmed(c)
              /\ c.op = "apply" => ApplicationConfirmed(c)
              /\ c.op = "rollback" => RollbackConfirmed(c)]_vars

LetThrough(q) == req[q].at = "body" /\ req'[q].at \in {"commit", "backup"}

(* A preview handle authorises one confirmation, whatever the number of     *)
(* requests that carry it and whatever else was trimmed or expired          *)
(* (governance-preview-handle-registry.ts consumeWithOutcome).              *)
OneEffectPerPreview == [][\A q \in Request : LetThrough(q) => req'[q].handle \notin spent]_vars

(* A confirmation is let through only on a preview whose time is not over,  *)
(* and on a scoped route only while its session is still logged in, though  *)
(* the session was checked before the body arrived: a logout or an expiry   *)
(* in between takes the handles away (governance-http-server.ts             *)
(* handleRequest, removeSession).                                           *)
AuthorityIsLive ==
    [][\A q \in Request : LetThrough(q) =>
          /\ \E p \in previews : p.handle = req'[q].handle /\ p.expires > now
          /\ Scoped(req'[q].content.op) => req'[q].session \in live]_vars

(* The handles of a scoped route die with their session: whatever the order *)
(* of logouts, prunings and requests in flight, no scope handle and no      *)
(* preview of a scoped operation belongs to a session that is gone.         *)
HandlesDieWithSession ==
    /\ \A g \in scopes : g[1] \in live
    /\ \A p \in previews : Scoped(p.content.op) => p.session \in live

(* Retention never takes evidence that is needed: a memory that is still    *)
(* there keeps its source, a message its raw event, and a job, a summary    *)
(* window, a delayed reply, a turn or an admitted event the rows it works   *)
(* on, under every mixture of policies, late restores and new references    *)
(* between preview and confirmation (sqlite-maintenance.ts                  *)
(* planRetentionPolicy).                                                    *)
EvidenceKept ==
    /\ row.memory.state # "purged" => store.chat /\ store.raw
    /\ store.chat => store.raw
    /\ store.pin \in ChatPins => store.chat
    /\ store.pin \in RawPins => store.raw
    /\ store.pin = "proposal" => row.memory.state # "purged"

(* The handles in memory are bounded and belong to sessions that live.      *)
HandlesSound == TypeOK /\ PreviewsBounded /\ HandlesDieWithSession

(* An operation takes effect as previewed, once, under a live session, and  *)
(* is reported.                                                             *)
EffectsConfirmed ==
    EffectMatchesPreview /\ OneEffectPerPreview /\ AuthorityIsLive /\ DecisionsAreReported
=============================================================================
