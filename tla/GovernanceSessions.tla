------------------------ MODULE GovernanceSessions -------------------------
(***************************************************************************)
(* Sessions of the governance console and the three registries of opaque    *)
(* handles that hang off them: scope handles, resource handles and          *)
(* single-use preview handles (src/src/http/governance-http-server.ts,      *)
(* governance-scope-handle-registry.ts, -resource-handle-registry.ts,       *)
(* -preview-handle-registry.ts).  Everything here is memory of the process. *)
(* A session id, like a handle, is the number of its issue: fresh values    *)
(* are drawn at random and never collide.                                   *)
(***************************************************************************)
EXTENDS Integers, Sequences, FiniteSets, FiniteSetsExt

CONSTANTS Purpose,        \* what a scope or resource handle is good for
          SessionTtl,     \* sessionTtlMs
          PreviewTtl,     \* MAX_PREVIEW_TTL_MS
          MaxSessions,    \* MAX_SESSIONS, and MAX_ACTIVE_SESSIONS of the registries
          MaxPreviews,    \* MAX_PREVIEWS_PER_SESSION
          MaxConsumed,    \* MAX_CONSUMED_PREVIEWS_PER_SESSION
          MaxLogins, MaxIssued, MaxNow

ASSUME GovernanceSessionsAssumption ==
    /\ SessionTtl \in Nat \ {0} /\ PreviewTtl \in Nat \ {0}
    /\ MaxSessions \in Nat \ {0} /\ MaxPreviews \in Nat \ {0} /\ MaxConsumed \in Nat \ {0}
    /\ MaxLogins \in Nat /\ MaxIssued \in Nat /\ MaxNow \in Nat

VARIABLES now,        \* Date.now()
          expiry,     \* expiresAt of each session, in the order of their logins
          live,       \* the sessions in the map
          scopes,     \* scope handles: <<session, purpose>>
          resources,  \* resource handles: <<session, purpose>>
          previews,   \* the records of the preview handles
          issued      \* preview handles issued so far

sessionVars == <<now, expiry, live, scopes, resources, previews, issued>>

Session == 1..MaxLogins
Handle == 1..MaxIssued
Grant == Session \X Purpose

SessionsTypeOK(Content) ==
    /\ now \in 0..MaxNow
    /\ expiry \in Seq(0..(MaxNow + SessionTtl)) /\ Len(expiry) <= MaxLogins
    /\ live \subseteq 1..Len(expiry)
    /\ scopes \subseteq Grant /\ resources \subseteq Grant
    /\ issued \in 0..MaxIssued
    /\ previews \subseteq [handle : 1..issued, session : 1..Len(expiry), content : Content,
                           expires : 0..(MaxNow + PreviewTtl), consumed : BOOLEAN]

SessionsInit ==
    /\ now = 0 /\ expiry = << >> /\ live = {}
    /\ scopes = {} /\ resources = {} /\ previews = {} /\ issued = 0

(* close: the maps are cleared; a restarted process starts with none of     *)
(* them.  Numbers of sessions and handles go on, as random values do.       *)
Cleared ==
    /\ live' = {} /\ scopes' = {} /\ resources' = {} /\ previews' = {}
    /\ UNCHANGED <<now, expiry, issued>>

(* Mutant of Revoked: a session's handles outlive it.                       *)
RevokedSessionsOnly(gone) ==
    /\ live' = live \ gone
    /\ UNCHANGED <<scopes, resources, previews>>

(* removeSession: the session leaves the map and its handles the three      *)
(* registries; nothing happens for a session that is not in the map.        *)
Revoked(gone) ==
    /\ live' = live \ gone
    /\ scopes' = {g \in scopes : g[1] \notin gone}
    /\ resources' = {g \in resources : g[1] \notin gone}
    /\ previews' = {p \in previews : p.session \notin gone}

(* pruneExpiredSessions                                                     *)
Outdated == {s \in live : expiry[s] <= now}

(* authenticate: expired sessions are pruned, then the cookie's is looked up *)
Authenticates(s) == s \in live \ Outdated

(* A request with no session, or one that is answered without a change.     *)
Unauthorized ==
    /\ Outdated # {} /\ Revoked(Outdated)
    /\ UNCHANGED <<now, expiry, issued>>

(* handleLogin with the right token: prune, drop the session the cookie     *)
(* still names (0: none), and refuse when the map is full: it is full only  *)
(* when nothing was dropped, so that a refused login changes nothing.       *)
Login(prior) ==
    LET gone == Outdated \cup (live \cap {prior})
    IN  /\ Len(expiry) < MaxLogins
        /\ Cardinality(live \ gone) < MaxSessions
        /\ expiry' = Append(expiry, now + SessionTtl)
        /\ live' = (live \ gone) \cup {Len(expiry) + 1}
        /\ scopes' = {g \in scopes : g[1] \notin gone}
        /\ resources' = {g \in resources : g[1] \notin gone}
        /\ previews' = {p \in previews : p.session \notin gone}
        /\ UNCHANGED <<now, issued>>

(* DELETE of the session with its token.                                    *)
Logout(s) ==
    /\ Authenticates(s) /\ Revoked(Outdated \cup {s})
    /\ UNCHANGED <<now, expiry, issued>>

Unexpired(grants) == {g \in grants : expiry[g[1]] > now}

(* resolve of the scope registry and of the resource registry               *)
ScopeResolves(s, p) == <<s, p>> \in Unexpired(scopes)
ResourceResolves(s, p) == <<s, p>> \in Unexpired(resources)

(* issue of the two registries: an existing binding is reused; expired      *)
(* records go first.                                                        *)
WithScope(s, p) == Unexpired(scopes) \cup {<<s, p>>}
WithResource(s, p) == Unexpired(resources) \cup {<<s, p>>}

(* removeExpired of the preview registry                                    *)
Fresh(ps) == {p \in ps : p.expires > now}

Active(ps) == {p \in ps : ~p.consumed}
ActiveOf(ps, s) == {p \in Active(ps) : p.session = s}

(* issue: the capacity of the registry                                      *)
HasRoom(ps, s) ==
    /\ Cardinality(ActiveOf(ps, s)) < MaxPreviews
    /\ ActiveOf(ps, s) = {} => Cardinality({p.session : p \in Active(ps)}) < MaxSessions

(* issue: a session whose time is over gets nothing, whatever request still *)
(* holds it; a preview never outlives its session.                          *)
MayIssue(s) == expiry[s] > now /\ HasRoom(Fresh(previews), s) /\ issued < MaxIssued

PreviewExpiry(s) == Min({expiry[s], now + PreviewTtl})

WithPreview(s, content) ==
    Fresh(previews) \cup
        {[handle |-> issued + 1, session |-> s, content |-> content,
          expires |-> PreviewExpiry(s), consumed |-> FALSE]}

(* consumeWithOutcome: the record the handle names, if it is this session's *)
(* and for this action and resource.                                        *)
Held(h, s) == {p \in Fresh(previews) : p.handle = h /\ p.session = s}

(* trimConsumedRecords: the oldest consumed records of a session go.        *)
SpentOf(ps, s) == {p \in ps : p.session = s /\ p.consumed}
Newer(ps, s, p) == {r \in SpentOf(ps, s) : r.handle > p.handle}
Trimmed(ps, s) ==
    {p \in ps : p \in SpentOf(ps, s) => Cardinality(Newer(ps, s, p)) < MaxConsumed}

(* consumeWithOutcome: the record stays, marked, so that a second use is    *)
(* told from an unknown handle.                                             *)
Consumed(p, s) ==
    Trimmed((Fresh(previews) \ {p}) \cup {[p EXCEPT !.consumed = TRUE]}, s)

Tick == now < MaxNow /\ now' = now + 1 /\ UNCHANGED <<expiry, live, scopes, resources, previews, issued>>

(***************************************************************************)
(* What holds of the registries.                                            *)
(***************************************************************************)

(* No session holds more unconsumed previews than the registry allows, and  *)
(* consumed ones are remembered only up to their bound, whatever the order  *)
(* of previews, confirmations, logouts and expiries                         *)
(* (governance-preview-handle-registry.ts, issue and trimConsumedRecords).  *)
PreviewsBounded ==
    \A s \in 1..Len(expiry) :
        /\ Cardinality(ActiveOf(previews, s)) <= MaxPreviews
        /\ Cardinality(SpentOf(previews, s)) <= MaxConsumed
=============================================================================
