-------------------------- MODULE ContextSelection --------------------------
(* What a conversation is told of the memories the store holds: the context *)
(* builder, the semantic index it asks, the worker that fills that index,   *)
(* and the memory tools of the model.                                       *)
(*                                                                          *)
(* A build reads in many statements.  It loads its messages, waits for the  *)
(* embedding provider, searches the index, reads the policy of the group,   *)
(* goes through its routes, reads once more each memory the index matched,  *)
(* filters, and fits the rest into the budget.  Between any two statements  *)
(* another process - the command line works on the same database - may      *)
(* disable or restore a memory or change a consent.                         *)
EXTENDS ContextBudget

CONSTANTS Memory,       \* identifiers of memory records
          None,
          Scenes,       \* the conversations and stores a behaviour starts in
          RouteLimit,   \* rows a route returns (50)
          MessageLimit, \* messages of the rolling window (20)
          MaxWrites     \* bound: writes of the other process

(* The rows of the store, and what a behaviour starts from. *)

States == {"absent", "proposed", "active", "rejected", "disabled", "deleted", "superseded"}

Visibilities == {"private_only", "same_group_only", "same_user_any_context", "public",
                 "owner_admin_only"}

\* Who owns a memory of each scope: nothing else is ever created.
WellOwned(r) ==
    CASE r.scope = "user" ->
            r.user # None /\ (r.vis = "same_group_only" => r.group # None \/ r.conv # None)
      [] r.scope = "group" -> r.group # None /\ r.user = None
      [] r.scope = "conversation" -> r.conv # None /\ r.user = None
      [] OTHER -> r.user = None /\ r.group = None /\ r.conv = None

IsMemory(r) ==
    /\ r = [scope |-> r.scope, vis |-> r.vis, user |-> r.user, group |-> r.group,
            conv |-> r.conv, kind |-> r.kind, state |-> r.state, revision |-> r.revision,
            size |-> r.size, match |-> r.match, near |-> r.near, sure |-> r.sure]
    /\ r.state \in States /\ r.vis \in Visibilities
    /\ r.size \in Nat /\ r.match \in Nat /\ r.sure \in Nat
    /\ r.revision \in IF r.state = "absent" THEN {0} ELSE Nat \ {0}
    /\ r.state # "absent" => WellOwned(r)

IsChatMessage(m) == m.text \in Nat /\ m.name \in Nat

\* Who speaks, where, in reply to what, after which chat; and the store.
IsScene(s) ==
    /\ s = [type |-> s.type, user |-> s.user, group |-> s.group, conv |-> s.conv,
            replyTo |-> s.replyTo, chat |-> s.chat, current |-> s.current, corpus |-> s.corpus]
    /\ s.conv # None
    /\ s.type = "group" => s.group # None
    /\ s.chat \in Seq(Range(s.chat))
    /\ \A m \in Range(s.chat) \cup {s.current} : IsChatMessage(m)
    /\ s.current.conv = s.conv
    /\ s.corpus = [m \in Memory |-> s.corpus[m]]
    /\ \A m \in Memory : IsMemory(s.corpus[m])

ASSUME ContextAssumption ==
    /\ IsFiniteSet(Memory)
    /\ RouteLimit \in Nat /\ MessageLimit \in Nat /\ MaxWrites \in Nat
    /\ None \notin {"user", "group", "conversation", "global"}
    /\ \A s \in Scenes : IsScene(s)

VARIABLES scene,  \* the conversation: who speaks, where, in reply to what
          mem,    \* the memory records
          policy, \* groups whose summaries are enabled
          opted,  \* users who opted out of memory association
          unlinked, \* users whose platform account was unlinked
          index,  \* revision each embedding was made of, 0 without one
          worker, \* the embedding worker's batch
          read,   \* the build, or the search of the tool, under way
          tool,   \* the memory.propose or memory.disable call under way
          since,  \* history: memories that could be told at some moment of it
          writes

contextVars == <<scene, mem, policy, opted, unlinked, index, worker, read, tool, since, writes>>

Stored == {m \in Memory : mem[m].state # "absent"}
GroupSummary(r) == r.scope = "group" /\ r.kind = "summary"
InGroup == scene.type = "group"

(* The record store: one route of a build, one query of the search tool. *)

\* appendContextVisibilityFilter, and isAllowedForRetrieval after it.
Visible(r, f) ==
    \/ r.vis \in {"same_user_any_context", "public"}
    \/ r.vis = "private_only" /\ ~InGroup
    \/ /\ r.vis = "same_group_only"
       /\ InGroup
       /\ \/ f.group # None /\ r.group = f.group
          \/ f.conv # None /\ r.conv = f.conv

\* A route without its group returns no group summary at all.
PolicyAllows(r, f) ==
    InGroup /\ GroupSummary(r) => f.group # None /\ r.group \in policy

Matches(r, f) ==
    /\ r.state = "active"
    /\ f.user # None => r.user = f.user
    /\ f.group # None => r.group = f.group
    /\ f.conv # None => r.conv = f.conv
    /\ f.scope # None => r.scope = f.scope
    /\ f.context => Visible(r, f) /\ PolicyAllows(r, f)

Rows(f) == {m \in Stored : Matches(mem[m], f)}

\* At most RouteLimit rows: the more important first, which is left open.
Limited(ids) ==
    {s \in SUBSET ids : Cardinality(s) = IF Cardinality(ids) < RouteLimit
                                          THEN Cardinality(ids) ELSE RouteLimit}

Filter(user, scope, group, conv, context) ==
    [user |-> user, scope |-> scope, group |-> group, conv |-> conv, context |-> context]

Routes ==
    LET u == scene.user  g == scene.group  c == scene.conv
        Grouped(user, scope) == IF InGroup THEN <<Filter(user, scope, g, None, TRUE)>> ELSE <<>>
        OfUser == <<Filter(u, None, None, None, TRUE)>> \o Grouped(u, None)
                    \o <<Filter(u, None, None, c, TRUE), Filter(u, None, None, None, FALSE)>>
    IN  (IF u = None THEN <<>> ELSE OfUser)
          \o <<Filter(None, "conversation", None, c, TRUE)>>
          \o Grouped(None, "group")
          \o <<Filter(None, "global", None, None, TRUE)>>
          \o Grouped(None, "global")
          \o <<Filter(None, "global", None, c, TRUE), Filter(None, "global", None, None, FALSE)>>

\* The queries of memory.search.
SearchRoutes ==
    LET u == scene.user  g == scene.group
    IN  IF u = None THEN <<>>
        ELSE <<Filter(u, None, None, None, TRUE)>>
               \o (IF InGroup THEN <<Filter(u, None, g, None, TRUE),
                                     Filter(None, "group", g, None, TRUE)>> ELSE <<>>)
               \o <<Filter(None, "global", None, None, TRUE)>>

(* The embedding index. *)

Eligible(r) ==
    /\ r.state = "active"
    /\ r.vis # "owner_admin_only"
    /\ r.user \notin opted
    /\ GroupSummary(r) => r.group \in policy

InContext(r) ==
    /\ \/ r.scope = "user" /\ r.user = scene.user
       \/ r.scope = "group" /\ InGroup /\ r.group = scene.group
       \/ r.scope = "conversation" /\ r.conv = scene.conv
       \/ r.scope = "global" /\ r.user = None /\ r.group = None /\ r.conv = None
    /\ Visible(r, Filter(None, None, scene.group, scene.conv, TRUE))

Current(m) == index[m] = mem[m].revision

SemanticMatches ==
    {m \in Stored : Eligible(mem[m]) /\ InContext(mem[m]) /\ Current(m) /\ mem[m].near}

\* The rows a worker has yet to embed.
Pending == {m \in Stored : Eligible(mem[m]) /\ ~Current(m)}

(* The messages of a build. *)

\* A message is known by its place in the chat; the current one comes last.
OwnMessages == {i \in DOMAIN scene.chat : scene.chat[i].conv = scene.conv}
Window == {i \in OwnMessages : Cardinality({j \in OwnMessages : j > i}) < MessageLimit}

\* One message of this conversation, or none: two leave the quote unresolved.
Target ==
    LET named == {i \in OwnMessages : scene.chat[i].platform = scene.replyTo}
    IN  IF scene.replyTo # None /\ Cardinality(named) = 1 THEN named ELSE {}

Load ==
    LET last == Len(scene.chat) + 1
    IN  [messages |-> [i \in Window \cup Target \cup {last} |->
                          IF i = last THEN scene.current ELSE scene.chat[i]],
         current |-> last,
         quote |-> IF Target = {} THEN 0 ELSE CHOOSE i \in Target : TRUE,
         reply |-> scene.replyTo # None,
         group |-> InGroup]

(* The reasons for which the builder rejects a memory it has found. *)

\* Mutant: the filter trusts the routes with the visibility.
RejectedByScope(r) ==
    \/ r.state # "active"
    \/ r.scope = "user" /\ r.user # None /\ scene.user # None /\ r.user # scene.user
    \/ r.scope = "conversation" /\ r.conv # None /\ r.conv # scene.conv

Rejected(r) ==
    \/ r.state # "active"
    \/ r.scope = "user" /\ r.user # None /\ scene.user # None /\ r.user # scene.user
    \/ r.scope = "conversation" /\ r.conv # None /\ r.conv # scene.conv
    \/ /\ r.scope = "group" /\ r.group # None /\ scene.group # None
       /\ r.group # scene.group /\ r.conv # scene.conv
    \/ r.vis = "owner_admin_only"
    \/ r.vis = "private_only" /\ InGroup
    \/ r.vis = "same_group_only"
         /\ ~(InGroup /\ (r.group = scene.group \/ r.conv = scene.conv))

(* The ranking: what the best of the queries was, then how near the scope is. *)

Affinity(r) ==
    IF r.conv = scene.conv THEN 4
    ELSE IF scene.group # None /\ r.group = scene.group THEN 3
    ELSE IF scene.user # None /\ r.user = scene.user THEN 2
    ELSE IF r.scope = "conversation" THEN 4
    ELSE IF r.scope = "group" THEN 3
    ELSE IF r.scope = "user" THEN 2 ELSE 1

Before(found, m, n) ==
    \/ found[m].match > found[n].match
    \/ found[m].match = found[n].match /\ Affinity(found[m]) > Affinity(found[n])

\* Ties are broken by importance and age, which are left open.
Rankings(found) ==
    LET ms == DOMAIN found \ Range(PriorityProfiles(found))
    IN  {s \in SetToSeqs(ms) :
            \A i, j \in DOMAIN s : Before(found, s[i], s[j]) => i < j}

(* What may be told: the rule every route and filter serves. *)

Tellable(r) ==
    /\ r.state = "active"
    /\ CASE r.scope = "user" -> r.user = scene.user
         [] r.scope = "group" -> InGroup /\ r.group = scene.group
         [] r.scope = "conversation" -> r.conv = scene.conv
         [] r.scope = "global" -> TRUE
    /\ CASE r.vis = "private_only" -> ~InGroup
         [] r.vis = "same_group_only" ->
                InGroup /\ (r.group = scene.group \/ r.conv = scene.conv)
         [] r.vis = "owner_admin_only" -> FALSE
         [] OTHER -> TRUE
    /\ GroupSummary(r) => r.group \in policy

TellableNow == {m \in Stored : Tellable(mem[m])}

\* Every step of a read adds what can be told after it.
Noted == since' = IF read.at = "idle" /\ read'.at # "idle" THEN TellableNow
                  ELSE since \cup TellableNow'

(* The build. *)

NoRead == [at |-> "idle", for |-> None, next |-> 0, found |-> <<>>, matches |-> {},
           blocked |-> {}, ask |-> None, rejected |-> {}, pack |-> None]

ContextInit ==
    /\ \E s \in Scenes :
         /\ scene = [s EXCEPT !.corpus = None]
         /\ mem = s.corpus
         /\ policy \in SUBSET {s.corpus[m].group : m \in
                                 {n \in Memory : GroupSummary(s.corpus[n])}}
         /\ index \in [Memory -> {0, 1}]
    /\ opted = {} /\ unlinked = {}
    /\ worker = [at |-> "idle", batch |-> <<>>]
    /\ read = NoRead
    /\ tool = [at |-> "idle", call |-> None, memory |-> None, vis |-> None]
    /\ since = {}
    /\ writes = 0

RestUnchanged == UNCHANGED <<scene, mem, policy, opted, unlinked, index, worker, tool, writes>>

\* buildContext up to the provider.
StartBuild ==
    /\ read.at = "idle"
    /\ read' = [NoRead EXCEPT !.at = "asking", !.for = "context", !.ask = Load]
    /\ RestUnchanged /\ Noted

\* The provider answers and the index is searched, or it fails or is late.
SemanticAnswers ==
    /\ read.at = "asking"
    /\ \E ms \in {SemanticMatches, {}} : read' = [read EXCEPT !.at = "policy", !.matches = ms]
    /\ RestUnchanged /\ Noted

PolicyBlocked ==
    IF InGroup /\ scene.group \notin policy
    THEN {m \in Stored : /\ mem[m].state = "active"
                         /\ GroupSummary(mem[m])
                         /\ mem[m].group = scene.group
                         /\ Visible(mem[m], Filter(None, None, scene.group, None, TRUE))}
    ELSE {}

ReadPolicy ==
    /\ read.at = "policy"
    /\ read' = [read EXCEPT !.at = "routes", !.next = 1, !.blocked = PolicyBlocked]
    /\ RestUnchanged /\ Noted

\* One route: its ranked rows, and with a context the rows a query matches.
Found(f, ranked) ==
    [m \in ranked \cup (IF f.context THEN {n \in Rows(f) : mem[n].match > 0} ELSE {}) |-> mem[m]]

ReadRoute ==
    /\ read.at = "routes" /\ read.for = "context"
    /\ read.next <= Len(Routes)
    /\ \E ranked \in Limited(Rows(Routes[read.next])) :
         read' = [read EXCEPT !.next = @ + 1,
                              !.found = Overlaid(Found(Routes[read.next], ranked), read.found)]
    /\ RestUnchanged /\ Noted

\* The matches of the index, read again by their identifiers.
ReadMatches ==
    /\ read.at = "routes" /\ read.for = "context"
    /\ read.next > Len(Routes)
    /\ read' = [read EXCEPT !.at = "filter",
                            !.found = Overlaid([m \in read.matches |-> mem[m]], read.found)]
    /\ RestUnchanged /\ Noted

Refused == {m \in DOMAIN read.found \ read.blocked : Rejected(read.found[m])}
Candidates == DOMAIN read.found \cup read.blocked
Selected == DOMAIN read.found \ (read.blocked \cup Refused)

\* Filter, rank, and fit into the budget; a build that cannot fit throws.
FinishBuild ==
    /\ read.at = "filter"
    /\ LET found == [m \in Selected |-> read.found[m]]
           packs == UNION {Packs(read.ask, found, r) : r \in Rankings(found)}
       IN  \/ /\ packs = {}
              /\ read' = [NoRead EXCEPT !.at = "failed", !.for = "context"]
           \/ \E p \in packs :
                read' = [read EXCEPT !.at = "told", !.rejected = read.blocked \cup Refused,
                                     !.pack = p]
    /\ RestUnchanged /\ Noted

(* memory.search: the same store, without the index and the second filter. *)

StartSearch ==
    /\ read.at = "idle"
    /\ read' = [NoRead EXCEPT !.at = "routes", !.for = "search", !.next = 1]
    /\ RestUnchanged /\ Noted

\* With a query it searches for the words, without one it takes the ranked rows.
SearchRoute ==
    /\ read.at = "routes" /\ read.for = "search"
    /\ read.next <= Len(SearchRoutes)
    /\ LET ids == Rows(SearchRoutes[read.next])
       IN  \E s \in Limited(ids) \cup Limited({m \in ids : mem[m].match > 0}) :
             read' = [read EXCEPT !.next = @ + 1,
                                  !.found = Overlaid([m \in s |-> mem[m]], read.found)]
    /\ RestUnchanged /\ Noted

FinishSearch ==
    /\ read.at = "routes" /\ read.for = "search"
    /\ read.next > Len(SearchRoutes)
    /\ read' = [read EXCEPT !.at = "told"]
    /\ RestUnchanged /\ Noted

Told == IF read.for = "search" THEN DOMAIN read.found ELSE read.pack.told

(* The embedding worker. *)

Snapshot ==
    /\ worker.at = "idle" /\ Pending # {}
    /\ worker' = [at |-> "embedding", batch |-> [m \in Pending |-> mem[m].revision]]
    /\ UNCHANGED <<scene, mem, policy, opted, unlinked, index, read, tool, writes>> /\ Noted

\* The row of a snapshot that is still the memory's state.
Written(m) == Eligible(mem[m]) /\ mem[m].revision = worker.batch[m]

\* The vectors are there: all of the batch in one transaction, under the lease.
WriteVectors ==
    /\ worker.at = "embedding"
    /\ index' = [m \in Memory |-> IF m \in DOMAIN worker.batch /\ Written(m)
                                  THEN worker.batch[m] ELSE index[m]]
    /\ worker' = [at |-> "idle", batch |-> <<>>]
    /\ UNCHANGED <<scene, mem, policy, opted, unlinked, read, tool, writes>> /\ Noted

\* The provider fails, or the lease is gone: nothing is written.
WorkerFails ==
    /\ worker.at = "embedding"
    /\ worker' = [at |-> "idle", batch |-> <<>>]
    /\ UNCHANGED <<scene, mem, policy, opted, unlinked, index, read, tool, writes>> /\ Noted

(* memory.propose and memory.disable. *)

ToolRest == UNCHANGED <<scene, policy, opted, unlinked, index, worker, read, writes>>

\* The model calls a tool; the evaluator is asked first and takes its time.
CallTool ==
    /\ tool.at = "idle" /\ read.at = "told"
    /\ \/ \E m \in Stored :
            tool' = [at |-> "review", call |-> "disable", memory |-> m, vis |-> None]
       \/ \E m \in Memory \ Stored, scope \in {"user", "group"}, vis \in Visibilities :
            tool' = [at |-> "review", call |-> scope, memory |-> m, vis |-> vis]
    /\ UNCHANGED mem /\ ToolRest /\ Noted

\* A record in its next revision.
InState(r, state) == [r EXCEPT !.state = state, !.revision = @ + 1]

CanDisable(r) ==
    scene.user # None /\ r.vis # "owner_admin_only" /\ r.scope = "user" /\ r.user = scene.user

\* What is said in a group stays in the group, whatever the model asks for.
SafeVisibility(scope, vis) ==
    IF scope = "group" \/ (InGroup /\ vis # "owner_admin_only") THEN "same_group_only" ELSE vis

\* The memory a tool call asks for.
AskedFor(scope, vis) ==
    LET safe == SafeVisibility(scope, vis)
    IN  [mem[tool.memory] EXCEPT
            !.scope = scope, !.state = "proposed", !.kind = "fact", !.vis = safe,
            !.user = IF scope = "user" THEN scene.user ELSE None,
            !.group = IF scope = "group" \/ safe = "same_group_only" THEN scene.group ELSE None]

\* It is created together with its first revision.
Proposed(scope, vis) == [AskedFor(scope, vis) EXCEPT !.revision = 1]

\* What the evaluator approved the call on: the message of the turn, and whoever the store
\* knows as its sender when it is asked.
ToolEvidence == [user |-> IF scene.user \in unlinked THEN None ELSE scene.user, group |-> scene.group]

\* A memory of a user rests on words of that user, and what was said in a group is
\* remembered for that group or for its administrators only.
SourceFits(r) ==
    /\ r.scope = "user" => r.user = ToolEvidence.user
    /\ IF InGroup
       THEN \/ r.scope = "user" /\ r.vis = "owner_admin_only"
            \/ r.group = ToolEvidence.group
       ELSE r.scope = "user" /\ r.vis # "same_group_only"

\* The handler: it refuses, or prepares an effect.
Prepares ==
    IF tool.call = "disable"
    THEN mem[tool.memory].state = "active" /\ CanDisable(mem[tool.memory])
    ELSE /\ scene.user # None
         /\ tool.call = "user" => scene.user \notin opted
         /\ WellOwned(Proposed(tool.call, tool.vis))

HandleTool ==
    /\ tool.at = "review"
    /\ \/ Prepares /\ tool' = [tool EXCEPT !.at = "prepared"]
       \/ tool' = [tool EXCEPT !.at = "over"] \* refused by the handler or the evaluator
    /\ UNCHANGED mem /\ ToolRest /\ Noted

\* Mutant: what the handler checked is not checked again.
AppliesUnchecked == TRUE
\* The effect finds the state it was prepared for, or it throws.
Applies ==
    CASE tool.call = "disable" -> mem[tool.memory].state = "active"
      [] OTHER -> /\ tool.call = "user" => scene.user \notin opted
                  /\ SourceFits(Proposed(tool.call, tool.vis))

Effect == IF tool.call = "disable" THEN InState(mem[tool.memory], "disabled")
          ELSE Proposed(tool.call, tool.vis)

CommitTool ==
    /\ tool.at = "prepared"
    /\ mem' = IF Applies THEN [mem EXCEPT ![tool.memory] = Effect] ELSE mem
    /\ tool' = [tool EXCEPT !.at = "over"]
    /\ ToolRest /\ Noted

(* The other process. *)

Transitions == {<<"proposed", "active">>, <<"proposed", "rejected">>,
                <<"active", "disabled">>, <<"active", "deleted">>, <<"active", "superseded">>,
                <<"rejected", "active">>, <<"disabled", "active">>, <<"disabled", "deleted">>,
                <<"deleted", "active">>}

WriteRest == UNCHANGED <<scene, index, worker, read, tool>>

GovernMemory ==
    /\ writes < MaxWrites /\ writes' = writes + 1
    /\ \E m \in Stored, t \in Transitions :
         /\ mem[m].state = t[1]
         /\ mem' = [mem EXCEPT ![m] = InState(mem[m], t[2])]
    /\ UNCHANGED <<policy, opted, unlinked>> /\ WriteRest /\ Noted

ChangeConsent ==
    /\ writes < MaxWrites /\ writes' = writes + 1
    /\ \/ /\ \E g \in {mem[m].group : m \in {n \in Stored : GroupSummary(mem[n])}} :
               policy' = IF g \in policy THEN policy \ {g} ELSE policy \cup {g}
          /\ UNCHANGED opted
       \/ /\ scene.user # None
          /\ opted' = IF scene.user \in opted THEN {} ELSE {scene.user}
          /\ UNCHANGED policy
    /\ UNCHANGED <<mem, unlinked>> /\ WriteRest /\ Noted

\* unlinkPlatformAccountAsLocalAdmin
Unlink ==
    /\ writes < MaxWrites /\ writes' = writes + 1
    /\ scene.user \notin unlinked \cup {None}
    /\ unlinked' = unlinked \cup {scene.user}
    /\ UNCHANGED <<mem, policy, opted>> /\ WriteRest /\ Noted

Build == StartBuild \/ SemanticAnswers \/ ReadPolicy \/ ReadRoute \/ ReadMatches \/ FinishBuild
Search == StartSearch \/ SearchRoute \/ FinishSearch
Index == Snapshot \/ WriteVectors \/ WorkerFails
Tools == CallTool \/ HandleTool \/ CommitTool

ContextNext == Build \/ Search \/ Index \/ Tools \/ GovernMemory \/ ChangeConsent \/ Unlink
ContextSpec == ContextInit /\ [][ContextNext]_contextVars
-----------------------------------------------------------------------------
\* The shape of the store, the index and the read.
ContextTypeOK ==
    /\ mem = [m \in Memory |-> mem[m]]
    /\ \A m \in Memory : IsMemory(mem[m])
    /\ index \in [Memory -> Nat]
    /\ \A m \in DOMAIN worker.batch : worker.batch[m] <= mem[m].revision
    /\ read.at \in {"idle", "asking", "policy", "routes", "filter", "told", "failed"}
    /\ DOMAIN read.found \subseteq Stored
    /\ tool.at \in {"idle", "review", "prepared", "over"}

\* Whatever a build puts into a prompt, and whatever memory.search answers,
\* could have been told in this conversation at some moment of that read: no
\* route, match or consent that changed meanwhile lets a memory of another
\* audience through.
OnlyTheTellable == read.at = "told" => Told \subseteq since

\* A build gives every candidate exactly one verdict: told, dropped for the
\* budget, or rejected by a filter.  The trace is complete and says nothing twice.
OneVerdictEach ==
    read.at = "told" /\ read.for = "context" =>
        /\ Candidates = read.rejected \cup read.pack.told \cup read.pack.dropped
        /\ read.rejected \cap (read.pack.told \cup read.pack.dropped) = {}
        /\ read.pack.told \cap read.pack.dropped = {}

\* A prompt stays in its budget, holds the current message and a quote that
\* was resolved, holds no message of another conversation, and leaves no gap
\* between the older messages it holds and the newest.
PromptIsWhole ==
    read.at = "told" /\ read.for = "context" =>
        LET kept == DOMAIN read.pack.kept
            ask == read.ask
        IN  /\ Fits(ask, read.found, read.pack)
            /\ ask.current \in kept
            /\ ask.quote # 0 => ask.quote \in kept
            /\ \A i \in kept : ask.messages[i].conv = scene.conv
            /\ \A i \in kept \ {ask.quote} : \A j \in DOMAIN ask.messages : j > i => j \in kept

\* A memory is left out for the budget only if it does not fit.
DroppedDoNotFit ==
    read.at = "told" /\ read.for = "context" =>
        \A m \in read.pack.dropped :
            ~Fits(read.ask, read.found, [read.pack EXCEPT !.told = @ \cup {m}])

\* An embedding is only ever written of the memory as it is, and of one that
\* may be embedded: a batch whose memory or consent changed while the
\* provider worked leaves no row.
EmbeddingsAreOfTheLiving ==
    [][\A m \in Memory : index'[m] # index[m] =>
          index'[m] = mem[m].revision /\ Eligible(mem[m])]_contextVars

\* However long the review of a tool call takes, the call neither touches a
\* memory that is no longer active nor remembers a user who has opted out or
\* whose account was unlinked meanwhile; and what it remembers of a group's
\* talk stays in that group or with its administrators.
ToolsRespectTheMoment ==
    [][tool'.at # tool.at /\ mem' # mem =>
          \/ mem[tool.memory].state = "active" /\ mem'[tool.memory].state = "disabled"
          \/ /\ mem[tool.memory].state = "absent"
             /\ mem'[tool.memory].user \notin opted \cup unlinked
             /\ InGroup => \/ mem'[tool.memory].vis = "owner_admin_only"
                           \/ mem'[tool.memory].group = scene.group]_contextVars

\* Everything a read considered is accounted for, and what it tells may be told.
TellableAndTraced == ContextTypeOK /\ OnlyTheTellable /\ OneVerdictEach

\* The budget is kept, and used.
PromptFits == PromptIsWhole /\ DroppedDoNotFit

\* What is written after a wait agrees with the store as it is then.
WritesAreCurrent == EmbeddingsAreOfTheLiving /\ ToolsRespectTheMoment
=============================================================================
