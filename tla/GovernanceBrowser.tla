-------------------------- MODULE GovernanceBrowser --------------------------
(***************************************************************************)
(* The governance page in the administrator's browser: the session shell   *)
(* of app.js, the Memory view with its Records and Review panes and their  *)
(* seven preview-and-confirm workflows (memory.js and the workflow modules *)
(* beside it), and the Privacy view (privacy.js), which the other scoped   *)
(* preference views repeat.                                                *)
(*                                                                         *)
(* Every request is asynchronous.  A handler numbers its request           *)
(* ("++requestSequence") and drops the answer when the number has moved;   *)
(* the model keeps the requests in flight and marks one not "live" when    *)
(* its number is passed.  The functions of the page are operators from a   *)
(* state of the page to the next one, so that a handler reads like its     *)
(* source; the server is as GovernanceConsole promises it: a preview       *)
(* carries the revision it was made for, a confirmation of another         *)
(* revision changes nothing.                                               *)
(***************************************************************************)
EXTENDS Integers, FiniteSets

CONSTANTS Scopes,     \* exact scopes
          Records,    \* memory records
          Reviews,    \* memory maintenance proposals
          Home,       \* the scope of a record or proposal
          MaxCalls,   \* bound: requests in flight when the user acts
          Situations, \* the places a user visits (panes of the Memory view, "privacy") and
                      \* the states the items are in
          MaxWrites,  \* bound: changes of records, proposals and preferences
          None

Items == Records \cup Reviews

ASSUME GovernanceBrowserAssumption ==
    /\ Home \in [Items -> Scopes]
    /\ None \notin Items \cup Scopes
    /\ MaxCalls \in Nat /\ MaxWrites \in Nat

VARIABLES ui,       \* the page
          db,       \* what the server holds: state and revision of an item, revision of a preference
          session,  \* the server still honours the browser's session
          done,     \* confirmations the server carried out
          tour      \* the places this user visits

browserVars == <<ui, db, session, done, tour>>

Panes == {"records", "reviews"}
OfPane(pane) == IF pane = "records" THEN {"forget", "restore"}
                ELSE {"approve", "reject", "apply", "rollback", "expire"}
MemoryWorkflows == OfPane("records") \cup OfPane("reviews")
Workflows == MemoryWorkflows \cup {"change"}
PaneItems(pane) == IF pane = "records" THEN Records ELSE Reviews

\* The states a workflow starts from and the state it leads to.
From(w) ==
    CASE w = "forget"   -> {"active", "disabled"}
      [] w = "restore"  -> {"disabled", "deleted"}
      [] w = "apply"    -> {"approved"}
      [] w = "rollback" -> {"applied"}
      [] w = "change"   -> {"set"}
      [] OTHER          -> {"pending"}
To(w) ==
    CASE w = "forget"   -> "deleted"
      [] w = "restore"  -> "active"
      [] w = "approve"  -> "approved"
      [] w = "reject"   -> "rejected"
      [] w = "apply"    -> "applied"
      [] w = "rollback" -> "rolled_back"
      [] w = "change"   -> "set"
      [] w = "expire"   -> "expired"


ItemStates == UNION {From(w) \cup {To(w)} : w \in Workflows}

\* The items a user meets are in states of a workflow.
ASSUME SituationsAssumption ==
    \A x \in Situations : x.st \in [Items -> ItemStates]

-----------------------------------------------------------------------------
(* Requests.                                                               *)

\* requestSequence += 1 for every channel of C: their requests in flight are passed.
BumpSequence(u, C) ==
    [u EXCEPT !.calls = {IF <<c.chan, c.of>> \in C THEN [c EXCEPT !.live = FALSE] ELSE c : c \in @}]

\* fetch: the request leaves; what it asks for is in "on" and "rev".
Send(u, chan, of, on, rev) ==
    LET v == BumpSequence(u, {<<chan, of>>})
    IN  [v EXCEPT !.calls = @ \cup {[chan |-> chan, of |-> of, on |-> on, rev |-> rev,
                                     live |-> TRUE, status |-> "sent", data |-> {}]}]

Received(u, c) == [u EXCEPT !.calls = @ \ {c}]
Live(u, chan, of) == \E c \in u.calls : c.live /\ c.chan = chan /\ c.of = of
PaneChannels(pane) == {<<"catalog", pane>>, <<"list", pane>>}

-----------------------------------------------------------------------------
(* The workflows of a detail.                                              *)

IdleFlow == [loading |-> FALSE, auth |-> None, busy |-> FALSE, result |-> None]

\* clear(preserveResult): preview, authority and confirmation are given up.
ClearWorkflows(u, W, keep) ==
    [BumpSequence(u, {"preview", "confirm"} \X W) EXCEPT
        !.wf = [w \in Workflows |-> IF w \in W
                                    THEN [IdleFlow EXCEPT !.result = IF keep THEN u.wf[w].result ELSE None]
                                    ELSE u.wf[w]]]

\* busy(): a preview is loading or a confirmation is on its way.
Busy(u, w) == u.wf[w].loading \/ u.wf[w].busy

\* updateRecordMutationControls and updateApprovalControls: one command of a pane at a time.
MayCommand(u, w) == \A x \in OfPane(u.pane) : ~Busy(u, x)

\* A preview is offered for a detail whose state the workflow starts from.
MayPreview(u, w) == u.detail # None /\ u.detail.st \in From(w) /\ MayCommand(u, w)

\* Mutant: no workflow competes with another.
CompetesNot(w) == {}

\* What starting a preview of w gives up: the competing previews and their authority.
Competes(w) ==
    CASE w = "forget"   -> {"restore"}
      [] w = "restore"  -> {"forget"}
      [] w = "approve"  -> {"expire", "reject"}
      [] w = "reject"   -> {"expire", "approve"}
      [] w = "rollback" -> {"apply", "expire", "approve", "reject"}
      [] w = "expire"   -> {"apply", "rollback", "approve", "reject"}
      [] OTHER          -> {}

-----------------------------------------------------------------------------
(* Detail, list and catalog of the Memory view.                            *)

\* clearRecordDetailContent, clearReviewDetailContent
ClearDetail(u, keep) ==
    [ClearWorkflows(u, OfPane(u.pane), keep) EXCEPT !.detail = None, !.detailLoading = FALSE]

\* clearRecordDetail, clearReviewDetail: the rows go with the detail.
ClearRows(u, keepRef, keep) ==
    LET v == ClearDetail(BumpSequence(u, {<<"detail", pane>> : pane \in Panes}), keep)
    IN  [v EXCEPT !.list = {}, !.sel = IF keepRef THEN @ ELSE None]

\* confirmationResultVisible: only Review keeps a result over a refresh.
ResultVisible(u) == u.pane = "reviews" /\ \E w \in OfPane("reviews") : u.wf[w].result # None

Row(u) == {e \in u.list : e.ref = u.sel}

\* setRecordDetailLoading, setReviewDetailLoading and the request.
LoadDetail(u) ==
    LET v == [ClearDetail(u, FALSE) EXCEPT !.detailLoading = TRUE]
    IN  Send(v, "detail", u.pane, u.sel, 0)

\* selectRecord, selectReview: a row is clicked.
SelectRow(u, i) ==
    LET v == IF i # u.sel THEN ClearDetail(u, FALSE) ELSE u
    IN  LoadDetail([v EXCEPT !.sel = i])

\* loadMemoryRecords, loadMemoryReviews
LoadList(u) ==
    LET v == [ClearRows(u, TRUE, ResultVisible(u)) EXCEPT !.load = "list"]
    IN  Send(v, "list", u.pane, u.scope[u.pane], 0)

\* loadMemoryCatalog, loadMemoryReviewCatalog; "keep": the result of a decision stays.
LoadCatalog(u, keep) ==
    LET v == [ClearRows(BumpSequence(u, {<<"list", u.pane>>}), TRUE, keep) EXCEPT !.load = "scopes"]
    IN  Send(v, "catalog", u.pane, None, 0)

\* The scope select changes.
ChooseScope(u, s) ==
    LET v == BumpSequence(u, {<<"list", u.pane>>})
        x == [IF s # u.scope[u.pane] THEN ClearRows(v, FALSE, FALSE) ELSE v
                 EXCEPT !.scope[u.pane] = s]
    IN  IF s # None THEN LoadList(x)
        ELSE [IF u.pane = "records" THEN ClearRows(x, FALSE, FALSE) ELSE x EXCEPT !.load = "none"]

\* selectMemorySubview: the other pane's requests are passed, rows and detail cleared,
\* except those of Review when it is selected once more.
SelectPane(u, pane) ==
    LET v == BumpSequence(u, UNION {PaneChannels(x) : x \in Panes \ {pane}})
        x == IF u.pane = "reviews" /\ pane = "reviews" THEN v ELSE ClearRows(v, FALSE, FALSE)
    IN  [x EXCEPT !.pane = pane, !.load = "none"]

\* cancelMemoryRequests
CancelMemory(u) == ClearRows(BumpSequence(u, UNION {PaneChannels(x) : x \in Panes}), FALSE, FALSE)

\* memoryFeature.reset
ResetMemory(u) ==
    [SelectPane(u, "records") EXCEPT !.catalog = [x \in Panes |-> {}], !.scope = [x \in Panes |-> None]]

-----------------------------------------------------------------------------
(* The Privacy view: prefs.off is the preview button's "disabled".         *)

\* clearAuthority
ClearChange(u) == ClearWorkflows(u, {"change"}, TRUE)

\* update
Update(u) == [u EXCEPT !.prefs.off = u.prefs.scope = None \/ u.wf["change"].auth # None]

\* clearChoice: type, target or scope was changed.
ClearChoice(u) == Update(ClearWorkflows(u, {"change"}, FALSE))

\* loadPreferences.  Without a scope it returns before it takes a number.
LoadPreferences(u) ==
    LET v == [ClearChange(u) EXCEPT !.prefs.shown = None]
    IN  IF u.prefs.scope = None THEN Update(v)
        ELSE [Send(v, "list", "privacy", u.prefs.scope, 0) EXCEPT !.prefs.load = "list"]

\* loadCatalog
LoadPrivacy(u) ==
    LET v == ClearWorkflows(BumpSequence(u, {<<"list", "privacy">>}), {"change"}, FALSE)
    IN  [Send(v, "catalog", "privacy", None, 0) EXCEPT !.prefs.shown = None, !.prefs.load = "scopes"]

\* privacyFeature.reset
ResetPrivacy(u) ==
    LET v == ClearWorkflows(BumpSequence(u, {<<"catalog", "privacy">>, <<"list", "privacy">>}), {"change"}, FALSE)
    IN  [v EXCEPT !.prefs = [catalog |-> {}, scope |-> None, shown |-> None, load |-> "none", off |-> TRUE]]

-----------------------------------------------------------------------------
(* The shell.                                                              *)

\* selectView: what the other views have under way is cancelled.
SelectView(u, page) ==
    LET a == IF page # "overview" THEN BumpSequence(u, {<<"overview", None>>}) ELSE u
        m == IF page # "memory" THEN CancelMemory(a) ELSE a
        x == IF page # "privacy" THEN ResetPrivacy(m) ELSE m
    IN  [x EXCEPT !.page = page]

\* showLogin: everything is cancelled and cleared.
ShowLogin(u) ==
    LET v == ResetPrivacy(ResetMemory(CancelMemory(BumpSequence(u, {<<"overview", None>>}))))
    IN  [v EXCEPT !.page = "login", !.csrf = FALSE, !.loginBusy = FALSE]

\* loadOverview
LoadOverview(u) == Send([u EXCEPT !.overview = "loading"], "overview", None, None, 0)

-----------------------------------------------------------------------------
(* The user.                                                               *)

WritesSoFar == Cardinality({x \in (Items \cup Scopes) \X (1 .. MaxWrites) : x[2] < db[x[1]].rev})
Quiet == Cardinality(ui.calls) < MaxCalls
PageActs(u) == /\ Quiet /\ ui' = u /\ UNCHANGED <<db, session, done, tour>>

\* handleLogin, its first request
SignIn ==
    /\ ui.page = "login" /\ ~ui.loginBusy
    /\ PageActs([Send(ui, "login", None, None, 0) EXCEPT !.loginBusy = TRUE])

\* handleLogout
SignOut ==
    /\ ui.page # "login" /\ ~ui.logoutBusy
    /\ PageActs(IF ui.csrf THEN [Send(ui, "logout", None, None, 0) EXCEPT !.logoutBusy = TRUE]
            ELSE ShowLogin(ui))

\* The navigation buttons.  Overview alone is shown without being loaded.
Navigate(page) ==
    /\ ui.page # "login"
    /\ page = "privacy" => page \in tour
    /\ page = "memory" => tour \cap Panes # {}
    /\ PageActs(CASE page = "overview" -> SelectView(ui, page)
              [] page = "memory"   -> LoadCatalog(SelectPane(SelectView(ui, page), "records"), FALSE)
              [] page = "privacy"  -> LoadPrivacy(SelectView(ui, page)))

RefreshOverview == /\ ui.page = "overview" /\ ui.overview = "settled"
                   /\ PageActs(LoadOverview(ui))

PickPane(pane) == /\ ui.page = "memory" /\ pane \in tour
                  /\ PageActs(LoadCatalog(SelectPane(ui, pane), FALSE))

Refresh == /\ ui.page = "memory" /\ ui.load = "none"
           /\ PageActs(LoadCatalog(ui, FALSE))

PickScope(s) ==
    /\ ui.page = "memory" /\ ui.load # "scopes" /\ ui.pane \in tour
    /\ s \in ui.catalog[ui.pane] \cup {None} /\ s # ui.scope[ui.pane]
    /\ PageActs(ChooseScope(ui, s))

PickRow(i) == /\ ui.page = "memory" /\ \E e \in ui.list : e.ref = i
              /\ PageActs(SelectRow(ui, i))

\* preview() of a workflow, loadMemoryApprovalPreview, loadMemoryRejectionPreview
StartPreview(w) ==
    /\ ui.page = "memory" /\ w \in OfPane(ui.pane)
    /\ MayPreview(ui, w)
    /\ LET v == ClearWorkflows(ui, Competes(w) \cup {w}, FALSE)
       IN  PageActs(Send([v EXCEPT !.wf[w].loading = TRUE], "preview", w, ui.sel, ui.detail.rev))

\* The authority is for the row, the detail and the revision on the page.
Current(u, a) == /\ u.sel = a.on /\ Row(u) # {}
                 /\ u.detail # None /\ u.detail.ref = a.on /\ u.detail.rev = a.rev

\* confirm(): the authority is spent before the request leaves.
ConfirmCommand(w) ==
    /\ ui.page = "memory" /\ ui.wf[w].auth # None /\ MayCommand(ui, w) /\ WritesSoFar < MaxWrites
    /\ LET a == ui.wf[w].auth
           v == ClearWorkflows(ui, {w}, FALSE)
       IN  PageActs(IF a.due \/ ~Current(ui, a) THEN v
                ELSE Send([v EXCEPT !.wf[w].busy = TRUE],
                          "confirm", w, a.on, a.rev))

PickPreferences(s) ==
    /\ ui.page = "privacy" /\ ui.prefs.load # "scopes"
    /\ s \in ui.prefs.catalog \cup {None} /\ s # ui.prefs.scope
    /\ PageActs(LoadPreferences(ClearChoice([ui EXCEPT !.prefs.scope = s])))

ChangeChoice == ui.page = "privacy" /\ PageActs(ClearChoice(ui))

\* loadPreview
StartChange ==
    /\ ui.page = "privacy" /\ ui.prefs.scope # None /\ ~ui.prefs.off
    /\ LET v == ClearWorkflows(ui, {"change"}, FALSE)
       IN  PageActs([Send(v, "preview", "change", ui.prefs.scope, 0)
                    EXCEPT !.wf["change"].loading = TRUE, !.prefs.off = TRUE])

\* confirm
ConfirmChange ==
    /\ ui.page = "privacy" /\ ui.wf["change"].auth # None /\ WritesSoFar < MaxWrites
    /\ LET a == ui.wf["change"].auth
           v == ClearWorkflows(ui, {"change"}, FALSE)
       IN  PageActs(IF a.due \/ ui.prefs.scope # a.on THEN v
                ELSE Send([v EXCEPT !.wf["change"].busy = TRUE], "confirm", "change", a.on, a.rev))

-----------------------------------------------------------------------------
(* Time.                                                                   *)

\* A preview's expiry is reached ...
ExpiryPasses(w) ==
    /\ ui.wf[w].auth # None /\ ~ui.wf[w].auth.due
    /\ ui' = [ui EXCEPT !.wf[w].auth.due = TRUE]
    /\ UNCHANGED <<db, session, done, tour>>

\* ... and its timer runs.
ExpiryTimer(w) ==
    /\ ui.wf[w].auth # None /\ ui.wf[w].auth.due
    /\ LET v == [ui EXCEPT !.wf[w] = IdleFlow]
       IN  ui' = IF w = "change" THEN Update(v) ELSE v
    /\ UNCHANGED <<db, session, done, tour>>

-----------------------------------------------------------------------------
(* Answers.  Each handler drops the answer of a passed request, returns to *)
(* the login on an expired session, shows an error, or uses the data.      *)

Good(c) == c.status = "ok"
The(c) == CHOOSE e \in c.data : TRUE

\* handleLogin after its first request, and after the second
LoginAnswered(u, c) ==
    IF Good(c) THEN Send([u EXCEPT !.csrf = TRUE], "session", None, None, 0) ELSE ShowLogin(u)
SessionAnswered(u, c) ==
    IF Good(c) THEN LoadOverview(SelectView(u, "overview")) ELSE ShowLogin(u)

\* handleLogout: whatever the answer is.
LogoutAnswered(u, c) == ShowLogin([u EXCEPT !.logoutBusy = FALSE])

OverviewAnswered(u, c) == [u EXCEPT !.overview = "settled"]

\* showCatalogError, showRecordsError and their Review counterparts
ListError(u) == [ClearRows(u, FALSE, ResultVisible(u)) EXCEPT !.load = "none"]

\* renderCatalog, renderReviewCatalog: the scope chosen before is kept if it is still listed.
CatalogAnswered(u, c) ==
    LET s == IF u.scope[u.pane] \in c.data THEN u.scope[u.pane] ELSE None
        v == [u EXCEPT !.catalog[u.pane] = c.data, !.scope[u.pane] = s]
    IN  IF ~Good(c) THEN ListError(u)
        ELSE IF s = None THEN ListError(v)
        ELSE LoadList(v)

\* renderRecords, renderReviews: the row chosen before is kept if it is still listed.
ListAnswered(u, c) ==
    LET v == [u EXCEPT !.list = c.data, !.load = "none"]
    IN  IF ~Good(c) THEN ListError(u)
        ELSE IF c.data = {} THEN ClearRows(v, FALSE, ResultVisible(v))
        ELSE IF Row(v) # {} THEN LoadDetail(v)
        ELSE [ClearDetail(v, ResultVisible(v)) EXCEPT !.sel = None]

\* renderRecordDetail, renderReviewDetail: the detail must agree with its row.
DetailAnswered(u, c) ==
    [u EXCEPT !.detailLoading = FALSE,
              !.detail = IF Good(c) /\ Row(u) = c.data THEN The(c) ELSE None]

\* The preview must agree with the selection and the detail it was asked for.
Accepted(u, w, c) == Good(c) /\ Current(u, c) /\ c.data = {u.detail} /\ u.detail.st \in From(w)

PreviewAnswered(u, c) ==
    [u EXCEPT !.wf[c.of] =
        IF Accepted(u, c.of, c)
        THEN [IdleFlow EXCEPT !.auth = [on |-> c.on, rev |-> The(c).rev, due |-> FALSE]]
        ELSE IdleFlow]

\* normalizeResult: the result must be the one that was confirmed.
Succeeded(c) == Good(c) /\ c.data = {[ref |-> c.on, st |-> To(c.of), rev |-> c.rev + 1]}
\* Mutant: the result is made up without the answer.
OutcomeAssumed(c) == [IdleFlow EXCEPT !.result = [ref |-> c.on, st |-> To(c.of), rev |-> c.rev + 1]]

Outcome(c) == [IdleFlow EXCEPT !.result = IF Succeeded(c) THEN The(c) ELSE None]

\* onSuccess: rows and detail go, the result stays and the pane is refreshed.  Only an approval
\* or a rejection has asked that the refresh keep the result.
ConfirmAnswered(u, c) ==
    LET v == [u EXCEPT !.wf[c.of] = Outcome(c)]
    IN  IF ~Succeeded(c) THEN v
        ELSE LoadCatalog(ClearRows(v, FALSE, TRUE), c.of \in {"approve", "reject"})

PrefCatalogAnswered(u, c) ==
    LET v == [u EXCEPT !.prefs.load = "none"]
    IN  IF Good(c) THEN Update([v EXCEPT !.prefs.catalog = c.data, !.prefs.scope = None]) ELSE v
PreferencesAnswered(u, c) ==
    LET v == [u EXCEPT !.prefs.load = "none"]
    IN  IF Good(c) THEN Update([v EXCEPT !.prefs.shown = The(c)]) ELSE v
ChangePreviewed(u, c) ==
    IF Good(c) THEN [u EXCEPT !.wf["change"] = [IdleFlow EXCEPT
                         !.auth = [on |-> c.on, rev |-> The(c).rev, due |-> FALSE]]]
    ELSE [u EXCEPT !.wf["change"] = IdleFlow, !.prefs.off = FALSE]
ChangeConfirmed(u, c) ==
    LET v == [u EXCEPT !.wf["change"] = Outcome(c)]
    IN  IF ~Succeeded(c) THEN Update(v) ELSE LoadPreferences(v)

\* Mutant: requests are not numbered.
PassedNever(c) == FALSE

\* requestSequence !== current: the answer is dropped before anything is read from it.
Passed(c) == ~c.live

Handled(u, c) ==
    IF Passed(c) THEN u
    ELSE IF c.chan \notin {"login", "session", "logout"} /\ c.status = "expired" THEN ShowLogin(u)
    ELSE
    CASE c.chan = "login"   -> LoginAnswered(u, c)
      [] c.chan = "session" -> SessionAnswered(u, c)
      [] c.chan = "logout"  -> LogoutAnswered(u, c)
      [] c.chan = "overview" -> OverviewAnswered(u, c)
      [] c.chan = "catalog" /\ c.of \in Panes -> CatalogAnswered(u, c)
      [] c.chan = "list" /\ c.of \in Panes    -> ListAnswered(u, c)
      [] c.chan = "catalog" /\ c.of = "privacy" -> PrefCatalogAnswered(u, c)
      [] c.chan = "list" /\ c.of = "privacy"    -> PreferencesAnswered(u, c)
      [] c.chan = "detail" -> DetailAnswered(u, c)
      [] c.chan = "preview" /\ c.of # "change" -> PreviewAnswered(u, c)
      [] c.chan = "confirm" /\ c.of # "change" -> ConfirmAnswered(u, c)
      [] c.chan = "preview" /\ c.of = "change" -> ChangePreviewed(u, c)
      [] c.chan = "confirm" /\ c.of = "change" -> ChangeConfirmed(u, c)

\* An answer arrives: the server's, a refusal (401 when the session is over), or the word that
\* the request or its answer was lost.
Arrives(status) == \E c \in ui.calls :
    /\ status = "ok" => c.status = "ok"
    /\ status = "expired" => ~session
    /\ ui' = Handled(Received(ui, c), [c EXCEPT !.status = status])
    /\ UNCHANGED <<db, session, done, tour>>

-----------------------------------------------------------------------------
(* The server, as the page relies on it.                                   *)

ShownItem(i) == [ref |-> i, st |-> db[i].st, rev |-> db[i].rev]

\* What a request is answered, when nothing goes wrong.
Reply(c) ==
    CASE c.chan \in {"session", "overview"} -> {}
      [] c.chan = "catalog" -> IF c.of = "privacy" THEN Scopes ELSE {Home[i] : i \in PaneItems(c.of)}
      [] c.chan = "list"    -> IF c.of = "privacy" THEN {ShownItem(c.on)}
                               ELSE {ShownItem(i) : i \in {x \in PaneItems(c.of) : Home[x] = c.on}}
      [] c.chan \in {"detail", "preview"} -> {ShownItem(c.on)}
      [] c.chan = "confirm" -> {[ref |-> c.on, st |-> To(c.of), rev |-> c.rev + 1]}
Refused(c) == \/ c.chan = "preview" /\ db[c.on].st \notin From(c.of)
              \/ c.chan = "confirm" /\ db[c.on].rev # c.rev

Answering(c, data) ==
    ui' = [ui EXCEPT !.calls = (@ \ {c}) \cup {[c EXCEPT !.status = "ok", !.data = data]}]

ServeLogin(c) == /\ c.chan = "login" /\ c.status = "sent"
                 /\ session' = TRUE /\ Answering(c, {}) /\ UNCHANGED <<db, done, tour>>
ServeLogout(c) == /\ c.chan = "logout" /\ c.status = "sent"
                  /\ session' = FALSE /\ Answering(c, {}) /\ UNCHANGED <<db, done, tour>>
Serve(c) ==
    /\ c.status = "sent" /\ c.chan \notin {"login", "logout"}
    /\ session /\ ~Refused(c)
    /\ Answering(c, Reply(c))
    /\ IF c.chan = "confirm"
       THEN /\ db' = [db EXCEPT ![c.on] = [st |-> To(c.of), rev |-> c.rev + 1]]
            /\ done' = done \cup {[by |-> c.of, ref |-> c.on, rev |-> c.rev + 1]}
       ELSE UNCHANGED <<db, done>>
    /\ UNCHANGED <<session, tour>>
\* The session ends by its age, a restart or another browser's logout.
SessionEnds == session /\ session' = FALSE /\ UNCHANGED <<ui, db, done, tour>>

\* Somebody else changes an item or a preference.
OtherWrite(i) ==
    /\ \E place \in tour : i \in IF place = "privacy" THEN Scopes ELSE PaneItems(place)
    /\ WritesSoFar < MaxWrites
    /\ \E w \in Workflows : /\ db[i].st \in From(w)
                            /\ db' = [db EXCEPT ![i] = [st |-> To(w), rev |-> @.rev + 1]]
    /\ UNCHANGED <<ui, session, done, tour>>

-----------------------------------------------------------------------------

BrowserInit ==
    /\ ui = [page |-> "login", csrf |-> FALSE, loginBusy |-> FALSE, logoutBusy |-> FALSE,
             overview |-> "settled", calls |-> {}, pane |-> "records", load |-> "none",
             catalog |-> [x \in Panes |-> {}], scope |-> [x \in Panes |-> None],
             list |-> {}, sel |-> None, detail |-> None, detailLoading |-> FALSE,
             wf |-> [w \in Workflows |-> IdleFlow],
             prefs |-> [catalog |-> {}, scope |-> None, shown |-> None, load |-> "none", off |-> TRUE]]
    /\ session = FALSE /\ done = {}
    /\ \E x \in Situations :
          /\ tour = x.places
          /\ db = [i \in Items \cup Scopes |-> [st |-> IF i \in Items THEN x.st[i] ELSE "set", rev |-> 1]]

BrowserNext ==
    \/ SignIn \/ SignOut \/ RefreshOverview \/ Refresh \/ ChangeChoice \/ StartChange \/ ConfirmChange
    \/ \E page \in {"overview", "memory", "privacy"} : Navigate(page)
    \/ \E pane \in Panes : PickPane(pane)
    \/ \E s \in Scopes \cup {None} : PickScope(s) \/ PickPreferences(s)
    \/ \E i \in Items : PickRow(i)
    \/ \E w \in MemoryWorkflows : StartPreview(w) \/ ConfirmCommand(w)
    \/ \E w \in Workflows : ExpiryPasses(w) \/ ExpiryTimer(w)
    \/ \E status \in {"ok", "failed", "expired"} : Arrives(status)
    \/ \E c \in ui.calls : ServeLogin(c) \/ ServeLogout(c) \/ Serve(c)
    \/ SessionEnds
    \/ \E i \in Items \cup Scopes : OtherWrite(i)

BrowserSpec == BrowserInit /\ [][BrowserNext]_browserVars

-----------------------------------------------------------------------------
(* Properties.                                                             *)

Shows == [ref : Items \cup Scopes, st : ItemStates, rev : Nat]
OnPage == Items \cup Scopes \cup {None}
BrowserTypeOK ==
    /\ ui.page \in {"login", "overview", "memory", "privacy"} /\ ui.overview \in {"loading", "settled"}
    /\ ui.csrf \in BOOLEAN /\ ui.loginBusy \in BOOLEAN /\ ui.logoutBusy \in BOOLEAN
    /\ ui.pane \in Panes /\ ui.load \in {"none", "scopes", "list"} /\ ui.detailLoading \in BOOLEAN
    /\ ui.catalog \in [Panes -> SUBSET Scopes] /\ ui.scope \in [Panes -> Scopes \cup {None}]
    /\ \A x \in Panes : ui.scope[x] \in ui.catalog[x] \cup {None}
    /\ ui.list \subseteq Shows /\ ui.sel \in Items \cup {None} /\ ui.detail \in Shows \cup {None}
    /\ \A w \in Workflows :
          /\ ui.wf[w].loading \in BOOLEAN /\ ui.wf[w].busy \in BOOLEAN
          /\ ui.wf[w].auth \in [on : OnPage, rev : Nat, due : BOOLEAN] \cup {None}
          /\ ui.wf[w].result \in Shows \cup {None}
    /\ \A c \in ui.calls : /\ c.on \in OnPage /\ c.rev \in Nat /\ c.live \in BOOLEAN
                           /\ c.status \in {"sent", "ok"}
    /\ ui.prefs.catalog \subseteq Scopes /\ ui.prefs.scope \in ui.prefs.catalog \cup {None}
    /\ ui.prefs.shown \in Shows \cup {None} /\ ui.prefs.off \in BOOLEAN
    /\ db \in [Items \cup Scopes -> [st : ItemStates, rev : Nat]]
    /\ session \in BOOLEAN
    /\ done \subseteq [by : Workflows, ref : Items \cup Scopes, rev : Nat]

\* Whatever order answers come in, the rows on the page are the chosen scope's, and the detail
\* is the clicked row's, in the revision the row shows: no answer to an earlier choice, pane,
\* view or session is rendered (the request numbers of app.js and memory.js).
RowsAreTheScopes ==
    /\ \A e \in ui.list : e.ref \in PaneItems(ui.pane) /\ Home[e.ref] = ui.scope[ui.pane]
    /\ ui.detail # None => Row(ui) = {ui.detail}

\* An authority to confirm is always for what the page shows: the clicked row, its detail and
\* its revision; a preference change, for the chosen scope.  (A catalog reloaded while a preview
\* of a change is out leaves its authority with no scope chosen, and confirm() gives it up.)
AuthorityIsOnScreen ==
    \A w \in Workflows : ui.wf[w].auth # None =>
        IF w = "change" THEN ui.page = "privacy" /\ ui.prefs.scope \in {ui.wf[w].auth.on, None}
        ELSE ui.page = "memory" /\ w \in OfPane(ui.pane) /\ Current(ui, ui.wf[w].auth)

\* Of the commands of a detail at most one is under way or waits to be confirmed: approval,
\* rejection and expiration of a proposal, forgetting and restoring of a record exclude each
\* other from the moment a preview is asked for.
OneDecision ==
    \A w, x \in MemoryWorkflows :
        /\ Busy(ui, w) \/ ui.wf[w].auth # None
        /\ Busy(ui, x) \/ ui.wf[x].auth # None
        => w = x

\* On the login page nothing of the last session is left: no rows, detail, preferences or
\* authority, and no request whose answer would still be used.
LoginIsClean ==
    ui.page = "login" =>
        /\ ui.list = {} /\ ui.detail = None /\ ui.prefs.shown = None
        /\ \A w \in Workflows : ui.wf[w] = IdleFlow
        /\ \A c \in ui.calls : c.live => c.chan \in {"login", "session", "logout"}

\* A success on the page is a change the server made for that very confirmation.
SuccessIsTrue ==
    \A w \in Workflows : ui.wf[w].result # None =>
        [by |-> w, ref |-> ui.wf[w].result.ref, rev |-> ui.wf[w].result.rev] \in done

\* What the page waits for is on its way: a loading Memory or Privacy view, a loading detail or
\* preview and a confirmation under way each have a request in flight whose answer is used.
NothingWaitsInVain ==
    /\ ui.page = "memory" =>
          /\ ui.load = "scopes" => Live(ui, "catalog", ui.pane)
          /\ ui.load = "list" => Live(ui, "list", ui.pane)
          /\ ui.detailLoading => Live(ui, "detail", ui.pane)
    /\ ui.page = "privacy" =>
          /\ ui.prefs.load = "scopes" => Live(ui, "catalog", "privacy")
          /\ ui.prefs.load = "list" => Live(ui, "list", "privacy")
    /\ \A w \in Workflows : /\ ui.wf[w].loading => Live(ui, "preview", w)
                            /\ ui.wf[w].busy => Live(ui, "confirm", w)

\* What the page shows is of the session, the view and the scope it stands for.
ScreenIsTheScopes == BrowserTypeOK /\ RowsAreTheScopes /\ LoginIsClean

\* What can be confirmed is one command, for what the page shows.
OneCommandOnScreen == AuthorityIsOnScreen /\ OneDecision

\* The page neither reports what was not done nor waits for what cannot come.
OutcomesAreTrue == SuccessIsTrue /\ NothingWaitsInVain
=============================================================================
