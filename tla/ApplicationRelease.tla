------------------------- MODULE ApplicationRelease -------------------------
(***************************************************************************)
(* Activation, confirmation and recovery of a managed release              *)
(* (src/src/operations/application-release.ts) and the gate every start of *)
(* the application passes (src/src/operations/managed-startup.ts).         *)
(*                                                                         *)
(* An operation is a program of steps, one per durable effect: a file      *)
(* created, renamed or removed, a call of the supervisor, a probe.  The    *)
(* activation lock lets one operation run at a time.  The operator's       *)
(* process, the application and the host may die between any two steps;    *)
(* every rename and removal is synced before the next.                     *)
(***************************************************************************)
EXTENDS Naturals, Sequences, FiniteSets

CONSTANTS
  Release,     \* prepared, immutable release directories
  NoRelease,   \* an absent pointer, and no application running
  Schema,      \* Schema[r]: the schema version release r migrates to
  MaxOps,      \* bound: activations begun
  MaxFaults    \* bound: crashes, failed effects and failed probes

ASSUME ApplicationReleaseAssumption ==
  /\ NoRelease \notin Release
  /\ Schema \in [Release -> Nat \ {0}]
  /\ MaxOps \in Nat /\ MaxFaults \in Nat

Pointer == Release \cup {NoRelease}
Phase == {"intent_recorded", "snapshot_ready", "awaiting_confirmation",
          "confirming", "rollback_completed"}

\* A row written to the database: under which operation and by which release.
Mark == (0..MaxOps) \X Release

Absent == [schema |-> 0, marks |-> {}, there |-> FALSE]

\* No database at all: a copy torn by a crash, or metadata that is null.
Unset == [schema |-> 0, marks |-> {}, there |-> TRUE]

Database == [schema : {Schema[r] : r \in Release} \cup {0}, marks : SUBSET Mark,
             there : BOOLEAN]

NoJournal == [phase |-> "none"]
Journal ==
  [phase : Phase, candidate : Release, current : Pointer, previous : Pointer,
   taken : Database]
Missing == [phase |-> "missing"]
Partial == [phase |-> "partial"]

VARIABLES
  pointer,    \* the links `current' and `previous'
  link,       \* temporary links: their pointer and their target
  journal,    \* .activation-state.json
  temp,       \* .activation-state.tmp
  pending,    \* .release-rollback/<operation>.pending.db
  snapshot,   \* .release-rollback/<operation>.db
  folder,     \* whether .release-rollback exists
  restore,    \* shared/data/.release-restore-<operation>.db
  permit,     \* the startup authorization: its file and its release
  db,         \* shared/data/lethebot.db
  running,    \* the release the application runs
  wanted,     \* whether the service manager starts the application by itself
  op,         \* the operation in progress: its program and its next step
  ops,        \* activations begun so far; the last is the pending one
  faults,     \* crashes and failures so far
  settled,    \* rows nothing may take back any more
  undone      \* candidates that were rolled back, with their operation

files == <<pointer, link, journal, temp, pending, snapshot, folder, restore, permit>>
ghosts == <<settled, undone>>
releaseVars == <<files, db, running, wanted, op, ops, faults, ghosts>>

NoPermit == [at |-> "missing", release |-> NoRelease]
Resting == [mode |-> "none", pc |-> 0, candidate |-> NoRelease]

ReleaseTypeOK ==
  /\ pointer \in [{"current", "previous"} -> Pointer]
  /\ link \subseteq {"current", "previous"} \X Release
  /\ journal \in Journal \cup {NoJournal}
  /\ temp \in Journal \cup {Missing, Partial}
  /\ pending \in BOOLEAN /\ folder \in BOOLEAN
  /\ snapshot \in Database
  /\ restore \in Database
  /\ permit \in [at : {"missing", "temp", "granted", "claimed"}, release : Pointer]
  /\ db \in Database
  /\ running \in Pointer /\ wanted \in BOOLEAN
  /\ op.mode \in {"none", "activate", "undo", "restart", "confirm"}
  /\ ops \in 0..MaxOps /\ faults \in 0..MaxFaults
  /\ settled \subseteq Mark /\ undone \subseteq Mark

\* A fresh root, or one whose release runs on its own data.
ReleaseInit ==
  /\ link = {} /\ journal = NoJournal /\ temp = Missing
  /\ pending = FALSE /\ snapshot = Absent /\ folder = FALSE /\ restore = Absent
  /\ permit = NoPermit /\ op = Resting /\ ops = 0 /\ faults = 0 /\ undone = {}
  /\ \E r \in Pointer :
       /\ pointer = [current |-> r, previous |-> NoRelease]
       /\ running = r /\ wanted = (r # NoRelease)
       /\ settled = IF r = NoRelease THEN {} ELSE {<<0, r>>}
       /\ db = IF r = NoRelease THEN Absent
               ELSE [schema |-> Schema[r], marks |-> {<<0, r>>}, there |-> TRUE]

-----------------------------------------------------------------------------
(* The journal *)

Original(j) == [current |-> j.current, previous |-> j.previous]
Target(j) == [current |-> j.candidate, previous |-> j.current]

\* Both links name the original release: on the way there, or on the way back.
Intermediate(j) == [current |-> j.current, previous |-> j.current]

\* allowedPointerStatesForPhase.
Explained(j) ==
  CASE j.phase \in {"intent_recorded", "rollback_completed"} -> {Original(j)}
    [] j.phase \in {"snapshot_ready", "awaiting_confirmation"} ->
         {Original(j), Intermediate(j), Target(j)}
    [] OTHER -> {Target(j)}

\* validateActivationState and isDiscardableStateSuccessor.
Successors(phase) ==
  CASE phase = "intent_recorded" -> {"snapshot_ready", "rollback_completed"}
    [] phase = "snapshot_ready" -> {"awaiting_confirmation", "rollback_completed"}
    [] phase = "awaiting_confirmation" -> {"confirming", "rollback_completed"}
    [] OTHER -> {}

\* Temporary links belong to the operation and name one of its releases.
LinksOwned(j) ==
  \A l \in link :
    l \in {<<"current", j.candidate>>, <<"current", j.current>>,
           <<"previous", j.current>>, <<"previous", j.previous>>}

\* What must be gone when no operation is pending.
CleanRoot ==
  /\ permit.at = "missing" /\ link = {} /\ ~folder /\ restore = Absent
  /\ pointer.current = NoRelease => pointer.previous = NoRelease
  /\ pointer.current # NoRelease => pointer.current # pointer.previous

\* reconcileActivationStateTemp discards what an interrupted write has left.
Reconcilable ==
  CASE temp = Missing -> TRUE
    [] temp = Partial ->
         IF journal = NoJournal THEN CleanRoot
         ELSE /\ journal.phase \notin {"confirming", "rollback_completed"}
              /\ pointer \in Explained(journal)
              /\ LinksOwned(journal)
    [] OTHER ->
         IF journal = NoJournal THEN temp.phase = "intent_recorded"
         ELSE /\ [temp EXCEPT !.phase = journal.phase, !.taken = journal.taken] = journal
              /\ temp.phase \in Successors(journal.phase)

-----------------------------------------------------------------------------
(* The startup gate *)

\* readCurrentReleaseId: the link names a release directory.
CurrentReleaseId == IF pointer.current \in Release THEN pointer.current ELSE NoRelease

\* validatePendingActivationState: the gate's own reading of the journal.  The
\* pointers make sense, and the snapshot is recorded from its phase on.
Coherent(j) ==
  /\ j.candidate # j.current
  /\ j.current = NoRelease => j.previous = NoRelease
  /\ j.current # NoRelease => j.current # j.previous
  /\ CASE j.phase = "intent_recorded" -> j.taken = Unset
       [] j.phase = "rollback_completed" -> TRUE
       [] OTHER -> j.taken # Unset

\* Mutated form: the journal is not consulted.
GateAdmitsCurrent == pointer.current # NoRelease

\* runManagedStartupGate: with an operation pending, a start needs its permit.
GateAdmits ==
  /\ temp = Missing
  /\ permit.at # "temp"
  /\ CurrentReleaseId # NoRelease
  /\ IF journal = NoJournal THEN permit.at = "missing"
     ELSE Coherent(journal) /\ permit = [at |-> "granted", release |-> CurrentReleaseId]

\* The application opens and migrates the database it finds.
Opened(r) ==
  [db EXCEPT !.there = TRUE,
             !.schema = IF Schema[r] > db.schema THEN Schema[r] ELSE db.schema]

\* The gate claims the permit by renaming it: it is good for one start.
Launched ==
  /\ GateAdmits
  /\ running' = pointer.current
  /\ db' = Opened(pointer.current)
  /\ permit' = IF journal = NoJournal THEN permit ELSE [permit EXCEPT !.at = "claimed"]

\* Boot, or the service manager's own restart of an application that has died.
AutoStart ==
  /\ running = NoRelease /\ wanted
  /\ Launched
  /\ UNCHANGED <<pointer, link, journal, temp, pending, snapshot, folder, restore,
                 wanted, op, ops, faults, ghosts>>

\* A confirmed or rolled back operation keeps the database it has.
Settles(j) == j.phase \in {"none", "confirming", "rollback_completed"}

\* The application stores something.
StoreRow ==
  /\ running # NoRelease
  /\ <<ops, running>> \notin db.marks
  /\ db' = [db EXCEPT !.marks = @ \cup {<<ops, running>>}]
  /\ settled' = IF Settles(journal) THEN db'.marks ELSE settled
  /\ UNCHANGED <<files, running, wanted, op, ops, faults, undone>>

-----------------------------------------------------------------------------
(* Operations begin *)

\* Every program is made of the same parts.  `open', `write', `rename' is
\* replaceActivationState, `linkCurrent', `moveCurrent' restoreManagedPointer;
\* `request' to `ready' authorizes one start, starts, probes health, uses the
\* permit up and probes readiness; `discard' to `clear' is
\* finalizeActivationStateCleanup.

\* Mutated form: the link that changes what runs is moved first.
ActivateCurrentFirst ==
  <<"open", "write", "rename", "stop", "backup", "publish", "open", "write", "rename",
    "linkCurrent", "moveCurrent", "linkPrevious", "movePrevious",
    "request", "grant", "start", "health", "ready", "open", "write", "rename">>

\* activateApplicationRelease, from the intent on.
Activate ==
  <<"open", "write", "rename", "stop", "backup", "publish", "open", "write", "rename",
    "linkPrevious", "movePrevious", "linkCurrent", "moveCurrent",
    "request", "grant", "start", "health", "ready", "open", "write", "rename">>

\* Mutated form: the old release is started before its database is back.
RollbackStartsFirst ==
  <<"stop", "revoke", "unlink", "linkCurrent", "moveCurrent", "linkPrevious", "movePrevious",
    "request", "grant", "start", "health", "ready", "discard", "openCopy", "copy", "swap",
    "open", "write", "rename", "discard", "dropPending", "dropSnapshot", "rmdir", "clear">>

\* recoverPendingApplicationRelease, and rollbackApplicationRelease from its
\* second step on: first the database, then the links, then the old release.
Undo ==
  <<"stop", "revoke", "discard", "openCopy", "copy", "swap", "unlink",
    "linkCurrent", "moveCurrent", "linkPrevious", "movePrevious",
    "request", "grant", "start", "health", "ready", "open", "write", "rename",
    "discard", "dropPending", "dropSnapshot", "rmdir", "clear">>

\* Mutated form: a finished rollback is left on the disk.
RestartWithoutSweep == <<"stop", "revoke", "request", "grant", "start", "health", "ready">>

\* restartReleaseUnderPendingState, then finalizeActivationStateCleanup.
Restart ==
  <<"stop", "revoke", "request", "grant", "start", "health", "ready",
    "discard", "dropPending", "dropSnapshot", "rmdir", "clear">>

\* The promotion of a candidate that is ready.
Confirm ==
  <<"ready", "open", "write", "rename",
    "discard", "dropPending", "dropSnapshot", "rmdir", "clear">>

StepsOf(mode) ==
  CASE mode = "activate" -> Activate
    [] mode = "undo" -> Undo
    [] mode = "restart" -> Restart
    [] OTHER -> Confirm

Begun(mode, candidate) == op' = [mode |-> mode, pc |-> 1, candidate |-> candidate]

\* The candidate reads the database it would get.
Compatible(r) == db.there => db.schema <= Schema[r]

\* A journal left behind is dealt with first, by the same process: see
\* BeginRecovery.
BeginActivation(r) ==
  /\ op = Resting
  /\ ops < MaxOps
  /\ Reconcilable /\ journal = NoJournal /\ CleanRoot
  /\ Compatible(r)
  /\ pointer.current # r
  /\ temp' = Missing
  /\ ops' = ops + 1
  /\ Begun("activate", r)
  /\ UNCHANGED <<pointer, link, journal, pending, snapshot, folder, restore, permit,
                 db, running, wanted, faults, ghosts>>

\* recoverPendingApplicationRelease.  Only an explicit recovery takes back a
\* candidate that awaits its confirmation; a confirmation is never taken back.
BeginRecovery ==
  /\ op = Resting
  /\ Reconcilable
  /\ journal # NoJournal /\ journal.phase # "confirming"
  /\ pointer \in Explained(journal) /\ LinksOwned(journal)
  /\ temp' = Missing
  /\ Begun(IF journal.phase = "rollback_completed" THEN "restart" ELSE "undo", NoRelease)
  /\ UNCHANGED <<pointer, link, journal, pending, snapshot, folder, restore, permit,
                 db, running, wanted, ops, faults, ghosts>>

\* The process finds a first write of an intent that was never published.
BeginCleaning ==
  /\ op = Resting
  /\ Reconcilable /\ journal = NoJournal /\ temp # Missing
  /\ temp' = Missing
  /\ UNCHANGED <<pointer, link, journal, pending, snapshot, folder, restore, permit,
                 db, running, wanted, op, ops, faults, ghosts>>

\* validateRollbackSnapshot: the file is the one whose hash was recorded.  The
\* snapshot of an absent database is its absence.
SnapshotValid == snapshot = journal.taken

\* confirmApplicationRelease.
BeginConfirmation ==
  /\ op = Resting
  /\ Reconcilable
  /\ journal.phase \in {"awaiting_confirmation", "confirming"}
  /\ pointer = Target(journal)
  /\ Compatible(journal.candidate)
  /\ journal.phase = "awaiting_confirmation" => SnapshotValid
  /\ temp' = Missing
  /\ Begun(IF journal.phase = "confirming" THEN "restart" ELSE "confirm", NoRelease)
  /\ UNCHANGED <<pointer, link, journal, pending, snapshot, folder, restore, permit,
                 db, running, wanted, ops, faults, ghosts>>

-----------------------------------------------------------------------------
(* The steps of an operation *)

At == IF op = Resting THEN "none" ELSE StepsOf(op.mode)[op.pc]

Advance ==
  op' = IF op.pc = Len(StepsOf(op.mode)) THEN Resting ELSE [op EXCEPT !.pc = @ + 1]

\* candidateStartAttempted, from the call of the supervisor on.
StartAttempted == \E n \in 1..op.pc : Activate[n] = "start"

\* An activation that fails is rolled back, unless its intent is not recorded or
\* the old application may still run, up to the fourth step.  Every other operation leaves the journal
\* for the next one.
AfterFailure ==
  IF op.mode = "activate" /\ op.pc > 4
    THEN [op EXCEPT !.mode = "undo", !.pc = IF StartAttempted THEN 1 ELSE 2]
    ELSE Resting

\* The release an operation starts.
Starts ==
  IF op.mode = "activate" \/ journal.phase = "confirming" THEN journal.candidate
  ELSE journal.current

\* Where an operation moves a link to.
Goal(name) ==
  IF op.mode = "activate" THEN Target(journal)[name] ELSE Original(journal)[name]

\* The journal's next content.
Successor ==
  IF op.mode = "undo" THEN [journal EXCEPT !.phase = "rollback_completed"]
  ELSE IF op.mode = "confirm" THEN [journal EXCEPT !.phase = "confirming"]
  ELSE IF journal = NoJournal
  THEN [phase |-> "intent_recorded", candidate |-> op.candidate,
        current |-> pointer.current, previous |-> pointer.previous, taken |-> Unset]
  ELSE IF journal.phase = "intent_recorded"
  THEN [journal EXCEPT !.phase = "snapshot_ready", !.taken = snapshot]
  ELSE [journal EXCEPT !.phase = "awaiting_confirmation"]

\* Steps that have nothing to do: no application to stop or to start, a database
\* no candidate has touched, a link that is to be absent.
NothingToDo ==
  \/ At = "stop" /\ op.mode = "activate" /\ journal.current = NoRelease
  \/ At \in {"stop", "revoke"} /\ op.mode = "restart" /\ Starts = NoRelease
  \/ At \in {"request", "grant", "start", "health"} /\ Starts = NoRelease
  \/ At = "ready" /\ op.mode # "confirm" /\ Starts = NoRelease
  \/ At \in {"openCopy", "copy"} /\ (journal.taken = Unset \/ ~journal.taken.there)
  \/ At = "swap" /\ journal.taken = Unset
  \/ At = "linkCurrent" /\ Goal("current") = NoRelease
  \/ At = "linkPrevious" /\ Goal("previous") = NoRelease
  \/ At = "dropPending" /\ ~pending
  \/ At = "dropSnapshot" /\ ~snapshot.there
  \/ At = "rmdir" /\ ~folder

\* A step that meets a file in its way, or an application that is not there.
Blocked ==
  \/ At \in {"open", "request", "grant"} /\ temp # Missing
  \/ At = "health" /\ (running = NoRelease \/ permit.at # "claimed")
  \/ At = "ready" /\ running = NoRelease
  \/ At = "openCopy" /\ ~SnapshotValid
  \/ At \in {"linkCurrent", "linkPrevious"} /\ link # {}

Here(name) == At = name /\ ~NothingToDo /\ ~Blocked

Skip ==
  /\ NothingToDo
  /\ Advance
  /\ UNCHANGED <<files, db, running, wanted, ops, faults, ghosts>>

OpenTemp ==
  /\ Here("open")
  /\ temp' = Partial
  /\ Advance
  /\ UNCHANGED <<pointer, link, journal, pending, snapshot, folder, restore, permit,
                 db, running, wanted, ops, faults, ghosts>>

WriteTemp ==
  /\ Here("write")
  /\ temp' = Successor
  /\ Advance
  /\ UNCHANGED <<pointer, link, journal, pending, snapshot, folder, restore, permit,
                 db, running, wanted, ops, faults, ghosts>>

\* The rename commits the transition.
RenameTemp ==
  /\ Here("rename")
  /\ journal' = temp
  /\ temp' = Missing
  /\ settled' = IF Settles(journal') THEN db.marks ELSE settled
  /\ undone' = IF journal'.phase = "rollback_completed"
               THEN undone \cup {<<ops, journal.candidate>>} ELSE undone
  /\ Advance
  /\ UNCHANGED <<pointer, link, pending, snapshot, folder, restore, permit,
                 db, running, wanted, ops, faults>>

StopApplication ==
  /\ Here("stop")
  /\ running' = NoRelease
  /\ wanted' = FALSE
  /\ Advance
  /\ UNCHANGED <<files, db, ops, faults, ghosts>>

\* createRollbackSnapshot: into a file of its own, renamed once it is verified.
Backup ==
  /\ Here("backup")
  /\ folder' = TRUE
  /\ pending' = db.there
  /\ Advance
  /\ UNCHANGED <<pointer, link, journal, temp, snapshot, restore, permit,
                 db, running, wanted, ops, faults, ghosts>>

Publish ==
  /\ Here("publish")
  /\ pending' = FALSE
  /\ snapshot' = db
  /\ Advance
  /\ UNCHANGED <<pointer, link, journal, temp, folder, restore, permit,
                 db, running, wanted, ops, faults, ghosts>>

\* replaceManagedPointer and removeManagedPointer.
LinkPointer(name, at) ==
  /\ Here(at)
  /\ link' = {<<name, Goal(name)>>}
  /\ Advance
  /\ UNCHANGED <<pointer, journal, temp, pending, snapshot, folder, restore, permit,
                 db, running, wanted, ops, faults, ghosts>>

MovePointer(name, at) ==
  /\ Here(at)
  /\ pointer' = [pointer EXCEPT ![name] = Goal(name)]
  /\ link' = {}
  /\ Advance
  /\ UNCHANGED <<journal, temp, pending, snapshot, folder, restore, permit,
                 db, running, wanted, ops, faults, ghosts>>

\* persistManagedStartupAuthorization: a file of its own, then a rename.
RequestPermit ==
  /\ Here("request")
  /\ permit' = [at |-> "temp", release |-> Starts]
  /\ Advance
  /\ UNCHANGED <<pointer, link, journal, temp, pending, snapshot, folder, restore,
                 db, running, wanted, ops, faults, ghosts>>

GrantPermit ==
  /\ Here("grant")
  /\ permit' = [permit EXCEPT !.at = "granted"]
  /\ Advance
  /\ UNCHANGED <<pointer, link, journal, temp, pending, snapshot, folder, restore,
                 db, running, wanted, ops, faults, ghosts>>

\* The supervisor starts the application unless it has done so by itself.
StartApplication ==
  /\ Here("start")
  /\ wanted' = TRUE
  /\ \/ running = NoRelease /\ Launched
     \/ (running # NoRelease \/ ~GateAdmits) /\ UNCHANGED <<running, db, permit>>
  /\ Advance
  /\ UNCHANGED <<pointer, link, journal, temp, pending, snapshot, folder, restore,
                 ops, faults, ghosts>>

\* A healthy application has used its permit up.
Health ==
  /\ Here("health")
  /\ permit' = NoPermit
  /\ Advance
  /\ UNCHANGED <<pointer, link, journal, temp, pending, snapshot, folder, restore,
                 db, running, wanted, ops, faults, ghosts>>

Ready ==
  /\ Here("ready")
  /\ Advance
  /\ UNCHANGED <<files, db, running, wanted, ops, faults, ghosts>>

\* clearManagedStartupAuthorization.
RevokePermit ==
  /\ Here("revoke")
  /\ permit' = NoPermit
  /\ Advance
  /\ UNCHANGED <<pointer, link, journal, temp, pending, snapshot, folder, restore,
                 db, running, wanted, ops, faults, ghosts>>

\* removeOwnedRestoreCandidate.
Discard ==
  /\ Here("discard")
  /\ restore' = Absent
  /\ Advance
  /\ UNCHANGED <<pointer, link, journal, temp, pending, snapshot, folder, permit,
                 db, running, wanted, ops, faults, ghosts>>

\* restoreRollbackDatabase: a verified copy replaces the database by a rename.
CopySnapshot(at, copy) ==
  /\ Here(at)
  /\ restore' = copy
  /\ Advance
  /\ UNCHANGED <<pointer, link, journal, temp, pending, snapshot, folder, permit,
                 db, running, wanted, ops, faults, ghosts>>

SwapDatabase ==
  /\ Here("swap")
  /\ db' = restore
  /\ restore' = Absent
  /\ Advance
  /\ UNCHANGED <<pointer, link, journal, temp, pending, snapshot, folder, permit,
                 running, wanted, ops, faults, ghosts>>

\* removeOperationTemporaryLinks.
Unlink ==
  /\ Here("unlink")
  /\ link' = {}
  /\ Advance
  /\ UNCHANGED <<pointer, journal, temp, pending, snapshot, folder, restore, permit,
                 db, running, wanted, ops, faults, ghosts>>

\* removeRollbackSnapshot.
DropSnapshot ==
  /\ \/ Here("dropPending") /\ pending' = FALSE /\ UNCHANGED <<snapshot, folder>>
     \/ Here("dropSnapshot") /\ snapshot' = Absent /\ UNCHANGED <<pending, folder>>
     \/ Here("rmdir") /\ folder' = FALSE /\ UNCHANGED <<pending, snapshot>>
  /\ Advance
  /\ UNCHANGED <<pointer, link, journal, temp, restore, permit,
                 db, running, wanted, ops, faults, ghosts>>

\* clearActivationState.
ClearJournal ==
  /\ Here("clear")
  /\ journal' = NoJournal
  /\ settled' = db.marks
  /\ Advance
  /\ UNCHANGED <<pointer, link, temp, pending, snapshot, folder, restore, permit,
                 db, running, wanted, ops, faults, undone>>

-----------------------------------------------------------------------------
(* What goes wrong *)

\* The supervisor, a probe, the backup, or the disk while a file is written.
\* The snapshot is dropped at once when the journal cannot say that it is ready.
MayFail == At \in {"stop", "backup", "write", "copy", "start", "health", "ready"}

Fail ==
  /\ op # Resting /\ ~NothingToDo
  /\ \/ Blocked /\ UNCHANGED faults
     \/ MayFail /\ ~Blocked /\ faults < MaxFaults /\ faults' = faults + 1
  /\ op' = AfterFailure
  /\ IF op.mode = "activate" /\ At = "write" /\ journal.phase = "intent_recorded"
     THEN snapshot' = Absent /\ folder' = FALSE
     ELSE UNCHANGED <<snapshot, folder>>
  /\ UNCHANGED <<pointer, link, journal, temp, pending, restore, permit,
                 db, running, wanted, ops, ghosts>>

\* The operator's process is killed.
Killed ==
  /\ op # Resting
  /\ faults < MaxFaults
  /\ faults' = faults + 1
  /\ op' = Resting
  /\ UNCHANGED <<files, db, running, wanted, ops, ghosts>>

\* The host goes down with all its processes.
PowerCut ==
  /\ faults < MaxFaults
  /\ faults' = faults + 1
  /\ op' = Resting
  /\ running' = NoRelease
  /\ wanted' = TRUE
  /\ UNCHANGED <<files, db, ops, ghosts>>

\* The application dies.
Died ==
  /\ running # NoRelease
  /\ faults < MaxFaults
  /\ faults' = faults + 1
  /\ running' = NoRelease
  /\ UNCHANGED <<files, db, wanted, op, ops, ghosts>>

-----------------------------------------------------------------------------
Step ==
  \/ Skip \/ OpenTemp \/ WriteTemp \/ RenameTemp
  \/ StopApplication \/ Backup \/ Publish
  \/ LinkPointer("previous", "linkPrevious") \/ MovePointer("previous", "movePrevious")
  \/ LinkPointer("current", "linkCurrent") \/ MovePointer("current", "moveCurrent")
  \/ RequestPermit \/ GrantPermit \/ StartApplication \/ Health \/ Ready \/ RevokePermit
  \/ Discard \/ CopySnapshot("openCopy", Unset) \/ CopySnapshot("copy", snapshot)
  \/ SwapDatabase \/ Unlink \/ DropSnapshot \/ ClearJournal
  \/ Fail

ReleaseNext ==
  \/ \E r \in Release : BeginActivation(r)
  \/ BeginRecovery \/ BeginCleaning \/ BeginConfirmation
  \/ Step
  \/ AutoStart \/ StoreRow
  \/ Killed \/ PowerCut \/ Died

ReleaseSpec == ReleaseInit /\ [][ReleaseNext]_releaseVars

\* A begun operation goes on, and an operator recovers what is left behind or
\* resumes a confirmation.
ReleaseFairSpec ==
  /\ ReleaseSpec
  /\ WF_releaseVars(Step)
  /\ SF_releaseVars(BeginRecovery)
  /\ SF_releaseVars(BeginConfirmation /\ journal.phase = "confirming")

-----------------------------------------------------------------------------
(* Properties *)

\* Wherever the operator's process, the application or the host died, the next
\* recovery or confirmation accepts the files it finds: no combination of
\* journal, temporary file, links, snapshot and permit fails closed.
AlwaysServiceable ==
  op = Resting =>
    /\ Reconcilable
    /\ journal = NoJournal => CleanRoot
    /\ journal # NoJournal => pointer \in Explained(journal) /\ LinksOwned(journal)
    /\ journal.phase \in {"snapshot_ready", "awaiting_confirmation"} => SnapshotValid

\* An old release never runs on the database of the candidate that replaced it,
\* neither on its rows nor on its schema: the snapshot is back before it starts.
OldReleaseOldData ==
  running # NoRelease =>
    /\ db.there /\ db.schema <= Schema[running]
    /\ db.marks \cap undone = {}
    /\ journal # NoJournal /\ running = journal.current =>
         <<ops, journal.candidate>> \notin db.marks

\* What a release stored before an activation, after its confirmation or after
\* its rollback is never taken back: no recovery restores over it.
SettledRowsStay == settled \subseteq db.marks

\* The application that runs is the one `current' names, also while the links
\* move: nothing starts an application between the stop and its own permit.
RunsCurrent == running # NoRelease => running = pointer.current

\* An unconfirmed candidate starts once.  When it dies the service manager does
\* not bring it back: the operator rolls back or activates anew.
CandidateStartsOnce ==
  [][running = NoRelease /\ running' # NoRelease /\ journal # NoJournal
       /\ running' = journal.candidate
     => journal.phase \in {"snapshot_ready", "confirming"}]_releaseVars

\* An interrupted operation is eventually gone, with all its files.
EveryOperationSettles ==
  (journal # NoJournal /\ op = Resting) ~> (journal = NoJournal /\ CleanRoot)

\* The rows and the release belong together, through every snapshot, restore and
\* restart: no old code on new data, no settled row lost, one release in charge,
\* and whatever is interrupted leaves files that the next operation accepts.
ReleaseSound ==
  ReleaseTypeOK /\ OldReleaseOldData /\ SettledRowsStay /\ RunsCurrent /\ AlwaysServiceable
=============================================================================
