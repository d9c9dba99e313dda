--------------------------- MODULE RestoreHandoff ---------------------------
(***************************************************************************)
(* A restore that is prepared by the running service and carried out by a   *)
(* stopped-service consumer (src/src/operations/                            *)
(* governance-restore-handoff.ts, -reader.ts, -consumer.ts and the restore  *)
(* of sqlite-maintenance.ts).  The two never run together; all they share   *)
(* is a directory of small files, each published by writing a staging file, *)
(* linking or renaming it, and removing the staging name.  Either may stop  *)
(* between any two of those steps, and the service may run and write again  *)
(* between two attempts of the consumer.                                    *)
(*                                                                          *)
(* A database content is a number, equal exactly when the digests are.      *)
(* Steps are durable in the order they are made: the runbook excludes loss  *)
(* of power (docs/operations.md).                                           *)
(***************************************************************************)
EXTENDS Integers, FiniteSets

CONSTANTS None, Torn,     \* no file; a staging file created but not yet written
          MaxAttempts,    \* MAX_RESTORE_ATTEMPTS
          Lifetime,       \* HANDOFF_LIFETIME_MS
          MaxHandoffs, MaxContent, MaxCrashes, MaxNow

VARIABLES svc,       \* the service: up, down, or crashed (its WAL and SHM files are left)
          now, made, crashes,
          target,    \* content of the database file
          backup,    \* the managed backup: content, and whether it verifies
          pend, pendTmp, claim, claimTmp, done, doneTmp,   \* the handoff directory
          ppc, pmem, \* the publisher: its step and its envelope
          pc, mem,   \* the consumer: its step and its claim
          handoffs,  \* handoffs prepared so far
          promised,  \* history: what the operator was shown for each handoff
          seen,      \* history: contents of the database since the claim looked at it
          calls      \* history: restore calls for each handoff

directory == <<pend, pendTmp, claim, claimTmp, done, doneTmp>>
world == <<svc, now, made, crashes, target, backup>>
history == <<promised, seen, calls>>
vars == <<world, directory, ppc, pmem, pc, mem, handoffs, history>>

Id == 1..MaxHandoffs
Content == 1..MaxContent
Envelope == [id : Id, digest : Content, expires : 0..(MaxNow + Lifetime)]
Claim == [env : Envelope, attempts : 0..MaxAttempts, backup : Content, before : Content]

(* An absent or unwritten file is none of the things a file may hold.       *)
ASSUME RestoreHandoffAssumption ==
    /\ MaxAttempts \in Nat \ {0} /\ Lifetime \in Nat \ {0}
    /\ MaxHandoffs \in Nat /\ MaxContent \in Nat \ {0, 1}
    /\ MaxCrashes \in Nat /\ MaxNow \in Nat
    /\ None # Torn /\ {None, Torn} \cap (Envelope \cup Claim \cup Id) = {}

ConsumerStep == {"idle", "recover", "dispatch", "resume",
                 "claimStage", "claimWrite", "claimLink", "claimUnstage", "claimDrop",
                 "execute", "attemptStage", "attemptWrite", "attemptRename", "restore", "verify",
                 "doneStage", "doneWrite", "doneLink", "doneUnstage", "cleanPending", "cleanClaim"}

(* Shape of every variable.                                                 *)
TypeOK ==
    /\ svc \in {"up", "down", "crashed"}
    /\ now \in 0..MaxNow /\ made \in Content /\ crashes \in 0..MaxCrashes
    /\ target \in Content /\ backup \in [content : Content, ok : BOOLEAN]
    /\ pend \in Envelope \cup {None} /\ pendTmp \in Envelope \cup {None, Torn}
    /\ claim \in Claim \cup {None} /\ claimTmp \in Claim \cup {None, Torn}
    /\ done \in Id \cup {None} /\ doneTmp \in Id \cup {None, Torn}
    /\ ppc \in {"idle", "write", "link", "unstage"} /\ pmem \in Envelope \cup {None}
    /\ pc \in ConsumerStep /\ mem \in Claim \cup {None}
    /\ handoffs \in 0..MaxHandoffs
    /\ promised \in [Id -> Content \cup {None}] /\ seen \subseteq Content
    /\ calls \in [Id -> Nat]

(* The backup may be of the database as it is.                              *)
Init ==
    /\ svc = "up" /\ now = 0 /\ made = 2 /\ crashes = 0
    /\ target = 1 /\ backup \in [content : {1, 2}, ok : {TRUE}]
    /\ pend = None /\ pendTmp = None /\ claim = None /\ claimTmp = None /\ done = None /\ doneTmp = None
    /\ ppc = "idle" /\ pmem = None /\ pc = "idle" /\ mem = None /\ handoffs = 0
    /\ promised = [i \in Id |-> None] /\ seen = {} /\ calls = [i \in Id |-> 0]

(***************************************************************************)
(* The publisher, in the running service.                                   *)
(***************************************************************************)

(* publishPendingHandoff: any entry at all is a state that already exists.  *)
DirectoryEmpty ==
    /\ pend = None /\ claim = None /\ done = None
    /\ pendTmp = None /\ claimTmp = None /\ doneTmp = None

(* prepareGovernanceRestoreHandoff, for a preview that was just compared:   *)
(* the staging file is created.                                             *)
Prepare ==
    /\ svc = "up" /\ ppc = "idle" /\ DirectoryEmpty
    /\ backup.ok /\ handoffs < MaxHandoffs
    /\ handoffs' = handoffs + 1
    /\ pmem' = [id |-> handoffs + 1, digest |-> backup.content, expires |-> now + Lifetime]
    /\ promised' = [promised EXCEPT ![handoffs + 1] = backup.content]
    /\ pendTmp' = Torn /\ ppc' = "write"
    /\ UNCHANGED <<world, pend, claim, claimTmp, done, doneTmp, pc, mem, seen, calls>>

PrepareWrite ==
    /\ ppc = "write" /\ pendTmp' = pmem /\ ppc' = "link"
    /\ UNCHANGED <<world, pend, claim, claimTmp, done, doneTmp, pmem, pc, mem, handoffs, history>>

PrepareLink ==
    /\ ppc = "link" /\ pend' = pmem /\ ppc' = "unstage"
    /\ UNCHANGED <<world, pendTmp, claim, claimTmp, done, doneTmp, pmem, pc, mem, handoffs, history>>

PrepareUnstage ==
    /\ ppc = "unstage" /\ pendTmp' = None /\ ppc' = "idle" /\ pmem' = None
    /\ UNCHANGED <<world, pend, claim, claimTmp, done, doneTmp, pc, mem, handoffs, history>>

(***************************************************************************)
(* The consumer.                                                            *)
(***************************************************************************)

ConsumerOnly == UNCHANGED <<world, pendTmp, ppc, pmem, handoffs>>

Goto(step) == pc' = step

(* A receipt that asks for attention, or a crash: nothing but memory goes.  *)
Attention ==
    /\ pc' = "idle" /\ mem' = None
    /\ UNCHANGED <<directory, history>> /\ ConsumerOnly

(* consume: the proof that the service is stopped is true.                  *)
Begin ==
    /\ pc = "idle" /\ svc # "up" /\ Goto("recover")
    /\ UNCHANGED <<directory, mem, history>> /\ ConsumerOnly

(* The staged claim is the next attempt of the claim.                       *)
NextAttempt == claimTmp = [claim EXCEPT !.attempts = @ + 1]

(* recoverStaging throws: an unwritten file, two files, or a conflict.      *)
Unrecoverable ==
    \/ Torn \in {claimTmp, doneTmp}
    \/ claimTmp # None /\ doneTmp # None
    \/ claimTmp # None /\ claim \notin {None, claimTmp} /\ ~NextAttempt
    \/ doneTmp # None /\ done \notin {None, doneTmp}

RecoverRefused == pc = "recover" /\ Unrecoverable /\ Attention

(* recoverStaging: a staging file whose target is missing is linked to it.  *)
(* Equal content stands for the same inode: a claim is staged again only    *)
(* with another count.                                                      *)
RecoverLink ==
    /\ pc = "recover" /\ ~Unrecoverable
    /\ \/ claimTmp # None /\ claim = None /\ claim' = claimTmp /\ UNCHANGED done
       \/ doneTmp # None /\ done = None /\ done' = doneTmp /\ UNCHANGED claim
    /\ UNCHANGED <<pend, claimTmp, doneTmp, pc, mem, history>> /\ ConsumerOnly

RecoverRename ==
    /\ pc = "recover" /\ ~Unrecoverable
    /\ claimTmp # None /\ claim # None /\ NextAttempt
    /\ claim' = claimTmp /\ claimTmp' = None /\ Goto("dispatch")
    /\ UNCHANGED <<pend, done, doneTmp, mem, history>> /\ ConsumerOnly

(* Already linked, or nothing staged.                                       *)
RecoverUnstage ==
    /\ pc = "recover" /\ ~Unrecoverable
    /\ claimTmp \in {None, claim} /\ doneTmp \in {None, done}
    /\ claimTmp' = None /\ doneTmp' = None /\ Goto("dispatch")
    /\ UNCHANGED <<pend, claim, done, mem, history>> /\ ConsumerOnly

(* preflightRestore: no sidecars, and the backup is the one of the preview. *)
Preflight(env) == svc = "down" /\ backup.ok /\ backup.content = env.digest

(* consumeStopped with a completed state: what is left is removed.          *)
DispatchDone ==
    /\ pc = "dispatch" /\ done # None /\ pendTmp = None
    /\ Goto("cleanPending")
    /\ UNCHANGED <<directory, mem, history>> /\ ConsumerOnly

(* consumeStopped with a claim: a pending envelope beside it is its own.    *)
DispatchClaim ==
    /\ pc = "dispatch" /\ done = None /\ claim # None /\ pendTmp = None
    /\ pend \in {None, claim.env}
    /\ pend' = None /\ mem' = claim /\ Goto("resume")
    /\ UNCHANGED <<claim, claimTmp, done, doneTmp, history>> /\ ConsumerOnly

(* consumeStopped with a pending envelope alone, in its lifetime: the claim *)
(* records what the backup and the database are now.                        *)
Claimable == pend # None /\ pendTmp = None /\ now < pend.expires /\ Preflight(pend)

DispatchPending ==
    /\ pc = "dispatch" /\ done = None /\ claim = None /\ Claimable
    /\ mem' = [env |-> pend, attempts |-> 0, backup |-> backup.content, before |-> target]
    /\ seen' = {target} /\ Goto("claimStage")
    /\ UNCHANGED <<directory, promised, calls>> /\ ConsumerOnly

DispatchRefused ==
    /\ pc = "dispatch"
    /\ \/ done # None /\ pendTmp # None
       \/ done = None /\ claim # None /\ (pendTmp # None \/ pend \notin {None, claim.env})
       \/ done = None /\ claim = None /\ ~Claimable
    /\ Attention

(* publishEntry of the claim, then the pending envelope goes.               *)
ClaimStage ==
    /\ pc = "claimStage" /\ claimTmp' = Torn /\ Goto("claimWrite")
    /\ UNCHANGED <<pend, claim, done, doneTmp, mem, history>> /\ ConsumerOnly

ClaimWrite ==
    /\ pc = "claimWrite" /\ claimTmp' = mem /\ Goto("claimLink")
    /\ UNCHANGED <<pend, claim, done, doneTmp, mem, history>> /\ ConsumerOnly

ClaimLink ==
    /\ pc = "claimLink" /\ claim' = mem /\ Goto("claimUnstage")
    /\ UNCHANGED <<pend, claimTmp, done, doneTmp, mem, history>> /\ ConsumerOnly

ClaimUnstage ==
    /\ pc = "claimUnstage" /\ claimTmp' = None /\ Goto("claimDrop")
    /\ UNCHANGED <<pend, claim, done, doneTmp, mem, history>> /\ ConsumerOnly

ClaimDrop ==
    /\ pc = "claimDrop" /\ pend' = None /\ Goto("execute")
    /\ UNCHANGED <<claim, claimTmp, done, doneTmp, mem, history>> /\ ConsumerOnly

(* resumeClaim                                                              *)
Resume ==
    /\ pc = "resume"
    /\ IF Preflight(mem.env) /\ backup.content = mem.backup
       THEN Goto("execute") /\ UNCHANGED <<directory, mem, history>> /\ ConsumerOnly
       ELSE Attention

(* Mutant of Overwrites: any database but the backup's is overwritten.      *)
OverwritesChanged == target # mem.backup /\ mem.attempts < MaxAttempts

(* executeClaim: the database is as the claim recorded it, and a call is    *)
(* left.                                                                    *)
Overwrites == target = mem.before /\ target # mem.backup /\ mem.attempts < MaxAttempts

Execute ==
    /\ pc = "execute"
    /\ \/ target = mem.backup /\ Goto("doneStage") /\ UNCHANGED <<directory, mem, history>> /\ ConsumerOnly
       \/ Overwrites /\ Goto("attemptStage") /\ UNCHANGED <<directory, mem, history>> /\ ConsumerOnly
       \/ target # mem.backup /\ ~Overwrites /\ Attention

(* replaceClaim: the count is on disk before the call.                      *)
AttemptStage ==
    /\ pc = "attemptStage" /\ claimTmp' = Torn /\ Goto("attemptWrite")
    /\ UNCHANGED <<pend, claim, done, doneTmp, mem, history>> /\ ConsumerOnly

AttemptWrite ==
    /\ pc = "attemptWrite" /\ claimTmp' = [mem EXCEPT !.attempts = @ + 1] /\ Goto("attemptRename")
    /\ UNCHANGED <<pend, claim, done, doneTmp, mem, history>> /\ ConsumerOnly

(* Mutant of AttemptRename: the file keeps the old count.                   *)
AttemptForgotten ==
    /\ pc = "attemptRename" /\ claimTmp' = None /\ Goto("restore")
    /\ UNCHANGED <<pend, claim, done, doneTmp, mem, history>> /\ ConsumerOnly

AttemptRename ==
    /\ pc = "attemptRename" /\ claim' = claimTmp /\ claimTmp' = None /\ Goto("restore")
    /\ UNCHANGED <<pend, done, doneTmp, mem, history>> /\ ConsumerOnly

Called == calls' = [calls EXCEPT ![mem.env.id] = @ + 1]

(* restoreSqliteDatabase: a verified copy of the backup, as it is by now,   *)
(* replaces the database in one rename.                                     *)
Restore ==
    /\ pc = "restore" /\ backup.ok
    /\ target' = backup.content /\ seen' = seen \cup {backup.content} /\ Called
    /\ Goto("verify")
    /\ UNCHANGED <<svc, now, made, crashes, backup, directory, ppc, pmem, mem, handoffs, promised>>

(* It throws before the rename.                                             *)
RestoreFails ==
    /\ pc = "restore" /\ Called
    /\ pc' = "idle" /\ mem' = None
    /\ UNCHANGED <<directory, promised, seen>> /\ ConsumerOnly

(* executeClaim: the database is what the claim was made for.               *)
Verify ==
    /\ pc = "verify"
    /\ IF target = mem.backup
       THEN Goto("doneStage") /\ UNCHANGED <<directory, mem, history>> /\ ConsumerOnly
       ELSE Attention

(* publishCompleted                                                         *)
DoneStage ==
    /\ pc = "doneStage" /\ doneTmp' = Torn /\ Goto("doneWrite")
    /\ UNCHANGED <<pend, claim, claimTmp, done, mem, history>> /\ ConsumerOnly

DoneWrite ==
    /\ pc = "doneWrite" /\ doneTmp' = mem.env.id /\ Goto("doneLink")
    /\ UNCHANGED <<pend, claim, claimTmp, done, mem, history>> /\ ConsumerOnly

DoneLink ==
    /\ pc = "doneLink" /\ done' = mem.env.id /\ Goto("doneUnstage")
    /\ UNCHANGED <<pend, claim, claimTmp, doneTmp, mem, history>> /\ ConsumerOnly

DoneUnstage ==
    /\ pc = "doneUnstage" /\ doneTmp' = None /\ Goto("cleanPending")
    /\ UNCHANGED <<pend, claim, claimTmp, done, mem, history>> /\ ConsumerOnly

(* cleanupCompleted: what belongs to another handoff is an error (which     *)
(* OneHandoff shows never to happen).                                       *)
Own(id) == (pend # None => pend.id = id) /\ (claim # None => claim.env.id = id)

CleanPending ==
    /\ pc = "cleanPending" /\ Own(done)
    /\ pend' = None /\ Goto("cleanClaim")
    /\ UNCHANGED <<claim, claimTmp, done, doneTmp, mem, history>> /\ ConsumerOnly

CleanClaim ==
    /\ pc = "cleanClaim" /\ claim' = None /\ pc' = "idle" /\ mem' = None
    /\ UNCHANGED <<pend, claimTmp, done, doneTmp, history>> /\ ConsumerOnly

Consume ==
    \/ RecoverRefused
    \/ RecoverLink
    \/ RecoverRename
    \/ RecoverUnstage
    \/ DispatchDone
    \/ DispatchClaim
    \/ DispatchPending
    \/ DispatchRefused
    \/ ClaimStage
    \/ ClaimWrite
    \/ ClaimLink
    \/ ClaimUnstage
    \/ ClaimDrop
    \/ Resume
    \/ Execute
    \/ AttemptStage
    \/ AttemptWrite
    \/ AttemptRename
    \/ Restore
    \/ RestoreFails
    \/ Verify
    \/ DoneStage
    \/ DoneWrite
    \/ DoneLink
    \/ DoneUnstage
    \/ CleanPending
    \/ CleanClaim

(***************************************************************************)
(* The world around them.                                                   *)
(***************************************************************************)

Elsewhere == UNCHANGED <<directory, pc, mem, handoffs, promised, calls>>

(* The consumer is not run beside the service.                              *)
Start ==
    /\ svc # "up" /\ pc = "idle" /\ svc' = "up"
    /\ UNCHANGED <<now, made, crashes, target, backup, ppc, pmem, seen>> /\ Elsewhere

Stop ==
    /\ svc = "up" /\ ppc = "idle" /\ svc' = "down"
    /\ UNCHANGED <<now, made, crashes, target, backup, ppc, pmem, seen>> /\ Elsewhere

(* The service writes its database.                                         *)
Write ==
    /\ svc = "up" /\ made < MaxContent
    /\ made' = made + 1 /\ target' = made + 1 /\ seen' = seen \cup {made + 1}
    /\ UNCHANGED <<svc, now, crashes, backup, ppc, pmem>> /\ Elsewhere

ServiceCrash ==
    /\ svc = "up" /\ crashes < MaxCrashes
    /\ svc' = "crashed" /\ crashes' = crashes + 1 /\ ppc' = "idle" /\ pmem' = None
    /\ UNCHANGED <<now, made, target, backup, seen>> /\ Elsewhere

ConsumerCrash ==
    /\ pc # "idle" /\ crashes < MaxCrashes
    /\ crashes' = crashes + 1 /\ pc' = "idle" /\ mem' = None
    /\ UNCHANGED <<svc, now, made, target, backup, directory, ppc, pmem, handoffs, history>>

(* Somebody replaces or damages the backup file, at any time.               *)
BackupReplaced ==
    /\ made < MaxContent /\ made' = made + 1
    /\ backup' = [content |-> made + 1, ok |-> TRUE]
    /\ UNCHANGED <<svc, now, crashes, target, ppc, pmem, seen>> /\ Elsewhere

BackupDamaged ==
    /\ backup.ok /\ backup' = [backup EXCEPT !.ok = FALSE]
    /\ UNCHANGED <<svc, now, made, crashes, target, ppc, pmem, seen>> /\ Elsewhere

(* The operator clears the handoff directory.                               *)
Clear ==
    /\ pc = "idle" /\ ppc = "idle" /\ ~DirectoryEmpty
    /\ pend' = None /\ pendTmp' = None /\ claim' = None /\ claimTmp' = None /\ done' = None /\ doneTmp' = None
    /\ UNCHANGED <<world, ppc, pmem, pc, mem, handoffs, history>>

Tick ==
    /\ now < MaxNow /\ now' = now + 1
    /\ UNCHANGED <<svc, made, crashes, target, backup, ppc, pmem, seen>> /\ Elsewhere

Next ==
    \/ Prepare
    \/ PrepareWrite
    \/ PrepareLink
    \/ PrepareUnstage
    \/ Begin
    \/ Consume
    \/ Start
    \/ Stop
    \/ Write
    \/ ServiceCrash
    \/ ConsumerCrash
    \/ BackupReplaced
    \/ BackupDamaged
    \/ Clear
    \/ Tick

Spec == Init /\ [][Next]_vars

(* Both programs finish what they started; the operator stops a service     *)
(* that a restore waits for, starts one that crashed, and runs the consumer *)
(* again and again while the service is stopped.                            *)
FairSpec ==
    /\ Spec
    /\ WF_vars(Consume)
    /\ WF_vars(PrepareWrite \/ PrepareLink \/ PrepareUnstage)
    /\ WF_vars(Stop)
    /\ SF_vars(svc = "down" /\ Begin)
    /\ SF_vars(svc = "crashed" /\ Start)

(***************************************************************************)
(* Properties.                                                              *)
(***************************************************************************)

(* The directory is about one handoff: no crash, retry or new preparation   *)
(* brings the files of two together (publishPendingHandoff, which refuses a *)
(* directory with any entry, against recoverStaging and cleanupCompleted).  *)
OneHandoff ==
    Cardinality({e.id : e \in {pend, pendTmp} \ {None, Torn}}
                \cup {c.env.id : c \in {claim, claimTmp} \ {None, Torn}}
                \cup ({done, doneTmp} \ {None, Torn})) <= 1

(* The restore replaces only the database that was there when the claim was *)
(* made: what the service wrote since, or what an earlier attempt already   *)
(* restored, is never overwritten, wherever a crash fell                    *)
(* (governance-restore-handoff-consumer.ts executeClaim).                   *)
NothingNewOverwritten == [][pc = "restore" /\ pc' = "verify" => seen = {target}]_vars

(* "The initial attempt plus one retry is the fixed limit": the restore is  *)
(* never called more often than the claim allows, though every call may end *)
(* in a crash (replaceClaim before restoreDatabase).                        *)
CallsBounded == \A i \in Id : calls[i] <= MaxAttempts

(* A completed state is true: since the claim the database has been exactly *)
(* what the operator was shown when the handoff was confirmed, even when    *)
(* the backup file was exchanged between the comparison and the copy.       *)
CompletedIsTrue == done # None => promised[done] \in seen

(* What keeps a claim from being carried out until somebody looks at it: an *)
(* unwritten staging file, another database, another backup, no call left.  *)
NeedsAttention ==
    \/ Torn \in {claimTmp, doneTmp}
    \/ claim # None /\ target \notin {claim.before, claim.backup}
    \/ claim # None /\ (~backup.ok \/ backup.content # claim.backup)
    \/ claim # None /\ claim.attempts = MaxAttempts

(* Every crash window of the consumer is recoverable: a claim that is on    *)
(* disk is completed in the end unless there is something to look at        *)
(* (recoverStaging, resumeClaim).                                           *)
ClaimsSettle == claim # None ~> (done # None \/ claim = None \/ NeedsAttention)

(* A handoff is carried out for what it is: its files are of one handoff,   *)
(* it restores at most as often as it may, and says so only when it did.    *)
HandoffSound == TypeOK /\ OneHandoff /\ CallsBounded /\ CompletedIsTrue
=============================================================================
