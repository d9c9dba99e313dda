--------------------------- MODULE OperationsProofs ---------------------------
(***************************************************************************)
(* What the operations around the bot promise: modules SchemaMigration,    *)
(* RestoreHandoff and ApplicationRelease, proved for any number of          *)
(* programs, migrations, sources, handoffs, releases, attempts, crashes and *)
(* databases.  They share nothing.                                          *)
(***************************************************************************)
EXTENDS SchemaMigration, RestoreHandoff, ApplicationRelease, FiniteSetTheorems, TLAPS

(***************************************************************************)
(* Migration.  Whoever holds the write lock works on a copy of a database   *)
(* that is still the supported, older one it was when the lock was taken;   *)
(* the copy only gains links and is of its ledger's version from the stage  *)
(* "migrate" on, from which alone it is committed.                          *)
(***************************************************************************)

\* The transaction belongs to the holder of the lock.
Locked == \A p \in Program : stage[p] \in InTransaction <=> writer = p

\* Foreign keys are off from the first look at an old database to the end of its
\* transaction.
Enforced ==
  \A p \in Program : stage[p] \in {"opened", "ready", "failed"} => enforced[p]

Linked(links) == \A s \in Source : Grounded(s, links)

\* What may be in the file.
Filed ==
  /\ Linked(disk.links) /\ "search" \notin disk.lacks
  /\ (\E p \in Program : stage[p] = "ready") => Finalized(disk) /\ Matches(disk, Current)

\* What the holder of the lock has made of it.
Copied ==
  \A p \in Program : writer = p =>
    /\ Supported(disk) /\ ~Finalized(disk)
    /\ Linked(work.links)
    /\ \A s \in Source : disk.links[s] # "legacy_unresolved" => work.links[s] = disk.links[s]
    /\ "search" \in work.lacks => stage[p] \in {"resolve", "search"}
    /\ stage[p] = "migrate" => Matches(work, work.ledger)

MigrationInv == MigrationTypeOK /\ Locked /\ Enforced /\ Filed /\ Copied

-----------------------------------------------------------------------------
\* applyMemorySourceResolutionPatch keeps every link that is there, and what it
\* adds names a row of the right kind: a worker's source is added last, when the
\* evidence it leans on has its own link.
LEMMA ResolvedIsGrounded ==
  ASSUME NEW links \in [Source -> Link], facts \in [Source -> Fact], Linked(links)
  PROVE  /\ Resolved(links) \in [Source -> Link]
         /\ Linked(Resolved(links))
         /\ \A s \in Source : links[s] # "legacy_unresolved" => Resolved(links)[s] = links[s]
<1> DEFINE own == [s \in Source |-> IF links[s] = "legacy_unresolved" THEN Named(s) ELSE links[s]]
           all == [s \in Source |-> IF own[s] = "legacy_unresolved" THEN Worked(s, own) ELSE own[s]]
<1>1. Resolved(links) = all  BY DEF Resolved
<1>2. ASSUME NEW s \in Source
      PROVE  /\ Named(s) \in Evidence \cup {"tool_call_id", "legacy_unresolved"}
             /\ Worked(s, own) \in {"job_id", "job_attempt_id", "legacy_unresolved"}
  BY DEF Named, Worked, Evidence
<1>3. \A s \in Source : links[s] # "legacy_unresolved" => own[s] = links[s]  OBVIOUS
<1>4. \A s \in Source : own[s] # "legacy_unresolved" => all[s] = own[s]  OBVIOUS
<1>5. \A s \in Source : own[s] \in Link /\ all[s] \in Link
  BY <1>2 DEF Link, Column, Evidence
<1>6. ASSUME NEW s \in Source PROVE Grounded(s, own)
  <2>1. CASE links[s] = "legacy_unresolved"
    <3>1. own[s] = Named(s)  BY <2>1
    <3> QED  BY <3>1, <1>2 DEF Named, Grounded, IsAlias, Evidence
  <2>2. CASE links[s] # "legacy_unresolved"
    <3>1. own[s] = links[s] /\ Grounded(s, links)  BY <2>2 DEF Linked
    <3>2. \A e \in facts[s].cites : links[e] \in Evidence => own[e] = links[e]
      BY <1>3 DEF Evidence, Fact
    <3> HIDE DEF own
    <3> QED  BY <3>1, <3>2 DEF Grounded
  <2> QED  BY <2>1, <2>2
<1>7. ASSUME NEW s \in Source PROVE Grounded(s, all)
  <2>0. \A e \in facts[s].cites : own[e] \in Evidence => all[e] = own[e]
    BY <1>4 DEF Evidence, Fact
  <2>1. CASE own[s] = "legacy_unresolved"
    <3>1. all[s] = Worked(s, own)  BY <2>1
    <3> HIDE DEF own, all
    <3>2. all[s] \in {"job_id", "job_attempt_id"} =>
            /\ facts[s].type = "worker_extraction"
            /\ facts[s].rows \cap {"job", "attempt"}
                 = {IF all[s] = "job_id" THEN "job" ELSE "attempt"}
            /\ \E e \in facts[s].cites : own[e] \in Evidence
      BY <3>1 DEF Worked
    <3>3. all[s] \in {"job_id", "job_attempt_id", "legacy_unresolved"}  BY <3>1, <1>2
    <3> QED  BY <3>2, <3>3, <2>0 DEF Grounded
  <2>2. CASE own[s] # "legacy_unresolved"
    <3>1. all[s] = own[s] /\ Grounded(s, own)  BY <2>2, <1>6
    <3> HIDE DEF own, all
    <3> QED  BY <3>1, <2>0 DEF Grounded
  <2> QED  BY <2>1, <2>2
<1> HIDE DEF own, all
<1>8. all \in [Source -> Link]
  <2>1. all = [s \in Source |-> all[s]]  BY DEF all
  <2> QED  BY <2>1, <1>5
<1> QED  BY <1>1, <1>3, <1>4, <1>7, <1>8 DEF Linked

-----------------------------------------------------------------------------
LEMMA MigrationInitSound == MigrationInit => MigrationInv
<1> SUFFICES ASSUME MigrationInit PROVE MigrationInv  OBVIOUS
<1> USE SchemaMigrationAssumption DEF SchemaMigrationAssumption, MigrationInit
<1>1. PICK i \in Inputs : disk = i.disk /\ facts = i.facts  OBVIOUS
<1>2. disk \in Disk /\ facts \in [Source -> Fact]  BY <1>1
<1>3. MigrationTypeOK
  BY <1>2 DEF MigrationTypeOK, Stage, Starting, InTransaction
<1>4. Locked /\ Enforced  BY DEF Locked, Enforced, InTransaction
<1>5. Filed  BY <1>1 DEF Filed, Linked
<1>6. Copied  BY DEF Copied
<1> QED  BY <1>3, <1>4, <1>5, <1>6 DEF MigrationInv

\* A statement of the transaction: what the program sees changes, and where it is.
LEMMA RewriteSound ==
  ASSUME MigrationInv, NEW p \in Program, NEW new \in Disk,
         NEW from \in InTransaction, NEW to \in InTransaction,
         Rewrite(p, from, to, new),
         Linked(new.links),
         \A s \in Source : work.links[s] # "legacy_unresolved" => new.links[s] = work.links[s],
         "search" \in new.lacks => to \in {"resolve", "search"},
         to = "migrate" => Matches(new, new.ledger)
  PROVE  MigrationInv'
<1> USE DEF MigrationInv, Rewrite, GoStage
<1>1. stage' = [stage EXCEPT ![p] = to] /\ stage[p] = from /\ work' = new
      /\ UNCHANGED <<disk, facts, writer, enforced>>
  OBVIOUS
<1>2. MigrationTypeOK'
  BY <1>1 DEF MigrationTypeOK, Stage, Starting
<1>3. Locked'  BY <1>1 DEF Locked, MigrationTypeOK
<1>4. Enforced'  BY <1>1 DEF Enforced, MigrationTypeOK, InTransaction
<1>5. Filed'
  BY <1>1 DEF Filed, Linked, Grounded, Finalized, Matches, MigrationTypeOK, InTransaction
<1>6. writer = p  BY <1>1 DEF Locked
<1>7. Copied'
  <2>1. ASSUME NEW s \in Source, disk.links[s] # "legacy_unresolved"
        PROVE  new.links[s] = disk.links[s]
    BY <1>6, <2>1 DEF Copied
  <2>2. Linked(new.links)'  BY <1>1 DEF Linked, Grounded
  <2>3. stage'[p] = to  BY <1>1 DEF MigrationTypeOK
  <2>4. Matches(work, work.ledger)' <=> Matches(new, new.ledger)  BY <1>1 DEF Matches
  <2> QED  BY <1>1, <1>6, <2>1, <2>2, <2>3, <2>4 DEF Copied, Supported, Finalized
<1> QED  BY <1>2, <1>3, <1>4, <1>5, <1>7

\* The finally block, with the transaction rolled back or never begun.
LEMMA FinishSound ==
  ASSUME MigrationInv, NEW p \in Program, NEW outcome \in {"ready", "failed"},
         Finish(p, outcome), UNCHANGED <<disk, facts, work>>,
         outcome = "ready" => Finalized(disk) /\ Matches(disk, Current)
  PROVE  MigrationInv'
<1> USE DEF MigrationInv, Finish, GoStage
<1>1. MigrationTypeOK'  BY DEF MigrationTypeOK, Stage
<1>2. NoProgram \notin Program
  BY SchemaMigrationAssumption DEF SchemaMigrationAssumption
<1>3. Locked'  BY <1>2 DEF Locked, MigrationTypeOK, InTransaction
<1>4. Enforced'  BY DEF Enforced, MigrationTypeOK
<1>5. Filed'
  BY DEF Filed, Linked, Grounded, Finalized, Matches, MigrationTypeOK
<1>6. Copied'
  BY <1>2 DEF Copied, Linked, Grounded, Finalized, Supported, Matches, MigrationTypeOK
<1> QED  BY <1>1, <1>3, <1>4, <1>5, <1>6

\* Before the transaction, and when the process ends, the rows are left alone.
LEMMA OutsideSound ==
  ASSUME MigrationInv, NEW p \in Program, Open(p) \/ Inspect(p) \/ Exit(p)
  PROVE  MigrationInv'
<1> USE DEF MigrationInv, GoStage
<1>0. NoProgram \notin Program
  BY SchemaMigrationAssumption DEF SchemaMigrationAssumption
<1>1. PICK to \in {"opened", "waiting", "ready", "failed", "closed"} :
        /\ stage' = [stage EXCEPT ![p] = to]
        /\ to = "ready" => Finalized(disk) /\ Matches(disk, Current)
  BY DEF Open, Inspect, Exit, Outcome
<1>2. UNCHANGED <<disk, facts, work>>  BY DEF Open, Inspect, Exit
<1>3. writer' = IF writer = p THEN NoProgram ELSE writer
  <2>1. CASE Open(p) \/ Inspect(p)
    <3>1. stage[p] \notin InTransaction /\ UNCHANGED writer
      BY <2>1 DEF Open, Inspect, InTransaction
    <3> QED  BY <3>1 DEF Locked
  <2>2. CASE Exit(p)  BY <2>2 DEF Exit
  <2> QED  BY <2>1, <2>2
<1>4. MigrationTypeOK'
  <2>1. enforced' \in [Program -> BOOLEAN]  BY DEF Open, Inspect, Exit, MigrationTypeOK
  <2> QED  BY <1>1, <1>2, <1>3, <2>1 DEF MigrationTypeOK, Stage, Starting
<1>5. Locked'  BY <1>0, <1>1, <1>3 DEF Locked, MigrationTypeOK, InTransaction
<1>6. Enforced'
  BY DEF Enforced, Open, Inspect, Exit, MigrationTypeOK
<1>7. Filed'
  BY <1>1, <1>2 DEF Filed, Linked, Grounded, Finalized, Matches, MigrationTypeOK
<1>8. Copied'
  BY <1>0, <1>1, <1>2, <1>3
  DEF Copied, Linked, Grounded, Finalized, Supported, Matches, MigrationTypeOK
<1> QED  BY <1>4, <1>5, <1>6, <1>7, <1>8

LEMMA BeginSound ==
  ASSUME MigrationInv, NEW p \in Program, BeginImmediate(p)
  PROVE  MigrationInv'
<1> USE DEF MigrationInv
<1>0. NoProgram \notin Program
  BY SchemaMigrationAssumption DEF SchemaMigrationAssumption
<1>1. CASE ~Supported(disk) \/ Finalized(disk)
  <2>1. Finish(p, Outcome(disk)) /\ UNCHANGED <<disk, facts, work>>
    BY <1>1 DEF BeginImmediate
  <2>2. Outcome(disk) \in {"ready", "failed"}
        /\ (Outcome(disk) = "ready" => Finalized(disk) /\ Matches(disk, Current))
    BY <1>1 DEF Outcome
  <2> QED  BY <2>1, <2>2, FinishSound
<1>2. CASE /\ Supported(disk) /\ ~Finalized(disk)
           /\ disk.ledger > 1 /\ ~Matches(disk, disk.ledger)
  <2>1. Finish(p, "failed") /\ UNCHANGED <<disk, facts, work>>
    BY <1>2 DEF BeginImmediate
  <2> QED  BY <2>1, FinishSound
<1>3. CASE /\ Supported(disk) /\ ~Finalized(disk)
           /\ ~(disk.ledger > 1 /\ ~Matches(disk, disk.ledger))
  <2>1. /\ stage[p] = "waiting" /\ writer = NoProgram
        /\ writer' = p /\ work' = disk /\ UNCHANGED <<disk, facts, enforced>>
        /\ stage' = [stage EXCEPT ![p] = IF disk.ledger <= 1 THEN "patch" ELSE "migrate"]
    BY <1>3 DEF BeginImmediate, GoStage
  <2>2. MigrationTypeOK'
    BY <2>1 DEF MigrationTypeOK, Stage, Starting, InTransaction
  <2>3. Locked'  BY <1>0, <2>1 DEF Locked, MigrationTypeOK, InTransaction
  <2>4. Enforced'  BY <2>1 DEF Enforced, MigrationTypeOK
  <2>5. Filed'
    BY <2>1 DEF Filed, Linked, Grounded, Finalized, Matches, MigrationTypeOK
  <2>6. Copied'
    <3>1. disk.ledger \in Nat
      BY SchemaMigrationAssumption DEF MigrationTypeOK, Disk, SchemaMigrationAssumption
    <3>2. stage'[p] = "migrate" => Matches(disk, disk.ledger)
      BY <1>3, <2>1, <3>1 DEF MigrationTypeOK
    <3>3. Matches(work, work.ledger)' <=> Matches(disk, disk.ledger)
      BY <2>1 DEF Matches
    <3>4. Linked(work.links)'  BY <2>1 DEF Filed, Linked, Grounded
    <3>5. "search" \notin work'.lacks  BY <2>1 DEF Filed
    <3> QED  BY <1>3, <2>1, <3>2, <3>3, <3>4, <3>5 DEF Copied, Supported, Finalized
  <2> QED  BY <2>2, <2>3, <2>4, <2>5, <2>6
<1> QED  BY <1>1, <1>2, <1>3

LEMMA StatementSound ==
  ASSUME MigrationInv, NEW p \in Program,
         PrePatch(p) \/ Rebuild(p) \/ Create(p) \/ Resolve(p) \/ Search(p) \/ Migrate(p)
  PROVE  MigrationInv'
<1> USE DEF MigrationInv
<1>1. work \in Disk /\ facts \in [Source -> Fact]  BY DEF MigrationTypeOK
<1>2. stage[p] \in InTransaction
  BY DEF PrePatch, Rebuild, Create, Resolve, Search, Migrate, Rewrite, InTransaction
<1>3. /\ Supported(disk) /\ ~Finalized(disk) /\ Linked(work.links)
      /\ "search" \in work.lacks => stage[p] \in {"resolve", "search"}
      /\ stage[p] = "migrate" => Matches(work, work.ledger)
  BY <1>2 DEF Locked, Copied
<1>4. 1 \in 0..Newest /\ Current \in 0..Newest /\ Newest \in Nat
  BY SchemaMigrationAssumption DEF SchemaMigrationAssumption
<1>5. CASE PrePatch(p)
  <2> DEFINE new == [work EXCEPT !.lacks = @ \ {"columns"}]
  <2>1. new \in Disk  BY <1>1 DEF Disk
  <2>2. Rewrite(p, "patch", "rebuild", new) /\ stage[p] = "patch"
    BY <1>5 DEF PrePatch, Rewrite
  <2>3. new.links = work.links /\ "search" \notin new.lacks  BY <1>1, <1>3, <2>2 DEF Disk
  <2> HIDE DEF new
  <2> QED  BY <1>3, <2>1, <2>2, <2>3, RewriteSound DEF InTransaction
<1>6. CASE Rebuild(p)
  <2> DEFINE new == [work EXCEPT !.lacks = IF "columns" \in @ THEN @ ELSE @ \ {"constraints"}]
  <2>1. new \in Disk  BY <1>1 DEF Disk
  <2>2. Rewrite(p, "rebuild", "create", new) /\ stage[p] = "rebuild"
    BY <1>6 DEF Rebuild, Rewrite
  <2>3. new.links = work.links /\ "search" \notin new.lacks  BY <1>1, <1>3, <2>2 DEF Disk
  <2> HIDE DEF new
  <2> QED  BY <1>3, <2>1, <2>2, <2>3, RewriteSound DEF InTransaction
<1>7. CASE Create(p)
  <2> DEFINE new == [work EXCEPT !.shape = IF @ = 0 THEN 1 ELSE @,
                                 !.lacks = (@ \ {"tables", "fts"})
                                           \cup (IF "fts" \in @ THEN {"search"} ELSE {})]
  <2>1. new \in Disk  BY <1>1, <1>4 DEF Disk, Deficit
  <2>2. Rewrite(p, "create", "resolve", new)  BY <1>7 DEF Create
  <2>3. new.links = work.links  BY <1>1 DEF Disk
  <2> HIDE DEF new
  <2> QED  BY <1>3, <2>1, <2>2, <2>3, RewriteSound DEF InTransaction
<1>8. CASE Resolve(p)
  <2> DEFINE new == [work EXCEPT !.lacks = @ \ {"indexes"}, !.links = Resolved(@)]
  <2>0. /\ Resolved(work.links) \in [Source -> Link]
        /\ Linked(Resolved(work.links))
        /\ \A s \in Source : work.links[s] # "legacy_unresolved" =>
             Resolved(work.links)[s] = work.links[s]
    BY <1>1, <1>3, ResolvedIsGrounded DEF Disk
  <2>1. new \in Disk  BY <1>1, <2>0 DEF Disk
  <2>2. Rewrite(p, "resolve", "search", new)  BY <1>8 DEF Resolve
  <2>3. new.links = Resolved(work.links)  BY <1>1 DEF Disk
  <2> HIDE DEF new
  <2> QED  BY <2>0, <2>1, <2>2, <2>3, RewriteSound DEF InTransaction
<1>9. CASE Search(p)
  <2> DEFINE new == [work EXCEPT !.lacks = @ \ {"search"}, !.ledger = 1]
  <2>1. new \in Disk  BY <1>1, <1>4 DEF Disk
  <2>2. Rewrite(p, "search", "migrate", new)  BY <1>9 DEF Search
  <2>3. new.links = work.links /\ "search" \notin new.lacks  BY <1>1 DEF Disk
  <2>4. Matches(new, new.ledger)
    <3>1. Matches(work, 1)  BY <1>9 DEF Search
    <3>2. /\ new.ledger = 1 /\ new.shape = work.shape /\ new.foreign = work.foreign
          /\ new.orphans = work.orphans /\ new.lacks = work.lacks \ {"search"}
      BY <1>1 DEF Disk
    <3> HIDE DEF new
    <3> QED  BY <3>1, <3>2 DEF Matches
  <2> HIDE DEF new
  <2> QED  BY <1>3, <2>1, <2>2, <2>3, <2>4, RewriteSound DEF InTransaction
<1>10. CASE Migrate(p)
  <2> DEFINE v == work.ledger + 1
             new == [work EXCEPT !.ledger = v, !.shape = v]
  <2>1. v \in 0..Newest
    BY <1>1, <1>4, <1>10 DEF Migrate, Disk
  <2>2. new \in Disk  BY <1>1, <2>1 DEF Disk
  <2>3. Rewrite(p, "migrate", "migrate", new) /\ stage[p] = "migrate"
    BY <1>10 DEF Migrate, Rewrite
  <2>4. new.links = work.links /\ "search" \notin new.lacks
    BY <1>1, <1>3, <2>3 DEF Disk
  <2>5. Matches(new, new.ledger)
    <3>1. Matches([work EXCEPT !.shape = v], v)  BY <1>10 DEF Migrate
    <3>2. /\ new.ledger = v /\ new.shape = v /\ new.foreign = work.foreign
          /\ new.orphans = work.orphans /\ new.lacks = work.lacks
      BY <1>1 DEF Disk
    <3>3. LET d == [work EXCEPT !.shape = v] IN
            /\ d.shape = v /\ d.foreign = work.foreign
            /\ d.orphans = work.orphans /\ d.lacks = work.lacks
      BY <1>1 DEF Disk
    <3> HIDE DEF new, v
    <3> QED  BY <3>1, <3>2, <3>3 DEF Matches
  <2> HIDE DEF new, v
  <2> QED  BY <1>3, <2>2, <2>3, <2>4, <2>5, RewriteSound DEF InTransaction
<1> QED  BY <1>5, <1>6, <1>7, <1>8, <1>9, <1>10

\* What a commit replaces, and by what.
LEMMA CommitReplaces ==
  ASSUME MigrationInv, NEW p \in Program, Commit(p)
  PROVE  /\ Supported(disk) /\ ~Finalized(disk)
         /\ Finalized(disk)' /\ Matches(disk, Current)'
         /\ Linked(disk.links)' /\ "search" \notin disk'.lacks
         /\ \A s \in Source : disk.links[s] # "legacy_unresolved" =>
              disk'.links[s] = disk.links[s]
<1> USE DEF MigrationInv
<1>1. stage[p] = "migrate" /\ work.ledger = Current /\ disk' = work /\ UNCHANGED facts
  BY DEF Commit, Finalized
<1>2. writer = p  BY <1>1 DEF Locked, InTransaction
<1>3. /\ Supported(disk) /\ ~Finalized(disk) /\ Linked(work.links)
      /\ \A s \in Source : disk.links[s] # "legacy_unresolved" => work.links[s] = disk.links[s]
      /\ "search" \notin work.lacks /\ Matches(work, Current)
  BY <1>1, <1>2 DEF Copied
<1>4. Linked(disk.links)'  BY <1>1, <1>3 DEF Linked, Grounded
<1>5. Finalized(disk)' /\ Matches(disk, Current)'  BY <1>1, <1>3 DEF Finalized, Matches
<1> QED  BY <1>1, <1>3, <1>4, <1>5

LEMMA CommitSound ==
  ASSUME MigrationInv, NEW p \in Program, Commit(p)
  PROVE  MigrationInv'
<1> USE DEF MigrationInv
<1>0. NoProgram \notin Program
  BY SchemaMigrationAssumption DEF SchemaMigrationAssumption
<1>1. /\ stage[p] = "migrate" /\ disk' = work /\ UNCHANGED <<facts, work>>
      /\ stage' = [stage EXCEPT ![p] = "ready"]
      /\ enforced' = [enforced EXCEPT ![p] = TRUE]
      /\ writer' = IF writer = p THEN NoProgram ELSE writer
  BY DEF Commit, Finish, GoStage
<1>2. writer = p  BY <1>1 DEF Locked, InTransaction
<1>3. MigrationTypeOK'  BY <1>1 DEF MigrationTypeOK, Stage
<1>4. Locked'  BY <1>0, <1>1, <1>2 DEF Locked, MigrationTypeOK, InTransaction
<1>5. Enforced'  BY <1>1 DEF Enforced, MigrationTypeOK
<1>6. Filed'  BY CommitReplaces DEF Filed
<1>7. Copied'  BY <1>0, <1>1, <1>2 DEF Copied
<1> QED  BY <1>3, <1>4, <1>5, <1>6, <1>7

LEMMA MigrationNextSound == MigrationInv /\ [MigrationNext]_migrationVars => MigrationInv'
<1> SUFFICES ASSUME MigrationInv, [MigrationNext]_migrationVars PROVE MigrationInv'
  OBVIOUS
<1>1. ASSUME NEW p \in Program, Open(p) \/ Inspect(p) \/ Exit(p) PROVE MigrationInv'
  BY <1>1, OutsideSound
<1>2. ASSUME NEW p \in Program, BeginImmediate(p) PROVE MigrationInv'
  BY <1>2, BeginSound
<1>3. ASSUME NEW p \in Program, Busy(p) \/ Throw(p) PROVE MigrationInv'
  <2>1. Finish(p, "failed") /\ UNCHANGED <<disk, facts, work>>
    BY <1>3 DEF Busy, Throw
  <2> QED  BY <2>1, FinishSound
<1>4. ASSUME NEW p \in Program,
             PrePatch(p) \/ Rebuild(p) \/ Create(p) \/ Resolve(p) \/ Search(p) \/ Migrate(p)
      PROVE  MigrationInv'
  BY <1>4, StatementSound
<1>5. ASSUME NEW p \in Program, Commit(p) PROVE MigrationInv'  BY <1>5, CommitSound
<1>6. CASE UNCHANGED migrationVars
  BY <1>6 DEF migrationVars, MigrationInv, MigrationTypeOK, Locked, Enforced, Filed, Copied,
     Linked, Grounded, Finalized, Supported, Matches
<1> QED  BY <1>1, <1>2, <1>3, <1>4, <1>5, <1>6 DEF MigrationNext, Run

\* Only a commit writes the file.
LEMMA OnlyCommitsWrite ==
  ASSUME MigrationInv, [MigrationNext]_migrationVars, disk' # disk
  PROVE  \E p \in Program : Commit(p)
<1>1. ASSUME NEW p \in Program, Open(p) \/ Inspect(p) \/ Exit(p) \/ Busy(p) \/ Throw(p)
      PROVE  UNCHANGED disk
  BY <1>1 DEF Open, Inspect, Exit, Busy, Throw
<1>2. ASSUME NEW p \in Program, BeginImmediate(p) PROVE UNCHANGED disk
  BY <1>2 DEF BeginImmediate
<1>3. ASSUME NEW p \in Program,
             PrePatch(p) \/ Rebuild(p) \/ Create(p) \/ Resolve(p) \/ Search(p) \/ Migrate(p)
      PROVE  UNCHANGED disk
  BY <1>3 DEF PrePatch, Rebuild, Create, Resolve, Search, Migrate, Rewrite
<1>4. CASE UNCHANGED migrationVars  BY <1>4 DEF migrationVars
<1> QED  BY <1>1, <1>2, <1>3, <1>4 DEF MigrationNext, Run

LEMMA MigrationInductive == MigrationSpec => []MigrationInv
  BY MigrationInitSound, MigrationNextSound, PTL DEF MigrationSpec

\* A process that is told its database is ready has one of its own version, whole,
\* and every link in it is what its source says: however many programs opened the
\* file at once, and wherever one of them was killed.
THEOREM DatabasesReady ==
  MigrationSpec => [](MigrationTypeOK /\ ReadyIsCurrent /\ SourcesAreGrounded)
<1>1. MigrationInv => MigrationTypeOK /\ ReadyIsCurrent /\ SourcesAreGrounded
  BY DEF MigrationInv, Filed, Enforced, Linked, ReadyIsCurrent, SourcesAreGrounded, Finalized
<1> QED  BY <1>1, MigrationInductive, PTL

\* "Any failure rolls the entire migration back to the exact input": the file goes
\* from a supported older version to the current one in one step, or stays as it is.
THEOREM MigrationsAreWhole == MigrationSpec => WholeOrNothing
<1>1. MigrationInv /\ [MigrationNext]_migrationVars
        => [disk' # disk =>
              /\ Supported(disk) /\ ~Finalized(disk)
              /\ Finalized(disk') /\ Matches(disk', Current)
              /\ \A s \in Source : disk.links[s] # "legacy_unresolved" =>
                   disk'.links[s] = disk.links[s]]_migrationVars
  <2> SUFFICES ASSUME MigrationInv, [MigrationNext]_migrationVars, disk' # disk
               PROVE  /\ Supported(disk) /\ ~Finalized(disk)
                      /\ Finalized(disk') /\ Matches(disk', Current)
                      /\ \A s \in Source : disk.links[s] # "legacy_unresolved" =>
                           disk'.links[s] = disk.links[s]
    OBVIOUS
  <2>1. PICK p \in Program : Commit(p)  BY OnlyCommitsWrite
  <2>2. Finalized(disk') /\ Matches(disk', Current)
    BY <2>1, CommitReplaces DEF Finalized, Matches
  <2> QED  BY <2>1, <2>2, CommitReplaces
<1> QED  BY <1>1, MigrationInductive, PTL DEF MigrationSpec, WholeOrNothing

\* Both: whatever file is found, the work starts on a database wholly migrated.
THEOREM MigrationsAreSound == MigrationSpec => MigrationSound
  BY DatabasesReady, MigrationsAreWhole, PTL DEF MigrationSound

(***************************************************************************)
(* The handoff of a restore.  A handoff is prepared in an empty directory,  *)
(* so every file and everything in memory is about the latest one.  A claim *)
(* records what the database and the backup were; whatever is written       *)
(* afterwards is new, so a database that is still as recorded has not been  *)
(* touched since.  The count of a claim is on disk before the call it is    *)
(* for.                                                                     *)
(***************************************************************************)

Files == {None, Torn}

(* The two programs take turns, and each knows what it is working on.       *)
Turns ==
    /\ pc # "idle" => svc # "up"
    /\ ppc # "idle" => svc = "up" /\ pmem # None
    /\ ppc = "idle" => pmem = None
    /\ pc \in {"idle", "recover", "dispatch"} => mem = None
    /\ pc \in {"claimStage", "claimWrite", "claimLink", "claimUnstage", "claimDrop", "resume",
               "execute", "attemptStage", "attemptWrite", "attemptRename", "restore", "verify",
               "doneStage", "doneWrite", "doneLink"} => mem # None

(* An envelope of the latest handoff: its digest was shown to the operator. *)
Shown(env) == env.id = handoffs /\ env.digest = promised[handoffs]

(* A claim of the latest handoff.  The database was as it says when it was  *)
(* made, and is so again only if nothing was written or restored since.     *)
Kept(c) ==
    /\ Shown(c.env) /\ c.backup = c.env.digest
    /\ c.before \in seen /\ target \in seen
    /\ c.before # c.backup =>
         /\ backup.content # c.before
         /\ target = c.before => seen = {c.before}

Latest ==
    /\ pend # None => Shown(pend)
    /\ pendTmp \notin Files => Shown(pendTmp)
    /\ pmem # None => Shown(pmem)
    /\ claim # None => Kept(claim)
    /\ claimTmp \notin Files => Kept(claimTmp)
    /\ mem # None => Kept(mem)
    /\ done # None => done = handoffs
    /\ doneTmp \notin Files => doneTmp = handoffs

(* Contents are numbered as they are made.                                  *)
Numbered == target <= made /\ backup.content <= made /\ seen \subseteq 1..made

(* Which files are there at which step of the consumer.                     *)
Staged ==
    /\ done # None \/ doneTmp # None => claimTmp = None
    /\ pc \in {"dispatch", "claimStage", "claimDrop", "resume", "execute", "attemptStage",
               "restore", "verify", "doneStage", "doneWrite", "doneLink"} => claimTmp = None
    /\ pc \in {"claimStage", "claimWrite", "claimLink", "claimUnstage", "claimDrop", "resume",
               "execute", "attemptStage", "attemptWrite", "attemptRename", "restore", "verify",
               "doneStage"} => done = None /\ doneTmp = None
    /\ pc = "claimLink" => claimTmp = mem
    /\ pc \in {"claimUnstage", "claimDrop", "resume", "execute", "attemptStage", "attemptWrite",
               "attemptRename"} => claim = mem
    /\ pc \in {"claimStage", "claimWrite", "claimLink", "claimUnstage", "claimDrop"} => pend # None
    /\ pc \in {"resume", "execute", "attemptStage", "attemptWrite", "attemptRename", "restore"}
         => pend = None
    /\ pc = "dispatch" => doneTmp = None
    /\ pc = "doneLink" => doneTmp = handoffs

(* A claim is counted before the call it is for.                            *)
Counted ==
    /\ \A i \in Id : calls[i] <= MaxAttempts /\ (i > handoffs => calls[i] = 0)
    /\ pend # None \/ ppc # "idle" => calls[handoffs] = 0
    /\ claim # None => calls[handoffs] <= claim.attempts
    /\ claimTmp \notin Files => calls[handoffs] <= claimTmp.attempts
    /\ pc \in {"attemptStage", "attemptWrite", "attemptRename"} => mem.attempts < MaxAttempts
    /\ pc = "attemptRename" => claimTmp = [mem EXCEPT !.attempts = @ + 1]
    /\ pc = "restore" => claim # None /\ calls[handoffs] < claim.attempts

(* What was promised was there; what is about to be replaced is untouched.  *)
Truthful ==
    /\ pc \in {"doneStage", "doneWrite", "doneLink"} \/ done # None \/ doneTmp \notin Files
         => promised[handoffs] \in seen
    /\ pc \in {"attemptStage", "attemptWrite", "attemptRename", "restore"} => seen = {target}

HandoffInv == TypeOK /\ Turns /\ Latest /\ Numbered /\ Staged /\ Counted /\ Truthful

-----------------------------------------------------------------------------
USE RestoreHandoffAssumption DEF RestoreHandoffAssumption

(* What every file and record holds is of its type, and the latest handoff  *)
(* has a number once there is a file.                                       *)
LEMMA ClaimFields ==
    ASSUME NEW c \in Claim
    PROVE  /\ c.attempts \in 0..MaxAttempts /\ c.before \in Content /\ c.backup \in Content
           /\ c.env \in Envelope /\ c.env.id \in Id /\ c.env.digest \in Content
           /\ c \notin Files
  BY DEF Claim, Envelope, Files

LEMMA HandoffInitSound == Init => HandoffInv
<1> SUFFICES ASSUME Init PROVE HandoffInv  OBVIOUS
<1>1. TypeOK
  <2>1. 2 \in Content /\ 1 \in Content  BY DEF Content
  <2>2. backup \in [content : Content, ok : BOOLEAN]  BY <2>1 DEF Init
  <2> QED  BY <2>1, <2>2 DEF Init, TypeOK, ConsumerStep
<1>2. Turns  BY DEF Init, Turns
<1>3. Latest  BY DEF Init, Latest, Files
<1>4. Numbered  BY DEF Init, Numbered
<1>5. Staged  BY DEF Init, Staged
<1>6. Counted  BY DEF Init, Counted, Files
<1>7. Truthful  BY DEF Init, Truthful, Files
<1> QED  BY <1>1, <1>2, <1>3, <1>4, <1>5, <1>6, <1>7 DEF HandoffInv

-----------------------------------------------------------------------------
(* The publisher                                                            *)

(* An empty directory and idle programs: all there is, is of the handoff    *)
(* that begins.                                                             *)
LEMMA PrepareSound ==
    ASSUME HandoffInv, Prepare
    PROVE  HandoffInv'
<1> USE DEF HandoffInv, Prepare, DirectoryEmpty, world, Files, Shown, Kept
<1> DEFINE env == [id |-> handoffs + 1, digest |-> backup.content, expires |-> now + Lifetime]
<1>a. env \in Envelope /\ env \notin Files /\ handoffs + 1 \in Id /\ pmem' = env
  <2>1. handoffs + 1 \in Id  BY DEF TypeOK, Id
  <2>2. now + Lifetime \in 0..(MaxNow + Lifetime)  BY DEF TypeOK
  <2>3. env \in Envelope  BY <2>1, <2>2 DEF TypeOK, Envelope
  <2> QED  BY <2>1, <2>3
<1>b. /\ handoffs' = handoffs + 1 /\ promised'[handoffs + 1] = backup.content
      /\ promised' \in [Id -> Content \cup {None}]
  BY <1>a DEF TypeOK
<1>c. env.id = handoffs + 1 /\ env.digest = backup.content  OBVIOUS
<1> HIDE DEF env
<1>1. TypeOK'  BY <1>a, <1>b DEF TypeOK, ConsumerStep
<1>2. Turns'  BY <1>1, <1>a DEF Turns, TypeOK
<1>3. Latest'  BY <1>1, <1>a, <1>b, <1>c DEF Latest, TypeOK, Turns, Numbered, Staged
<1>4. Numbered'  BY DEF Numbered, TypeOK, Content, Latest
<1>5. Staged'  BY DEF Staged, TypeOK, Turns, Latest
<1>6. Counted'  BY DEF Counted, TypeOK, Turns, Latest, Staged, Id
<1>7. Truthful'  BY DEF Truthful, Counted, TypeOK, Turns, Latest, Staged
<1> QED  BY <1>1, <1>2, <1>3, <1>4, <1>5, <1>6, <1>7

(* The envelope is written, linked and its staging name removed.            *)
LEMMA PublishSound ==
    ASSUME HandoffInv, PrepareWrite \/ PrepareLink \/ PrepareUnstage
    PROVE  HandoffInv'
<1> USE DEF HandoffInv, PrepareWrite, PrepareLink, PrepareUnstage, world, history,
       Files, Shown, Kept
<1>1. TypeOK'  BY DEF TypeOK, ConsumerStep
<1>2. Turns'  BY <1>1 DEF Turns, TypeOK
<1>3. Latest'  BY <1>1 DEF Latest, TypeOK, Turns, Numbered, Staged
<1>4. Numbered'  BY DEF Numbered, TypeOK, Content, Latest
<1>5. Staged'  BY DEF Staged, TypeOK, Turns, Latest
<1>6. Counted'  BY DEF Counted, TypeOK, Turns, Latest, Staged, Id
<1>7. Truthful'  BY DEF Truthful, Counted, TypeOK, Turns, Latest, Staged
<1> QED  BY <1>1, <1>2, <1>3, <1>4, <1>5, <1>6, <1>7

-----------------------------------------------------------------------------
(* The consumer                                                             *)

(* Nothing on disk changes.                                                 *)
LEMMA RefuseSound ==
    ASSUME HandoffInv, Begin \/ RecoverRefused \/ DispatchRefused \/ DispatchDone
    PROVE  HandoffInv'
<1> USE DEF HandoffInv, Begin, RecoverRefused, DispatchRefused, DispatchDone, Attention,
       ConsumerOnly, Goto, directory, history, world, Files, Shown, Kept, Unrecoverable,
       Claimable, NextAttempt, Preflight
<1>1. TypeOK'  BY DEF TypeOK, ConsumerStep
<1>2. Turns'  BY <1>1 DEF Turns, TypeOK
<1>3. Latest'  BY <1>1 DEF Latest, TypeOK, Turns, Numbered, Staged
<1>4. Numbered'  BY DEF Numbered, TypeOK, Content, Latest
<1>5. Staged'  BY DEF Staged, TypeOK, Turns, Latest
<1>6. Counted'  BY DEF Counted, TypeOK, Turns, Latest, Staged, Id
<1>7. Truthful'  BY DEF Truthful, Counted, TypeOK, Turns, Latest, Staged
<1> QED  BY <1>1, <1>2, <1>3, <1>4, <1>5, <1>6, <1>7

(* What is staged takes its place: it is of the same handoff.               *)
LEMMA RecoverSound ==
    ASSUME HandoffInv, RecoverLink \/ RecoverRename \/ RecoverUnstage
    PROVE  HandoffInv'
<1> USE DEF HandoffInv, RecoverLink, RecoverRename, RecoverUnstage, ConsumerOnly, Goto,
       directory, history, world, Files, Shown, Kept, Unrecoverable, NextAttempt
<1>1. TypeOK'  BY DEF TypeOK, ConsumerStep
<1>2. Turns'  BY <1>1 DEF Turns, TypeOK
<1>3. Latest'  BY <1>1 DEF Latest, TypeOK, Turns, Numbered, Staged
<1>4. Numbered'  BY DEF Numbered, TypeOK, Content, Latest
<1>5. Staged'  BY DEF Staged, TypeOK, Turns, Latest
<1>6. Counted'  BY DEF Counted, TypeOK, Turns, Latest, Staged, Id
<1>7. Truthful'  BY DEF Truthful, Counted, TypeOK, Turns, Latest, Staged
<1> QED  BY <1>1, <1>2, <1>3, <1>4, <1>5, <1>6, <1>7

LEMMA DispatchClaimSound ==
    ASSUME HandoffInv, DispatchClaim
    PROVE  HandoffInv'
<1> USE DEF HandoffInv, DispatchClaim, ConsumerOnly, Goto, directory, history, world,
       Files, Shown, Kept
<1>1. TypeOK'  BY DEF TypeOK, ConsumerStep
<1>2. Turns'  BY <1>1 DEF Turns, TypeOK
<1>3. Latest'  BY <1>1 DEF Latest, TypeOK, Turns, Numbered, Staged
<1>4. Numbered'  BY DEF Numbered, TypeOK, Content, Latest
<1>5. Staged'  BY DEF Staged, TypeOK, Turns, Latest
<1>6. Counted'  BY DEF Counted, TypeOK, Turns, Latest, Staged, Id
<1>7. Truthful'  BY DEF Truthful, Counted, TypeOK, Turns, Latest, Staged
<1> QED  BY <1>1, <1>2, <1>3, <1>4, <1>5, <1>6, <1>7

(* A claim begins: what the database and the backup are now is what they    *)
(* were when the claim was made.                                            *)
LEMMA DispatchPendingSound ==
    ASSUME HandoffInv, DispatchPending
    PROVE  HandoffInv'
<1> USE DEF HandoffInv, DispatchPending, ConsumerOnly, Goto, directory, history, world,
       Files, Shown, Kept, Claimable, Preflight
<1> DEFINE c == [env |-> pend, attempts |-> 0, backup |-> backup.content, before |-> target]
<1>a. c \in Claim /\ c \notin Files /\ mem' = c
  <2>1. c \in Claim  BY DEF TypeOK, Claim, Claimable
  <2> QED  BY <2>1
<1>b. c.env = pend /\ c.attempts = 0 /\ c.backup = backup.content /\ c.before = target
  OBVIOUS
<1>c. seen' = {target} /\ target \in Content  BY DEF TypeOK
<1> HIDE DEF c
<1>1. TypeOK'  BY <1>a, <1>c DEF TypeOK, ConsumerStep
<1>2. Turns'  BY <1>1, <1>a DEF Turns, TypeOK
<1>3. Latest'  BY <1>1, <1>a, <1>b, <1>c DEF Latest, TypeOK, Turns, Numbered, Staged
<1>4. Numbered'  BY DEF Numbered, TypeOK, Content, Latest
<1>5. Staged'  BY DEF Staged, TypeOK, Turns, Latest
<1>6. Counted'  BY DEF Counted, TypeOK, Turns, Latest, Staged, Id
<1>7. Truthful'  BY DEF Truthful, Counted, TypeOK, Turns, Latest, Staged
<1> QED  BY <1>1, <1>2, <1>3, <1>4, <1>5, <1>6, <1>7

(* The claim is published, and the pending envelope goes.                   *)
LEMMA ClaimSound ==
    ASSUME HandoffInv, ClaimStage \/ ClaimWrite \/ ClaimLink \/ ClaimUnstage \/
           ClaimDrop
    PROVE  HandoffInv'
<1> USE DEF HandoffInv, ClaimStage, ClaimWrite, ClaimLink, ClaimUnstage, ClaimDrop,
       ConsumerOnly, Goto, directory, history, world, Files, Shown, Kept
<1>a. mem # None /\ mem \in Claim /\ mem.attempts \in 0..MaxAttempts
  BY ClaimFields DEF TypeOK, Turns
<1>1. TypeOK'  BY DEF TypeOK, ConsumerStep
<1>2. Turns'  BY <1>1 DEF Turns, TypeOK
<1>3. Latest'  BY <1>1 DEF Latest, TypeOK, Turns, Numbered, Staged
<1>4. Numbered'  BY DEF Numbered, TypeOK, Content, Latest
<1>5. Staged'  BY DEF Staged, TypeOK, Turns, Latest
<1>6. Counted'  BY <1>a DEF Counted, TypeOK, Turns, Latest, Staged, Id
<1>7. Truthful'  BY DEF Truthful, Counted, TypeOK, Turns, Latest, Staged
<1> QED  BY <1>1, <1>2, <1>3, <1>4, <1>5, <1>6, <1>7

(* What there is to do.                                                     *)
LEMMA DecideSound ==
    ASSUME HandoffInv, Resume \/ Execute \/ Verify
    PROVE  HandoffInv'
<1> USE DEF HandoffInv, Resume, Execute, Verify, Attention, Overwrites, Preflight,
       ConsumerOnly, Goto, directory, history, world, Files, Shown, Kept
<1>1. TypeOK'  BY DEF TypeOK, ConsumerStep
<1>2. Turns'  BY <1>1 DEF Turns, TypeOK
<1>3. Latest'  BY <1>1 DEF Latest, TypeOK, Turns, Numbered, Staged
<1>4. Numbered'  BY DEF Numbered, TypeOK, Content, Latest
<1>5. Staged'  BY DEF Staged, TypeOK, Turns, Latest
<1>6. Counted'  BY DEF Counted, TypeOK, Turns, Latest, Staged, Id
<1>7. Truthful'  BY DEF Truthful, Counted, TypeOK, Turns, Latest, Staged
<1> QED  BY <1>1, <1>2, <1>3, <1>4, <1>5, <1>6, <1>7

(* The next count is written and takes the place of the claim.              *)
LEMMA AttemptSound ==
    ASSUME HandoffInv, AttemptStage \/ AttemptWrite \/ AttemptRename
    PROVE  HandoffInv'
<1> USE DEF HandoffInv, AttemptStage, AttemptWrite, AttemptRename, ConsumerOnly, Goto,
       directory, history, world, Files, Shown, Kept
<1> DEFINE next == [mem EXCEPT !.attempts = @ + 1]
<1>a. mem # None /\ mem \in Claim  BY DEF TypeOK, Turns
<1>b. /\ next.env = mem.env /\ next.backup = mem.backup /\ next.before = mem.before
      /\ next.attempts = mem.attempts + 1 /\ mem.attempts \in Nat
  BY <1>a DEF Claim
<1>c. next \in Claim /\ next \notin Files
  <2>1. mem.attempts + 1 \in 0..MaxAttempts  BY <1>a, <1>b, ClaimFields DEF Counted
  <2> QED  BY <1>a, <2>1, ClaimFields DEF Claim
<1>d. \/ pc = "attemptStage" /\ claimTmp' = Torn /\ UNCHANGED claim /\ pc' = "attemptWrite"
      \/ pc = "attemptWrite" /\ claimTmp' = next /\ UNCHANGED claim /\ pc' = "attemptRename"
      \/ pc = "attemptRename" /\ claimTmp = next /\ claim' = next /\ claimTmp' = None
         /\ pc' = "restore"
  BY DEF Counted
<1> HIDE DEF next, AttemptStage, AttemptWrite, AttemptRename
<1>e. UNCHANGED <<world, pend, pendTmp, done, doneTmp, ppc, pmem, mem, handoffs, history>>
  BY DEF AttemptStage, AttemptWrite, AttemptRename
<1>f. next = [mem EXCEPT !.attempts = @ + 1]  BY DEF next
<1>g. calls[handoffs] <= mem.attempts /\ mem.attempts < MaxAttempts
  BY <1>a, <1>d DEF Counted, Staged
<1>h. calls[handoffs] \in Nat /\ handoffs \in Id  BY <1>a, ClaimFields DEF TypeOK, Latest
<1>i. pend = None /\ ppc = "idle"  BY <1>d DEF Staged, Turns
<1>1. TypeOK'  BY <1>c, <1>d, <1>e DEF TypeOK, ConsumerStep
<1>2. Turns'  BY <1>1, <1>a, <1>d, <1>e DEF Turns, TypeOK
<1>3. Latest'  BY <1>1, <1>a, <1>b, <1>c, <1>d, <1>e DEF Latest, TypeOK, Turns, Numbered, Staged
<1>4. Numbered'  BY <1>e DEF Numbered, TypeOK, Content, Latest
<1>5. Staged'  BY <1>d, <1>e DEF Staged, TypeOK, Turns, Latest
<1>6. Counted'
  <2>1. \A i \in Id : calls'[i] <= MaxAttempts /\ (i > handoffs' => calls'[i] = 0)
    BY <1>e DEF Counted, history
  <2>2. pend' = None /\ ppc' = "idle"  BY <1>e, <1>i
  <2>3. claim' # None => calls'[handoffs'] <= claim'.attempts
    BY <1>b, <1>d, <1>e, <1>g, <1>h DEF Counted, history
  <2>4. claimTmp' \notin Files => calls'[handoffs'] <= claimTmp'.attempts
    BY <1>b, <1>d, <1>e, <1>g, <1>h DEF Counted, history
  <2>5. mem'.attempts < MaxAttempts  BY <1>e, <1>g
  <2>6. pc' = "attemptRename" => claimTmp' = [mem' EXCEPT !.attempts = @ + 1]
    BY <1>d, <1>e, <1>f
  <2>7. pc' = "restore" => claim' # None /\ calls'[handoffs'] < claim'.attempts
    BY <1>b, <1>c, <1>d, <1>e, <1>g, <1>h DEF history
  <2> QED  BY <1>d, <2>1, <2>2, <2>3, <2>4, <2>5, <2>6, <2>7 DEF Counted
<1>7. Truthful'  BY <1>d, <1>e DEF Truthful, Counted, TypeOK, Turns, Latest, Staged
<1> QED  BY <1>1, <1>2, <1>3, <1>4, <1>5, <1>6, <1>7

(* The call that was counted.                                               *)
LEMMA RestoreSound ==
    ASSUME HandoffInv, Restore \/ RestoreFails
    PROVE  HandoffInv'
<1> USE DEF HandoffInv, Restore, RestoreFails, Called, ConsumerOnly, Goto, directory,
       history, world, Files, Shown, Kept
<1>a. mem \in Claim /\ mem.env.id = handoffs /\ handoffs \in Id
  BY ClaimFields DEF TypeOK, Turns, Latest
<1>b. /\ calls' \in [Id -> Nat] /\ calls'[handoffs] = calls[handoffs] + 1
      /\ \A i \in Id \ {handoffs} : calls'[i] = calls[i]
  BY <1>a DEF TypeOK
<1>c. claim \in Claim /\ claim.attempts \in 0..MaxAttempts /\ calls[handoffs] < claim.attempts
  BY ClaimFields DEF TypeOK, Counted
<1>d. pend = None /\ ppc = "idle"  BY DEF Staged, Turns
<1>1. TypeOK'  BY <1>b DEF TypeOK, ConsumerStep
<1>2. Turns'  BY <1>1 DEF Turns, TypeOK
<1>3. Latest'  BY <1>1 DEF Latest, TypeOK, Turns, Numbered, Staged
<1>4. Numbered'  BY DEF Numbered, TypeOK, Content, Latest
<1>5. Staged'  BY DEF Staged, TypeOK, Turns, Latest
<1>6. Counted'
  <2>1. claimTmp = None /\ pc' \in {"verify", "idle"}  BY DEF Staged
  <2>2. UNCHANGED <<handoffs, pend, ppc, claim, claimTmp>>  OBVIOUS
  <2>3. calls[handoffs] \in Nat  BY <1>a DEF TypeOK
  <2>4. \A i \in Id : calls'[i] <= MaxAttempts /\ (i > handoffs => calls'[i] = 0)
    <3>1. calls'[handoffs] <= MaxAttempts  BY <1>b, <1>c, <2>3
    <3> QED  BY <1>b, <3>1, <1>a DEF Counted, TypeOK, Id
  <2>5. calls'[handoffs] <= claim.attempts  BY <1>b, <1>c, <2>3
  <2> QED  BY <1>d, <2>1, <2>2, <2>4, <2>5 DEF Counted
<1>7. Truthful'  BY DEF Truthful, Counted, TypeOK, Turns, Latest, Staged
<1> QED  BY <1>1, <1>2, <1>3, <1>4, <1>5, <1>6, <1>7

(* The completed state is published, then what it is about removed.         *)
LEMMA CompleteSound ==
    ASSUME HandoffInv, DoneStage \/ DoneWrite \/ DoneLink \/ DoneUnstage \/ CleanPending
           \/ CleanClaim
    PROVE  HandoffInv'
<1> USE DEF HandoffInv, DoneStage, DoneWrite, DoneLink, DoneUnstage, CleanPending,
       CleanClaim, ConsumerOnly, Goto, directory, history, world, Files, Shown, Kept,
       Own
<1>a. pc \in {"doneStage", "doneWrite", "doneLink"} => mem.env.id = handoffs /\ handoffs \in Id
  BY ClaimFields DEF TypeOK, Turns, Latest
<1>1. TypeOK'  BY <1>a DEF TypeOK, ConsumerStep
<1>2. Turns'  BY <1>1 DEF Turns, TypeOK
<1>3. Latest'  BY <1>1, <1>a DEF Latest, TypeOK, Turns, Numbered, Staged
<1>4. Numbered'  BY DEF Numbered, TypeOK, Content, Latest
<1>5. Staged'  BY <1>a DEF Staged, TypeOK, Turns, Latest
<1>6. Counted'  BY DEF Counted, TypeOK, Turns, Latest, Staged, Id
<1>7. Truthful'  BY DEF Truthful, Counted, TypeOK, Turns, Latest, Staged
<1> QED  BY <1>1, <1>2, <1>3, <1>4, <1>5, <1>6, <1>7

-----------------------------------------------------------------------------
(* The world around them                                                    *)

LEMMA ServiceSound ==
    ASSUME HandoffInv, Start \/ Stop \/ Tick \/ BackupDamaged
    PROVE  HandoffInv'
<1> USE DEF HandoffInv, Start, Stop, Tick, BackupDamaged, Elsewhere, directory, Files,
       Shown, Kept
<1>a. backup' \in [content : Content, ok : BOOLEAN] /\ backup'.content = backup.content
  BY DEF TypeOK
<1>1. TypeOK'  BY <1>a DEF TypeOK, ConsumerStep
<1>2. Turns'  BY <1>1 DEF Turns, TypeOK
<1>3. Latest'  BY <1>1, <1>a DEF Latest, TypeOK, Turns, Numbered, Staged
<1>4. Numbered'  BY <1>a DEF Numbered, TypeOK, Content, Latest
<1>5. Staged'  BY DEF Staged, TypeOK, Turns, Latest
<1>6. Counted'  BY DEF Counted, TypeOK, Turns, Latest, Staged, Id
<1>7. Truthful'  BY DEF Truthful, Counted, TypeOK, Turns, Latest, Staged
<1> QED  BY <1>1, <1>2, <1>3, <1>4, <1>5, <1>6, <1>7

(* New content is like no other: a database or a backup that changed stays  *)
(* so.                                                                      *)
LEMMA ContentSound ==
    ASSUME HandoffInv, Write \/ BackupReplaced
    PROVE  HandoffInv'
<1> USE DEF HandoffInv, Write, BackupReplaced, Elsewhere, directory, Files, Shown, Kept
<1>a. made + 1 \in Content /\ made' = made + 1  BY DEF TypeOK, Content
<1>b. \A x \in seen : x # made + 1  BY DEF Numbered, TypeOK, Content
<1>c. /\ backup' \in [content : Content, ok : BOOLEAN] /\ backup'.content \in {backup.content, made + 1}
      /\ target' \in {target, made + 1} /\ seen' \subseteq seen \cup {made + 1}
  <2>1. CASE Write  BY <1>a, <2>1 DEF TypeOK
  <2>2. CASE BackupReplaced  BY <1>a, <2>2 DEF TypeOK
  <2> QED  BY <2>1, <2>2
<1>d. made \in Nat /\ target \in Nat /\ backup.content \in Nat  BY DEF TypeOK, Content
<1>1. TypeOK'  BY <1>a, <1>c DEF TypeOK, ConsumerStep
<1>2. Turns'  BY <1>1 DEF Turns, TypeOK
<1>3. Latest'  BY <1>1, <1>a, <1>b DEF Latest, TypeOK, Turns, Numbered, Staged
<1>4. Numbered'  BY <1>a, <1>c, <1>d DEF Numbered, TypeOK, Content, Latest
<1>5. Staged'  BY DEF Staged, TypeOK, Turns, Latest
<1>6. Counted'  BY DEF Counted, TypeOK, Turns, Latest, Staged, Id
<1>7. Truthful'  BY DEF Truthful, Counted, TypeOK, Turns, Latest, Staged
<1> QED  BY <1>1, <1>2, <1>3, <1>4, <1>5, <1>6, <1>7

LEMMA CrashSound ==
    ASSUME HandoffInv, ServiceCrash \/ ConsumerCrash
    PROVE  HandoffInv'
<1> USE DEF HandoffInv, ServiceCrash, ConsumerCrash, Elsewhere, directory, history,
       Files, Shown, Kept
<1>1. TypeOK'  BY DEF TypeOK, ConsumerStep
<1>2. Turns'  BY <1>1 DEF Turns, TypeOK
<1>3. Latest'  BY <1>1 DEF Latest, TypeOK, Turns, Numbered, Staged
<1>4. Numbered'  BY DEF Numbered, TypeOK, Content, Latest
<1>5. Staged'  BY DEF Staged, TypeOK, Turns, Latest
<1>6. Counted'  BY DEF Counted, TypeOK, Turns, Latest, Staged, Id
<1>7. Truthful'  BY DEF Truthful, Counted, TypeOK, Turns, Latest, Staged
<1> QED  BY <1>1, <1>2, <1>3, <1>4, <1>5, <1>6, <1>7

LEMMA ClearSound ==
    ASSUME HandoffInv, Clear
    PROVE  HandoffInv'
<1> USE DEF HandoffInv, Clear, world, history, Files, Shown, Kept
<1>1. TypeOK'  BY DEF TypeOK, ConsumerStep
<1>2. Turns'  BY <1>1 DEF Turns, TypeOK
<1>3. Latest'  BY <1>1 DEF Latest, TypeOK, Turns, Numbered, Staged
<1>4. Numbered'  BY DEF Numbered, TypeOK, Content, Latest
<1>5. Staged'  BY DEF Staged, TypeOK, Turns, Latest
<1>6. Counted'  BY DEF Counted, TypeOK, Turns, Latest, Staged, Id
<1>7. Truthful'  BY DEF Truthful, Counted, TypeOK, Turns, Latest, Staged
<1> QED  BY <1>1, <1>2, <1>3, <1>4, <1>5, <1>6, <1>7

LEMMA HandoffNextSound == HandoffInv /\ [Next]_vars => HandoffInv'
<1> SUFFICES ASSUME HandoffInv, [Next]_vars PROVE HandoffInv'  OBVIOUS
<1>1. CASE Consume
  BY <1>1, RefuseSound, RecoverSound, DispatchClaimSound, DispatchPendingSound, ClaimSound,
     DecideSound, AttemptSound, RestoreSound, CompleteSound DEF Consume
<1>2. CASE UNCHANGED vars
  BY <1>2 DEF vars, world, directory, history, HandoffInv, TypeOK, Turns, Latest, Kept, Shown,
     Numbered, Staged, Counted, Truthful
<1> QED
  BY <1>1, <1>2, PrepareSound, PublishSound, RefuseSound, ServiceSound, ContentSound, CrashSound,
     ClearSound DEF Next

LEMMA HandoffInductive == Spec => []HandoffInv
  BY HandoffInitSound, HandoffNextSound, PTL DEF Spec

(* A handoff is carried out for what it is, through any number of crashes   *)
(* of either program: its files are never mixed with another's, it restores *)
(* no more often than allowed, and a completed state is true.               *)
THEOREM HandoffsAreSound == Spec => []HandoffSound
<1>1. HandoffInv => HandoffSound
  <2> SUFFICES ASSUME HandoffInv PROVE HandoffSound  OBVIOUS
  <2>1. TypeOK  BY DEF HandoffInv
  <2>2. OneHandoff
    <3> DEFINE ids == {e.id : e \in {pend, pendTmp} \ {None, Torn}}
                      \cup {c.env.id : c \in {claim, claimTmp} \ {None, Torn}}
                      \cup ({done, doneTmp} \ {None, Torn})
    <3>1. ids \subseteq {handoffs}
      BY DEF HandoffInv, Latest, Kept, Shown, Files
    <3>2. IsFiniteSet({handoffs}) /\ Cardinality({handoffs}) = 1  BY FS_Singleton
    <3>3. Cardinality(ids) <= Cardinality({handoffs})  BY <3>1, <3>2, FS_Subset
    <3> QED  BY <3>2, <3>3 DEF OneHandoff
  <2>3. CallsBounded  BY DEF HandoffInv, Counted, CallsBounded
  <2>4. CompletedIsTrue  BY DEF HandoffInv, Latest, Truthful, CompletedIsTrue
  <2> QED  BY <2>1, <2>2, <2>3, <2>4 DEF HandoffSound
<1> QED  BY <1>1, HandoffInductive, PTL

(* The restore replaces only the database that was there when the claim was *)
(* made, and only if nothing was written to it since.                       *)
THEOREM NothingNewLost == Spec => NothingNewOverwritten
<1>1. HandoffInv /\ [Next]_vars
        => [pc = "restore" /\ pc' = "verify" => seen = {target}]_vars
  BY DEF HandoffInv, Truthful
<1> QED  BY <1>1, HandoffInductive, PTL DEF Spec, NothingNewOverwritten

(***************************************************************************)
(* Releases.  The invariant says what the files, the links, the permit and  *)
(* the database hold at every step of the four programs, and what of it is  *)
(* left when the program is interrupted there: the phase in the journal.    *)
(* One lemma per kind of step shows that it is kept.                        *)
(***************************************************************************)

\* Operation `mode' is at one of its steps a to b.
Between(mode, a, b) == op.mode = mode /\ op.pc \in a..b

Lengths ==
  [mode \in {"activate", "undo", "restart", "confirm"} |->
     IF mode = "activate" THEN 21 ELSE IF mode = "undo" THEN 24
     ELSE IF mode = "restart" THEN 12 ELSE 9]

Operating ==
  \/ op = Resting
  \/ /\ op \in [mode : {"activate", "undo", "restart", "confirm"}, pc : Nat \ {0},
                candidate : Pointer]
     /\ op.pc <= Lengths[op.mode]
     /\ op.mode = "activate" => op.candidate \in Release

\* The phase an operation finds, and the one it leaves.  An activation has a
\* number of its own before its intent is recorded.
Restorable == {"snapshot_ready", "awaiting_confirmation"}

Phased ==
  /\ Between("activate", 1, 3) =>
       /\ journal = NoJournal /\ op.candidate # pointer.current
       /\ db.schema <= Schema[op.candidate]
       /\ \A r \in Release : <<ops, r>> \in db.marks => r = pointer.current
       /\ \A r \in Release : <<ops, r>> \notin undone
  /\ Between("activate", 4, 9) =>
       journal.phase = "intent_recorded" /\ db.schema <= Schema[journal.candidate]
  /\ Between("activate", 10, 21) => journal.phase = "snapshot_ready"
  /\ Between("undo", 1, 19) => journal.phase \in {"intent_recorded"} \cup Restorable
  /\ Between("undo", 20, 24) => journal.phase = "rollback_completed"
  /\ Between("restart", 1, 12) => journal.phase \in {"confirming", "rollback_completed"}
  /\ Between("confirm", 1, 4) =>
       journal.phase = "awaiting_confirmation" /\ pointer = Target(journal)
  /\ Between("confirm", 2, 4) => link = {} /\ db.there /\ db.schema >= Schema[journal.candidate]
  /\ Between("confirm", 5, 9) => journal.phase = "confirming"

Writing == Between("activate", 2, 2) \/ Between("activate", 8, 8) \/ Between("activate", 20, 20)
             \/ Between("undo", 18, 18) \/ Between("confirm", 3, 3)
Renaming == Between("activate", 3, 3) \/ Between("activate", 9, 9) \/ Between("activate", 21, 21)
             \/ Between("undo", 19, 19) \/ Between("confirm", 4, 4)

\* A temporary journal is left by an interrupted write only, and by an activation
\* to the rollback that follows it.
Written ==
  /\ temp # Missing => Reconcilable
  /\ (Between("activate", 1, 21) \/ Between("confirm", 1, 9)) /\ ~Writing /\ ~Renaming =>
       temp = Missing
  /\ Between("undo", 1, 17) => temp \in {Missing, Partial}
  /\ Between("undo", 20, 24) \/ Between("restart", 1, 12) => temp = Missing
  /\ Writing => temp = Partial
  /\ Renaming => temp = Successor

\* Where the links point, whose temporary links there are and what is swept.
Placed ==
  /\ journal = NoJournal => CleanRoot
  /\ journal # NoJournal =>
       Coherent(journal) /\ pointer \in Explained(journal) /\ LinksOwned(journal)
  /\ journal.phase \in {"rollback_completed", "confirming"} => link = {}
  /\ Between("activate", 1, 10) \/ Between("activate", 12, 12) \/ Between("activate", 14, 21)
       => link = {}
  /\ Between("activate", 10, 11) => pointer = Original(journal)
  /\ Between("activate", 12, 13) => pointer = Intermediate(journal)
  /\ Between("activate", 14, 21) => pointer = Target(journal)
  /\ Between("undo", 8, 8) \/ Between("undo", 10, 10) \/ Between("undo", 12, 24) => link = {}
  /\ Between("undo", 10, 11) => pointer.current = journal.current
  /\ Between("undo", 12, 24) => pointer = Original(journal)
  /\ running # NoRelease /\ journal.phase = "awaiting_confirmation"
       /\ pointer.current = journal.candidate => link = {}
  /\ Between("undo", 21, 24) \/ Between("restart", 9, 12) \/ Between("confirm", 6, 9) =>
       restore = Absent
  /\ Between("undo", 24, 24) \/ Between("restart", 12, 12) \/ Between("confirm", 9, 9) => ~folder

\* A permit is there for the one start that an operation is about to make, or has
\* made, or has been interrupted at.
Permitted ==
  /\ journal.phase = "awaiting_confirmation" /\ pointer.current = journal.candidate =>
       permit.at = "missing"
  /\ journal.phase = "rollback_completed" /\ journal.current = NoRelease => permit.at = "missing"
  /\ Between("activate", 1, 14) \/ Between("activate", 18, 21) => permit.at = "missing"
  /\ Between("activate", 15, 15) => permit.at = "temp"
  /\ Between("undo", 2, 2) /\ wanted => permit.at # "granted"
  /\ Between("undo", 3, 12) \/ Between("undo", 16, 24) => permit.at = "missing"
  /\ Between("undo", 13, 13) => permit.at \in {"missing", "temp"}
  /\ Between("undo", 3, 24) /\ journal.current = NoRelease => permit.at = "missing"
  /\ Between("restart", 7, 12) \/ Between("confirm", 1, 9) => permit.at = "missing"

\* Between its stop and its own start of the application an operation has the
\* files to itself.
Stopped ==
  /\ RunsCurrent
  /\ Between("activate", 5, 15) \/ Between("undo", 2, 13) => running = NoRelease

\* What the snapshot of an operation holds: what the original release had stored
\* and can read.
Taken(j) ==
  /\ j.current \in Release => j.taken.there /\ j.taken.schema = Schema[j.current]
  /\ j.taken.schema <= Schema[j.candidate]
  /\ <<ops, j.candidate>> \notin j.taken.marks
  /\ settled \subseteq j.taken.marks
  /\ j.taken.marks \cap undone = {}
  /\ \A m \in j.taken.marks : m[1] <= ops
  /\ j.taken.there => j.taken.schema # 0
  /\ ~j.taken.there => j.taken = Absent

Snapshots ==
  /\ journal.phase \in Restorable => SnapshotValid /\ Taken(journal)
  /\ Between("activate", 7, 9) => snapshot = db
  /\ Between("activate", 10, 15) => db = journal.taken
  /\ Between("undo", 4, 4) => restore = Absent
  /\ Between("undo", 5, 5) /\ ~journal.taken.there => restore = Absent
  /\ Between("undo", 6, 6) /\ journal.taken # Unset => restore = journal.taken
  /\ Between("undo", 7, 13) /\ journal.taken # Unset => db = journal.taken

Stored ==
  /\ \A m \in db.marks \cup undone : m[1] <= ops
  /\ db.there => db.schema # 0
  /\ ~db.there => db = Absent
  /\ db.marks \cap undone = {}
  /\ settled \subseteq db.marks
  /\ \A r \in Release : <<ops, r>> \in undone =>
       journal.phase \in {"none", "rollback_completed"} /\ pointer.current # r
  /\ journal # NoJournal /\ pointer.current = journal.current =>
       <<ops, journal.candidate>> \notin db.marks
  /\ pointer.current \in Release => db.schema <= Schema[pointer.current]
  /\ pointer.current \in Release
       /\ (\/ journal = NoJournal \/ pointer.current = journal.current
           \/ journal.phase = "confirming" \/ running # NoRelease)
     => db.there /\ db.schema >= Schema[pointer.current]

ReleaseInv ==
  /\ ReleaseTypeOK /\ Operating /\ Phased /\ Written /\ Placed
  /\ Permitted /\ Stopped /\ Snapshots /\ Stored

\* Operation `mode' is at its step n.
In(mode, n) == op.mode = mode /\ op.pc = n

\* The places of each step in the four programs.
LEMMA Numbers ==
  ASSUME NEW n \in Nat \ {0}, n <= 24
  PROVE  n \in {1, 2, 3, 4, 5, 6, 7, 8, 9, 10, 11, 12, 13, 14, 15, 16, 17, 18, 19, 20, 21, 22, 23, 24}
  OBVIOUS

LEMMA Places ==
  ASSUME Operating
  PROVE  /\ At = "none" => op = Resting
         /\ At = "open" => In("activate", 1) \/ In("activate", 7) \/ In("activate", 19)
              \/ In("undo", 17) \/ In("confirm", 2)
         /\ At = "write" => In("activate", 2) \/ In("activate", 8) \/ In("activate", 20)
              \/ In("undo", 18) \/ In("confirm", 3)
         /\ At = "rename" => In("activate", 3) \/ In("activate", 9) \/ In("activate", 21)
              \/ In("undo", 19) \/ In("confirm", 4)
         /\ At = "stop" => In("activate", 4) \/ In("undo", 1) \/ In("restart", 1)
         /\ At = "backup" => In("activate", 5)
         /\ At = "publish" => In("activate", 6)
         /\ At = "linkPrevious" => In("activate", 10) \/ In("undo", 10)
         /\ At = "movePrevious" => In("activate", 11) \/ In("undo", 11)
         /\ At = "linkCurrent" => In("activate", 12) \/ In("undo", 8)
         /\ At = "moveCurrent" => In("activate", 13) \/ In("undo", 9)
         /\ At = "request" => In("activate", 14) \/ In("undo", 12) \/ In("restart", 3)
         /\ At = "grant" => In("activate", 15) \/ In("undo", 13) \/ In("restart", 4)
         /\ At = "start" => In("activate", 16) \/ In("undo", 14) \/ In("restart", 5)
         /\ At = "health" => In("activate", 17) \/ In("undo", 15) \/ In("restart", 6)
         /\ At = "ready" => In("activate", 18) \/ In("undo", 16) \/ In("restart", 7)
              \/ In("confirm", 1)
         /\ At = "revoke" => In("undo", 2) \/ In("restart", 2)
         /\ At = "discard" => In("undo", 3) \/ In("undo", 20) \/ In("restart", 8)
              \/ In("confirm", 5)
         /\ At = "openCopy" => In("undo", 4)
         /\ At = "copy" => In("undo", 5)
         /\ At = "swap" => In("undo", 6)
         /\ At = "unlink" => In("undo", 7)
         /\ At = "dropPending" => In("undo", 21) \/ In("restart", 9) \/ In("confirm", 6)
         /\ At = "dropSnapshot" => In("undo", 22) \/ In("restart", 10) \/ In("confirm", 7)
         /\ At = "rmdir" => In("undo", 23) \/ In("restart", 11) \/ In("confirm", 8)
         /\ At = "clear" => In("undo", 24) \/ In("restart", 12) \/ In("confirm", 9)
<1>1. CASE op = Resting
  BY <1>1 DEF At
<1>2. CASE op # Resting /\ op.mode = "activate"
  BY <1>2, Numbers DEF In, At, StepsOf, Operating, Lengths, Activate
<1>3. CASE op # Resting /\ op.mode = "undo"
  BY <1>3, Numbers DEF In, At, StepsOf, Operating, Lengths, Undo
<1>4. CASE op # Resting /\ op.mode = "restart"
  BY <1>4, Numbers DEF In, At, StepsOf, Operating, Lengths, Restart
<1>5. CASE op # Resting /\ op.mode = "confirm"
  BY <1>5, Numbers DEF In, At, StepsOf, Operating, Lengths, Confirm
<1> QED  BY <1>1, <1>2, <1>3, <1>4, <1>5 DEF Operating

\* What the next step of an operation is.
LEMMA Advances ==
  ASSUME Operating, op # Resting, Advance
  PROVE  /\ Operating'
         /\ op.pc = Lengths[op.mode] => op' = Resting
         /\ op.pc # Lengths[op.mode] =>
              op' # Resting /\ op'.mode = op.mode /\ op'.pc = op.pc + 1 /\ op'.candidate = op.candidate
<1>1. Len(StepsOf(op.mode)) = Lengths[op.mode]
  BY DEF Operating, Lengths, StepsOf, Undo, Activate, Restart, Confirm
<1> QED  BY <1>1 DEF Advance, Operating, Lengths, Resting


\* Moving one link leaves the other.
LEMMA PreviousMoves ==
  ASSUME NEW p \in [{"current", "previous"} -> Pointer], NEW a
  PROVE  [p EXCEPT !["previous"] = a] = [current |-> p["current"], previous |-> a]
<1> DEFINE f == [p EXCEPT !["previous"] = a]
           g == [current |-> p["current"], previous |-> a]
<1>1. /\ f["current"] = g["current"] /\ f["previous"] = g["previous"]
      /\ f = [x \in {"current", "previous"} |-> f[x]]
      /\ g = [x \in {"current", "previous"} |-> g[x]]
  OBVIOUS
<1> HIDE DEF f, g
<1>2. [x \in {"current", "previous"} |-> f[x]] = [x \in {"current", "previous"} |-> g[x]]
  BY <1>1
<1>3. f = g  BY ONLY <1>1, <1>2
<1> QED  BY <1>3 DEF f, g

LEMMA CurrentMoves ==
  ASSUME NEW p \in [{"current", "previous"} -> Pointer], NEW a
  PROVE  [p EXCEPT !["current"] = a] = [current |-> a, previous |-> p["previous"]]
<1> DEFINE f == [p EXCEPT !["current"] = a]
           g == [current |-> a, previous |-> p["previous"]]
<1>1. /\ f["current"] = g["current"] /\ f["previous"] = g["previous"]
      /\ f = [x \in {"current", "previous"} |-> f[x]]
      /\ g = [x \in {"current", "previous"} |-> g[x]]
  OBVIOUS
<1> HIDE DEF f, g
<1>2. [x \in {"current", "previous"} |-> f[x]] = [x \in {"current", "previous"} |-> g[x]]
  BY <1>1
<1>3. f = g  BY ONLY <1>1, <1>2
<1> QED  BY <1>3 DEF f, g

\* A temporary journal is opened where there is none.
LEMMA OpenTempSound ==
  ASSUME ReleaseInv, OpenTemp
  PROVE  ReleaseInv'
<1>1. /\ In("activate", 1) \/ In("activate", 7) \/ In("activate", 19) \/ In("undo", 17)
         \/ In("confirm", 2)
      /\ op # Resting
  BY Places DEF ReleaseInv, OpenTemp, Here, At
<1>2. /\ op'.mode = op.mode /\ op'.pc = op.pc + 1 /\ op'.candidate = op.candidate
      /\ op' # Resting /\ Operating'
  BY <1>1, Advances DEF ReleaseInv, OpenTemp, In, Lengths
<1>3. ReleaseTypeOK'
  BY <1>1, <1>2 DEF ReleaseInv, OpenTemp, files, ghosts, In, Between, Missing, Partial,
         ReleaseTypeOK, Operating, Pointer, Lengths, Resting, Journal, Database, Mark,
         Phase, NoJournal
<1>4. Phased'
  BY <1>1, <1>2 DEF ReleaseInv, OpenTemp, files, ghosts, In, Between, Missing, Partial,
         Phased, Target, Restorable
<1>5. Written'
  <2>1. Partial # Missing /\ temp' = Partial
    BY DEF OpenTemp, Partial, Missing
  <2>2. /\ pointer' = pointer /\ link' = link /\ journal' = journal
        /\ permit' = permit /\ folder' = folder /\ restore' = restore
    BY DEF OpenTemp
  <2>3. journal = NoJournal \/ journal.phase \notin {"confirming", "rollback_completed"}
    BY <1>1 DEF ReleaseInv, Phased, In, Between, Restorable
  <2>4. Reconcilable'
    BY <2>1, <2>2, <2>3 DEF ReleaseInv, Placed, Reconcilable, CleanRoot, LinksOwned
  <2> QED
    BY <1>1, <1>2, <2>1, <2>4 DEF Written, Writing, Renaming, In, Between
<1>6. Placed'
  BY <1>1, <1>2 DEF ReleaseInv, OpenTemp, files, ghosts, In, Between, Missing, Partial,
         Placed, CleanRoot, Coherent, Explained, LinksOwned, Original, Intermediate, Target
<1>7. Permitted'
  BY <1>1, <1>2 DEF ReleaseInv, OpenTemp, files, ghosts, In, Between, Missing, Partial,
         Permitted
<1>8. Stopped'
  BY <1>1, <1>2 DEF ReleaseInv, OpenTemp, files, ghosts, In, Between, Missing, Partial,
         Stopped, RunsCurrent
<1>9. Snapshots'
  BY <1>1, <1>2 DEF ReleaseInv, OpenTemp, files, ghosts, In, Between, Missing, Partial,
         Snapshots, Taken, SnapshotValid, Restorable
<1>10. Stored'
  BY <1>1, <1>2 DEF ReleaseInv, OpenTemp, files, ghosts, In, Between, Missing, Partial,
         Stored
<1> QED  BY <1>2, <1>3, <1>4, <1>5, <1>6, <1>7, <1>8, <1>9, <1>10 DEF ReleaseInv

\* The next content of the journal is written beside it.
LEMMA WriteTempSound ==
  ASSUME ReleaseInv, WriteTemp
  PROVE  ReleaseInv'
<1>1. /\ In("activate", 2) \/ In("activate", 8) \/ In("activate", 20) \/ In("undo", 18)
         \/ In("confirm", 3)
      /\ op # Resting
  BY Places DEF ReleaseInv, WriteTemp, Here, At
<1>2. /\ op'.mode = op.mode /\ op'.pc = op.pc + 1 /\ op'.candidate = op.candidate
      /\ op' # Resting /\ Operating'
  BY <1>1, Advances DEF ReleaseInv, WriteTemp, In, Lengths
<1>t. /\ Successor \in Journal
      /\ journal = NoJournal => Successor.phase = "intent_recorded"
      /\ journal # NoJournal =>
           /\ [Successor EXCEPT !.phase = journal.phase, !.taken = journal.taken] = journal
           /\ Successor.phase \in Successors(journal.phase)
  <2>1. CASE In("activate", 2)
    BY <2>1 DEF ReleaseInv, ReleaseTypeOK, Operating, Resting, Phased, Successor, Between, In,
           Journal, NoJournal, Phase, Database, Unset, Pointer
  <2>2. CASE In("activate", 8) \/ In("activate", 20) \/ In("undo", 18) \/ In("confirm", 3)
    <3>1. journal \in Journal /\ snapshot \in Database /\ op.mode \in {"activate", "undo", "confirm"}
      BY <2>2 DEF ReleaseInv, ReleaseTypeOK, Phased, In, Between, NoJournal, Restorable
    <3>2. /\ op.mode = "activate" => journal.phase \in {"intent_recorded", "snapshot_ready"}
          /\ op.mode = "undo" => journal.phase \in {"intent_recorded", "snapshot_ready",
                                                   "awaiting_confirmation"}
          /\ op.mode = "confirm" => journal.phase = "awaiting_confirmation"
      BY <2>2 DEF ReleaseInv, Phased, In, Between, Restorable
    <3>3. journal # NoJournal
      BY <3>2, <3>1 DEF NoJournal
    <3>4. CASE op.mode = "activate"
      BY <3>1, <3>2, <3>3, <3>4 DEF Successor, Journal, Successors, Phase
    <3>5. CASE op.mode = "undo"
      BY <3>1, <3>2, <3>3, <3>5 DEF Successor, Journal, Successors, Phase
    <3>6. CASE op.mode = "confirm"
      BY <3>1, <3>2, <3>3, <3>6 DEF Successor, Journal, Successors, Phase
    <3> QED  BY <3>1, <3>3, <3>4, <3>5, <3>6
  <2> QED  BY <1>1, <2>1, <2>2
<1>3. ReleaseTypeOK'
  BY <1>1, <1>2, <1>t DEF ReleaseInv, WriteTemp, files, ghosts, ReleaseTypeOK, Operating, Lengths,
         Resting
<1>4. Phased'
  BY <1>1, <1>2 DEF ReleaseInv, WriteTemp, files, ghosts, In, Between, Phased, Target,
         Restorable
<1>5. Written'
  <2>1. Successor \notin {Missing, Partial} /\ temp' = Successor /\ Successor' = Successor
    <3>1. Successor.phase \in Phase
      BY <1>t DEF Journal
    <3>2. Successor \notin {Missing, Partial}
      BY <3>1 DEF Phase, Missing, Partial
    <3> QED  BY <3>2, <1>2 DEF WriteTemp, Successor
  <2>2. journal' = journal
    BY DEF WriteTemp
  <2>3. Reconcilable'
    BY <1>t, <2>1, <2>2 DEF Reconcilable, Successors
  <2> QED
    BY <1>1, <1>2, <2>1, <2>3 DEF Written, Writing, Renaming, In, Between
<1>6. Placed'
  BY <1>1, <1>2 DEF ReleaseInv, WriteTemp, files, ghosts, In, Between, Placed, CleanRoot,
         Coherent, Explained, LinksOwned, Original, Intermediate, Target
<1>7. Permitted'
  BY <1>1, <1>2 DEF ReleaseInv, WriteTemp, files, ghosts, In, Between, Permitted
<1>8. Stopped'
  BY <1>1, <1>2 DEF ReleaseInv, WriteTemp, files, ghosts, In, Between, Stopped, RunsCurrent
<1>9. Snapshots'
  BY <1>1, <1>2 DEF ReleaseInv, WriteTemp, files, ghosts, In, Between, Snapshots, Taken,
         SnapshotValid, Restorable
<1>10. Stored'
  BY <1>1, <1>2 DEF ReleaseInv, WriteTemp, files, ghosts, In, Between, Stored
<1> QED  BY <1>2, <1>3, <1>4, <1>5, <1>6, <1>7, <1>8, <1>9, <1>10 DEF ReleaseInv

\* An operation stops the application before anything else.
LEMMA StopSound ==
  ASSUME ReleaseInv, StopApplication
  PROVE  ReleaseInv'
<1>1. /\ In("activate", 4) \/ In("undo", 1) \/ In("restart", 1)
      /\ op # Resting
  BY Places DEF ReleaseInv, StopApplication, Here, At
<1>2. /\ op'.mode = op.mode /\ op'.pc = op.pc + 1 /\ op'.candidate = op.candidate
      /\ op' # Resting /\ Operating'
  BY <1>1, Advances DEF ReleaseInv, StopApplication, In, Lengths
<1>j. journal # NoJournal
  BY <1>1 DEF ReleaseInv, Phased, In, Between, Restorable, NoJournal
<1>3. ReleaseTypeOK'
  BY <1>1, <1>2, <1>j DEF ReleaseInv, StopApplication, files, ghosts, In, Between,
         ReleaseTypeOK, Operating, Pointer, Lengths, Resting
<1>4. Phased'
  BY <1>1, <1>2, <1>j DEF ReleaseInv, StopApplication, files, ghosts, In, Between, Phased,
         Target, Restorable
<1>5. Written'
  BY <1>1, <1>2, <1>j DEF ReleaseInv, StopApplication, files, ghosts, In, Between, Written,
         Writing, Renaming, Reconcilable, CleanRoot, Explained, LinksOwned, Original,
         Intermediate, Target
<1>6. Placed'
  BY <1>1, <1>2, <1>j DEF ReleaseInv, StopApplication, files, ghosts, In, Between, Placed,
         CleanRoot, Coherent, Explained, LinksOwned, Original, Intermediate, Target
<1>7. Permitted'
  BY <1>1, <1>2, <1>j DEF ReleaseInv, StopApplication, files, ghosts, In, Between, Permitted
<1>8. Stopped'
  BY <1>1, <1>2, <1>j DEF ReleaseInv, StopApplication, files, ghosts, In, Between, Stopped,
         RunsCurrent
<1>9. Snapshots'
  BY <1>1, <1>2, <1>j DEF ReleaseInv, StopApplication, files, ghosts, In, Between,
         Snapshots, Taken, SnapshotValid, Restorable
<1>10. Stored'
  BY <1>1, <1>2, <1>j DEF ReleaseInv, StopApplication, files, ghosts, In, Between, Stored
<1> QED  BY <1>2, <1>3, <1>4, <1>5, <1>6, <1>7, <1>8, <1>9, <1>10 DEF ReleaseInv

\* The copy of the database is made.
LEMMA BackupSound ==
  ASSUME ReleaseInv, Backup
  PROVE  ReleaseInv'
<1>1. /\ In("activate", 5)
      /\ op # Resting
  BY Places DEF ReleaseInv, Backup, Here, At
<1>2. /\ op'.mode = op.mode /\ op'.pc = op.pc + 1 /\ op'.candidate = op.candidate
      /\ op' # Resting /\ Operating'
  BY <1>1, Advances DEF ReleaseInv, Backup, In, Lengths
<1>j. journal # NoJournal
  BY <1>1 DEF ReleaseInv, Phased, In, Between, Restorable, NoJournal
<1>3. ReleaseTypeOK'
  BY <1>1, <1>2, <1>j DEF ReleaseInv, Backup, files, ghosts, In, Between, ReleaseTypeOK,
         Operating, Pointer, Lengths, Resting, Database
<1>4. Phased'
  BY <1>1, <1>2, <1>j DEF ReleaseInv, Backup, files, ghosts, In, Between, Phased, Target,
         Restorable
<1>5. Written'
  BY <1>1, <1>2, <1>j DEF ReleaseInv, Backup, files, ghosts, In, Between, Written, Writing,
         Renaming, Reconcilable, CleanRoot, Explained, LinksOwned, Original, Intermediate,
         Target
<1>6. Placed'
  BY <1>1, <1>2, <1>j DEF ReleaseInv, Backup, files, ghosts, In, Between, Placed, CleanRoot,
         Coherent, Explained, LinksOwned, Original, Intermediate, Target
<1>7. Permitted'
  BY <1>1, <1>2, <1>j DEF ReleaseInv, Backup, files, ghosts, In, Between, Permitted
<1>8. Stopped'
  BY <1>1, <1>2, <1>j DEF ReleaseInv, Backup, files, ghosts, In, Between, Stopped,
         RunsCurrent
<1>9. Snapshots'
  BY <1>1, <1>2, <1>j DEF ReleaseInv, Backup, files, ghosts, In, Between, Snapshots, Taken,
         SnapshotValid, Restorable
<1>10. Stored'
  BY <1>1, <1>2, <1>j DEF ReleaseInv, Backup, files, ghosts, In, Between, Stored
<1> QED  BY <1>2, <1>3, <1>4, <1>5, <1>6, <1>7, <1>8, <1>9, <1>10 DEF ReleaseInv

\* The copy becomes the snapshot.
LEMMA PublishSnapshotSound ==
  ASSUME ReleaseInv, Publish
  PROVE  ReleaseInv'
<1>1. /\ In("activate", 6)
      /\ op # Resting
  BY Places DEF ReleaseInv, Publish, Here, At
<1>2. /\ op'.mode = op.mode /\ op'.pc = op.pc + 1 /\ op'.candidate = op.candidate
      /\ op' # Resting /\ Operating'
  BY <1>1, Advances DEF ReleaseInv, Publish, In, Lengths
<1>j. journal # NoJournal
  BY <1>1 DEF ReleaseInv, Phased, In, Between, Restorable, NoJournal
<1>3. ReleaseTypeOK'
  BY <1>1, <1>2, <1>j DEF ReleaseInv, Publish, files, ghosts, In, Between, ReleaseTypeOK,
         Operating, Pointer, Lengths, Resting
<1>4. Phased'
  BY <1>1, <1>2, <1>j DEF ReleaseInv, Publish, files, ghosts, In, Between, Phased, Target,
         Restorable
<1>5. Written'
  BY <1>1, <1>2, <1>j DEF ReleaseInv, Publish, files, ghosts, In, Between, Written, Writing,
         Renaming, Reconcilable, CleanRoot, Explained, LinksOwned, Original, Intermediate,
         Target
<1>6. Placed'
  BY <1>1, <1>2, <1>j DEF ReleaseInv, Publish, files, ghosts, In, Between, Placed,
         CleanRoot, Coherent, Explained, LinksOwned, Original, Intermediate, Target
<1>7. Permitted'
  BY <1>1, <1>2, <1>j DEF ReleaseInv, Publish, files, ghosts, In, Between, Permitted
<1>8. Stopped'
  BY <1>1, <1>2, <1>j DEF ReleaseInv, Publish, files, ghosts, In, Between, Stopped,
         RunsCurrent
<1>9. Snapshots'
  BY <1>1, <1>2, <1>j DEF ReleaseInv, Publish, files, ghosts, In, Between, Snapshots, Taken,
         SnapshotValid, Restorable, Phased
<1>10. Stored'
  BY <1>1, <1>2, <1>j DEF ReleaseInv, Publish, files, ghosts, In, Between, Stored
<1> QED  BY <1>2, <1>3, <1>4, <1>5, <1>6, <1>7, <1>8, <1>9, <1>10 DEF ReleaseInv

\* A temporary link, and the link `previous' itself.
LEMMA LinkPreviousSound ==
  ASSUME ReleaseInv, LinkPointer("previous", "linkPrevious")
  PROVE  ReleaseInv'
<1>1. /\ In("activate", 10) \/ In("undo", 10)
      /\ op # Resting
  BY Places DEF ReleaseInv, LinkPointer, Here, At
<1>2. /\ op'.mode = op.mode /\ op'.pc = op.pc + 1 /\ op'.candidate = op.candidate
      /\ op' # Resting /\ Operating'
  BY <1>1, Advances DEF ReleaseInv, LinkPointer, In, Lengths
<1>j. journal # NoJournal
  BY <1>1 DEF ReleaseInv, Phased, In, Between, Restorable, NoJournal
<1>3. ReleaseTypeOK'
  BY <1>1, <1>2, <1>j DEF ReleaseInv, LinkPointer, files, ghosts, In, Between,
         ReleaseTypeOK, Operating, Pointer, Lengths, Resting, Here, NothingToDo, Blocked,
         At, Goal, Phased, Placed, Snapshots, Restorable, NoJournal, Original, Target,
         Journal
<1>4. Phased'
  BY <1>1, <1>2, <1>j DEF ReleaseInv, LinkPointer, files, ghosts, In, Between, Phased,
         Target, Restorable
<1>5. Written'
  BY <1>1, <1>2, <1>j DEF ReleaseInv, LinkPointer, files, ghosts, In, Between, Written,
         Writing, Renaming, Reconcilable, CleanRoot, Explained, LinksOwned, Original,
         Intermediate, Target, Goal, Phased, Placed, Partial, Missing, Restorable
<1>6. Placed'
  BY <1>1, <1>2, <1>j DEF ReleaseInv, LinkPointer, files, ghosts, In, Between, Placed,
         CleanRoot, Coherent, Explained, LinksOwned, Original, Intermediate, Target, Here,
         NothingToDo, Blocked, At, Goal, Phased, Restorable
<1>7. Permitted'
  BY <1>1, <1>2, <1>j DEF ReleaseInv, LinkPointer, files, ghosts, In, Between, Permitted
<1>8. Stopped'
  BY <1>1, <1>2, <1>j DEF ReleaseInv, LinkPointer, files, ghosts, In, Between, Stopped,
         RunsCurrent
<1>9. Snapshots'
  BY <1>1, <1>2, <1>j DEF ReleaseInv, LinkPointer, files, ghosts, In, Between, Snapshots,
         Taken, SnapshotValid, Restorable
<1>10. Stored'
  BY <1>1, <1>2, <1>j DEF ReleaseInv, LinkPointer, files, ghosts, In, Between, Stored
<1> QED  BY <1>2, <1>3, <1>4, <1>5, <1>6, <1>7, <1>8, <1>9, <1>10 DEF ReleaseInv

\* The link `previous' moves.
LEMMA MovePreviousSound ==
  ASSUME ReleaseInv, MovePointer("previous", "movePrevious")
  PROVE  ReleaseInv'
<1>1. /\ In("activate", 11) \/ In("undo", 11)
      /\ op # Resting
  BY Places DEF ReleaseInv, MovePointer, Here, At
<1>2. /\ op'.mode = op.mode /\ op'.pc = op.pc + 1 /\ op'.candidate = op.candidate
      /\ op' # Resting /\ Operating'
  BY <1>1, Advances DEF ReleaseInv, MovePointer, In, Lengths
<1>j. journal # NoJournal
  BY <1>1 DEF ReleaseInv, Phased, In, Between, Restorable, NoJournal
<1>k. /\ link' = {} /\ journal' = journal /\ temp' = temp /\ running' = running
      /\ db' = db /\ permit' = permit /\ restore' = restore /\ folder' = folder
      /\ snapshot' = snapshot /\ ops' = ops /\ undone' = undone /\ settled' = settled
      /\ pointer' = [pointer EXCEPT !["previous"] = Goal("previous")]
  BY DEF MovePointer, ghosts
<1>g. pointer' = [current |-> pointer.current, previous |-> Goal("previous")]
  BY <1>k, PreviousMoves DEF ReleaseInv, ReleaseTypeOK
<1>a. ASSUME op.mode = "activate"
      PROVE  journal.phase = "snapshot_ready" /\ pointer = Original(journal) /\ pointer' = Intermediate(journal)
  <2>1. journal.phase = "snapshot_ready" /\ pointer = Original(journal)
    BY <1>1, <1>a DEF ReleaseInv, Phased, Placed, In, Between
  <2> QED  BY <1>g, <1>a, <2>1 DEF Goal, Original, Intermediate, Target
<1>u. ASSUME op.mode = "undo"
      PROVE  /\ journal.phase \in {"intent_recorded"} \cup Restorable
             /\ pointer'.current = journal.current /\ pointer' \in Explained(journal)
             /\ pointer' = Original(journal)
  <2>1. journal.phase \in {"intent_recorded"} \cup Restorable
    BY <1>1, <1>u DEF ReleaseInv, Phased, In, Between
  <2>2. /\ journal.phase = "intent_recorded" => pointer = Original(journal)
        /\ pointer \in {Original(journal), Intermediate(journal), Target(journal)}
    BY <2>1, <1>j DEF ReleaseInv, Placed, Explained, Restorable
  <2>3. pointer.current = journal.current
    BY <1>1, <1>u DEF ReleaseInv, Placed, In, Between
  <2> QED
    BY <1>u, <1>g, <2>1, <2>2, <2>3 DEF Explained, Restorable, Goal, Original, Intermediate, Target
<1>m. op.mode = "activate" \/ op.mode = "undo"  BY <1>1 DEF In
<1>3. ReleaseTypeOK'
  BY <1>1, <1>2, <1>j DEF ReleaseInv, MovePointer, files, ghosts, In, Between, Goal,
         ReleaseTypeOK, Operating, Pointer, Lengths, Resting, Phased, Placed, Restorable,
         Missing, Partial, Stopped, RunsCurrent, Snapshots, Taken, Target, Original,
         Intermediate, Stored, Explained, Journal, Permitted
<1>4. Phased'
  BY <1>1, <1>2, <1>j DEF ReleaseInv, MovePointer, files, ghosts, In, Between, Goal, Phased,
         Target, Restorable, Placed, Missing, Partial, Stopped, RunsCurrent, Snapshots,
         Taken, Original, Intermediate, Stored, Explained, ReleaseTypeOK, Journal, Pointer,
         Permitted
<1>5. Written'
  <2>1. pointer' \in Explained(journal) /\ LinksOwned(journal)'
    BY <1>a, <1>u, <1>m, <1>j, <1>k DEF Explained, LinksOwned
  <2>2. temp # Missing => Reconcilable'
    BY <2>1, <1>j, <1>k DEF ReleaseInv, Written, Reconcilable
  <2> QED
    BY <2>2, <1>1, <1>2, <1>k DEF ReleaseInv, Written, In, Between, Writing, Renaming
<1>6. Placed'
  <2>1. Coherent(journal) /\ LinksOwned(journal)'
    BY <1>j, <1>k DEF ReleaseInv, Placed, LinksOwned
  <2>2. pointer' \in Explained(journal)
    BY <1>a, <1>u, <1>m DEF Explained
  <2>3. running = NoRelease
    BY <1>1 DEF ReleaseInv, Stopped, In, Between
  <2> QED
    BY <1>1, <1>2, <1>j, <1>k, <1>a, <1>u, <1>m, <2>1, <2>2, <2>3
    DEF Placed, In, Between, Restorable, Coherent, LinksOwned
<1>7. Permitted'
  BY <1>1, <1>2, <1>j DEF ReleaseInv, MovePointer, files, ghosts, In, Between, Goal,
         Permitted, Phased, Placed, Restorable, Missing, Partial, Stopped, RunsCurrent,
         Snapshots, Taken, Target, Original, Intermediate, Stored, Explained, ReleaseTypeOK,
         Journal, Pointer
<1>8. Stopped'
  BY <1>1, <1>2, <1>j DEF ReleaseInv, MovePointer, files, ghosts, In, Between, Goal,
         Stopped, RunsCurrent, Phased, Placed, Restorable, Missing, Partial, Snapshots,
         Taken, Target, Original, Intermediate, Stored, Explained, ReleaseTypeOK, Journal,
         Pointer, Permitted
<1>9. Snapshots'
  BY <1>1, <1>2, <1>j DEF ReleaseInv, MovePointer, files, ghosts, In, Between, Goal,
         Snapshots, Taken, SnapshotValid, Restorable, Phased, Placed, Missing, Partial,
         Stopped, RunsCurrent, Target, Original, Intermediate, Stored, Explained,
         ReleaseTypeOK, Journal, Pointer, Permitted
<1>10. Stored'
  BY <1>1, <1>2, <1>j DEF ReleaseInv, MovePointer, files, ghosts, In, Between, Goal, Stored,
         Phased, Placed, Restorable, Missing, Partial, Stopped, RunsCurrent, Snapshots,
         Taken, Target, Original, Intermediate, Explained, ReleaseTypeOK, Journal, Pointer,
         Permitted
<1> QED  BY <1>2, <1>3, <1>4, <1>5, <1>6, <1>7, <1>8, <1>9, <1>10 DEF ReleaseInv

\* A temporary link, and the link `current' itself.
LEMMA LinkCurrentSound ==
  ASSUME ReleaseInv, LinkPointer("current", "linkCurrent")
  PROVE  ReleaseInv'
<1>1. /\ In("activate", 12) \/ In("undo", 8)
      /\ op # Resting
  BY Places DEF ReleaseInv, LinkPointer, Here, At
<1>2. /\ op'.mode = op.mode /\ op'.pc = op.pc + 1 /\ op'.candidate = op.candidate
      /\ op' # Resting /\ Operating'
  BY <1>1, Advances DEF ReleaseInv, LinkPointer, In, Lengths
<1>j. journal # NoJournal
  BY <1>1 DEF ReleaseInv, Phased, In, Between, Restorable, NoJournal
<1>3. ReleaseTypeOK'
  BY <1>1, <1>2, <1>j DEF ReleaseInv, LinkPointer, files, ghosts, In, Between,
         ReleaseTypeOK, Operating, Pointer, Lengths, Resting, Here, NothingToDo, Blocked,
         At, Goal, Phased, Placed, Snapshots, Restorable, NoJournal, Original, Target,
         Journal
<1>4. Phased'
  BY <1>1, <1>2, <1>j DEF ReleaseInv, LinkPointer, files, ghosts, In, Between, Phased,
         Target, Restorable
<1>5. Written'
  BY <1>1, <1>2, <1>j DEF ReleaseInv, LinkPointer, files, ghosts, In, Between, Written,
         Writing, Renaming, Reconcilable, CleanRoot, Explained, LinksOwned, Original,
         Intermediate, Target, Goal, Phased, Placed, Partial, Missing, Restorable
<1>6. Placed'
  <2>1. /\ pointer' = pointer /\ journal' = journal /\ running' = running /\ restore' = restore
        /\ folder' = folder /\ link' = {<<"current", Goal("current")>>}
    BY DEF LinkPointer
  <2>2. Goal("current") \in {journal.candidate, journal.current} /\ running = NoRelease
    BY <1>1 DEF ReleaseInv, Goal, Target, Original, In, Between, Stopped
  <2>3. LinksOwned(journal)'
    BY <2>1, <2>2 DEF LinksOwned
  <2>4. journal.phase \notin {"rollback_completed", "confirming"}
    BY <1>1 DEF ReleaseInv, Phased, In, Between, Restorable
  <2> QED
    BY <1>1, <1>2, <1>j, <2>1, <2>2, <2>3, <2>4 DEF ReleaseInv, Placed, In, Between
<1>7. Permitted'
  BY <1>1, <1>2, <1>j DEF ReleaseInv, LinkPointer, files, ghosts, In, Between, Permitted
<1>8. Stopped'
  BY <1>1, <1>2, <1>j DEF ReleaseInv, LinkPointer, files, ghosts, In, Between, Stopped,
         RunsCurrent
<1>9. Snapshots'
  BY <1>1, <1>2, <1>j DEF ReleaseInv, LinkPointer, files, ghosts, In, Between, Snapshots,
         Taken, SnapshotValid, Restorable
<1>10. Stored'
  BY <1>1, <1>2, <1>j DEF ReleaseInv, LinkPointer, files, ghosts, In, Between, Stored
<1> QED  BY <1>2, <1>3, <1>4, <1>5, <1>6, <1>7, <1>8, <1>9, <1>10 DEF ReleaseInv

\* The link `current' moves.
LEMMA MoveCurrentSound ==
  ASSUME ReleaseInv, MovePointer("current", "moveCurrent")
  PROVE  ReleaseInv'
<1>1. /\ In("activate", 13) \/ In("undo", 9)
      /\ op # Resting
  BY Places DEF ReleaseInv, MovePointer, Here, At
<1>2. /\ op'.mode = op.mode /\ op'.pc = op.pc + 1 /\ op'.candidate = op.candidate
      /\ op' # Resting /\ Operating'
  BY <1>1, Advances DEF ReleaseInv, MovePointer, In, Lengths
<1>j. journal # NoJournal
  BY <1>1 DEF ReleaseInv, Phased, In, Between, Restorable, NoJournal
<1>k. /\ link' = {} /\ journal' = journal /\ temp' = temp /\ running' = running
      /\ db' = db /\ permit' = permit /\ restore' = restore /\ folder' = folder
      /\ snapshot' = snapshot /\ ops' = ops /\ undone' = undone /\ settled' = settled
      /\ pointer' = [pointer EXCEPT !["current"] = Goal("current")]
  BY DEF MovePointer, ghosts
<1>g. pointer' = [current |-> Goal("current"), previous |-> pointer.previous]
  BY <1>k, CurrentMoves DEF ReleaseInv, ReleaseTypeOK
<1>a. ASSUME op.mode = "activate"
      PROVE  journal.phase = "snapshot_ready" /\ pointer = Intermediate(journal) /\ pointer' = Target(journal)
  <2>1. journal.phase = "snapshot_ready" /\ pointer = Intermediate(journal)
    BY <1>1, <1>a DEF ReleaseInv, Phased, Placed, In, Between
  <2> QED  BY <1>g, <1>a, <2>1 DEF Goal, Original, Intermediate, Target
<1>u. ASSUME op.mode = "undo"
      PROVE  /\ journal.phase \in {"intent_recorded"} \cup Restorable
             /\ pointer'.current = journal.current /\ pointer' \in Explained(journal)
             /\ pointer'.previous = pointer.previous
  <2>1. journal.phase \in {"intent_recorded"} \cup Restorable
    BY <1>1, <1>u DEF ReleaseInv, Phased, In, Between
  <2>2. /\ journal.phase = "intent_recorded" => pointer = Original(journal)
        /\ pointer \in {Original(journal), Intermediate(journal), Target(journal)}
    BY <2>1, <1>j DEF ReleaseInv, Placed, Explained, Restorable
  <2> QED
    BY <1>u, <1>g, <2>1, <2>2 DEF Explained, Restorable, Goal, Original, Intermediate, Target
<1>m. op.mode = "activate" \/ op.mode = "undo"  BY <1>1 DEF In
<1>3. ReleaseTypeOK'
  BY <1>1, <1>2, <1>j DEF ReleaseInv, MovePointer, files, ghosts, In, Between, Goal,
         ReleaseTypeOK, Operating, Pointer, Lengths, Resting, Phased, Placed, Restorable,
         Missing, Partial, Stopped, RunsCurrent, Snapshots, Taken, Target, Original,
         Intermediate, Stored, Explained, Journal, Permitted
<1>4. Phased'
  BY <1>1, <1>2, <1>j DEF ReleaseInv, MovePointer, files, ghosts, In, Between, Goal, Phased,
         Target, Restorable, Placed, Missing, Partial, Stopped, RunsCurrent, Snapshots,
         Taken, Original, Intermediate, Stored, Explained, ReleaseTypeOK, Journal, Pointer,
         Permitted
<1>5. Written'
  <2>1. pointer' \in Explained(journal) /\ LinksOwned(journal)'
    BY <1>a, <1>u, <1>m, <1>j, <1>k DEF Explained, LinksOwned
  <2>2. temp # Missing => Reconcilable'
    BY <2>1, <1>j, <1>k DEF ReleaseInv, Written, Reconcilable
  <2> QED
    BY <2>2, <1>1, <1>2, <1>k DEF ReleaseInv, Written, In, Between, Writing, Renaming
<1>6. Placed'
  <2>1. Coherent(journal) /\ LinksOwned(journal)'
    BY <1>j, <1>k DEF ReleaseInv, Placed, LinksOwned
  <2>2. pointer' \in Explained(journal)
    BY <1>a, <1>u, <1>m DEF Explained
  <2>3. running = NoRelease
    BY <1>1 DEF ReleaseInv, Stopped, In, Between
  <2> QED
    BY <1>1, <1>2, <1>j, <1>k, <1>a, <1>u, <1>m, <2>1, <2>2, <2>3
    DEF Placed, In, Between, Restorable, Coherent, LinksOwned
<1>7. Permitted'
  BY <1>1, <1>2, <1>j DEF ReleaseInv, MovePointer, files, ghosts, In, Between, Goal,
         Permitted, Phased, Placed, Restorable, Missing, Partial, Stopped, RunsCurrent,
         Snapshots, Taken, Target, Original, Intermediate, Stored, Explained, ReleaseTypeOK,
         Journal, Pointer
<1>8. Stopped'
  BY <1>1, <1>2, <1>j DEF ReleaseInv, MovePointer, files, ghosts, In, Between, Goal,
         Stopped, RunsCurrent, Phased, Placed, Restorable, Missing, Partial, Snapshots,
         Taken, Target, Original, Intermediate, Stored, Explained, ReleaseTypeOK, Journal,
         Pointer, Permitted
<1>9. Snapshots'
  BY <1>1, <1>2, <1>j DEF ReleaseInv, MovePointer, files, ghosts, In, Between, Goal,
         Snapshots, Taken, SnapshotValid, Restorable, Phased, Placed, Missing, Partial,
         Stopped, RunsCurrent, Target, Original, Intermediate, Stored, Explained,
         ReleaseTypeOK, Journal, Pointer, Permitted
<1>10. Stored'
  <2>0. running = NoRelease /\ Coherent(journal) /\ journal.phase # "confirming"
    BY <1>1, <1>j, <1>a, <1>u, <1>m DEF ReleaseInv, Stopped, In, Between, Placed, Restorable
  <2>1. CASE op.mode = "activate"
    <3>1. db = journal.taken /\ Taken(journal)
      BY <2>1, <1>a, <1>1 DEF ReleaseInv, Snapshots, In, Between, Restorable
    <3>2. pointer'.current = journal.candidate /\ journal.candidate # journal.current
      BY <2>0, <2>1, <1>a DEF Target, Coherent
    <3>3. \A r \in Release : <<ops, r>> \notin undone
      BY <2>1, <1>a DEF ReleaseInv, Stored
    <3> QED  BY <1>k, <2>0, <3>1, <3>2, <3>3, <1>j DEF ReleaseInv, Stored, Taken
  <2>2. CASE op.mode = "undo"
    <3>1. journal.phase # "intent_recorded" => db = journal.taken /\ Taken(journal)
      BY <2>2, <1>u, <1>1, <2>0 DEF ReleaseInv, Snapshots, In, Between, Restorable, Coherent
    <3>2. journal.phase = "intent_recorded" => pointer.current = journal.current
      BY <1>j DEF ReleaseInv, Placed, Explained, Original
    <3>3. \A r \in Release : <<ops, r>> \notin undone
      BY <2>2, <1>u DEF ReleaseInv, Stored, Restorable
    <3>4. CASE journal.phase = "intent_recorded"
      BY <1>k, <1>u, <2>2, <2>0, <3>2, <3>3, <3>4, <1>j DEF ReleaseInv, Stored
    <3>5. CASE journal.phase # "intent_recorded"
      <4> HIDE DEF Stored
      <4>1. /\ \A m \in db.marks \cup undone : m[1] <= ops
            /\ db.there => db.schema # 0
            /\ ~db.there => db = Absent
            /\ db.marks \cap undone = {}
            /\ settled \subseteq db.marks
        BY DEF ReleaseInv, Stored
      <4>2. /\ journal.current \in Release => db.there /\ db.schema = Schema[journal.current]
            /\ <<ops, journal.candidate>> \notin db.marks
        BY <3>1, <3>5 DEF Taken
      <4>3. pointer'.current = journal.current
        BY <1>u, <2>2
      <4>4. db.schema \in Nat
        BY <3>5, <4>1, ApplicationReleaseAssumption DEF ReleaseInv, ReleaseTypeOK, Database
      <4> QED  BY <1>k, <3>3, <4>1, <4>2, <4>3, <4>4 DEF Stored
    <3> QED  BY <3>4, <3>5
  <2> QED  BY <2>1, <2>2, <1>m
<1> QED  BY <1>2, <1>3, <1>4, <1>5, <1>6, <1>7, <1>8, <1>9, <1>10 DEF ReleaseInv

\* The permit of one start is written
LEMMA RequestSound ==
  ASSUME ReleaseInv, RequestPermit
  PROVE  ReleaseInv'
<1>1. /\ In("activate", 14) \/ In("undo", 12) \/ In("restart", 3)
      /\ op # Resting
  BY Places DEF ReleaseInv, RequestPermit, Here, At
<1>2. /\ op'.mode = op.mode /\ op'.pc = op.pc + 1 /\ op'.candidate = op.candidate
      /\ op' # Resting /\ Operating'
  BY <1>1, Advances DEF ReleaseInv, RequestPermit, In, Lengths
<1>j. journal # NoJournal
  BY <1>1 DEF ReleaseInv, Phased, In, Between, Restorable, NoJournal
<1>3. ReleaseTypeOK'
  BY <1>1, <1>2, <1>j DEF ReleaseInv, RequestPermit, files, ghosts, In, Between, NoPermit,
         ReleaseTypeOK, Operating, Pointer, Lengths, Resting, Starts, Phased, Journal,
         NoJournal, Restorable
<1>4. Phased'
  BY <1>1, <1>2, <1>j DEF ReleaseInv, RequestPermit, files, ghosts, In, Between, NoPermit,
         Phased, Target, Restorable
<1>5. Written'
  BY <1>1, <1>2, <1>j DEF ReleaseInv, RequestPermit, files, ghosts, In, Between, NoPermit,
         Written, Writing, Renaming, Reconcilable, CleanRoot, Explained, LinksOwned,
         Original, Intermediate, Target
<1>6. Placed'
  BY <1>1, <1>2, <1>j DEF ReleaseInv, RequestPermit, files, ghosts, In, Between, NoPermit,
         Placed, CleanRoot, Coherent, Explained, LinksOwned, Original, Intermediate, Target
<1>7. Permitted'
  BY <1>1, <1>2, <1>j DEF ReleaseInv, RequestPermit, files, ghosts, In, Between, NoPermit,
         Permitted, Phased, Here, NothingToDo, Blocked, At, Starts, Restorable, Placed,
         Coherent, Original
<1>8. Stopped'
  BY <1>1, <1>2, <1>j DEF ReleaseInv, RequestPermit, files, ghosts, In, Between, NoPermit,
         Stopped, RunsCurrent
<1>9. Snapshots'
  BY <1>1, <1>2, <1>j DEF ReleaseInv, RequestPermit, files, ghosts, In, Between, NoPermit,
         Snapshots, Taken, SnapshotValid, Restorable
<1>10. Stored'
  BY <1>1, <1>2, <1>j DEF ReleaseInv, RequestPermit, files, ghosts, In, Between, NoPermit,
         Stored
<1> QED  BY <1>2, <1>3, <1>4, <1>5, <1>6, <1>7, <1>8, <1>9, <1>10 DEF ReleaseInv

\* and granted
LEMMA GrantSound ==
  ASSUME ReleaseInv, GrantPermit
  PROVE  ReleaseInv'
<1>1. /\ In("activate", 15) \/ In("undo", 13) \/ In("restart", 4)
      /\ op # Resting
  BY Places DEF ReleaseInv, GrantPermit, Here, At
<1>2. /\ op'.mode = op.mode /\ op'.pc = op.pc + 1 /\ op'.candidate = op.candidate
      /\ op' # Resting /\ Operating'
  BY <1>1, Advances DEF ReleaseInv, GrantPermit, In, Lengths
<1>j. journal # NoJournal
  BY <1>1 DEF ReleaseInv, Phased, In, Between, Restorable, NoJournal
<1>3. ReleaseTypeOK'
  BY <1>1, <1>2, <1>j DEF ReleaseInv, GrantPermit, files, ghosts, In, Between, NoPermit,
         ReleaseTypeOK, Operating, Pointer, Lengths, Resting, Starts, Phased, Journal,
         NoJournal, Restorable
<1>4. Phased'
  BY <1>1, <1>2, <1>j DEF ReleaseInv, GrantPermit, files, ghosts, In, Between, NoPermit,
         Phased, Target, Restorable
<1>5. Written'
  BY <1>1, <1>2, <1>j DEF ReleaseInv, GrantPermit, files, ghosts, In, Between, NoPermit,
         Written, Writing, Renaming, Reconcilable, CleanRoot, Explained, LinksOwned,
         Original, Intermediate, Target
<1>6. Placed'
  BY <1>1, <1>2, <1>j DEF ReleaseInv, GrantPermit, files, ghosts, In, Between, NoPermit,
         Placed, CleanRoot, Coherent, Explained, LinksOwned, Original, Intermediate, Target
<1>7. Permitted'
  BY <1>1, <1>2, <1>j DEF ReleaseInv, GrantPermit, files, ghosts, In, Between, NoPermit,
         Permitted, Phased, Here, NothingToDo, Blocked, At, Starts, Restorable, Placed,
         Coherent, Original
<1>8. Stopped'
  BY <1>1, <1>2, <1>j DEF ReleaseInv, GrantPermit, files, ghosts, In, Between, NoPermit,
         Stopped, RunsCurrent
<1>9. Snapshots'
  BY <1>1, <1>2, <1>j DEF ReleaseInv, GrantPermit, files, ghosts, In, Between, NoPermit,
         Snapshots, Taken, SnapshotValid, Restorable
<1>10. Stored'
  BY <1>1, <1>2, <1>j DEF ReleaseInv, GrantPermit, files, ghosts, In, Between, NoPermit,
         Stored
<1> QED  BY <1>2, <1>3, <1>4, <1>5, <1>6, <1>7, <1>8, <1>9, <1>10 DEF ReleaseInv

\* and used up once the application is healthy.
LEMMA HealthSound ==
  ASSUME ReleaseInv, Health
  PROVE  ReleaseInv'
<1>1. /\ In("activate", 17) \/ In("undo", 15) \/ In("restart", 6)
      /\ op # Resting
  BY Places DEF ReleaseInv, Health, Here, At
<1>2. /\ op'.mode = op.mode /\ op'.pc = op.pc + 1 /\ op'.candidate = op.candidate
      /\ op' # Resting /\ Operating'
  BY <1>1, Advances DEF ReleaseInv, Health, In, Lengths
<1>j. journal # NoJournal
  BY <1>1 DEF ReleaseInv, Phased, In, Between, Restorable, NoJournal
<1>3. ReleaseTypeOK'
  BY <1>1, <1>2, <1>j DEF ReleaseInv, Health, files, ghosts, In, Between, NoPermit,
         ReleaseTypeOK, Operating, Pointer, Lengths, Resting, Starts, Phased, Journal,
         NoJournal, Restorable
<1>4. Phased'
  BY <1>1, <1>2, <1>j DEF ReleaseInv, Health, files, ghosts, In, Between, NoPermit, Phased,
         Target, Restorable
<1>5. Written'
  BY <1>1, <1>2, <1>j DEF ReleaseInv, Health, files, ghosts, In, Between, NoPermit, Written,
         Writing, Renaming, Reconcilable, CleanRoot, Explained, LinksOwned, Original,
         Intermediate, Target
<1>6. Placed'
  BY <1>1, <1>2, <1>j DEF ReleaseInv, Health, files, ghosts, In, Between, NoPermit, Placed,
         CleanRoot, Coherent, Explained, LinksOwned, Original, Intermediate, Target
<1>7. Permitted'
  BY <1>1, <1>2, <1>j DEF ReleaseInv, Health, files, ghosts, In, Between, NoPermit,
         Permitted, Phased, Here, NothingToDo, Blocked, At, Starts, Restorable, Placed,
         Coherent, Original
<1>8. Stopped'
  BY <1>1, <1>2, <1>j DEF ReleaseInv, Health, files, ghosts, In, Between, NoPermit, Stopped,
         RunsCurrent
<1>9. Snapshots'
  BY <1>1, <1>2, <1>j DEF ReleaseInv, Health, files, ghosts, In, Between, NoPermit,
         Snapshots, Taken, SnapshotValid, Restorable
<1>10. Stored'
  BY <1>1, <1>2, <1>j DEF ReleaseInv, Health, files, ghosts, In, Between, NoPermit, Stored
<1> QED  BY <1>2, <1>3, <1>4, <1>5, <1>6, <1>7, <1>8, <1>9, <1>10 DEF ReleaseInv

\* An operation revokes what an earlier one has granted.
LEMMA RevokeSound ==
  ASSUME ReleaseInv, RevokePermit
  PROVE  ReleaseInv'
<1>1. /\ In("undo", 2) \/ In("restart", 2)
      /\ op # Resting
  BY Places DEF ReleaseInv, RevokePermit, Here, At
<1>2. /\ op'.mode = op.mode /\ op'.pc = op.pc + 1 /\ op'.candidate = op.candidate
      /\ op' # Resting /\ Operating'
  BY <1>1, Advances DEF ReleaseInv, RevokePermit, In, Lengths
<1>j. journal # NoJournal
  BY <1>1 DEF ReleaseInv, Phased, In, Between, Restorable, NoJournal
<1>3. ReleaseTypeOK'
  BY <1>1, <1>2, <1>j DEF ReleaseInv, RevokePermit, files, ghosts, In, Between, NoPermit,
         ReleaseTypeOK, Operating, Pointer, Lengths, Resting, Starts, Phased, Journal,
         NoJournal, Restorable
<1>4. Phased'
  BY <1>1, <1>2, <1>j DEF ReleaseInv, RevokePermit, files, ghosts, In, Between, NoPermit,
         Phased, Target, Restorable
<1>5. Written'
  BY <1>1, <1>2, <1>j DEF ReleaseInv, RevokePermit, files, ghosts, In, Between, NoPermit,
         Written, Writing, Renaming, Reconcilable, CleanRoot, Explained, LinksOwned,
         Original, Intermediate, Target
<1>6. Placed'
  BY <1>1, <1>2, <1>j DEF ReleaseInv, RevokePermit, files, ghosts, In, Between, NoPermit,
         Placed, CleanRoot, Coherent, Explained, LinksOwned, Original, Intermediate, Target
<1>7. Permitted'
  BY <1>1, <1>2, <1>j DEF ReleaseInv, RevokePermit, files, ghosts, In, Between, NoPermit,
         Permitted, Phased, Here, NothingToDo, Blocked, At, Starts, Restorable, Placed,
         Coherent, Original
<1>8. Stopped'
  BY <1>1, <1>2, <1>j DEF ReleaseInv, RevokePermit, files, ghosts, In, Between, NoPermit,
         Stopped, RunsCurrent
<1>9. Snapshots'
  BY <1>1, <1>2, <1>j DEF ReleaseInv, RevokePermit, files, ghosts, In, Between, NoPermit,
         Snapshots, Taken, SnapshotValid, Restorable
<1>10. Stored'
  BY <1>1, <1>2, <1>j DEF ReleaseInv, RevokePermit, files, ghosts, In, Between, NoPermit,
         Stored
<1> QED  BY <1>2, <1>3, <1>4, <1>5, <1>6, <1>7, <1>8, <1>9, <1>10 DEF ReleaseInv

\* The application answers.
LEMMA ReadySound ==
  ASSUME ReleaseInv, Ready
  PROVE  ReleaseInv'
<1>1. /\ In("activate", 18) \/ In("undo", 16) \/ In("restart", 7) \/ In("confirm", 1)
      /\ op # Resting
  BY Places DEF ReleaseInv, Ready, Here, At
<1>2. /\ op'.mode = op.mode /\ op'.pc = op.pc + 1 /\ op'.candidate = op.candidate
      /\ op' # Resting /\ Operating'
  BY <1>1, Advances DEF ReleaseInv, Ready, In, Lengths
<1>j. journal # NoJournal
  BY <1>1 DEF ReleaseInv, Phased, In, Between, Restorable, NoJournal
<1>3. ReleaseTypeOK'
  BY <1>1, <1>2, <1>j DEF ReleaseInv, Ready, files, ghosts, In, Between, ReleaseTypeOK,
         Operating, Pointer, Lengths, Resting
<1>4. Phased'
  BY <1>1, <1>2, <1>j DEF ReleaseInv, Ready, files, ghosts, In, Between, Phased, Target,
         Restorable, Here, NothingToDo, Blocked, At, Stored, Placed, Stopped, RunsCurrent,
         ReleaseTypeOK, Pointer, Coherent
<1>5. Written'
  BY <1>1, <1>2, <1>j DEF ReleaseInv, Ready, files, ghosts, In, Between, Written, Writing,
         Renaming, Reconcilable, CleanRoot, Explained, LinksOwned, Original, Intermediate,
         Target
<1>6. Placed'
  BY <1>1, <1>2, <1>j DEF ReleaseInv, Ready, files, ghosts, In, Between, Placed, CleanRoot,
         Coherent, Explained, LinksOwned, Original, Intermediate, Target
<1>7. Permitted'
  BY <1>1, <1>2, <1>j DEF ReleaseInv, Ready, files, ghosts, In, Between, Permitted, Starts
<1>8. Stopped'
  BY <1>1, <1>2, <1>j DEF ReleaseInv, Ready, files, ghosts, In, Between, Stopped,
         RunsCurrent
<1>9. Snapshots'
  BY <1>1, <1>2, <1>j DEF ReleaseInv, Ready, files, ghosts, In, Between, Snapshots, Taken,
         SnapshotValid, Restorable
<1>10. Stored'
  BY <1>1, <1>2, <1>j DEF ReleaseInv, Ready, files, ghosts, In, Between, Stored
<1> QED  BY <1>2, <1>3, <1>4, <1>5, <1>6, <1>7, <1>8, <1>9, <1>10 DEF ReleaseInv

\* A copy of the snapshot that an earlier operation has left goes first.
LEMMA DiscardSound ==
  ASSUME ReleaseInv, Discard
  PROVE  ReleaseInv'
<1>1. /\ In("undo", 3) \/ In("undo", 20) \/ In("restart", 8) \/ In("confirm", 5)
      /\ op # Resting
  BY Places DEF ReleaseInv, Discard, Here, At
<1>2. /\ op'.mode = op.mode /\ op'.pc = op.pc + 1 /\ op'.candidate = op.candidate
      /\ op' # Resting /\ Operating'
  BY <1>1, Advances DEF ReleaseInv, Discard, In, Lengths
<1>j. journal # NoJournal
  BY <1>1 DEF ReleaseInv, Phased, In, Between, Restorable, NoJournal
<1>3. ReleaseTypeOK'
  BY <1>1, <1>2, <1>j DEF ReleaseInv, Discard, files, ghosts, In, Between, Absent,
         ReleaseTypeOK, Operating, Pointer, Lengths, Resting, Database
<1>4. Phased'
  BY <1>1, <1>2, <1>j DEF ReleaseInv, Discard, files, ghosts, In, Between, Absent, Phased,
         Target, Restorable
<1>5. Written'
  BY <1>1, <1>2, <1>j DEF ReleaseInv, Discard, files, ghosts, In, Between, Absent, Written,
         Writing, Renaming, Reconcilable, CleanRoot, Explained, LinksOwned, Original,
         Intermediate, Target
<1>6. Placed'
  BY <1>1, <1>2, <1>j DEF ReleaseInv, Discard, files, ghosts, In, Between, Absent, Placed,
         CleanRoot, Coherent, Explained, LinksOwned, Original, Intermediate, Target
<1>7. Permitted'
  BY <1>1, <1>2, <1>j DEF ReleaseInv, Discard, files, ghosts, In, Between, Absent, Permitted
<1>8. Stopped'
  BY <1>1, <1>2, <1>j DEF ReleaseInv, Discard, files, ghosts, In, Between, Absent, Stopped,
         RunsCurrent
<1>9. Snapshots'
  BY <1>1, <1>2, <1>j DEF ReleaseInv, Discard, files, ghosts, In, Between, Absent,
         Snapshots, Taken, SnapshotValid, Restorable, Phased
<1>10. Stored'
  BY <1>1, <1>2, <1>j DEF ReleaseInv, Discard, files, ghosts, In, Between, Absent, Stored
<1> QED  BY <1>2, <1>3, <1>4, <1>5, <1>6, <1>7, <1>8, <1>9, <1>10 DEF ReleaseInv

\* The snapshot is copied
LEMMA OpenCopySound ==
  ASSUME ReleaseInv, CopySnapshot("openCopy", Unset)
  PROVE  ReleaseInv'
<1>1. /\ In("undo", 4)
      /\ op # Resting
  BY Places DEF ReleaseInv, CopySnapshot, Here, At
<1>2. /\ op'.mode = op.mode /\ op'.pc = op.pc + 1 /\ op'.candidate = op.candidate
      /\ op' # Resting /\ Operating'
  BY <1>1, Advances DEF ReleaseInv, CopySnapshot, In, Lengths
<1>j. journal # NoJournal
  BY <1>1 DEF ReleaseInv, Phased, In, Between, Restorable, NoJournal
<1>3. ReleaseTypeOK'
  BY <1>1, <1>2, <1>j DEF ReleaseInv, CopySnapshot, files, ghosts, In, Between, Unset,
         ReleaseTypeOK, Operating, Pointer, Lengths, Resting, Database
<1>4. Phased'
  BY <1>1, <1>2, <1>j DEF ReleaseInv, CopySnapshot, files, ghosts, In, Between, Unset,
         Phased, Target, Restorable
<1>5. Written'
  BY <1>1, <1>2, <1>j DEF ReleaseInv, CopySnapshot, files, ghosts, In, Between, Unset,
         Written, Writing, Renaming, Reconcilable, CleanRoot, Explained, LinksOwned,
         Original, Intermediate, Target
<1>6. Placed'
  BY <1>1, <1>2, <1>j DEF ReleaseInv, CopySnapshot, files, ghosts, In, Between, Unset,
         Placed, CleanRoot, Coherent, Explained, LinksOwned, Original, Intermediate, Target
<1>7. Permitted'
  BY <1>1, <1>2, <1>j DEF ReleaseInv, CopySnapshot, files, ghosts, In, Between, Unset,
         Permitted
<1>8. Stopped'
  BY <1>1, <1>2, <1>j DEF ReleaseInv, CopySnapshot, files, ghosts, In, Between, Unset,
         Stopped, RunsCurrent
<1>9. Snapshots'
  BY <1>1, <1>2, <1>j DEF ReleaseInv, CopySnapshot, files, ghosts, In, Between, Unset,
         Snapshots, Taken, SnapshotValid, Restorable, Here, NothingToDo, Blocked, At, Phased
<1>10. Stored'
  BY <1>1, <1>2, <1>j DEF ReleaseInv, CopySnapshot, files, ghosts, In, Between, Unset,
         Stored
<1> QED  BY <1>2, <1>3, <1>4, <1>5, <1>6, <1>7, <1>8, <1>9, <1>10 DEF ReleaseInv

\* as a whole,
LEMMA CopySound ==
  ASSUME ReleaseInv, CopySnapshot("copy", snapshot)
  PROVE  ReleaseInv'
<1>1. /\ In("undo", 5)
      /\ op # Resting
  BY Places DEF ReleaseInv, CopySnapshot, Here, At
<1>2. /\ op'.mode = op.mode /\ op'.pc = op.pc + 1 /\ op'.candidate = op.candidate
      /\ op' # Resting /\ Operating'
  BY <1>1, Advances DEF ReleaseInv, CopySnapshot, In, Lengths
<1>j. journal # NoJournal
  BY <1>1 DEF ReleaseInv, Phased, In, Between, Restorable, NoJournal
<1>3. ReleaseTypeOK'
  BY <1>1, <1>2, <1>j DEF ReleaseInv, CopySnapshot, files, ghosts, In, Between,
         ReleaseTypeOK, Operating, Pointer, Lengths, Resting, Database
<1>4. Phased'
  BY <1>1, <1>2, <1>j DEF ReleaseInv, CopySnapshot, files, ghosts, In, Between, Phased,
         Target, Restorable
<1>5. Written'
  BY <1>1, <1>2, <1>j DEF ReleaseInv, CopySnapshot, files, ghosts, In, Between, Written,
         Writing, Renaming, Reconcilable, CleanRoot, Explained, LinksOwned, Original,
         Intermediate, Target
<1>6. Placed'
  BY <1>1, <1>2, <1>j DEF ReleaseInv, CopySnapshot, files, ghosts, In, Between, Placed,
         CleanRoot, Coherent, Explained, LinksOwned, Original, Intermediate, Target
<1>7. Permitted'
  BY <1>1, <1>2, <1>j DEF ReleaseInv, CopySnapshot, files, ghosts, In, Between, Permitted
<1>8. Stopped'
  BY <1>1, <1>2, <1>j DEF ReleaseInv, CopySnapshot, files, ghosts, In, Between, Stopped,
         RunsCurrent
<1>9. Snapshots'
  BY <1>1, <1>2, <1>j DEF ReleaseInv, CopySnapshot, files, ghosts, In, Between, Snapshots,
         Taken, SnapshotValid, Restorable, Here, NothingToDo, Blocked, At, Phased, Placed,
         Coherent
<1>10. Stored'
  BY <1>1, <1>2, <1>j DEF ReleaseInv, CopySnapshot, files, ghosts, In, Between, Stored
<1> QED  BY <1>2, <1>3, <1>4, <1>5, <1>6, <1>7, <1>8, <1>9, <1>10 DEF ReleaseInv

\* and replaces the database.
LEMMA SwapSound ==
  ASSUME ReleaseInv, SwapDatabase
  PROVE  ReleaseInv'
<1>1. /\ In("undo", 6)
      /\ op # Resting
  BY Places DEF ReleaseInv, SwapDatabase, Here, At
<1>2. /\ op'.mode = op.mode /\ op'.pc = op.pc + 1 /\ op'.candidate = op.candidate
      /\ op' # Resting /\ Operating'
  BY <1>1, Advances DEF ReleaseInv, SwapDatabase, In, Lengths
<1>j. journal # NoJournal
  BY <1>1 DEF ReleaseInv, Phased, In, Between, Restorable, NoJournal
<1>3. ReleaseTypeOK'
  BY <1>1, <1>2, <1>j DEF ReleaseInv, SwapDatabase, files, ghosts, In, Between, Absent,
         ReleaseTypeOK, Operating, Pointer, Lengths, Resting, Here, NothingToDo, Blocked,
         At, Phased, Snapshots, Taken, Restorable, Placed, Stopped, RunsCurrent, NoJournal,
         Unset, Database, Stored, Coherent
<1>4. Phased'
  BY <1>1, <1>2, <1>j DEF ReleaseInv, SwapDatabase, files, ghosts, In, Between, Absent,
         Phased, Target, Restorable, Here, NothingToDo, Blocked, At, Snapshots, Taken,
         Placed, Stopped, RunsCurrent, NoJournal, Unset, Database, Stored, Coherent,
         ReleaseTypeOK
<1>5. Written'
  BY <1>1, <1>2, <1>j DEF ReleaseInv, SwapDatabase, files, ghosts, In, Between, Absent,
         Written, Writing, Renaming, Reconcilable, CleanRoot, Explained, LinksOwned,
         Original, Intermediate, Target
<1>6. Placed'
  BY <1>1, <1>2, <1>j DEF ReleaseInv, SwapDatabase, files, ghosts, In, Between, Absent,
         Placed, CleanRoot, Coherent, Explained, LinksOwned, Original, Intermediate, Target
<1>7. Permitted'
  BY <1>1, <1>2, <1>j DEF ReleaseInv, SwapDatabase, files, ghosts, In, Between, Absent,
         Permitted
<1>8. Stopped'
  BY <1>1, <1>2, <1>j DEF ReleaseInv, SwapDatabase, files, ghosts, In, Between, Absent,
         Stopped, RunsCurrent
<1>9. Snapshots'
  BY <1>1, <1>2, <1>j DEF ReleaseInv, SwapDatabase, files, ghosts, In, Between, Absent,
         Snapshots, Taken, SnapshotValid, Restorable, Here, NothingToDo, Blocked, At,
         Phased, Placed, Stopped, RunsCurrent, NoJournal, Unset, Database, Stored, Coherent,
         ReleaseTypeOK
<1>10. Stored'
  <2>1. /\ journal.taken # Unset /\ restore = journal.taken /\ running = NoRelease
        /\ journal.phase \in {"intent_recorded"} \cup Restorable /\ Coherent(journal)
    BY <1>1, <1>j DEF ReleaseInv, SwapDatabase, Here, NothingToDo, At, In, Between, Snapshots, Stopped,
           Phased, Placed
  <2>2. journal.phase \in Restorable /\ Taken(journal) /\ db' = journal.taken
    BY <2>1 DEF ReleaseInv, Coherent, Snapshots, SwapDatabase
  <2>3. /\ pointer' = pointer /\ journal' = journal /\ running' = running /\ ops' = ops
        /\ settled' = settled /\ undone' = undone
    BY DEF SwapDatabase, ghosts
  <2>4. pointer.current \in {journal.current, journal.candidate}
    BY <2>2, <1>j DEF ReleaseInv, Placed, Explained, Original, Intermediate, Target, Restorable
  <2>5. journal.phase \notin {"none", "rollback_completed", "confirming"}
    BY <2>2 DEF Restorable
  <2>6. journal.current \in Release => db'.schema <= Schema[journal.current] /\
                                      db'.schema >= Schema[journal.current] /\ db'.there
    BY <2>2, ApplicationReleaseAssumption DEF Taken
  <2> HIDE DEF Taken
  <2>7. /\ \A m \in db'.marks \cup undone : m[1] <= ops
        /\ db'.there => db'.schema # 0
        /\ ~db'.there => db' = Absent
        /\ db'.marks \cap undone = {}
        /\ settled \subseteq db'.marks
        /\ <<ops, journal.candidate>> \notin db'.marks
        /\ db'.schema <= Schema[journal.candidate]
    BY <2>2 DEF ReleaseInv, Stored, Taken
  <2> QED
    BY <1>j, <2>1, <2>2, <2>3, <2>4, <2>5, <2>6, <2>7 DEF ReleaseInv, Stored, Coherent
<1> QED  BY <1>2, <1>3, <1>4, <1>5, <1>6, <1>7, <1>8, <1>9, <1>10 DEF ReleaseInv

\* Temporary links of an earlier operation go.
LEMMA UnlinkSound ==
  ASSUME ReleaseInv, Unlink
  PROVE  ReleaseInv'
<1>1. /\ In("undo", 7)
      /\ op # Resting
  BY Places DEF ReleaseInv, Unlink, Here, At
<1>2. /\ op'.mode = op.mode /\ op'.pc = op.pc + 1 /\ op'.candidate = op.candidate
      /\ op' # Resting /\ Operating'
  BY <1>1, Advances DEF ReleaseInv, Unlink, In, Lengths
<1>j. journal # NoJournal
  BY <1>1 DEF ReleaseInv, Phased, In, Between, Restorable, NoJournal
<1>3. ReleaseTypeOK'
  BY <1>1, <1>2, <1>j DEF ReleaseInv, Unlink, files, ghosts, In, Between, ReleaseTypeOK,
         Operating, Pointer, Lengths, Resting
<1>4. Phased'
  BY <1>1, <1>2, <1>j DEF ReleaseInv, Unlink, files, ghosts, In, Between, Phased, Target,
         Restorable
<1>5. Written'
  BY <1>1, <1>2, <1>j DEF ReleaseInv, Unlink, files, ghosts, In, Between, Written, Writing,
         Renaming, Reconcilable, CleanRoot, Explained, LinksOwned, Original, Intermediate,
         Target
<1>6. Placed'
  BY <1>1, <1>2, <1>j DEF ReleaseInv, Unlink, files, ghosts, In, Between, Placed, CleanRoot,
         Coherent, Explained, LinksOwned, Original, Intermediate, Target
<1>7. Permitted'
  BY <1>1, <1>2, <1>j DEF ReleaseInv, Unlink, files, ghosts, In, Between, Permitted
<1>8. Stopped'
  BY <1>1, <1>2, <1>j DEF ReleaseInv, Unlink, files, ghosts, In, Between, Stopped,
         RunsCurrent
<1>9. Snapshots'
  BY <1>1, <1>2, <1>j DEF ReleaseInv, Unlink, files, ghosts, In, Between, Snapshots, Taken,
         SnapshotValid, Restorable
<1>10. Stored'
  BY <1>1, <1>2, <1>j DEF ReleaseInv, Unlink, files, ghosts, In, Between, Stored
<1> QED  BY <1>2, <1>3, <1>4, <1>5, <1>6, <1>7, <1>8, <1>9, <1>10 DEF ReleaseInv

\* The snapshot goes when nothing can be taken back any more.
LEMMA DropSound ==
  ASSUME ReleaseInv, DropSnapshot
  PROVE  ReleaseInv'
<1>1. /\ In("undo", 21) \/ In("restart", 9) \/ In("confirm", 6) \/ In("undo", 22)
         \/ In("restart", 10) \/ In("confirm", 7) \/ In("undo", 23) \/ In("restart", 11)
         \/ In("confirm", 8)
      /\ op # Resting
  BY Places DEF ReleaseInv, DropSnapshot, Here, At
<1>2. /\ op'.mode = op.mode /\ op'.pc = op.pc + 1 /\ op'.candidate = op.candidate
      /\ op' # Resting /\ Operating'
  BY <1>1, Advances DEF ReleaseInv, DropSnapshot, In, Lengths
<1>j. journal # NoJournal
  BY <1>1 DEF ReleaseInv, Phased, In, Between, Restorable, NoJournal
<1>k. /\ snapshot' \in {snapshot, Absent} /\ folder' \in {folder, FALSE}
      /\ pending' \in {pending, FALSE}
      /\ UNCHANGED <<pointer, link, journal, temp, restore, permit, db, running, wanted, ops,
                     faults, settled, undone>>
  BY DEF DropSnapshot, ghosts
<1>3. ReleaseTypeOK'
  <2>1. Absent \in Database
    BY DEF Absent, Database
  <2>2. /\ snapshot' \in Database /\ folder' \in BOOLEAN /\ pending' \in BOOLEAN
        /\ op'.mode \in {"none", "activate", "undo", "restart", "confirm"}
    BY <1>1, <1>2, <1>k, <2>1 DEF ReleaseInv, ReleaseTypeOK
  <2> QED  BY <1>k, <2>2 DEF ReleaseInv, ReleaseTypeOK
<1>4. Phased'
  BY <1>1, <1>2, <1>j DEF ReleaseInv, DropSnapshot, files, ghosts, In, Between, Absent,
         Phased, Target, Restorable
<1>5. Written'
  BY <1>1, <1>2, <1>j DEF ReleaseInv, DropSnapshot, files, ghosts, In, Between, Absent,
         Written, Writing, Renaming, Reconcilable, CleanRoot, Explained, LinksOwned,
         Original, Intermediate, Target
<1>6. Placed'
  <2>1. Between("undo", 23, 23) \/ Between("restart", 11, 11) \/ Between("confirm", 8, 8) => ~folder'
    BY <1>1 DEF ReleaseInv, DropSnapshot, Here, At, StepsOf, Undo, Restart, Confirm, In, Between
  <2> QED
    BY <1>1, <1>2, <1>j, <1>k, <2>1 DEF ReleaseInv, Placed, LinksOwned, In, Between
<1>7. Permitted'
  BY <1>1, <1>2, <1>j DEF ReleaseInv, DropSnapshot, files, ghosts, In, Between, Absent,
         Permitted
<1>8. Stopped'
  BY <1>1, <1>2, <1>j DEF ReleaseInv, DropSnapshot, files, ghosts, In, Between, Absent,
         Stopped, RunsCurrent
<1>9. Snapshots'
  BY <1>1, <1>2, <1>j DEF ReleaseInv, DropSnapshot, files, ghosts, In, Between, Absent,
         Snapshots, Taken, SnapshotValid, Restorable, Phased
<1>10. Stored'
  BY <1>1, <1>2, <1>j DEF ReleaseInv, DropSnapshot, files, ghosts, In, Between, Absent,
         Stored
<1> QED  BY <1>2, <1>3, <1>4, <1>5, <1>6, <1>7, <1>8, <1>9, <1>10 DEF ReleaseInv

\* Whoever dies leaves the files as they are.
LEMMA Interrupted ==
  ASSUME ReleaseInv, UNCHANGED <<files, db, ops, ghosts>>, op' \in {op, Resting},
         running' \in {running, NoRelease}, wanted' \in BOOLEAN,
         op' = Resting \/ wanted' = wanted, faults' \in 0..MaxFaults
  PROVE  ReleaseInv'
<1>1. op' = Resting => \A mode, a, b : mode # "none" => ~Between(mode, a, b)'
  BY DEF Between, Resting
<1>2. op' # Resting => op' = op
  OBVIOUS
<1>3. ReleaseTypeOK'
  BY DEF ReleaseInv, ReleaseTypeOK, files, ghosts, Resting, Pointer
<1>4. Operating'
  BY DEF ReleaseInv, Operating
<1>5. Phased'
  BY <1>1, <1>2 DEF ReleaseInv, Phased, files, ghosts, Target, Between
<1>6. Written'
  BY <1>1, <1>2 DEF ReleaseInv, Written, files, Reconcilable, CleanRoot, Explained, LinksOwned,
         Original, Intermediate, Target, Writing, Renaming, Successor, Between
<1>7. Placed'
  <2>1. /\ CleanRoot' = CleanRoot /\ LinksOwned(journal)' = LinksOwned(journal)
        /\ pointer' = pointer /\ journal' = journal /\ link' = link /\ restore' = restore
        /\ folder' = folder
    BY DEF files, CleanRoot, LinksOwned
  <2>2. CASE op' = op
    BY <2>1, <2>2 DEF ReleaseInv, Placed, Between
  <2>3. CASE op' = Resting
    BY <1>1, <2>1, <2>3 DEF ReleaseInv, Placed
  <2> QED  BY <2>2, <2>3
<1>8. Permitted'
  BY <1>1, <1>2 DEF ReleaseInv, Permitted, files, Between
<1>9. Stopped'
  BY <1>1, <1>2 DEF ReleaseInv, Stopped, RunsCurrent, files, Between
<1>10. Snapshots'
  BY <1>1, <1>2 DEF ReleaseInv, Snapshots, SnapshotValid, Taken, files, ghosts, Between
<1>11. Stored'
  BY DEF ReleaseInv, Stored, files, ghosts
<1> QED  BY <1>3, <1>4, <1>5, <1>6, <1>7, <1>8, <1>9, <1>10, <1>11 DEF ReleaseInv

LEMMA KilledSound ==
  ASSUME ReleaseInv, Killed \/ PowerCut \/ Died
  PROVE  ReleaseInv'
<1>1. faults' \in 0..MaxFaults /\ wanted \in BOOLEAN
  BY ApplicationReleaseAssumption DEF ReleaseInv, ReleaseTypeOK, Killed, PowerCut, Died
<1>2. CASE Killed
  BY <1>1, <1>2, Interrupted DEF Killed
<1>3. CASE PowerCut
  BY <1>1, <1>3, Interrupted DEF PowerCut
<1>4. CASE Died
  BY <1>1, <1>4, Interrupted DEF Died
<1> QED  BY <1>2, <1>3, <1>4

\* An activation that fails goes over to its rollback; any other operation ends.
LEMMA FailSound ==
  ASSUME ReleaseInv, Fail
  PROVE  ReleaseInv'
<1>0. faults' \in 0..MaxFaults
  <2>1. faults \in 0..MaxFaults
    BY DEF ReleaseInv, ReleaseTypeOK
  <2>2. faults' = faults \/ (faults < MaxFaults /\ faults' = faults + 1)
    BY Zenon DEF Fail
  <2> QED  BY <2>1, <2>2, ApplicationReleaseAssumption
<1>1. /\ op' = AfterFailure /\ op # Resting
      /\ Blocked \/ (MayFail /\ ~Blocked)
      /\ UNCHANGED <<pointer, link, journal, temp, pending, restore, permit,
                     db, running, wanted, ops, settled, undone>>
  BY Zenon DEF Fail, ghosts
<1>2. CASE ~(op.mode = "activate" /\ op.pc > 4)
  <2>1. ~(op.mode = "activate" /\ At = "write" /\ journal.phase = "intent_recorded")
    BY <1>2, <1>1, Places DEF ReleaseInv, In, Phased, Between, NoJournal, Operating
  <2>2. op' = Resting /\ UNCHANGED <<snapshot, folder>>
    BY <1>1, <1>2, <2>1 DEF AfterFailure, Fail
  <2>3. wanted' \in BOOLEAN
    BY <1>1 DEF ReleaseInv, ReleaseTypeOK
  <2> QED  BY <1>0, <1>1, <2>2, <2>3, Interrupted DEF files, ghosts
<1>3. CASE op.mode = "activate" /\ op.pc > 4
  <2>1. /\ op \in [mode : {"activate", "undo", "restart", "confirm"}, pc : Nat \ {0},
                   candidate : Pointer]
        /\ op.pc \in 5..21
    BY <1>1, <1>3 DEF ReleaseInv, Operating, Lengths
  <2>2. StartAttempted <=> op.pc >= 16
    <3>1. \A n \in 1..21 : Activate[n] = "start" <=> n = 16
      BY DEF Activate
    <3> QED  BY <2>1, <3>1 DEF StartAttempted
  <2>3. /\ op'.mode = "undo" /\ op'.candidate = op.candidate
        /\ op'.pc = IF op.pc >= 16 THEN 1 ELSE 2
        /\ Operating'
    <3>1. op' = [op EXCEPT !.mode = "undo", !.pc = IF op.pc >= 16 THEN 1 ELSE 2]
      BY <1>1, <1>3, <2>1, <2>2 DEF AfterFailure
    <3> DEFINE n == IF op.pc >= 16 THEN 1 ELSE 2
    <3>2. n \in {1, 2} /\ n \in Nat \ {0}
      OBVIOUS
    <3> HIDE DEF n
    <3>3. op' = [op EXCEPT !.mode = "undo", !.pc = n]
      BY <3>1 DEF n
    <3>4. /\ op'.mode = "undo" /\ op'.candidate = op.candidate /\ op'.pc = n
          /\ op' \in [mode : {"activate", "undo", "restart", "confirm"}, pc : Nat \ {0},
                      candidate : Pointer]
      <4>1. op'.mode = "undo" /\ op'.candidate = op.candidate /\ op'.pc = n
        BY <2>1, <3>3
      <4>2. op' = [mode |-> "undo", pc |-> n, candidate |-> op.candidate]
        BY <2>1, <3>3
      <4> QED  BY <2>1, <3>2, <4>1, <4>2
    <3>5. Operating'
      BY <3>2, <3>4 DEF Operating, Lengths, Pointer
    <3> QED  BY <3>4, <3>5 DEF n
  <2>a. op'.pc \in {1, 2} /\ (op'.pc = 2 => op.pc \in 5..15)
    BY <2>1, <2>3
  <2>4. /\ journal.phase \in {"intent_recorded", "snapshot_ready"} /\ journal # NoJournal
        /\ op.pc \in 5..9 => journal.phase = "intent_recorded"
        /\ op.pc \in 10..21 => journal.phase = "snapshot_ready"
    BY <1>3, <2>1 DEF ReleaseInv, Phased, Between, NoJournal
  <2>5. \/ snapshot' = snapshot /\ folder' = folder
        \/ journal.phase = "intent_recorded" /\ snapshot' = Absent /\ folder' = FALSE
    BY Zenon DEF Fail
  <2>6. At # "rename"
    BY <1>1 DEF MayFail, Blocked
  <2>7. op.pc \notin {9, 21}
    BY <1>3, <2>1, <2>6 DEF At, StepsOf, Activate, Resting
  <2>8. temp \in {Missing, Partial}
    BY <1>3, <2>1, <2>7 DEF ReleaseInv, Written, Writing, Renaming, Between
  <2>9. op.pc \in 5..15 => running = NoRelease /\ permit.at \in {"missing", "temp"}
    BY <1>3, <2>1 DEF ReleaseInv, Stopped, Permitted, Between
  <2>10. ReleaseTypeOK'
    <3>1. Absent \in Database
      BY DEF Absent, Database
    <3>2. snapshot' \in Database /\ folder' \in BOOLEAN
      BY <2>5, <3>1 DEF ReleaseInv, ReleaseTypeOK
    <3> QED  BY <1>0, <1>1, <2>3, <3>2 DEF ReleaseInv, ReleaseTypeOK
  <2>11. Phased'
    BY <1>1, <2>3, <2>a, <2>4 DEF Phased, Between, Restorable
  <2>12. Written'
    BY <1>1, <2>3, <2>4, <2>8 DEF ReleaseInv, Written, Writing, Renaming, Between, Reconcilable,
           Explained, LinksOwned, Original, Intermediate, Target
  <2>13. Placed'
    BY <1>1, <2>3, <2>4, <2>5 DEF ReleaseInv, Placed, Between, LinksOwned
  <2>14. Permitted'
    BY <1>1, <2>3, <2>a, <2>4, <2>9 DEF ReleaseInv, Permitted, Between
  <2>15. Stopped'
    BY <1>1, <2>1, <2>3, <2>9 DEF ReleaseInv, Stopped, RunsCurrent, Between
  <2>16. Snapshots'
    BY <1>1, <2>3, <2>4, <2>5 DEF ReleaseInv, Snapshots, SnapshotValid, Restorable, Taken, Between
  <2>17. Stored'
    BY <1>1 DEF ReleaseInv, Stored
  <2> QED
    BY <2>3, <2>10, <2>11, <2>12, <2>13, <2>14, <2>15, <2>16, <2>17 DEF ReleaseInv
<1> QED  BY <1>2, <1>3

\* The places where a step may have nothing to do, and why.
LEMMA Idle ==
  ASSUME ReleaseInv, NothingToDo
  PROVE  /\ op # Resting
         /\ \/ In("activate", 4) /\ journal.current = NoRelease
            \/ op.mode = "restart" /\ op.pc \in 1..7 /\ Starts = NoRelease
            \/ op.mode = "undo" /\ op.pc \in 12..16 /\ Starts = NoRelease
            \/ (In("undo", 4) \/ In("undo", 5)) /\ (journal.taken = Unset \/ ~journal.taken.there)
            \/ In("undo", 6) /\ journal.taken = Unset
            \/ In("activate", 12) \/ In("undo", 8) \/ In("activate", 10) \/ In("undo", 10)
            \/ In("restart", 9) \/ In("restart", 10) \/ (In("restart", 11) /\ ~folder)
            \/ In("confirm", 6) \/ In("confirm", 7) \/ (In("confirm", 8) /\ ~folder)
            \/ In("undo", 21) \/ In("undo", 22) \/ (In("undo", 23) /\ ~folder)
<1>0. op # Resting
  BY DEF NothingToDo, At
<1>1. op.mode = "activate" /\ op.pc \in 14..18 => Starts # NoRelease
  <2> SUFFICES ASSUME op.mode = "activate", op.pc \in 14..18 PROVE Starts # NoRelease
    OBVIOUS
  <2>1. journal.candidate \in Release
    BY DEF ReleaseInv, Phased, Between, ReleaseTypeOK, Journal, NoJournal
  <2> QED  BY <2>1, ApplicationReleaseAssumption DEF Starts
<1>2. At = "stop" /\ op.mode = "activate" => In("activate", 4)
  BY Places DEF ReleaseInv, In
<1>3. At \in {"stop", "revoke"} /\ op.mode = "restart" => op.pc \in 1..7
  BY Places DEF ReleaseInv, In
<1>4. /\ At \in {"request", "grant", "start", "health"} /\ Starts = NoRelease
         => op.mode \in {"undo", "restart"}
      /\ At \in {"request", "grant", "start", "health"} /\ op.mode = "undo" => op.pc \in 12..16
      /\ At \in {"request", "grant", "start", "health"} /\ op.mode = "restart" => op.pc \in 1..7
  BY <1>1, Places DEF ReleaseInv, In
<1>5. /\ At = "ready" /\ op.mode # "confirm" /\ Starts = NoRelease
         => op.mode \in {"undo", "restart"}
      /\ At = "ready" /\ op.mode = "undo" => op.pc \in 12..16
      /\ At = "ready" /\ op.mode = "restart" => op.pc \in 1..7
  BY <1>1, Places DEF ReleaseInv, In
<1>6. /\ At = "openCopy" => In("undo", 4)
      /\ At = "copy" => In("undo", 5)
      /\ At = "swap" => In("undo", 6)
      /\ At = "linkPrevious" => In("activate", 10) \/ In("undo", 10)
      /\ At = "linkCurrent" => In("activate", 12) \/ In("undo", 8)
      /\ At = "dropPending" => In("undo", 21) \/ In("restart", 9) \/ In("confirm", 6)
      /\ At = "dropSnapshot" => In("undo", 22) \/ In("restart", 10) \/ In("confirm", 7)
      /\ At = "rmdir" => In("undo", 23) \/ In("restart", 11) \/ In("confirm", 8)
  BY Places DEF ReleaseInv
<1> HIDE DEF ReleaseInv, At, In, Starts
<1> QED
  BY ONLY <1>0, <1>2, <1>3, <1>4, <1>5, <1>6, NothingToDo DEF NothingToDo

\* A step that has nothing to do is passed over.
LEMMA SkipSound ==
  ASSUME ReleaseInv, Skip
  PROVE  ReleaseInv'
<1>1. op # Resting /\ NothingToDo /\ op.mode \in {"activate", "undo", "restart", "confirm"}
  BY Idle DEF Skip, ReleaseInv, Operating
<1>2. op.pc # Lengths[op.mode]
  BY Idle, <1>1 DEF In, Lengths
<1>3. /\ op'.mode = op.mode /\ op'.pc = op.pc + 1 /\ op'.candidate = op.candidate
      /\ op' # Resting /\ Operating' /\ op.pc \in Nat
  BY <1>1, <1>2, Advances DEF ReleaseInv, Skip, Operating
<1>4. /\ UNCHANGED <<pointer, link, journal, temp, pending, snapshot, folder, restore, permit,
                     db, running, wanted, ops, faults, settled, undone>>
  BY DEF Skip, files, ghosts
<1>5. ReleaseTypeOK'
  BY <1>1, <1>3, <1>4 DEF ReleaseInv, ReleaseTypeOK
<1>6. Phased'
  BY Idle, <1>1, <1>3, <1>4 DEF ReleaseInv, Phased, Between, In, Target
<1>7. Written'
  <2>1. Reconcilable' = Reconcilable
    BY <1>4 DEF Reconcilable, CleanRoot, LinksOwned
  <2> QED
    BY Idle, <1>1, <1>3, <1>4, <2>1 DEF ReleaseInv, Written, Writing, Renaming, Between, In
<1>8. Placed'
  <2>1. CleanRoot' = CleanRoot /\ LinksOwned(journal)' = LinksOwned(journal)
    BY <1>4 DEF CleanRoot, LinksOwned
  <2> QED
    BY Idle, <1>1, <1>3, <1>4, <2>1 DEF ReleaseInv, Placed, Between, In
<1>9. Permitted'
  <2>1. op.mode \in {"undo", "restart"} /\ Starts = NoRelease /\ op.pc \in 1..16 =>
          \/ op.mode = "undo" /\ journal.current = NoRelease
          \/ journal.phase = "rollback_completed" /\ journal.current = NoRelease
    <3>1. op.mode = "undo" /\ op.pc \in 1..16 => journal.phase # "confirming"
      BY DEF ReleaseInv, Phased, Between, Restorable
    <3>2. op.mode = "restart" /\ op.pc \in 1..12 =>
            journal.phase \in {"confirming", "rollback_completed"}
      BY DEF ReleaseInv, Phased, Between
    <3>3. journal.phase = "confirming" => journal.candidate \in Release
      BY DEF ReleaseInv, ReleaseTypeOK, Journal, NoJournal
    <3>4. op.mode = "restart" => op.pc <= 12
      BY <1>1 DEF ReleaseInv, Operating, Lengths
    <3> QED
      BY <1>1, <1>3, <3>1, <3>2, <3>3, <3>4, ApplicationReleaseAssumption DEF Starts
  <2> QED
    BY Idle, <1>1, <1>3, <1>4, <2>1 DEF ReleaseInv, Permitted, Between, In
<1>10. Stopped'
  <2>1. In("activate", 4) /\ journal.current = NoRelease => running = NoRelease
    BY DEF ReleaseInv, Phased, Placed, Stopped, RunsCurrent, In, Between, Explained, Original, NoJournal
  <2> QED
    BY Idle, <1>1, <1>3, <1>4, <2>1 DEF ReleaseInv, Stopped, RunsCurrent, Between, In
<1>11. Snapshots'
  <2>1. In("undo", 5) /\ journal.taken # Unset /\ ~journal.taken.there => restore = journal.taken
    <3> SUFFICES ASSUME In("undo", 5), journal.taken # Unset, ~journal.taken.there
                 PROVE  restore = journal.taken
      OBVIOUS
    <3>1. journal # NoJournal /\ journal.phase \in {"intent_recorded"} \cup Restorable
      BY DEF ReleaseInv, Phased, In, Between, Restorable, NoJournal
    <3>2. Taken(journal)
      BY <3>1 DEF ReleaseInv, Placed, Coherent, Snapshots
    <3> QED  BY <3>2 DEF ReleaseInv, Snapshots, In, Between, Taken
  <2>2. In("undo", 4) /\ journal.taken = Unset => journal.taken.there
    BY DEF Unset
  <2>3. Taken(journal)' = Taken(journal)
    BY <1>4 DEF Taken
  <2> QED
    BY Idle, <1>1, <1>3, <1>4, <2>1, <2>2, <2>3
    DEF ReleaseInv, Snapshots, SnapshotValid, Between, In
<1>12. Stored'
  BY <1>4 DEF ReleaseInv, Stored
<1> QED
  BY <1>3, <1>5, <1>6, <1>7, <1>8, <1>9, <1>10, <1>11, <1>12 DEF ReleaseInv
\* The five renames: an intent,
LEMMA RenameIntent ==
  ASSUME ReleaseInv, RenameTemp, In("activate", 3)
  PROVE  ReleaseInv'
<1>1. /\ op'.mode = "activate" /\ op'.pc = 4 /\ op'.candidate = op.candidate
      /\ op' # Resting /\ Operating' /\ op # Resting /\ op.candidate \in Release
  BY Advances DEF ReleaseInv, RenameTemp, In, Lengths, Resting, Operating
<1>2. /\ journal = NoJournal /\ op.candidate # pointer.current
      /\ db.schema <= Schema[op.candidate]
      /\ \A r \in Release : <<ops, r>> \in db.marks => r = pointer.current
      /\ \A r \in Release : <<ops, r>> \notin undone
      /\ temp = Successor /\ link = {} /\ permit.at = "missing" /\ CleanRoot
  BY DEF ReleaseInv, In, Phased, Written, Writing, Renaming, Placed, Permitted, Between
<1>3. /\ journal' = [phase |-> "intent_recorded", candidate |-> op.candidate,
                     current |-> pointer.current, previous |-> pointer.previous, taken |-> Unset]
      /\ temp' = Missing
      /\ UNCHANGED <<pointer, link, pending, snapshot, folder, restore, permit,
                     db, running, wanted, ops, faults>>
  BY <1>2 DEF RenameTemp, Successor, In
<1>4. /\ journal'.phase = "intent_recorded" /\ journal'.candidate = op.candidate
      /\ journal'.current = pointer.current /\ journal'.previous = pointer.previous
      /\ journal'.taken = Unset /\ journal' # NoJournal
      /\ settled' = settled /\ undone' = undone
  BY <1>3 DEF RenameTemp, Settles, NoJournal
<1>5. /\ pointer.current \in Pointer /\ pointer.previous \in Pointer
      /\ pointer = [current |-> pointer.current, previous |-> pointer.previous]
  <2>1. pointer \in [{"current", "previous"} -> Pointer]
    BY DEF ReleaseInv, ReleaseTypeOK
  <2>2. pointer = [pointer EXCEPT !["current"] = pointer["current"]]
    BY <2>1
  <2> QED  BY <2>1, <2>2, CurrentMoves
<1>6. ReleaseTypeOK'
  <2>1. journal' \in Journal
    BY <1>1, <1>3, <1>5 DEF Journal, Phase, Database, Unset
  <2> QED  BY <1>1, <1>3, <1>4, <2>1 DEF ReleaseInv, ReleaseTypeOK
<1>7. Phased'
  BY <1>1, <1>2, <1>3, <1>4 DEF Phased, Between
<1>8. Written'
  BY <1>1, <1>3 DEF Written, Writing, Renaming, Between
<1>9. Placed'
  <2>1. Coherent(journal')
    BY <1>2, <1>4 DEF Coherent, CleanRoot
  <2>2. pointer' \in Explained(journal')
    BY <1>3, <1>4, <1>5 DEF Explained, Original
  <2>3. LinksOwned(journal)'
    BY <1>2, <1>3 DEF LinksOwned
  <2> QED
    BY <1>1, <1>2, <1>3, <1>4, <2>1, <2>2, <2>3 DEF ReleaseInv, Placed, Between, LinksOwned
<1>10. Permitted'
  BY <1>1, <1>2, <1>3, <1>4 DEF ReleaseInv, Permitted, Between
<1>11. Stopped'
  BY <1>1, <1>3 DEF ReleaseInv, Stopped, RunsCurrent, Between
<1>12. Snapshots'
  BY <1>1, <1>4 DEF Snapshots, Restorable, Between
<1>13. Stored'
  BY <1>2, <1>3, <1>4, <1>1 DEF ReleaseInv, Stored
<1> QED
  BY <1>1, <1>6, <1>7, <1>8, <1>9, <1>10, <1>11, <1>12, <1>13 DEF ReleaseInv

\* the snapshot,
LEMMA RenameReady ==
  ASSUME ReleaseInv, RenameTemp, In("activate", 9)
  PROVE  ReleaseInv'
<1>1. /\ op'.mode = "activate" /\ op'.pc = 10 /\ op'.candidate = op.candidate
      /\ op' # Resting /\ Operating' /\ op # Resting
  BY Advances DEF ReleaseInv, RenameTemp, In, Lengths, Resting, Operating
<1>2. /\ journal.phase = "intent_recorded" /\ journal \in Journal /\ journal # NoJournal
      /\ db.schema <= Schema[journal.candidate] /\ snapshot = db /\ running = NoRelease
      /\ temp = Successor /\ link = {} /\ permit.at = "missing"
  BY DEF ReleaseInv, In, Phased, Written, Writing, Renaming, Placed, Permitted, Stopped, Snapshots,
         Between, NoJournal, ReleaseTypeOK
<1>3. /\ journal' = [journal EXCEPT !.phase = "snapshot_ready", !.taken = snapshot]
      /\ temp' = Missing
      /\ UNCHANGED <<pointer, link, pending, snapshot, folder, restore, permit,
                     db, running, wanted, ops, faults>>
  BY <1>2 DEF RenameTemp, Successor, In
<1>4. /\ journal'.phase = "snapshot_ready" /\ journal'.candidate = journal.candidate
      /\ journal'.current = journal.current /\ journal'.previous = journal.previous
      /\ journal'.taken = db /\ journal' # NoJournal /\ journal' \in Journal
  BY <1>2, <1>3 DEF NoJournal, Journal, Phase, ReleaseInv, ReleaseTypeOK
<1>5. settled' = settled /\ undone' = undone
  BY <1>4 DEF RenameTemp, Settles
<1>6. /\ Coherent(journal) /\ pointer = Original(journal) /\ pointer.current = journal.current
      /\ LinksOwned(journal)
  BY <1>2 DEF ReleaseInv, Placed, Explained, Original
<1>t. /\ journal.current \in Release => db.there /\ db.schema = Schema[journal.current]
      /\ <<ops, journal.candidate>> \notin db.marks
  BY <1>2, <1>6, ApplicationReleaseAssumption DEF ReleaseInv, Stored, ReleaseTypeOK, Database
<1>7. Taken(journal)'
  BY <1>2, <1>3, <1>4, <1>5, <1>t DEF ReleaseInv, Stored, Taken
<1>8. ReleaseTypeOK'
  BY <1>1, <1>3, <1>4, <1>5 DEF ReleaseInv, ReleaseTypeOK
<1>9. Phased'
  BY <1>1, <1>4 DEF Phased, Between
<1>10. Written'
  BY <1>1, <1>3 DEF Written, Writing, Renaming, Between
<1>11. Placed'
  <2>1. db # Unset
    BY DEF ReleaseInv, Stored, Unset
  <2>2. Coherent(journal')
    BY <1>2, <1>4, <1>6, <2>1 DEF Coherent
  <2>3. pointer' \in Explained(journal') /\ pointer' = Original(journal')
    BY <1>3, <1>4, <1>6 DEF Explained, Original
  <2> QED
    BY <1>1, <1>2, <1>3, <1>4, <2>2, <2>3 DEF Placed, Between, LinksOwned
<1>12. Permitted'
  BY <1>1, <1>2, <1>3, <1>4 DEF Permitted, Between
<1>13. Stopped'
  BY <1>1, <1>2, <1>3 DEF Stopped, RunsCurrent, Between
<1>14. Snapshots'
  BY <1>1, <1>2, <1>3, <1>4, <1>7 DEF Snapshots, SnapshotValid, Restorable, Between
<1>15. Stored'
  BY <1>2, <1>3, <1>4, <1>5 DEF ReleaseInv, Stored
<1> QED
  BY <1>1, <1>8, <1>9, <1>10, <1>11, <1>12, <1>13, <1>14, <1>15 DEF ReleaseInv

\* a candidate that is ready,
LEMMA RenameAwaiting ==
  ASSUME ReleaseInv, RenameTemp, In("activate", 21)
  PROVE  ReleaseInv'
<1>1. op' = Resting /\ Operating' /\ op # Resting
  BY Advances DEF ReleaseInv, RenameTemp, In, Lengths, Resting, Operating
<1>0. \A mode, a, b : mode # "none" => ~Between(mode, a, b)'
  BY <1>1 DEF Between, Resting
<1>2. /\ journal.phase = "snapshot_ready" /\ journal \in Journal /\ journal # NoJournal
      /\ temp = Successor /\ link = {} /\ permit.at = "missing" /\ pointer = Target(journal)
      /\ SnapshotValid /\ Taken(journal) /\ Coherent(journal) /\ LinksOwned(journal)
  BY DEF ReleaseInv, In, Phased, Written, Writing, Renaming, Placed, Permitted, Snapshots,
         Between, NoJournal, ReleaseTypeOK, Restorable
<1>3. /\ journal' = [journal EXCEPT !.phase = "awaiting_confirmation"]
      /\ temp' = Missing
      /\ UNCHANGED <<pointer, link, pending, snapshot, folder, restore, permit,
                     db, running, wanted, ops, faults>>
  BY <1>2 DEF RenameTemp, Successor, In
<1>4. /\ journal'.phase = "awaiting_confirmation" /\ journal'.candidate = journal.candidate
      /\ journal'.current = journal.current /\ journal'.previous = journal.previous
      /\ journal'.taken = journal.taken /\ journal' # NoJournal /\ journal' \in Journal
  BY <1>2, <1>3 DEF NoJournal, Journal, Phase
<1>5. settled' = settled /\ undone' = undone
  BY <1>4 DEF RenameTemp, Settles
<1>7. Taken(journal)'
  BY <1>2, <1>3, <1>4, <1>5 DEF Taken
<1>8. ReleaseTypeOK'
  BY <1>1, <1>3, <1>4, <1>5 DEF ReleaseInv, ReleaseTypeOK, Resting
<1>9. Phased'
  BY <1>0 DEF Phased
<1>10. Written'
  BY <1>0, <1>3 DEF Written, Writing, Renaming
<1>11. Placed'
  <2>1. Coherent(journal')
    BY <1>2, <1>4 DEF Coherent
  <2>2. pointer' \in Explained(journal')
    BY <1>2, <1>3, <1>4 DEF Explained, Target
  <2> QED
    BY <1>0, <1>2, <1>3, <1>4, <2>1, <2>2 DEF Placed, LinksOwned
<1>12. Permitted'
  BY <1>0, <1>2, <1>3, <1>4 DEF Permitted
<1>13. Stopped'
  BY <1>0, <1>3 DEF ReleaseInv, Stopped, RunsCurrent
<1>14. Snapshots'
  BY <1>0, <1>2, <1>3, <1>4, <1>7 DEF Snapshots, SnapshotValid, Restorable
<1>15. Stored'
  BY <1>2, <1>3, <1>4, <1>5 DEF ReleaseInv, Stored
<1> QED
  BY <1>1, <1>8, <1>9, <1>10, <1>11, <1>12, <1>13, <1>14, <1>15 DEF ReleaseInv

\* a rollback that is done,
LEMMA RenameUndone ==
  ASSUME ReleaseInv, RenameTemp, In("undo", 19)
  PROVE  ReleaseInv'
<1>1. /\ op'.mode = "undo" /\ op'.pc = 20 /\ op'.candidate = op.candidate
      /\ op' # Resting /\ Operating' /\ op # Resting
  BY Advances DEF ReleaseInv, RenameTemp, In, Lengths, Resting, Operating
<1>2. /\ journal.phase \in {"intent_recorded"} \cup Restorable
      /\ journal \in Journal /\ journal # NoJournal
      /\ temp = Successor /\ link = {} /\ permit.at = "missing" /\ pointer = Original(journal)
      /\ Coherent(journal) /\ LinksOwned(journal)
  BY DEF ReleaseInv, In, Phased, Written, Writing, Renaming, Placed, Permitted,
         Between, NoJournal, ReleaseTypeOK, Restorable
<1>3. /\ journal' = [journal EXCEPT !.phase = "rollback_completed"]
      /\ temp' = Missing
      /\ UNCHANGED <<pointer, link, pending, snapshot, folder, restore, permit,
                     db, running, wanted, ops, faults>>
  BY <1>2 DEF RenameTemp, Successor, In
<1>4. /\ journal'.phase = "rollback_completed" /\ journal'.candidate = journal.candidate
      /\ journal'.current = journal.current /\ journal'.previous = journal.previous
      /\ journal'.taken = journal.taken /\ journal' # NoJournal /\ journal' \in Journal
      /\ journal.candidate \in Release
  BY <1>2, <1>3 DEF NoJournal, Journal, Phase
<1>5. settled' = db.marks /\ undone' = undone \cup {<<ops, journal.candidate>>}
  BY <1>3, <1>4 DEF RenameTemp, Settles
<1>6. pointer.current = journal.current /\ pointer.current # journal.candidate
  BY <1>2 DEF Original, Coherent
<1>7. <<ops, journal.candidate>> \notin db.marks
  BY <1>2, <1>6 DEF ReleaseInv, Stored
<1>8. ReleaseTypeOK'
  <2>1. settled' \subseteq Mark /\ undone' \subseteq Mark
    BY <1>4, <1>5 DEF ReleaseInv, ReleaseTypeOK, Database, Mark
  <2> QED  BY <1>1, <1>3, <1>4, <2>1 DEF ReleaseInv, ReleaseTypeOK
<1>9. Phased'
  BY <1>1, <1>4 DEF Phased, Between
<1>10. Written'
  BY <1>1, <1>3 DEF Written, Writing, Renaming, Between
<1>11. Placed'
  <2>1. Coherent(journal')
    BY <1>2, <1>4 DEF Coherent
  <2>2. pointer' \in Explained(journal') /\ pointer' = Original(journal')
    BY <1>2, <1>3, <1>4 DEF Explained, Original
  <2> QED
    BY <1>1, <1>2, <1>3, <1>4, <2>1, <2>2 DEF Placed, Between, LinksOwned
<1>12. Permitted'
  BY <1>1, <1>2, <1>3, <1>4 DEF Permitted, Between
<1>13. Stopped'
  BY <1>1, <1>3 DEF ReleaseInv, Stopped, RunsCurrent, Between
<1>14. Snapshots'
  BY <1>1, <1>4 DEF Snapshots, Restorable, Between
<1>15. Stored'
  <2> DEFINE m0 == <<ops, journal.candidate>>
  <2>1. m0[1] <= ops
    BY DEF ReleaseInv, ReleaseTypeOK
  <2>2. \A m \in db'.marks \cup undone' : m[1] <= ops'
    BY <1>3, <1>5, <2>1 DEF ReleaseInv, Stored
  <2>3. db'.marks \cap undone' = {} /\ settled' \subseteq db'.marks
    BY <1>3, <1>5, <1>7 DEF ReleaseInv, Stored
  <2>4. \A r \in Release : <<ops, r>> \in undone' => r = journal.candidate
    BY <1>2, <1>5 DEF ReleaseInv, Stored, Restorable
  <2> HIDE DEF m0
  <2> QED
    BY <1>2, <1>3, <1>4, <1>6, <1>7, <2>2, <2>3, <2>4 DEF ReleaseInv, Stored
<1> QED
  BY <1>1, <1>8, <1>9, <1>10, <1>11, <1>12, <1>13, <1>14, <1>15 DEF ReleaseInv

\* and a confirmation.
LEMMA RenameConfirming ==
  ASSUME ReleaseInv, RenameTemp, In("confirm", 4)
  PROVE  ReleaseInv'
<1>1. /\ op'.mode = "confirm" /\ op'.pc = 5 /\ op'.candidate = op.candidate
      /\ op' # Resting /\ Operating' /\ op # Resting
  BY Advances DEF ReleaseInv, RenameTemp, In, Lengths, Resting, Operating
<1>2. /\ journal.phase = "awaiting_confirmation"
      /\ journal \in Journal /\ journal # NoJournal
      /\ temp = Successor /\ link = {} /\ permit.at = "missing" /\ pointer = Target(journal)
      /\ Coherent(journal) /\ LinksOwned(journal)
      /\ db.there /\ db.schema >= Schema[journal.candidate]
  BY DEF ReleaseInv, In, Phased, Written, Writing, Renaming, Placed, Permitted,
         Between, NoJournal, ReleaseTypeOK, Restorable
<1>3. /\ journal' = [journal EXCEPT !.phase = "confirming"]
      /\ temp' = Missing
      /\ UNCHANGED <<pointer, link, pending, snapshot, folder, restore, permit,
                     db, running, wanted, ops, faults>>
  BY <1>2 DEF RenameTemp, Successor, In
<1>4. /\ journal'.phase = "confirming" /\ journal'.candidate = journal.candidate
      /\ journal'.current = journal.current /\ journal'.previous = journal.previous
      /\ journal'.taken = journal.taken /\ journal' # NoJournal /\ journal' \in Journal
  BY <1>2, <1>3 DEF NoJournal, Journal, Phase
<1>5. settled' = db.marks /\ undone' = undone
  BY <1>4, <1>3 DEF RenameTemp, Settles
<1>6. pointer.current = journal.candidate /\ pointer.current # journal.current
  BY <1>2 DEF Target, Coherent
<1>8. ReleaseTypeOK'
  BY <1>1, <1>3, <1>4, <1>5 DEF ReleaseInv, ReleaseTypeOK, Database
<1>9. Phased'
  BY <1>1, <1>4 DEF Phased, Between
<1>10. Written'
  BY <1>1, <1>3 DEF Written, Writing, Renaming, Between
<1>11. Placed'
  <2>1. Coherent(journal')
    BY <1>2, <1>4 DEF Coherent
  <2>2. pointer' \in Explained(journal')
    BY <1>2, <1>3, <1>4 DEF Explained, Target
  <2> QED
    BY <1>1, <1>2, <1>3, <1>4, <2>1, <2>2 DEF Placed, Between, LinksOwned
<1>12. Permitted'
  BY <1>1, <1>2, <1>3, <1>4 DEF Permitted, Between
<1>13. Stopped'
  BY <1>1, <1>3 DEF ReleaseInv, Stopped, RunsCurrent, Between
<1>14. Snapshots'
  BY <1>1, <1>4 DEF Snapshots, Restorable, Between
<1>15. Stored'
  BY <1>2, <1>3, <1>4, <1>5, <1>6 DEF ReleaseInv, Stored
<1> QED
  BY <1>1, <1>8, <1>9, <1>10, <1>11, <1>12, <1>13, <1>14, <1>15 DEF ReleaseInv

\* The rename commits the transition.
LEMMA RenameSound ==
  ASSUME ReleaseInv, RenameTemp
  PROVE  ReleaseInv'
  BY Places, RenameIntent, RenameReady, RenameAwaiting, RenameUndone, RenameConfirming
  DEF ReleaseInv, RenameTemp, Here

\* An application that starts runs what `current' names, on its own schema, and a
\* pending operation has permitted it.
LEMMA LaunchedSound ==
  ASSUME ReleaseInv, running = NoRelease, Launched,
         UNCHANGED <<pointer, link, journal, temp, pending, snapshot, folder, restore, ops,
                     settled, undone>>
  PROVE  /\ pointer.current \in Release /\ running' = pointer.current /\ temp = Missing
         /\ permit.at # "temp" /\ (journal # NoJournal => permit.at = "granted")
         /\ permit' \in [at : {"missing", "temp", "granted", "claimed"}, release : Pointer]
         /\ journal = NoJournal => permit' = permit /\ db' = db
         /\ db' \in Database /\ Stored'
         /\ db'.marks = db.marks /\ db'.there /\ db'.schema >= db.schema
         /\ db'.schema = Schema[pointer.current]
<1>1. /\ pointer.current \in Release /\ running' = pointer.current /\ temp = Missing
      /\ permit.at # "temp" /\ (journal # NoJournal => permit.at = "granted")
      /\ journal = NoJournal => permit' = permit
      /\ journal # NoJournal => permit' = [permit EXCEPT !.at = "claimed"]
      /\ db' = Opened(pointer.current)
  <2>1. CurrentReleaseId # NoRelease => pointer.current \in Release
    BY DEF CurrentReleaseId
  <2>2. GateAdmits /\ running' = pointer.current /\ db' = Opened(pointer.current)
    BY DEF Launched
  <2>3. permit' = IF journal = NoJournal THEN permit ELSE [permit EXCEPT !.at = "claimed"]
    BY DEF Launched
  <2> QED  BY <2>1, <2>2, <2>3 DEF GateAdmits
<1>2. permit' \in [at : {"missing", "temp", "granted", "claimed"}, release : Pointer]
  BY <1>1 DEF ReleaseInv, ReleaseTypeOK
<1>3. /\ db \in Database /\ db.schema \in Nat /\ db.schema <= Schema[pointer.current]
      /\ Schema[pointer.current] \in Nat \ {0}
  BY <1>1, ApplicationReleaseAssumption DEF ReleaseInv, ReleaseTypeOK, Database, Stored
<1>4. /\ db'.marks = db.marks /\ db'.there /\ db'.schema = Schema[pointer.current]
      /\ db' \in Database
  <2>1. db' = [db EXCEPT !.there = TRUE, !.schema = Schema[pointer.current]]
    <3>1. (IF Schema[pointer.current] > db.schema THEN Schema[pointer.current] ELSE db.schema)
            = Schema[pointer.current]
      BY <1>3
    <3> QED  BY <1>1, <3>1 DEF Opened
  <2>2. /\ db'.marks = db.marks /\ db'.there /\ db'.schema = Schema[pointer.current]
        /\ db' = [schema |-> Schema[pointer.current], marks |-> db.marks, there |-> TRUE]
    BY <1>3, <2>1 DEF Database
  <2>3. Schema[pointer.current] \in {Schema[r] : r \in Release} \cup {0} /\ db.marks \in SUBSET Mark
    BY <1>1, <1>3 DEF Database
  <2>4. db' \in Database
    BY <2>2, <2>3 DEF Database
  <2> QED  BY <2>2, <2>4
<1>5. journal = NoJournal => db' = db
  <2> SUFFICES ASSUME journal = NoJournal  PROVE db' = db
    OBVIOUS
  <2>1. db.there /\ db.schema = Schema[pointer.current]
    BY <1>1, <1>3 DEF ReleaseInv, Stored
  <2> QED  BY <1>1, <1>3, <2>1 DEF Opened, Database
<1>6. Stored'
  BY <1>3, <1>4 DEF ReleaseInv, Stored
<1> QED  BY <1>1, <1>2, <1>3, <1>4, <1>5, <1>6

\* While an operation is pending, only its own permit lets an application start,
\* so that none starts while the operation has the files to itself.
LEMMA AutoStartSound ==
  ASSUME ReleaseInv, AutoStart
  PROVE  ReleaseInv'
<1>1. /\ UNCHANGED <<pointer, link, journal, temp, pending, snapshot, folder, restore,
                     wanted, op, ops, faults, settled, undone>>
      /\ running = NoRelease /\ Launched /\ wanted
  BY DEF AutoStart, ghosts
<1>2. /\ pointer.current \in Release /\ running' = pointer.current /\ temp = Missing
      /\ permit.at # "temp" /\ (journal # NoJournal => permit.at = "granted")
      /\ permit' \in [at : {"missing", "temp", "granted", "claimed"}, release : Pointer]
      /\ journal = NoJournal => permit' = permit /\ db' = db
      /\ db' \in Database /\ Stored'
      /\ db'.marks = db.marks /\ db'.there /\ db'.schema >= db.schema
  BY <1>1, LaunchedSound
<1>3. ~Between("activate", 4, 15) /\ ~Between("undo", 2, 13)
  <2>1. Between("activate", 4, 15) \/ Between("undo", 2, 13) => journal # NoJournal
    BY DEF ReleaseInv, Phased, Between, NoJournal, Restorable
  <2> QED  BY <1>1, <1>2, <2>1 DEF ReleaseInv, Permitted, Between
<1>4. ReleaseTypeOK'
  BY <1>1, <1>2 DEF ReleaseInv, ReleaseTypeOK, Pointer
<1>5. Operating'
  BY <1>1 DEF ReleaseInv, Operating
<1>6. Phased'
  <2>1. db.schema \in Nat /\ db'.schema \in Nat
    BY <1>2, ApplicationReleaseAssumption DEF ReleaseInv, ReleaseTypeOK, Database
  <2>2. journal # NoJournal => journal.candidate \in Release /\ Schema[journal.candidate] \in Nat
    BY ApplicationReleaseAssumption DEF ReleaseInv, ReleaseTypeOK, Journal
  <2>3. ~Between("activate", 4, 9)
    BY <1>3 DEF Between
  <2>4. Between("confirm", 2, 4) => journal # NoJournal
    BY DEF ReleaseInv, Phased, Between, NoJournal
  <2> QED
    BY <1>1, <1>2, <2>1, <2>2, <2>3, <2>4 DEF ReleaseInv, Phased, Target, Between
<1>7. Written'
  <2>1. Missing # Partial
    BY DEF Missing, Partial
  <2> QED
    BY <1>1, <1>2, <2>1 DEF ReleaseInv, Written, Writing, Renaming, Between, Successor, Reconcilable
<1>8. Placed'
  <2>1. journal.phase = "awaiting_confirmation" => journal # NoJournal
    BY DEF NoJournal
  <2>2. ~(journal.phase = "awaiting_confirmation" /\ pointer.current = journal.candidate)
    BY <1>2, <2>1 DEF ReleaseInv, Permitted
  <2>3. LinksOwned(journal)' = LinksOwned(journal)
    BY <1>1 DEF LinksOwned
  <2>4. journal = NoJournal => CleanRoot' = CleanRoot
    BY <1>1, <1>2 DEF CleanRoot
  <2> QED
    BY <1>1, <2>2, <2>3, <2>4 DEF ReleaseInv, Placed, Between
<1>9. Permitted'
  <2>1. \/ journal = NoJournal /\ permit' = permit
        \/ journal # NoJournal /\ permit.at = "granted"
    BY <1>2
  <2>2. CASE journal = NoJournal
    BY <1>1, <2>1, <2>2 DEF ReleaseInv, Permitted, Between
  <2>3. CASE permit.at = "granted"
    BY <1>1, <1>3, <2>3 DEF ReleaseInv, Permitted, Between
  <2> QED  BY <2>1, <2>2, <2>3
<1>10. Stopped'
  BY <1>1, <1>2, <1>3 DEF Stopped, RunsCurrent, Between
<1>11. Snapshots'
  <2>1. SnapshotValid' = SnapshotValid /\ Taken(journal)' = Taken(journal)
    BY <1>1 DEF SnapshotValid, Taken
  <2> QED
    BY <1>1, <1>2, <1>3, <2>1 DEF ReleaseInv, Snapshots, Between
<1> QED
  BY <1>2, <1>4, <1>5, <1>6, <1>7, <1>8, <1>9, <1>10, <1>11 DEF ReleaseInv

\* An operation starts the release that its links name.
LEMMA StartSound ==
  ASSUME ReleaseInv, StartApplication
  PROVE  ReleaseInv'
<1>1. In("activate", 16) \/ In("undo", 14) \/ In("restart", 5)
  BY Places DEF ReleaseInv, StartApplication, Here
<1>2. /\ op'.mode = op.mode /\ op'.pc = op.pc + 1 /\ op'.candidate = op.candidate
      /\ op' # Resting /\ Operating' /\ op # Resting
  BY <1>1, Advances DEF ReleaseInv, StartApplication, In, Lengths, Resting
<1>3. journal # NoJournal
  BY <1>1 DEF ReleaseInv, Phased, In, Between, Restorable, NoJournal
<1>4. /\ wanted' = TRUE
      /\ UNCHANGED <<pointer, link, journal, temp, pending, snapshot, folder, restore,
                     ops, faults, settled, undone>>
      /\ (running = NoRelease /\ Launched) \/ UNCHANGED <<running, db, permit>>
  BY DEF StartApplication, ghosts
<1>5. /\ running' \in {running, pointer.current} /\ db' \in Database /\ Stored'
      /\ permit' \in [at : {"missing", "temp", "granted", "claimed"}, release : Pointer]
      /\ running' # running => pointer.current \in Release /\ permit.at = "granted"
      /\ db'.marks = db.marks /\ running \in Pointer /\ pointer.current \in Pointer
      /\ permit' = permit \/ permit.at = "granted"
  <2>1. running \in Pointer /\ pointer.current \in Pointer
    BY DEF ReleaseInv, ReleaseTypeOK
  <2>2. CASE running = NoRelease /\ Launched
    BY <1>3, <1>4, <2>1, <2>2, LaunchedSound
  <2>3. CASE UNCHANGED <<running, db, permit>>
    BY <1>4, <2>1, <2>3 DEF ReleaseInv, ReleaseTypeOK, Stored
  <2> QED  BY <1>4, <2>2, <2>3
<1>6. ReleaseTypeOK'
  BY <1>1, <1>2, <1>4, <1>5 DEF ReleaseInv, ReleaseTypeOK, Pointer
<1>7. Phased'
  BY <1>1, <1>2, <1>4 DEF ReleaseInv, Phased, In, Between
<1>8. Written'
  <2>1. Reconcilable' = Reconcilable \/ temp = Missing
    BY <1>3, <1>4 DEF Reconcilable, LinksOwned
  <2> QED
    BY <1>1, <1>2, <1>3, <1>4, <2>1 DEF ReleaseInv, Written, Writing, Renaming, In, Between
<1>9. Placed'
  <2>1. LinksOwned(journal)' = LinksOwned(journal)
    BY <1>4 DEF LinksOwned
  <2>2. In("undo", 14) => pointer.current # journal.candidate
    BY <1>3 DEF ReleaseInv, Placed, In, Between, Original, Coherent
  <2>3. In("activate", 16) \/ In("restart", 5) => journal.phase # "awaiting_confirmation"
    BY DEF ReleaseInv, Phased, In, Between
  <2> QED
    BY <1>1, <1>2, <1>3, <1>4, <2>1, <2>2, <2>3 DEF ReleaseInv, Placed, In, Between
<1>10. Permitted'
  <2>1. /\ In("activate", 16) \/ In("restart", 5) => journal.phase # "awaiting_confirmation"
        /\ In("undo", 14) => pointer.current # journal.candidate
    BY <1>3 DEF ReleaseInv, Phased, Placed, In, Between, Original, Coherent
  <2>2. /\ In("activate", 16) \/ In("undo", 14) => journal.phase # "rollback_completed"
    BY DEF ReleaseInv, Phased, In, Between, Restorable
  <2> QED
    BY <1>1, <1>2, <1>4, <1>5, <2>1, <2>2 DEF ReleaseInv, Permitted, In, Between
<1>11. Stopped'
  BY <1>1, <1>2, <1>4, <1>5 DEF ReleaseInv, Stopped, RunsCurrent, In, Between
<1>12. Snapshots'
  <2>1. SnapshotValid' = SnapshotValid /\ Taken(journal)' = Taken(journal)
    BY <1>4 DEF SnapshotValid, Taken
  <2> QED
    BY <1>1, <1>2, <1>4, <2>1 DEF ReleaseInv, Snapshots, In, Between
<1> QED
  BY <1>2, <1>5, <1>6, <1>7, <1>8, <1>9, <1>10, <1>11, <1>12 DEF ReleaseInv

\* What is stored while an operation has the files to itself would be lost; but
\* no application runs then.
LEMMA StoreRowSound ==
  ASSUME ReleaseInv, StoreRow
  PROVE  ReleaseInv'
<1> DEFINE m0 == <<ops, running>>
<1>1. /\ running # NoRelease /\ running = pointer.current /\ running \in Release
      /\ m0 \in Mark /\ m0[1] = ops
  BY DEF StoreRow, ReleaseInv, Stopped, RunsCurrent, ReleaseTypeOK, Pointer, Mark
<1>2. /\ db' = [db EXCEPT !.marks = db.marks \cup {m0}]
      /\ settled' = IF Settles(journal) THEN db'.marks ELSE settled
      /\ UNCHANGED <<pointer, link, journal, temp, pending, snapshot, folder, restore, permit,
                     running, wanted, op, ops, faults, undone>>
  BY DEF StoreRow, files
<1> HIDE DEF m0
<1>3. /\ db'.marks = db.marks \cup {m0} /\ db'.schema = db.schema /\ db'.there = db.there
      /\ db' \in Database
  BY <1>1, <1>2 DEF ReleaseInv, ReleaseTypeOK, Database
<1>4. ~Between("activate", 5, 15) /\ ~Between("undo", 2, 13)
  BY <1>1 DEF ReleaseInv, Stopped
<1>5. db.there
  BY <1>1 DEF ReleaseInv, Stored
<1>6. ReleaseTypeOK'
  BY <1>2, <1>3 DEF ReleaseInv, ReleaseTypeOK, Database
<1>7. Operating'
  BY <1>2 DEF ReleaseInv, Operating
<1>8. Phased'
  <2>1. Between("activate", 1, 3) => \A r \in Release : <<ops, r>> \in db'.marks => r = pointer.current
    BY <1>1, <1>3 DEF ReleaseInv, Phased, m0
  <2> QED  BY <1>2, <1>3, <2>1 DEF ReleaseInv, Phased, Target, Between
<1>9. Written'
  <2>1. Reconcilable' = Reconcilable /\ Successor' = Successor
    BY <1>2 DEF Reconcilable, CleanRoot, LinksOwned, Successor
  <2> QED
    BY <1>2, <2>1 DEF ReleaseInv, Written, Writing, Renaming, Between
<1>10. Placed'
  <2>1. CleanRoot' = CleanRoot /\ LinksOwned(journal)' = LinksOwned(journal)
    BY <1>2 DEF CleanRoot, LinksOwned
  <2> QED
    BY <1>2, <2>1 DEF ReleaseInv, Placed, Between
<1>11. Permitted'
  BY <1>2 DEF ReleaseInv, Permitted, Between
<1>12. Stopped'
  BY <1>2 DEF ReleaseInv, Stopped, RunsCurrent, Between
<1>13. Snapshots'
  <2>1. SnapshotValid' = SnapshotValid
    BY <1>2 DEF SnapshotValid
  <2>2. journal.phase \in Restorable => (Taken(journal)' <=> Taken(journal))
    BY <1>2 DEF Restorable, Settles, Taken
  <2> QED
    BY <1>2, <1>4, <2>1, <2>2 DEF ReleaseInv, Snapshots, Between
<1>14. Stored'
  <2>1. m0 \notin undone
    BY <1>1 DEF ReleaseInv, Stored, m0
  <2>2. \A m \in db'.marks \cup undone : m[1] <= ops
    BY <1>1, <1>3 DEF ReleaseInv, Stored, ReleaseTypeOK
  <2>3. settled' \subseteq db'.marks /\ db'.marks \cap undone = {}
    BY <1>2, <1>3, <2>1 DEF ReleaseInv, Stored
  <2>4. journal # NoJournal /\ pointer.current = journal.current =>
          <<ops, journal.candidate>> \notin db'.marks
    BY <1>1, <1>3 DEF ReleaseInv, Stored, Placed, Coherent, m0
  <2> QED
    BY <1>2, <1>3, <1>5, <2>2, <2>3, <2>4 DEF ReleaseInv, Stored
<1> QED
  BY <1>6, <1>7, <1>8, <1>9, <1>10, <1>11, <1>12, <1>13, <1>14 DEF ReleaseInv

\* An activation begins on a clean root, with a number no row has.
LEMMA BeginActivationSound ==
  ASSUME ReleaseInv, NEW r \in Release, BeginActivation(r)
  PROVE  ReleaseInv'
<1>1. /\ UNCHANGED <<pointer, link, journal, pending, snapshot, folder, restore, permit,
                     db, running, wanted, faults, settled, undone>>
      /\ op = Resting /\ ops < MaxOps /\ ops' = ops + 1 /\ journal = NoJournal /\ CleanRoot
      /\ Compatible(r) /\ pointer.current # r /\ temp' = Missing
      /\ op' = [mode |-> "activate", pc |-> 1, candidate |-> r]
  BY DEF BeginActivation, Begun, ghosts
<1>2. op'.mode = "activate" /\ op'.pc = 1 /\ op'.candidate = r /\ op' # Resting
  BY <1>1 DEF Resting
<1>3. ops \in Nat /\ ops' \in 0..MaxOps
  BY <1>1, ApplicationReleaseAssumption DEF ReleaseInv, ReleaseTypeOK
<1>4. ASSUME NEW q \in Release
      PROVE  <<ops', q>> \notin db.marks \cup undone
  <2> DEFINE m0 == <<ops', q>>
  <2>1. \A m \in db.marks \cup undone : m[1] <= ops
    BY DEF ReleaseInv, Stored
  <2>2. m0[1] = ops' /\ ~(ops' <= ops)
    BY <1>1, <1>3
  <2> HIDE DEF m0
  <2>3. m0 \notin db.marks \cup undone
    BY <2>1, <2>2
  <2> QED  BY <2>3 DEF m0
<1>5. \A m \in db.marks \cup undone : m[1] <= ops'
  <2> SUFFICES ASSUME NEW m \in db.marks \cup undone  PROVE m[1] <= ops'
    OBVIOUS
  <2>1. m \in Mark /\ m[1] <= ops
    BY DEF ReleaseInv, ReleaseTypeOK, Database, Stored
  <2>2. m[1] \in Nat
    BY <2>1, ApplicationReleaseAssumption DEF Mark
  <2> QED  BY <1>1, <1>3, <2>1, <2>2
<1>6. ReleaseTypeOK'
  BY <1>1, <1>2, <1>3 DEF ReleaseInv, ReleaseTypeOK
<1>7. Operating'
  BY <1>1, <1>2 DEF Operating, Lengths, Pointer
<1>8. Phased'
  <2>1. db.schema <= Schema[r]
    BY <1>1, ApplicationReleaseAssumption DEF Compatible, ReleaseInv, Stored, Absent
  <2> QED
    BY <1>1, <1>2, <1>4, <2>1 DEF Phased, Between
<1>9. Written'
  BY <1>1, <1>2 DEF Written, Writing, Renaming, Between
<1>10. Placed'
  <2>1. CleanRoot' /\ link = {}
    BY <1>1 DEF CleanRoot
  <2> QED
    BY <1>1, <1>2, <2>1 DEF Placed, Between, NoJournal
<1>11. Permitted'
  BY <1>1, <1>2 DEF Permitted, Between, NoJournal, CleanRoot
<1>12. Stopped'
  BY <1>1, <1>2 DEF ReleaseInv, Stopped, RunsCurrent, Between
<1>13. Snapshots'
  BY <1>1, <1>2 DEF Snapshots, Restorable, NoJournal, Between
<1>14. Stored'
  BY <1>1, <1>4, <1>5 DEF ReleaseInv, Stored
<1> QED
  BY <1>2, <1>6, <1>7, <1>8, <1>9, <1>10, <1>11, <1>12, <1>13, <1>14 DEF ReleaseInv

\* A recovery, a cleaning or a confirmation begins with what it finds.
LEMMA TakenUp ==
  ASSUME ReleaseInv, op = Resting, temp' = Missing,
         UNCHANGED <<pointer, link, journal, pending, snapshot, folder, restore, permit,
                     db, running, wanted, ops, faults, settled, undone>>,
         NEW mode, mode \in {"none", "undo", "restart", "confirm"},
         op' = [mode |-> mode, pc |-> IF mode = "none" THEN 0 ELSE 1, candidate |-> NoRelease],
         mode = "undo" => journal.phase \in {"intent_recorded"} \cup Restorable,
         mode = "restart" => journal.phase \in {"confirming", "rollback_completed"},
         mode = "confirm" => journal.phase = "awaiting_confirmation" /\ pointer = Target(journal)
  PROVE  ReleaseInv'
<1>1. op'.mode = mode /\ (mode # "none" => op'.pc = 1) /\ op'.candidate = NoRelease
  OBVIOUS
<1>2. mode = "none" => op' = Resting
  BY DEF Resting
<1>3. ReleaseTypeOK'
  BY <1>1 DEF ReleaseInv, ReleaseTypeOK
<1>4. Operating'
  <2>1. CASE mode = "none"
    BY <1>2, <2>1 DEF Operating
  <2>2. CASE mode # "none"
    <3>1. op' = [mode |-> mode, pc |-> 1, candidate |-> NoRelease]
      BY <2>2
    <3> QED  BY <2>2, <3>1 DEF Operating, Lengths, Pointer
  <2> QED  BY <2>1, <2>2
<1>5. Phased'
  BY <1>1 DEF Phased, Between, Target
<1>6. Written'
  BY <1>1 DEF Written, Writing, Renaming, Between
<1>7. Placed'
  <2>1. CleanRoot' = CleanRoot /\ LinksOwned(journal)' = LinksOwned(journal)
    BY DEF CleanRoot, LinksOwned
  <2> QED
    BY <1>1, <2>1 DEF ReleaseInv, Placed, Between
<1>8. Permitted'
  <2>1. mode = "confirm" => permit.at = "missing"
    BY DEF ReleaseInv, Permitted, Target
  <2> QED
    BY <1>1, <2>1 DEF ReleaseInv, Permitted, Between
<1>9. Stopped'
  BY <1>1 DEF ReleaseInv, Stopped, RunsCurrent, Between
<1>10. Snapshots'
  BY <1>1 DEF ReleaseInv, Snapshots, SnapshotValid, Taken, Between
<1>11. Stored'
  BY DEF ReleaseInv, Stored
<1> QED
  BY <1>3, <1>4, <1>5, <1>6, <1>7, <1>8, <1>9, <1>10, <1>11 DEF ReleaseInv

LEMMA TakenUpSound ==
  ASSUME ReleaseInv, BeginRecovery \/ BeginCleaning \/ BeginConfirmation
  PROVE  ReleaseInv'
<1>1. /\ op = Resting /\ temp' = Missing
      /\ UNCHANGED <<pointer, link, journal, pending, snapshot, folder, restore, permit,
                     db, running, wanted, ops, faults, settled, undone>>
  BY DEF BeginRecovery, BeginCleaning, BeginConfirmation, ghosts
<1>2. CASE BeginRecovery
  <2>1. journal \in Journal /\ journal.phase \in Phase \ {"confirming"}
    BY <1>2 DEF BeginRecovery, ReleaseInv, ReleaseTypeOK, Journal
  <2>2. CASE journal.phase = "rollback_completed"
    <3>1. op' = [mode |-> "restart", pc |-> 1, candidate |-> NoRelease]
      BY <1>2, <2>2 DEF BeginRecovery, Begun
    <3> QED  BY <1>1, <2>2, <3>1, TakenUp
  <2>3. CASE journal.phase # "rollback_completed"
    <3>1. op' = [mode |-> "undo", pc |-> 1, candidate |-> NoRelease]
      BY <1>2, <2>3 DEF BeginRecovery, Begun
    <3>2. journal.phase \in {"intent_recorded"} \cup Restorable
      BY <2>1, <2>3 DEF Phase, Restorable
    <3> QED  BY <1>1, <3>1, <3>2, TakenUp
  <2> QED  BY <2>2, <2>3
<1>3. CASE BeginCleaning
  <2>1. op' = [mode |-> "none", pc |-> 0, candidate |-> NoRelease]
    BY <1>3 DEF BeginCleaning, Resting
  <2> QED  BY <1>1, <2>1, TakenUp
<1>4. CASE BeginConfirmation
  <2>1. CASE journal.phase = "confirming"
    <3>1. op' = [mode |-> "restart", pc |-> 1, candidate |-> NoRelease]
      BY <1>4, <2>1 DEF BeginConfirmation, Begun
    <3> QED  BY <1>1, <2>1, <3>1, TakenUp
  <2>2. CASE journal.phase # "confirming"
    <3>1. /\ op' = [mode |-> "confirm", pc |-> 1, candidate |-> NoRelease]
          /\ journal.phase = "awaiting_confirmation" /\ pointer = Target(journal)
      BY <1>4, <2>2 DEF BeginConfirmation, Begun
    <3> QED  BY <1>1, <3>1, TakenUp
  <2> QED  BY <2>1, <2>2
<1> QED  BY <1>2, <1>3, <1>4

\* A settled operation leaves a clean root.
LEMMA ClearJournalSound ==
  ASSUME ReleaseInv, ClearJournal
  PROVE  ReleaseInv'
<1>1. In("undo", 24) \/ In("restart", 12) \/ In("confirm", 9)
  BY Places DEF ReleaseInv, ClearJournal, Here
<1>2. op' = Resting /\ Operating'
  BY <1>1, Advances DEF ReleaseInv, ClearJournal, Operating, In, Lengths, Resting
<1>3. \A mode, a, b : mode # "none" => ~Between(mode, a, b)'
  BY <1>2 DEF Between, Resting
<1>4. /\ journal' = NoJournal /\ settled' = db.marks
      /\ UNCHANGED <<pointer, link, temp, pending, snapshot, folder, restore, permit,
                     db, running, wanted, ops, faults, undone>>
  BY DEF ClearJournal
<1>5. journal.phase \in {"confirming", "rollback_completed"} /\ journal # NoJournal
  BY <1>1 DEF ReleaseInv, Phased, In, Between, NoJournal
<1>6. /\ temp = Missing /\ link = {} /\ permit.at = "missing" /\ restore = Absent /\ ~folder
      /\ Coherent(journal) /\ pointer \in Explained(journal)
  BY <1>1, <1>5 DEF ReleaseInv, Written, Writing, Renaming, Placed, Permitted, In, Between
<1>7. /\ journal.phase = "confirming" => pointer = Target(journal)
      /\ journal.phase = "rollback_completed" => pointer = Original(journal)
  BY <1>5, <1>6 DEF Explained
<1>8. ReleaseTypeOK'
  BY <1>2, <1>4 DEF ReleaseInv, ReleaseTypeOK, Database, Resting
<1>9. Phased'
  BY <1>3 DEF Phased
<1>10. Written'
  BY <1>3, <1>4, <1>6 DEF Written, Writing, Renaming
<1>11. Placed'
  <2>1. /\ pointer.current = NoRelease => pointer.previous = NoRelease
        /\ pointer.current # NoRelease => pointer.current # pointer.previous
    <3>1. journal.candidate # NoRelease
      BY <1>5, ApplicationReleaseAssumption DEF ReleaseInv, ReleaseTypeOK, Journal
    <3> QED  BY <1>5, <1>6, <1>7, <3>1 DEF Coherent, Target, Original
  <2>2. CleanRoot'
    BY <1>4, <1>6, <2>1 DEF CleanRoot
  <2> QED
    BY <1>3, <1>4, <2>2 DEF Placed, NoJournal
<1>12. Permitted'
  BY <1>3, <1>4 DEF Permitted, NoJournal
<1>13. Stopped'
  BY <1>3, <1>4 DEF ReleaseInv, Stopped, RunsCurrent
<1>14. Snapshots'
  BY <1>3, <1>4 DEF Snapshots, Restorable, NoJournal
<1>15. Stored'
  <2>1. \A r \in Release : <<ops, r>> \in undone => pointer.current # r
    BY DEF ReleaseInv, Stored
  <2>2. pointer.current \in Release => db.there /\ db.schema >= Schema[pointer.current]
    BY <1>5, <1>7 DEF ReleaseInv, Stored, Original
  <2> QED
    BY <1>4, <2>1, <2>2 DEF ReleaseInv, Stored, NoJournal
<1> QED
  BY <1>2, <1>8, <1>9, <1>10, <1>11, <1>12, <1>13, <1>14, <1>15 DEF ReleaseInv

LEMMA ReleaseInitSound ==
  ASSUME ReleaseInit
  PROVE  ReleaseInv
<1>1. PICK r \in Pointer :
        /\ pointer = [current |-> r, previous |-> NoRelease]
        /\ running = r /\ wanted = (r # NoRelease)
        /\ settled = IF r = NoRelease THEN {} ELSE {<<0, r>>}
        /\ db = IF r = NoRelease THEN Absent
                ELSE [schema |-> Schema[r], marks |-> {<<0, r>>}, there |-> TRUE]
  BY DEF ReleaseInit
<1>2. /\ link = {} /\ journal = NoJournal /\ temp = Missing
      /\ pending = FALSE /\ snapshot = Absent /\ folder = FALSE /\ restore = Absent
      /\ permit = NoPermit /\ op = Resting /\ ops = 0 /\ faults = 0 /\ undone = {}
  BY DEF ReleaseInit
<1>3. r = NoRelease => db = Absent /\ settled = {}
  BY <1>1
<1>4. r # NoRelease => /\ r \in Release /\ db.schema = Schema[r] /\ db.marks = {<<0, r>>}
                       /\ db.there /\ settled = db.marks /\ Schema[r] \in Nat \ {0}
                       /\ db \in Database /\ settled \subseteq Mark
  BY <1>1, ApplicationReleaseAssumption DEF Pointer, Database, Mark
<1>5. Absent \in Database
  BY DEF Absent, Database
<1>6. \A mode, a, b : mode # "none" => ~Between(mode, a, b)
  BY <1>2 DEF Between, Resting
<1>7. pointer.current = r /\ pointer.previous = NoRelease /\ running = r
  BY <1>1
<1>8. ReleaseTypeOK
  <2>1. pointer \in [{"current", "previous"} -> Pointer]
    BY <1>1 DEF Pointer
  <2>2. permit \in [at : {"missing", "temp", "granted", "claimed"}, release : Pointer]
    BY <1>2 DEF NoPermit, Pointer
  <2>3. db \in Database /\ settled \subseteq Mark
    BY <1>3, <1>4, <1>5
  <2>4. ops \in 0..MaxOps /\ faults \in 0..MaxFaults
    BY <1>2, ApplicationReleaseAssumption
  <2> QED
    BY <1>1, <1>2, <1>5, <2>1, <2>2, <2>3, <2>4 DEF ReleaseTypeOK, Resting
<1>9. Operating /\ Phased
  BY <1>2, <1>6 DEF Operating, Phased
<1>10. Written
  BY <1>2, <1>6 DEF Written, Writing, Renaming
<1>11. Placed
  BY <1>2, <1>6, <1>7, ApplicationReleaseAssumption DEF Placed, CleanRoot, NoPermit, NoJournal
<1>12. Permitted /\ Stopped
  BY <1>2, <1>6, <1>7 DEF Permitted, Stopped, RunsCurrent, NoJournal
<1>13. Snapshots
  BY <1>2, <1>6 DEF Snapshots, Restorable, NoJournal
<1>14. Stored
  <2>1. CASE r = NoRelease
    BY <1>2, <1>3, <1>7, <2>1, ApplicationReleaseAssumption DEF Stored, Absent
  <2>2. CASE r # NoRelease
    <3>1. \A m \in db.marks \cup undone : m[1] <= ops
      BY <1>2, <1>4, <2>2
    <3> QED  BY <1>2, <1>4, <1>7, <2>2, <3>1, ApplicationReleaseAssumption DEF Stored
  <2> QED  BY <2>1, <2>2
<1> QED
  BY <1>8, <1>9, <1>10, <1>11, <1>12, <1>13, <1>14 DEF ReleaseInv

LEMMA ReleaseStepSound ==
  ASSUME ReleaseInv, Step
  PROVE  ReleaseInv'
  BY SkipSound, OpenTempSound, WriteTempSound, RenameSound, StopSound, BackupSound, PublishSnapshotSound,
     LinkPreviousSound, MovePreviousSound, LinkCurrentSound, MoveCurrentSound, RequestSound,
     GrantSound, StartSound, HealthSound, ReadySound, RevokeSound, DiscardSound, OpenCopySound,
     CopySound, SwapSound, UnlinkSound, DropSound, ClearJournalSound, FailSound
  DEF Step

\* An inductive invariant of the release operations: at every step of each of the
\* four programs, what the journal, the links, the permit, the snapshot and the
\* database hold.
THEOREM ReleaseInvariant == ReleaseSpec => []ReleaseInv
<1>1. ReleaseInit => ReleaseInv
  BY ReleaseInitSound
<1>2. ReleaseInv /\ [ReleaseNext]_releaseVars => ReleaseInv'
  <2> SUFFICES ASSUME ReleaseInv, [ReleaseNext]_releaseVars  PROVE ReleaseInv'
    OBVIOUS
  <2>1. CASE UNCHANGED releaseVars
    <3>1. /\ UNCHANGED <<files, db, ops, ghosts>> /\ op' = op /\ running' = running
          /\ wanted' = wanted /\ faults' = faults
      BY <2>1 DEF releaseVars
    <3>2. wanted \in BOOLEAN /\ faults \in 0..MaxFaults
      BY DEF ReleaseInv, ReleaseTypeOK
    <3> QED  BY <3>1, <3>2, Interrupted
  <2>2. CASE ReleaseNext
    BY <2>2, BeginActivationSound, TakenUpSound, ReleaseStepSound, AutoStartSound, StoreRowSound,
       KilledSound DEF ReleaseNext
  <2> QED  BY <2>1, <2>2
<1> QED  BY <1>1, <1>2, PTL DEF ReleaseSpec

\* No old release on the data of the candidate that replaced it, no settled row
\* lost, one release in charge, and every interruption leaves files that the next
\* operation accepts: activateApplicationRelease, its recovery and confirmation.
THEOREM ReleaseSoundAlways == ReleaseSpec => []ReleaseSound
<1>1. ReleaseInv => ReleaseSound
  <2> SUFFICES ASSUME ReleaseInv  PROVE ReleaseSound
    OBVIOUS
  <2>1. OldReleaseOldData
    <3> SUFFICES ASSUME running # NoRelease
                 PROVE  /\ db.there /\ db.schema <= Schema[running]
                        /\ db.marks \cap undone = {}
                        /\ journal # NoJournal /\ running = journal.current =>
                             <<ops, journal.candidate>> \notin db.marks
      BY DEF OldReleaseOldData
    <3>1. running = pointer.current /\ pointer.current \in Release
      BY DEF ReleaseInv, Stopped, RunsCurrent, ReleaseTypeOK, Pointer
    <3> QED  BY <3>1 DEF ReleaseInv, Stored
  <2>2. AlwaysServiceable
    <3>1. Reconcilable
      <4>1. temp = Missing => Reconcilable
        BY DEF Reconcilable, Missing, Partial
      <4> QED  BY <4>1 DEF ReleaseInv, Written
    <3> QED  BY <3>1 DEF AlwaysServiceable, ReleaseInv, Placed, Snapshots, Restorable
  <2> QED  BY <2>1, <2>2 DEF ReleaseSound, ReleaseInv, SettledRowsStay, Stored, Stopped
<1> QED  BY <1>1, ReleaseInvariant, PTL

\* A candidate that awaits its confirmation is not started again: the startup gate
\* finds no permit for it.
THEOREM CandidateStartsOnceAlways == ReleaseSpec => CandidateStartsOnce
<1> DEFINE Once == running = NoRelease /\ running' # NoRelease /\ journal # NoJournal
                     /\ running' = journal.candidate
                   => journal.phase \in {"snapshot_ready", "confirming"}
<1>1. ReleaseInv /\ [ReleaseNext]_releaseVars => [Once]_releaseVars
  <2> SUFFICES ASSUME ReleaseInv, ReleaseNext, running = NoRelease, running' # NoRelease,
                      journal # NoJournal, running' = journal.candidate
               PROVE  journal.phase \in {"snapshot_ready", "confirming"}
    OBVIOUS
  <2>1. Launched
    <3>1. \/ AutoStart \/ StartApplication \/ running' = running \/ running' = NoRelease
      BY Zenon DEF ReleaseNext, Step, BeginActivation, BeginRecovery, BeginCleaning,
        BeginConfirmation, AutoStart, StoreRow, Killed, PowerCut, Died, Skip, OpenTemp, WriteTemp,
        RenameTemp, StopApplication, Backup, Publish, LinkPointer, MovePointer, RequestPermit,
        GrantPermit, StartApplication, Health, Ready, RevokePermit, Discard, CopySnapshot,
        SwapDatabase, Unlink, DropSnapshot, ClearJournal, Fail
    <3> QED  BY <3>1 DEF AutoStart, StartApplication
  <2>2. pointer.current = journal.candidate /\ permit.at = "granted"
    BY <2>1 DEF Launched, GateAdmits
  <2>3. journal \in Journal /\ Coherent(journal) /\ pointer \in Explained(journal)
    BY DEF ReleaseInv, ReleaseTypeOK, Placed
  <2>4. journal.phase # "awaiting_confirmation"
    BY <2>2 DEF ReleaseInv, Permitted
  <2>5. pointer # Original(journal)
    BY <2>2, <2>3 DEF Original, Coherent
  <2> QED  BY <2>3, <2>4, <2>5 DEF Explained, Journal, Phase
<1> QED  BY <1>1, ReleaseInvariant, PTL DEF ReleaseSpec, CandidateStartsOnce

=============================================================================
