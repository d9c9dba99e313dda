--------------------------- MODULE SchemaMigration ---------------------------
(***************************************************************************)
(* Bringing a database file up to the schema of this release: runMigrations *)
(* (src/src/storage/database.ts), which the application and the maintenance *)
(* tools call on the file they have opened, possibly at the same time.      *)
(*                                                                         *)
(* The ledger schema_version says how many migrations were applied.  A      *)
(* database of version 1, or without a ledger, may be of an earlier layout  *)
(* and is repaired on the way: see Deficit.  All of it is one immediate     *)
(* transaction: a process works on what only it can see until it commits.   *)
(***************************************************************************)
EXTENDS Naturals, FiniteSets

CONSTANTS
  Program,   \* processes that open the database
  NoProgram, \* nobody holds the write lock
  Current,   \* CURRENT_SCHEMA_VERSION
  Newest,    \* the newest schema any release has
  Source,    \* rows of memory_sources
  Inputs     \* the databases that may be found, with the rows beside each source

Version == 1..Newest

\* What a database of the first version may lack: columns, the CHECKs of three
\* tables, whole tables, indexes, the search index, and (after that one was
\* created) its content.
Deficit == {"columns", "constraints", "tables", "indexes", "fts", "search"}

\* A source names a row by its id, or a chat message by the platform's id, which
\* two rows may share.  A tool call is a successful one, a job or an attempt a
\* completed extraction.
RowName == {"raw_event", "chat_message", "alias", "second_alias",
            "tool_call", "job", "attempt"}
Column == {"raw_event_id", "chat_message_id", "tool_call_id", "job_id", "job_attempt_id"}

\* resolution_state, and the column that is set in the internal one.
Link == Column \cup {"legacy_unresolved", "external"}

\* cites: the sources of the same memory whose rows the job's payload or result names.
Fact == [type : {"raw_event", "chat_message", "tool_output", "worker_extraction",
                 "user_command"},
         rows : SUBSET RowName, cites : SUBSET Source]

Disk == [malformed : BOOLEAN,        \* the ledger is not one
         ledger : 0..Newest,         \* its rows, 0 also when there is none
         shape : 0..Newest,          \* whose objects the tables, indexes and triggers are
         foreign : SUBSET Version,   \* migrations whose names others have taken
         orphans : BOOLEAN,          \* foreign_key_check finds rows
         lacks : SUBSET Deficit,
         links : [Source -> Link]]

VARIABLES
  disk,      \* the database file, as committed
  facts,     \* facts[s]: what source s is about
  writer,    \* the process with the write lock
  work,      \* the database as that process sees it
  stage,     \* stage[p]: where process p is
  enforced   \* enforced[p]: PRAGMA foreign_keys of its connection

migrationVars == <<disk, facts, writer, work, stage, enforced>>

InTransaction == {"patch", "rebuild", "create", "resolve", "search", "migrate"}
Starting == {"opened", "waiting"} \cup InTransaction
Stage == Starting \cup {"closed", "ready", "failed"}

-----------------------------------------------------------------------------
(* What is looked at *)

\* inspectSchemaVersion and assertSupportedSchemaVersion.
Supported(d) == ~d.malformed /\ d.ledger <= Current

\* isFinalizedSchemaVersion.
Finalized(d) == d.ledger = Current

\* assertCurrentSchemaCompatible and assertEvaluatorDecisionObjectsMatch, against
\* a database made by the first v migrations.  What the search index holds is not
\* looked at.
Matches(d, v) ==
  /\ d.shape = v
  /\ d.lacks \subseteq {"search"}
  /\ d.foreign \cap (1..v) = {}
  /\ ~d.orphans

-----------------------------------------------------------------------------
(* Sources *)

\* Mutated form: the first chat message with that id will do.
IsAliasOfAny(s) == "alias" \in facts[s].rows

\* The platform's id names one chat message.
IsAlias(s) == facts[s].rows \cap {"alias", "second_alias"} = {"alias"}

\* applyMemorySourceResolutionPatch: the column for what a source names itself.
Named(s) ==
  LET type == facts[s].type  rows == facts[s].rows IN
  CASE type = "raw_event" /\ "raw_event" \in rows -> "raw_event_id"
    [] type = "chat_message" /\ ("chat_message" \in rows \/ IsAlias(s)) -> "chat_message_id"
    [] type = "tool_output" /\ "tool_call" \in rows -> "tool_call_id"
    [] OTHER -> "legacy_unresolved"

Evidence == {"raw_event_id", "chat_message_id"}

\* backfillLegacyWorkerSources: one job or one attempt, not both, which names the
\* evidence that its memory already has.
Worked(s, links) ==
  LET rows == facts[s].rows \cap {"job", "attempt"} IN
  IF facts[s].type = "worker_extraction" /\ \E e \in facts[s].cites : links[e] \in Evidence
  THEN CASE rows = {"job"} -> "job_id"
         [] rows = {"attempt"} -> "job_attempt_id"
         [] OTHER -> "legacy_unresolved"
  ELSE "legacy_unresolved"

\* Only what is unresolved is touched, and workers' sources come last.
Resolved(links) ==
  LET own == [s \in Source |-> IF links[s] = "legacy_unresolved" THEN Named(s) ELSE links[s]] IN
  [s \in Source |-> IF own[s] = "legacy_unresolved" THEN Worked(s, own) ELSE own[s]]

\* A link names a row that is there, and the one the source means.
Grounded(s, links) ==
  CASE links[s] = "raw_event_id" ->
         facts[s].type = "raw_event" /\ "raw_event" \in facts[s].rows
    [] links[s] = "chat_message_id" ->
         facts[s].type = "chat_message" /\ ("chat_message" \in facts[s].rows
           \/ facts[s].rows \cap {"alias", "second_alias"} = {"alias"})
    [] links[s] = "tool_call_id" ->
         facts[s].type = "tool_output" /\ "tool_call" \in facts[s].rows
    [] links[s] \in {"job_id", "job_attempt_id"} ->
         /\ facts[s].type = "worker_extraction"
         /\ facts[s].rows \cap {"job", "attempt"}
              = {IF links[s] = "job_id" THEN "job" ELSE "attempt"}
         /\ \E e \in facts[s].cites : links[e] \in Evidence
    [] OTHER -> TRUE

\* A search index exists with its content; links were made by the release that
\* wrote them.
ASSUME SchemaMigrationAssumption ==
  /\ NoProgram \notin Program
  /\ Newest \in Nat /\ Current \in 1..Newest
  /\ Inputs \subseteq [disk : Disk, facts : [Source -> Fact]]
  /\ \A i \in Inputs : "search" \notin i.disk.lacks

MigrationInit ==
  /\ \E i \in Inputs : disk = i.disk /\ facts = i.facts
  /\ \A s \in Source : Grounded(s, disk.links)
  /\ writer = NoProgram /\ work = disk
  /\ stage = [p \in Program |-> "closed"]
  /\ enforced = [p \in Program |-> FALSE]

-----------------------------------------------------------------------------
(* Before the transaction *)

GoStage(p, next) == stage' = [stage EXCEPT ![p] = next]

\* initDatabase.
Open(p) ==
  /\ stage[p] = "closed"
  /\ GoStage(p, "opened")
  /\ enforced' = [enforced EXCEPT ![p] = TRUE]
  /\ UNCHANGED <<disk, facts, writer, work>>

\* What runMigrations does with a database it has nothing to do for.
Outcome(d) == IF Supported(d) /\ Matches(d, Current) THEN "ready" ELSE "failed"

Inspect(p) ==
  /\ stage[p] = "opened"
  /\ IF Supported(disk) /\ ~Finalized(disk)
     THEN GoStage(p, "waiting") /\ enforced' = [enforced EXCEPT ![p] = FALSE]
     ELSE GoStage(p, Outcome(disk)) /\ UNCHANGED enforced
  /\ UNCHANGED <<disk, facts, writer, work>>

\* The finally block; the transaction, if there was one, is over.
Finish(p, outcome) ==
  /\ GoStage(p, outcome)
  /\ enforced' = [enforced EXCEPT ![p] = TRUE]
  /\ writer' = IF writer = p THEN NoProgram ELSE writer

\* BEGIN IMMEDIATE, and another look: somebody else may have migrated meanwhile.
BeginImmediate(p) ==
  /\ stage[p] = "waiting" /\ writer = NoProgram
  /\ UNCHANGED <<disk, facts>>
  /\ IF ~Supported(disk) \/ Finalized(disk)
     THEN Finish(p, Outcome(disk)) /\ UNCHANGED work
     ELSE IF disk.ledger > 1 /\ ~Matches(disk, disk.ledger)
     THEN Finish(p, "failed") /\ UNCHANGED work
     ELSE /\ writer' = p
          /\ work' = disk
          /\ GoStage(p, IF disk.ledger <= 1 THEN "patch" ELSE "migrate")
          /\ UNCHANGED enforced

\* The write lock is not to be had in time.
Busy(p) ==
  /\ stage[p] = "waiting" /\ writer # NoProgram
  /\ Finish(p, "failed")
  /\ UNCHANGED <<disk, facts, work>>

-----------------------------------------------------------------------------
(* In the transaction *)

Rewrite(p, from, to, new) ==
  /\ stage[p] = from
  /\ work' = new
  /\ GoStage(p, to)
  /\ UNCHANGED <<disk, facts, writer, enforced>>

\* Something throws: the transaction is rolled back.
Throw(p) ==
  /\ stage[p] \in InTransaction
  /\ Finish(p, "failed")
  /\ UNCHANGED <<disk, facts, work>>

\* applyPreMigrationCompatibleSchemaPatches.
PrePatch(p) == Rewrite(p, "patch", "rebuild", [work EXCEPT !.lacks = @ \ {"columns"}])

\* rebuildKnownLegacyMemoryConstraints knows the old tables with their new columns,
\* and refuses while foreign keys are enforced.
Rebuild(p) ==
  /\ enforced[p] => "constraints" \notin work.lacks
  /\ Rewrite(p, "rebuild", "create",
       [work EXCEPT !.lacks = IF "columns" \in @ THEN @ ELSE @ \ {"constraints"}])

\* The statements of migration 001 create what is not there.
Create(p) ==
  Rewrite(p, "create", "resolve",
    [work EXCEPT !.shape = IF @ = 0 THEN 1 ELSE @,
                 !.lacks = (@ \ {"tables", "fts"})
                           \cup (IF "fts" \in @ THEN {"search"} ELSE {})])

\* applyCompatibleSchemaPatches.
Resolve(p) ==
  Rewrite(p, "resolve", "search",
    [work EXCEPT !.lacks = @ \ {"indexes"}, !.links = Resolved(@)])

\* Mutated form: the search index is left empty.
SearchUnbuilt(p) ==
  /\ Matches(work, 1)
  /\ Rewrite(p, "search", "migrate", [work EXCEPT !.ledger = 1])

\* rebuildMemoryFts when the index was missing; then the first version is recorded
\* and checked.
Search(p) ==
  /\ Matches(work, 1)
  /\ Rewrite(p, "search", "migrate",
       [work EXCEPT !.lacks = @ \ {"search"}, !.ledger = 1])

\* The next migration, checked and recorded.
Migrate(p) ==
  LET v == work.ledger + 1 IN
  /\ work.ledger < Current
  /\ v \notin work.foreign
  /\ Matches([work EXCEPT !.shape = v], v)
  /\ Rewrite(p, "migrate", "migrate", [work EXCEPT !.ledger = v, !.shape = v])

Commit(p) ==
  /\ stage[p] = "migrate" /\ Finalized(work)
  /\ disk' = work
  /\ Finish(p, "ready")
  /\ UNCHANGED <<facts, work>>

-----------------------------------------------------------------------------
\* The process ends or is killed, wherever it is.
Exit(p) ==
  /\ stage[p] # "closed"
  /\ GoStage(p, "closed")
  /\ enforced' = [enforced EXCEPT ![p] = FALSE]
  /\ writer' = IF writer = p THEN NoProgram ELSE writer
  /\ UNCHANGED <<disk, facts, work>>

\* runMigrations
Run(p) ==
  \/ Inspect(p) \/ BeginImmediate(p) \/ Busy(p)
  \/ PrePatch(p) \/ Rebuild(p) \/ Create(p) \/ Resolve(p) \/ Search(p)
  \/ Migrate(p) \/ Commit(p)
  \/ Throw(p)

MigrationNext == \E p \in Program : Open(p) \/ Run(p) \/ Exit(p)

MigrationSpec == MigrationInit /\ [][MigrationNext]_migrationVars

-----------------------------------------------------------------------------
(* Properties *)

MigrationTypeOK ==
  /\ disk \in Disk /\ work \in Disk
  /\ facts \in [Source -> Fact]
  /\ writer \in Program \cup {NoProgram}
  /\ stage \in [Program -> Stage]
  /\ enforced \in [Program -> BOOLEAN]

\* A process goes to work only on a database of its own version, checked, with
\* every memory in the search index and foreign keys enforced, whatever the
\* database was, who else migrated it and where that one was killed.
ReadyIsCurrent ==
  \A p \in Program : stage[p] = "ready" =>
    /\ disk.ledger = Current /\ Matches(disk, Current)
    /\ "search" \notin disk.lacks
    /\ enforced[p]

\* The evidence of a memory is what its source says it is: nothing ambiguous,
\* unsuccessful or unrelated becomes a link.
SourcesAreGrounded == \A s \in Source : Grounded(s, disk.links)

\* "Any failure rolls the entire migration back to the exact input": the file
\* changes from a supported older version to the current one and no other way,
\* and a link once made stays.
WholeOrNothing ==
  [][disk' # disk =>
       /\ Supported(disk) /\ ~Finalized(disk)
       /\ Finalized(disk') /\ Matches(disk', Current)
       /\ \A s \in Source : disk.links[s] # "legacy_unresolved" =>
            disk'.links[s] = disk.links[s]]_migrationVars

\* Whatever file is found, and whoever else opens it, the work starts on a database
\* that is wholly migrated.
MigrationSound ==
  /\ [](MigrationTypeOK /\ ReadyIsCurrent /\ SourcesAreGrounded)
  /\ WholeOrNothing
=============================================================================
