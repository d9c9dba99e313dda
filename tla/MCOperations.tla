---------------------------- MODULE MCOperations ----------------------------
(***************************************************************************)
(* The three protocols on files that must survive the death of a process   *)
(* between any two steps: the restore handoff, the managed release, and    *)
(* the migration of a database that several programs open.  They are       *)
(* independent of each other, so a behaviour is one of one of them: the    *)
(* others keep their first state.                                          *)
(***************************************************************************)
EXTENDS ApplicationRelease, RestoreHandoff, SchemaMigration

CONSTANTS q1, q2, s1, s2

VARIABLE tool  \* the protocol of this behaviour

\* Release 2 migrates the database; release 3 keeps the schema of release 2.
MCRelease == 1..3
MCSchema == [r \in MCRelease |-> IF r = 1 THEN 1 ELSE 2]

-----------------------------------------------------------------------------
(* The databases that may be found *)

MCProgram == {q1, q2}
MCSource == {s1, s2}

\* An empty file, a database of a version, one of the earlier layout.
Fresh ==
  [disk |-> [malformed |-> FALSE, ledger |-> 0, shape |-> 0, foreign |-> {},
             orphans |-> FALSE, lacks |-> {},
             links |-> [s \in MCSource |-> "legacy_unresolved"]],
   facts |-> [s \in MCSource |-> [type |-> "user_command", rows |-> {}, cites |-> {}]]]
OfVersion(v) == [Fresh EXCEPT !.disk.ledger = v, !.disk.shape = v]
Earlier(lacks) == [Fresh EXCEPT !.disk.shape = 1, !.disk.lacks = lacks]

\* A memory of that evidence and of a job or an attempt that cites it or does not.
Sourced(type, rows, worked, cites) ==
  [Earlier({"columns"}) EXCEPT
     !.facts[s1] = [type |-> type, rows |-> rows, cites |-> {}],
     !.facts[s2] = [type |-> "worker_extraction", rows |-> worked, cites |-> cites]]

MCInputs ==
  {OfVersion(v) : v \in 0..Newest}
  \cup {Earlier(lacks) : lacks \in SUBSET {"columns", "constraints", "tables", "indexes", "fts"}}
  \cup {[Earlier({"fts"}) EXCEPT !.disk.ledger = 1]}
  \cup {[OfVersion(1) EXCEPT !.disk.malformed = TRUE]}
  \cup {[OfVersion(v) EXCEPT !.disk.foreign = {2}] : v \in 1..Current}
  \cup {[OfVersion(v) EXCEPT !.disk.orphans = TRUE] : v \in 0..Current}
  \cup {[OfVersion(2) EXCEPT !.disk.lacks = {"indexes"}],
        [OfVersion(Current) EXCEPT !.disk.shape = Current - 1]}
  \cup {Sourced("raw_event", {"raw_event"}, worked, {s1}) : worked \in SUBSET {"job", "attempt"}}
  \cup {Sourced("chat_message", rows, {"job"}, {s1}) :
          rows \in SUBSET {"chat_message", "alias", "second_alias"}}
  \cup {Sourced("tool_output", rows, {"attempt"}, {s1}) : rows \in SUBSET {"tool_call"}}
  \cup {[Sourced("raw_event", {"raw_event"}, {"job"}, {}) EXCEPT
           !.disk.links[s1] = "raw_event_id"]}

-----------------------------------------------------------------------------
allVars == <<tool, vars, releaseVars, migrationVars>>

MCInit ==
  /\ tool \in {"release", "handoff", "migration"}
  /\ Init /\ ReleaseInit /\ MigrationInit
  /\ tool # "release" => running = NoRelease
  /\ tool # "handoff" => backup.content = target
  /\ tool # "migration" => disk = Fresh.disk

ReleaseOnly == tool = "release" /\ UNCHANGED <<tool, vars, migrationVars>>
HandoffOnly == tool = "handoff" /\ UNCHANGED <<tool, releaseVars, migrationVars>>
MigrationOnly == tool = "migration" /\ UNCHANGED <<tool, vars, releaseVars>>

MCNext ==
  \/ ReleaseOnly /\ ReleaseNext
  \/ HandoffOnly /\ Next
  \/ MigrationOnly /\ MigrationNext

\* The fairness of ApplicationRelease and of RestoreHandoff.  Only one of them is
\* in use, so a condition on either step is a condition on each.
MCFairness ==
  /\ WF_allVars(\/ ReleaseOnly /\ Step
                \/ HandoffOnly /\ Consume)
  /\ WF_allVars(HandoffOnly /\ (PrepareWrite \/ PrepareLink \/ PrepareUnstage \/ Stop))
  /\ SF_allVars(\/ ReleaseOnly /\ BeginRecovery
                \/ HandoffOnly /\ svc = "down" /\ Begin)
  /\ SF_allVars(\/ ReleaseOnly /\ BeginConfirmation /\ journal.phase = "confirming"
                \/ HandoffOnly /\ svc = "crashed" /\ Start)

MCSpec == MCInit /\ [][MCNext]_allVars /\ MCFairness

-----------------------------------------------------------------------------
\* An interrupted operation and a claim both come to an end: the operation with
\* all its files gone, the claim carried out or waiting for somebody to look.
OperationsSettle == EveryOperationSettles /\ ClaimsSettle
=============================================================================
