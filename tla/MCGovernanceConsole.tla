------------------------ MODULE MCGovernanceConsole ------------------------
(***************************************************************************)
(* Two requests and two logins over one row of each kind.  A workload is a  *)
(* group of operations that compete for the same row, with the writers that *)
(* compete with them.                                                       *)
(***************************************************************************)
EXTENDS GovernanceConsole, TLC

CONSTANTS q1, q2

Work(ops, others, memory, logins) ==
    [ops |-> ops, others |-> others, memory |-> memory, pin |-> "none",
     days |-> [memory |-> 0, chat |-> 0, raw |-> 0], logins |-> logins, clock |-> 2]

Keep(pin, memoryDays) ==
    [ops |-> {"retention"}, others |-> {"enable", "worker", "retention"}, memory |-> "deleted", pin |-> pin,
     days |-> [memory |-> memoryDays, chat |-> 1, raw |-> 1], logins |-> 1, clock |-> 3]

MCPurpose == Kind

\* One of each kind of reference: to the chat message, the raw event, both, the memory.
MCPin == {"none", "extraction", "turn", "summary", "proposal"}

MCWorkloads ==
    {Work({"forget", "restore"}, {"disable", "enable"}, "active", 2),
     Work({"forget"}, {"decide", "delete", "supersede"}, "proposed", 1),
     Work({"optIn", "optOut"}, {"privacy"}, "active", 1),
     Work({"enable", "disable"}, {"qq"}, "active", 1),
     Work({"redact"}, {"inbound", "redact"}, "active", 1),
     Work({"approve", "reject", "expire"}, {}, "active", 1),
     Work({"approve", "apply", "rollback"}, {"disable"}, "active", 1),
     Work({"unlink"}, {"unlink", "inbound"}, "active", 1),
     Work({"backup", "handoff"}, {"operator"}, "active", 1)}
    \cup {Keep("none", 0)} \cup {Keep(p, 1) : p \in MCPin}

MCSymmetry == Permutations({q1, q2})
=============================================================================
