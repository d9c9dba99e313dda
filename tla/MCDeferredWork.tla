--------------------------- MODULE MCDeferredWork ---------------------------
(***************************************************************************)
(* Two protocols in which what was read is acted on much later: a delayed   *)
(* answer, claimed and stalled, and a proposal about memories, reviewed.    *)
(* They share nothing, so a behaviour is one of either: the other stays as  *)
(* it begins.                                                               *)
(***************************************************************************)
EXTENDS DelayedAttention, MemoryMaintenance, TLC

CONSTANTS q1, q2, m1, m2, p1, p2, a1, a2

VARIABLE protocol  \* "attention" or "maintenance"

MCCandidate == {q1, q2}
MCMemory == {m1, m2}
MCProposal == {p1, p2}
MCReviewer == {a1, a2}

\* All of them are interchangeable; only safety is checked with this.  The two
\* protocols never move together, so questions are exchanged when memories are.
Exchanged(memories) ==
  IF memories[m1] = m1 THEN q1 :> q1 @@ q2 :> q2 ELSE q1 :> q2 @@ q2 :> q1
MCSymmetry ==
  {Exchanged(memories) @@ memories @@ proposals @@ reviewers :
     memories \in Permutations(MCMemory), proposals \in Permutations(MCProposal),
     reviewers \in Permutations(MCReviewer)}

MCInit == protocol \in {"attention", "maintenance"} /\ Init /\ MaintenanceInit

MCNext ==
  \/ protocol = "attention" /\ Next /\ UNCHANGED <<protocol, maintenanceVars>>
  \/ protocol = "maintenance" /\ MaintenanceNext /\ UNCHANGED <<protocol, vars>>

MCSpec == MCInit /\ [][MCNext]_<<protocol, vars, maintenanceVars>>
=============================================================================
