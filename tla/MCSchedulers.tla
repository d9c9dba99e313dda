---------------------------- MODULE MCSchedulers ----------------------------
(***************************************************************************)
(* The two schedulers of the process: the job queue, whose rows are durable *)
(* and whose workers may die, and the turn admission controller, whose      *)
(* queues are in memory.  They share nothing, so a behaviour is one of      *)
(* either: the other stays as it begins.                                    *)
(***************************************************************************)
EXTENDS JobQueue, TurnAdmission

CONSTANTS w1, w2, j1, j2, k1, k2, k3, a1, a2, a3, b1, c1

VARIABLE scheduler  \* "jobs" or "turns"

MCWorker == {w1, w2}
MCJob == {j1, j2}
MCDelays == {0, 1}

\* w2 is restricted to one type, as the interactive worker is.
MCClaims == [w \in MCWorker |-> IF w = w1 THEN {j1, j2} ELSE {j1}]

MCKey == {k1, k2, k3}
MCWork == {a1, a2, a3, b1, c1}
MCKeyOf == [w \in MCWork |-> CASE w \in {a1, a2, a3} -> k1
                               [] w = b1 -> k2
                               [] w = c1 -> k3]

allVars == <<scheduler, vars, turnVars>>

MCInit == scheduler \in {"jobs", "turns"} /\ Init /\ TurnInit

JobsOnly == scheduler = "jobs" /\ UNCHANGED <<scheduler, turnVars>>
TurnsOnly == scheduler = "turns" /\ UNCHANGED <<scheduler, vars>>

MCNext ==
  \/ JobsOnly /\ Next
  \/ TurnsOnly /\ TurnNext

\* The fairness of both.  Only one of them is in use, so a condition on either
\* step is a condition on each.
MCFairness ==
  /\ WF_allVars(\/ JobsOnly /\ Tick
                \/ TurnsOnly /\ Pump)
  /\ WF_allVars(\/ JobsOnly /\ Working(w1)
                \/ TurnsOnly /\ Settling(a1))
  /\ WF_allVars(\/ JobsOnly /\ Working(w2)
                \/ TurnsOnly /\ Settling(a2))
  /\ \A w \in MCWork \ {a1, a2} : WF_allVars(TurnsOnly /\ Settling(w))

MCSpec == MCInit /\ [][MCNext]_allVars /\ MCFairness
=============================================================================
