--------------------------- MODULE ActivationLock ---------------------------
(***************************************************************************)
(* The file lock that serializes activation, confirmation and recovery     *)
(* (acquireActivationLock in src/src/operations/application-release.ts).   *)
(*                                                                         *)
(* A process publishes its owner record as .activation.lock by a hard      *)
(* link, which fails when the name is taken.  The lock of a process that   *)
(* has died is reclaimed: it is renamed to a quarantine name, looked at    *)
(* once more and removed.  Each file operation is one step.  A process is  *)
(* one invocation; its identity is never used again.                       *)
(***************************************************************************)
EXTENDS Naturals, FiniteSets

CONSTANTS
  Process,     \* invocations
  Nobody,      \* no file of that name
  MaxCrashes   \* bound: processes that die before they are done

ActivationLockAssumption ==
  Nobody \notin Process /\ MaxCrashes \in Nat

VARIABLES
  lock,        \* .activation.lock: the owner recorded in it
  quarantine,  \* quarantine[p]: the owner in .activation-lock-quarantine-<p>
  pc,          \* pc[p]: the next step of process p
  owner,       \* owner[p]: the owner p expects in the lock it removes
  dead         \* processes that are gone

vars == <<lock, quarantine, pc, owner, dead>>

Step == {"begin", "publish", "observe", "check", "rename", "verify", "putBack",
         "remove", "hold", "refused", "done"}

TypeOK ==
  /\ lock \in Process \cup {Nobody}
  /\ quarantine \in [Process -> Process \cup {Nobody}]
  /\ pc \in [Process -> Step]
  /\ owner \in [Process -> Process \cup {Nobody}]
  /\ dead \subseteq Process

Init ==
  /\ lock = Nobody
  /\ quarantine = [p \in Process |-> Nobody]
  /\ pc = [p \in Process |-> "begin"]
  /\ owner = [p \in Process |-> Nobody]
  /\ dead = {}

Held == {p \in Process : quarantine[p] # Nobody}
Goto(p, step) == pc' = [pc EXCEPT ![p] = step]
Alive(p, step) == p \notin dead /\ pc[p] = step

\* reconcileStaleActivationLockQuarantine: only what its dead owner has left.
Begin(p) ==
  /\ Alive(p, "begin")
  /\ IF Held = {} THEN Goto(p, "publish") /\ UNCHANGED quarantine
     ELSE IF lock = Nobody /\ \E q \in dead : Held = {q} /\ quarantine[q] = q
     THEN Goto(p, "publish") /\ quarantine' = [q \in Process |-> Nobody]
     ELSE Goto(p, "refused") /\ UNCHANGED quarantine
  /\ UNCHANGED <<lock, owner, dead>>

\* linkSync of the candidate file.
Publish(p) ==
  /\ Alive(p, "publish")
  /\ IF lock = Nobody THEN lock' = p /\ Goto(p, "hold")
     ELSE Goto(p, "observe") /\ UNCHANGED lock
  /\ UNCHANGED <<quarantine, owner, dead>>

\* tryReclaimStaleActivationLock: is the owner alive?  If so the process tries
\* again until its deadline.
Observe(p) ==
  /\ Alive(p, "observe")
  /\ \/ lock \in dead /\ owner' = [owner EXCEPT ![p] = lock] /\ Goto(p, "check")
     \/ lock \notin dead /\ UNCHANGED owner /\ Goto(p, "publish")
     \/ lock \notin dead /\ UNCHANGED owner /\ Goto(p, "refused")
  /\ UNCHANGED <<lock, quarantine, dead>>

\* The holder removes its own lock the same way.
ReleaseLock(p) ==
  /\ Alive(p, "hold")
  /\ owner' = [owner EXCEPT ![p] = p]
  /\ Goto(p, "check")
  /\ UNCHANGED <<lock, quarantine, dead>>

Reclaims(p) == owner[p] # p
AfterRemoval(p) == IF Reclaims(p) THEN "publish" ELSE "done"

\* removeOwnedActivationLock, its four looks at the directory.
Check(p) ==
  /\ Alive(p, "check")
  /\ Goto(p, IF lock = owner[p] /\ quarantine[owner[p]] = Nobody
             THEN "rename" ELSE AfterRemoval(p))
  /\ UNCHANGED <<lock, quarantine, owner, dead>>

Rename(p) ==
  /\ Alive(p, "rename")
  /\ IF lock = Nobody THEN Goto(p, AfterRemoval(p)) /\ UNCHANGED <<lock, quarantine>>
     ELSE /\ quarantine' = [quarantine EXCEPT ![owner[p]] = lock]
          /\ lock' = Nobody
          /\ Goto(p, "verify")
  /\ UNCHANGED <<owner, dead>>

\* It may be the lock of somebody who came in between, or gone.
Verify(p) ==
  /\ Alive(p, "verify")
  /\ Goto(p, CASE quarantine[owner[p]] = owner[p] -> "remove"
               [] quarantine[owner[p]] \in Process \ {owner[p]} /\ lock = Nobody -> "putBack"
               [] OTHER -> AfterRemoval(p))
  /\ UNCHANGED <<lock, quarantine, owner, dead>>

PutBack(p) ==
  /\ Alive(p, "putBack")
  /\ lock' = IF quarantine[owner[p]] = Nobody THEN lock ELSE quarantine[owner[p]]
  /\ quarantine' = [quarantine EXCEPT ![owner[p]] = Nobody]
  /\ Goto(p, AfterRemoval(p))
  /\ UNCHANGED <<owner, dead>>

Remove(p) ==
  /\ Alive(p, "remove")
  /\ quarantine' = [quarantine EXCEPT ![owner[p]] = Nobody]
  /\ Goto(p, AfterRemoval(p))
  /\ UNCHANGED <<lock, owner, dead>>

\* A process ends, or is killed at any point.
Exit(p) ==
  /\ p \notin dead
  /\ pc[p] \in {"done", "refused"} \/
     Cardinality({q \in dead : pc[q] \notin {"done", "refused"}}) < MaxCrashes
  /\ dead' = dead \cup {p}
  /\ UNCHANGED <<lock, quarantine, pc, owner>>

Next ==
  \E p \in Process :
    \/ Begin(p) \/ Publish(p) \/ Observe(p) \/ ReleaseLock(p)
    \/ Check(p) \/ Rename(p) \/ Verify(p) \/ PutBack(p) \/ Remove(p)
    \/ Exit(p)

Spec == Init /\ [][Next]_vars

-----------------------------------------------------------------------------
(* Properties *)

\* Holders still at work on the release.
Holders == {p \in Process \ dead : pc[p] = "hold"}

\* Activation, confirmation and recovery are serialized: no two live processes
\* hold the lock at once.
MutualExclusion == Cardinality(Holders) <= 1
=============================================================================
