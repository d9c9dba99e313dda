--------------------------- MODULE TurnAdmission ---------------------------
(***************************************************************************)
(* TurnAdmissionController (src/src/pi/turn-admission-controller.ts): a    *)
(* bounded number of conversation workflows run at once, at most one per   *)
(* conversation key, the others wait in bounded per-key queues until their *)
(* deadline.                                                               *)
(*                                                                         *)
(* The code is single-threaded.  pump() is a loop that nothing else can    *)
(* interrupt, except that the clock it reads moves on: it is taken one     *)
(* iteration at a time, with pc saying who called it.                      *)
(***************************************************************************)
EXTENDS Integers, Sequences, FiniteSets, SequencesExt

CONSTANTS
  Key,            \* conversation keys
  Work,           \* callers' work items
  KeyOf,          \* KeyOf[w]: the conversation of w
  HasDeadline,    \* the items submitted with a deadline
  MaxConcurrent,
  MaxQueued,
  MaxWaiters      \* bound: how many callers wait for idle at once

ASSUME TurnAdmissionAssumption ==
  /\ KeyOf \in [Work -> Key]
  /\ HasDeadline \subseteq Work
  /\ MaxConcurrent \in Nat \ {0}
  /\ MaxQueued \in Nat
  /\ MaxWaiters \in Nat

VARIABLES
  pc,          \* "ready", or the caller of the pump() that is running
  queues,      \* queues[k]: the waiting items of key k
  keyOrder,    \* the keys that have an entry, in service order
  activeKeys,  \* the keys with an item running
  cursor,      \* index into keyOrder, from 0
  active,      \* the running-item counter
  queued,      \* the waiting-item counter
  status,      \* status[w]: what the caller of w knows
  late,        \* the waiting items whose deadline has passed
  waiters      \* callers waiting for idle

turnVars == <<pc, queues, keyOrder, activeKeys, cursor, active, queued, status,
          late, waiters>>

\* "resolved": the caller has its answer, the slot is not free yet.
Settled == {"done", "overloaded", "queue_timeout"}
Status == {"new", "queued", "running", "resolved"} \cup Settled

TurnInit ==
  /\ pc = "ready"
  /\ queues = [k \in Key |-> <<>>]
  /\ keyOrder = <<>>
  /\ activeKeys = {}
  /\ cursor = 0
  /\ active = 0
  /\ queued = 0
  /\ status = [w \in Work |-> "new"]
  /\ late = {}
  /\ waiters = 0

-----------------------------------------------------------------------------
(* The pieces of the queue discipline. *)

\* indexOf, from 1 here.
Position(s, e) == CHOOSE i \in 1..Len(s) : s[i] = e

IndexOf(k) == Position(keyOrder, k) - 1

CursorAfter(index, from) == IF index < from THEN from - 1 ELSE from

\* keyOrder is one shorter by then.
Wrapped(index) == IF index >= Len(keyOrder) - 1 THEN 0 ELSE index

\* Mutated form: a key goes although it has waiting work.
KeyGoneWhenInactive(k) == k \notin activeKeys'

KeyGone(k) == queues'[k] = <<>> /\ k \notin activeKeys'

\* removeKey(k) if nothing of k is left; the cursor stands at from before it.
TidyKey(k, from) ==
  IF KeyGone(k) /\ Contains(keyOrder, k)
  THEN LET next == CursorAfter(IndexOf(k), from) IN
       /\ keyOrder' = RemoveAt(keyOrder, IndexOf(k) + 1)
       /\ cursor' = Wrapped(next)
  ELSE keyOrder' = keyOrder /\ cursor' = from

Runnable(k) == k \notin activeKeys /\ queues[k] # <<>>

KeyAt(distance) == keyOrder[((cursor + distance) % Len(keyOrder)) + 1]

\* How far from the cursor nextRunnableKey would find each runnable key.
RunnableDistances == {d \in 0..Len(keyOrder) - 1 : Runnable(KeyAt(d))}

CanStartImmediately(w) == active < MaxConcurrent /\ KeyOf[w] \notin activeKeys

QueueFull(w) == ~CanStartImmediately(w) /\ queued >= MaxQueued

-----------------------------------------------------------------------------
(* schedule *)

\* A submission turned away at the door, with nothing enqueued.
Reject(w, code) ==
  /\ status' = [status EXCEPT ![w] = code]
  /\ UNCHANGED <<pc, queues, keyOrder, activeKeys, cursor, active, queued, late, waiters>>

Admit(w) ==
  LET k == KeyOf[w] IN
  /\ queues' = [queues EXCEPT ![k] = Append(@, w)]
  /\ keyOrder' = IF Contains(keyOrder, k) THEN keyOrder ELSE Append(keyOrder, k)
  /\ queued' = queued + 1
  /\ status' = [status EXCEPT ![w] = "queued"]
  /\ pc' = "schedule"
  /\ UNCHANGED <<activeKeys, cursor, active, late, waiters>>

Schedule(w) ==
  /\ pc = "ready"
  /\ status[w] = "new"
  /\ \/ w \in HasDeadline /\ Reject(w, "queue_timeout")
     \/ QueueFull(w) /\ Reject(w, "overloaded")
     \/ ~QueueFull(w) /\ Admit(w)

-----------------------------------------------------------------------------
(* Deadlines *)

\* The clock reaches a waiting item's deadline, perhaps during a pump.
DeadlinePasses(w) ==
  /\ status[w] = "queued" /\ w \in HasDeadline \ late
  /\ late' = late \cup {w}
  /\ UNCHANGED <<pc, queues, keyOrder, activeKeys, cursor, active, queued, status, waiters>>

\* expireQueuedWork, from the item's timer.
Expire(w) ==
  /\ pc = "ready" /\ w \in late
  /\ queues' = [queues EXCEPT ![KeyOf[w]] = RemoveAt(@, Position(@, w))]
  /\ queued' = queued - 1
  /\ late' = late \ {w}
  /\ status' = [status EXCEPT ![w] = "queue_timeout"]
  /\ UNCHANGED <<activeKeys, active, waiters>>
  /\ TidyKey(KeyOf[w], cursor)
  /\ pc' = "expire"

-----------------------------------------------------------------------------
(* pump, one iteration at a time *)

\* Mutated form: pump looks at one item and returns.
PumpReturns == "ready"

PumpContinues == pc

\* An iteration that takes an item: it starts, or is rejected if it is late.
PumpServe ==
  /\ pc # "ready"
  /\ active < MaxConcurrent
  /\ \E d \in RunnableDistances :
       LET k == KeyAt(d)
           w == Head(queues[k])
       IN
       /\ \A e \in RunnableDistances : d <= e
       /\ queues' = [queues EXCEPT ![k] = Tail(@)]
       /\ IF w \in late
          THEN /\ status' = [status EXCEPT ![w] = "queue_timeout"]
               /\ UNCHANGED <<active, activeKeys>>
          ELSE /\ status' = [status EXCEPT ![w] = "running"]
               /\ active' = active + 1
               /\ activeKeys' = activeKeys \cup {k}
       /\ late' = late \ {w}
       /\ TidyKey(k, (cursor + d + 1) % Len(keyOrder))
  /\ queued' = queued - 1
  /\ pc' = PumpContinues
  /\ UNCHANGED waiters

NotifiesIdle == pc \in {"expire", "finally"}

\* The last iteration, and what the caller of pump does after it.
PumpDone ==
  /\ pc # "ready"
  /\ active = MaxConcurrent \/ RunnableDistances = {}
  /\ waiters' = IF NotifiesIdle /\ active = 0 /\ queued = 0 THEN 0 ELSE waiters
  /\ pc' = "ready"
  /\ UNCHANGED <<queues, keyOrder, activeKeys, cursor, active, queued, status, late>>

-----------------------------------------------------------------------------
(* The work itself *)

\* The work ends: its caller's promise settles first ...
Resolve(w) ==
  /\ pc = "ready" /\ status[w] = "running"
  /\ status' = [status EXCEPT ![w] = "resolved"]
  /\ UNCHANGED <<pc, queues, keyOrder, activeKeys, cursor, active, queued, late, waiters>>

\* ... and the finally block frees the slot in a later microtask.
Release(w) ==
  /\ pc = "ready" /\ status[w] = "resolved"
  /\ status' = [status EXCEPT ![w] = "done"]
  /\ active' = active - 1
  /\ activeKeys' = activeKeys \ {KeyOf[w]}
  /\ UNCHANGED <<queues, queued, late, waiters>>
  /\ TidyKey(KeyOf[w], cursor)
  /\ pc' = "finally"

\* A caller that would wait: the promise of an idle controller is settled already.
WaitForIdle ==
  /\ pc = "ready"
  /\ active # 0 \/ queued # 0
  /\ waiters < MaxWaiters
  /\ waiters' = waiters + 1
  /\ UNCHANGED <<pc, queues, keyOrder, activeKeys, cursor, active, queued, status, late>>

-----------------------------------------------------------------------------
Pump == PumpServe \/ PumpDone

TurnNext ==
  \/ \E w \in Work :
       \/ Schedule(w) \/ DeadlinePasses(w) \/ Expire(w) \/ Resolve(w) \/ Release(w)
  \/ PumpServe \/ PumpDone
  \/ WaitForIdle

TurnSpec == TurnInit /\ [][TurnNext]_turnVars

\* What carries w to its answer; in each state at most one of the three can.
Settling(w) == Expire(w) \/ Resolve(w) \/ Release(w)

\* A running loop goes on, timers fire, promises settle and work ends (every
\* workflow has a deadline of its own).  Nobody has to submit anything.
TurnFairSpec ==
  /\ TurnSpec
  /\ WF_turnVars(Pump)
  /\ \A w \in Work : WF_turnVars(Settling(w))

-----------------------------------------------------------------------------
(* Properties *)

Waiting(w) == status[w] = "queued"
Running(w) == status[w] \in {"running", "resolved"}

\* Every variable has its type: the cursor points into the order and only the
\* item being admitted may exceed the queue limit, until pump has looked at it.
TurnTypeOK ==
  /\ pc \in {"ready", "schedule", "expire", "finally"}
  /\ queues \in [Key -> Seq(Work)]
  /\ keyOrder \in Seq(Key)
  /\ activeKeys \subseteq Key
  /\ cursor \in 0..Len(keyOrder) /\ (keyOrder # <<>> => cursor < Len(keyOrder))
  /\ active \in 0..MaxConcurrent
  /\ queued \in 0..MaxQueued + 1
  /\ status \in [Work -> Status]
  /\ late \subseteq HasDeadline
  /\ waiters \in 0..MaxWaiters

\* The counters the limits are checked against count what they say, whichever of
\* the five places that touch them ran: between calls, the running and the
\* waiting items, and no more of either than the configuration allows.
CountersTruthful ==
  pc = "ready" =>
    /\ active = Cardinality({w \in Work : Running(w)})
    /\ queued = Cardinality({w \in Work : Waiting(w)})
    /\ queued <= MaxQueued

\* Two workflows of one conversation never overlap, even in the microtask between
\* a promise settling and its slot coming free.
OneTurnPerConversation ==
  \A v, w \in Work : Running(v) /\ Running(w) /\ KeyOf[v] = KeyOf[w] => v = w

\* No slot stays empty while some conversation could use it: each place that frees
\* a slot or a key pumps until nothing more can start.
WorkConserving ==
  pc = "ready" /\ active < MaxConcurrent => \A k \in Key : ~Runnable(k)

\* keyOrder lists exactly the conversations with work, each once: a key dropped
\* too early would strand its queue, one kept too long would grow the map for ever.
KeyOrderTidy ==
  /\ ToSet(keyOrder) = activeKeys \cup {k \in Key : queues[k] # <<>>}
  /\ IsInjective(keyOrder)
  /\ activeKeys = {KeyOf[w] : w \in {v \in Work : Running(v)}}
  /\ \A w \in Work : Waiting(w) <=> Contains(queues[KeyOf[w]], w)

\* No wakeup of waitForIdle is lost: whoever still waits has a running workflow
\* whose finally block will look again.
IdleWaitersHaveWork == pc = "ready" /\ waiters > 0 => active > 0

\* A waiting key the cursor has yet to reach never loses its place: it stays in the
\* order, and however many keys come and go, no more keys are in front of it after a
\* step than before.
InFront(k) == {KeyAt(d) : d \in {e \in 0..Len(keyOrder) - 1 :
                                   \A f \in 0..e : KeyAt(f) # k}}
TurnNeverRecedes ==
  [][\A k \in Key :
       /\ Contains(keyOrder, k)
       /\ Runnable(k) /\ IndexOf(k) >= cursor
       /\ Runnable(k)'
       /\ queues'[k] # Tail(queues[k])
       => Contains(keyOrder', k) /\ InFront(k)' \subseteq InFront(k)]_turnVars

\* Every admitted workflow is answered: it runs to its end or is told that its
\* deadline passed.
EveryWorkSettles == \A w \in Work : Waiting(w) ~> status[w] \in Settled

\* Shutdown's waitForIdle returns once no more work is submitted.
WaitForIdleReturns == waiters > 0 ~> waiters = 0

\* The controller's bookkeeping is right between any two of its callbacks: true
\* counters, one workflow for a conversation, no idle slot with work for it, a
\* tidy order and no sleeper without a waker.
TurnsConsistent ==
  /\ TurnTypeOK /\ CountersTruthful /\ OneTurnPerConversation
  /\ WorkConserving /\ KeyOrderTidy /\ IdleWaitersHaveWork

\* Whoever waits is served: a waiting conversation keeps its place, every
\* admitted workflow is answered and shutdown's wait ends.
TurnsServed == TurnNeverRecedes /\ EveryWorkSettles /\ WaitForIdleReturns
=============================================================================
