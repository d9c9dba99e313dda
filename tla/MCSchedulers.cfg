\* Jobs: two workers compete for j1, leases run out, a handler throws, stalls or
\* is killed, one worker crashes; j2 is of an unknown type.
\* Turns: two slots, two places in the queue, three conversations, five messages.
SPECIFICATION MCSpec
CONSTANTS
  w1 = w1  w2 = w2  j1 = j1  j2 = j2
  None = None
  Worker <- MCWorker
  Job <- MCJob
  Claims <- MCClaims
  Known = {j1}
  MaxAttempts = 2
  Lease = 2
  RetryDelay = 1
  Delays <- MCDelays
  MaxAge = 1
  MaxCrashes = 1
  k1 = k1  k2 = k2  k3 = k3
  a1 = a1  a2 = a2  a3 = a3  b1 = b1  c1 = c1
  Key <- MCKey
  Work <- MCWork
  KeyOf <- MCKeyOf
  HasDeadline = {a2, b1}
  MaxConcurrent = 2
  MaxQueued = 2
  MaxWaiters = 1
INVARIANTS JobsConsistent TurnsConsistent
PROPERTIES JobStepsLawful ImplementsContract EveryJobSettles TurnsServed
\* Every message answered: the controller comes to rest.
CHECK_DEADLOCK FALSE
