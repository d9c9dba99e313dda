\* Four invocations, one of which is killed.
SPECIFICATION Spec
CONSTANTS
  Process = {p1, p2, p3, p4}
  Nobody = Nobody
  MaxCrashes = 1
INVARIANT MutualExclusion
CHECK_DEADLOCK FALSE
