\* Three releases, two activations, two crashes or failures; two handoffs, two
\* crashes, three database contents; two programs that open a database of one of
\* some fifty kinds, three migrations.
SPECIFICATION MCSpec
CONSTANTS
  Release <- MCRelease
  Schema <- MCSchema
  NoRelease = NoRelease
  MaxOps = 2
  MaxFaults = 2
  None = None
  Torn = Torn
  MaxAttempts = 2
  Lifetime = 1
  MaxHandoffs = 2
  MaxContent = 3
  MaxCrashes = 2
  MaxNow = 1
  q1 = q1  q2 = q2  s1 = s1  s2 = s2
  Program <- MCProgram
  NoProgram = NoProgram
  Current = 3
  Newest = 4
  Source <- MCSource
  Inputs <- MCInputs
INVARIANTS ReleaseSound HandoffSound
PROPERTIES CandidateStartsOnce OperationsSettle NothingNewOverwritten MigrationSound
\* Every activation, handoff and start used up: the tools are done.
CHECK_DEADLOCK FALSE
