SPECIFICATION FairSpec
CONSTANTS
    t1 = t1
    t2 = t2
    s1 = s1
    s2 = s2
    search = search
    propose = propose
    None = None
    Turn <- MCTurn
    Attempt = {}
    MaxRounds = 2
    Slot <- MCSlot
    Tool <- MCTool
    Reviewed <- MCReviewed
    Permits <- MCPermits
    Prepared <- MCPrepared
    MaxMishaps = 1
INVARIANTS RunsAreTrue
PROPERTIES RunStepsLawful EveryRunReturns
CHECK_DEADLOCK FALSE
