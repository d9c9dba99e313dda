SPECIFICATION Spec
CONSTANTS
    s1 = s1
    s2 = s2
    x1 = x1
    e1 = e1
    e2 = e2
    None = None
    Turn = {}
    Attempt <- MCAttempt
    MaxRounds = 1
    SummaryJob <- MCSummaryJob
    ExtractionJob <- MCExtractionJob
    Message <- MCMessage
    Enqueuer <- MCEnqueuer
    Workloads <- MCWorkloads
    MaxAttempts = 2
    MinTrigger = 1
    MaxWindow = 2
    MaxGeneration = 3
    MaxClock = 2
    MaxStalls = 1
SYMMETRY MCSymmetry
INVARIANTS SummariesHaveConsent DecisionsAreGrounded
PROPERTIES EffectsNeedAuthority
CHECK_DEADLOCK FALSE
