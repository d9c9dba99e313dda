CONSTANTS
    q1 = q1
    q2 = q2
    Request = {q1, q2}
    Purpose <- MCPurpose
    SessionTtl = 2
    PreviewTtl = 1
    MaxSessions = 1
    MaxPreviews = 2
    MaxConsumed = 1
    MaxLogins = 2
    MaxIssued = 3
    MaxNow = 3
    MaxVersion = 3
    Workloads <- MCWorkloads

SPECIFICATION Spec
SYMMETRY MCSymmetry

INVARIANTS HandlesSound EvidenceKept
PROPERTIES EffectsConfirmed

CHECK_DEADLOCK FALSE
