SPECIFICATION ContextSpec
CONSTANTS
    m1 = m1
    m2 = m2
    m3 = m3
    u1 = u1
    u2 = u2
    g1 = g1
    g2 = g2
    c1 = c1
    c2 = c2
    p1 = p1
    p2 = p2
    p3 = p3
    None = None
    Memory <- MCMemory
    Scenes <- MCScenes
    RouteLimit = 1
    MessageLimit = 4
    MaxWrites = 2
    MaxTokens = 18
    Overhead = 2
    LineCost = 1
    SpeakerCost = 1
    MarkerCost = 1
INVARIANTS TellableAndTraced PromptFits
PROPERTIES WritesAreCurrent
CHECK_DEADLOCK FALSE
