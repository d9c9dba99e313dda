CONSTANTS
    s1 = s1  s2 = s2  r1 = r1  r2 = r2  p1 = p1  p2 = p2
    Scopes = {s1, s2}
    Records = {r1, r2}
    Reviews = {p1, p2}
    Home <- MCHome
    Situations <- MCSituations
    MaxCalls = 2
    MaxWrites = 1
    None = None
SPECIFICATION BrowserSpec
INVARIANTS ScreenIsTheScopes OneCommandOnScreen OutcomesAreTrue
