SPECIFICATION Spec
CONSTANTS
    a = a
    b = b
    old = old
    vague = vague
    Leaks = {a, b}
    Critical = {a}
    PreIncident = {b}
    Legacies = {}
    Matches <- NoMatches
    Workers = {w1, w2}
    MayCrash = FALSE
    None = None
INVARIANTS EveryFindingAlerted
CHECK_DEADLOCK FALSE
