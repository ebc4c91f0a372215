SPECIFICATION Spec
CONSTANTS
    a = a
    b = b
    old = old
    vague = vague
    Leaks = {a, b}
    Critical = {a}
    PreIncident = {b}
    Legacies = {old, vague}
    Matches <- MatchesTwo
    Workers = {w1, w2}
    MayCrash = TRUE
    None = None
SYMMETRY WorkerSymmetry
INVARIANTS RowsKept FreshUnlessOvertaken
PROPERTIES ClosedStaysClosed
CHECK_DEADLOCK FALSE
