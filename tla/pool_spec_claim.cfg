SPECIFICATION Spec
CONSTANTS
    NoOne = NoOne
    Attempts = {a1, a2, a3, a4}
    Starters = {s1, s2}
    Clients = {c1, c2}
    Limit = 1
SYMMETRY Symmetry
INVARIANTS FinishedWithinLimit
CHECK_DEADLOCK FALSE
