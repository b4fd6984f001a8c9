SPECIFICATION Spec
CONSTANTS
    NoOne = NoOne
    Attempts = {a1, a2, a3, a4}
    Starters = {s1, s2}
    Clients = {c1, c2}
    Limit = 2
SYMMETRY Symmetry
INVARIANTS PoolInv StandingWithinLimit OneOpenAttempt
CHECK_DEADLOCK FALSE
