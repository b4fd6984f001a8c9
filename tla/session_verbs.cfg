SPECIFICATION VerbSpec
CONSTANTS
    NoOne = NoOne
    Hosts = {h1, h2}
    Clients = {c1, c2}
    Attempts = {a1}
    NQ = 2
    MaxSessions = 1
SYMMETRY Symmetry
INVARIANTS VerbInv ColumnsAgree NoLinesAfterDone PushedOnce StartPushedFirst
PROPERTIES AttemptsOnlyAdvance EndFinishesRunning SessionRefinement
CHECK_DEADLOCK FALSE
