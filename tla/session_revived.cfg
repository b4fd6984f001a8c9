SPECIFICATION Spec
CONSTANTS
    NoOne = NoOne
    Hosts = {h1, h2}
    Clients = {c1}
    Attempts = {a1}
    NQ = 2
    MaxSessions = 2
SYMMETRY Symmetry

PROPERTIES EndedStaysEnded
CHECK_DEADLOCK FALSE
