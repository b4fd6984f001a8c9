SPECIFICATION Spec
CONSTANTS
    NoOne = NoOne
    Hosts = {h1, h2}
    Clients = {}
    Attempts = {}
    NQ = 1
    MaxSessions = 2
SYMMETRY Symmetry
INVARIANTS SessionInv ColumnsAgree CertificationDisjoint
PROPERTIES DeclaredMovesOnly
CHECK_DEADLOCK FALSE
