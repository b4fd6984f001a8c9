SPECIFICATION FairSpec
CONSTANTS
    NoOne = NoOne
    Hosts = {h1, h2}
    Clients = {c1}
    Attempts = {a1}
    NQ = 1
    MaxSessions = 1
PROPERTIES EndReturns SubmitReturns
CHECK_DEADLOCK FALSE
