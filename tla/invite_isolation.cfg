SPECIFICATION LinkSpec
CONSTANTS
    LinkRows = {a1, a2}
    LinkRequests = {w1}
    Invited = {u1, u2}
    Limits = {l1}
    NoLimit = NoLimit
    Nowhere = Nowhere
    MaxIssued = 2
PROPERTIES InviteIsolated
CHECK_DEADLOCK FALSE
