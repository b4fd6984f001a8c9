SPECIFICATION PathsSpec
CONSTANTS
    Guessers = {w1, w2}
    Identities = {i1}
    Addresses = {ip}
    Nobody = Nobody
    MaxFailures = 2
    LockBase = 2
    LockCap = 4
    Spacing = 1
    MaxAge = 1
    MaxClock = 5
    LinkRows = {a1, a2}
    LinkRequests = {w1, w2}
    Invited = {u1, u2}
    Limits = {l1}
    NoLimit = NoLimit
    Nowhere = Nowhere
    MaxIssued = 2
    Entrants = {a1, a2}
    Takers = {u1, u2}
    Anonymous = Anonymous
    Finishers = {w1, w2}
    RuleChoices <- MCRules
    Questions = {1, 2, 3}
    Places = {1, 2}
    NoPage = 0
    Handed = {0}
    Editors = {w1, w2}
    Labels = {a1, a2}
    MatrixRows = {m1}
    OneRow = OneRow
    LabelRows <- MCLabelRows
    FullMark = 1
    Factors = {1, 2}
    Whole = 2
    Unscored = Unscored
    None = None
    Attempts = {attempt}
    Selects = {choice}
    Scalars = {scalar}
    Parent <- MCParent
    Writers = {w1, w2}
    Graders = {u1, u2}
    Scores = {0, 1}
SYMMETRY Symmetry
INVARIANTS PathsInv LockKept DeadLinksOpenNothing CompletedOnce GrantsEarned OneGrantPerUser
           TotalsFreshUnlessOverlapped AnsweredStaysFrozen
PROPERTIES GuessWaitsOutLocks DeadlineKept InviteAllOrNothing PagesDerived RegradeRestores
           DoneIsFixed ScalarScoreWrittenOnce
CHECK_DEADLOCK FALSE
