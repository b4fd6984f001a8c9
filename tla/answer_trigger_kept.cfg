SPECIFICATION Spec
CONSTANTS
    None = None
    p = p
    c = c
    n = n
    m = m
    a = a
    b = b
    d = d
    Questions <- MCQuestions
    Kind <- MCKind
    LabelsOf <- MCLabelsOf
    Triggers <- MCTriggers
    Single = {c}
    Mandatory = {n}
    Validated = {m}
    Timed = {n}
    Scored = {n}
    Frozen <- MCQuestions
    EmailQuestion = m
    Values = {right, wrong}
    Right = right
    Workers = {w1, w2}
SYMMETRY Symmetry
PROPERTIES StillChosenKept
CHECK_DEADLOCK FALSE
