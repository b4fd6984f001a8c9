SPECIFICATION TotalsSpec
CONSTANTS
    None = None
    choice = choice
    scalar = scalar
    Attempts = {a1}
    Selects <- ChoiceQuestions
    Scalars <- ScalarQuestions
    Parent <- TriggeredBy
    Writers = {w1, w2}
    Graders = {g1}
    Scores = {0, 1}
SYMMETRY Symmetry
INVARIANTS TotalsFresh
CHECK_DEADLOCK FALSE
