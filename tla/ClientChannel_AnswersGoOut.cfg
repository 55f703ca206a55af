\* The same instance; a loop waits for room in the queue that it alone empties.
SPECIFICATION FairSpec
CONSTANTS
    None = None
    c1 = c1
    c2 = c2
    d1 = d1
    d2 = d2
    Conns = {c1, c2}
    Docs = {d1, d2}
    Prompts = {p1}
    OutCap = 2
    Soft = 1
    Hard = 2
    PendingLimit = 1
    Budgets <- MCBudgets
CHECK_DEADLOCK FALSE
PROPERTY AnswersGoOut
