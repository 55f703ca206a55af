\* Prompts and cancels, resubmitted, over failing writes and a lost connection; and
\* more of them than the queue has places.
SPECIFICATION FairSpec
CONSTANTS
    p1 = p1
    p2 = p2
    c1 = c1
    c2 = c2
    None = None
    Prompts = {p1, p2}
    Cancels = {c1, c2}
    Fingerprints = {f1}
    Evidence = {}
    Stops = {"completed", "error"}
    MaxTries = 2
    Plans <- MCPlans
CHECK_DEADLOCK FALSE
INVARIANTS
    AnswersAreTrue
    OneTurnAtATime
    QueueInv
PROPERTIES
    KeepsPromise
    TurnsEnd
    NobodyWaits
    ServedInOrder
