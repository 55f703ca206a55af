\* A question that is answered and sent again.
SPECIFICATION Spec
CONSTANTS
    None = None
    Commands = {c1, c2}
    Requests = {r1}
    Evidence = {r1}
    Fingerprints = {}
    c1 = c1
    c2 = c2
    r1 = r1
    Asks <- MCAsks
    Plans <- MCPlans
    MaxPending = 2
    MaxTries = 2
    MaxFaults = 1
    MaxDrops = 1
    MaxReplays = 1
CHECK_DEADLOCK FALSE
INVARIANT CommittedIsDuplicate
