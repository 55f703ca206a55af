\* One command, submitted over and over, or two commands for one request; another
\* request may come and prune the table.
SPECIFICATION FairSpec
CONSTANTS
    c1 = c1
    c2 = c2
    p1 = p1
    None = None
    Commands = {c1, c2}
    Permissions = {p1, p2}
    Evidence = {p1, p2}
    Fingerprints = {}
    Clients = {k1}
    Asks <- MCAsks
    Scenarios <- MCScenarios
    PerCommand = 1
    Global = 1
    MaxFallbacks = 1
    MaxTries = 3
    MaxFaults = 1
    MaxDrops = 1
CHECK_DEADLOCK FALSE
INVARIANTS
    AgentHearsDecision
    AnswersInv
PROPERTIES
    KeepsPromise
    EveryExecutionAnswered
