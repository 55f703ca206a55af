SPECIFICATION Spec
CONSTANTS
    c1 = c1
    c2 = c2
    fp1 = fp1
    fp2 = fp2
    ev1 = ev1
    None = None
    Commands <- OneCommand
    Fingerprints <- MCFingerprints
    Evidence <- MCEvidence
    MaxAttempts = 2
CHECK_DEADLOCK FALSE
INVARIANTS
    RecordsAreSound
    ConvergedBeforeServing
PROPERTIES
    OutcomeStands
    BarrierFailsClosed
