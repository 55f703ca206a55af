SPECIFICATION Spec
CONSTANTS
  NoChat = NoChat
  NoSession = NoSession
  Chats = {c1, c2}
  Old = c1
  Sessions = {s1, s2}
  Stored = {s1}
  MaxEvents = 2
  MaxReports = 1
  KillAttempts = 2
CHECK_DEADLOCK FALSE
INVARIANTS
    RegistryInv
    FailedMeansDead
PROPERTIES
    KillsAreDeserved
    BarrierNeedsCurrent
    BarrierOpens
    OrphansDie
