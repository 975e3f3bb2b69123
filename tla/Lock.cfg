SPECIFICATION ClerkAndLockSpec
CONSTANTS
  c1 = c1
  c2 = c2
  None = None
  Client <- Clients
  Value <- Clients
  MaxPuts <- TwoOne
  MaxRounds <- OneEach
CHECK_DEADLOCK FALSE
INVARIANTS LockTypeOK MutualExclusion NoFatal PutContract PerformedOnce
PROPERTY LockProgress
