SPECIFICATION Spec
CONSTANTS
  N = 2
  c1 = c1
  c2 = c2
  Client <- Clients
  MaxOps <- OneEach
  MaxCalls <- TwoOne
  MaxTerm = 2
  MaxRestarts = 0
  Candidates <- Alternating
  MaxRaftState = 1
  Requests <- GetsAndPuts
CHECK_DEADLOCK FALSE
INVARIANT PutContract
