SPECIFICATION FairSpec
CONSTANTS
  p1 = p1
  c1 = c1
  Call = {p1, c1}
  Peer = {p1}
  MaxStarts = 3
CHECK_DEADLOCK FALSE
INVARIANTS AckedIsDurable NoStrayReply
PROPERTY CallReturns
