SPECIFICATION Spec
CONSTANTS
  s1 = s1
  s2 = s2
  s3 = s3
  None = None
  Server <- Servers3
  Command = {x}
  MaxTerm = 1
  MaxLog <- NoLog
  MaxRestarts = 0
  MaxSent <- Calls4
  Candidates <- Anybody
  SnapshotAt = {}
CHECK_DEADLOCK FALSE
INVARIANT ElectionSafety
