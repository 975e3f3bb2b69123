SPECIFICATION Spec
CONSTANTS
  s1 = s1
  s2 = s2
  s3 = s3
  None = None
  Server <- Servers3
  Command = {x}
  MaxTerm = 1
  MaxLog <- Log2
  MaxRestarts = 0
  MaxSent <- Calls8
  Candidates <- OnlyOne
  SnapshotAt = {1}
CHECK_DEADLOCK FALSE
PROPERTY NoServiceRollback
