SPECIFICATION Spec
CONSTANTS
  s1 = s1
  s2 = s2
  s3 = s3
  None = None
  Server <- Servers2
  Command = {x}
  MaxTerm = 2
  MaxLog <- Log11
  MaxRestarts = 1
  MaxSent <- Calls22
  Candidates <- AnyOfTwo
  SnapshotAt = {1}
CHECK_DEADLOCK FALSE
INVARIANTS DiskInSync LeaderHasQuorum LeaderHintWasElected
           ElectionSafety StateMachineSafety
PROPERTY TermMonotone
