SPECIFICATION SpecHistories
CONSTANTS
  s1 = s1
  s2 = s2
  s3 = s3
  None = None
  Server <- Servers3
  Command = {x}
  MaxTerm = 5
  MaxLog <- Log22444
  MaxRestarts = 0
  MaxSent <- Calls04030
  Candidates <- TwoHistories
  SnapshotAt = {1}
CHECK_DEADLOCK FALSE
INVARIANTS TypeOK NoPanic MatchIndexIsReplicated LogMatching LeaderCompleteness
PROPERTIES LeaderAppendOnly CommitMonotone
