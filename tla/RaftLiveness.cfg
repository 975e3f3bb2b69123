SPECIFICATION FairSpecDeposed
CONSTANTS
  s1 = s1
  s2 = s2
  s3 = s3
  None = None
  Server <- Servers3
  Command = {x}
  MaxTerm = 4
  MaxLog <- Log0003
  MaxRestarts = 0
  MaxSent <- Calls000n
  Candidates <- InTurn
  SnapshotAt = {2}
CHECK_DEADLOCK FALSE
PROPERTY ReplicationCompletes
