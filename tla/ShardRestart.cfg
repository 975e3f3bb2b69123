SPECIFICATION RestartSpec
CONSTANTS
  k1 = k1
  k2 = k2
  c1 = c1
  NShards = 2
  Gid <- Groups
  Controller = {k1, k2}
  Client = {c1}
  KeyShard = 0
  Stoppable = {k1}
  MaxNum = 3
  Requests <- PutGet
CHECK_DEADLOCK FALSE
INVARIANT OneOwner
