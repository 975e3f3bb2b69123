SPECIFICATION FairSpec
CONSTANTS
  w1 = w1
  w2 = w2
  w3 = w3
  a = a
  b = b
  Worker = {w1, w2, w3}
  Prompt = {w1}
  NFiles = 2
  NReduce = 2
  Emits <- Words
  IHash <- Hash
CHECK_DEADLOCK FALSE
INVARIANT OutputIsSequential
PROPERTY JobFinishes
