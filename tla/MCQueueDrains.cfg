SPECIFICATION FairSpec
CONSTANTS
  Prompt = {m1, m2}
  Conversation = {c1}
  None = None
  MaxQueued = 2
  MaxPauses = 3
  MaxOpens = 1
  MaxRestarts = 0
  MaxDiskFull = 0
VIEW Relevant
PROPERTY Drains
CHECK_DEADLOCK FALSE
