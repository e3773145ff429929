SPECIFICATION Spec
CONSTANTS
  Prompt = {m1, m2}
  Conversation = {c1}
  None = None
  MaxQueued = 2
  MaxPauses = 3
  MaxOpens = 1
  MaxRestarts = 0
  MaxDiskFull = 0
SYMMETRY Interchangeable
INVARIANT NotOrphaned
CHECK_DEADLOCK FALSE
