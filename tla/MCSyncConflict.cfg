SPECIFICATION FirstSpec
CONSTANTS
  laptop = laptop omen = omen c1 = c1 c2 = c2 c3 = c3
  PC = {laptop, omen}
  Checkpoint = {c1, c2}
  Account = account
  Conversation = conversation
  LEASE_SECONDS = 1
  MaxFence = 2
  MaxFaults = 1
  None = None
SYMMETRY Interchangeable
INVARIANT ConflictNeedsAnotherPC
CHECK_DEADLOCK FALSE
