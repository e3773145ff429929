SPECIFICATION UnattendedSpec
CONSTANTS
  laptop = laptop omen = omen c1 = c1 c2 = c2 c3 = c3
  PC = {laptop, omen}
  Checkpoint = {c1, c2, c3}
  Account = account
  Conversation = conversation
  LEASE_SECONDS = 1
  MaxFence = 4
  MaxFaults = 1
  None = None
PROPERTY QueueSettles
CHECK_DEADLOCK FALSE
VIEW WithoutHistory
