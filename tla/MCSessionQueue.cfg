SPECIFICATION Spec
CONSTANTS
  Prompt = {m1, m2}
  Conversation = {c1, c2}
  None = None
  MaxQueued = 2
  MaxPauses = 3
  MaxOpens = 2
  MaxRestarts = 1
  MaxDiskFull = 1
SYMMETRY Interchangeable
VIEW Relevant
INVARIANT NothingLost
INVARIANT InFlightIsHeld
INVARIANT OnlyWhatWasAsked
INVARIANT RightConversation
INVARIANT CompletionIsTold
PROPERTY InOrder
CHECK_DEADLOCK FALSE
