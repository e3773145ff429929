SPECIFICATION Spec
CONSTANTS
  Capacity = 4
  Frame = {"message", "state"}
  None = None
  MaxSeq = 12
INVARIANT ReplayIsExact
INVARIANT PagesAreExact
PROPERTY ImplementsLog
CHECK_DEADLOCK FALSE
