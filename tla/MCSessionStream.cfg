SPECIFICATION FairSpec
CONSTANTS
  Capacity = 2
  PageSize = 1
  MaxReplay = 2
  MaxSeq = 3
  MaxLives = 2
  MaxFaults = 2
  MaxRefresh = 1
  Frame = {"message", "state"}
  None = None
  Reset = Reset
VIEW Used
INVARIANT AttachedIsCurrent
INVARIANT TimelineIsJournal
PROPERTY ShownStays
PROPERTY CatchesUp
CHECK_DEADLOCK FALSE
