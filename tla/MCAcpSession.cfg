SPECIFICATION FairSpec
CONSTANTS
  Tool = {t1, t2}
  Form = {f}
  Questions = 2
  MaxPrompts = 2
  MaxRequests = 3
INVARIANT FirstAnswerWins
INVARIANT PublishedIsTrue
INVARIANT NothingOutlivesTheTurn
PROPERTY DeathSettlesAll
PROPERTY DeathIsFinal
CHECK_DEADLOCK FALSE
