SPECIFICATION Spec
CONSTANTS
  Machine = {m1, m2}
  Socket = {w1, w2, w3}
  Request = {r1, r2}
  Channel = {c1}
  MAX_PENDING_REQUESTS_PER_TUNNEL = 1
  MaxCrashes = 1
  None = None
SYMMETRY Interchangeable
INVARIANT NoDangling
INVARIANT NoGhostEntry
PROPERTY OnlyReplaced
VIEW Relevant
PROPERTY KeepsReach
CHECK_DEADLOCK FALSE
