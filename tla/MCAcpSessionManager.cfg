SPECIFICATION Spec
CONSTANTS
  Session = {s1, s2, s3}
  Workspace = {w1, w2}
  Adapter = {a1, a2, a3}
  MAX_DEAD_RUNTIMES = 1
  MaxRestarts = 1
  None = None
SYMMETRY Interchangeable
INVARIANT OneWriter
INVARIANT StillThere
INVARIANT NoStray
INVARIANT Graveyard
INVARIANT Unbypassed
PROPERTY Undisturbed
CHECK_DEADLOCK FALSE
VIEW Relevant
