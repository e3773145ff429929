SPECIFICATION Spec
CONSTANTS
  h1 = h1 h2 = h2
  Owner = {o1}
  Device = {d1, d2}
  Stream = {s1, s2}
  Checkpoint = {c1, c2}
  Digest = {h1, h2}
  Upload = {u1, u2}
  Bytes <- MCBytes
  Manifest <- MCManifests
  LEASE_SECONDS = 2
  MAX_ACCOUNT_BYTES = 4
  MaxFence = 2
  None = None
CHECK_DEADLOCK FALSE
INVARIANT LinearHistory
INVARIANT NoLateWriter
INVARIANT PublishedIsStored
INVARIANT QuotaExact
PROPERTY AppendOnly LostStaysLost
