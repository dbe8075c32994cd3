SPECIFICATION Spec
CONSTANTS
  Account = {a}
  None = None
  Unset = Unset
  Empty = Empty
  Absent = Absent
  Broken = Broken
  Nothing = Nothing
  MaxUnflushed = 1
  MaxAttempts = 1
  MaxStatusChanges = 2
  Caller = {c1, c2}
  User = {u1, u2}
  MaxServed = 3
  p1 = p1
  p2 = p2
  Conn = {p1, p2}
  Accesses <- PeerAccesses
  MaxStarts = 2
  Bundle = {b1, b2}
  MaxMishaps = 2
INVARIANTS ConfigIsDurable StatusIsCurrent CachesAreRight
PROPERTIES EveryCallIsAnswered EveryBundleIsFinished
CHECK_DEADLOCK FALSE
