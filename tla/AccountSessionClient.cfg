SPECIFICATION Spec
CONSTANTS
  Account = {a1, a2}
  Key = {k1, k2}
  Client = {c1, c2}
  NONE = NONE
INVARIANT ClientIsCurrent
