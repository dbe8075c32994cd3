SPECIFICATION Spec
CONSTANTS
  Account = {a1, a2}
  Key = {k1, k2, k3}
  Client = {c1, c2}
  NONE = NONE
SYMMETRY Interchangeable
INVARIANTS TypeOK RegisteredKeyIsKnown NoForgottenKey ClientIsCurrentUnlessRaced
