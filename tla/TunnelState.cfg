SPECIFICATION Spec
CONSTANTS
  Args = {a1, a2}
  DefaultArgs = a1
  Iface = {wifi, lte}
  Settings = {s1, s2}
  DefaultSettings = s1
  Conn = {c1, c2}
  NONE = NONE
  MaxBytes = 1
SYMMETRY Interchangeable
INVARIANTS TypeOK TaskInvariant ForwardingIsConfigured NoTrafficAroundTunnel StatsAreExact
PROPERTIES ImplementsSession RotatesOnlyWhenLeaving
