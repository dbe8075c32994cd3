SPECIFICATION PromiseSpec
CONSTANTS
  Args = {a1, a2}
  DefaultArgs = a1
  Iface = {wifi}
  Settings = {s1}
  DefaultSettings = s1
  Conn = {c1, c2}
  NONE = NONE
  MaxBytes = 0
INVARIANT StaysBlockedUntilChanged
