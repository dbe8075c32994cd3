SPECIFICATION FairSpec
CONSTANTS
  Args = {a1}
  DefaultArgs = a1
  Iface = {wifi}
  Settings = {s1}
  DefaultSettings = s1
  Conn = {c1, c2}
  NONE = NONE
  MaxBytes = 0
PROPERTIES Settles DeadTunnelIsDropped
