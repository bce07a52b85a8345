SPECIFICATION Spec
CONSTANTS
  None = None
  Networks = {n1, n2}
  Secure = {n2}
  Conns = {c1, c2}
  ReconnectAttempts = 1
  MaxQueue = 1
  Features = {}
  Sends = {"line", "welcome"}
INVARIANTS BatchCurrent NoMissingNetwork NoOrphan
SYMMETRY Symmetry
CHECK_DEADLOCK FALSE
