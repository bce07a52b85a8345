SPECIFICATION Spec
CONSTANTS
  None = None
  Networks = {n1}
  Secure = {}
  Conns = {c1, c2}
  ReconnectAttempts = 0
  MaxQueue = 2
  Features = {"sts", "cmdDisconnect", "cmdReconnect"}
  Sends = {"welcome", "sts"}
INVARIANTS TlsSessionPure
SYMMETRY Symmetry
CHECK_DEADLOCK FALSE
