SPECIFICATION FairSpec
CONSTANTS
  None = None
  Networks = {n1}
  Secure = {}
  Conns = {c1, c2}
  ReconnectAttempts = 1
  MaxQueue = 1
  Features = {"reconnectError", "cmdReconnect"}
  Sends = {"welcome", "error"}
INVARIANTS RetriesBounded
PROPERTIES FailureNoticed
CHECK_DEADLOCK FALSE
