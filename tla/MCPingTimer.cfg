SPECIFICATION Spec
CONSTANTS
  MaxStall = 2
  Drops = TRUE
  MaxQueue = 3
INVARIANTS SilenceDetected
PROPERTY NoFalseTimeout
CHECK_DEADLOCK FALSE
