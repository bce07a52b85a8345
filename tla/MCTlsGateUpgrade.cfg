SPECIFICATION GateFairSpec
CONSTANTS
  Lines = {"notice", "starttls", "other", "malformed"}
  MaxLines = 2
  MaxSend = 0
PROPERTIES UpgradeReturns
CHECK_DEADLOCK FALSE
