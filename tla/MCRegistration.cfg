SPECIFICATION FairSpec
CONSTANTS
  Mechanisms = {"none", "plain", "external", "ecdsa", "scram", "ecdh"}
  Nicks = 2
  Extra = {}
  Habits = {}
  MaxRefused = 1
  MaxChanges = 2
INVARIANTS LoginSettled
PROPERTIES NegotiationEnds
CHECK_DEADLOCK FALSE
