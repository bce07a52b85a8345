SPECIFICATION Spec
CONSTANTS
  Networks <- MCNetworks
  Targets <- MCTargets
  Channels = {"#chan"}
  Names = 1
  Filters = {"imponly"}
  MaxEvents = 4
  MaxLines = 2
  MaxSplits = 1
INVARIANTS WindowsSound ActivityShown JumpReturns FocusRestored
PROPERTIES ViewKept
CHECK_DEADLOCK FALSE
