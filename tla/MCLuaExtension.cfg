SPECIFICATION FairSpec
CONSTANTS
  Null = Null
  Data = {d1, d2}
  Sessions = {s1, s2, s3}
  MaxScripts = 2
  MaxEvents = 3
  MaxId = 3
  Habits = {}
INVARIANTS CallbackAlive RegistrationsHeld InterpretersOwned
PROPERTIES DelayedStop CallbackSettled
CHECK_DEADLOCK FALSE
