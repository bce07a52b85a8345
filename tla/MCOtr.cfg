SPECIFICATION FairSpec
CONSTANTS
  Keys = {k1}
  NoKey = NoKey
  Mine <- MCMine
  Peers <- MCPeers
  NoNick = NoNick
  TimerIds = {1, 2, 3}
INVARIANTS TimerKept NoClearAfterSecured DeliveredOnce
PROPERTIES KeysWiped TrustKept
CHECK_DEADLOCK FALSE
