SPECIFICATION Spec
CONSTANTS
  Nicks = {n1, n2}
  Channels = {c1, c2}
  Accounts = {a1, a2}
  ChanservChannels = {c1}
  Queries = {"who", "bans"}
  Moderations = {"ban", "unban", "kick"}
  MaxPending = 1
  MaxCommands = 1
INVARIANTS ChannelsMirrored AccountsCurrent LoggedOnSharesChannel BansMirrored ModerationSent
SYMMETRY Symmetry
CHECK_DEADLOCK FALSE
