SPECIFICATION SFairSpec
CONSTANTS
  Conns = {c1, c2, c3}
  NoConn = NoConn
  MaxPlayers = 1
  Outdated = {c2}
  MaxEvents = 1
CHECK_DEADLOCK FALSE
INVARIANTS IdsNeverDoubled IdsAccounted NoGhosts ReferencesEnd
PROPERTIES PlayersStay DeadAreRemoved
