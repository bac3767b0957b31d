SPECIFICATION SSpec
CONSTANTS
  Conns = {c1, c2, c3, c4}
  NoConn = NoConn
  MaxPlayers = 1
  Outdated = {c1}
  MaxEvents = 0
CHECK_DEADLOCK FALSE
PROPERTY OnlyDeadRemoved
