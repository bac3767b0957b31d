SPECIFICATION FSpec
CONSTANTS
  PlayerIds = {1, 2}
  Rounds = 2
  Me = 1
  NoPlayer = 0
  Maps = 2
  SelectTicks = 1
  Grace = 6
  StartTicks = 2
  RoundTicks = 2
  GameTicks = 1
  Lag = 1
  MaxLag = 3
  Transit = 1
INVARIANT FollowsServer
PROPERTIES VoteCounts LoginAnswered RoundIsPlayed
CHECK_DEADLOCK FALSE
