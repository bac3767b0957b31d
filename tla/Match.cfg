SPECIFICATION HFairSpec
CONSTANTS
  PlayerIds = {p1, p2}
  NoPlayer = NoPlayer
  Stages = {1}
  LobbyStage = 1
  SpawnlessStages = {}
  NoVote = NoVote
  SelectTicks = 1
  StartTicks = 2
  RoundTicks = 1
  GameTicks = 1
  Rounds = 2
  Buttons = {"shoot", "ready"}
  InputsMayBeLost = FALSE
INVARIANTS TypeOK FullScoreEndsGame OneWinner PendingIsEarned FreshReady RematchStartsAlive
PROPERTIES ImplementsContract LoneSurvivorReachesLobby
