SPECIFICATION Spec
CONSTANTS
  PlayerIds = {p1, p2, p3}
  NoPlayer = NoPlayer
  Stages = {1, 2, 3}
  LobbyStage = 1
  SpawnlessStages = {3}
  NoVote = NoVote
  SelectTicks = 2
  StartTicks = 1
  RoundTicks = 1
  GameTicks = 1
  Rounds = 1
  Buttons = {"ready"}
  InputsMayBeLost = TRUE
SYMMETRY Symmetry
PROPERTY VoteDecides
CHECK_DEADLOCK FALSE
