SPECIFICATION Spec
CONSTANTS
  Tiles <- MCTiles
  Bounds <- MCBounds
  Spawns <- MCSpawns
  Inputs <- MCInputs
  Samples <- MCSamples
  Players = {1, 2}
  Me = 1
  Distance = 1
  InputInfos = 2
  Timer = 2
  MaxTick = 7
  MaxLost = 1
  WrapX = TRUE
  VoidY = TRUE
  Size = 4
  Speed = 2
  Gravity = 1
  Jump = 2
  Pad = 5
  Caliber = 2
  Margin = 0
  Muzzle = 1
  BulletSpeed = 4
  Cooldown = 3
INVARIANTS ReadAsWritten SnapshotsCorrect GhostsVanish
CHECK_DEADLOCK FALSE
