SPECIFICATION ASpec
CONSTANTS
  Tiles <- MCCornerTiles
  Bounds <- MCBounds
  Spawns <- MCSpawns
  ArenaInputs <- MCInputs
  ArenaPlayers = {1}
  WrapX = FALSE
  VoidY = TRUE
  Size = 16
  Speed = 4
  Gravity = 1
  Jump = 4
  Pad = 5
  Caliber = 4
  Margin = 0
  Muzzle = 1
  BulletSpeed = 4
  Cooldown = 4
INVARIANT CannotPass
CHECK_DEADLOCK FALSE
