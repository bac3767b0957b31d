SPECIFICATION Spec
CONSTANTS
  N = 6
  Initial = 3
  MaxTick = 8
  MaxStages = 1
  Distance = 3
  InputInfos = 2
  Timer = 2
  Lag = 2
  Login = 4
  Drift = 0
  MaxFrame = 2
  MaxFlight = 3
  MaxMishaps = 2
INVARIANTS AtMostOneAhead NoGaps SnapshotsAreRecent StageSticks FreezeHeals AtMostTwoAhead
CHECK_DEADLOCK FALSE
