SPECIFICATION CSpec
CONSTANTS
  N = 3
  Values = {a, b, c}
  Unset = Unset
  MaxPush = 8
CHECK_DEADLOCK FALSE
PROPERTY KeepsLastN
