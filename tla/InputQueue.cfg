SPECIFICATION QSpec
CONSTANTS
  History = 3
  Capacity = 4
  MaxTick = 7
  MaxFrame = 2
  MaxFlight = 3
CHECK_DEADLOCK FALSE
INVARIANTS QueueInOrder NoInputSkipped
PROPERTY ReplayIsRecent
