CONSTANTS
  TurnCount = 2
  SlotCount = 2
  MaxSteps = 1
  MaxTroubles = 2
SPECIFICATION TurnSpec
INVARIANT StopsOnlyItsTurn
CHECK_DEADLOCK FALSE
