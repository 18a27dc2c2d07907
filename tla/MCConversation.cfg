CONSTANTS
  Targets = {"claude"}
  MaxTurns = 2
  MaxModelCalls = 1
  MaxCuts = 1
  MaxParks = 1
  MaxFolds = 1
  TurnCount = 2
  SlotCount = 2
  MaxSteps = 1
  MaxTroubles = 2
  MaxDeltas = 1
  BufferLimit = 6
  Shapes = {"answer", "tool", "reasoning"}
  MaxEvents = 1
SPECIFICATION ConversationSpec
INVARIANTS ConversationInvariant ReplayValid ControllerReleased NothingSkipped
PROPERTIES StoppedDoesNothing
CHECK_DEADLOCK FALSE
