CONSTANTS
  Ensurers = {e1}
  RingCap = 2
  ReadMax = 2
  ChunkMax = 2
  SoftCap = 4
  MaxBytes = 3
  MaxTurns = 2
  MaxOut = 2
  BufferLimit = 2
  MaxUpsets = 1
  MaxCommands = 2
  EventCap = 1
  MaxToolUpsets = 1
  MaxCalls = 1
SPECIFICATION TerminalFairSpec
CHECK_DEADLOCK FALSE
INVARIANTS TerminalInvariant AccountedFor ViewExact
PROPERTIES CatchesUp
