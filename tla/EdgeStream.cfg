CONSTANTS
  Requests <- MCRequests
  MaxFaults = 1
  InitCredit = 1
  HighWater = 1
SPECIFICATION StreamFairSpec
CHECK_DEADLOCK FALSE
INVARIANTS StreamInvariant NeverRefused
PROPERTIES Answered RefinesChannel
