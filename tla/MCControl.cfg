CONSTANTS
  MaxConn = 2
  MaxLosses = 1
  MaxEvents = 2
SPECIFICATION LinkFairSpec
INVARIANTS LinkInvariant PresenceHonest MeaningKept PrivacyAgreed StopHolds
PROPERTIES SessionReturns
CHECK_DEADLOCK FALSE
