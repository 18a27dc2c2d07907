SPECIFICATION FairSpec
CONSTANTS
  Timer = {t1, t2, t3, t4}
  MaxCalls = 2
  MaxErrors = 1
  None = None
CHECK_DEADLOCK FALSE
INVARIANTS HeartbeatKept
PROPERTIES LossNoticed
