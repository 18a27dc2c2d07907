CONSTANTS
  t1 = t1  t2 = t2  b1 = b1  p1 = p1  p2 = p2  c1 = c1  c2 = c2
  Thread = {t1}
  Bud = {b1}
  BudOf <- OneBud
  Slot = {p1, p2}
  Worker = {p1}
  WorkerOf <- SameProcess
  Call = {c1, c2}
  Kinds = {"tool", "review", "handoff"}
  Origins = {"human", "automation"}
  Deadlines = {"ahead"}
  Delays = {"waiting_for_model", "retry_wait"}
  Browsers = {t1}
  Deletable = {t1}
  Cap = 1
  MaxInv = 1
  MaxAttempt = 3
SPECIFICATION Spec
CHECK_DEADLOCK FALSE
INVARIANTS DispatchedOnce ReservationFollowsWait ResumedByDecision ExpiredNeverRan
