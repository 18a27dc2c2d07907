CONSTANTS
  t1 = t1  t2 = t2  b1 = b1  p1 = p1  p2 = p2  c1 = c1  c2 = c2
  Thread = {t1, t2}
  Bud = {b1}
  BudOf <- OneBud
  Slot = {p1, p2}
  Worker = {p1, p2}
  WorkerOf <- OwnProcess
  Call = {c1}
  Kinds = {"review"}
  Origins = {"automation"}
  Deadlines = {"none"}
  Delays = {}
  Browsers = {}
  Deletable = {}
  Cap = 1
  MaxInv = 2
  MaxAttempt = 2
SPECIFICATION Spec
SYMMETRY Processes
INVARIANT CapacityHeld
CHECK_DEADLOCK FALSE
