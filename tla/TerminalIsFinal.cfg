CONSTANTS
  t1 = t1  t2 = t2  b1 = b1  p1 = p1  p2 = p2  c1 = c1  c2 = c2
  Thread = {t1}
  Bud = {b1}
  BudOf <- OneBud
  Slot = {p1}
  Worker = {p1}
  WorkerOf <- SameProcess
  Call = {c1}
  Kinds = {"question"}
  Origins = {"human"}
  Deadlines = {"none"}
  Delays = {}
  Browsers = {}
  Deletable = {}
  Cap = 1
  MaxInv = 1
  MaxAttempt = 2
SPECIFICATION FairSpec
PROPERTY TerminalIsFinal
CHECK_DEADLOCK FALSE
