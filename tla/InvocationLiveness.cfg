CONSTANTS
  t1 = t1  t2 = t2  b1 = b1  p1 = p1  p2 = p2  c1 = c1  c2 = c2
  Thread = {t1}
  Bud = {b1}
  BudOf <- OneBud
  Slot = {p1, p2}
  Worker = {p1, p2}
  WorkerOf <- OwnProcess
  Call = {c1}
  Kinds = {"question", "handoff"}
  Origins = {"human"}
  Deadlines = {"none", "ahead"}
  Delays = {"waiting_for_model"}
  Browsers = {t1}
  Deletable = {t1}
  Cap = 1
  MaxInv = 1
  MaxAttempt = 2
SPECIFICATION FairSpec
PROPERTIES CancelSettles AnsweredResumes ClosedWorkspaceEnds
CHECK_DEADLOCK FALSE
