SPECIFICATION FairSpec
CONSTANTS
  Inv = {i1, i2}
  Drain = {d1, d2}
  Concurrency = 1
  MaxStops = 2
  MaxFailures = 1
  None = None
INVARIANTS DrainDiscipline NoLostWake StopQuiesces
PROPERTIES EventuallyRuns
