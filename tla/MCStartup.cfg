SPECIFICATION FairSpec
CONSTANTS
  r1 = r1
  r2 = r2
  Runbook = {r1, r2}
  Projects <- MCProjects
  Profiling = TRUE
  EarlyEvents = 1
  EventCapacity = 1
  None = None
INVARIANTS
  ReadyMeansWorkDone
  ExitOkMeansAsked
PROPERTIES
  NothingRefused
  EveryStartupEnds
  NobodyParked
  ProfilingComesBack
CHECK_DEADLOCK FALSE
