SPECIFICATION FairSpec
CONSTANTS
  Client = {c1, c2}
  Tx = {t1}
  None = None
  FinalizationThreshold = 3
  Modes = {"clock", "transaction"}
  ClockCommands = {"pause", "toggle"}
  MaxRequests = 2
  MaxCommands = 2
  MaxResets = 1
INVARIANTS
  PendingCountsSends
  RunsOnce
  OkMeansProcessed
  
PROPERTIES
  EveryRequestAnswered
  
CHECK_DEADLOCK FALSE
