SPECIFICATION FairSpec
CONSTANTS
  Tx = {t1}
  InitialSlot = 2
  FinalizationThreshold = 2
  CheckpointInterval = 2
  SlotTimes = {1, 2}
  WallTimes = {0}
  RemoteBlocks <- MCRemotes
  TravelForms = {"absoluteSlot"}
  MaxSlot = 6
  Headroom = 2
  MaxTravels = 1
  MaxResets = 0
  MaxStops = 2
  MaxLandingFailures = 0
  MaxBlockFailures = 1
INVARIANTS
  StoredBlocksAreFinal
PROPERTIES
  ProcessedLeadsToFinalized
CHECK_DEADLOCK FALSE
