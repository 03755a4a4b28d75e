SPECIFICATION Spec
CONSTANTS
  Tx = {t1}
  InitialSlot = 2
  FinalizationThreshold = 2
  CheckpointInterval = 2
  SlotTimes = {1}
  WallTimes = {0, 4}
  RemoteBlocks <- MCNoRemote
  TravelForms = {"absoluteTimestamp", "absoluteSlotAt"}
  MaxSlot = 6
  Headroom = 2
  MaxTravels = 2
  MaxResets = 1
  MaxStops = 2
  MaxLandingFailures = 1
  MaxBlockFailures = 0
INVARIANTS
  RebuiltAsStreamed
  RestartKeepsHeights
  TransactionsFollowBlocks
  RootsFollowChain
CHECK_DEADLOCK FALSE
