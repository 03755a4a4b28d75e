SPECIFICATION Spec
CONSTANTS
  sent = sent
  bundled = bundled
  foreign = foreign
  None = None
  Tx = {sent, bundled, foreign}
  Sub = {1, 2}
  Wanted <- MCWanted
  Bundled = {bundled}
  RemoteTx = {foreign}
  HasRemote = TRUE
  InitialSlot = 1
  FinalizationThreshold = 2
  MaxSlot = 5
  Headroom = 2
  MaxUpsets = 1
INVARIANTS
  NobodyWaitsForThePast
  LogsMatchBlocks
PROPERTIES
  SentWhenReached
  EverySubscriberTold
CHECK_DEADLOCK FALSE
