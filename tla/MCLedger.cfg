SPECIFICATION LedgerSpec
CONSTANTS
  Tx = {1, 2}
  Nothing = Nothing
  InitialSlot = 2
  FinalizationThreshold = 2
  MaxRecent = 3
  MaxSlotHashes = 3
  RemoteBlocks <- MCRemotes
  RemoteHistory <- MCHistory
  RemotePage = 1
  Limits = {1, 2}
  MaxSlot = 5
  MaxUpsets = 2
INVARIANTS
  BlockhashesFollowChain
  PagesCoverHistory
CHECK_DEADLOCK FALSE
