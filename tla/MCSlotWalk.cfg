SPECIFICATION Spec
CONSTANTS
  GenesisSlot = 2
  MaxSlot = 10
INVARIANTS
  WalksCorrect
CHECK_DEADLOCK FALSE
