SPECIFICATION Spec
CONSTANTS
  market = market
  trader = trader
  token = token
  o1 = o1
  o2 = o2
  o3 = o3
  o4 = o4
  None = None
  Account = {market, trader, token}
  Override = {o1, o2, o3, o4}
  Target <- MCTarget
  Writes <- MCWrites
  FetchBeforeUse = {o2, o4}
  KeptAlive <- MCKeptAlive
  TokenAccounts = {token}
  Scenario <- MCScenario
  OnRemote = {market, token}
  HasRemote = TRUE
  InitialSlot = 1
  MaxSlot = 6
  Headroom = 2
  MaxFailures = 2
  MaxUpsets = 2
  MaxEdits = 1
INVARIANTS
  EveryOverrideAccountedFor
PROPERTIES
  KeepAliveFresh
  WritesSurviveFetches
CHECK_DEADLOCK FALSE
