SPECIFICATION Spec
CONSTANTS
  prog = prog
  pdata = pdata
  acct = acct
  mint = mint
  loader = loader
  tokens = tokens
  h1 = h1
  h2 = h2
  None = None
  NoKey = NoKey
  NoToken = NoToken
  Pubkeys = {prog, pdata, acct, mint}
  Values <- MCValues
  TokenPrograms = {tokens}
  ProgramData <- MCProgramData
  Synthetic <- MCSynthetic
  Loadable <- MCLoadable
  Remote <- MCRemote
  Readers = {r1}
  Requests <- MCRequests
  TxKeys = {{acct}}
  Marked = {prog, acct}
  MaxWrites = 2
  MaxReads = 1
  MaxCommands = 2
INVARIANTS
  IndexesFollowAccounts
  DatabaseHoldsAccounts
PROPERTIES
  FetchKeepsLocal
  MarkedStaysAway
