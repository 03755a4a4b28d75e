SPECIFICATION ProgramsSpec
CONSTANTS
  p1 = p1
  p2 = p2
  i1 = i1
  i2 = i2
  noop = noop
  c1 = c1
  c2 = c2
  None = None
  System = System
  AnyCode = AnyCode
  Zero = Zero
  key = key
  Program = {p1, p2}
  Image = {i1, i2, noop}
  Size <- MCSize
  Noop = noop
  Authority = {key}
  Caller = {c1, c2}
  Remote <- MCRemote
  Snapshots <- MCSnapshots
  Deployed = {i1}
  MaxCalls = 3
  MaxUpsets = 1
SYMMETRY MCSymmetry
INVARIANTS
  RunsWhatIsStored
  ToldRuns
CHECK_DEADLOCK FALSE
