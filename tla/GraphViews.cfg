CONSTANTS
  engine = engine
  agent = agent
  q1 = q1
  q2 = q2
  Ids <- MCIds
  Clients <- MCClients
  Asks <- MCAsks
  Queriers <- MCQueriers
  Filters <- MCFilters
  TopK = 1
  MaxTime = 1
  Failing = {"crash", "io", "read", "embed", "corrupt", "model"}
  MaxFaults = 1
  MaxSkips = 1
SPECIFICATION Spec
INVARIANT Chained
INVARIANT SearchComplete
PROPERTY VerdictsAdvance
SYMMETRY Symmetry
