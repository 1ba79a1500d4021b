CONSTANTS
  server = server
  mcp = mcp
  spec = spec
  impl = impl
  Absent = Absent
  NoName = NoName
  Procs = {server, mcp}
  Stages = {spec, impl}
  Commands <- Asked
  MaxMade = 2
  Max = 1
  PerSecond = 2
  MaxClock = 1
  MaxFaults = 1
SPECIFICATION Spec
INVARIANTS NewestKept NoTornResult StageSurvives
CHECK_DEADLOCK FALSE
SYMMETRY Alike
