CONSTANTS
  w1 = w1
  c1 = c1
  c2 = c2
  x1 = x1
  a1 = a1
  a2 = a2
  a3 = a3
  None = None
  Names = {w1}
  Clients = {c1, c2}
  Actors = {a1, a2, a3}
  Tools = {x1}
  Wants <- Split
  Template = "implement"
  Capacity = 1
  Failing = {"io", "crash", "disconnect"}
  MaxFaults = 1
SPECIFICATION FairSpec
INVARIANT OneActor
INVARIANT AckedKept
PROPERTY NeverDenied
PROPERTY Answered
