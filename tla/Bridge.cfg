CONSTANTS
  c1 = c1
  c2 = c2
  p1 = p1
  sub = sub
  None = None
  Torn = Torn
  Senders = {c1}
  Pollers = {p1}
  Bridge = sub
  Workflows <- Plain
  StageNames <- TwoStages
  Routes <- Forwards
  Ring = 1
  Fwd = 2
  MaxPrompts = 3
  Failures = {"io", "stop"}
  MaxFailures = 1
SPECIFICATION BridgeFairSpec
INVARIANT StaysInInput
PROPERTY NeverOlder
PROPERTY Arrives
