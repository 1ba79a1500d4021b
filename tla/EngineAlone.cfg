CONSTANTS
  server = server
  cli1 = cli1
  cli2 = cli2
  NoOne = NoOne
  Engines = {server}
  Servers = {server}
  N = 4
  SeqNo <- ForkGate
  Gates = {3}
  Commands = {"run_next", "answer_gate"}
  Failing = {"crash", "exec", "clean"}
  MaxFaults = 3
SPECIFICATION FairSpec
INVARIANT MemoryCurrent
PROPERTY RunsOnlyPending
PROPERTY Settles
