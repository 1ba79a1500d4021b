CONSTANTS
  server = server
  cli1 = cli1
  cli2 = cli2
  NoOne = NoOne
  Engines = {server, cli1, cli2}
  Servers = {server}
  N = 1
  SeqNo <- OneStage
  Gates = {}
  Commands = {"run", "mark"}
  Failing = {"crash", "mark", "reload"}
  MaxFaults = 1
SPECIFICATION Spec
INVARIANT NotWedged
INVARIANT ResultIsMine
SYMMETRY Alike
