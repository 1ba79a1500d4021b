CONSTANTS
  t1 = t1
  t2 = t2
  p1 = p1
  p2 = p2
  x = x
  y = y
  Tasks = {t1, t2}
  ProcOf <- TaskProc
  PidOf <- Pid
  Contents = {x, y}
  Ops = {"put", "get", "stream", "list", "delete"}
  Chunks = 2
  MaxPuts = 2
  Failing = {"io", "crash", "rot"}
  MaxFaults = 1
  None = None
SPECIFICATION Spec
INVARIANT AckedStored
PROPERTY StreamHonest
PROPERTY ListComplete
SYMMETRY Alike
