CONSTANTS
  p1 = p1
  p2 = p2
  t1 = t1
  t2 = t2
  t3 = t3
  NoFile = NoFile
  NoProc = NoProc
  Procs <- TwoProcs
  Tasks = {t1, t2, t3}
  Home <- HomeShared
  Mortal = {p1}
  Askers = {t3}
  MaxFaults = 3
SPECIFICATION FairSpec
INVARIANT MutexUnlessRobbed
INVARIANT NoLeftover
PROPERTY Promise
PROPERTY NeverWedged
