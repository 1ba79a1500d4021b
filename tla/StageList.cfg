CONSTANTS
  First <- PairAndGap
  Letters = {1, 2}
  MaxNumber = 4
  MaxInserts = 1
  Failing = {"exec", "io", "reload", "crash", "removal"}
  MaxFailures = 1
SPECIFICATION ListFairSpec
INVARIANT ListIsDisk
PROPERTY RunsInOrder
PROPERTY Settles
