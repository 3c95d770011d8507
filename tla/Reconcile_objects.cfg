SPECIFICATION FairSpec
CONSTANTS
  None = None
  Empty = Empty
  A = A
  B = B
  n1 = n1
  n2 = n2
  p1 = p1
  c1 = c1
  h1 = h1
  gold = gold
  silver = silver
  Specs <- AllSpecs
  FirstSpec <- HighlyAvailable
  MaxChanges = 2
  MaxFaults = 1
INVARIANTS TypeOK ReadyMeansReconciled StorageIsExclusive
PROPERTIES NothingBuiltForTheDead Converges DeletionCompletes HAMasterComesUp DefaultGoalIsDefined
CHECK_DEADLOCK FALSE
