SPECIFICATION FairSpec
CONSTANTS
  None = None
  Empty = Empty
  A = A
  B = B
  n1 = n1
  n2 = n2
  p1 = p1
  c1 = c1
  h1 = h1
  gold = gold
  silver = silver
  Specs <- OnlySingle
  FirstSpec <- Single
  MaxChanges = 0
  MaxFaults = 0
PROPERTY SingleMasterComesUp
CHECK_DEADLOCK FALSE
