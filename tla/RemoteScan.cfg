CONSTANTS
  Dirs = {1, 2, 3, 4}
  Root = 1
  Kids <- BinaryTree
  Repos = {r1, r2}
  Failing = {2, 4}
  FastModes = {TRUE, FALSE}
  CacheModes = {TRUE, FALSE}
  Workers = {w1, w2, w3}
  MaxScans = 2
  MaxSwitches = 1
  None = none
SPECIFICATION FairSpec
INVARIANTS TypeOK ScanComplete FinalProgress FastTreesDoNotMix
PROPERTY ScanEnds
CHECK_DEADLOCK FALSE
