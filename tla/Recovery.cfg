SPECIFICATION Spec
CONSTANTS
  p1 = p1  p2 = p2  t1 = t1  t2 = t2
  Processes <- TwoProcesses
  Records <- TwoRecords
  Nobody <- None
  BatchLimit = 1
  MaxKeys = 2
  MaxTrouble = 2
SYMMETRY Symmetric
INVARIANTS
  RestoredIsHeld
  ResumeLasts
  KeysAgree
