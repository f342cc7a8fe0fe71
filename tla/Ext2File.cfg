SPECIFICATION Spec
CONSTANTS
  NDIR = 1
  PNTS = 2
  GROUPS = 2
  BPG = 13
  FIRST = 1
  Meta <- MCMeta
  Word <- MCWord
  Counts <- MCCounts
  Sizes <- MCSizes
  MaxOps = 5
  HoleWrites = FALSE
  PastEnd = FALSE
CHECK_DEADLOCK FALSE
INVARIANTS BlocksAccounted
 
