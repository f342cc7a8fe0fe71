CONSTANTS
  BLOCK = 3
  ROOT = 2
  Ino <- MCIno
  Part <- MCPart
  MAX_CACHE = 3
  MAX_LINKS = 2
  UMAX = 1000
  NoInode = NoInode
  Proc = {"p", "q"}
  NFILES = 2
  NFDS = 2
  Formatted = {1, 2}
  Careless = {}
  Setups <- MCSetups
SPECIFICATION Spec
INVARIANTS
  LinksCounted
  DirectoryTree
  
  
  
  CwdLeadsBack
CHECK_DEADLOCK FALSE
