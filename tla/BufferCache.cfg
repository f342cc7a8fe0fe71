CONSTANTS
  p1 = p1
  p2 = p2
  Proc = {p1, p2}
  Sync = sync
  KThread <- MCKThread
  Bh = {h1, h2, h3}
  NSec = 3
  SECTORS_PER_OP_BLOCK = 2
  Setups <- MCSetups
  None = None
SPECIFICATION CacheSpec
INVARIANTS OwnInterrupt HeadsAlive Coherent
PROPERTY WrittenBack
