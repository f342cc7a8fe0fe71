CONSTANTS
  Idle = Idle
  k1 = k1
  p1 = p1
  p2 = p2
  l1 = l1
  s1 = s1
  None = None
  Thread <- MCThread
  Prio <- MCPrio
  KThread <- MCKThread
  Lock <- MCLock
  CSema <- MCCSema
  SEMA_MOD = 3
  MaxRepeat = 2
SPECIFICATION SyncSpec
INVARIANTS MutualExclusion NoLostWakeup
PROPERTIES SchedSafety
