CONSTANTS
  Idle = Idle
  t1 = t1
  t2 = t2
  t3 = t3
  Thread <- MCThread
  Prio <- MCPrio
SPECIFICATION SchedSpec
INVARIANTS ReadyListAgrees TicksBounded
PROPERTIES SwitchHasSlice ReadyThreadRuns
