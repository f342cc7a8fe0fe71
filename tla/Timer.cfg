\* The counter wraps round, sleeps reach past its end, alarms do not.
CONSTANTS
  Idle = Idle
  t1 = t1
  t2 = t2
  Thread <- MCThread
  Prio <- MCPrio
  TICK_MOD = 4
  MS_PER_INTR = 1
  IRQ0_FREQUENCY = 1
  MilSeconds = {0, 1, 2}
  Seconds = {0, 1, 2}
  MaxNow = 4
  MaxAlarm = 3
SPECIFICATION TimerSpec
INVARIANTS DeadlinesKept
PROPERTIES  SleepEnds
