\* Threads are polled for and reaped by their creator.
CONSTANTS
  Pid = {1, 2, 3, 4}
  m1 = m1
  m2 = m2
  m3 = m3
  m4 = m4
  None = None
  Mm <- MCMm
  Calls = {"clone"}
  Tidy = TRUE
SPECIFICATION ProcSpec
CHECK_DEADLOCK FALSE
INVARIANTS ZombieIsKnown 
PROPERTIES ZombieIsReaped
