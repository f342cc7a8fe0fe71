CONSTANTS
  p1 = p1
  p2 = p2
  None = None
  Root = p1
  Proc <- MCProc
  Fd = {0, 1, 2}
  GFile = {10, 11}
  Kinds = {"PIPE", "FIFO"}
  BUFSIZE = 3
  COUNT_MOD = 16
  Counts = {1, 3}
  Modes = {"RDONLY", "WRONLY"}
  Calls <- MCCalls
  MaxBytes = 3
SPECIFICATION PipeSpec
CHECK_DEADLOCK FALSE
INVARIANTS CountsAgree SleepersHaveReason
PROPERTIES PipeIsChannel SleepingReaderWakes
