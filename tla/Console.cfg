SPECIFICATION Spec
CONSTANTS
  p1 = p1
  p2 = p2
  Proc <- MCProc
  Sig <- MCSig
  Fatal <- MCFatal
  SIGKILL = 9
  SIGSTOP = 19
  SIGINT = 2
  SIGCHLD = 17
  BUFSIZE = 3
  SEM_MOD = 256
  Setups <- MCSetups
  Nobody = Nobody
CHECK_DEADLOCK FALSE
INVARIANTS  HandlersNest
PROPERTIES InputIsSeen InterruptIsDelivered
