SPECIFICATION Spec
CONSTANTS
  Requests = {r1}
  MaxOutstanding = 1
  RestartDelay = 1
  TerminateDelay = 2
  KillDelay = 6
  StartupTimeout = 40
  RequestTimeout = 80
  CrashWindow = 240
CHECK_DEADLOCK FALSE
INVARIANT SuppressedAfterThree
