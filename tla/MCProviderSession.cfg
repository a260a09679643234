SPECIFICATION Spec
CONSTANTS
  Requests = {r1, r2}
  MaxOutstanding = 1
  RestartDelay = 1
  TerminateDelay = 1
  KillDelay = 2
  StartupTimeout = 3
  RequestTimeout = 3
  CrashWindow = 3
CHECK_DEADLOCK FALSE
INVARIANTS TypeOK RequestsOfThisProcess
PROPERTIES StopEndsProcess NeverSilentlyDead RetiredIsReleased
