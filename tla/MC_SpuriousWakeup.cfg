CONSTANTS
  Pids <- MC_Pids
  ExitCodes <- MC_ExitCodes
  Threads = {t1, t2}
  Waiters = {w1}
  HostConfigs <- MC_Always
  MaxDups = 1
  SpawnCanFail = FALSE
  SaveCanFail = FALSE
  SpuriousWakeups = TRUE
  WaitCanTimeout = FALSE
SPECIFICATION Spec
PROPERTY WaitStopReturnsAfterExit
CHECK_DEADLOCK FALSE
