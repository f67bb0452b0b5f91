CONSTANTS
  Pids <- MC_Pids
  ExitCodes <- MC_ExitCodes
  Threads = {t1, t2}
  Waiters = {w1}
  HostConfigs <- MC_NoRm
  MaxDups = 1
  SpawnCanFail = FALSE
  SaveCanFail = TRUE
  SpuriousWakeups = FALSE
  WaitCanTimeout = TRUE
SPECIFICATION Spec
PROPERTY AutoRemoveCompletes
CHECK_DEADLOCK FALSE
