\* One container with either host config (restart always; on-failure:1
\* with --rm), three process generations, a duplicate exit notification,
\* two handler thread ids and one waiter with a timeout.  container_to_disk
\* may fail and pthread_cond_wait may wake spuriously.
CONSTANTS
  Pids <- MC_Pids
  ExitCodes <- MC_ExitCodes
  Threads = {t1, t2}
  Waiters = {w1}
  HostConfigs <- MC_HostConfigs
  MaxDups = 1
  SpawnCanFail = FALSE
  SaveCanFail = TRUE
  SpuriousWakeups = TRUE
  WaitCanTimeout = TRUE
SPECIFICATION Spec
INVARIANT StateTracksProcess 
PROPERTY WaitersWokenOnExit  ImplementsEventQueue
\* Once the pids are used up the daemon idles: a normal stop.
CHECK_DEADLOCK FALSE
