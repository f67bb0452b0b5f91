\* merge_conf_mounts over valid and invalid binds and --mounts, every ipc
\* mode, system and ordinary containers; shm setup and relabel may fail.
CONSTANTS
  VolumeInputs <- MC_VolumeInputs
  MountInputs <- MC_MountInputs
  AbsolutePaths <- MC_AbsolutePaths
  UserSources <- MC_UserSources
  TemplateMounts <- MC_TemplateMounts
  IpcInputs <- MC_IpcInputs
  Channels = {FALSE, TRUE}
  FileSets <- MC_FileSets
  ShmSizes <- MC_ShmSizes
  DefaultShmSize = 67108864
  ListSizeMax = 4
  AllocCanFail = FALSE
  ShmSetupCanFail = TRUE
  RelabelCanFail = TRUE
SPECIFICATION Spec
\* merge_conf_mounts returns: a finished merge is a final state.
CHECK_DEADLOCK FALSE
INVARIANTS
  ShmSizeApplied
  NetworkFilePathsTracked
  MergeFailsOnlyOnFault
