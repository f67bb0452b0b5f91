\* Start-up: the merge of daemon.json, its publication, and one
\* init_cgroups_path call; every allocation and cgroup step may fail.
CONSTANTS
  h1 = h1
  h2 = h2
  h3 = h3
  Hosts <- MC_Hosts
  MaxHosts = 2
  ScalarFields <- MC_ScalarFields
  ArgsInputs <- MC_ArgsInputs
  FileInputs <- MC_FileInputs
  CgroupPaths <- MC_CgroupPaths
  CgroupStartDepth = 0
  MaxPathDepth = 3
SPECIFICATION Spec
\* Start-up ends after init_cgroups_path, or when a step fails.
CHECK_DEADLOCK FALSE
INVARIANTS
  MergeMatchesSpec
  MergeFailsOnlyOnFault
  CgroupInitMatchesSpec
  ParentsWrittenFirst
