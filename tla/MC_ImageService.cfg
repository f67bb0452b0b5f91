\* Startup init, both sweeps over every disagreement a crash can leave
\* between the server and the daemon's stores, then every entry point.
CONSTANTS
  Refs = {r1, r2}
  Containers = {c1}
  Paths = {p1, p2}
  ExistingPaths = {p1}
  EmbeddedImages = {r2}
  EmbeddedEnabled = TRUE
  TypeInputs <- MC_TypeInputs
  ServeDuringSync = FALSE
SPECIFICATION Spec
\* image_module_exit and a failed init end the daemon.
CHECK_DEADLOCK FALSE
INVARIANTS
  SuccessMeansBackendRan
PROPERTIES
  SyncContainersReconciles
  SyncImagesReconciles
