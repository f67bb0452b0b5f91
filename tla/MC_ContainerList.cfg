\* One ps call against two containers whose states change and which may
\* be removed, at most twice in all; allocations may fail.
CONSTANTS
  c1 = c1
  c2 = c2
  Ids = {c1, c2}
  NameOf <- MC_NameOf
  Requests <- MC_Requests
  StartStates <- MC_StartStates
  Pids = {1}
  ExitCodes = {0}
  MaxChanges = 2
  AllocCanFail = TRUE
SPECIFICATION Spec
\* container_list_cb returns: a finished call is a final state.
CHECK_DEADLOCK FALSE
INVARIANTS
  ListComplete
  ListSound
