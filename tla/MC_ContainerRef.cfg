\* Two users and one waiter with a timeout race the removal of the
\* container.
CONSTANTS
  u1 = u1
  u2 = u2
  w1 = w1
  Users = {u1, u2}
  Waiters = {w1}
  WaitRmTimed = TRUE
SPECIFICATION Spec
\* Every thread ends and the container is freed: the model stops.
CHECK_DEADLOCK FALSE
INVARIANTS
  NoUseAfterFree
  RefcntCountsHolders
