SPECIFICATION Spec
CONSTANTS
  MaxTasks = 3
  l1 = l1
  l2 = l2
  Locks = {l1, l2}
  Ages <- YoungestLast
INVARIANTS
  NoSilentDeadlock
CHECK_DEADLOCK FALSE
