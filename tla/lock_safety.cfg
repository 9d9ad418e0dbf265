SPECIFICATION Spec
CONSTANTS
  MaxTasks = 3
  l1 = l1
  l2 = l2
  Locks = {l1, l2}
  Ages <- YoungestLast
SYMMETRY LockSymmetry
INVARIANTS
  TypeOK
  LockInv
  ChainInv
  Exclusion
  SleepersQueued
  FairInv
  NoLostWakeup
PROPERTIES
  NoOvertaking
  ImplementsFairLock
\* the program may stop at a fault, and deadlocks may go undetected
CHECK_DEADLOCK FALSE
