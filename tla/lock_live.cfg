SPECIFICATION FairSpec
CONSTANTS
  MaxTasks = 3
  l1 = l1
  Locks = {l1}
  Ages <- AllAges
PROPERTIES
  EveryWaitEnds
\* the program may stop at a fault
CHECK_DEADLOCK FALSE
