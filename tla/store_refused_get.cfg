SPECIFICATION StoreSpec
CONSTANTS
  MaxTasks = 2
  l1 = l1
  l2 = l2
  w1 = w1
  w2 = w2
  Locks = {l1, l2}
  Persisted = {l1}
  Workers = {w1, w2}
  MaxSid = 3
  MaxLocked = 3
SYMMETRY WorkerSymmetry
INVARIANTS
  RefusalIsRetried
CHECK_DEADLOCK FALSE
