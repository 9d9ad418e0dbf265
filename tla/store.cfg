SPECIFICATION StoreFairSpec
CONSTANTS
  MaxTasks = 2
  l1 = l1
  l2 = l2
  w1 = w1
  w2 = w2
  Locks = {l1, l2}
  Persisted = {l1}
  Workers = {w1, w2}
  MaxSid = 3
  MaxLocked = 3
INVARIANTS
  StoreTypeOK
  CidsDistinct
  NothingLeftBehind
  ReadsStable
  NoSilentDeadlock
  PairInv
PROPERTIES
  TxEnds
\* no transaction is started beyond MaxSid, and the program may stop
CHECK_DEADLOCK FALSE
