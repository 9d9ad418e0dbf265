SPECIFICATION ServerSpec
CONSTANTS
  w1 = w1
  w2 = w2
  Workers = {w1, w2}
  NetThread = net
  c1 = c1
  c2 = c2
  Conns = {c1, c2}
  MaxMsgs = 1
  MaxWrites = 2
  MaxRetries = 0
  BufSize = 2
SYMMETRY ServerSymmetry
INVARIANTS
  ServerTypeOK
  WatcherHasBuffer
  StrayOutputOnlyAfterEof
  FaultsExplained
  FreedWhenReleased
PROPERTIES
  OutputInOrder
\* main() ends, or the server stops at an access to freed memory
CHECK_DEADLOCK FALSE
