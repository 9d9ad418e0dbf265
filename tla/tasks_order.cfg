SPECIFICATION ServerSpec
CONSTANTS
  w1 = w1
  w2 = w2
  Workers = {w1, w2}
  NetThread = net
  c1 = c1
  Conns = {c1}
  MaxMsgs = 2
  MaxWrites = 1
  MaxRetries = 0
  BufSize = 1
INVARIANTS
  RepliesInOrder
CHECK_DEADLOCK FALSE
