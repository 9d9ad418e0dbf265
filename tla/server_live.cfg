SPECIFICATION ServerFairSpec
CONSTANTS
  w1 = w1
  w2 = w2
  Workers = {w1, w2}
  NetThread = net
  c1 = c1
  Conns = {c1}
  MaxMsgs = 2
  MaxWrites = 1
  MaxRetries = 1
  BufSize = 1
INVARIANTS
  RepliesOnce
PROPERTIES
  TasksTaken
  ItemsHandled
  EofReclaimed
  StopTakesEffect
\* main() ends, or the server stops at an access to freed memory
CHECK_DEADLOCK FALSE
