SPECIFICATION LatchesSpec
CONSTANTS
  w1 = w1
  w2 = w2
  w3 = w3
  Workers = {w1, w2, w3}
  Net = net
  l1 = l1
  l2 = l2
  Locks = {l1, l2}
  s1 = s1
  Sockets = {s1}
  Inversions = {}
SYMMETRY LatchSymmetry
INVARIANTS
  NoLatchDeadlock
