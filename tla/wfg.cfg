SPECIFICATION Spec
CONSTANTS
  MaxTasks = 4
INVARIANTS
  VictimYoungestOfCycle
  CycleNotMissed
  EndlessOnlyPastOtherCycle
\* the graph is complete in the end
CHECK_DEADLOCK FALSE
