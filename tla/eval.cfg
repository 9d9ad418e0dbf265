SPECIFICATION EvalSpec
CONSTANTS
  s1 = s1
  s2 = s2
  Strings = {s1, s2}
  o0 = o0
  o1 = o1
  Objs = {o0, o1}
  Root = o0
  g1 = g1
  Names = {g1}
  StackSize = 5
  RefLimit = 3
  MaxArgs = 1
  MaxLost = 1
SYMMETRY EvalSymmetry
INVARIANTS
  EvalTypeOK
  CountsExact
  CallersKept
  RegistersAreValues
PROPERTIES
  CallerResumes
\* the program may stop at a fault
CHECK_DEADLOCK FALSE
