\* One module with every callback: what module.h says of failure().
CONSTANTS
  m1 = m1
  Modules = {m1}
  Shapes <- MCShapes
  Callers = {"main"}
  Faults = {}
SPECIFICATION Spec
INVARIANTS
  FailureIsTold
CHECK_DEADLOCK FALSE
