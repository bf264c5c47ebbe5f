\* Three modules of four shapes, both callers, both faults.
CONSTANTS
  m1 = m1
  m2 = m2
  m3 = m3
  Modules = {m1, m2, m3}
  Shapes <- MCShapes
  Callers = {"main", "tests"}
  Faults = {"oom", "callback"}
SPECIFICATION Spec
INVARIANTS
  TypeOK
  NoUseAfterCleanup
  KeyAfterInit
  InitialisedAreCleaned
PROPERTIES
  BroadcastSpec
CHECK_DEADLOCK FALSE
