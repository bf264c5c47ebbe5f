\* Bodies of up to three bytes in any chunks, every fault.
CONSTANTS
  Bytes = {"x", "y"}
  MaxBody = 3
  Heads <- SomeHeads
  Faults = {"oom", "net"}
SPECIFICATION Spec
INVARIANTS
  TypeOK
  NoOverflow
  BodyIsWhatArrived
  KeyIsText
  Released
CHECK_DEADLOCK FALSE
