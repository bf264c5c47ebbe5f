\* One process and a server that refuses some exchanges: what module.h
\* says of the success callback does not hold.
CONSTANTS
  c1 = c1
  c2 = c2
  Clients = {c1}
  NoClient = NoClient
  MaxId = 1
  Faults = {"refuse"}
SPECIFICATION Spec
INVARIANTS
  GivenTheKey
CHECK_DEADLOCK FALSE
