\* Two processes, every fault: the safety of request_key(),
\* what it promises, and the end of its loop.
CONSTANTS
  c1 = c1
  c2 = c2
  Clients = {c1, c2}
  NoClient = NoClient
  MaxId = 2
  Faults = {"oom", "net", "refuse", "expire", "kill"}
SPECIFICATION FairSpec
INVARIANTS
  TypeOK
  SignedAsSent
  OwnRequest
  KeyOnlyIfFulfilled
  PatchOnlyIfAccepted
  DeniedIsDenied
  NothingLeaked
  KeyRequestInv
PROPERTIES
  ProvisionSpec
  LoopEnds
CHECK_DEADLOCK FALSE
