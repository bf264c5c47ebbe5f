\* Two starts of the service, two readers, no fault.
CONSTANTS
  c1 = c1
  c2 = c2
  r1 = r1
  r2 = r2
  NoClient = NoClient
  NoReader = NoReader
  Clients = {c1, c2}
  Readers = {r1, r2}
  MaxId = 2
  Faults = {}
  OutputFaults = FALSE
SPECIFICATION FairServiceSpec
PROPERTIES
  ReaderIsServed
  AcceptedReachesReader
CHECK_DEADLOCK FALSE
