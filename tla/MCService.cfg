\* Two starts of the service, two readers, which may give up; exchanges and
\* output fail, requests are withdrawn, and processes are killed.
CONSTANTS
  c1 = c1
  c2 = c2
  r1 = r1
  r2 = r2
  NoClient = NoClient
  NoReader = NoReader
  Clients = {c1, c2}
  Readers = {r1, r2}
  MaxId = 2
  Faults = {"net", "expire", "kill"}
  OutputFaults = TRUE
SPECIFICATION FairServiceSpec
INVARIANTS
  ServiceTypeOK
  OneRequestPerReader
  SuccessIsServed
PROPERTIES
  NobodyWaitsForever
CHECK_DEADLOCK FALSE
