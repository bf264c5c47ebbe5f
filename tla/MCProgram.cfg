\* Two string members and a number, every fault: the safety of main(), and its end.
CONSTANTS
  StringFields = {"host", "secret"}
  NumberFields = {"port"}
  Faults = {"oom", "config", "io", "kill"}
SPECIFICATION FairSpec
INVARIANTS
  TypeOK
  RequestIsConfigured
  LastSourceWins
  SocketMatches
  SuccessIsDelivery
  StdoutIsKey
PROPERTIES
  Terminates
CHECK_DEADLOCK FALSE
