\* No fault: what cli.h says of the sources does not hold for modules.
CONSTANTS
  StringFields = {"host"}
  NumberFields = {"port"}
  Faults = {}
SPECIFICATION Spec
INVARIANTS
  CommandLineEnables
CHECK_DEADLOCK FALSE
