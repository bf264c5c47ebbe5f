\* The socket fails: what module.h says of handle_success() does not hold.
CONSTANTS
  StringFields = {"host"}
  NumberFields = {"port"}
  Faults = {"io"}
SPECIFICATION Spec
INVARIANTS
  KeyToAllModules
CHECK_DEADLOCK FALSE
