\* Up to two headers of four names and five values, their lines ended either way.
CONSTANTS
  Names <- MCNames
  Values <- MCValues
  Bodies <- MCBodies
  MaxHeaders = 2
  SizeMod = 64
  Faults = {"oom"}
SPECIFICATION Spec
INVARIANTS
  TypeOK
  WarnedRightly
  OverrunOnlyIfWrapped
  BuffersFilled
  SignedIsRebuilt
CHECK_DEADLOCK FALSE
