\* One header: what get_content_type() says of the end of a line.
CONSTANTS
  Names <- MCNames
  Values <- MCFewValues
  Bodies <- MCBodies
  MaxHeaders = 1
  SizeMod = 64
  Faults = {}
SPECIFICATION Spec
INVARIANTS
  NoOverrun
CHECK_DEADLOCK FALSE
