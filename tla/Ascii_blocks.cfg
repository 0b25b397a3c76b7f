CONSTANTS
  W = 8
  SizeMod = 32
  Inputs <- MCInputs
SPECIFICATION Spec
CHECK_DEADLOCK FALSE
INVARIANTS TypeOK LoadsInBounds MaskIsExact
PROPERTIES ImplementsCall
