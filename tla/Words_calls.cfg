CONSTANTS
  AddrMod = 1024
  Calls <- MCCalls
SPECIFICATION Spec
CHECK_DEADLOCK FALSE
INVARIANTS TypeOK LoadsInBounds MaskIsExact
PROPERTIES ImplementsCall
