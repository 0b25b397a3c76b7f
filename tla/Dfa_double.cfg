CONSTANTS
  SizeMod = 64
  IntMod = 16
  Inputs <- MCInputs
SPECIFICATION Spec
CHECK_DEADLOCK FALSE
INVARIANTS TypeOK VerdictIsOfHalves NoFalseAlarm
