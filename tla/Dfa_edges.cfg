CONSTANTS
  Inputs <- MCInputs
SPECIFICATION Spec
CHECK_DEADLOCK FALSE
INVARIANTS TypeOK StateIsExact VerdictIsOfPrefix VerdictWithNul DecodesLastSequence
