CONSTANTS
  W = 4
  SizeMod = 16
  Family = "short"
  Inputs <- MCInputs
SPECIFICATION Spec
CHECK_DEADLOCK FALSE
INVARIANTS TypeOK LoadsInBounds CarriesStaySmall ErrorsAreExact PreviousSummarises VerdictCorrect
PROPERTIES ImplementsCall
