CONSTANTS
  W = 32
  SizeMod = 128
  Family = "unit"
  Inputs <- MCInputs
SPECIFICATION AvxSpec
CHECK_DEADLOCK FALSE
INVARIANTS VerdictCorrect
PROPERTIES AvxImplementsBlocks
