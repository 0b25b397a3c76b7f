CONSTANTS
  W = 64
  SizeMod = 256
  Family = "unit"
  Inputs <- MCInputs
SPECIFICATION Avx512Spec
CHECK_DEADLOCK FALSE
PROPERTIES Avx512ImplementsBlocks
