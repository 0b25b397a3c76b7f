CONSTANTS
  Mod = 16
  Repeat = 2
  Elapsed = {1}
  Garbage = {1}
  Durations = {0}
  Nano = 1
  Micro = 0
  Never = 1
  Descriptors = {3}
  Programs <- MCPrograms
  Sizes = {0, 1, 4}
  Kinds <- MCKinds
  Rand <- MCRand
  Outside = {0, 127, 128, 193, 194, 244, 245}
SPECIFICATION BenchSpec
CHECK_DEADLOCK FALSE
INVARIANTS BenchTypeOK RefusalsAreExplained Generates LengthIsAsPromised
PROPERTIES Finishes
