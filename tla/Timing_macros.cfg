CONSTANTS
  Mod = 16
  Repeat = 3
  Elapsed = {2, 3, 5}
  Garbage = {0, 4, 15}
  Durations = {1, 3, 6}
  Nano = 4
  Micro = 1
  Never = 100
  Descriptors = {3, 4, 5}
  Programs <- MCPrograms
SPECIFICATION Spec
CHECK_DEADLOCK FALSE
INVARIANTS TypeOK BestIgnoresShortRounds SumIsExact TimeIsBest OverheadIsOfCycles LinuxCountsOneMore DescriptorsLeak
