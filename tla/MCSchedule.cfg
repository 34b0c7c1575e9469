SPECIFICATION FairSpec
CONSTANTS
  GRID = 5
  HEAVY_EST = 9
  Buffer = {"x", "y", "z"}
  MaxLen = 4
  Inputs <- MCInputs
INVARIANTS
  TypeOK
  DependentStayApart
  ChecksTheEmitters
  XchgKeepsItsBoundary
  HeavyKeepTheirGrid
  RangesPartitionTheGrid
PROPERTY
  CompileEnds
