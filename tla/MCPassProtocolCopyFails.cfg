SPECIFICATION Spec
CONSTANTS
  N = 3
  Programs <- MCPrograms
  Token = {0, 1}
  PU = 8
  RingCap = 2
  MaxPass = 1
  CanTimeout = TRUE
  CopyCanFail = TRUE
INVARIANT
  TimeoutMeansWatchdog
