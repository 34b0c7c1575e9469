SPECIFICATION FairSpec
CONSTANTS
  N = 3
  Programs <- MCPrograms
  Token = {0, 1}
  PU = 8
  RingCap = 2
  MaxPass = 3
  CanTimeout = TRUE
  CopyCanFail = TRUE
INVARIANTS
  TypeOK
  OkMeansPassComplete
  NoStrandedBlock
  FreedOnlyAfterExit
  ReportIsRaised
  ErroredPassNeverDone
  RingHoldsLastPasses
PROPERTIES
  ImplementsService
  RunPassReturns
  HaltEndsKernel
