SPECIFICATION FairSpec
CONSTANTS
  N = 4
  W = 8
  MaxCross = 9
  Cell <- MCCell
  Windows <- MCWindows
INVARIANTS
  TypeOK
  FreshLoads
  LockStep
PROPERTIES
  ImplementsBarrier
  EveryCrossingCompletes
