SPECIFICATION Spec
CONSTANTS
  N = 3
  Programs <- MCXchgPush
  Token = {0, 1}
  PU = 8
  RingCap = 2
  MaxPass = 1
  CanTimeout = TRUE
  CopyCanFail = FALSE
INVARIANT
  XchgPushIsRefused
