SPECIFICATION Spec
CONSTANTS
  N = 2
  Elem <- MCElem
  ComputeBy <- Own
  PushBy <- Rotated
  ReduceBy <- Own
  Sites = 1
  PU = 16
  MaxPass = 2
  StaleLines = {"seqno"}
  CanTimeout = FALSE
INVARIANT
  PatchIsSafe
