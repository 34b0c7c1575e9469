SPECIFICATION Spec
CONSTANTS
  N = 2
  Elem <- MCElem
  ComputeBy <- Own
  PushBy <- Rotated
  ReduceBy <- Own
  Sites = 2
  PU = 16
  MaxPass = 2
  StaleLines = {}
  CanTimeout = TRUE
INVARIANTS
  TypeOK
  SeqnoMeansPayload
  MailboxNotOverrun
  PatchIsSafe
PROPERTY
  ImplementsAllReduce
