SPECIFICATION Spec
CONSTANTS
  KHeads = 4
  HeadDim = 2
  Layer <- MCLayer
  DConv = 3
  Embd = 2
  VHeads = 8
  QHeads = 4
  KvHeads = 2
  AttnHeadDim = 4
  Ff = 16
  Vocab = 4
  Zero = Zero
  NegInf = NegInf
  Wild = Wild
  NCtx = 3
  KvPad = 2
  Tokens <- MCTokens
  Align = 4
  Files <- MCFiles
INVARIANTS
  TypeOK
  ResolvesToOwnSlice
  PatchesAreReduces
  StaysInBuffers
  SplitIsExact
CHECK_DEADLOCK FALSE
