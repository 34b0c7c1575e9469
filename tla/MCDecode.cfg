SPECIFICATION FairSpec
CONSTANTS
  Grid = 4
  Pad = 4
  Tile = 2
  NCtx = 8
  Layer <- MCLayer
  Taps = 4
  Prompts <- MCPrompts
  MaxSteps = 4
  Argmax <- MCArgmax
  Zero = Zero
  Bad = Bad
  NonFinite = NonFinite
  t1 = t1
  t2 = t2
INVARIANTS
  TypeOK
  ChunksPartition
  ReduceFoldsFreshPartials
  ConvAndSsmAgree
PROPERTIES
  IsGreedyDecoding
  OnlyOwnRowWritten
CHECK_DEADLOCK FALSE
