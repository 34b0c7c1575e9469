SPECIFICATION Spec
CONSTANTS
  Grid = 4
  Pad = 4
  Tile = 2
  NCtx = 6
  Layer <- MCLayer
  Taps = 4
  Prompts <- MCPrompts
  MaxSteps = 4
  Argmax <- MCArgmax
  Zero = Zero
  Bad = Bad
  NonFinite = NonFinite
  t1 = t1
  t2 = t2
INVARIANT
  PaddedRowsAreFinite
CHECK_DEADLOCK FALSE
