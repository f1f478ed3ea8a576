\* A failed or lagging answer moves the parser before the start block.
SPECIFICATION Spec
CONSTANTS
  Nodes = {n1, n2}
  Genesis <- PreparedGenesis
  Start = 1
  BlockSizes = {1}
  MaxHeight = 3
  MaxTxs = 1
  TimeMod = 64
INVARIANTS
  CountsOnlyTestBlocks
\* The parser ends.
CHECK_DEADLOCK FALSE
