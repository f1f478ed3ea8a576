\* Two nodes, either of which may lag behind the other, and blocks with and
\* without transactions before, inside and after the test.
SPECIFICATION FairSpec
CONSTANTS
  Nodes = {n1, n2}
  Genesis <- EmptyGenesis
  Start = 0
  BlockSizes = {0, 1}
  MaxHeight = 4
  MaxTxs = 2
  TimeMod = 64
INVARIANTS
  TypeOK
  NoBlockSkipped
  ReportMatchesTally
  ReportWindow
PROPERTIES
  TallySpec
  ParserStops
\* The parser ends.
CHECK_DEADLOCK FALSE
