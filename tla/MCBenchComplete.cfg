\* A transaction is acknowledged between the parser's two looks.
SPECIFICATION Spec
CONSTANTS
  Workers = {w1}
  DumpSize = 1
  QueueCap = 1
  Nodes = {n1}
  Genesis <- FreshChain
  Start = 0
  BlockSizes = {1}
  MaxHeight = 2
  TimeMod = 64
  PoolCap = 1
  LostReplies = FALSE
INVARIANTS
  ReportComplete
\* The process ends, or hangs with a starved worker.
CHECK_DEADLOCK FALSE
