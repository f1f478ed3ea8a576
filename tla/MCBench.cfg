\* Two workers, two transactions, a pool for one.
SPECIFICATION Spec
CONSTANTS
  Workers = {w1, w2}
  DumpSize = 2
  QueueCap = 2
  Nodes = {n1}
  Genesis <- FreshChain
  Start = 0
  BlockSizes = {1}
  MaxHeight = 2
  TimeMod = 64
  PoolCap = 1
  LostReplies = TRUE
SYMMETRY WorkerSymmetry
INVARIANTS
  TypeOK
  WrittenReportIsFinal
  NoOvercount
\* The process ends, or hangs with a starved worker.
CHECK_DEADLOCK FALSE
