\* The first worker is gone before the second is spawned.
SPECIFICATION Spec
CONSTANTS
  Workers = {w1, w2}
  DumpSize = 1
  QueueCap = 1
  Nodes = {n1}
  Genesis <- FreshChain
  Start = 0
  BlockSizes = {1}
  MaxHeight = 1
  TimeMod = 64
  PoolCap = 1
  LostReplies = FALSE
INVARIANTS
  WaitDoesNotPanic
\* The process ends, or hangs with a starved worker.
CHECK_DEADLOCK FALSE
