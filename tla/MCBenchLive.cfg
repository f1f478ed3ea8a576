\* Two workers race for one transaction while the parser polls.
SPECIFICATION FairSpec
CONSTANTS
  Workers = {w1, w2}
  DumpSize = 1
  QueueCap = 1
  Nodes = {n1}
  Genesis <- FreshChain
  Start = 0
  BlockSizes = {1}
  MaxHeight = 2
  TimeMod = 64
  PoolCap = 1
  LostReplies = FALSE
PROPERTIES
  EndsUnlessStarved
  SettledReportComplete
\* The process ends, or hangs with a starved worker.
CHECK_DEADLOCK FALSE
