\* Three workers over two transactions and a ring exactly as large.
SPECIFICATION FairSpec
CONSTANTS
  Workers = {w1, w2, w3}
  DumpSize = 2
  QueueCap = 2
INVARIANTS
  TypeOK
  Conservation
  PutNeverBlocks
  AcceptedOnce
  CountersBracketTaken
  ReportSettled
  NothingLeftBehind
PROPERTIES
  FinishesOrStarves
\* The sender's work ends, and blocked workers may stay blocked.
CHECK_DEADLOCK FALSE
