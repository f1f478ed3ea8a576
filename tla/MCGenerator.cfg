\* Three workers, two kinds of requests, seven transactions: the turns of the
\* workers and of the requests differ.
SPECIFICATION FairSpec
CONSTANTS
  genWorkerCount = 3
  TxCount = 7
  Requests = 2
  NonceSpan = 4
  NonceMod = 16
  BitOr <- BitwiseOr
INVARIANTS
  TypeOK
  DumpInOrder
  TxsDistinct
  OnlyWholeDumps
PROPERTIES
  Terminates
\* The generator ends.
CHECK_DEADLOCK FALSE
