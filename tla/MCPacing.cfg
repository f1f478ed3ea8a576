\* Two workers and the parser over two addresses: pacing and round robin.
SPECIFICATION Spec
CONSTANTS
  n1 = n1
  n2 = n2
  Workers = {w1, w2}
  Nodes = {n1, n2}
  rpcAddress <- TwoAddresses
  MaxInt32 = 5
  DumpSize = 5
  Rates = {0, 250, 500, 1000}
  Second = 1000
  Millisecond = 1
  msPerBlock = 10
  timeLimit = 5
  Latency = 1
  MaxTime = 8
  MaxCalls = 4
INVARIANTS
  TypeOK
  RateKept
  RefusalsSpaced
  LeavesInTime
  AddressesBalanced
  PanicsOnlyAfterWrap
SYMMETRY WorkerSymmetry
\* The workers end.
CHECK_DEADLOCK FALSE
