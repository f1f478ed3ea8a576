SPECIFICATION Spec
CONSTANTS
  Validators = 1
  Senders = 1
  n1 = n1
  n2 = n2
  n3 = n3
  Nodes = {n1, n2, n3}
  rpcAddress <- ThreeAddresses
  MaxInt32 = 6
  Attempts = 0
  Polls = 1
  SpareBlocks = 0
INVARIANTS
  StartBlockIsNew
\* The preparation ends.
CHECK_DEADLOCK FALSE
