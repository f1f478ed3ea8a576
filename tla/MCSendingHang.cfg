\* Two workers and one transaction: both may pass the Len() test.
SPECIFICATION FairSpec
CONSTANTS
  Workers = {w1, w2}
  DumpSize = 1
  QueueCap = 1
PROPERTIES
  AllWorkersStop
CHECK_DEADLOCK FALSE
