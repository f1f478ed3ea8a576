\* main from its settings to the start block, with the container statistics.
SPECIFICATION MainFairSpec
CONSTANTS
  Validators = 1
  Senders = 1
  Nodes = {"n1", "n2", "127.0.0.1:20331"}
  rpcAddress <- OneAddress
  MaxInt32 = 5
  Attempts = 1
  Polls = 1
  SpareBlocks = 1
  Files = {"dump", "none", "cut"}
  SettingsUsed <- AllSettings
  Txs <- DumpTxs
  cnr <- TwoContainers
  MaxSamples = 1
INVARIANTS
  MainTypeOK
  PanicsExplained
  HollowReportExplained
  SamplesAddUp
  StartsPrepared
  NeverUnfunded
  StartBlockHasNoSetup
PROPERTIES
  GetsSomewhere
  StatsEnd
\* main gets to its end.
CHECK_DEADLOCK FALSE
