SPECIFICATION Spec
CONSTANTS
  Events <- MCEvents
  Contents <- MCTwoTxs
  FactoryDeployBlock = 1
  DeployContents <- MCNothing
  Settled = 1
  ReorgDepth = 1
  MaxHeight = 5
  MaxForks = 2
  BucketSize = 2
  NoCursor = NoCursor
  Confirmations = 1
  BlockBatchSize = 3
  Faults = {"rpc", "range", "tx", "crash"}
  QuietTicks = FALSE
INVARIANTS TypeOK RowsFollowChain PairStateFollowsChain
