SPECIFICATION LSpec
CONSTANTS
  Events <- MCEvents
  Contents <- MCOneTx
  FactoryDeployBlock = 1
  DeployContents <- MCNothing
  Settled = 1
  ReorgDepth = 2
  MaxHeight = 4
  MaxForks = 2
  BucketSize = 2
  NoCursor = NoCursor
  Confirmations = 1
  BlockBatchSize = 2
  Faults = {"rpc", "range", "tx", "reload", "crash"}
  QuietTicks = TRUE
INVARIANT NoStaleRows
PROPERTY EventuallyCaughtUp
