SPECIFICATION Spec
CONSTANTS
  Events <- MCEvents
  Contents <- MCTwoPools
  FactoryDeployBlock = 1
  DeployContents <- MCNothing
  Settled = 1
  ReorgDepth = 3
  MaxHeight = 4
  MaxForks = 2
  BucketSize = 2
  NoCursor = NoCursor
  Confirmations = 1
  BlockBatchSize = 2
  Faults = {"rpc", "range", "tx", "crash"}
  QuietTicks = TRUE
PROPERTIES ImplementsProjection CanonicalRowsKept
