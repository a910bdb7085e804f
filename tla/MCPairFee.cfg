CONSTANTS
  MINIMUM_LIQUIDITY = 1
  MaxUint112 = 22
  TokenSupply <- MCTokenSupply
  Q112 = 4
  UintModulus = 1
  TimeModulus = 1
  MaxNow = 1
  Deposits <- MCDeposits
  Outputs <- MCOutputs
  ShareMoves <- MCShareMoves
  NoFrame = NoFrame
SPECIFICATION Spec
PROPERTIES ShareValueNeverFalls GrowthChargedOnce
