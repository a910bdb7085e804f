CONSTANTS
  MINIMUM_LIQUIDITY = 1
  MaxUint112 = 3
  TokenSupply <- MCTokenSupply
  Q112 = 2
  UintModulus = 8
  TimeModulus = 3
  MaxNow = 3
  Deposits <- MCDeposits
  Outputs <- MCOutputs
  ShareMoves <- MCShareMoves
  NoFrame = NoFrame
SPECIFICATION OSpec
INVARIANTS TypeOK ReservesBacked LiquidityLocked AccumulatorIsIntegral
PROPERTY ShareValueNeverFalls
