CONSTANTS
  W = W  A = A  B = B  alice = alice  bob = bob
  Token = {W, A, B}
  WKASH = W
  Taxed = {}
  TaxDivisor = 2
  User = {alice}
  Router = Router
  Zero = Zero
  Failed = Failed
  Unlimited = 99
  MINIMUM_LIQUIDITY = 1
  Genesis <- GenesisSwaps
  Liquidity <- LiquidityBoth
  AddAmounts = {4}
  AddMinimums = {0}
  RemoveShares = {}
  RemoveMinimums = {}
  Paths <- PathsBoth
  SwapAmounts = {1, 2, 3}
  SwapLimits = {1, 3}
  Recipients = {alice}
  Strays <- ToFirstPool
  StrayAmounts = {1}
  Approvals = {}
  Deadlines = {0}
  MaxNow = 0
  MaxNonce = 0
SPECIFICATION Spec
INVARIANT SwapLimitsHonoured
INVARIANT QuotedSwapSucceeds
CHECK_DEADLOCK FALSE
