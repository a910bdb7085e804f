CONSTANTS
  W = W  A = A  B = B  alice = alice  bob = bob
  Token = {W, A}
  WKASH = W
  Taxed = {A}
  TaxDivisor = 3
  User = {alice}
  Router = Router
  Zero = Zero
  Failed = Failed
  Unlimited = 99
  MINIMUM_LIQUIDITY = 1
  Genesis <- GenesisTaxed
  Liquidity <- LiquidityKash
  AddAmounts = {3, 4}
  AddMinimums = {0}
  RemoveShares = {1, 2}
  RemoveMinimums = {1}
  Paths <- PathsKash
  SwapAmounts = {1, 2, 3}
  SwapLimits = {1, 3}
  Recipients = {alice}
  Strays <- ToPoolsAndRouter
  StrayAmounts = {1}
  Approvals = {99}
  Deadlines = {0}
  MaxNow = 0
  MaxNonce = 0
SPECIFICATION Spec
INVARIANT SwapLimitsHonoured
INVARIANT HoldersCanLeave
PROPERTY ShareValueKept
PROPERTY RouterGainsNothing
CHECK_DEADLOCK FALSE
