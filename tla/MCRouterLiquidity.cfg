CONSTANTS
  W = W  A = A  alice = alice  bob = bob  B = B
  Token = {W, A}
  WKASH = W
  Taxed = {}
  TaxDivisor = 2
  User = {alice, bob}
  Router = Router
  Zero = Zero
  Failed = Failed
  Unlimited = 99
  MINIMUM_LIQUIDITY = 1
  Genesis <- GenesisLiquidity
  Liquidity <- LiquidityKash
  AddAmounts = {2, 3}
  AddMinimums = {2}
  RemoveShares = {1, 2}
  RemoveMinimums = {1}
  Paths <- PathsKash
  SwapAmounts = {}
  SwapLimits = {}
  Recipients = {alice, bob}
  Strays = {}
  StrayAmounts = {}
  Approvals = {2, 99}
  Deadlines = {0}
  MaxNow = 1
  MaxNonce = 1
SPECIFICATION Spec
INVARIANTS TypeOK HoldersCanLeave DepositLimitsHonoured WkashBacked
PROPERTY SignaturesDie
CHECK_DEADLOCK FALSE
