SPECIFICATION Spec
CONSTANTS
  t1 = t1  t2 = t2  x1 = x1  x2 = x2  x3 = x3  a1 = a1  a2 = a2
  Tab = {t1, t2}
  Account = {a1, a2}
  Tx = {x1, x2, x3}
  MAX_ITEMS = 2
  Native = 0
  Wkash = 1
  Symbol = {"kash", "wkash", "musdc", "musdt", "vvv", "long"}
  Deployed <- MCDeployed
  Contracts <- MCContracts
  Pairs <- MCPairs
  DEFAULT_DECIMALS = 1
  MAX_DECIMALS = 3
  STABLE_DECIMALS = 1
  NoToken = NoToken
  Failed = Failed
  NoData = NoData
  Unpriced = Unpriced
  Corrupt = Corrupt
  Unavailable = Unavailable
  POOLS_SAMPLED = 3
  PAGE_LIMIT_DEFAULT = 4
  PAGE_LIMIT_MAX = 5
  FEED_LIMIT = 2
  Slippages = {0, 500, 6000}
  Deadlines = {180, 181}
  Openings <- MCOpenings
INVARIANTS ActivityIsTrue ChoicesAreSound PoolsAreShownAsTheyAre
PROPERTIES NothingIsForgotten EventuallyUpToDate
CHECK_DEADLOCK FALSE
