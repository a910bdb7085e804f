SPECIFICATION LSpec
CONSTANTS
  Amounts = {0, 10}
  Percents = {50, 100}
  SlippageBps = 1000
  MINIMUM_LIQUIDITY = 1
  NoPool = NoPool
  NoCall = NoCall
  Openings <- MCOpenings
  Created <- MCCreated
  TradeAmounts = {2, 10}
INVARIANTS PermitMatchesTheCall LimitsAreThoseShown OneCallInFlight
PROPERTY RefusalStillRemoves
CHECK_DEADLOCK FALSE
