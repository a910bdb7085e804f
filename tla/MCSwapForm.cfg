SPECIFICATION Spec
CONSTANTS
  Native = 0
  Wkash = 1
  Hubs <- MCHubs
  Token <- MCToken
  Amounts = {0, 9}
  SlippageBps = 500
  Openings <- MCOpenings
  Trades <- MCTrades
INVARIANTS StaleQuoteCostsOnlyGas QuotesAreSound ExposureIsOneTrade OneSwapInFlight
CHECK_DEADLOCK FALSE
