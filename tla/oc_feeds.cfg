CONSTANTS
  Feed = {"usdc", "usdt"}
  Steady = {"usdc"}
  DegradeThreshold = 3
  MaxAttempts = 3
SPECIFICATION FairSpec
PROPERTIES FeedsServed DifferenceStopsAll
