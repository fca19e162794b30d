CONSTANTS
  v1 = v1
  Vault <- MCVault
  Feed <- MCFeed
  NoFeed = NoFeed
  FeedOf <- MCFeedOf
  SCALE = 1000
  DECIMALS = 3
  PriceMin = 900
  PriceMax = 1100
  ConfidenceMax = 50
  MintConfidenceMax = 20
  PublishMaxAge = 1
  StalenessMax = 3
  HighVolStaleness = 2
  MintStaleness = 2
  HighVolMintStaleness = 1
  TwapAlpha = 250
  TwapMaxDeviation = 25
  HighVolatility = 12
  MintDepegPause = 50
  ManualMaxSlots = 2
  ManualDelay = 1
  Messages <- MCMessages
  ManualQuotes <- MCManualQuotes
  Lags = {0, 2}
  MaxSlot = 6
SPECIFICATION Spec
INVARIANTS QuotesAreRecent ManualPricesExpire TwapIgnoresCadence
CHECK_DEADLOCK FALSE
