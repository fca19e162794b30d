SPECIFICATION Spec
CONSTANTS
  x = x  y = y  u1 = u1  u2 = u2
  MaxPrice = 22
  SCALE = 20
  MintDepegPause = 3
  MaxMintPenalty = 9
  MaxRedeemPenalty = 5
  DegradedPenalty = 1
  MinUnits = 3
  MaxMintPerTx = 8
  MaxRedeemPerTx = 6
  MaxMintPerSlot = 12
  MaxRedeemPerSlot = 8
  MaxAbsoluteRedeem = 5
  FeeRateMax = 2
  VelocityFeeStart = 8
  Vault = {x, y}
  User = {u1}
  InitialSettings <- Shipped
  Amounts = {3, 4, 5}
  Prices = {17, 20, 22}
  Penalties = {0, 3}
  MintRates = {20}
  Settings <- MCSettings
  MaxSlot = 1
  MaxSupply = 7
  MaxDonation = 0
PROPERTIES RedeemNeverDilutes BackingKept
