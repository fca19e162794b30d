SPECIFICATION Spec
CONSTANTS
  x = x  y = y  u1 = u1  u2 = u2
  MaxPrice = 22
  SCALE = 20
  MintDepegPause = 3
  MaxMintPenalty = 9
  MaxRedeemPenalty = 5
  DegradedPenalty = 1
  MinUnits = 3
  MaxMintPerTx = 8
  MaxRedeemPerTx = 6
  MaxMintPerSlot = 12
  MaxRedeemPerSlot = 8
  MaxAbsoluteRedeem = 4
  FeeRateMax = 2
  VelocityFeeStart = 8
  Vault = {x}
  User = {u1, u2}
  InitialSettings <- Cheap
  Amounts = {2, 5}
  Prices = {20}
  Penalties = {0, 2}
  MintRates = {0, 20}
  Settings = {}
  MaxSlot = 2
  MaxSupply = 11
  MaxDonation = 5
INVARIANTS BooksAgree RedeemIsServed SlotFlowsBounded
