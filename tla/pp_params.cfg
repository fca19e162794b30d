SPECIFICATION MCSpec
CONSTANTS
  k1 = k1  k2 = k2  k3 = k3  k4 = k4
  NoKey = NoKey
  Key = {k1, k2, k3, k4}
  Founders <- MCFounders
  RotationDelay = 2
  MaxSlot = 4
  None = None
  Local <- MCLocal
  FeeMax = 10000
  CrMin = 23
  CrMax = 40
  OpeningFee = 2000
  OpeningCr = 24
  CrRaise = 1
  FeeStep = 1000
  CrStep = 2
  HandFees = {3000}
  HandRatios = {24}
  MaxCrashes = 2
  MaxRaises = 1
  MaxHands = 1
  MaxProposals = 1
  MaxLate = 1
INVARIANTS ScaledOncePerRun RatioWithinPeak
PROPERTIES RotationIsDeliberate FeeUpdatesKeepRatio FeesFollowRisk
