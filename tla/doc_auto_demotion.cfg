SPECIFICATION Spec
CONSTANTS
  SCALE = 4
  MinStake = 2
  StakeCooldown = 3
  SlashCooldown = 2
  GovernanceCooldown = 1
  ScoreDelta = 1
  MinCommitTier = 2
  Threshold <- MCThreshold
  a1 = a1
  Agent = {a1}
  Stakes = {2}
  Slashes = {}
  Scores = {0, 1, 2, 3, 4}
  MaxSlot = 9
  MaxDonation = 0
PROPERTIES CommitsAtScore
CHECK_DEADLOCK FALSE
