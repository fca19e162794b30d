SPECIFICATION LoopSpec
CONSTANTS
  SCALE = 8
  MinStake = 2
  StakeCooldown = 3
  SlashCooldown = 2
  GovernanceCooldown = 1
  ScoreDelta = 2
  MinCommitTier = 2
  Threshold <- MCThreshold
  a1 = a1
  a2 = a2
  a3 = a3
  Agent = {a1, a2, a3}
  Local = {a3}
  Stakes = {2, 5}
  Slashes = {1, 7}
  Scores = {0, 2, 3, 4, 5, 6, 7, 8, 9}
  MaxSlot = 9
  MaxDonation = 2
  CurrentTier = 1
  TargetTier = 2
  BaseScore = 4
  TopBoost = 1
  BottomReduction = 1
  MinAge = 1
  Divisor = 10
  MinParticipants = 2
  AigInterval = 2
  TournamentInterval = 1
  Configs <- DocConfigs
  MaxFlying = 2
CHECK_DEADLOCK FALSE
PROPERTY WinnerGains
