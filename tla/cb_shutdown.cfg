SPECIFICATION MCSpec
CONSTANTS
  v1 = v1
  v2 = v2
  none = none
  Vault = {v1, v2}
  FirstVault = v1
  BaseWeightCap <- MCBaseWeightCap
  InitialWeights <- MCInitialWeights
  MinHold <- MCMinHold
  CooldownTicks = 1
  MaxActivationDuration = 4
  TriggerWindow = 5
  ManualModeMaxSlots = 2
  ManualCooldown = 2
  ManualCooldownMax = 4
  ManualBackoffWindow = 6
  ManualMaxPerEpoch = 2
  SlotsPerEpoch = 6
  NoSupply = none
  MaxSlot = 10
  Managed = {2, 4}
  Focuses = {{2}, {4}}
  Deviations = {0, 30000}
  Unreliable = {v1}
  Ratios <- MCRatios
  Weightings <- MCWeightings
  CrTargets = {2000000}
INVARIANTS RatesFollowBreakers
PROPERTIES ResumeIsClean ManualWindowsSpaced
CHECK_DEADLOCK FALSE
