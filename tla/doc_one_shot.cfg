SPECIFICATION Spec
CONSTANTS
  None = None
  a = a
  b = b
  c = c
  p = p
  q = q
  Allocation <- MCAllocation
  InitialAllocation = a
  Reachable <- MCAllReachable
  Large <- MCLarge
  Params = {p}
  InitialParams = p
  BatchWindow = 8
  RevealDelay = 1
  MaxValidity = 20
  KeeperDelay = 1
  CommitValidity = 5
  DriftTolerance = 1
  TxLifetime = 4
  MaxSlot = 4
  MaxProposals = 2
  MaxCrashes = 0
  MaxToggles = 0
PROPERTY OneShotReveal
CHECK_DEADLOCK FALSE
