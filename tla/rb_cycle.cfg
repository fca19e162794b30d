SPECIFICATION MCSpec
CONSTANTS
  None = None
  a = a
  b = b
  c = c
  p = p
  q = q
  Allocation <- MCAllocation
  InitialAllocation = a
  Reachable <- MCReachable
  Large <- MCLarge
  Params = {p, q}
  InitialParams = p
  BatchWindow = 4
  RevealDelay = 1
  MaxValidity = 20
  KeeperDelay = 2
  CommitValidity = 5
  DriftTolerance = 1
  TxLifetime = 4
  MaxSlot = 5
  MaxProposals = 2
  MaxCrashes = 1
  MaxToggles = 1
INVARIANTS NoDeadZone
PROPERTIES MovesAnnounced LargeMovesAnnounced OverwritesOnlyUnseen ParamsFollowReveal
CHECK_DEADLOCK FALSE
