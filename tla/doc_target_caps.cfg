SPECIFICATION Spec
CONSTANTS
  N = 3
  SCALE = 9
  GRAIN = 6
  AdamStep = 1
  SafetyCaps <- MCSafetyCaps
  Deviation = 2
  StepLimit = 2
  TurnoverLimit = 3
  Values <- MCValues
  Starts <- MCStarts
  MaxStep = 2
  MaxCrashes = 1
  MaxHalvings = 1
  MaxProposals = 2

PROPERTIES OptimizerKeepsCaps
