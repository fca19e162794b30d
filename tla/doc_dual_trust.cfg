SPECIFICATION Spec
CONSTANTS
  DegradeThreshold = 3
  MaxAttempts = 3
  Debounce = 3
  PrimaryStates = {"up", "down"}
  SecondaryStates = {"up", "lagging", "unreadable", "down"}
  MaxSends = 1
  MaxRestarts = 0
PROPERTIES DualOrRejected
