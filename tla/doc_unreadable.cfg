SPECIFICATION FairSpec
CONSTANTS
  DegradeThreshold = 3
  MaxAttempts = 3
  Debounce = 3
  PrimaryStates = {"up", "down"}
  SecondaryStates = {"up", "unreadable"}
  MaxSends = 1
  MaxRestarts = 0
PROPERTIES UnreadableShutsDown
