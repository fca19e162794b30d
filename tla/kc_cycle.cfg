SPECIFICATION FairSpec
CONSTANTS
  DegradeThreshold = 3
  MaxAttempts = 3
  Debounce = 3
  PrimaryStates = {"up", "down"}
  SecondaryStates = {"up", "lagging", "unreadable", "down"}
  MaxSends = 2
  MaxRestarts = 1
PROPERTIES SingleTrustIsEarned EmergencyShutsDown SecondaryComesBack
