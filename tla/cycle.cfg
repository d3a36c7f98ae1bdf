SPECIFICATION FairSpec
CONSTANTS
  Refresh = 3
  Retry = 2
  Lease = 0
  Freshness = 1
  Period = 1
  EvidenceLimit = 1
  OutcomeLimit = 1
  MaxFeedback = 2
  MaxReviews = 3
  LastMail = 2
  MaxGrowth = 1
  MaxFlips = 1
  MaxCrashes = 1
INVARIANTS TypeOK NoGrowthTwice
PROPERTIES CooldownKept  
CHECK_DEADLOCK FALSE
