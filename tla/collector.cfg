SPECIFICATION FairSpec
CONSTANTS
  LastMessage = 9
  Scoped = {1, 2, 4, 5, 8, 9}
  Malformed = {2}
  Unfetchable = {4}
  FeedSize = 3
  MaxMessages = 2
  MaxSeen = 6
  MaxFaults = 2
INVARIANTS SeenIsStored
 
CHECK_DEADLOCK FALSE
