CONSTANTS
  s1 = s1
  s2 = s2
  NoSpotlight = NoSpotlight
  SpotlightFaults = 1
  FollowerFaults = 1
  MaxFollows = 0
  MaxSequence = 2
SPECIFICATION FairSpec
PROPERTIES
  QueuedIsTried
  ActivityIsCovered
