CONSTANTS
  s1 = s1
  s2 = s2
  NoSpotlight = NoSpotlight
  SpotlightFaults = 1
  FollowerFaults = 0
  MaxFollows = 0
  MaxSequence = 0
SPECIFICATION DeliverySpec
INVARIANTS
  DeferredIsNotStranded
