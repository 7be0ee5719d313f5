CONSTANTS
  s1 = s1
  s2 = s2
  NoSpotlight = NoSpotlight
  SpotlightFaults = 3
  FollowerFaults = 2
  MaxFollows = 2
  MaxSequence = 2
SPECIFICATION Spec
INVARIANTS
  TypeOK
  ToldOnce
  DeliveredIsAccounted
  NeverSkipped
  NoSecondSummary
  AnswersAreTrue
  CallsAreAnswered
  NoBlindRepeat
