CONSTANTS
  t1 = t1
  t2 = t2
  old = old
  forum = forum
  k1 = k1
  k2 = k2
  Threads = {t1, t2, old}
  Old = {old}
  Forum = forum
  Requests <- AllRequests
  NoThread = NoThread
  NoRequest = NoRequest
  PruneLimit = 1
  Limits <- SafetyLimits
SPECIFICATION Spec
INVARIANTS
  TypeOK
  AnswersAreProjected
  PendingIsDiscoverable
  CarriedOutOnce
  ProjectionFollowsCanonical
PROPERTIES
  ReceiptsAreKept
  ImplementsPlanLog
CHECK_DEADLOCK FALSE
