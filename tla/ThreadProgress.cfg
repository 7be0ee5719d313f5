CONSTANTS
  t1 = t1
  t2 = t2
  old = old
  forum = forum
  k1 = k1
  k2 = k2
  Threads = {t1}
  Old = {}
  Forum = forum
  Requests <- DistinctKeys
  NoThread = NoThread
  NoRequest = NoRequest
  PruneLimit = 1
  Limits <- ProgressLimits
SPECIFICATION FairSpec
PROPERTIES
  EveryPlanIsProjected
  ReceiptsArePruned
CHECK_DEADLOCK FALSE
