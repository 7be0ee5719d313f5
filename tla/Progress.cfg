CONSTANTS
  lg = lg
  r1 = r1
  r2 = r2
  c1 = c1
  Runs = {lg, r1}
  Spotlight = {}
  Legacy = lg
  NoRun = NoRun
  Callers = {c1}
  MaintOps = {}
  Limits <- ProgressLimits
SPECIFICATION FairSpec
PROPERTIES
  AbandonedRowIsReleased
  AbandonedJournalSettles
  StopIsCarriedOut
CHECK_DEADLOCK FALSE
