CONSTANTS
  lg = lg
  r1 = r1
  r2 = r2
  c1 = c1
  Runs = {lg, r1, r2}
  Spotlight = {r2}
  Legacy = lg
  NoRun = NoRun
  Callers = {c1}
  MaintOps = {"compact", "clear_history", "clear_storage"}
  Limits <- HungLimits
SPECIFICATION Spec
INVARIANTS
  AtMostOneFinalEvent
CHECK_DEADLOCK FALSE
