CONSTANTS
  lg = lg
  r1 = r1
  r2 = r2
  c1 = c1
  Runs = {lg, r1, r2}
  Spotlight = {lg, r2}
  Legacy = lg
  NoRun = NoRun
  Callers = {c1}
  MaintOps = {"compact", "clear_history", "clear_storage"}
  Limits <- RaceLimits
SPECIFICATION Spec
INVARIANTS
  TypeOK
  SettledRunHasFinalEvent
  PublishingRunHoldsRow
  OneLiveVisit
  AtMostOneFinalEvent
  RunningRowIsJournaled
  ScheduleFollowsPause
  MaintenanceRunsAlone
PROPERTIES
  SettledMeansReleased
  SpotlightKeepsSchedule
  ImplementsVisitFence
  StoppedRunIsNotCompleted
  PausePrecedesSuccessor
CHECK_DEADLOCK FALSE
