SPECIFICATION Spec
CONSTANTS
  Plans = {1, 2}
  Errors = {e1, e2}
  RetryDelay = 2
  MaxSequence = 2
  MaxChanges = 5
  NoPlan = NoPlan
  Manual = Manual
INVARIANTS TypeOK ReportedOnce RememberedWasWritten
PROPERTIES LightsFollowPlan LastingFailureReported
