SPECIFICATION Spec
CONSTANTS
  r1 = r1
  r2 = r2
  Requests <- OneRequest
  Costs <- SomeCosts
  PerLimit = 1
  DailyLimit = 2
  Retried = {}
  MaxAttempts = 1
  MaxDay = 0
  MaxLosses = 0
INVARIANT OverrunStaysOut
CHECK_DEADLOCK FALSE
