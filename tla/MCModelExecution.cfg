SPECIFICATION FairSpec
CONSTANTS
  r1 = r1
  r2 = r2
  Requests <- TwoRequests
  Costs = {1}
  PerLimit = 1
  DailyLimit = 1
  Retried <- OneRequest
  MaxAttempts = 2
  MaxDay = 1
  MaxLosses = 2
INVARIANT ExecutedOnce
INVARIANT SuccessIsAccounted
CHECK_DEADLOCK FALSE
PROPERTY RequestsSettle
