SPECIFICATION SFairSpec
CONSTANTS
  first = first  second = second  third = third
  host1 = host1  host2 = host2
  Hosts = {host1, host2}
  Commands <- OwnerCommands
  MaxLosses = 1
  Events = {e1}
  MaxRevision = 1
  MaxRound = 1
  MaxAttempts = 2
  MaxLost = 1
CHECK_DEADLOCK FALSE
INVARIANTS
  AtMostOneLateStage
  OneThoughtPerNeed
  UsageIsTrue
  EndsAreTrue
PROPERTIES
  ControlTakesEffect
  CognitionEnds
