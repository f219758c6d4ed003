SPECIFICATION Spec
CONSTANTS
  first = first  second = second  undo = undo
  planner = planner  rival = rival  owner = owner
  Requests = {first, second, undo}
  Planners = {planner}
  Owners = {}
  Plans <- AllPlans
  Needs <- AfterFirst
  Original <- UndoesFirst
  Rank <- InOrder
  MaxAttempts <- TwiceFirst
INVARIANT DependenciesFirst
