SPECIFICATION Spec
CONSTANTS
  first = first  second = second  undo = undo
  planner = planner  rival = rival  owner = owner
  Requests = {first}
  Planners = {planner, rival}
  Owners = {owner}
  Plans <- OnePlan
  Needs <- AfterFirst
  Original <- UndoesFirst
  Rank <- InOrder
  MaxAttempts <- Once
PROPERTY RefinesEffect
SYMMETRY Alike
