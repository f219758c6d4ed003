SPECIFICATION SSpec
CONSTANTS
  client1 = client1  client2 = client2
  Clients = {client1, client2}
  Requests <- AskedFor
  TokenBudget = 10  ComputeBudget = 6
  Reserve = 1
  DepthCost <- Costs
  Actuals = {0, 5}
  MaxRevision = 1
  Learnings = {l1, l2}
  Proposes <- Suggested
  Commands = {1, 2, 3}
  Minimum = 2
  Confidences = {10, 14}
  MaxGrowth = 3
  ReadingOrder <- SourceOrder
  Items <- SourceItems
  Whole = "state"
  Required = {"state"}
  Protected = {"identity"}
  Cost <- ItemCosts
  CandidateLimit = 4  SourceLimit <- Limits  FragmentLimit = 3  TokenLimit = 4
  MaxChanges = 2
  Snapshots = {"s"}
  Material <- SnapshotClaims
  Evidence = {"fact", "notice"}
  Basis <- EvidenceBasis
  Grounds <- EvidenceSources
CONSTRAINTS InOrder Audited
SYMMETRY Symmetry
CHECK_DEADLOCK FALSE
INVARIANTS
  AccountsBalance
  TraitsFollowFacts
  OneActiveTrait
  ResolvedForGood
  ContextIsACut
  RequiredOrNothing
  HistoriesAreLegal
  ReopenedOnNews
