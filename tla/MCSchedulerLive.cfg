SPECIFICATION FairSpec
CONSTANTS
  urgent = urgent  routine = routine  spare = spare
  client = client  ticker = ticker  rival = rival
  Tasks = {urgent, routine, spare}
  Clients = {client}
  Tickers = {ticker}
  Priority <- TaskPriority
  DueIn <- SpareLater
  MaxAttempts <- Once
  Capacity = 2
  ScanLimit = 1
  RetryBase = 1
  Aging = 1
  Unwanted = {}
  Responsive = {routine}
  Horizon = 1
  MaxFaults = 0
INVARIANT WithinCapacity
PROPERTY ResponsiveTasksEnd
