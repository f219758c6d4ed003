SPECIFICATION Spec
CONSTANTS
  urgent = urgent  routine = routine  spare = spare
  client = client  ticker = ticker  rival = rival
  Tasks = {urgent}
  Clients = {client}
  Tickers = {ticker, rival}
  Priority <- TaskPriority
  DueIn <- DueAtOnce
  MaxAttempts <- Twice
  Capacity = 1
  ScanLimit = 1
  RetryBase = 1
  Aging = 1
  Unwanted = {urgent}
  Responsive = {urgent}
  Horizon = 1
  MaxFaults = 1
INVARIANTS
  NoAttemptLeftOpen
  ReportsAreDurable
PROPERTY RefinesDelivery
