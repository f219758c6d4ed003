SPECIFICATION SSpec
CONSTANTS
  Requests = {one, two}
  ResultIds = {first, second}
  Elsewhere = elsewhere
  MaxRevision = 1
  Ids = {"m1", "m2", "m3"}
  Events = {"e1", "e2"}
  SummaryIds = {"sum"}
  Candidates <- Consolidations
  MaxWrites = 4
  Hosts = {"h1", "h2"}
  Attachments = {"x"}
  Entries = {first, second}
  Users = {"u", "v"}
  MaxDocument = 4
CONSTRAINT InOrder
SYMMETRY Symmetry
CHECK_DEADLOCK FALSE
INVARIANTS
  JournalFollows
  ThoughtOnce
  SummariesStand
PROPERTIES
  FaultsForAReason
  RefinesExchange
  TerminalIsLast
  SentAsPermitted
  DecidedOnCurrent
  OneMeaning
