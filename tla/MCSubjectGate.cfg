SPECIFICATION GSpec
CONSTANTS
  e1 = e1  e2 = e2  c1 = c1  c2 = c2  c3 = c3
  a = a
  owner = owner  other = other  subject = subject
  EventIds = {e1, e2}
  CommandIds = {c1, c2, c3}
  Items = {a}
  Principals = {owner, other, subject}
  Subject = subject
  MaxTime = 1
  Writers = {w1, w2}
  Requests <- SubjectRequests
  ArchiveConfigured = TRUE
  AllowDelete = TRUE
  Retention = 1
  Permissions = {"p"}
  Grants = {"UPDATE_STATE"}
  Wakes = {"wake"}
  MaxGate = 2
  MaxExperience = 1
  Numbers = {1, 2, 3}
  Intents = {"item"}
  Learnings <- Drawn
  none = none
  MaxMatter = 1
  MaxCourse = 3
CONSTRAINTS InOrder OneField OneAstray
SYMMETRY Symmetry
INVARIANTS
  DurableAnswer
  Consistent
  NeverWidened
  ActsOnWhatItKnew
  MattersEndOnce
  ConclusionsAreAnswered
PROPERTY RefinesHistory
