SPECIFICATION Spec
CONSTANTS
  e1 = e1  e2 = e2  c1 = c1  c2 = c2  c3 = c3
  a = a
  owner = owner  other = other  subject = subject
  EventIds = {e1, e2}
  CommandIds = {c1, c2, c3}
  Items = {a}
  Principals = {owner, other, subject}
  Subject = subject
  MaxTime = 1
  Writers = {w1, w2}
  Requests <- SubjectRequests
  ArchiveConfigured = TRUE
  AllowDelete = TRUE
  Retention = 1
INVARIANT ReplayReturnsCurrentState
