SPECIFICATION Spec
CONSTANTS
  p1 = p1
  p2 = p2
  r1 = r1
  r2 = r2
  r3 = r3
  project = project
  organization = organization
  sessions = sessions
  Process = {p1}
  Quota = {project, organization}
  Limit <- LimitOf
  Windows = 1
  Flush = flush
  Request = {r1, r2, r3}
  ProcessOf <- OnFirst
  Asks <- Events
  Units <- OneEach
  Keyed = {r1, r2}
  KeyLimit = 1
INVARIANTS TypeOK UnitsConserved
PROPERTY GrantsWithinLimit
CHECK_DEADLOCK FALSE
