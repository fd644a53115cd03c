SPECIFICATION FairSpec
CONSTANTS
  p1 = p1
  p2 = p2
  r1 = r1
  r2 = r2
  r3 = r3
  project = project
  organization = organization
  sessions = sessions
  Process = {p1, p2}
  Quota = {sessions}
  Limit <- LimitOf
  Windows = 2
  Flush = flush
  Request = {r1, r2, r3}
  ProcessOf <- OnTwo
  Asks <- Sessions
  Units <- BatchSizes
  Keyed = {}
  KeyLimit = 1
INVARIANT UnitsConserved
 
CHECK_DEADLOCK FALSE
