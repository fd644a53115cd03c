SPECIFICATION FairSpec
CONSTANTS
  d1 = d1
  d2 = d2
  d3 = d3
  d4 = d4
  d5 = d5
  e1 = e1
  e2 = e2
  e3 = e3
  e4 = e4
  e5 = e5
  r1 = r1
  r2 = r2
  r3 = r3
  r4 = r4
  Issue = {1, 2}
  EventId = {e1, e2, e4, e5}
  Delivery = {d1, d2, d4, d5}
  IdOf <- SentAgain
  GroupOf <- ByIssue
  Earlier = {d1, d2}
  Request = {r1, r4}
  KindOf <- MergesAndStatus
  Sweeper = sweeper
  None = None
  MaxRounds = 2
INVARIANT EventStoredOnce
PROPERTY EventuallyCounted
CHECK_DEADLOCK FALSE
