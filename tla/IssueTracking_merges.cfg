SPECIFICATION Spec
CONSTANTS
  d1 = d1
  d2 = d2
  d3 = d3
  d4 = d4
  d5 = d5
  e1 = e1
  e2 = e2
  e3 = e3
  e4 = e4
  e5 = e5
  r1 = r1
  r2 = r2
  r3 = r3
  r4 = r4
  Issue = {1, 2, 3}
  EventId = {e1, e2, e3, e4, e5}
  Delivery = {d1, d2, d3, d4}
  IdOf <- AllDiffer
  GroupOf <- ByIssue
  Earlier = {d2, d3}
  Request = {r1, r2, r3}
  KindOf <- Merges
  Sweeper = sweeper
  None = None
  MaxRounds = 2
INVARIANTS NeverUndercounted CountsExact ChainFlat MergesNeverDeadlock CountFollowsEvent
CHECK_DEADLOCK FALSE
