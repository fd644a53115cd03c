SPECIFICATION Spec
CONSTANTS
  s1 = s1
  s2 = s2
  u1 = u1
  u2 = u2
  u3 = u3
  u4 = u4
  g1 = g1
  x1 = x1
  Session = {s1, s2}
  User = {x1}
  Update = {u1, u2, u3, u4}
  Aggregate = {g1}
  SessionOf <- Sessions
  OutcomeOf <- Outcomes
  CountsOf <- Summed
  UserOf <- Users
  Started <- Starts
  MaxAge = 0
  Retention = 0
  MaxDay = 2
  Cleaner = cleaner
  None = None
CHECK_DEADLOCK FALSE
INVARIANTS BucketsAddUp WorstWins  UpdatesNeverDeadlock
