SPECIFICATION Spec
CONSTANTS
  Job = {j1, j2, j3}
  Type = {sweep, alert}
  Recurring = {sweep}
  Slow = {}
  Key = {sweep, k1}
  None = None
  Worker = {w1, w2}
  Slot = {s1}
  SlowSlot = slow
  Concurrency = 1
  MaxAttempts <- AttemptsTwo
  SweepMaxAttempts = 2
  MaxFaults = 1
SYMMETRY Symmetry
INVARIANTS OutcomeFindsItsAttempt NoConcurrentTwins AttemptsBounded
 
