SPECIFICATION FairSpec
CONSTANTS
  AutofixRun = {a1}
  Issue = {i1}
  Request = {q1}
  Branch = {b1, b2}
  Job = {j1, j2, j3}
  Worker = {w1}
  None = None
  MaxAttempts = 2
  MaxFaults = 1
CHECK_DEADLOCK FALSE
INVARIANTS MergedPassedCI
 
