SPECIFICATION Spec
CONSTANTS
  AutofixRun = {a1,a2}
  Issue = {i1}
  Request = {q1}
  Branch = {b1}
  Job = {j1, j2}
  Worker = {w1, w2}
  None = None
  MaxAttempts = 2
  MaxFaults = 1
SYMMETRY Symmetry
CHECK_DEADLOCK FALSE
INVARIANTS OneExecutionPerRun SucceededShowsItsBranch 
