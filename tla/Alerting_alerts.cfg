SPECIFICATION Spec
CONSTANTS
  Event = {e1}
  Issue = {i1}
  Rule = {r1}
  Delivery = {d1, d2}
  Job <- AllJobs
  Worker = {w1, w2}
  None = None
  MaxAttempts = 2
  MaxFaults = 2
  TriggerSets <- OneSet
  Threshold = 1
  MaxTurns = 1
SYMMETRY Symmetry
CHECK_DEADLOCK FALSE
INVARIANTS OneAlertPerCooldown  UnsettledHasJob
PROPERTIES SettledIsFinal 
