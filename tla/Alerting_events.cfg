SPECIFICATION FairSpec
CONSTANTS
  Event = {e1, e2}
  Issue = {i1}
  Rule = {r1}
  Delivery = {d1}
  Job <- AllJobs
  Worker = {w1}
  None = None
  MaxAttempts = 2
  MaxFaults = 1
  TriggerSets <- OneSet
  Threshold = 2
  MaxTurns = 0
CHECK_DEADLOCK FALSE
PROPERTIES EventuallyAlerted EveryAlertSettles
