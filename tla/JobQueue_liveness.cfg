SPECIFICATION LightLoadSpec
CONSTANTS
  Job = {j1, j2}
  Type = {sweep, alert, autofix}
  Recurring = {sweep}
  Slow = {autofix}
  Key = {sweep}
  None = None
  Worker = {w1}
  Slot = {s1}
  SlowSlot = slow
  Concurrency = 1
  MaxAttempts <- AttemptsTwo
  SweepMaxAttempts = 2
  MaxFaults = 1
PROPERTIES EveryJobSettles RecurringKeepsRunning
