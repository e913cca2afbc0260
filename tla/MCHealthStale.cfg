SPECIFICATION Safety
CONSTANTS
  Reporters = {gmail}
  Beaters = {}
  brief = brief
  long = long
  Lanes = {brief}
  Timeout <- MCTimeout
  Stale = 2
  Progress = 4
  Grace = 1
  Period = 2
  MaxFaults = 0
INVARIANT FedWhileAtWork
