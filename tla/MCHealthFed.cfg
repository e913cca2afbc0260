SPECIFICATION Safety
CONSTANTS
  Reporters = {imap}
  Beaters = {fs}
  brief = brief
  long = long
  Lanes = {brief}
  Timeout <- MCTimeout
  Stale = 2
  Progress = 2
  Grace = 1
  Period = 2
  MaxFaults = 1
INVARIANT FedThroughTimeouts
