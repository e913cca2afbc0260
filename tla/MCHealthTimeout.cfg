SPECIFICATION Spec
CONSTANTS
  Reporters = {imap}
  Beaters = {}
  brief = brief
  long = long
  Lanes = {brief, long}
  Timeout <- MCTimeout
  Stale = 2
  Progress = 2
  Grace = 1
  Period = 2
  MaxFaults = 1
PROPERTY NoPingPastTimeout
