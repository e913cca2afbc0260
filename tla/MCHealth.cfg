SPECIFICATION Spec
CONSTANTS
  Reporters = {imap}
  Beaters = {fs}
  brief = brief
  long = long
  Lanes = {brief}
  Timeout <- MCTimeout
  Stale = 2
  Progress = 3
  Grace = 1
  Period = 2
  MaxFaults = 1
INVARIANTS FedInTime StatusShown
PROPERTIES PingMeansAlive DeathNoticed
