SPECIFICATION Spec
CONSTANTS
  MaxSeconds = 10000
  Break = "CRLF"
  NotFound <- MCNotFound
  Configs <- Small
  MaxSignals = 1
  MaxFaults = 0
  Terminate = 2
  Grace = 3
PROPERTIES SignalStops
