SPECIFICATION Spec
CONSTANTS
  MaxSeconds = 10000
  Break = "CRLF"
  NotFound <- MCNotFound
  Configs <- MCConfigs
  MaxSignals = 2
  MaxFaults = 2
  Terminate = 2
  Grace = 3
INVARIANTS AcceptedConfigWires TestRunsTheCommand ReadyMeansReady ExitCodes StopsCleanly
PROPERTIES StartupReleased AuthFailureStops
