SPECIFICATION Spec
CONSTANTS
  s1 = s1
  s2 = s2
  s3 = s3
  a = a
  b = b
  Sources <- MCSources
  Commands <- MCCommands
  Configured <- MCConfigured
  Interval <- MCInterval
  CmdOf <- MCCmdOf
  Cap = 1
INVARIANT RequestPlaces
INVARIANT PhaseHonest
PROPERTY NoSecondRunAfterShutdown
PROPERTY EveryRequestAnswered
PROPERTY ShutdownStopsLane
PROPERTY ImplementsService
