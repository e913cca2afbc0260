SPECIFICATION PSpec
CONSTANTS
  s1 = s1
  s2 = s2
  a = a
  b = b
  Sources <- MCSources
  ResumeSources <- MCResume
  Commands <- MCCommands
  Configured <- MCCommands
  Interval <- MCInterval
  CmdOf <- MCCmdOf
  Cap = 1
  EventCap = 1
INVARIANT NoLostWakeup
PROPERTY MinIntervalRespected
PROPERTY KeepsLaneTerms
PROPERTY EveryEventServed
PROPERTY EverybodyStops
