SPECIFICATION Spec
CONSTANTS
  Sources = {s1, s2}
  Recent = 1
  Capacity = 1
  MaxSignals = 3
  MaxFaults = 1
INVARIANTS OncePerResume ListenerHonest
PROPERTIES EveryResumeHeard
