SPECIFICATION Spec
CONSTANTS
  UserStates = {u1, u2}
  OwnStates = {o1, o2}
  EventCap = 1
INVARIANT NothingMissed
PROPERTY NoSelfTrigger
PROPERTY RetriesFailedRun
CHECK_DEADLOCK FALSE
