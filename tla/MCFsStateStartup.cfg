SPECIFICATION Safety
CONSTANTS
  UserStates = {u1, u2}
  OwnStates = {o1, o2}
  EventCap = 1
CHECK_DEADLOCK FALSE
INVARIANT FailedRunStaysDirty
