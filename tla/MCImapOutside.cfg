SPECIFICATION Safety
CONSTANTS
  Worlds <- MCOutside
  MaxChanges = 2
  MaxFaults = 2
INVARIANT NothingPassedOver
