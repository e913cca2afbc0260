SPECIFICATION Safety
CONSTANTS
  Worlds <- MCTorn
  MaxChanges = 2
  MaxFaults = 2
INVARIANT NothingPassedOver
