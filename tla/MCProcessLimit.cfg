SPECIFICATION CallersSafety
CONSTANTS
  Members <- MCMembers
  Escapees <- MCNone
  Limit = 2
  MaxOut = 2
INVARIANT LimitLeavesNoGroup
