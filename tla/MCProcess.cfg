SPECIFICATION CallersSpec
CONSTANTS
  Members <- MCMembers
  Escapees <- MCNone
  Limit = 2
  MaxOut = 3
INVARIANT AnswerIsWhole
INVARIANT CapturedWithinLimit
INVARIANT OverflowReported
INVARIANT NoGroupLeft
PROPERTY BoundedRuntime
