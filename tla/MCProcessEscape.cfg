SPECIFICATION CallersSpec
CONSTANTS
  Members <- MCMembers
  Escapees <- MCEscapees
  Limit = 2
  MaxOut = 2
PROPERTY BoundedRuntime
