SPECIFICATION Spec
CONSTANTS
  Worlds <- MCTameOrWild
  MaxChanges = 3
  MaxFaults = 4
INVARIANT NoMissedChange
INVARIANT ImapReportsHonestly
PROPERTY EventuallyActed
PROPERTY ImapStops
