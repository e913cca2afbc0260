SPECIFICATION Spec
CONSTANTS
  LabelLists <- MCLabelLists
  MailLabels = {"inbox", "work", "other"}
  MaxId = 3
INVARIANT NoMissedHistory
INVARIANT ReportsHonestly
PROPERTY EventuallySignalled
