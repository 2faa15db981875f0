SPECIFICATION Spec
CONSTANTS
  Requests <- MCRequests
  UserTemplates <- MCTemplates
  MaxCommands = 2
  MaxKills = 1
  MaxEdits = 1
INVARIANTS TypeOK NewFilesWhole
PROPERTIES AlignedWhenDone DeliversRequest ForeignFilesKept
CHECK_DEADLOCK FALSE
