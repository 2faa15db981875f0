CONSTANTS
    Dirs = {"here", "there"}
    MaxChanges = 1
SPECIFICATION Spec
CHECK_DEADLOCK FALSE
INVARIANTS DialogInv
PROPERTY RemovalConsented
