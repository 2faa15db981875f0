CONSTANTS
    Steps = {1, 2, 3}
    Keys = {}
    SecretKeys = {}
    Modes <- MCModes
    Subjects <- MCSubjects
    Schemas <- MCSchemas
    ConfigValues <- MCValues
SPECIFICATION DoctorSpec
CHECK_DEADLOCK FALSE
INVARIANTS DoctorInv InspectAgrees InterruptNeedsLateStep MemoryBlameIsOwn
PROPERTY NodeChecksEnd
