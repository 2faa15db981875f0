CONSTANTS
    Workers = {w1}
    Options <- PlainBuild
    Torn = Torn
    NoFile = NoFile
    MaxEdits = 1
    MaxCommands = 2
    MaxCrashes = 0
SPECIFICATION Spec
CHECK_DEADLOCK FALSE
PROPERTY EmbeddedMetadataCurrent
