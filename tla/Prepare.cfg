CONSTANTS
    Workers = {w1}
    Options <- MCOptions
    Torn = Torn
    NoFile = NoFile
    MaxEdits = 2
    MaxCommands = 2
    MaxCrashes = 0
    Preparers = {p1, p2}
    Worlds = {"node", "node@2"}
    WorldOf <- MCWorldOf
    ExportOf <- MCExportOf
    Accepted <- MCAccepted
    MaxPrepares = 2
SPECIFICATION PrepareSpec
VIEW WithoutDist
SYMMETRY PreparersAlike
CONSTRAINT TwoEdits
CHECK_DEADLOCK FALSE
INVARIANTS PrepareInv PreparedOneArtifact
