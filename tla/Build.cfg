CONSTANTS
    Workers = {w1, w2}
    Options <- MCOptions
    Torn = Torn
    NoFile = NoFile
    MaxEdits = 1
    MaxCommands = 2
    MaxCrashes = 1
SPECIFICATION Spec
SYMMETRY WorkersAlike
CHECK_DEADLOCK FALSE
INVARIANTS BuildTypeOK ArtifactVerifies PackagesConsistent FetchDelivers
PROPERTY SchemaAsAsked
