CONSTANTS
    c1 = c1  c2 = c2  v1 = v1  v2 = v2  noPin = noPin
    Clients = {c1, c2}
    Locators = {"relative"}
    Sources = {"file1", "file2"}
    Contents = {v1, v2}
    Policies <- MCPolicies
    Resolve <- MCResolve
    NoPin = noPin
    NoFile = noFile
    Empty = empty
    Garbled = garbled
    MaxFaults = 1
    MaxPublishes = 1
SPECIFICATION Spec
INVARIANTS TypeOK ResultsVerified DigestFilesIntact ImmutablePinServed
PROPERTY ImplementsTable
