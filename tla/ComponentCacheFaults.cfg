CONSTANTS
    lax = lax  strict = strict  v1 = v1  v2 = v2  empty = empty  garbled = garbled
    Clients = {lax, strict}
    SourceIds = {"id"}
    Locators = {"fs", "oci"}
    Contents = {v1, v2}
    Abis = {"abi-0", "abi-1"}
    Capabilities = {"messaging"}
    Meta <- MCMeta
    Policy <- MCPolicy
    NoFile = noFile
    NoLocator = noLocator
    Empty = empty
    Garbled = garbled
    Blank = blank
    Cut = cut
    MaxFaults = 1
    MaxPublishes = 1
SPECIFICATION Spec
INVARIANTS TypeOK ResultsCompatible HintsLeadToEntries EntriesIntact
PROPERTIES OnlyBlankHintsBlock HintFollowsResult ImplementsTable
