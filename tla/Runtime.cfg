CONSTANTS
    h1 = h1  h2 = h2  g1 = g1  g2 = g2
    Threads = {t1, t2}
    Handles = {h1, h2}
    Contexts <- MCContexts
    Configs = {g1, g2}
    Valid <- MCValid
    Rights <- MCRights
    Keys = {"key"}
    Values = {"loose", "text", "binary"}
    Payload <- SharedPayload
    Stored <- MCStored
    Text = {"text", "loose"}
    Absent = Absent
    Unbound = Unbound
    NoTenant = NoTenant
    Free = Free
    Nothing = Nothing
SPECIFICATION Spec
INVARIANTS RuntimeTypeOK BindingsAreOwn
PROPERTIES ImplementsSharedState LocksAreReleased
