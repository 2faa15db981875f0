CONSTANTS
    h1 = h1  h2 = h2  g1 = g1  g2 = g2
    Threads = {t1, t2}
    Handles = {h1, h2}
    Contexts <- MCContexts
    Configs = {g1, g2}
    Valid <- MCValid
    Rights <- MCRights
    Keys = {"key"}
    Values = {"text", "note"}
    Payload <- OwnPayload
    Stored <- MCStored
    Text = {"text", "note"}
    Absent = Absent
    Unbound = Unbound
    NoTenant = NoTenant
    Free = Free
    Nothing = Nothing
SPECIFICATION Spec
INVARIANT StateIsTenantScoped
