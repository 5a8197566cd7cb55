\* One scope of two installed; a Workspace, a ProviderConfig and a
\* ClusterProviderConfig.
SPECIFICATION FairSpec
CONSTANTS
    w1 = w1
    w2 = w2
    pc = pc
    cpc = cpc
    Scopes = {"namespaced", "cluster"}
    Installed <- NamespacedOnly
    Scope = "namespaced"
    Workspaces = {w1}
    Configs = {pc, cpc}
    Guarded = {pc}
    BadRef = BadRef
    NoConfig = NoConfig
    MaxFaults = 1
    MaxEdits = 2
CHECK_DEADLOCK FALSE
INVARIANTS
    TypeOK
    GateHolds
PROPERTIES
    UsersKeepConfig
    UnusedConfigGoes
    DeletedWorkspaceGoes
    ServesInstalled
    CollectsAnyway
