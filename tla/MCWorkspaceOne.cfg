\* One object, two modules it may switch between, any fault, fair scheduling.
SPECIFICATION FairSpec
CONSTANTS
    w1 = w1
    w2 = w2
    n0 = n0
    n1 = n1
    n2 = n2
    r1 = r1
    r2 = r2
    p1 = p1
    p2 = p2
    Workspaces = {w1}
    Names = {n0, n1}
    Default = n0
    NameOf <- OwnNames
    Modules <- TwoModules
    Remote <- OneFetched
    Resources = {r1, r2}
    Providers = {p1, p2}
    InitArgs = {a1}
    NoArgs = NoArgs
    NoChecksum = NoChecksum
    MaxFaults = 1
    MaxEdits = 2
INVARIANTS
    TypeOK
    InitSound
    DestroyNeedsResources
PROPERTIES
    ReadyMeansApplied
    WantedKept
    ImplementsContract
    DeletionCompletes
    SpecApplied
