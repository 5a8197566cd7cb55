\* Two objects, each with a Terraform workspace of its own.
SPECIFICATION Spec
CONSTANTS
    w1 = w1
    w2 = w2
    n0 = n0
    n1 = n1
    n2 = n2
    r1 = r1
    r2 = r2
    p1 = p1
    p2 = p2
    Workspaces = {w1, w2}
    Names = {n0, n1, n2}
    Default = n0
    NameOf <- OwnNames
    Modules <- OneModule
    Remote = {}
    Resources = {r1}
    Providers = {p1}
    InitArgs = {a1}
    NoArgs = NoArgs
    NoChecksum = NoChecksum
    MaxFaults = 1
    MaxEdits = 0
INVARIANTS
    NoOrphans
PROPERTIES
    ChangedByOwner
    FinalizerHeld
    ImplementsContract
SYMMETRY Exchange
