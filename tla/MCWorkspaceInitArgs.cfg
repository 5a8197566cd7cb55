\* One object whose initArgs are edited.
SPECIFICATION Spec
CONSTANTS
    w1 = w1
    w2 = w2
    n0 = n0
    n1 = n1
    n2 = n2
    r1 = r1
    r2 = r2
    p1 = p1
    p2 = p2
    Workspaces = {w1}
    Names = {n0, n1}
    Default = n0
    NameOf <- OwnNames
    Modules <- OneModule
    Remote = {}
    Resources = {r1}
    Providers = {p1}
    InitArgs = {a1, a2}
    NoArgs = NoArgs
    NoChecksum = NoChecksum
    MaxFaults = 0
    MaxEdits = 1
INVARIANTS
    InitArgsApplied
