\* Two Workspaces, two goroutines.
SPECIFICATION Spec
CONSTANTS
    w1 = w1
    w2 = w2
    m1 = m1
    m2 = m2
    d1 = d1
    d2 = d2
    Workspaces = {w1, w2}
    Modules = {m1, m2}
    Deep = {m2}
    Data = {d1, d2}
    Clashes <- SomeClashes
    Missing = Missing
    Unset = Unset
    Specs <- SomeSpecs
    Configs <- SomeConfigs
    OneAtATime = FALSE
    MaxFaults = 1
    MaxEdits = 1
INVARIANTS
    OwnGitCredentials
