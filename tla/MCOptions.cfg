\* Two variables and values, seven specs, up to three var files, two edits.
SPECIFICATION Spec
CONSTANTS
    x = x
    y = y
    v1 = v1
    v2 = v2
    f1 = f1
    f2 = f2
    Unset = Unset
    NoFile = NoFile
    Variables = {x, y}
    Values = {v1, v2}
    Refs = {f1, f2}
    Files <- MCFiles
    Specs <- MCSpecs
    MaxEdits = 2
INVARIANTS
    
    AppliesThePlan
