\* Both controllers, an object of each scope.
SPECIFICATION Spec
CONSTANTS
    o1 = o1
    o2 = o2
    cache = cache
    Objects = {o1, o2}
    ScopeOf <- OneOfEach
    Scopes = {"namespaced", "cluster"}
    Others = {cache}
    GitCreds = {o1}
    MaxFaults = 0
PROPERTIES
    KnownDirsKept
