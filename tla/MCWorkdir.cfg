\* One controller, two objects, two failures; the ticker keeps firing.
SPECIFICATION FairSpec
CONSTANTS
    o1 = o1
    o2 = o2
    cache = cache
    Objects = {o1, o2}
    ScopeOf <- AllNamespaced
    Scopes = {"namespaced"}
    Others = {cache}
    GitCreds = {o1}
    MaxFaults = 2
INVARIANTS
    TypeOK
PROPERTIES
    KnownDirsKept
    StaleCollected
