\* Two callers under fair scheduling; a context expires, or pluginCache is
\* switched.
SPECIFICATION FairSpec
CONSTANTS
    c1 = c1
    c2 = c2
    Callers = {c1, c2}
    Nobody = Nobody
    NoCommand = NoCommand
    MaxExpiries = 1
    MaxToggles = 1
    MaxEvents = 1
INVARIANTS
    TypeOK
    NoLockLeaked
    NobodyStuck
    InitAlone
    StableUndisturbed
PROPERTIES
    ImplementsPluginCache
    CommandsAdvance
    ReconcileEnds
