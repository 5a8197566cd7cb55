\* One context expires while init waits for the lock.
SPECIFICATION Spec
CONSTANTS
    c1 = c1
    c2 = c2
    Callers = {c1, c2}
    Nobody = Nobody
    NoCommand = NoCommand
    MaxExpiries = 1
    MaxToggles = 0
    MaxEvents = 1
INVARIANTS
    PluginsStable
