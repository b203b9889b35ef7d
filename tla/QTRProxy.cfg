SPECIFICATION Spec
CONSTANTS
    t1 = t1
    t2 = t2
    o1 = o1
    o2 = o2
    Hook = hook
    Null = null
    NoOne = noone
    Threads = {t1, t2}
    Objects <- MCObjects
    Hash <- MCHash
    BUFMAX = 2
    MaxCalls = 3
    Calls <- EveryHandler
    Faults = FALSE
INVARIANTS TypeOK MxProtects NoReentry TraceFaithful ShutdownFlushesAll IdsDistinct
PROPERTIES ImplementsTraceLog MxReleased
