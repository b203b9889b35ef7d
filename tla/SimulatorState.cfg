SPECIFICATION Spec
CONSTANTS
    Ids = {1, 2}
    Sizes = {2}
    Word = 3
    Long = 5
    Never = 99
    NoMethod = null
    MaxObjects = 3
    ThreadIds = {t1, t2}
    Methods = {lib, app}
    LibMethods = {lib}
    Junk = {junk}
    MaxTime = 4
    MaxCalls = 6
SYMMETRY Symmetry
INVARIANTS TypeOK CountersAgree LiveSizeExact StacksInStep
PROPERTIES NonLibraryContext
