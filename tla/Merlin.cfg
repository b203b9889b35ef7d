SPECIFICATION Spec
CONSTANTS
    Objects = {1, 2, 3}
    Graphs <- AllGraphs
    Times = {1, 2, 3}
    Never = 99
    Trace <- FiveRecords
INVARIANTS TypeOK DeathTimesRight SearchInvariant DeathsPlaced
PROPERTY Terminates
