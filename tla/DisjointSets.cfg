SPECIFICATION Spec
CONSTANTS
    o1 = o1
    o2 = o2
    o3 = o3
    o4 = o4
    Objects = {o1, o2, o3, o4}
    Nothing = nothing
INVARIANTS TypeOK SetsExact
PROPERTY ImplementsPartition
