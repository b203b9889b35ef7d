SPECIFICATION Spec
CONSTANTS
    Threads = {t1, t2}
    A = A B = B f = f g = g
    Classes = {A, B}
    Names = {f, g}
    Behaviors <- TwoClasses
    MaxLoads = 3
INVARIANTS TypeOK NumbersDistinct TraceResolved ClassesResolved
