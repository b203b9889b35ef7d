SPECIFICATION Spec
CONSTANTS
    Names = {n1, n2, n3}
    Ids = {0, 1, 2}
    FieldIds = {f1, f2, f3}
    NoName = none
    MaxLines = 4
INVARIANTS TypeOK ClassFound OneOwner AtMostOneDisplaced
