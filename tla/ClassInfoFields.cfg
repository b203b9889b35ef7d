SPECIFICATION Spec
CONSTANTS
    Names = {n1, n2}
    Ids = {1, 2}
    FieldIds = {f1, f2}
    NoName = none
    MaxLines = 2
PROPERTY NotYetInMap
