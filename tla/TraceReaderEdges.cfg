SPECIFICATION Spec
CONSTANTS
    Ids <- Two
    FieldIds = {1}
    ThreadIds = {7}
    Sizes = {6}
    Word = 8
    MaxTrace = 5
INVARIANT UpdatePerformed
