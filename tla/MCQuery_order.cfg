\* Reproduction: ORDER BY sorts on the child offset of the column.
CONSTANTS
    Vals = {0, 1}
    MaxRows = 2
    Queries <- QOrder
    Undef = Undef
SPECIFICATION Spec
INVARIANT
    SelectMatchesReference
