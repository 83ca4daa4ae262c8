\* Reproduction: the zero COUNT row of an empty input ignores HAVING.
CONSTANTS
    Vals = {0, 1}
    MaxRows = 2
    Queries <- QHavingEmpty
    Undef = Undef
SPECIFICATION Spec
INVARIANT
    SelectMatchesReference
