\* Reproduction: HAVING on a GROUP BY column is ignored.
CONSTANTS
    Vals = {0, 1}
    MaxRows = 2
    Queries <- QHavingGroup
    Undef = Undef
SPECIFICATION Spec
INVARIANT
    SelectMatchesReference
