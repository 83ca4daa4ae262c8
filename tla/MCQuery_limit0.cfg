\* Reproduction: LIMIT 0 returns every row.
CONSTANTS
    Vals = {0, 1}
    MaxRows = 2
    Queries <- QLimit0
    Undef = Undef
SPECIFICATION Spec
INVARIANT
    SelectMatchesReference
