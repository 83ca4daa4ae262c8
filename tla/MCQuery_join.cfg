\* Reproduction: an inner join with a condition emits its first pair unchecked.
CONSTANTS
    Vals = {0, 1}
    MaxRows = 2
    Queries <- QJoin
    Undef = Undef
    DBs <- NonEmptyDBs
SPECIFICATION Spec
INVARIANT
    SelectMatchesReference
