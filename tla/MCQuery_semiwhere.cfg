\* Reproduction: a cross-table WHERE of a semi join is dropped.
CONSTANTS
    Vals = {0, 1}
    MaxRows = 2
    Queries <- QSemiWhere
    Undef = Undef
SPECIFICATION Spec
INVARIANT
    SelectMatchesReference
