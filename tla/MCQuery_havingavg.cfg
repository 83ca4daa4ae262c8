\* Reproduction: HAVING AVG compares the running sum.
CONSTANTS
    Vals = {0, 1}
    MaxRows = 2
    Queries <- QHavingAvg
    Undef = Undef
SPECIFICATION Spec
INVARIANT
    SelectMatchesReference
