\* The statements the code answers right, over every database of at most
\* two records per table with values 0 and 1.
CONSTANTS
    Vals = {0, 1}
    MaxRows = 2
    Queries <- QOk
    Undef = Undef
SPECIFICATION Spec
INVARIANTS
    TypeOK
    SelectMatchesReference
    NoUndefinedRead
