\* Reproduction: AVG of an INT column prints 0.
CONSTANTS
    Vals = {0, 1}
    MaxRows = 2
    Queries <- QAvg
    Undef = Undef
SPECIFICATION Spec
INVARIANT
    SelectMatchesReference
