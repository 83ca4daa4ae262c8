\* Reproduction: a cross join with an empty table reads an RID no scan set.
CONSTANTS
    Vals = {0, 1}
    MaxRows = 2
    Queries <- QCross
    Undef = Undef
SPECIFICATION Spec
INVARIANT
    NoUndefinedRead
