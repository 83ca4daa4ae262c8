\* Reproduction: two COUNTs over an empty table read past the zero record.
CONSTANTS
    Vals = {0, 1}
    MaxRows = 2
    Queries <- QCount0
    Undef = Undef
SPECIFICATION Spec
INVARIANT
    NoUndefinedRead
